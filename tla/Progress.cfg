SPECIFICATION MCFairSpec
CONSTANTS
    Workers = {w1, w2}
    MaxChanges = 3
    MaxTime = 1
    MaxFaults = 1
    w1 = w1
    w2 = w2
    m1 = m1
    m2 = m2
    s1 = s1
    r1 = r1
    r2 = r2
    p1 = p1
    p2 = p2
    ada = ada
    bea = bea
    plant = plant
    Company = Company
    Whole = Whole
    ann = ann
    x = x
    Nobody = Nobody
    d1 = d1
    en = en
    None = None
PROPERTIES RequestsEnd SettlesAfterFaults
CHECK_DEADLOCK FALSE
