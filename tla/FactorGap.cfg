SPECIFICATION GapSpec
SYMMETRY Symmetry
CONSTANTS
    Workers = {w1, w2}
    Subs = {s1, s2}
    Declarations = {gap, whole}
    Complete = {whole}
    Sited = {whole}
    MaxVersions = 3
    MaxRenames = 1
    Loaders = {w1, w2}
    Clients = {c1}
    Files = {"first", "second", "third", "sample"}
    Loaded = {"first", "sample"}
    Keys = {"gas", "water"}
    Content <- ContentHere
    Unit <- UnitHere
    Rule <- RuleHere
    CandidateCap = 3
    Objects = {r1, r2}
    Tidiers = {w1, w2}
    SlowUploads = {r2}
    SlowRemovals = TRUE
    MaxIntents = 3
    d1 = d1
    p1 = p1
    Datasets = {d1, d2}
    Editions = {en, tr}
    Verdict <- VerdictHere
    Issuers = {r1}
    Printers = {p1}
    At <- OneReplica
    Nil = Nil
    None = None
INVARIANTS UnpricedMeansNoFactor
CHECK_DEADLOCK FALSE
