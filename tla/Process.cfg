SPECIFICATION MCSpec
SYMMETRY Symmetry
CONSTANTS
    r1 = r1
    r2 = r2
    r3 = r3
    a = a
    b = b
    w1 = w1
    w2 = w2
    Requests = {r1, r2, r3}
    Callers = {a, b}
    Kinds = {"write", "import", "export", "preview"}
    Limit <- TightLimits
    Nobody = Nobody
    Accounts = {a, b}
    x = x
    Strangers = {x}
    ResetWorkers = {w1, w2}
    QueueMax = 2
    MaxRequests = 4
    MaxCooldowns = 2
    NoAddress = NoAddress
    Workers = {w1, w2}
    MaxChanges = 5
    MaxTime = 3
    MaxFaults = 2
    None = None
INVARIANTS PermitsHold OneLinkPerCooldown DrainedIsIdle SettledHonours InvitedCanSignIn EndedStayRefused
