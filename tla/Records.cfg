SPECIFICATION MCSpec
SYMMETRY RequestSymmetry
CONSTANTS
    Records = {1, 2}
    Periods = {1, 2}
    Files = {}
    Users <- AuthorAndAdmin
    Role <- RolesHere
    EvidenceRequired = {}
    Values = {0}
    Sites = {0, 1}
    MaxLibrary = 2
    InitialRecords <- Starts
    None = None
    Procs = {p1, p2}
    Operations <- AllOperations
    MaxUpload = 1
    Scenes <- ReviewScenes
INVARIANTS ClosedPeriodSealed FourEyes GatesHold FigureOfItsInputs
PROPERTIES LedgerSpec AuditExplains
