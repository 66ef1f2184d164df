SPECIFICATION MCSpec
SYMMETRY RequestSymmetry
CONSTANTS
    Records = {1, 2}
    Periods = {1}
    Files = {1, 2}
    Users <- AuthorAndReviewer
    Role <- RolesHere
    EvidenceRequired = {1}
    Values = {0}
    Sites = {0, 1}
    MaxLibrary = 1
    InitialRecords <- Starts
    None = None
    Procs = {p1, p2}
    Operations <- AllOperations
    MaxUpload = 2
    Scenes <- EvidenceScenes
INVARIANTS EvidenceKept NoOrphanFile NoWaitCycle
CHECK_DEADLOCK FALSE
