SPECIFICATION Spec
CONSTANTS
    Records = {1, 2}
    Periods = {1, 2}
    Files = {1}
    Users <- TwoUsers
    Role <- TwoRoles
    EvidenceRequired = {}
    Values = {0}
    Sites = {0, 1}
    MaxLibrary = 1
    InitialRecords <- TwoDrafts
    None = None
    Procs = {uploader, closer}
    uploader = uploader
    closer = closer
    Operations <- FlipOps
    MaxUpload = 2
INVARIANTS NoWaitCycle
CHECK_DEADLOCK FALSE
CONSTRAINT FlipBound
