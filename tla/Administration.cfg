SPECIFICATION MCSpec
SYMMETRY Symmetry
CONSTANTS
    Members = {m1, m2, m3}
    Subsidiaries = {s1, s2}
    Roles = {"super_admin", "data_entry"}
    Workers = {w1, w2}
    Ops = {"grant", "revoke", "replace", "role", "invite", "disable", "enable", "provision", "offboard"}
    Sites = {plant}
    Settings = {target}
    Records = {record}
    Administrators = {ada, bea}
    NoOne = NoOne
    Company = Company
    Whole = Whole
    None = None
INVARIANTS TrailMatchesGrants NothingUnaudited StaysForGood
PROPERTIES ImplementsDirectory
CHECK_DEADLOCK FALSE
