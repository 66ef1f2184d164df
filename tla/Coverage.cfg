SPECIFICATION MCSpec
CONSTANTS
    s1 = s1
    s2 = s2
    l1 = l1
    power = power
    fuel = fuel
    diesel = diesel
    lpg = lpg
    main = main
    rate = rate
    trial = trial
    ar5 = ar5
    ar6 = ar6
    None = None
    Categories <- CategoriesHere
    ScopeOf <- ScopesHere
    Versions <- VersionsHere
    Slots <- SlotsHere
    MaxFiled = 3
    Calculations <- Every
    Links <- LinksHere
    MaxClosed = 1
    Releases <- ReleasesHere
    Standing <- StandingHere
    GwpSet <- GwpHere
    r1 = r1
    r2 = r2
    l2 = l2
    l3 = l3
    jan = jan
    Records = {r1, r2}
    Sites = {l2, l3}
    Months = {jan}
    Whole = Whole
    Annual = Annual
SYMMETRY Symmetry
INVARIANTS DisclosureIsWhole FinalIsComplete GreenIsEarned
PROPERTIES VerdictMovesByDecision
CHECK_DEADLOCK FALSE
