SPECIFICATION SwitchedSpec
CONSTANTS
    east = east
    west = west
    plant = plant
    fuel = fuel
    power = power
    r1 = r1
    r2 = r2
    r3 = r3
    r4 = r4
    Me = Me
    Colleague = Colleague
    Whole = Whole
    None = None
    gas = gas
    water = water
    diesel = diesel
    petrol = petrol
    b1 = b1
    d1 = d1
    a1 = a1
    a2 = a2
    Subs = {east, west}
    Sites <- SitesHere
    FormSlots = {fuel, power}
    Ids = {r1, r2}
    Link = None
    Hasty = {"switch"}
    Trouble = {}
    Companies = {east, west}
    Years = {2025, 2026}
    PanelFigures = {1}
    Mounted = {"boundary", "preview"}
    RowIds = {r1, r2, r3, r4}
    Filed0 <- NothingFiled
    PageSize = 1
    Changes = {"sub", "year", "figure"}
    TickEarly = FALSE
    Failing = {"list", "boundary", "preview"}
    MaxReads = 2
    Records = {r1, r2, r3}
    Series <- OneSeries
    Place <- Monthly
    Window = 1
    Batches = {b1}
    Caller <- ByMe
    Author <- OfMine
    Bare = {r3}
    Touched = {r1}
    Periods = {}
    Figures <- SubmitFigures
    Reasons = {TRUE}
    SubmitFaults = {"not_submittable", "unexpected"}
    Repairs = FALSE
    Imports = {d1, a1, a2}
    Dry = {d1}
    Files <- AnyFile
    FileSlots = {fuel, gas, water}
    Kind <- KindHere
    Types = {diesel, petrol}
    Stored <- FiledFirst
    Others = {}
    Closing = {water}
    ImportFaults = {}
    Same = TRUE
INVARIANT SubsidiaryNeverCompared
CHECK_DEADLOCK FALSE
