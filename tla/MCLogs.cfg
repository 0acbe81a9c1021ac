\* Two runs of one label, all three naming schemes, a clock that may be set back.
SPECIFICATION Spec
CONSTANTS
    r1 = r1
    r2 = r2
    web = web
    webAdmin = webAdmin
    Run = {r1, r2}
    Label = {web}
    Longer <- Unrelated
    Scheme = {"run", "day", "off"}
    Keep = {0, 2}
    Horizon = 2
    Day = 2
    Slips = TRUE
SYMMETRY Symmetry
INVARIANTS
    TypeOK
    NewestKept
    MissesOnlyTheOutdated
    LogsInv
PROPERTIES
    OwnLogStays
