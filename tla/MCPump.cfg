\* The pump in every mode, under fairness.
SPECIFICATION FairSpec
CONSTANTS
    Mode <- AllModes
    MaxWrites = 3
CHECK_DEADLOCK FALSE
INVARIANTS
    Faithful
    OneSlabAtRisk
    ExitHonest
    PumpInv
PROPERTIES
    Tees
    Drains
    Delivered
