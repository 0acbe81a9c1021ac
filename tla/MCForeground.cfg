\* Foreground mode, under fairness.
SPECIFICATION FairSpec
CONSTANTS
    Mode <- Modes
    Status = {3}
CHECK_DEADLOCK FALSE
INVARIANTS
    ForegroundInv
    WholeLines
    ExitHonest
PROPERTIES
    Tees
    Finishes
    Delivered
    Forwarded
