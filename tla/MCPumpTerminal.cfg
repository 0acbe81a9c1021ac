\* The detached pump, when its terminal closes.
SPECIFICATION Spec
CONSTANTS
    Mode <- Detached
    MaxWrites = 2
CHECK_DEADLOCK FALSE
PROPERTIES
    OutlivesTerminal
