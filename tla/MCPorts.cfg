\* One lookup, by either backend, while things happen.
SPECIFICATION Spec
CONSTANTS
    Pid = {1, 2, 3}
    Hidden = {3}
    Crowded = {2}
    Sock <- MCSock
    Addr <- MCAddr
    Requests <- MCRequests
    Backend = {"procfs", "libproc", "moved"}
    Tables <- MCTables
    Start <- MCStart
    MaxEvents = 2
CHECK_DEADLOCK FALSE
INVARIANTS
    PortsInv
    Complete
    Sound
