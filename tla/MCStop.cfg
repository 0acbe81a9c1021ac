\* Two invocations of stop, kill and detach at a time, over the same run directory.
SPECIFICATION Spec
CONSTANTS
    Shell_p = Shell_p
    p1 = p1
    p2 = p2
    p3 = p3
    NoPid_p = NoPid_p
    web = web
    one = one
    http = http
    alt = alt
    c1 = c1
    c2 = c2
    Pid = {Shell_p, p1, p2}
    Shell = Shell_p
    NoPid = NoPid_p
    Port = {http}
    MayElevate = {}
    Cmd = {c1, c2}
    Label = {web}
    NumberOf <- MCNumberOf
    Requests <- StopRequests
SYMMETRY Twins
INVARIANTS
    IInv
    LiveLeaderRegistered
    NobodySlipsPastKill
    StopExitHonest
