\* What stop, detach and pipe --background get done when they are scheduled.
SPECIFICATION FairSpec
CONSTANTS
    Shell_p = Shell_p
    p1 = p1
    p2 = p2
    p3 = p3
    NoPid_p = NoPid_p
    web = web
    one = one
    http = http
    alt = alt
    c1 = c1
    c2 = c2
    Pid = {Shell_p, p1, p2}
    Shell = Shell_p
    NoPid = NoPid_p
    Port = {}
    MayElevate = {}
    Cmd = {c1}
    Label = {web, one}
    NumberOf <- MCNumberOf
    Requests <- LiveRequests
INVARIANTS
    SessionLeaders
PROPERTIES
    Promise
    NoBystander
    CommandsFinish
    StopIsFinal
