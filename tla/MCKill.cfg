\* Every form of kill, over ports held by deemo's own daemons and by others.
SPECIFICATION Spec
CONSTANTS
    Shell_p = Shell_p
    p1 = p1
    p2 = p2
    p3 = p3
    NoPid_p = NoPid_p
    web = web
    one = one
    http = http
    alt = alt
    c1 = c1
    c2 = c2
    Pid = {Shell_p, p1, p2}
    Shell = Shell_p
    NoPid = NoPid_p
    Port = {http, alt}
    MayElevate = {p2}
    Cmd = {c1}
    Label = {web, one}
    NumberOf <- MCNumberOf
    Requests <- KillRequests
INVARIANTS
    ExitInv
    KillExitHonest
PROPERTIES
    NoBystander
    NoKillUnasked
    FailureShows
