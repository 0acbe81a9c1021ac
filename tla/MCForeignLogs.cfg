\* Two labels, one of which begins with the other and a dash.
SPECIFICATION Spec
CONSTANTS
    r1 = r1
    r2 = r2
    web = web
    webAdmin = webAdmin
    Run = {r1}
    Label = {web, webAdmin}
    Longer <- Prefixed
    Scheme = {"run"}
    Keep = {1}
    Horizon = 3
    Day = 2
    Slips = FALSE
INVARIANTS
    ForeignLogsStay
