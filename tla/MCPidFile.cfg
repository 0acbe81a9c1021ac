\* Two management commands, a pid that is used twice, files of two labels.
SPECIFICATION Spec
CONSTANTS
    p1 = p1
    p2 = p2
    web = web
    api = api
    c1 = c1
    c2 = c2
    Pid = {p1}
    Number = {p1, p2}
    Label = {web, api}
    Command <- MCCommand
    Cmd = {c1, c2}
    Births = 2
SYMMETRY Twins
INVARIANTS
    TypeOK
    ReadRight
    NotPassedOver
PROPERTIES
    LostOnlyToReuse
