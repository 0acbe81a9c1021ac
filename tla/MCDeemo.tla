------------------------------- MODULE MCDeemo -------------------------------
(* Deemo.tla on small instances: the command lines each run draws from.    *)
EXTENDS Deemo, TLC

CONSTANTS Shell_p, p1, p2, p3, NoPid_p, web, one, http, alt, c1, c2

PsReq == [op |-> "ps"]
StopReq(ts) == [op |-> "stop", targets |-> ts]
KillReq(ps, s) == [op |-> "kill", ports |-> ps, dry |-> FALSE, signal |-> s]
DryReq(ps) == [KillReq(ps, "none") EXCEPT !.dry = TRUE]
DetachReq(l, log) == [op |-> "detach", label |-> l, log |-> log]
PipeReq(l, log) == [op |-> "pipe", label |-> l, log |-> log]

Twins == Permutations({p1, p2}) \cup Permutations({c1, c2})

\* The label one is made of digits: it spells the pid p1.
MCNumberOf == [l \in Label |-> IF l = one THEN p1 ELSE NoPid]

StopRequests == {StopReq(<<web>>), KillReq(<<http>>, "none"), DetachReq(web, TRUE)}

KillRequests ==
    {DetachReq(web, TRUE), KillReq(<<http, alt>>, "none"), KillReq(<<http>>, "user"),
     KillReq(<<http>>, "bad"), DryReq(<<http>>)}

LiveRequests ==
    {PsReq, StopReq(<<web, one>>), DetachReq(one, TRUE), PipeReq(web, TRUE)}

StubbornRequests == {StopReq(<<web>>), DetachReq(web, TRUE)}
=============================================================================
