---------------------------- MODULE Registrations ----------------------------
(***************************************************************************)
(* What the run directory promises its users, with no scan, sweep, signal  *)
(* or process in sight: a registration is written once and, as long as its *)
(* process can be signalled, it is there; it is dropped at most once and   *)
(* never comes back.  Deemo.tla implements this (see Promise there).       *)
(***************************************************************************)
CONSTANT Entry

VARIABLE life    \* what has become of each registration

States == {"none", "live", "stale", "dropped"}

LifeOK == life \in [Entry -> States]

LifeInit == life = [e \in Entry |-> "none"]

Become(e, from, to) ==
    /\ life[e] \in from
    /\ life' = [life EXCEPT ![e] = to]

\* The process may already be dead when its registration is written.
Write(e) == Become(e, {"none"}, "live") \/ Become(e, {"none"}, "stale")

Die(e) == Become(e, {"live"}, "stale")

Drop(e) == Become(e, {"stale"}, "dropped")

LifeNext == \E e \in Entry : Write(e) \/ Die(e) \/ Drop(e)

LifeSpec == LifeInit /\ [][LifeNext]_life
=============================================================================
