------------------------------- MODULE Manage -------------------------------
(***************************************************************************)
(* deemo stop and deemo kill (src/src/registry.rs, src/src/port.rs): which *)
(* processes each selects, SIGTERM, the grace period, SIGKILL, and what    *)
(* becomes of the pid file.                                                *)
(*                                                                         *)
(* The deadlines are not clocks: while the target is still there, a wait   *)
(* may end at any moment.                                                  *)
(***************************************************************************)
EXTENDS Registry

VARIABLES args,     \* stop: the arguments not looked at yet
          jobs,     \* pids still to be dealt with
          handled,  \* pids stop has dealt with; for kill, its whole plan
          cur       \* the pid being dealt with

workVars == <<args, jobs, handled, cur>>

ManageInit ==
    /\ args = [c \in Cmd |-> <<>>]
    /\ jobs = [c \in Cmd |-> {}]
    /\ handled = [c \in Cmd |-> {}]
    /\ cur = [c \in Cmd |-> NoPid]

Goto(c, l) == pc' = [pc EXCEPT ![c] = l]
Fail(c, n) == code' = [code EXCEPT ![c] = n]

\* Between two targets, with none left of the current batch.
BatchDone(c, op) == pc[c] = "next" /\ request[c].op = op /\ jobs[c] = {}

-----------------------------------------------------------------------------
(* terminate: one target, from SIGTERM to the verdict.                     *)

Mut_VictimsGroup(c) == Group(cur[c])

\* Target::Group for a registered pid, Target::Pid for any other.
IsGroup(c) == cur[c] \in Pids(found[c])

Victims(c) == IF IsGroup(c) THEN Group(cur[c])
                            ELSE {cur[c]}

\* The kernel refuses the signal: nobody there (ESRCH), or nobody there this
\* user may signal (EPERM).
Refused(c) == \A p \in Victims(c) : ~Signalable(p)

Mut_GoneLeader(c) == ~Alive(cur[c])

\* A group is probed with killpg(pgid, 0), a single pid with liveness.
Gone(c) == IF IsGroup(c) THEN Refused(c)
                         ELSE ~Alive(cur[c])

\* Where the verdict leads: stop unlinks the pid file of what it took down,
\* kill leaves that to its last pass.
AfterStopped(c) == IF request[c].op = "stop" THEN "unlink" ELSE "next"

\* The kernel refuses the signal and yet the target answers a probe.
Hopeless(c) == Refused(c) /\ ~Gone(c)

Term(c) ==
    /\ pc[c] = "term"
    /\ Deliver(Victims(c), "TERM")
    /\ Goto(c, IF Hopeless(c) THEN "next" ELSE "grace")
    /\ code' = [code EXCEPT ![c] = IF Hopeless(c) THEN 1 ELSE @]
    /\ UNCHANGED <<status, pgid, root, holds, request, listVars, dirVars, workVars>>

\* wait_gone sees nothing respond to the probe, in either grace period.
Stopped(c) ==
    /\ pc[c] \in {"grace", "killgrace"}
    /\ Gone(c)
    /\ Goto(c, AfterStopped(c))
    /\ UNCHANGED <<procVars, request, code, listVars, dirVars, workVars>>

Mut_NoDeadline(c) ==
    /\ pc[c] = "grace"
    /\ Gone(c)
    /\ Goto(c, "escalate")
    /\ UNCHANGED <<procVars, request, code, listVars, dirVars, workVars>>

\* TERM_GRACE is over and the last probe still answered.
LastProbe(c) ==
    /\ pc[c] = "grace"
    /\ ~Gone(c)
    /\ Goto(c, "escalate")
    /\ UNCHANGED <<procVars, request, code, listVars, dirVars, workVars>>

Mut_EscalateLeader(c) ==
    /\ pc[c] = "escalate"
    /\ Deliver({cur[c]}, "KILL")
    /\ Goto(c, "killgrace")
    /\ UNCHANGED <<status, pgid, root, holds, request, code, listVars, dirVars, workVars>>

\* Whoever is there by now gets SIGKILL; if that is nobody, the next probe tells.
Escalate(c) ==
    /\ pc[c] = "escalate"
    /\ Deliver(Victims(c), "KILL")
    /\ Goto(c, "killgrace")
    /\ UNCHANGED <<status, pgid, root, holds, request, code, listVars, dirVars, workVars>>

Mut_SurvivedUnlinks(c) ==
    /\ pc[c] = "killgrace"
    /\ ~Gone(c)
    /\ Goto(c, AfterStopped(c))
    /\ Fail(c, 1)
    /\ UNCHANGED <<procVars, request, listVars, dirVars, workVars>>

Mut_SurvivedSilent(c) ==
    /\ pc[c] = "killgrace"
    /\ ~Gone(c)
    /\ Goto(c, "next")
    /\ UNCHANGED <<procVars, request, code, listVars, dirVars, workVars>>

\* KILL_GRACE is over too: Stubborn, the registration stays.
Survived(c) ==
    /\ pc[c] = "killgrace"
    /\ ~Gone(c)
    /\ Goto(c, "next")
    /\ Fail(c, 1)
    /\ UNCHANGED <<procVars, request, listVars, dirVars, workVars>>

-----------------------------------------------------------------------------
(* stop <LABEL|PID>...                                                     *)

Mut_SelectsEither(raw, e) == e.label = raw \/ e.pid = NumberOf[raw]

\* Selector: a number is a pid, anything else a label.
Selects(raw, e) == IF NumberOf[raw] = NoPid THEN e.label = raw
                                            ELSE e.pid = NumberOf[raw]

StopBegin(c) ==
    /\ Swept(c)
    /\ request[c].op = "stop"
    /\ args' = [args EXCEPT ![c] = request[c].targets]
    /\ Goto(c, "next")
    /\ UNCHANGED <<procVars, request, code, listVars, dirVars, jobs, handled, cur>>

\* The registrations one argument selects, less those stopped already; an
\* argument that selects none is an error.
Select(c) ==
    /\ BatchDone(c, "stop")
    /\ args[c] # <<>>
    /\ LET hits == {e \in found[c] : Selects(Head(args[c]), e)}
       IN  /\ jobs' = [jobs EXCEPT ![c] = Pids(hits) \ handled[c]]
           /\ code' = [code EXCEPT ![c] = IF hits = {} THEN 1 ELSE @]
    /\ args' = [args EXCEPT ![c] = Tail(@)]
    /\ UNCHANGED <<procVars, request, pc, listVars, dirVars, handled, cur>>

StopEnd(c) ==
    /\ BatchDone(c, "stop")
    /\ args[c] = <<>>
    /\ Goto(c, "done")
    /\ UNCHANGED <<procVars, request, code, listVars, dirVars, workVars>>

\* The next of them.  It is probed again: the ones before it may have taken
\* seconds.  A dead one is only reported, and its pid file dropped.
NextHit(c) ==
    /\ pc[c] = "next"
    /\ request[c].op = "stop"
    /\ \E p \in jobs[c] :
         /\ jobs' = [jobs EXCEPT ![c] = @ \ {p}]
         /\ handled' = [handled EXCEPT ![c] = @ \cup {p}]
         /\ cur' = [cur EXCEPT ![c] = p]
         /\ Goto(c, IF Alive(p) THEN "term" ELSE "unlink")
    /\ UNCHANGED <<procVars, request, code, listVars, dirVars, args>>

UnlinkStopped(c) ==
    /\ pc[c] = "unlink"
    /\ Unlink({e \in found[c] : e.pid = cur[c]})
    /\ Goto(c, "next")
    /\ UNCHANGED <<procVars, request, code, listVars, workVars>>

-----------------------------------------------------------------------------
(* kill <PORT>...                                                          *)

\* A socket is filed under the first place its port has on the command line
\* (slot_of); a port given twice leaves its second list empty.
FirstSlot(ports, i) == \A j \in 1..(i - 1) : ports[j] # ports[i]

\* The pids whose sockets this user may see, by place on the command line.
Holders(ports, i) ==
    {p \in Pid : /\ p \notin root
                 /\ ports[i] \in holds[p]
                 /\ FirstSlot(ports, i)}

KillPlan(c) ==
    /\ Read(c)
    /\ request[c].op = "kill"
    /\ LET ports == request[c].ports
           plan  == UNION {Holders(ports, i) : i \in DOMAIN ports}
       IN  /\ jobs' = [jobs EXCEPT ![c] = plan]
           /\ handled' = [handled EXCEPT ![c] = plan]
           /\ code' = [code EXCEPT ![c] =
                         IF \E i \in DOMAIN ports : Holders(ports, i) = {} THEN 1 ELSE @]
    /\ Goto(c, IF request[c].dry THEN "done" ELSE "next")
    /\ UNCHANGED <<procVars, request, listVars, dirVars, args, cur>>

\* The socket tables cannot be read.
KillBlind(c) ==
    /\ Read(c)
    /\ request[c].op = "kill"
    /\ Fail(c, 1)
    /\ Goto(c, "done")
    /\ UNCHANGED <<procVars, request, listVars, dirVars, workVars>>

NextHolder(c) ==
    /\ pc[c] = "next"
    /\ request[c].op = "kill"
    /\ request[c].signal = "none"
    /\ \E p \in jobs[c] :
         /\ jobs' = [jobs EXCEPT ![c] = @ \ {p}]
         /\ cur' = [cur EXCEPT ![c] = p]
    /\ Goto(c, "term")
    /\ UNCHANGED <<procVars, request, code, listVars, dirVars, args, handled>>

Mut_OnceEscalates(c) ==
    /\ pc[c] = "next"
    /\ request[c].op = "kill"
    /\ request[c].signal = "user"
    /\ \E p \in jobs[c] :
         /\ jobs' = [jobs EXCEPT ![c] = @ \ {p}]
         /\ cur' = [cur EXCEPT ![c] = p]
    /\ Goto(c, "term")
    /\ UNCHANGED <<procVars, request, code, listVars, dirVars, args, handled>>

NextOnce(c) ==
    /\ pc[c] = "next"
    /\ request[c].op = "kill"
    /\ request[c].signal = "user"
    /\ \E p \in jobs[c] :
         /\ jobs' = [jobs EXCEPT ![c] = @ \ {p}]
         /\ cur' = [cur EXCEPT ![c] = p]
    /\ Goto(c, "once")
    /\ UNCHANGED <<procVars, request, code, listVars, dirVars, args, handled>>

Mut_OnceForgets(c) ==
    /\ pc[c] = "once"
    /\ Deliver(Victims(c), "USER")
    /\ Fail(c, IF Refused(c) THEN 1 ELSE 0)
    /\ Goto(c, "next")
    /\ UNCHANGED <<status, pgid, root, holds, request, listVars, dirVars, workVars>>

\* kill -s: this signal and no other.
SignalOnce(c) ==
    /\ pc[c] = "once"
    /\ Deliver(Victims(c), "USER")
    /\ code' = [code EXCEPT ![c] = IF Refused(c) THEN 1 ELSE @]
    /\ Goto(c, "next")
    /\ UNCHANGED <<status, pgid, root, holds, request, listVars, dirVars, workVars>>

\* Housekeeping starts over the whole plan.
KillEnd(c) ==
    /\ BatchDone(c, "kill")
    /\ jobs' = [jobs EXCEPT ![c] = handled[c]]
    /\ Goto(c, "tidy")
    /\ UNCHANGED <<procVars, request, code, listVars, dirVars, args, handled, cur>>

Mut_TidyAll(c) ==
    /\ pc[c] = "tidy"
    /\ \E p \in jobs[c] :
         /\ jobs' = [jobs EXCEPT ![c] = @ \ {p}]
         /\ Unlink({e \in found[c] : e.pid = p})
    /\ UNCHANGED <<procVars, request, pc, code, listVars, args, handled, cur>>

\* Only if it is really gone: a survivor, or who got a -s HUP, keeps its file.
Tidy(c) ==
    /\ pc[c] = "tidy"
    /\ \E p \in jobs[c] :
         /\ jobs' = [jobs EXCEPT ![c] = @ \ {p}]
         /\ Unlink({e \in found[c] : e.pid = p /\ ~Alive(p)})
    /\ UNCHANGED <<procVars, request, pc, code, listVars, args, handled, cur>>

TidyEnd(c) ==
    /\ pc[c] = "tidy"
    /\ jobs[c] = {}
    /\ Goto(c, "done")
    /\ UNCHANGED <<procVars, request, code, listVars, dirVars, workVars>>

ManageStep(c) ==
    \/ List(c) /\ UNCHANGED <<procVars, workVars>>
    \/ Sweep(c) /\ UNCHANGED <<procVars, workVars>>
    \/ Ps(c) /\ UNCHANGED <<procVars, workVars>>
    \/ Term(c) \/ Stopped(c) \/ LastProbe(c) \/ Escalate(c) \/ Survived(c)
    \/ StopBegin(c) \/ Select(c) \/ StopEnd(c)
    \/ NextHit(c) \/ UnlinkStopped(c)
    \/ KillPlan(c) \/ KillBlind(c) \/ NextHolder(c) \/ NextOnce(c)
    \/ SignalOnce(c) \/ KillEnd(c) \/ Tidy(c) \/ TidyEnd(c)
=============================================================================
