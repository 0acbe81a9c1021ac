------------------------------- MODULE Launch -------------------------------
(***************************************************************************)
(* The two modes that leave a process behind (src/src/main.rs): detach,    *)
(* which spawns the command in a session of its own and registers it, and  *)
(* pipe --background, which forks deemo itself into a pump that starts its *)
(* own session and registers itself while the parent returns to the shell. *)
(***************************************************************************)
EXTENDS Manage

VARIABLES stage,    \* how far each pid that is a pump has got
          pumpLog   \* entries the pumps that have a log will register

launchVars == <<stage, pumpLog>>

LaunchInit ==
    /\ stage = [p \in Pid |-> "none"]
    /\ pumpLog = {}

-----------------------------------------------------------------------------
(* detach                                                                  *)

Mut_SpawnNoSession(c) ==
    /\ pc[c] = "spawn"
    /\ \E q \in Pid :
         /\ Birth(q, pgid[Shell], "user", {})
         /\ cur' = [cur EXCEPT ![c] = q]
    /\ Goto(c, IF request[c].log THEN "register" ELSE "done")
    /\ UNCHANGED <<request, code, listVars, dirVars, args, jobs, handled, launchVars>>

\* The child calls setsid before exec, so spawn returns the leader of a fresh
\* session and group.
Spawn(c) ==
    /\ pc[c] = "spawn"
    /\ \E q \in Pid :
         /\ Birth(q, q, "user", {})
         /\ cur' = [cur EXCEPT ![c] = q]
    /\ Goto(c, IF request[c].log THEN "register" ELSE "done")
    /\ UNCHANGED <<request, code, listVars, dirVars, args, jobs, handled, launchVars>>

\* 127 for a command that does not exist, 1 for any other failure.
SpawnFails(c) ==
    /\ pc[c] = "spawn"
    /\ \E n \in {1, 127} : Fail(c, n)
    /\ Goto(c, "done")
    /\ UNCHANGED <<procVars, request, listVars, dirVars, workVars, launchVars>>

Mut_LaunchedEarly(c) == [label |-> request[c].label, pid |-> NoPid]

Launched(c) == [label |-> request[c].label, pid |-> cur[c]]

\* The hint is printed only if the registration was written.
RegisterChild(c) ==
    /\ pc[c] = "register"
    /\ Register(Launched(c))
    /\ hinted' = hinted \cup {Launched(c)}
    /\ Goto(c, "done")
    /\ UNCHANGED <<procVars, request, code, listVars, workVars, launchVars>>

RegisterFails(c) ==
    /\ pc[c] = "register"
    /\ Goto(c, "done")
    /\ UNCHANGED <<procVars, request, code, listVars, dirVars, workVars, launchVars>>

-----------------------------------------------------------------------------
(* pipe --background                                                       *)

\* The parent's half.
ForkPump(c) ==
    /\ pc[c] = "fork"
    /\ \E q \in Pid :
         /\ Birth(q, pgid[Shell], "user", {})
         /\ cur' = [cur EXCEPT ![c] = q]
         /\ stage' = [stage EXCEPT ![q] = "forked"]
         /\ pumpLog' = IF request[c].log
                         THEN pumpLog \cup {[label |-> request[c].label, pid |-> q]}
                         ELSE pumpLog
    /\ Goto(c, "hint")
    /\ UNCHANGED <<request, code, listVars, dirVars, args, jobs, handled>>

ForkFails(c) ==
    /\ pc[c] = "fork"
    /\ Fail(c, 1)
    /\ Goto(c, "done")
    /\ UNCHANGED <<procVars, request, listVars, dirVars, workVars, launchVars>>

\* The hint is printed if there is a log, whatever the child is up to.
Hint(c) ==
    /\ pc[c] = "hint"
    /\ hinted' = IF request[c].log THEN hinted \cup {Launched(c)} ELSE hinted
    /\ Goto(c, "done")
    /\ UNCHANGED <<procVars, request, code, files, registered, listVars, workVars, launchVars>>

\* The child's half.  setsid succeeds: a forked child leads no group.
PumpSession(q) ==
    /\ stage[q] = "forked"
    /\ Active(q)
    /\ pgid' = [pgid EXCEPT ![q] = q]
    /\ stage' = [stage EXCEPT ![q] = "session"]
    /\ UNCHANGED <<status, root, holds, sig, request, pc, code, listVars, dirVars,
                   workVars, pumpLog>>

\* The result of register is ignored.
PumpRegister(q) ==
    /\ stage[q] = "session"
    /\ Active(q)
    /\ \E e \in pumpLog : e.pid = q /\ Register(e)
    /\ stage' = [stage EXCEPT ![q] = "pumping"]
    /\ UNCHANGED <<procVars, request, pc, code, hinted, listVars, workVars, pumpLog>>

\* register failed, or there is no log.
PumpUnregistered(q) ==
    /\ stage[q] = "session"
    /\ Active(q)
    /\ stage' = [stage EXCEPT ![q] = "pumping"]
    /\ UNCHANGED <<procVars, request, pc, code, listVars, dirVars, workVars, pumpLog>>

LaunchStep(c) ==
    \/ Spawn(c) \/ SpawnFails(c) \/ RegisterChild(c) \/ RegisterFails(c)
    \/ ForkPump(c) \/ ForkFails(c) \/ Hint(c)

PumpStep(q) == PumpSession(q) \/ PumpRegister(q) \/ PumpUnregistered(q)
=============================================================================
