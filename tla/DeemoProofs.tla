----------------------------- MODULE DeemoProofs -----------------------------
(***************************************************************************)
(* Proofs about Deemo.tla, for any set of processes, labels, ports and     *)
(* invocations.                                                            *)
(***************************************************************************)
EXTENDS Deemo, TLAPS

USE DEF Request, NoRequest

-----------------------------------------------------------------------------
(* Types.                                                                  *)

\* What a request carries, by the kind of request it is.
LEMMA RequestFields ==
    ASSUME NEW r \in Requests \cup {NoRequest}
    PROVE  /\ r.op = "stop" => r.targets \in Seq(Label)
           /\ r.op \in {"detach", "pipe"} => r.label \in Label /\ r.log \in BOOLEAN
           /\ r.op \in {"ps", "stop", "kill", "detach", "pipe"}
  BY RegistryAssumption

LEMMA ProcTypeDeliver ==
    ASSUME NEW S, NEW s \in Signal, ProcTypeOK, Deliver(S, s),
           UNCHANGED <<status, pgid, root, holds>>
    PROVE  ProcTypeOK'
  BY DEF ProcTypeOK, Deliver

LEMMA ProcTypeBirth ==
    ASSUME ProcTypeOK, NEW q \in Pid, NEW group \in Pid, NEW user,
           NEW ports \in SUBSET Port, Birth(q, group, user, ports)
    PROVE  ProcTypeOK'
  BY DEF ProcTypeOK, Birth

LEMMA ProcTypeEnvironment ==
    ASSUME ProcTypeOK, Environment
    PROVE  ProcTypeOK'
<1> USE DEF ProcTypeOK
<1>1. ASSUME NEW p \in Pid, NEW q \in Pid, Fork(p, q)
      PROVE  ProcTypeOK'
  BY <1>1, ProcTypeBirth DEF Fork
<1>2. ASSUME NEW p \in Pid, NEW port \in Port, Bind(p, port) \/ Release(p, port)
      PROVE  ProcTypeOK'
  BY <1>2 DEF Bind, Release
<1>3. ASSUME NEW p \in Pid, SetSid(p) \/ Elevate(p)
      PROVE  ProcTypeOK'
  BY <1>3 DEF SetSid, Elevate
<1>4. ASSUME NEW p \in Pid, Exit(p) \/ Reap(p)
      PROVE  ProcTypeOK'
  BY <1>4 DEF Exit, Reap
<1> QED
  BY <1>1, <1>2, <1>3, <1>4 DEF Environment

LEMMA TypeManage ==
    ASSUME TypeOK, NEW c \in Cmd, InStep(c), ManageStep(c), UNCHANGED launchVars
    PROVE  TypeOK'
<1> USE DEF TypeOK, dirVars, listVars, workVars, launchVars, procVars
<1>0. request[c] \in Requests \cup {NoRequest}
  OBVIOUS
<1>1. ASSUME List(c), UNCHANGED <<procVars, workVars>> PROVE TypeOK'
  BY <1>1 DEF List, ProcTypeOK
<1>2. ASSUME Sweep(c), UNCHANGED <<procVars, workVars>> PROVE TypeOK'
  BY <1>2 DEF Sweep, Unlink, ProcTypeOK
<1>3. ASSUME Ps(c), UNCHANGED <<procVars, workVars>> PROVE TypeOK'
  BY <1>3 DEF Ps, Swept, Read, Pc, ProcTypeOK
<1>4. CASE Term(c)
  <2>1. ProcTypeOK'
    BY <1>4, ProcTypeDeliver DEF Term, Signal
  <2> QED
    BY <1>4, <2>1 DEF Term, Goto, Pc
<1>5. CASE Stopped(c)
  BY <1>5 DEF Stopped, Goto, AfterStopped, Pc, ProcTypeOK
<1>6. CASE Escalate(c)
  <2>1. ProcTypeOK'
    BY <1>6, ProcTypeDeliver DEF Escalate, Signal
  <2> QED
    BY <1>6, <2>1 DEF Escalate, Goto, Pc
<1>21. CASE LastProbe(c)
  BY <1>21 DEF LastProbe, Goto, Pc, ProcTypeOK
<1>7. CASE Survived(c)
  BY <1>7 DEF Survived, Goto, Fail, Pc, ProcTypeOK
<1>8. CASE StopBegin(c)
  <2>1. request[c].targets \in Seq(Label)
    BY <1>0, <1>8, RequestFields DEF StopBegin
  <2> QED
    BY <1>8, <2>1 DEF StopBegin, Goto, Pc, ProcTypeOK
<1>9. CASE Select(c)
  <2>1. Tail(args[c]) \in Seq(Label)
    BY <1>9 DEF Select
  <2>2. Pids({e \in found[c] : Selects(Head(args[c]), e)}) \subseteq Pid
    BY DEF Pids, Entry
  <2> QED
    BY <1>9, <2>1, <2>2 DEF Select, ProcTypeOK
<1>10. CASE StopEnd(c)
  BY <1>10 DEF StopEnd, Goto, Pc, ProcTypeOK
<1>11. CASE NextHit(c)
  BY <1>11 DEF NextHit, Goto, Pc, ProcTypeOK
<1>12. CASE UnlinkStopped(c)
  BY <1>12 DEF UnlinkStopped, Unlink, Goto, Pc, ProcTypeOK
<1>13. CASE KillPlan(c)
  <2> DEFINE plan == UNION {Holders(request[c].ports, i) : i \in DOMAIN request[c].ports}
  <2>1. plan \subseteq Pid
    BY DEF Holders
  <2> HIDE DEF plan
  <2>2. jobs' = [jobs EXCEPT ![c] = plan] /\ handled' = [handled EXCEPT ![c] = plan]
    BY <1>13 DEF KillPlan, plan
  <2>3. code' \in [Cmd -> {0, 1, 2, 127, 130}]
    BY <1>13 DEF KillPlan
  <2> QED
    BY <1>13, <2>1, <2>2, <2>3 DEF KillPlan, Goto, Pc, ProcTypeOK
<1>14. CASE KillBlind(c)
  BY <1>14 DEF KillBlind, Goto, Fail, Pc, ProcTypeOK
<1>15. CASE NextHolder(c)
  BY <1>15 DEF NextHolder, Goto, Pc, ProcTypeOK
<1>20. CASE NextOnce(c)
  BY <1>20 DEF NextOnce, Goto, Pc, ProcTypeOK
<1>16. CASE SignalOnce(c)
  <2>1. ProcTypeOK'
    BY <1>16, ProcTypeDeliver DEF SignalOnce, Signal
  <2> QED
    BY <1>16, <2>1 DEF SignalOnce, Goto, Pc
<1>17. CASE KillEnd(c)
  BY <1>17 DEF KillEnd, Goto, Pc, ProcTypeOK
<1>18. CASE Tidy(c)
  BY <1>18 DEF Tidy, Unlink, ProcTypeOK
<1>19. CASE TidyEnd(c)
  BY <1>19 DEF TidyEnd, Goto, Pc, ProcTypeOK
<1> QED
  BY <1>1, <1>2, <1>3, <1>4, <1>5, <1>6, <1>7, <1>8, <1>9, <1>10, <1>11, <1>12, <1>13,
     <1>14, <1>15, <1>16, <1>17, <1>18, <1>19, <1>20, <1>21 DEF ManageStep

LEMMA TypeLaunch ==
    ASSUME TypeOK, NEW c \in Cmd, InStep(c), LaunchStep(c)
    PROVE  TypeOK'
<1> USE DEF TypeOK, dirVars, listVars, workVars, launchVars, procVars
<1>0. pgid[Shell] \in Pid
  BY ProcessAssumption DEF ProcTypeOK
<1>1. CASE Spawn(c)
  <2>1. ProcTypeOK'
    BY <1>1, ProcTypeBirth DEF Spawn
  <2> QED
    BY <1>1, <2>1 DEF Spawn, Goto, Pc
<1>2. CASE SpawnFails(c)
  BY <1>2 DEF SpawnFails, Goto, Fail, Pc, ProcTypeOK
<1>3. CASE RegisterChild(c)
  <2>1. Launched(c) \in Entry
    BY <1>3, RequestFields DEF RegisterChild, Launched, Entry, InStep
  <2> QED
    BY <1>3, <2>1 DEF RegisterChild, Register, Goto, Pc, ProcTypeOK
<1>4. CASE RegisterFails(c)
  BY <1>4 DEF RegisterFails, Goto, Pc, ProcTypeOK
<1>5. CASE ForkPump(c)
  <2>1. PICK q \in Pid :
           /\ Birth(q, pgid[Shell], "user", {})
           /\ cur' = [cur EXCEPT ![c] = q]
           /\ stage' = [stage EXCEPT ![q] = "forked"]
           /\ pumpLog' = IF request[c].log
                           THEN pumpLog \cup {[label |-> request[c].label, pid |-> q]}
                           ELSE pumpLog
    BY <1>5 DEF ForkPump
  <2>2. ProcTypeOK'
    BY <1>0, <2>1, ProcTypeBirth
  <2>3. [label |-> request[c].label, pid |-> q] \in Entry
    BY <1>5, RequestFields DEF ForkPump, Entry, InStep
  <2> QED
    BY <1>5, <2>1, <2>2, <2>3 DEF ForkPump, Goto, Pc
<1>6. CASE ForkFails(c)
  BY <1>6 DEF ForkFails, Goto, Fail, Pc, ProcTypeOK
<1>7. CASE Hint(c)
  <2>1. Launched(c) \in Entry
    BY <1>7, RequestFields DEF Hint, Launched, Entry, InStep
  <2> QED
    BY <1>7, <2>1 DEF Hint, Goto, Pc, ProcTypeOK
<1> QED
  BY <1>1, <1>2, <1>3, <1>4, <1>5, <1>6, <1>7 DEF LaunchStep

LEMMA TypePump ==
    ASSUME TypeOK, NEW q \in Pid, PumpStep(q)
    PROVE  TypeOK'
<1> USE DEF TypeOK, dirVars, listVars, workVars, procVars, ProcTypeOK
<1>1. CASE PumpSession(q)
  BY <1>1 DEF PumpSession
<1>2. CASE PumpRegister(q)
  BY <1>2 DEF PumpRegister, Register
<1>3. CASE PumpUnregistered(q)
  BY <1>3 DEF PumpUnregistered
<1> QED
  BY <1>1, <1>2, <1>3 DEF PumpStep

LEMMA TypeForget ==
    ASSUME TypeOK, NEW c \in Cmd, Forget(c), UNCHANGED registered
    PROVE  /\ listed' \in [Cmd -> SUBSET registered']
           /\ todo' \in [Cmd -> SUBSET registered']
           /\ found' \in [Cmd -> SUBSET registered']
           /\ dead' \in [Cmd -> SUBSET registered']
           /\ args' \in [Cmd -> Seq(Label)]
           /\ jobs' \in [Cmd -> SUBSET Pid]
           /\ handled' \in [Cmd -> SUBSET Pid]
           /\ cur' \in [Cmd -> Pid \cup {NoPid}]
  BY DEF TypeOK, Forget

LEMMA TypeStep ==
    ASSUME TypeOK, \A c \in Cmd : InStep(c), [Next]_vars
    PROVE  TypeOK'
<1> USE DEF dirVars, listVars, workVars, launchVars, procVars
<1>1. ASSUME NEW c \in Cmd, Start(c) PROVE TypeOK'
  <2>1. PICK r \in Requests :
           /\ request' = [request EXCEPT ![c] = r]
           /\ pc' = [pc EXCEPT ![c] = FirstStep(r)]
           /\ code' = [code EXCEPT ![c] = IF BadSignal(r) THEN 2 ELSE 0]
           /\ LET names == IF FirstStep(r) = "list" THEN files ELSE {}
              IN  /\ listed' = [listed EXCEPT ![c] = names]
                  /\ todo' = [todo EXCEPT ![c] = names]
    BY <1>1 DEF Start
  <2>2. FirstStep(r) \in Pc
    BY RequestFields DEF FirstStep, BadSignal, Managing, Pc
  <2> QED
    BY <1>1, <2>1, <2>2 DEF Start, TypeOK, ProcTypeOK
<1>2. ASSUME NEW c \in Cmd, Run(c) PROVE TypeOK'
  <2>1. CASE Finish(c)
    BY <2>1, TypeForget DEF Finish, Goto, Fail, TypeOK, ProcTypeOK, Pc
  <2> QED
    BY <1>2, <2>1, TypeManage, TypeLaunch DEF Run
<1>3. ASSUME NEW c \in Cmd, Abort(c) PROVE TypeOK'
  BY <1>3, TypeForget DEF Abort, Goto, Fail, TypeOK, ProcTypeOK, Pc
<1>4. CASE Environment
  BY <1>4, ProcTypeEnvironment DEF Environment, TypeOK
<1>5. CASE UNCHANGED vars
  BY <1>5 DEF vars, TypeOK, ProcTypeOK
<1> QED
  BY <1>1, <1>2, <1>3, <1>4, <1>5, TypePump DEF Next

-----------------------------------------------------------------------------
(* What no step undoes.                                                    *)

\* A pid is handed out once, a dead process stays dead, and a group leader
\* leads its group for good.
Persists(p) ==
    Born(p) => /\ Born(p)'
               /\ ~Alive(p) => ~Alive(p)'
               /\ pgid[p] = p => pgid'[p] = p

LEMMA ManageLeavesProcesses ==
    ASSUME NEW c \in Cmd, ManageStep(c)
    PROVE  UNCHANGED <<status, pgid, root, holds>>
  BY DEF ManageStep, Term, Stopped, LastProbe, Escalate, Survived, StopBegin, Select,
         StopEnd, NextHit, UnlinkStopped, KillPlan, KillBlind, NextHolder, NextOnce,
         SignalOnce, KillEnd, Tidy, TidyEnd, procVars

LEMMA BirthPersists ==
    ASSUME TypeOK, NEW q \in Pid, NEW g, NEW user, NEW ports,
           Birth(q, g, user, ports), NEW p \in Pid
    PROVE  Persists(p)
  BY DEF Birth, Persists, Born, Alive, TypeOK, ProcTypeOK

LEMMA StepPersists ==
    ASSUME TypeOK, [Next]_vars, NEW p \in Pid
    PROVE  Persists(p)
<1> USE DEF Persists, Born, Alive
<1>1. ASSUME UNCHANGED <<status, pgid, root>> PROVE Persists(p)
  BY <1>1
<1>2. ASSUME NEW c \in Cmd, Start(c) \/ Abort(c) \/ Finish(c) PROVE Persists(p)
  BY <1>1, <1>2 DEF Start, Abort, Finish, procVars
<1>3. ASSUME NEW c \in Cmd, ManageStep(c) PROVE Persists(p)
  BY <1>1, <1>3, ManageLeavesProcesses
<1>4. ASSUME NEW c \in Cmd, LaunchStep(c) PROVE Persists(p)
  BY <1>1, <1>4, BirthPersists
     DEF LaunchStep, Spawn, SpawnFails, RegisterChild, RegisterFails, ForkPump,
         ForkFails, Hint, procVars
<1>5. ASSUME NEW q \in Pid, PumpStep(q) PROVE Persists(p)
  BY <1>5 DEF PumpStep, PumpSession, PumpRegister, PumpUnregistered, procVars,
              TypeOK, ProcTypeOK
<1>6. CASE Environment
  <2>1. ASSUME NEW a \in Pid, NEW q \in Pid, Fork(a, q) PROVE Persists(p)
    BY <2>1, BirthPersists DEF Fork
  <2>2. ASSUME NEW a \in Pid, NEW port \in Port, Bind(a, port) \/ Release(a, port)
        PROVE  Persists(p)
    BY <2>2 DEF Bind, Release
  <2>3. ASSUME NEW a \in Pid, SetSid(a) \/ Elevate(a) \/ Exit(a) \/ Reap(a)
        PROVE  Persists(p)
    BY <2>3 DEF SetSid, Elevate, Exit, Reap, TypeOK, ProcTypeOK
  <2> QED
    BY <1>6, <2>1, <2>2, <2>3 DEF Environment
<1>7. CASE UNCHANGED vars
  BY <1>7 DEF vars, procVars
<1> QED
  BY <1>2, <1>3, <1>4, <1>5, <1>6, <1>7 DEF Next, Run

-----------------------------------------------------------------------------
(* The steps of one invocation.                                            *)

Locals(d) == <<request[d], pc[d], code[d], listed[d], todo[d], found[d], dead[d],
               args[d], jobs[d], handled[d], cur[d]>>

\* An invocation touches no local of another.
LEMMA OthersKeepLocals ==
    ASSUME TypeOK, NEW c \in Cmd, Start(c) \/ Run(c) \/ Abort(c), NEW d \in Cmd, d # c
    PROVE  Locals(d)' = Locals(d)
<1> USE DEF TypeOK, Locals, Goto, Fail, listVars, workVars
<1>1. CASE Start(c) \/ Abort(c) \/ Finish(c)
  BY <1>1 DEF Start, Abort, Finish, Forget
<1>2. CASE ManageStep(c)
  <2>1. ASSUME List(c) \/ Sweep(c) \/ Ps(c), UNCHANGED workVars
        PROVE  Locals(d)' = Locals(d)
    BY <2>1 DEF List, Sweep, Ps
  <2>2. CASE Term(c) \/ Stopped(c) \/ LastProbe(c) \/ Escalate(c) \/ Survived(c)
             \/ StopBegin(c) \/ Select(c) \/ StopEnd(c) \/ NextHit(c) \/ UnlinkStopped(c)
    BY <2>2 DEF Term, Stopped, LastProbe, Escalate, Survived, StopBegin, Select, StopEnd,
                NextHit, UnlinkStopped
  <2>3. CASE KillPlan(c) \/ KillBlind(c) \/ NextHolder(c) \/ NextOnce(c)
    BY <2>3 DEF KillPlan, KillBlind, NextHolder, NextOnce
  <2>4. CASE SignalOnce(c) \/ KillEnd(c) \/ Tidy(c) \/ TidyEnd(c)
    BY <2>4 DEF SignalOnce, KillEnd, Tidy, TidyEnd
  <2> QED
    BY <1>2, <2>1, <2>2, <2>3, <2>4 DEF ManageStep
<1>3. CASE LaunchStep(c)
  BY <1>3 DEF LaunchStep, Spawn, SpawnFails, RegisterChild, RegisterFails, ForkPump,
         ForkFails, Hint
<1> QED
  BY <1>1, <1>2, <1>3 DEF Run

\* Neither does a pump or any other process.
LEMMA BackgroundKeepsLocals ==
    ASSUME (\E q \in Pid : PumpStep(q)) \/ Environment \/ UNCHANGED vars, NEW d \in Cmd
    PROVE  Locals(d)' = Locals(d)
<1> USE DEF Locals, listVars, workVars
<1>1. ASSUME NEW q \in Pid, PumpStep(q) PROVE Locals(d)' = Locals(d)
  BY <1>1 DEF PumpStep, PumpSession, PumpRegister, PumpUnregistered
<1>2. CASE Environment \/ UNCHANGED vars
  BY <1>2 DEF Environment, vars
<1> QED
  BY <1>1, <1>2

\* Whoever is about to be unlinked was seen dead: what the wait reads as gone
\* is dead, because a group's own leader is one of its members.
LEMMA GoneIsDead ==
    ASSUME TypeOK, SessionLeaders, NEW c \in Cmd, cur[c] \in Pid, Gone(c)
    PROVE  ~Alive(cur[c])
<1>1. CASE IsGroup(c)
  <2>1. pgid[cur[c]] = cur[c]
    BY <1>1 DEF IsGroup, Pids, SessionLeaders, TypeOK
  <2>2. SUFFICES ASSUME Alive(cur[c]) PROVE FALSE
    OBVIOUS
  <2>3. cur[c] \in Victims(c) /\ Signalable(cur[c])
    BY <1>1, <2>1, <2>2 DEF Victims, Group, Exists, Signalable, Alive
  <2> QED
    BY <1>1, <2>3 DEF Gone, Refused
<1>2. CASE ~IsGroup(c)
  BY <1>2 DEF Gone
<1> QED
  BY <1>1, <1>2

\* A step of an invocation keeps it in step with its command, and with a
\* target where one is needed.
LEMMA InStepPreserved ==
    ASSUME TypeOK, \A d \in Cmd : InStep(d), [Next]_vars, NEW c \in Cmd
    PROVE  InStep(c)'
<1> USE DEF TypeOK, InStep, Goto, listVars, workVars
<1>0. ASSUME Locals(c)' = Locals(c) PROVE InStep(c)'
  BY <1>0 DEF Locals
<1>1. CASE Start(c)
  <2>1. PICK r \in Requests :
          request' = [request EXCEPT ![c] = r] /\ pc' = [pc EXCEPT ![c] = FirstStep(r)]
    BY <1>1 DEF Start
  <2>2. /\ FirstStep(r) \in {"done", "list", "spawn", "fork"}
        /\ FirstStep(r) \in {"spawn", "fork"} => r.op \in {"detach", "pipe"}
    BY RequestFields DEF FirstStep, BadSignal, Managing
  <2> QED
    BY <2>1, <2>2
<1>2. CASE Abort(c) \/ Finish(c)
  BY <1>2 DEF Abort, Finish
<1>3. CASE ManageStep(c)
  <2>1. CASE List(c) \/ Sweep(c) \/ Select(c) \/ Tidy(c)
    BY <2>1, <1>0, <1>3 DEF List, Sweep, Select, Tidy, ManageStep, Read
  <2> QED
    BY <1>3, <2>1
       DEF ManageStep, Ps, Term, Stopped, AfterStopped, LastProbe, Escalate, Survived, StopBegin,
           StopEnd, NextHit, UnlinkStopped, KillPlan, KillBlind, NextHolder, NextOnce,
           SignalOnce, KillEnd, TidyEnd, Swept, Read
<1>4. CASE LaunchStep(c)
  BY <1>4 DEF LaunchStep, Spawn, SpawnFails, RegisterChild, RegisterFails, ForkPump,
         ForkFails, Hint
<1>5. ASSUME NEW d \in Cmd, d # c, Start(d) \/ Run(d) \/ Abort(d) PROVE InStep(c)'
  BY <1>0, <1>5, OthersKeepLocals
<1>6. ASSUME NEW q \in Pid, PumpStep(q) PROVE InStep(c)'
  BY <1>6, <1>0 DEF PumpStep, PumpSession, PumpRegister, PumpUnregistered, Locals
<1>7. CASE Environment
  BY <1>7, <1>0 DEF Environment, Locals
<1>8. CASE UNCHANGED vars
  BY <1>8, <1>0 DEF vars, Locals
<1> QED
  BY <1>1, <1>2, <1>3, <1>4, <1>5, <1>6, <1>7, <1>8 DEF Next, Run

\* The pids an invocation collects are those of registrations, of processes it
\* has seen, or of the process it has just started.
LEMMA TargetsBornPreserved ==
    ASSUME IInv, [Next]_vars, NEW c \in Cmd
    PROVE  TargetsBorn(c)'
<1> USE DEF TypeOK, TargetsBorn, Goto, Fail, listVars, workVars
<1>0. TypeOK /\ TargetsBorn(c) /\ \A p \in Pid : Born(p) => Born(p)'
  BY StepPersists DEF IInv, Persists
<1>1. ASSUME jobs'[c] \subseteq jobs[c] \cup handled[c],
             handled'[c] \subseteq jobs[c] \cup handled[c],
             cur'[c] \in jobs[c] \cup {cur[c], NoPid}
      PROVE  TargetsBorn(c)'
  BY <1>0, <1>1, RegistryAssumption
<1>2. CASE Start(c) \/ Abort(c) \/ Finish(c)
  BY <1>0, <1>1, <1>2 DEF Start, Abort, Finish, Forget
<1>3. CASE ManageStep(c)
  <2>1. CASE Select(c)
    <3>1. \A p \in Pids({e \in found[c] : Selects(Head(args[c]), e)}) : p \in Pid /\ Born(p)
      BY DEF IInv, Pids, Entry
    <3> QED
      BY <1>0, <2>1, <3>1 DEF Select
  <2>2. CASE KillPlan(c)
    <3> DEFINE plan == UNION {Holders(request[c].ports, i) : i \in DOMAIN request[c].ports}
    <3>1. \A p \in plan : p \in Pid /\ Born(p)
      <4>1. ASSUME NEW i, NEW p \in Holders(request[c].ports, i)
            PROVE  p \in Pid /\ holds[p] # {}
        BY <4>1 DEF Holders
      <4>2. \A p \in Pid : holds[p] # {} => status[p] = "run"
        BY DEF SocketsOpen, IInv
      <4> QED
        BY <4>1, <4>2 DEF Born
    <3> HIDE DEF plan
    <3>2. jobs' = [jobs EXCEPT ![c] = plan] /\ handled' = [handled EXCEPT ![c] = plan] /\ cur' = cur
      BY <2>2 DEF KillPlan, plan
    <3> QED
      BY <1>0, <3>1, <3>2
  <2>3. ASSUME List(c) \/ Sweep(c) \/ Ps(c), UNCHANGED workVars PROVE TargetsBorn(c)'
    BY <1>0, <1>1, <2>3
  <2>4. CASE NextHit(c)
    <3>1. PICK p \in Pid :
             /\ p \in jobs[c]
             /\ jobs' = [jobs EXCEPT ![c] = @ \ {p}]
             /\ handled' = [handled EXCEPT ![c] = @ \cup {p}]
             /\ cur' = [cur EXCEPT ![c] = p]
      BY <1>0, <2>4 DEF NextHit
    <3>2. cur'[c] = p /\ jobs'[c] \subseteq jobs[c] /\ handled'[c] = handled[c] \cup {p}
      BY <1>0, <3>1
    <3>3. jobs'[c] \subseteq jobs[c] \cup handled[c]
      BY <3>2
    <3>4. handled'[c] \subseteq jobs[c] \cup handled[c]
      BY <3>1, <3>2
    <3>5. cur'[c] \in jobs[c] \cup {cur[c], NoPid}
      BY <3>1, <3>2
    <3> HIDE DEF TargetsBorn
    <3> QED
      BY <1>1, <3>3, <3>4, <3>5
  <2>5. CASE NextHolder(c) \/ NextOnce(c)
    BY <1>0, <1>1, <2>5 DEF NextHolder, NextOnce
  <2>6. CASE KillEnd(c)
    BY <1>0, <1>1, <2>6 DEF KillEnd
  <2>10. CASE Tidy(c)
    BY <1>0, <1>1, <2>10 DEF Tidy
  <2>7. CASE StopBegin(c)
    BY <1>0, <1>1, <2>7 DEF StopBegin
  <2>8. ASSUME UNCHANGED workVars PROVE TargetsBorn(c)'
    BY <1>0, <1>1, <2>8
  <2>9. CASE Term(c) \/ Stopped(c) \/ LastProbe(c) \/ Escalate(c) \/ Survived(c) \/ StopEnd(c)
             \/ UnlinkStopped(c) \/ KillBlind(c) \/ SignalOnce(c) \/ TidyEnd(c)
    BY <2>8, <2>9 DEF Term, Stopped, LastProbe, Escalate, Survived, StopEnd, UnlinkStopped,
                      KillBlind, SignalOnce, TidyEnd
  <2> QED
    BY <1>3, <2>1, <2>2, <2>3, <2>4, <2>5, <2>6, <2>7, <2>9, <2>10 DEF ManageStep
<1>4. CASE LaunchStep(c)
  <2>1. ASSUME NEW q \in Pid, NEW g, Birth(q, g, "user", {}), cur' = [cur EXCEPT ![c] = q],
               UNCHANGED <<jobs, handled>>
        PROVE  TargetsBorn(c)'
    BY <1>0, <2>1 DEF Birth, Born, ProcTypeOK
  <2>2. CASE Spawn(c) \/ ForkPump(c)
    BY <2>1, <2>2 DEF Spawn, ForkPump
  <2> QED
    BY <1>0, <1>1, <1>4, <2>2
       DEF LaunchStep, SpawnFails, RegisterChild, RegisterFails, ForkFails, Hint
<1>5. ASSUME NEW d \in Cmd, d # c, Start(d) \/ Run(d) \/ Abort(d) PROVE TargetsBorn(c)'
  BY <1>0, <1>1, <1>5, OthersKeepLocals DEF Locals
<1>6. ASSUME NEW q \in Pid, PumpStep(q) PROVE TargetsBorn(c)'
  BY <1>0, <1>1, <1>6 DEF PumpStep, PumpSession, PumpRegister, PumpUnregistered
<1>7. CASE Environment \/ UNCHANGED vars
  BY <1>0, <1>1, <1>7 DEF Environment, vars
<1> QED
  BY <1>2, <1>3, <1>4, <1>5, <1>6, <1>7 DEF Next, Run

\* What an invocation will unlink stays dead until it does.
LEMMA SeenDeadPreserved ==
    ASSUME IInv, [Next]_vars, NEW c \in Cmd
    PROVE  SeenDead(c)'
<1> USE DEF TypeOK, SeenDead, Goto, Fail, listVars, workVars
<1>0. TypeOK /\ InStep(c) /\ TargetsBorn(c) /\ SeenDead(c)
  BY DEF IInv
<1>1. \A p \in Pid : Born(p) /\ ~Alive(p) => ~Alive(p)'
  BY <1>0, StepPersists DEF Persists
<1>2. \A e \in registered : e.pid \in Pid /\ Born(e.pid)
  BY DEF IInv, Entry
<1>3. ASSUME dead'[c] \subseteq dead[c],
             pc'[c] = "unlink" =>
               cur'[c] \in Pid /\ Born(cur'[c]) /\ ~Alive(cur'[c])
      PROVE  SeenDead(c)'
  BY <1>0, <1>1, <1>2, <1>3
<1>4. pc[c] = "unlink" => cur[c] \in Pid /\ Born(cur[c]) /\ ~Alive(cur[c])
  BY <1>0 DEF InStep, TargetsBorn
<1>5. CASE Start(c) \/ Abort(c) \/ Finish(c)
  <2>1. \A r \in Requests : FirstStep(r) # "unlink"
    BY RequestFields DEF FirstStep, BadSignal, Managing
  <2> QED
    BY <1>0, <1>3, <1>5, <2>1 DEF Start, Abort, Finish, Forget
<1>6. CASE ManageStep(c)
  <2>1. CASE List(c)
    <3>1. pc' = pc
      BY <2>1 DEF List
    <3>2. \A e \in dead'[c] : e \in registered /\ ~Alive(e.pid)
      BY <1>0, <2>1 DEF List
    <3> QED
      BY <1>1, <1>2, <2>1, <3>1, <3>2, <1>0 DEF List
  <2>2. CASE NextHit(c)
    <3>1. PICK p \in jobs[c] :
             cur' = [cur EXCEPT ![c] = p] /\ Goto(c, IF Alive(p) THEN "term" ELSE "unlink")
      BY <2>2 DEF NextHit
    <3> QED
      BY <1>0, <1>3, <2>2, <3>1 DEF NextHit, TargetsBorn
  <2>3. CASE Stopped(c)
    <3>1. cur[c] \in Pid /\ Born(cur[c]) /\ ~Alive(cur[c])
      BY <1>0, <2>3, GoneIsDead DEF Stopped, InStep, TargetsBorn, IInv
    <3> QED
      BY <1>3, <2>3, <3>1 DEF Stopped
  <2>4. ASSUME Sweep(c), UNCHANGED workVars PROVE SeenDead(c)'
    BY <1>0, <1>3, <1>4, <2>4 DEF Sweep
  <2>5. CASE Select(c) \/ Tidy(c)
    BY <1>0, <1>3, <1>4, <2>5 DEF Select, Tidy, BatchDone
  <2>6. CASE Term(c) \/ LastProbe(c) \/ Escalate(c) \/ Survived(c) \/ StopBegin(c)
             \/ StopEnd(c) \/ UnlinkStopped(c)
    BY <1>0, <1>3, <2>6 DEF Term, LastProbe, Escalate, Survived, StopBegin, StopEnd,
                            UnlinkStopped
  <2>7. CASE Ps(c) \/ KillPlan(c) \/ KillBlind(c) \/ NextHolder(c) \/ NextOnce(c)
             \/ SignalOnce(c) \/ KillEnd(c) \/ TidyEnd(c)
    BY <1>0, <1>3, <2>7 DEF Ps, KillPlan, KillBlind, NextHolder, NextOnce, SignalOnce,
                            KillEnd, TidyEnd
  <2> QED
    BY <1>6, <2>1, <2>2, <2>3, <2>4, <2>5, <2>6, <2>7 DEF ManageStep
<1>7. CASE LaunchStep(c)
  BY <1>0, <1>3, <1>7
     DEF LaunchStep, Spawn, SpawnFails, RegisterChild, RegisterFails, ForkPump,
         ForkFails, Hint
<1>8. ASSUME Locals(c)' = Locals(c) PROVE SeenDead(c)'
  BY <1>3, <1>4, <1>8 DEF Locals
<1>9. ASSUME NEW d \in Cmd, d # c, Start(d) \/ Run(d) \/ Abort(d) PROVE SeenDead(c)'
  BY <1>0, <1>8, <1>9, OthersKeepLocals
<1>10. ASSUME NEW q \in Pid, PumpStep(q) PROVE SeenDead(c)'
  BY <1>8, <1>10 DEF PumpStep, PumpSession, PumpRegister, PumpUnregistered, Locals
<1>11. CASE Environment \/ UNCHANGED vars
  BY <1>8, <1>11 DEF Environment, vars, Locals
<1> QED
  BY <1>5, <1>6, <1>7, <1>9, <1>10, <1>11 DEF Next, Run

-----------------------------------------------------------------------------
(* Who registers what.                                                     *)

\* An invocation comes to register a pid only by having spawned it.
LEMMA RegisterPc ==
    ASSUME TypeOK, [Next]_vars, NEW c \in Cmd, pc'[c] = "register"
    PROVE  \/ Spawn(c)
           \/ pc[c] = "register" /\ cur'[c] = cur[c]
<1> USE DEF TypeOK, Goto, listVars, workVars
<1>1. ASSUME Locals(c)' = Locals(c) PROVE pc[c] = "register" /\ cur'[c] = cur[c]
  BY <1>1 DEF Locals
<1>2. CASE Start(c) \/ Abort(c) \/ Finish(c)
  <2>1. \A r \in Requests : FirstStep(r) # "register"
    BY RequestFields DEF FirstStep, BadSignal, Managing
  <2> QED
    BY <1>2, <2>1 DEF Start, Abort, Finish
<1>3. CASE ManageStep(c)
  <2>1. ASSUME List(c) \/ Sweep(c) \/ Ps(c), UNCHANGED workVars
        PROVE  FALSE
    BY <2>1 DEF List, Sweep, Ps, Swept, Read
  <2>2. CASE Term(c) \/ Stopped(c) \/ LastProbe(c) \/ Escalate(c) \/ Survived(c)
             \/ StopBegin(c) \/ Select(c) \/ StopEnd(c) \/ NextHit(c) \/ UnlinkStopped(c)
    BY <2>2 DEF Term, Stopped, AfterStopped, LastProbe, Escalate, Survived, StopBegin, Select,
                StopEnd, NextHit, UnlinkStopped, BatchDone
  <2>3. CASE KillPlan(c) \/ KillBlind(c) \/ NextHolder(c) \/ NextOnce(c)
             \/ SignalOnce(c) \/ KillEnd(c) \/ Tidy(c) \/ TidyEnd(c)
    BY <2>3 DEF KillPlan, KillBlind, NextHolder, NextOnce, SignalOnce, KillEnd, Tidy,
                TidyEnd
  <2> QED
    BY <1>3, <2>1, <2>2, <2>3 DEF ManageStep
<1>4. CASE LaunchStep(c)
  BY <1>4 DEF LaunchStep, Spawn, SpawnFails, RegisterChild, RegisterFails, ForkPump,
              ForkFails, Hint
<1>5. ASSUME NEW d \in Cmd, d # c, Start(d) \/ Run(d) \/ Abort(d)
      PROVE  pc[c] = "register" /\ cur'[c] = cur[c]
  BY <1>1, <1>5, OthersKeepLocals
<1>6. ASSUME NEW q \in Pid, PumpStep(q) PROVE pc[c] = "register" /\ cur'[c] = cur[c]
  BY <1>1, <1>6 DEF PumpStep, PumpSession, PumpRegister, PumpUnregistered, Locals
<1>7. CASE Environment \/ UNCHANGED vars
  BY <1>1, <1>7 DEF Environment, vars, Locals
<1> QED
  BY <1>2, <1>3, <1>4, <1>5, <1>6, <1>7 DEF Next, Run

\* The run directory changes in three ways: a detach registers its child, a
\* pump registers itself, or a pid file whose process is dead goes.
DetachRegisters(c) ==
    /\ pc[c] = "register"
    /\ cur[c] \in Pid
    /\ pc'[c] = "done"
    /\ UNCHANGED <<stage, pumpLog>>
    /\ registered' = registered \cup {Launched(c)}
    /\ files' = files \cup {Launched(c)}

PumpRegisters(e) ==
    /\ e \in pumpLog
    /\ stage[e.pid] = "session"
    /\ stage' = [stage EXCEPT ![e.pid] = "pumping"]
    /\ UNCHANGED pumpLog
    /\ registered' = registered \cup {e}
    /\ files' = files \cup {e}

DropsDead ==
    /\ registered' = registered
    /\ \A e \in files \ files' : ~Alive(e.pid)
    /\ files' \subseteq files

LEMMA DirectoryStep ==
    ASSUME IInv, [Next]_vars
    PROVE  \/ \E c \in Cmd : DetachRegisters(c)
           \/ \E e \in Entry : PumpRegisters(e)
           \/ DropsDead
<1> USE DEF TypeOK, dirVars
<1>0. TypeOK /\ \A c \in Cmd : InStep(c) /\ SeenDead(c)
  BY DEF IInv
<1>1. ASSUME UNCHANGED <<files, registered>> PROVE DropsDead
  BY <1>1 DEF DropsDead
<1>2. ASSUME NEW E, \A e \in E : ~Alive(e.pid), Unlink(E) PROVE DropsDead
  BY <1>2 DEF DropsDead, Unlink
<1>3. ASSUME NEW c \in Cmd, Start(c) \/ Abort(c) \/ Finish(c) PROVE DropsDead
  BY <1>1, <1>3 DEF Start, Abort, Finish
<1>4. ASSUME NEW c \in Cmd, ManageStep(c) PROVE DropsDead
  <2>1. CASE UnlinkStopped(c)
    <3>1. \A e \in {f \in found[c] : f.pid = cur[c]} : ~Alive(e.pid)
      BY <1>0, <2>1 DEF UnlinkStopped, SeenDead
    <3> QED
      BY <1>2, <2>1, <3>1 DEF UnlinkStopped
  <2>2. CASE Tidy(c)
    <3>1. PICK p \in jobs[c] : Unlink({e \in found[c] : e.pid = p /\ ~Alive(p)})
      BY <2>2 DEF Tidy
    <3> QED
      BY <1>2, <3>1
  <2>3. CASE Sweep(c)
    <3>1. PICK e \in dead[c] : Unlink({e})
      BY <2>3 DEF Sweep
    <3> QED
      BY <1>0, <1>2, <3>1 DEF SeenDead
  <2>4. CASE List(c) \/ Ps(c)
    BY <1>1, <2>4 DEF List, Ps
  <2>5. CASE Term(c) \/ Stopped(c) \/ LastProbe(c) \/ Escalate(c) \/ Survived(c)
             \/ StopBegin(c) \/ Select(c) \/ StopEnd(c) \/ NextHit(c)
    BY <1>1, <2>5 DEF Term, Stopped, LastProbe, Escalate, Survived, StopBegin, Select, StopEnd,
                      NextHit
  <2>6. CASE KillPlan(c) \/ KillBlind(c) \/ NextHolder(c) \/ NextOnce(c)
             \/ SignalOnce(c) \/ KillEnd(c) \/ TidyEnd(c)
    BY <1>1, <2>6 DEF KillPlan, KillBlind, NextHolder, NextOnce, SignalOnce, KillEnd,
                      TidyEnd
  <2> QED
    BY <1>4, <2>1, <2>2, <2>3, <2>4, <2>5, <2>6 DEF ManageStep
<1>5. ASSUME NEW c \in Cmd, LaunchStep(c) PROVE DropsDead \/ DetachRegisters(c)
  <2>1. CASE RegisterChild(c)
    BY <1>0, <2>1 DEF RegisterChild, Register, DetachRegisters, Goto, InStep, launchVars
  <2> QED
    BY <1>1, <1>5, <2>1
       DEF LaunchStep, Spawn, SpawnFails, RegisterFails, ForkPump, ForkFails, Hint
<1>6. ASSUME NEW q \in Pid, PumpStep(q) PROVE DropsDead \/ \E e \in Entry : PumpRegisters(e)
  <2>1. CASE PumpRegister(q)
    BY <1>0, <2>1 DEF PumpRegister, Register, PumpRegisters
  <2> QED
    BY <1>1, <1>6, <2>1 DEF PumpStep, PumpSession, PumpUnregistered
<1>7. CASE Environment \/ UNCHANGED vars
  BY <1>1, <1>7 DEF Environment, vars
<1> QED
  BY <1>3, <1>4, <1>5, <1>6, <1>7 DEF Next, Run

\* A pid waiting to be registered by a detach is the detach's own.
LEMMA DetachOwnsPreserved ==
    ASSUME IInv, [Next]_vars, NEW c \in Cmd
    PROVE  DetachOwns(c)'
<1> USE DEF TypeOK
<1>0. /\ TypeOK
      /\ \A d \in Cmd : InStep(d) /\ TargetsBorn(d) /\ DetachOwns(d)
      /\ \A p \in Pid : PumpOwns(p)
      /\ \A e \in registered : e.pid \in Pid /\ Born(e.pid)
  BY DEF IInv, Entry
<1>1. SUFFICES ASSUME pc'[c] = "register" PROVE DetachOwns(c)'
  BY DEF DetachOwns
<1>2. CASE Spawn(c)
  <2>1. PICK q \in Pid : Birth(q, q, "user", {}) /\ cur' = [cur EXCEPT ![c] = q]
    BY <1>2 DEF Spawn
  <2>2. ~Born(q) /\ stage[q] = "none" /\ q \notin Pids(registered)
    BY <1>0, <2>1 DEF Birth, Born, PumpOwns, Pids
  <2>3. \A d \in Cmd \ {c} : pc[d] = "register" => cur[d] # q
    BY <1>0, <2>2 DEF InStep, TargetsBorn
  <2>4. cur'[c] = q /\ pgid'[q] = q
    BY <1>0, <2>1 DEF Birth, ProcTypeOK
  <2>5. \A d \in Cmd \ {c} : pc'[d] = pc[d] /\ cur'[d] = cur[d]
    BY <1>2, <2>1 DEF Spawn, Goto
  <2>6. UNCHANGED <<stage, registered>>
    BY <1>2 DEF Spawn, launchVars, dirVars
  <2> QED
    BY <2>2, <2>3, <2>4, <2>5, <2>6 DEF DetachOwns, Pids
<1>3. CASE pc[c] = "register" /\ cur'[c] = cur[c]
  <2> DEFINE p == cur[c]
  <2>1. /\ p \in Pid /\ Born(p) /\ stage[p] = "none" /\ pgid[p] = p
        /\ p \notin Pids(registered)
        /\ \A d \in Cmd \ {c} : pc[d] = "register" => cur[d] # p
    BY <1>0, <1>3 DEF InStep, TargetsBorn, DetachOwns
  <2>2. pgid'[p] = p
    BY <1>0, <2>1, StepPersists DEF Persists
  <2>3. stage'[p] = "none"
    <3>1. ASSUME UNCHANGED stage PROVE stage'[p] = "none"
      BY <2>1, <3>1
    <3>2. ASSUME NEW d \in Cmd, Start(d) \/ Abort(d) \/ Finish(d) PROVE UNCHANGED stage
      BY <3>2 DEF Start, Abort, Finish, launchVars
    <3>3. ASSUME NEW d \in Cmd, LaunchStep(d) PROVE stage'[p] = "none"
      <4>1. CASE ForkPump(d)
        BY <1>0, <2>1, <4>1 DEF ForkPump, Birth, Born
      <4> QED
        BY <3>1, <3>3, <4>1 DEF LaunchStep, Spawn, SpawnFails, RegisterChild,
           RegisterFails, ForkFails, Hint, launchVars
    <3>4. ASSUME NEW q \in Pid, PumpStep(q) PROVE stage'[p] = "none"
      BY <1>0, <2>1, <3>4 DEF PumpStep, PumpSession, PumpRegister, PumpUnregistered
    <3>5. CASE Environment \/ UNCHANGED vars
      BY <3>1, <3>5 DEF Environment, vars, launchVars
    <3> QED
      BY <3>1, <3>2, <3>3, <3>4, <3>5 DEF Next, Run, launchVars
  <2>4. p \notin Pids(registered')
    <3>1. ASSUME NEW d \in Cmd, DetachRegisters(d) PROVE p \notin Pids(registered')
      <4>1. d # c
        BY <1>1, <3>1 DEF DetachRegisters
      <4> QED
        BY <2>1, <3>1, <4>1 DEF DetachRegisters, Pids, Launched
    <3>2. ASSUME NEW e \in Entry, PumpRegisters(e) PROVE p \notin Pids(registered')
      BY <2>1, <3>2 DEF PumpRegisters, Pids
    <3> QED
      BY <2>1, <3>1, <3>2, DirectoryStep DEF DropsDead
  <2>5. ASSUME NEW d \in Cmd \ {c}, pc'[d] = "register" PROVE cur'[d] # p
    <3>1. CASE Spawn(d)
      BY <1>0, <2>1, <3>1 DEF Spawn, Birth, Born
    <3> QED
      BY <1>0, <2>1, <2>5, <3>1, RegisterPc
  <2> QED
    BY <1>3, <2>2, <2>3, <2>4, <2>5 DEF DetachOwns
<1> QED
  BY <1>0, <1>1, <1>2, <1>3, RegisterPc

\* A pump that has not registered itself yet is not registered.
LEMMA PumpOwnsPreserved ==
    ASSUME IInv, [Next]_vars, NEW p \in Pid
    PROVE  PumpOwns(p)'
<1> USE DEF TypeOK
<1>0. /\ TypeOK
      /\ \A d \in Cmd : InStep(d) /\ DetachOwns(d)
      /\ \A q \in Pid : PumpOwns(q)
      /\ \A e \in registered : e.pid \in Pid /\ Born(e.pid)
  BY DEF IInv, Entry
<1>1. Persists(p)
  BY <1>0, StepPersists
<1>2. stage'[p] \in {"forked", "session"} /\ stage[p] # "none" => p \notin Pids(registered')
  <2> SUFFICES ASSUME stage'[p] \in {"forked", "session"}, stage[p] # "none"
               PROVE  p \notin Pids(registered')
    OBVIOUS
  <2>1. ASSUME NEW d \in Cmd, DetachRegisters(d) PROVE p \notin Pids(registered')
    BY <1>0, <2>1 DEF DetachRegisters, Pids, Launched, PumpOwns, DetachOwns
  <2>2. ASSUME NEW e \in Entry, PumpRegisters(e) PROVE p \notin Pids(registered')
    BY <1>0, <2>2 DEF PumpRegisters, Pids, PumpOwns, Entry
  <2>3. CASE DropsDead
    <3>1. stage[p] \in {"forked", "session"}
      <4>1. CASE UNCHANGED stage
        BY <4>1
      <4>2. ASSUME NEW q \in Pid, PumpStep(q) PROVE stage[p] \in {"forked", "session"}
        BY <1>0, <4>2 DEF PumpStep, PumpSession, PumpRegister, PumpUnregistered
      <4>3. ASSUME NEW d \in Cmd, LaunchStep(d) PROVE stage[p] \in {"forked", "session"}
        <5>1. CASE ForkPump(d)
          BY <1>0, <5>1 DEF ForkPump, Birth, PumpOwns, Born
        <5> QED
          BY <4>1, <4>3, <5>1 DEF LaunchStep, Spawn, SpawnFails, RegisterChild,
             RegisterFails, ForkFails, Hint, launchVars
      <4>4. ASSUME NEW d \in Cmd, Start(d) \/ Abort(d) \/ Finish(d) PROVE UNCHANGED stage
        BY <4>4 DEF Start, Abort, Finish, launchVars
      <4>5. CASE Environment \/ UNCHANGED vars
        BY <4>5, <4>1 DEF Environment, vars, launchVars
      <4> QED
        BY <4>1, <4>2, <4>3, <4>4, <4>5 DEF Next, Run, launchVars
    <3> QED
      BY <1>0, <2>3, <3>1 DEF DropsDead, PumpOwns
  <2> QED
    BY <2>1, <2>2, <2>3, DirectoryStep
<1>3. ASSUME UNCHANGED <<stage, pumpLog>> PROVE PumpOwns(p)'
  BY <1>0, <1>1, <1>2, <1>3 DEF PumpOwns, Persists
<1>4. ASSUME NEW c \in Cmd, ForkPump(c) PROVE PumpOwns(p)'
  <2>1. PICK q \in Pid :
           /\ Birth(q, pgid[Shell], "user", {})
           /\ stage' = [stage EXCEPT ![q] = "forked"]
           /\ pumpLog' = IF request[c].log
                           THEN pumpLog \cup {[label |-> request[c].label, pid |-> q]}
                           ELSE pumpLog
    BY <1>4 DEF ForkPump
  <2>2. CASE p = q
    BY <1>0, <1>4, <2>1, <2>2 DEF PumpOwns, Birth, Born, ProcTypeOK, Pids, ForkPump, dirVars
  <2>3. CASE p # q
    <3>1. p \in Pids(pumpLog') => p \in Pids(pumpLog)
      BY <2>1, <2>3 DEF Pids
    <3> QED
      BY <1>0, <1>1, <1>2, <2>1, <2>3, <3>1 DEF PumpOwns, Persists
  <2> QED
    BY <2>2, <2>3
<1>5. ASSUME NEW c \in Cmd, LaunchStep(c) PROVE PumpOwns(p)'
  BY <1>3, <1>4, <1>5 DEF LaunchStep, Spawn, SpawnFails, RegisterChild,
     RegisterFails, ForkFails, Hint, launchVars
<1>6. ASSUME NEW q \in Pid, PumpStep(q) PROVE PumpOwns(p)'
  <2>1. CASE PumpSession(q)
    BY <1>0, <1>1, <1>2, <2>1 DEF PumpSession, PumpOwns, Persists, ProcTypeOK
  <2>2. CASE PumpRegister(q) \/ PumpUnregistered(q)
    BY <1>0, <1>1, <1>2, <2>2 DEF PumpRegister, PumpUnregistered, PumpOwns, Persists, procVars
  <2> QED
    BY <1>6, <2>1, <2>2 DEF PumpStep
<1>7. ASSUME NEW c \in Cmd, Start(c) \/ Abort(c) \/ Finish(c) PROVE PumpOwns(p)'
  BY <1>3, <1>7 DEF Start, Abort, Finish, launchVars
<1>8. CASE Environment \/ UNCHANGED vars
  BY <1>3, <1>8 DEF Environment, vars, launchVars
<1> QED
  BY <1>3, <1>5, <1>6, <1>7, <1>8 DEF Next, Run, launchVars

-----------------------------------------------------------------------------
(* The inductive invariant.                                                *)

LEMMA InitIInv == Init => IInv
<1> SUFFICES ASSUME Init PROVE IInv
  OBVIOUS
<1> USE DEF Init, ProcInit, RegistryInit, ManageInit, LaunchInit
<1>1. TypeOK
  BY ProcessAssumption DEF TypeOK, ProcTypeOK, Pc
<1>2. \A c \in Cmd : InStep(c) /\ TargetsBorn(c) /\ SeenDead(c) /\ DetachOwns(c)
  BY RegistryAssumption DEF InStep, TargetsBorn, SeenDead, DetachOwns
<1>3. \A p \in Pid : PumpOwns(p)
  BY DEF PumpOwns, Pids
<1> QED
  BY <1>1, <1>2, <1>3 DEF IInv, SocketsOpen, SessionLeaders, LiveLeaderRegistered

\* The registrations themselves: all of processes that lead their own group,
\* one for each, and there as long as the process can be signalled.
LEMMA RegisteredPreserved ==
    ASSUME IInv, [Next]_vars
    PROVE  /\ \A e \in registered' : Born(e.pid)'
           /\ SessionLeaders'
           /\ LiveLeaderRegistered'
<1> USE DEF TypeOK
<1>0. /\ TypeOK
      /\ \A d \in Cmd : InStep(d) /\ TargetsBorn(d) /\ DetachOwns(d)
      /\ \A q \in Pid : PumpOwns(q)
      /\ SessionLeaders
      /\ LiveLeaderRegistered
  BY DEF IInv
<1>1. \A e \in registered : e.pid \in Pid /\ Born(e.pid) /\ pgid[e.pid] = e.pid
  BY DEF IInv, Entry, SessionLeaders
<1>2. \A p \in Pid : Persists(p)
  BY <1>0, StepPersists
<1>3. ASSUME NEW e, registered' = registered \cup {e}, files' = files \cup {e},
             e.pid \in Pid, e.pid \notin Pids(registered), Born(e.pid), pgid[e.pid] = e.pid
      PROVE  /\ \A f \in registered' : Born(f.pid)'
             /\ SessionLeaders'
             /\ LiveLeaderRegistered'
  <2>1. \A f \in registered' : f.pid \in Pid /\ Born(f.pid)' /\ pgid'[f.pid] = f.pid
    BY <1>1, <1>2, <1>3 DEF Persists
  <2>2. SessionLeaders'
    BY <1>0, <1>3, <2>1 DEF SessionLeaders, Pids
  <2>3. LiveLeaderRegistered'
    BY <1>0, <1>1, <1>2, <1>3 DEF LiveLeaderRegistered, Persists
  <2> QED
    BY <2>1, <2>2, <2>3
<1>4. ASSUME NEW c \in Cmd, DetachRegisters(c)
      PROVE  /\ \A f \in registered' : Born(f.pid)'
             /\ SessionLeaders'
             /\ LiveLeaderRegistered'
  <2>1. Launched(c).pid = cur[c]
    BY DEF Launched
  <2>2. /\ cur[c] \in Pid /\ Born(cur[c]) /\ pgid[cur[c]] = cur[c]
        /\ cur[c] \notin Pids(registered)
    BY <1>0, <1>4 DEF DetachRegisters, DetachOwns, TargetsBorn
  <2> QED
    BY <1>3, <1>4, <2>1, <2>2 DEF DetachRegisters
<1>5. ASSUME NEW e \in Entry, PumpRegisters(e)
      PROVE  /\ \A f \in registered' : Born(f.pid)'
             /\ SessionLeaders'
             /\ LiveLeaderRegistered'
  <2>1. /\ e.pid \in Pid /\ Born(e.pid) /\ pgid[e.pid] = e.pid
        /\ e.pid \notin Pids(registered)
    BY <1>0, <1>5 DEF PumpRegisters, PumpOwns, Entry
  <2> QED
    BY <1>3, <1>5, <2>1 DEF PumpRegisters
<1>6. CASE DropsDead
  <2>1. SessionLeaders'
    BY <1>0, <1>1, <1>2, <1>6 DEF SessionLeaders, DropsDead, Persists
  <2>2. LiveLeaderRegistered'
    BY <1>0, <1>1, <1>2, <1>6 DEF LiveLeaderRegistered, DropsDead, Persists
  <2> QED
    BY <1>1, <1>2, <1>6, <2>1, <2>2 DEF DropsDead, Persists
<1> QED
  BY <1>4, <1>5, <1>6, DirectoryStep

\* Whoever dies closes its sockets, and only who runs opens one.
LEMMA SocketsPreserved ==
    ASSUME TypeOK, SocketsOpen, [Next]_vars
    PROVE  SocketsOpen'
<1> USE DEF SocketsOpen, TypeOK, ProcTypeOK
<1>1. ASSUME UNCHANGED <<status, holds>> PROVE SocketsOpen'
  BY <1>1
<1>2. ASSUME NEW q \in Pid, NEW g, NEW user, NEW ports, Birth(q, g, user, ports)
      PROVE  SocketsOpen'
  BY <1>2 DEF Birth
<1>3. ASSUME NEW c \in Cmd, Start(c) \/ Abort(c) \/ Finish(c) PROVE UNCHANGED <<status, holds>>
  BY <1>3 DEF Start, Abort, Finish, procVars
<1>4. ASSUME NEW c \in Cmd, LaunchStep(c) PROVE SocketsOpen'
  <2>1. CASE Spawn(c) \/ ForkPump(c)
    <3>1. \E q \in Pid : Birth(q, q, "user", {}) \/ Birth(q, pgid[Shell], "user", {})
      BY <2>1 DEF Spawn, ForkPump
    <3> HIDE DEF SocketsOpen
    <3> QED
      BY <1>2, <3>1
  <2>2. ASSUME ~Spawn(c), ~ForkPump(c) PROVE UNCHANGED <<status, holds>>
    BY <1>4, <2>2 DEF LaunchStep, SpawnFails, RegisterChild, RegisterFails, ForkFails, Hint,
                      procVars
  <2> HIDE DEF SocketsOpen
  <2> QED
    BY <1>1, <2>1, <2>2
<1>5. ASSUME NEW q \in Pid, PumpStep(q) PROVE UNCHANGED <<status, holds>>
  BY <1>5 DEF PumpStep, PumpSession, PumpRegister, PumpUnregistered, procVars
<1>6. CASE Environment
  <2>1. ASSUME NEW a \in Pid, NEW q \in Pid, Fork(a, q) PROVE SocketsOpen'
    BY <1>2, <2>1 DEF Fork
  <2>2. ASSUME NEW a \in Pid, NEW port \in Port, Bind(a, port) \/ Release(a, port)
        PROVE  SocketsOpen'
    BY <2>2 DEF Bind, Release, Active
  <2>3. ASSUME NEW a \in Pid, SetSid(a) \/ Elevate(a) \/ Exit(a) \/ Reap(a) PROVE SocketsOpen'
    BY <2>3 DEF SetSid, Elevate, Exit, Reap
  <2> HIDE DEF SocketsOpen
  <2> QED
    BY <1>6, <2>1, <2>2, <2>3 DEF Environment
<1>7. ASSUME UNCHANGED vars PROVE UNCHANGED <<status, holds>>
  BY <1>7 DEF vars, procVars
<1> HIDE DEF SocketsOpen
<1> QED
  BY <1>1, <1>3, <1>4, <1>5, <1>6, <1>7, ManageLeavesProcesses DEF Next, Run

LEMMA StepIInv == IInv /\ [Next]_vars => IInv'
<1> SUFFICES ASSUME IInv, [Next]_vars PROVE IInv'
  OBVIOUS
<1>1. TypeOK'
  BY TypeStep DEF IInv
<1>2. \A c \in Cmd : InStep(c)'
  BY InStepPreserved DEF IInv
<1>3. \A c \in Cmd : TargetsBorn(c)' /\ SeenDead(c)' /\ DetachOwns(c)'
  BY TargetsBornPreserved, SeenDeadPreserved, DetachOwnsPreserved
<1>4. \A p \in Pid : PumpOwns(p)'
  BY PumpOwnsPreserved
<1>5. SocketsOpen'
  BY SocketsPreserved DEF IInv
<1> QED
  BY <1>1, <1>2, <1>3, <1>4, <1>5, RegisteredPreserved DEF IInv

\* Every reachable state satisfies the inductive invariant.
THEOREM Inductive == Spec => []IInv
<1>1. IInv /\ [Next]_vars => IInv'
  BY StepIInv
<1> QED
  BY InitIInv, <1>1, PTL DEF Spec

\* Type correctness of the whole model.
THEOREM TypeCorrect == Spec => []TypeOK
<1>1. IInv => TypeOK
  BY DEF IInv
<1> QED
  BY <1>1, Inductive, PTL

\* However many invocations of ps, stop, kill and detach overlap, and wherever
\* they are cut short, a running process that was registered is still
\* registered (registry.rs:87, 297-316, 453-463, 823-832).
THEOREM LiveStaysRegistered == Spec => []LiveLeaderRegistered
<1>1. IInv => LiveLeaderRegistered
  BY DEF IInv
<1> QED
  BY <1>1, Inductive, PTL

\* Every pid file names a process that leads a group of its own, so killpg on
\* it never reaches the shell deemo was started from (registry.rs:3-9).
THEOREM RegisteredLead == Spec => []SessionLeaders
<1>1. IInv => SessionLeaders
  BY DEF IInv
<1> QED
  BY <1>1, Inductive, PTL
-----------------------------------------------------------------------------
(* The run directory implements Registrations.                             *)

\* A step of deemo changes the directory, or a step of somebody changes one
\* process: none does both, since a detach spawns before it registers.
LEMMA DirectoryOrProcess ==
    ASSUME TypeOK, [Next]_vars
    PROVE  \/ UNCHANGED <<status, root>>
           \/ /\ UNCHANGED <<files, registered>>
              /\ \E p \in Pid : \A q \in Pid \ {p} :
                   status'[q] = status[q] /\ (q \in root' <=> q \in root)
<1> DEFINE OneProcess == \E p \in Pid : \A q \in Pid \ {p} :
                           status'[q] = status[q] /\ (q \in root' <=> q \in root)
<1> USE DEF TypeOK, ProcTypeOK, dirVars
<1>1. ASSUME NEW q \in Pid, NEW g, NEW user, NEW ports, Birth(q, g, user, ports)
      PROVE  OneProcess
  BY <1>1 DEF Birth
<1>2. ASSUME NEW c \in Cmd, LaunchStep(c)
      PROVE  UNCHANGED <<status, root>> \/ (UNCHANGED <<files, registered>> /\ OneProcess)
  <2> HIDE DEF OneProcess
  <2> QED
    BY <1>1, <1>2 DEF LaunchStep, Spawn, SpawnFails, RegisterChild, RegisterFails, ForkPump,
                      ForkFails, Hint, procVars
<1>3. ASSUME Environment PROVE UNCHANGED <<files, registered>> /\ OneProcess
  <2>1. UNCHANGED <<files, registered>>
    BY <1>3 DEF Environment
  <2>2. ASSUME NEW a \in Pid, NEW q \in Pid, Fork(a, q) PROVE OneProcess
    BY <1>1, <2>2 DEF Fork
  <2>3. ASSUME NEW a \in Pid, SetSid(a) \/ Elevate(a) \/ Exit(a) \/ Reap(a) PROVE OneProcess
    BY <2>3 DEF SetSid, Elevate, Exit, Reap
  <2>4. ASSUME NEW a \in Pid, NEW port \in Port, Bind(a, port) \/ Release(a, port)
        PROVE  OneProcess
    BY <2>4 DEF Bind, Release
  <2> HIDE DEF OneProcess
  <2> QED
    BY <1>3, <2>1, <2>2, <2>3, <2>4 DEF Environment
<1>4. ASSUME NEW q \in Pid, PumpStep(q) PROVE UNCHANGED <<status, root>>
  BY <1>4 DEF PumpStep, PumpSession, PumpRegister, PumpUnregistered, procVars
<1>5. ASSUME NEW c \in Cmd, Start(c) \/ Abort(c) \/ Finish(c) PROVE UNCHANGED <<status, root>>
  BY <1>5 DEF Start, Abort, Finish, procVars
<1>6. ASSUME UNCHANGED vars PROVE UNCHANGED <<status, root>>
  BY <1>6 DEF vars, procVars
<1> HIDE DEF OneProcess
<1>7. UNCHANGED <<status, root>> \/ (UNCHANGED <<files, registered>> /\ OneProcess)
  BY <1>2, <1>3, <1>4, <1>5, <1>6, ManageLeavesProcesses DEF Next, Run
<1> QED
  BY <1>7 DEF OneProcess

\* Whatever a step unlinks, it unlinks for one pid.
LEMMA UnlinksOnePid ==
    ASSUME IInv, [Next]_vars
    PROVE  \E p : \A e \in files \ files' : e.pid = p
<1> USE DEF TypeOK, dirVars
<1>1. ASSUME files \subseteq files' PROVE \E p : \A e \in files \ files' : e.pid = p
  BY <1>1
<1>2. ASSUME NEW c \in Cmd, ManageStep(c) PROVE \E p : \A e \in files \ files' : e.pid = p
  <2>1. CASE UnlinkStopped(c)
    BY <2>1 DEF UnlinkStopped, Unlink
  <2>2. CASE Tidy(c)
    <3>1. PICK p \in jobs[c] : Unlink({e \in found[c] : e.pid = p /\ ~Alive(p)})
      BY <2>2 DEF Tidy
    <3> QED
      BY <3>1 DEF Unlink
  <2>3. CASE Sweep(c)
    <3>1. PICK e \in dead[c] : Unlink({e})
      BY <2>3 DEF Sweep
    <3> QED
      BY <3>1 DEF Unlink
  <2> QED
    BY <1>1, <1>2, <2>1, <2>2, <2>3
       DEF ManageStep, List, Ps, Term, Stopped, LastProbe, Escalate, Survived, StopBegin, Select,
           StopEnd, NextHit, KillPlan, KillBlind, NextHolder, NextOnce, SignalOnce, KillEnd,
           TidyEnd
<1>3. ASSUME NEW c \in Cmd, Start(c) \/ Abort(c) \/ Finish(c) \/ LaunchStep(c)
      PROVE  files \subseteq files'
  BY <1>3 DEF Start, Abort, Finish, LaunchStep, Spawn, SpawnFails, RegisterChild, Register,
              RegisterFails, ForkPump, ForkFails, Hint
<1>4. ASSUME NEW q \in Pid, PumpStep(q) PROVE files \subseteq files'
  BY <1>4 DEF PumpStep, PumpSession, PumpRegister, Register, PumpUnregistered
<1>5. CASE Environment \/ UNCHANGED vars
  BY <1>1, <1>5 DEF Environment, vars
<1> QED
  BY <1>1, <1>2, <1>3, <1>4, <1>5 DEF Next, Run

\* The steps of Registrations, one registration at a time.
Lives(from, to) ==
    \/ from = "none" /\ to \in {"live", "stale"}
    \/ from = "live" /\ to = "stale"
    \/ from = "stale" /\ to = "dropped"
    \/ from = to

LEMMA OneRegistrationMoves ==
    ASSUME NEW e \in Entry, Lives(Life(e), Life(e)'),
           \A f \in Entry \ {e} : Life(f)' = Life(f)
    PROVE  Registry_!LifeNext \/ UNCHANGED [f \in Entry |-> Life(f)]
<1> DEFINE life == [f \in Entry |-> Life(f)]
           after == [f \in Entry |-> Life(f)']
<1>1. life' = after
  OBVIOUS
<1>2. after = [life EXCEPT ![e] = Life(e)']
  OBVIOUS
<1>3. life[e] = Life(e)
  OBVIOUS
<1>4. CASE Life(e)' = Life(e)
  BY <1>4
<1>5. CASE Life(e)' # Life(e)
  <2> HIDE DEF life, after
  <2>1. \/ life[e] \in {"none"} /\ life' = [life EXCEPT ![e] = "live"]
        \/ life[e] \in {"none"} /\ life' = [life EXCEPT ![e] = "stale"]
        \/ life[e] \in {"live"} /\ life' = [life EXCEPT ![e] = "stale"]
        \/ life[e] \in {"stale"} /\ life' = [life EXCEPT ![e] = "dropped"]
    BY <1>1, <1>2, <1>3, <1>5 DEF Lives
  <2> USE DEF life
  <2> QED
    BY <2>1 DEF Registry_!LifeNext, Registry_!Write, Registry_!Die, Registry_!Drop,
                Registry_!Become
<1> QED
  BY <1>4, <1>5

LEMMA LifeStep ==
    ASSUME IInv, [Next]_vars
    PROVE  Registry_!LifeNext \/ UNCHANGED [e \in Entry |-> Life(e)]
<1>0. /\ TypeOK
      /\ \A e \in registered : e.pid \in Pid /\ Born(e.pid)
      /\ \A e, f \in registered : e.pid = f.pid => e = f
      /\ files \subseteq registered /\ registered \subseteq Entry
  BY DEF IInv, Entry, SessionLeaders, TypeOK
<1>1. ASSUME NEW e \in Entry, UNCHANGED <<status, root>>, e \notin registered,
             registered' = registered \cup {e}, files' = files \cup {e}
      PROVE  Registry_!LifeNext \/ UNCHANGED [f \in Entry |-> Life(f)]
  <2>1. Lives(Life(e), Life(e)')
    BY <1>1 DEF Life, Lives
  <2>2. \A f \in Entry \ {e} : Life(f)' = Life(f)
    BY <1>1 DEF Life, Alive
  <2> QED
    BY <2>1, <2>2, OneRegistrationMoves
<1>2. ASSUME UNCHANGED [e \in Entry |-> Life(e)]
      PROVE  Registry_!LifeNext \/ UNCHANGED [e \in Entry |-> Life(e)]
  BY <1>2
<1>3. CASE UNCHANGED <<status, root>> /\ DropsDead
  <2>1. PICK p : \A e \in files \ files' : e.pid = p
    BY UnlinksOnePid
  <2>2. CASE files' = files
    <3>1. \A f \in Entry : Life(f)' = Life(f)
      BY <1>3, <2>2 DEF DropsDead, Life, Alive
    <3> QED
      BY <1>2, <3>1
  <2>3. CASE files' # files
    <3>1. PICK e \in files : e \notin files'
      BY <1>3, <2>3 DEF DropsDead
    <3>2. \A f \in Entry \ {e} : Life(f)' = Life(f)
      BY <1>0, <1>3, <2>1, <3>1 DEF DropsDead, Life, Alive
    <3>3. Lives(Life(e), Life(e)')
      BY <1>0, <1>3, <3>1 DEF DropsDead, Life, Lives
    <3> QED
      BY <1>0, <3>1, <3>2, <3>3, OneRegistrationMoves
  <2> QED
    BY <2>2, <2>3
<1>4. ASSUME UNCHANGED <<files, registered>>, NEW p \in Pid,
             \A q \in Pid \ {p} : status'[q] = status[q] /\ (q \in root' <=> q \in root)
      PROVE  Registry_!LifeNext \/ UNCHANGED [e \in Entry |-> Life(e)]
  <2>1. \A f \in Entry : f.pid # p => Life(f)' = Life(f)
    BY <1>4 DEF Life, Alive, Entry
  <2>2. \A f \in Entry \ registered : Life(f)' = Life(f)
    BY <1>4 DEF Life
  <2>3. CASE \E e \in registered : e.pid = p
    <3>1. PICK e \in registered : e.pid = p
      BY <2>3
    <3>2. \A f \in Entry \ {e} : Life(f)' = Life(f)
      BY <1>0, <2>1, <2>2, <3>1
    <3>3. ~Alive(p) => ~Alive(p)'
      BY <1>0, <3>1, StepPersists DEF Persists
    <3>4. Lives(Life(e), Life(e)')
      BY <1>4, <3>1, <3>3 DEF Life, Lives
    <3> QED
      BY <1>0, <3>2, <3>4, OneRegistrationMoves
  <2>4. CASE ~\E e \in registered : e.pid = p
    <3>1. \A f \in Entry : Life(f)' = Life(f)
      BY <2>1, <2>2, <2>4
    <3> QED
      BY <1>2, <3>1
  <2> QED
    BY <2>3, <2>4
<1>5. ASSUME NEW c \in Cmd, DetachRegisters(c)
      PROVE  Launched(c) \notin registered /\ Launched(c) \in Entry
  <2>1. Launched(c).pid = cur[c] /\ cur[c] \notin Pids(registered)
    BY <1>5 DEF DetachRegisters, IInv, DetachOwns, Launched
  <2>2. request[c].label \in Label
    BY <1>5, RequestFields DEF DetachRegisters, IInv, InStep, TypeOK
  <2> QED
    BY <1>5, <2>1, <2>2 DEF DetachRegisters, Launched, Entry, Pids
<1>6. ASSUME NEW e \in Entry, PumpRegisters(e) PROVE e \notin registered
  BY <1>6 DEF PumpRegisters, IInv, PumpOwns, Entry, Pids
<1>7. CASE UNCHANGED <<status, root>>
  BY <1>1, <1>3, <1>5, <1>6, <1>7, DirectoryStep DEF DetachRegisters, PumpRegisters
<1> QED
  BY <1>0, <1>4, <1>7, DirectoryOrProcess

\* The run directory, with every process, invocation and crash around it, keeps
\* the promise of Registrations.tla: a registration is written once, can be
\* dropped only after its process has died, and never comes back.
THEOREM KeepsPromise == Spec => Promise
<1>1. Init => Registry_!LifeInit
  <2> SUFFICES ASSUME Init PROVE [e \in Entry |-> Life(e)] = [e \in Entry |-> "none"]
    BY DEF Registry_!LifeInit
  <2> QED
    BY DEF Init, RegistryInit, Life
<1>2. IInv /\ [Next]_vars => [Registry_!LifeNext]_([e \in Entry |-> Life(e)])
  BY LifeStep
<1> QED
  BY <1>1, <1>2, Inductive, PTL DEF Spec, Promise, Registry_!LifeSpec
=============================================================================
