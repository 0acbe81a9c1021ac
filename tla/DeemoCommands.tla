---------------------------- MODULE DeemoCommands ----------------------------
(***************************************************************************)
(* Proofs about Deemo.tla: whom a stop or a kill may signal, what has      *)
(* reached whom when deemo gives a process its last second, and what exit  *)
(* code 0 says about the processes and the run directory.                  *)
(***************************************************************************)
EXTENDS DeemoProofs

USE DEF Request, NoRequest

-----------------------------------------------------------------------------
(* What a step does to the directory, the ports, the signals and a group.  *)

\* What was registered stays on record, and a pid file that is gone is gone for
\* good.
LEMMA DirectoryHistory ==
    ASSUME IInv, [Next]_vars
    PROVE  /\ registered \subseteq registered'
           /\ \A e \in registered : e \notin files => e \notin files'
<1>1. ASSUME NEW c \in Cmd, DetachRegisters(c)
      PROVE  Launched(c).pid \notin Pids(registered)
  BY <1>1 DEF DetachRegisters, Launched, IInv, DetachOwns
<1>2. ASSUME NEW e \in Entry, PumpRegisters(e)
      PROVE  e.pid \notin Pids(registered)
  BY <1>2 DEF PumpRegisters, IInv, PumpOwns, Entry
<1> QED
  BY <1>1, <1>2, DirectoryStep DEF DetachRegisters, PumpRegisters, DropsDead, Pids

\* Selector::parse reads an argument the way it was meant: it yields a number for
\* a pid and for nothing else.
LEMMA SelectsMeans ==
    ASSUME NEW raw \in Label, NEW e \in Entry
    PROVE  Selects(raw, e) <=> Means(raw, e)
  BY RegistryAssumption DEF Selects, Means, Entry

\* Invocation c delivers the signal s.
Delivers(c, s) ==
    \/ s = "TERM" /\ Term(c)
    \/ s = "KILL" /\ Escalate(c)
    \/ s = "USER" /\ SignalOnce(c)

\* A process gets signals only as the victim of an invocation, and forgets them
\* only by exiting.
LEMMA SignalStep ==
    ASSUME TypeOK, [Next]_vars, NEW p \in Pid
    PROVE  \/ sig'[p] = sig[p]
           \/ sig'[p] = {} /\ status'[p] = "zombie"
           \/ \E c \in Cmd, s \in Signal :
                /\ Delivers(c, s)
                /\ p \in Victims(c) /\ Signalable(p) /\ status[p] = "run"
                /\ sig'[p] = sig[p] \cup {s}
<1> USE DEF TypeOK, ProcTypeOK
<1>1. ASSUME NEW c \in Cmd, NEW s \in Signal, Deliver(Victims(c), s), Delivers(c, s)
      PROVE  \/ sig'[p] = sig[p]
             \/ \E d \in Cmd, t \in Signal :
                  /\ Delivers(d, t)
                  /\ p \in Victims(d) /\ Signalable(p) /\ status[p] = "run"
                  /\ sig'[p] = sig[p] \cup {t}
  <2> DEFINE hit == p \in Victims(c) /\ Signalable(p) /\ status[p] = "run"
  <2>1. sig'[p] = IF hit THEN sig[p] \cup {s} ELSE sig[p]
    BY <1>1 DEF Deliver
  <2> HIDE DEF hit
  <2>2. CASE ~hit
    BY <2>1, <2>2
  <2>3. CASE hit
    <3>1. sig'[p] = sig[p] \cup {s}
      BY <2>1, <2>3
    <3> QED
      BY <1>1, <2>3, <3>1 DEF hit
  <2> QED
    BY <2>2, <2>3
<1>2. ASSUME NEW c \in Cmd, ManageStep(c)
      PROVE  sig' = sig \/ \E s \in Signal : Deliver(Victims(c), s) /\ Delivers(c, s)
  BY <1>2 DEF ManageStep, Delivers, Signal, Term, Stopped, LastProbe, Escalate, Survived, StopBegin,
              Select, StopEnd, NextHit, UnlinkStopped, KillPlan, KillBlind, NextHolder,
              NextOnce, SignalOnce, KillEnd, Tidy, TidyEnd, procVars
<1>3. ASSUME NEW c \in Cmd, Start(c) \/ Abort(c) \/ Finish(c) \/ LaunchStep(c)
      PROVE  sig' = sig
  BY <1>3 DEF Start, Abort, Finish, LaunchStep, Spawn, SpawnFails, RegisterChild,
              RegisterFails, ForkPump, ForkFails, Hint, Birth, procVars
<1>4. ASSUME NEW q \in Pid, PumpStep(q) PROVE sig' = sig
  BY <1>4 DEF PumpStep, PumpSession, PumpRegister, PumpUnregistered, procVars
<1>5. CASE Environment
  <2>1. ASSUME NEW a \in Pid, Exit(a)
        PROVE  sig'[p] = sig[p] \/ (sig'[p] = {} /\ status'[p] = "zombie")
    BY <2>1 DEF Exit
  <2> QED
    BY <1>5, <2>1 DEF Environment, Fork, Birth, Bind, Release, SetSid, Elevate, Reap
<1>6. CASE UNCHANGED vars
  BY <1>6 DEF vars, procVars
<1> QED
  BY <1>1, <1>2, <1>3, <1>4, <1>5, <1>6 DEF Next, Run

\* Either this invocation moves, or its locals stay.
LEMMA OwnStepOrNone ==
    ASSUME TypeOK, [Next]_vars, NEW c \in Cmd
    PROVE  \/ Start(c) \/ Abort(c) \/ Finish(c)
           \/ ManageStep(c) /\ UNCHANGED launchVars
           \/ LaunchStep(c)
           \/ Locals(c)' = Locals(c)
  BY OthersKeepLocals, BackgroundKeepsLocals DEF Next, Run
-----------------------------------------------------------------------------
(* The shell, and the members of a registered group.                       *)

\* The shell is not registered, not spawned, and does not leave its group.
LEMMA ShellApartPreserved ==
    ASSUME IInv, ShellApart, [Next]_vars
    PROVE  ShellApart'
<1> USE DEF TypeOK, ProcTypeOK
<1>0. TypeOK /\ Shell \in Pid
  BY ProcessAssumption DEF IInv
<1>1. status'[Shell] = "run" /\ pgid'[Shell] = Shell /\ stage'[Shell] = "none"
  <2> USE DEF ShellApart
  <2>1. ASSUME UNCHANGED <<status, pgid, stage>>
        PROVE  status'[Shell] = "run" /\ pgid'[Shell] = Shell /\ stage'[Shell] = "none"
    BY <2>1
  <2>2. ASSUME NEW c \in Cmd, Start(c) \/ Abort(c) \/ Finish(c)
        PROVE  UNCHANGED <<status, pgid, stage>>
    BY <2>2 DEF Start, Abort, Finish, procVars, launchVars
  <2>3. ASSUME NEW c \in Cmd, LaunchStep(c)
        PROVE  status'[Shell] = "run" /\ pgid'[Shell] = Shell /\ stage'[Shell] = "none"
    BY <1>0, <2>3 DEF LaunchStep, Spawn, SpawnFails, RegisterChild, RegisterFails, ForkPump,
                ForkFails, Hint, Birth, procVars, launchVars
  <2>4. ASSUME NEW q \in Pid, PumpStep(q)
        PROVE  status'[Shell] = "run" /\ pgid'[Shell] = Shell /\ stage'[Shell] = "none"
    BY <1>0, <2>4 DEF PumpStep, PumpSession, PumpRegister, PumpUnregistered, procVars
  <2>5. CASE Environment
    <3>1. stage' = stage
      BY <2>5 DEF Environment, launchVars
    <3>2. ASSUME NEW a \in Pid, NEW q \in Pid, Fork(a, q)
          PROVE  status'[Shell] = "run" /\ pgid'[Shell] = Shell
      BY <1>0, <3>2 DEF Fork, Birth
    <3>3. ASSUME NEW a \in Pid, SetSid(a) \/ Elevate(a) \/ Exit(a) \/ Reap(a)
          PROVE  status'[Shell] = "run" /\ pgid'[Shell] = Shell
      BY <1>0, <3>3 DEF SetSid, Elevate, Exit, Reap
    <3> QED
      BY <1>0, <2>5, <3>1, <3>2, <3>3 DEF Environment, Bind, Release
  <2>6. CASE UNCHANGED vars
    BY <2>1, <2>6 DEF vars, procVars, launchVars
  <2> QED
    BY <2>1, <2>2, <2>3, <2>4, <2>5, <2>6, ManageLeavesProcesses DEF Next, Run, launchVars
<1>2. Shell \notin Pids(registered')
  <2>1. ASSUME NEW c \in Cmd, DetachRegisters(c) PROVE Launched(c).pid # Shell
    BY <2>1 DEF DetachRegisters, ShellApart, Launched
  <2>2. ASSUME NEW e \in Entry, PumpRegisters(e) PROVE e.pid # Shell
    BY <2>2 DEF PumpRegisters, ShellApart
  <2> QED
    BY <2>1, <2>2, DirectoryStep
       DEF DetachRegisters, PumpRegisters, DropsDead, Pids, ShellApart
<1>3. ASSUME NEW c \in Cmd, pc'[c] = "register" PROVE cur'[c] # Shell
  BY <1>0, <1>3, RegisterPc DEF ShellApart, Spawn, Birth
<1> QED
  BY <1>1, <1>2, <1>3 DEF ShellApart

\* Nobody joins a registered group but the children of its members; and a member
\* that runs keeps the signals it has had.
LEMMA GroupStep ==
    ASSUME IInv, ShellApart, [Next]_vars, NEW g \in Pids(registered), NEW p \in Pid,
           pgid'[p] = g, Signalable(p)'
    PROVE  \/ /\ Signalable(p) /\ pgid[p] = g
              /\ status'[p] = "run" => status[p] = "run" /\ sig[p] \subseteq sig'[p]
           \/ \E r \in Pid : Active(r) /\ Signalable(r) /\ pgid[r] = g
<1> USE DEF TypeOK, ProcTypeOK, Signalable, Exists
<1>0. /\ TypeOK /\ Shell \in Pid /\ g \in Pid /\ g # Shell
      /\ Born(g) /\ pgid[g] = g /\ stage[g] \notin {"forked", "session"}
  <2>1. PICK e \in registered : e.pid = g
    BY DEF Pids
  <2> QED
    BY <2>1, ProcessAssumption DEF IInv, Entry, ShellApart, SessionLeaders, PumpOwns, Pids
<1> DEFINE Same == /\ status[p] \in {"run", "zombie"} /\ p \notin root /\ pgid[p] = g
                   /\ status'[p] = "run" => status[p] = "run"
           Parent == \E r \in Pid : Active(r) /\ Signalable(r) /\ pgid[r] = g
<1>1. ASSUME UNCHANGED <<status, pgid, root>> PROVE Same
  BY <1>1
<1>2. ASSUME NEW c \in Cmd, LaunchStep(c) PROVE Same
  <2>1. ASSUME NEW q \in Pid, Birth(q, q, "user", {}) PROVE Same
    BY <1>0, <2>1 DEF Birth, Born
  <2>2. ASSUME NEW q \in Pid, Birth(q, pgid[Shell], "user", {}) PROVE Same
    BY <1>0, <2>2 DEF Birth, ShellApart
  <2> QED
    BY <1>1, <1>2, <2>1, <2>2
       DEF LaunchStep, Spawn, SpawnFails, RegisterChild, RegisterFails, ForkPump, ForkFails,
           Hint, procVars
<1>3. ASSUME NEW q \in Pid, PumpStep(q) PROVE Same
  BY <1>0, <1>3 DEF PumpStep, PumpSession, PumpRegister, PumpUnregistered, procVars
<1>4. ASSUME Environment PROVE Same \/ Parent
  <2>1. ASSUME NEW a \in Pid, NEW q \in Pid, Fork(a, q) PROVE Same \/ Parent
    <3>1. CASE p = q
      BY <1>0, <2>1, <3>1 DEF Fork, Birth, Active
    <3>2. CASE p # q
      BY <2>1, <3>2 DEF Fork, Birth
    <3> QED
      BY <3>1, <3>2
  <2>2. ASSUME NEW a \in Pid, SetSid(a) \/ Elevate(a) \/ Exit(a) PROVE Same
    BY <1>0, <2>2 DEF SetSid, Elevate, Exit
  <2>3. ASSUME NEW a \in Pid, Reap(a) PROVE Same
    BY <1>0, <2>3 DEF Reap
  <2>4. ASSUME NEW a \in Pid, NEW port \in Port, Bind(a, port) \/ Release(a, port)
        PROVE  Same
    BY <1>1, <2>4 DEF Bind, Release
  <2> HIDE DEF Same, Parent
  <2> QED
    BY <1>4, <2>1, <2>2, <2>3, <2>4 DEF Environment
<1>5. Same \/ Parent
  <2>1. ASSUME NEW c \in Cmd, Start(c) \/ Abort(c) \/ Finish(c) PROVE Same
    BY <1>1, <2>1 DEF Start, Abort, Finish, procVars
  <2>2. ASSUME NEW c \in Cmd, ManageStep(c) PROVE Same
    BY <1>1, <2>2, ManageLeavesProcesses
  <2>3. CASE UNCHANGED vars
    BY <1>1, <2>3 DEF vars, procVars
  <2> QED
    BY <1>2, <1>3, <1>4, <2>1, <2>2, <2>3 DEF Next, Run
<1>6. status'[p] = "run" => sig[p] \subseteq sig'[p]
  BY <1>0, SignalStep
<1> QED
  BY <1>5, <1>6
-----------------------------------------------------------------------------
(* What each invocation is entitled to.                                    *)

\* Where a command begins.
LEMMA FirstSteps ==
    ASSUME NEW r \in Requests
    PROVE  /\ FirstStep(r) \in {"done", "list", "spawn", "fork"}
           /\ FirstStep(r) = "list" => r.op \in {"ps", "stop", "kill"}
           /\ FirstStep(r) \in {"spawn", "fork"} => r.op \in {"detach", "pipe"}
           /\ FirstStep(r) = "list" /\ r.op = "kill" => r.signal # "bad"
  BY RequestFields DEF FirstStep, BadSignal, Managing

\* Every step is one of the command the invocation was given.
LEMMA InCommandPreserved ==
    ASSUME IInv, [Next]_vars, NEW c \in Cmd, InCommand(c)
    PROVE  InCommand(c)'
<1> USE DEF TypeOK, InCommand, Waiting, Working, Goto, Fail, listVars, workVars
<1>0. TypeOK /\ InStep(c)
  BY DEF IInv
<1>1. CASE Locals(c)' = Locals(c)
  BY <1>1 DEF Locals
<1>2. CASE Start(c)
  <2>1. PICK r \in Requests :
          request' = [request EXCEPT ![c] = r] /\ pc' = [pc EXCEPT ![c] = FirstStep(r)]
    BY <1>2 DEF Start
  <2> QED
    BY <1>0, <2>1, FirstSteps
<1>3. CASE Abort(c) \/ Finish(c)
  BY <1>0, <1>3 DEF Abort, Finish
<1>4. CASE LaunchStep(c)
  BY <1>0, <1>4 DEF LaunchStep, Spawn, SpawnFails, RegisterChild, RegisterFails, ForkPump,
                    ForkFails, Hint
<1>5. CASE ManageStep(c)
  <2>1. CASE List(c) \/ Sweep(c) \/ Select(c) \/ Tidy(c)
    BY <1>0, <2>1 DEF List, Sweep, Select, Tidy
  <2>2. CASE Ps(c) \/ StopEnd(c) \/ KillBlind(c) \/ TidyEnd(c)
    BY <1>0, <2>2 DEF Ps, StopEnd, KillBlind, TidyEnd
  <2>6. CASE StopBegin(c)
    BY <1>0, <2>6 DEF StopBegin
  <2>3. CASE Term(c) \/ Stopped(c) \/ LastProbe(c) \/ Escalate(c) \/ Survived(c)
    BY <1>0, <2>3 DEF Term, Stopped, AfterStopped, LastProbe, Escalate, Survived
  <2>4. CASE NextHit(c) \/ UnlinkStopped(c)
    BY <1>0, <2>4 DEF NextHit, UnlinkStopped
  <2>5. CASE KillPlan(c) \/ NextHolder(c) \/ NextOnce(c) \/ SignalOnce(c) \/ KillEnd(c)
    BY <1>0, <2>5 DEF KillPlan, NextHolder, NextOnce, SignalOnce, KillEnd, BatchDone
  <2> QED
    BY <1>5, <2>1, <2>2, <2>3, <2>4, <2>5, <2>6 DEF ManageStep
<1> QED
  BY <1>0, <1>1, <1>2, <1>3, <1>4, <1>5, OwnStepOrNone

\* A slot is used again only once its last invocation is forgotten.
LEMMA FreshPreserved ==
    ASSUME IInv, [Next]_vars, NEW c \in Cmd, Fresh(c)
    PROVE  Fresh(c)'
<1> USE DEF TypeOK, Fresh, Goto, Fail, listVars, workVars
<1>0. TypeOK
  BY DEF IInv
<1>1. CASE Locals(c)' = Locals(c)
  BY <1>1 DEF Locals
<1>2. CASE Start(c)
  <2>1. /\ pc[c] = "idle" /\ pc'[c] # "idle"
        /\ UNCHANGED <<args, jobs, handled, cur>>
    BY <1>0, <1>2, FirstSteps DEF Start
  <2> QED
    BY <2>1
<1>3. CASE Abort(c) \/ Finish(c)
  BY <1>0, <1>3 DEF Abort, Finish, Forget
<1>4. CASE LaunchStep(c)
  BY <1>0, <1>4 DEF LaunchStep, Spawn, SpawnFails, RegisterChild, RegisterFails, ForkPump,
                    ForkFails, Hint
<1>5. CASE ManageStep(c)
  <2>1. ASSUME List(c) \/ Sweep(c), UNCHANGED workVars PROVE Fresh(c)'
    BY <2>1 DEF List, Sweep, Read
  <2>2. CASE Ps(c) \/ StopBegin(c) \/ Select(c) \/ StopEnd(c) \/ NextHit(c)
             \/ UnlinkStopped(c)
    BY <1>0, <2>2 DEF Ps, StopBegin, Select, StopEnd, NextHit, UnlinkStopped, BatchDone
  <2>3. CASE Term(c) \/ Stopped(c) \/ LastProbe(c) \/ Escalate(c) \/ Survived(c)
    BY <1>0, <2>3 DEF Term, Stopped, AfterStopped, LastProbe, Escalate, Survived
  <2>4. CASE KillPlan(c) \/ KillBlind(c) \/ NextHolder(c) \/ NextOnce(c)
             \/ SignalOnce(c) \/ KillEnd(c) \/ Tidy(c) \/ TidyEnd(c)
    BY <1>0, <2>4 DEF KillPlan, KillBlind, NextHolder, NextOnce, SignalOnce, KillEnd,
                      Tidy, TidyEnd
  <2> QED
    BY <1>5, <2>1, <2>2, <2>3, <2>4 DEF ManageStep
<1> QED
  BY <1>0, <1>1, <1>2, <1>3, <1>4, <1>5, OwnStepOrNone
\* Nothing becomes a target but what the arguments name: a registration of the
\* scan, for stop, and a holder of the port, for kill.
LEMMA AskedPreserved ==
    ASSUME IInv, [Next]_vars, NEW c \in Cmd, InCommand(c), Fresh(c), Asked(c)
    PROVE  Asked(c)'
<1> USE DEF TypeOK, Goto, Fail, listVars, workVars
<1>0. TypeOK /\ InStep(c) /\ TargetsBorn(c)
  BY DEF IInv
<1>1. registered \subseteq registered'
  BY DirectoryHistory
<1>3. ASSUME request'[c] = request[c], args'[c] = args[c], Targets(c)' \subseteq Targets(c),
             handled[c] \subseteq handled'[c]
      PROVE  Asked(c)'
  BY <1>1, <1>3 DEF Asked, Names
<1>4. CASE Locals(c)' = Locals(c)
  BY <1>3, <1>4 DEF Locals, Targets
<1>5. CASE Start(c)
  <2>1. args'[c] = <<>> /\ Targets(c)' = {}
    BY <1>5, RegistryAssumption DEF Start, Fresh, Targets
  <2> QED
    BY <2>1 DEF Asked
<1>6. CASE Abort(c) \/ Finish(c)
  <2>1. args'[c] = <<>> /\ Targets(c)' = {}
    BY <1>0, <1>6, RegistryAssumption DEF Abort, Finish, Forget, Targets
  <2> QED
    BY <2>1 DEF Asked
<1>7. CASE LaunchStep(c)
  <2>1. request'[c] = request[c] /\ request[c].op \in {"detach", "pipe"}
    BY <1>0, <1>7 DEF InStep, LaunchStep, Spawn, SpawnFails, RegisterChild, RegisterFails,
                      ForkPump, ForkFails, Hint
  <2> QED
    BY <2>1 DEF Asked
<1>8. CASE ManageStep(c)
  <2>1. ASSUME List(c) \/ Sweep(c) \/ Ps(c), UNCHANGED workVars PROVE Asked(c)'
    BY <1>3, <2>1 DEF List, Sweep, Ps, Targets
  <2>2. CASE Term(c) \/ Stopped(c) \/ LastProbe(c) \/ Escalate(c) \/ Survived(c)
             \/ StopEnd(c) \/ UnlinkStopped(c) \/ KillBlind(c) \/ SignalOnce(c) \/ TidyEnd(c)
    BY <1>3, <2>2 DEF Term, Stopped, LastProbe, Escalate, Survived, StopEnd, UnlinkStopped, KillBlind,
                      SignalOnce, TidyEnd, Targets
  <2>3. CASE NextHit(c)
    <3>1. PICK p \in jobs[c] :
             /\ jobs' = [jobs EXCEPT ![c] = @ \ {p}]
             /\ handled' = [handled EXCEPT ![c] = @ \cup {p}]
             /\ cur' = [cur EXCEPT ![c] = p]
      BY <2>3 DEF NextHit
    <3>2. jobs'[c] \subseteq jobs[c] /\ handled'[c] = handled[c] \cup {p} /\ cur'[c] = p
      BY <1>0, <3>1
    <3>3. Targets(c)' \subseteq Targets(c)
      BY <3>1, <3>2 DEF Targets
    <3> QED
      BY <1>3, <2>3, <3>3 DEF NextHit
  <2>4. CASE NextHolder(c) \/ NextOnce(c)
    <3>1. PICK p \in jobs[c] :
             /\ jobs' = [jobs EXCEPT ![c] = @ \ {p}]
             /\ cur' = [cur EXCEPT ![c] = p]
      BY <2>4 DEF NextHolder, NextOnce
    <3>2. jobs'[c] \subseteq jobs[c] /\ handled' = handled /\ cur'[c] = p
      BY <1>0, <2>4, <3>1 DEF NextHolder, NextOnce
    <3>3. Targets(c)' \subseteq Targets(c)
      BY <3>1, <3>2 DEF Targets
    <3> QED
      BY <1>3, <2>4, <3>3 DEF NextHolder, NextOnce
  <2>5. CASE KillEnd(c) \/ Tidy(c)
    <3>1. jobs'[c] \subseteq jobs[c] \cup handled[c]
      <4>1. CASE KillEnd(c)
        BY <1>0, <4>1 DEF KillEnd
      <4>2. CASE Tidy(c)
        BY <1>0, <4>2 DEF Tidy
      <4> QED
        BY <2>5, <4>1, <4>2
    <3>2. UNCHANGED <<handled, cur, request, args>>
      BY <2>5 DEF KillEnd, Tidy
    <3> QED
      BY <1>3, <3>1, <3>2 DEF Targets
  <2>6. CASE StopBegin(c)
    <3>1. /\ request' = request /\ request[c].op = "stop"
          /\ args'[c] = request[c].targets
          /\ Targets(c)' = Targets(c)
      BY <1>0, <2>6 DEF StopBegin, Targets
    <3> QED
      BY <1>1, <3>1 DEF Asked, Names
  <2>7. CASE Select(c)
    <3> DEFINE r == request[c]
               hits == {e \in found[c] : Selects(Head(args[c]), e)}
    <3>1. /\ request' = request /\ r.op = "stop"
          /\ args[c] \in Seq(Label) /\ args[c] # <<>>
          /\ args'[c] = Tail(args[c])
          /\ jobs'[c] = Pids(hits) \ handled[c]
          /\ handled' = handled /\ cur' = cur
      BY <1>0, <2>7 DEF Select, BatchDone
    <3>2. \A j \in DOMAIN args'[c] : \E i \in DOMAIN args[c] : args'[c][j] = args[c][i]
      <4> SUFFICES ASSUME NEW j \in DOMAIN Tail(args[c])
                   PROVE  \E i \in DOMAIN args[c] : Tail(args[c])[j] = args[c][i]
        BY <3>1
      <4>1. j + 1 \in DOMAIN args[c] /\ Tail(args[c])[j] = args[c][j + 1]
        BY <3>1
      <4> QED
        BY <3>1, <4>1
    <3>3. \E i \in DOMAIN r.targets : Head(args[c]) = r.targets[i]
      BY <3>1 DEF Asked
    <3>4. \A p \in Pids(hits) : \E e \in registered : e.pid = p /\ Names(r, e)
      <4>1. \A e \in hits : e \in registered /\ Means(Head(args[c]), e)
        BY <1>0, <3>1, SelectsMeans
      <4> QED
        BY <3>3, <4>1 DEF Pids, Names
    <3>5. \A p \in Targets(c)' : p \in Targets(c) \/ p \in Pids(hits)
      BY <3>1 DEF Targets
    <3>6. \A p \in Targets(c)' : \E e \in registered' : e.pid = p /\ Names(r, e)
      <4> TAKE p \in Targets(c)'
      <4> QED
        BY <1>1, <3>1, <3>4, <3>5 DEF Asked
    <3>7. \A j \in DOMAIN args'[c] : \E i \in DOMAIN r.targets : args'[c][j] = r.targets[i]
      BY <3>1, <3>2 DEF Asked
    <3> QED
      BY <3>1, <3>6, <3>7 DEF Asked, Names
  <2>8. CASE KillPlan(c)
    <3> DEFINE r == request[c]
               plan == UNION {Holders(r.ports, i) : i \in DOMAIN r.ports}
    <3>2. /\ request' = request /\ r.op = "kill"
          /\ jobs'[c] = plan /\ handled'[c] = plan /\ cur'[c] = NoPid
      BY <1>0, <2>8 DEF KillPlan, Read, Fresh
    <3> HIDE DEF plan
    <3>3. Targets(c)' \subseteq plan
      BY <3>2, RegistryAssumption DEF Targets
    <3> QED
      BY <3>2, <3>3 DEF Asked
  <2> QED
    BY <1>8, <2>1, <2>2, <2>3, <2>4, <2>5, <2>6, <2>7, <2>8 DEF ManageStep
<1> QED
  BY <1>0, <1>4, <1>5, <1>6, <1>7, <1>8, OwnStepOrNone

-----------------------------------------------------------------------------
(* SIGTERM first, SIGKILL for everybody.                                   *)

\* An invocation comes to wait only by sending the signal.
LEMMA WaitingPc ==
    ASSUME TypeOK, [Next]_vars, NEW c \in Cmd
    PROVE  /\ pc'[c] = "grace" => Term(c) \/ Locals(c)' = Locals(c)
           /\ pc'[c] = "escalate" => LastProbe(c) \/ Locals(c)' = Locals(c)
           /\ pc'[c] = "killgrace" => Escalate(c) \/ Locals(c)' = Locals(c)
<1> USE DEF TypeOK, Goto, listVars, workVars
<1> DEFINE Waits == pc'[c] \in {"grace", "escalate", "killgrace"}
<1>1. ASSUME Start(c) \/ Abort(c) \/ Finish(c) PROVE ~Waits
  BY <1>1, FirstSteps DEF Start, Abort, Finish
<1>2. ASSUME LaunchStep(c) PROVE ~Waits
  BY <1>2 DEF LaunchStep, Spawn, SpawnFails, RegisterChild, RegisterFails, ForkPump,
              ForkFails, Hint
<1>3. ASSUME ManageStep(c), ~Term(c), ~LastProbe(c), ~Escalate(c)
      PROVE  ~Waits
  <2>1. CASE List(c) \/ Sweep(c) \/ Ps(c)
    BY <2>1 DEF List, Sweep, Ps, Read
  <2>2. CASE Stopped(c) \/ Survived(c) \/ StopBegin(c) \/ Select(c) \/ StopEnd(c)
             \/ NextHit(c) \/ UnlinkStopped(c)
    BY <2>2 DEF Stopped, AfterStopped, Survived, StopBegin, Select, StopEnd, NextHit,
                UnlinkStopped, BatchDone
  <2>3. CASE KillPlan(c) \/ KillBlind(c) \/ NextHolder(c) \/ NextOnce(c)
             \/ SignalOnce(c) \/ KillEnd(c) \/ Tidy(c) \/ TidyEnd(c)
    BY <2>3 DEF KillPlan, KillBlind, NextHolder, NextOnce, SignalOnce, KillEnd, Tidy,
                TidyEnd
  <2> QED
    BY <1>3, <2>1, <2>2, <2>3 DEF ManageStep
<1>4. ASSUME Term(c) PROVE pc'[c] \in {"grace", "next"}
  BY <1>4 DEF Term
<1>5. ASSUME LastProbe(c) PROVE pc'[c] = "escalate"
  BY <1>5 DEF LastProbe
<1>6. ASSUME Escalate(c) PROVE pc'[c] = "killgrace"
  BY <1>6 DEF Escalate
<1> QED
  BY <1>1, <1>2, <1>3, <1>4, <1>5, <1>6, OwnStepOrNone

\* A target that could be told to go was told, and has been running since.
LEMMA WarnedPreserved ==
    ASSUME IInv, [Next]_vars, NEW c \in Cmd, Warned(c)
    PROVE  Warned(c)'
<1> USE DEF TypeOK, ProcTypeOK
<1>0. TypeOK /\ InStep(c) /\ TargetsBorn(c)
  BY DEF IInv
<1> DEFINE p == cur[c]
<1>1. SUFFICES ASSUME pc'[c] \in {"grace", "escalate"}, status'[cur'[c]] = "run", cur'[c] \notin root'
               PROVE  "TERM" \in sig'[cur'[c]]
  BY DEF Warned
<1>2. CASE Term(c)
  <2>1. p \in Pid /\ cur' = cur /\ UNCHANGED <<status, pgid, root>>
    BY <1>0, <1>2 DEF Term, InStep, workVars
  <2>2. p \in Victims(c)
    <3>1. p \in Pids(found[c]) => pgid[p] = p
      BY <1>0 DEF Pids, IInv, SessionLeaders
    <3> QED
      BY <1>1, <2>1, <3>1 DEF Victims, IsGroup, Group, Exists
  <2>3. sig'[p] = sig[p] \cup {"TERM"}
    BY <1>0, <1>1, <1>2, <2>1, <2>2 DEF Term, Deliver, Signalable, Exists
  <2> QED
    BY <2>1, <2>3
<1>4. CASE LastProbe(c)
  BY <1>1, <1>4 DEF LastProbe, Warned, procVars, workVars
<1>3. CASE Locals(c)' = Locals(c)
  <2>1. pc[c] \in {"grace", "escalate"} /\ cur'[c] = p /\ p \in Pid /\ Born(p)
    BY <1>0, <1>1, <1>3 DEF Locals, InStep, TargetsBorn
  <2>2. Alive(p)
    BY <1>0, <1>1, <2>1, StepPersists DEF Persists, Alive
  <2>3. sig[p] \subseteq sig'[p]
    <3>1. status'[p] # "zombie"
      BY <1>1, <2>1
    <3>2. \/ sig'[p] = sig[p]
          \/ \E s \in Signal : sig'[p] = sig[p] \cup {s}
      <4> HIDE DEF p, TypeOK, ProcTypeOK
      <4> QED
        BY <1>0, <2>1, <3>1, SignalStep
    <3> QED
      BY <3>2
  <2> QED
    BY <2>1, <2>2, <2>3 DEF Warned, Alive
<1> QED
  BY <1>0, <1>1, <1>2, <1>3, <1>4, WaitingPc

\* Whoever joined the group during the grace period gets SIGKILL with it, and
\* nobody joins after that: there is no member left to fork one.
LEMMA NobodySlipsPreserved ==
    ASSUME IInv, ShellApart, NobodySlipsPastKill, [Next]_vars
    PROVE  NobodySlipsPastKill'
<1> USE DEF TypeOK, ProcTypeOK
<1>0. TypeOK
  BY DEF IInv
<1> SUFFICES ASSUME NEW c \in Cmd, pc'[c] = "killgrace", IsGroup(c)', NEW p \in Victims(c)',
                    Signalable(p)', status'[p] = "run"
             PROVE  "KILL" \in sig'[p]
  BY DEF NobodySlipsPastKill
<1>1. p \in Pid /\ pgid'[p] = cur'[c]
  BY DEF Victims, Group
<1>2. CASE Escalate(c)
  <2>1. UNCHANGED <<status, pgid, root>> /\ Victims(c)' = Victims(c)
    BY <1>2 DEF Escalate, Victims, IsGroup, Group, Exists, listVars, workVars
  <2>2. p \in Victims(c) /\ Signalable(p) /\ status[p] = "run"
    BY <2>1 DEF Signalable, Exists
  <2> QED
    BY <1>0, <1>1, <1>2, <2>2 DEF Escalate, Deliver
<1>3. CASE Locals(c)' = Locals(c)
  <2> DEFINE g == cur[c]
  <2>1. pc[c] = "killgrace" /\ IsGroup(c) /\ cur'[c] = g
    BY <1>3 DEF Locals, IsGroup
  <2>2. g \in Pids(registered)
    BY <1>0, <2>1 DEF IsGroup, Pids
  <2>3. \A r \in Pid : Signalable(r) /\ status[r] = "run" /\ pgid[r] = g => "KILL" \in sig[r]
    BY <2>1 DEF NobodySlipsPastKill, Victims, Group, Signalable
  <2>4. ~\E r \in Pid : Active(r) /\ Signalable(r) /\ pgid[r] = g
    BY <2>3 DEF Active
  <2>5. Signalable(p) /\ pgid[p] = g /\ status[p] = "run" /\ sig[p] \subseteq sig'[p]
    BY <1>1, <2>1, <2>2, <2>4, GroupStep
  <2> QED
    BY <1>1, <2>3, <2>5
<1> QED
  BY <1>0, <1>2, <1>3, WaitingPc

-----------------------------------------------------------------------------
(* The signals.                                                            *)

LEMMA InitSignalInv == Init => SignalInv
<1> SUFFICES ASSUME Init PROVE SignalInv
  OBVIOUS
<1>1. IInv
  BY InitIInv
<1> USE DEF Init, ProcInit, RegistryInit, ManageInit, LaunchInit
<1>2. ShellApart
  BY ProcessAssumption DEF ShellApart, Pids
<1>3. ASSUME NEW c \in Cmd PROVE InCommand(c) /\ Fresh(c) /\ Asked(c) /\ Warned(c)
  BY RegistryAssumption DEF InCommand, Working, Waiting, Fresh, Asked, Targets, Warned
<1>4. NobodySlipsPastKill
  BY DEF NobodySlipsPastKill
<1> QED
  BY <1>1, <1>2, <1>3, <1>4 DEF SignalInv

LEMMA StepSignalInv == SignalInv /\ [Next]_vars => SignalInv'
<1> SUFFICES ASSUME SignalInv, [Next]_vars PROVE SignalInv'
  OBVIOUS
<1>1. IInv' /\ ShellApart' /\ NobodySlipsPastKill'
  BY StepIInv, ShellApartPreserved, NobodySlipsPreserved DEF SignalInv
<1>2. ASSUME NEW c \in Cmd PROVE (InCommand(c) /\ Fresh(c) /\ Asked(c) /\ Warned(c))'
  BY InCommandPreserved, FreshPreserved, AskedPreserved, WarnedPreserved DEF SignalInv
<1> QED
  BY <1>1, <1>2 DEF SignalInv

\* Every reachable state satisfies the invariant the signals rest on.
THEOREM SignalsInductive == Spec => []SignalInv
<1>1. SignalInv /\ [Next]_vars => SignalInv'
  BY StepSignalInv
<1> QED
  BY InitSignalInv, <1>1, PTL DEF Spec

\* When a group is down to the second after SIGKILL, every member that can be
\* signalled has it pending, those forked during the grace period and by members
\* no invocation has ever seen included (registry.rs:355-357, 368-369).
THEOREM NobodySlips == Spec => []NobodySlipsPastKill
<1>1. SignalInv => NobodySlipsPastKill
  BY DEF SignalInv
<1> QED
  BY <1>1, SignalsInductive, PTL

\* Only the plan of a kill adds to whom it deals with.
LEMMA OnlyPlanAdds ==
    ASSUME TypeOK, [Next]_vars, NEW c \in Cmd, request[c].op = "kill",
           NEW p \in handled'[c], p \notin handled[c]
    PROVE  KillPlan(c)
<1> USE DEF TypeOK, workVars
<1>1. ~Start(c) /\ ~Abort(c) /\ ~Finish(c)
  BY DEF Start, Abort, Finish, Forget
<1>2. ~LaunchStep(c)
  BY DEF LaunchStep, Spawn, SpawnFails, RegisterChild, RegisterFails, ForkPump, ForkFails, Hint
<1>3. ASSUME ManageStep(c) PROVE KillPlan(c)
  BY <1>3 DEF ManageStep, Term, Stopped, LastProbe, Escalate, Survived, StopBegin, Select,
              StopEnd, NextHit, UnlinkStopped, KillBlind, NextHolder, NextOnce, SignalOnce,
              KillEnd, Tidy, TidyEnd
<1>4. Locals(c)' # Locals(c)
  BY DEF Locals
<1> QED
  BY <1>1, <1>2, <1>3, <1>4, OwnStepOrNone

\* No step of any invocation signals a process that no command line in progress
\* asks for (registry.rs:8-9, 322-331, 764-775).
THEOREM NoBystanderHit == Spec => NoBystander
<1>1. ASSUME SignalInv, [Next]_vars, NEW p \in Pid, sig'[p] \ sig[p] # {}
      PROVE  \E c \in Cmd : pc[c] \notin {"idle", "done"} /\ MayHit(c, handled[c], p)
  <2>0. TypeOK
    BY <1>1 DEF SignalInv, IInv
  <2>1. PICK c \in Cmd : /\ \E s \in Signal : Delivers(c, s)
                         /\ p \in Victims(c)
    BY <1>1, <2>0, SignalStep
  <2>2. pc[c] \in {"term", "escalate", "once"} /\ cur[c] \in Pid
    BY <1>1, <2>1 DEF Delivers, Term, Escalate, SignalOnce, SignalInv, IInv, InStep
  <2>3. cur[c] \in Targets(c)
    BY <2>2 DEF Targets
  <2>4. \/ request[c].op = "stop"
        \/ request[c].op = "kill" /\ ~request[c].dry
    BY <1>1, <2>2 DEF SignalInv, InCommand, Working, Waiting
  <2>5. p = cur[c] \/ (IsGroup(c) /\ pgid[p] = cur[c])
    BY <2>1 DEF Victims, Group
  <2>6. CASE request[c].op = "stop"
    <3>1. PICK e \in registered : e.pid = cur[c] /\ Names(request[c], e)
      BY <1>1, <2>3, <2>6 DEF SignalInv, Asked
    <3>2. pgid[p] = e.pid
      BY <1>1, <2>5, <3>1 DEF SignalInv, IInv, SessionLeaders
    <3> QED
      BY <2>2, <2>6, <3>1, <3>2 DEF MayHit
  <2>7. CASE request[c].op = "kill" /\ ~request[c].dry
    <3>1. cur[c] \in handled[c]
      BY <1>1, <2>3, <2>7 DEF SignalInv, Asked
    <3>2. IsGroup(c) => \E e \in registered : e.pid = cur[c]
      BY <2>0 DEF IsGroup, Pids, TypeOK
    <3> QED
      BY <2>2, <2>5, <2>7, <3>1, <3>2 DEF MayHit
  <2> QED
    BY <2>4, <2>6, <2>7
<1>2. ASSUME SignalInv, [Next]_vars, NEW c \in Cmd, request[c].op = "kill",
             NEW p \in handled'[c] \ handled[c]
      PROVE  \E i \in DOMAIN request[c].ports : request[c].ports[i] \in holds[p]
  <2>0. TypeOK
    BY <1>2 DEF SignalInv, IInv
  <2>1. KillPlan(c)
    BY <1>2, <2>0, OnlyPlanAdds
  <2>2. PICK i \in DOMAIN request[c].ports : p \in Holders(request[c].ports, i)
    BY <1>2, <2>0, <2>1 DEF KillPlan, TypeOK
  <2> QED
    BY <2>2 DEF Holders
<1>3. SignalInv /\ [Next]_vars
        => [/\ \A p \in Pid : sig'[p] \ sig[p] # {} =>
                 \E c \in Cmd : pc[c] \notin {"idle", "done"} /\ MayHit(c, handled[c], p)
            /\ \A c \in Cmd : request[c].op = "kill" =>
                 \A p \in handled'[c] \ handled[c] :
                   \E i \in DOMAIN request[c].ports : request[c].ports[i] \in holds[p]]_vars
  BY <1>1, <1>2
<1> QED
  BY <1>3, SignalsInductive, PTL DEF Spec, NoBystander

\* SIGKILL only ever escalates: it comes at the end of a grace period, never out of
\* kill -s, and the target itself has had SIGTERM (registry.rs:344-361, 415-424).
THEOREM KillEscalatesOnly == Spec => NoKillUnasked
<1>1. ASSUME SignalInv, [Next]_vars, NEW p \in Pid, "KILL" \in sig'[p] \ sig[p]
      PROVE  \E c \in Cmd :
               /\ pc[c] = "escalate"
               /\ p \in Victims(c)
               /\ request[c].op = "kill" => request[c].signal = "none"
               /\ p = cur[c] => "TERM" \in sig[p]
  <2>0. TypeOK
    BY <1>1 DEF SignalInv, IInv
  <2>1. PICK c \in Cmd, s \in Signal :
          /\ Delivers(c, s)
          /\ p \in Victims(c) /\ Signalable(p) /\ status[p] = "run"
          /\ sig'[p] = sig[p] \cup {s}
    BY <1>1, <2>0, SignalStep
  <2>2. s = "KILL"
    BY <1>1, <2>1
  <2>3. pc[c] = "escalate"
    BY <2>1, <2>2 DEF Delivers, Escalate
  <2>4. InCommand(c) /\ Warned(c)
    BY <1>1 DEF SignalInv
  <2> QED
    BY <2>1, <2>3, <2>4 DEF InCommand, Waiting, Warned, Signalable
<1>2. SignalInv /\ [Next]_vars
        => [\A p \in Pid : "KILL" \in sig'[p] \ sig[p] =>
              \E c \in Cmd :
                /\ pc[c] = "escalate"
                /\ p \in Victims(c)
                /\ request[c].op = "kill" => request[c].signal = "none"
                /\ p = cur[c] => "TERM" \in sig[p]]_vars
  BY <1>1
<1> QED
  BY <1>2, SignalsInductive, PTL DEF Spec, NoKillUnasked

-----------------------------------------------------------------------------
(* What stays true while others run.                                       *)

\* A group with nobody left to signal stays that way.
LEMMA GroupStaysDown ==
    ASSUME IInv, ShellApart, [Next]_vars, NEW g \in Pids(registered),
           \A q \in Group(g) : ~Signalable(q)
    PROVE  \A q \in Group(g)' : ~Signalable(q)'
<1> SUFFICES ASSUME NEW q \in Group(g)', Signalable(q)' PROVE FALSE
  OBVIOUS
<1>1. q \in Pid /\ pgid'[q] = g
  BY DEF Group
<1>2. \A r \in Pid : Signalable(r) /\ pgid[r] = g => r \in Group(g)
  BY DEF Group, Signalable
<1>3. \A r \in Pid : Signalable(r) => pgid[r] # g
  BY <1>2
<1> QED
  BY <1>1, <1>3, GroupStep

LEMMA DownStays ==
    ASSUME IInv, ShellApart, [Next]_vars, NEW c \in Cmd, NEW p \in Pid, Born(p), Down(c, p),
           found'[c] = found[c]
    PROVE  Down(c, p)'
<1>1. TypeOK
  BY DEF IInv
<1>2. ~Alive(p)'
  BY <1>1, StepPersists DEF Persists, Down
<1>3. ASSUME p \in Pids(found[c]) PROVE \A q \in Group(p)' : ~Signalable(q)'
  <2>1. p \in Pids(registered)
    BY <1>1, <1>3 DEF TypeOK, Pids
  <2>2. \A q \in Group(p) : ~Signalable(q)
    BY <1>3 DEF Down
  <2> QED
    BY <2>1, <2>2, GroupStaysDown
<1> QED
  BY <1>2, <1>3 DEF Down, Pids

\* Within one step of deemo the processes stand still.
LEMMA DownSame ==
    ASSUME UNCHANGED <<status, pgid, root>>, NEW c \in Cmd, found'[c] = found[c], NEW p,
           Down(c, p)
    PROVE  Down(c, p)'
  BY DEF Down, Alive, Group, Exists, Signalable, Pids

\* An invocation exits as a success, or as a failure, in a few places.
LEMMA DonePc ==
    ASSUME IInv, [Next]_vars, NEW c \in Cmd, InCommand(c),
           pc'[c] = "done", code'[c] = 0, request'[c].op \in {"stop", "kill"}
    PROVE  \/ StopEnd(c)
           \/ TidyEnd(c)
           \/ KillPlan(c) /\ request'[c].dry
           \/ Locals(c)' = Locals(c)
<1> USE DEF TypeOK, Goto, Fail, listVars, workVars
<1>0. TypeOK /\ InStep(c)
  BY DEF IInv
<1>1. ~Start(c)
  <2> SUFFICES ASSUME Start(c) PROVE FALSE
    OBVIOUS
  <2>1. PICK r \in Requests : /\ request' = [request EXCEPT ![c] = r]
                              /\ pc' = [pc EXCEPT ![c] = FirstStep(r)]
                              /\ code' = [code EXCEPT ![c] = IF BadSignal(r) THEN 2 ELSE 0]
    BY DEF Start
  <2>2. FirstStep(r) = "done" /\ ~BadSignal(r) /\ r.op \in {"stop", "kill"}
    BY <1>0, <2>1
  <2> QED
    BY <2>2 DEF FirstStep, Managing
<1>2. ~Abort(c) /\ ~Finish(c)
  BY <1>0 DEF Abort, Finish
<1>3. ~LaunchStep(c)
  BY <1>0 DEF InStep, LaunchStep, Spawn, SpawnFails, RegisterChild, RegisterFails, ForkPump,
              ForkFails, Hint
<1>4. ASSUME ManageStep(c) PROVE StopEnd(c) \/ TidyEnd(c) \/ (KillPlan(c) /\ request'[c].dry)
  <2>1. ~List(c) /\ ~Sweep(c) /\ ~Ps(c)
    BY <1>0 DEF List, Sweep, Ps, Read
  <2>2. ~Term(c) /\ ~Stopped(c) /\ ~LastProbe(c) /\ ~Escalate(c) /\ ~Survived(c)
    BY <1>0 DEF Term, Stopped, AfterStopped, LastProbe, Escalate, Survived
  <2>3. ~StopBegin(c) /\ ~Select(c) /\ ~NextHit(c) /\ ~UnlinkStopped(c)
    BY <1>0 DEF StopBegin, Select, NextHit, UnlinkStopped, BatchDone
  <2>4. ~KillBlind(c) /\ ~NextHolder(c) /\ ~NextOnce(c)
    BY <1>0 DEF KillBlind, NextHolder, NextOnce
  <2>5. ~SignalOnce(c) /\ ~KillEnd(c) /\ ~Tidy(c)
    BY <1>0 DEF SignalOnce, KillEnd, Tidy
  <2>6. KillPlan(c) => request'[c].dry
    BY <1>0 DEF KillPlan
  <2> QED
    BY <1>4, <2>1, <2>2, <2>3, <2>4, <2>5, <2>6 DEF ManageStep
<1> QED
  BY <1>0, <1>1, <1>2, <1>3, <1>4, OwnStepOrNone

-----------------------------------------------------------------------------
(* The scan.                                                               *)

\* No registration of the directory as it was slips out of the accounts.
LEMMA ScannedPreserved ==
    ASSUME SignalInv, [Next]_vars, NEW c \in Cmd, Scanned(c)
    PROVE  Scanned(c)'
<1> USE DEF TypeOK, Scanned, Waiting, Working, Goto, Fail, listVars
<1>0. TypeOK /\ Fresh(c)
  BY DEF SignalInv, IInv
<1>1. \A e \in registered : e \notin files => e \notin files'
  BY DirectoryHistory DEF SignalInv
<1>2. ASSUME UNCHANGED <<listed[c], todo[c], found[c], dead[c]>>,
             Working(c)' => todo[c] = {} /\ (request'[c].op = "stop" => dead[c] = {})
      PROVE  Scanned(c)'
  BY <1>0, <1>1, <1>2
<1>3. CASE Locals(c)' = Locals(c)
  BY <1>2, <1>3 DEF Locals
<1>4. CASE Start(c)
  <2>1. pc[c] = "idle" /\ listed'[c] = todo'[c] /\ UNCHANGED <<found, dead>>
    BY <1>0, <1>4 DEF Start
  <2>2. ~Working(c)'
    BY <1>0, <1>4, FirstSteps DEF Start
  <2> QED
    BY <1>0, <2>1, <2>2 DEF Fresh
<1>5. CASE Abort(c) \/ Finish(c)
  BY <1>0, <1>5 DEF Abort, Finish, Forget
<1>6. CASE LaunchStep(c)
  <2>1. ~Working(c)' /\ UNCHANGED listVars
    BY <1>0, <1>6 DEF LaunchStep, Spawn, SpawnFails, RegisterChild, RegisterFails, ForkPump,
                      ForkFails, Hint
  <2> QED
    BY <1>2, <2>1
<1>7. CASE ManageStep(c)
  <2>1. CASE List(c)
    <3>1. PICK e \in todo[c] :
            /\ todo' = [todo EXCEPT ![c] = @ \ {e}]
            /\ found' = [found EXCEPT ![c] =
                           IF e \in files /\ Alive(e.pid) THEN @ \cup {e} ELSE @]
            /\ dead' = [dead EXCEPT ![c] =
                           IF e \in files /\ ~Alive(e.pid) THEN @ \cup {e} ELSE @]
      BY <2>1 DEF List
    <3>2. pc'[c] = "list" /\ listed' = listed /\ files' = files
      BY <2>1 DEF List, dirVars
    <3>3. /\ todo'[c] = todo[c] \ {e}
          /\ found'[c] = IF e \in files /\ Alive(e.pid) THEN found[c] \cup {e} ELSE found[c]
          /\ dead'[c] = IF e \in files /\ ~Alive(e.pid) THEN dead[c] \cup {e} ELSE dead[c]
      BY <1>0, <3>1
    <3> QED
      BY <3>2, <3>3
  <2>2. CASE Sweep(c)
    <3>1. PICK e \in dead[c] : dead' = [dead EXCEPT ![c] = @ \ {e}] /\ Unlink({e})
      BY <2>2 DEF Sweep
    <3>2. pc'[c] = "list" /\ UNCHANGED <<listed, todo, found>>
      BY <2>2 DEF Sweep, Read
    <3>3. dead'[c] = dead[c] \ {e} /\ files' = files \ {e}
      BY <1>0, <3>1 DEF Unlink
    <3> QED
      BY <3>2, <3>3
  <2>3. CASE Ps(c) \/ StopEnd(c) \/ KillBlind(c) \/ TidyEnd(c)
    <3>1. ~Working(c)' /\ UNCHANGED listVars
      BY <1>0, <2>3 DEF Ps, StopEnd, KillBlind, TidyEnd
    <3> QED
      BY <1>2, <3>1
  <2>4. CASE StopBegin(c) \/ KillPlan(c)
    <3>1. /\ todo[c] = {} /\ (request'[c].op = "stop" => dead[c] = {})
          /\ UNCHANGED listVars
      BY <2>4 DEF StopBegin, KillPlan, Swept, Read
    <3> QED
      BY <1>2, <3>1
  <2>5. ASSUME Working(c), UNCHANGED <<listVars, request>> PROVE Scanned(c)'
    BY <1>2, <2>5
  <2>6. CASE Term(c) \/ Stopped(c) \/ LastProbe(c) \/ Escalate(c) \/ Survived(c) \/ Select(c)
             \/ NextHit(c) \/ UnlinkStopped(c)
    BY <2>5, <2>6 DEF Term, Stopped, LastProbe, Escalate, Survived, Select, NextHit, UnlinkStopped,
                      BatchDone
  <2>7. CASE NextHolder(c) \/ NextOnce(c) \/ SignalOnce(c) \/ KillEnd(c) \/ Tidy(c)
    BY <2>5, <2>7 DEF NextHolder, NextOnce, SignalOnce, KillEnd, Tidy, BatchDone
  <2> QED
    BY <1>7, <2>1, <2>2, <2>3, <2>4, <2>6, <2>7 DEF ManageStep
<1> QED
  BY <1>0, <1>3, <1>4, <1>5, <1>6, <1>7, OwnStepOrNone
-----------------------------------------------------------------------------
(* stop                                                                    *)

\* An argument is done with once what it selects is among the targets.
Covered(c, i) ==
    \/ \E j \in DOMAIN args[c] : args[c][j] = request[c].targets[i]
    \/ /\ \E e \in found[c] : Means(request[c].targets[i], e)
       /\ \A e \in found[c] : Means(request[c].targets[i], e) =>
            e.pid \in jobs[c] \cup handled[c]

Cleared(c) ==
    \A e \in found[c] :
      e.pid \in handled[c] => e \notin files \/ (pc[c] # "next" /\ e.pid = cur[c])

LEMMA StopWorkPreserved ==
    ASSUME SignalInv, [Next]_vars, NEW c \in Cmd, StopWork(c), Scanned(c)
    PROVE  StopWork(c)'
<1> USE DEF TypeOK, Waiting, Working, Goto, Fail, listVars, workVars
<1>0. TypeOK /\ InStep(c) /\ InCommand(c) /\ Fresh(c)
  BY DEF SignalInv, IInv
<1>1. \A e \in registered : e \notin files => e \notin files'
  BY DirectoryHistory DEF SignalInv
<1>2. found[c] \subseteq registered
  BY <1>0
<1>3. /\ StopWork(c) <=>
           (request[c].op = "stop" /\ Working(c) =>
              /\ Waiting(c) \/ pc[c] = "unlink" => cur[c] \in handled[c]
              /\ code[c] = 0 => (\A i \in DOMAIN request[c].targets : Covered(c, i)) /\ Cleared(c))
      /\ StopWork(c)' <=>
           (request'[c].op = "stop" /\ Working(c)' =>
              /\ Waiting(c)' \/ pc'[c] = "unlink" => cur'[c] \in handled'[c]
              /\ code'[c] = 0 => (\A i \in DOMAIN request'[c].targets : Covered(c, i)') /\ Cleared(c)')
  BY DEF StopWork, Covered, Cleared
<1>4. ASSUME UNCHANGED <<args[c], request[c], found[c], jobs[c], handled[c]>>
      PROVE  \A i : Covered(c, i) => Covered(c, i)'
  BY <1>4 DEF Covered
<1>5. CASE Locals(c)' = Locals(c)
  <2>1. UNCHANGED <<request[c], pc[c], code[c], found[c], args[c], jobs[c], handled[c], cur[c]>>
    BY <1>5 DEF Locals
  <2>2. Cleared(c) => Cleared(c)'
    BY <1>1, <1>2, <2>1 DEF Cleared
  <2> QED
    BY <1>3, <1>4, <2>1, <2>2
<1>6. ASSUME ~Working(c)' PROVE StopWork(c)'
  BY <1>3, <1>6
<1>7. CASE Start(c)
  <2>1. ~Working(c)'
    BY <1>0, <1>7, FirstSteps DEF Start
  <2> QED
    BY <1>6, <2>1
<1>8. CASE Abort(c) \/ Finish(c)
  BY <1>0, <1>6, <1>8 DEF Abort, Finish
<1>9. CASE LaunchStep(c)
  <2>1. ~Working(c)'
    BY <1>0, <1>9 DEF LaunchStep, Spawn, SpawnFails, RegisterChild, RegisterFails, ForkPump,
                      ForkFails, Hint
  <2> QED
    BY <1>6, <2>1
<1>10. CASE ManageStep(c)
  <2>1. CASE List(c) \/ Sweep(c) \/ Ps(c)
    BY <1>0, <1>6, <2>1 DEF List, Sweep, Ps, Read
  <2>2. CASE StopEnd(c) \/ KillBlind(c) \/ TidyEnd(c)
    BY <1>0, <1>6, <2>2 DEF StopEnd, KillBlind, TidyEnd
  <2>3. ASSUME request'[c].op = "kill" PROVE StopWork(c)'
    BY <1>3, <2>3
  <2>4. CASE KillPlan(c) \/ NextHolder(c) \/ NextOnce(c) \/ KillEnd(c)
    BY <2>3, <2>4 DEF KillPlan, NextHolder, NextOnce, KillEnd, BatchDone
  <2>5. CASE SignalOnce(c) \/ Tidy(c)
    BY <1>0, <2>3, <2>5 DEF SignalOnce, Tidy, InCommand
  <2>6. CASE StopBegin(c)
    <3>1. /\ request' = request /\ pc'[c] = "next" /\ handled'[c] = {}
          /\ args'[c] = request[c].targets
      BY <1>0, <2>6 DEF StopBegin, Swept, Read, Fresh
    <3>2. (\A i \in DOMAIN request'[c].targets : Covered(c, i)') /\ Cleared(c)'
      BY <3>1 DEF Covered, Cleared
    <3> QED
      BY <1>3, <3>1, <3>2
  <2>7. CASE Select(c)
    <3> DEFINE hits == {e \in found[c] : Selects(Head(args[c]), e)}
    <3>1. /\ UNCHANGED <<request, found, handled, cur, files, pc>> /\ pc[c] = "next"
          /\ request[c].op = "stop"
          /\ jobs[c] = {} /\ jobs'[c] = Pids(hits) \ handled[c]
          /\ args[c] \in Seq(Label) /\ args[c] # <<>> /\ args'[c] = Tail(args[c])
          /\ code'[c] = IF hits = {} THEN 1 ELSE code[c]
      BY <1>0, <2>7 DEF Select, BatchDone, dirVars
    <3>4. hits = {e \in found[c] : Means(Head(args[c]), e)}
      BY <1>0, <1>2, <3>1, SelectsMeans
    <3> HIDE DEF hits
    <3>2. ASSUME NEW i \in DOMAIN request[c].targets, Covered(c, i), hits # {}
          PROVE  Covered(c, i)'
      <4>1. CASE Head(args[c]) = request[c].targets[i]
        <5>1. \A e \in hits : e.pid \in jobs'[c] \cup handled'[c]
          BY <3>1 DEF Pids
        <5> QED
          BY <3>1, <3>2, <3>4, <4>1, <5>1 DEF Covered
      <4>2. ASSUME NEW j \in DOMAIN args[c], j # 1, args[c][j] = request[c].targets[i]
            PROVE  Covered(c, i)'
        <5>1. j - 1 \in DOMAIN Tail(args[c]) /\ Tail(args[c])[j - 1] = args[c][j]
          BY <3>1, <4>2
        <5> QED
          BY <3>1, <4>2, <5>1 DEF Covered
      <4>3. CASE \A e \in found[c] : Means(request[c].targets[i], e) => e.pid \in handled[c]
        BY <3>1, <3>2, <4>1, <4>2, <4>3 DEF Covered
      <4> QED
        BY <3>1, <3>2, <4>1, <4>2, <4>3 DEF Covered
    <3>3. Cleared(c) => Cleared(c)'
      BY <3>1 DEF Cleared
    <3> QED
      BY <1>3, <3>1, <3>2, <3>3
  <2>8. CASE NextHit(c)
    <3>1. PICK p \in jobs[c] :
             /\ jobs' = [jobs EXCEPT ![c] = @ \ {p}]
             /\ handled' = [handled EXCEPT ![c] = @ \cup {p}]
             /\ cur' = [cur EXCEPT ![c] = p]
             /\ Goto(c, IF Alive(p) THEN "term" ELSE "unlink")
      BY <2>8 DEF NextHit
    <3>2. /\ jobs'[c] = jobs[c] \ {p} /\ handled'[c] = handled[c] \cup {p}
          /\ cur'[c] = p /\ pc'[c] \in {"term", "unlink"}
          /\ UNCHANGED <<args, request, found, files, code>> /\ pc[c] = "next"
      BY <1>0, <2>8, <3>1 DEF NextHit, dirVars
    <3>3. \A i : Covered(c, i) => Covered(c, i)'
      BY <3>1, <3>2 DEF Covered
    <3>4. Cleared(c) => Cleared(c)'
      BY <3>2 DEF Cleared
    <3> QED
      BY <1>3, <3>2, <3>3, <3>4
  <2>9. CASE UnlinkStopped(c)
    <3>1. /\ UNCHANGED <<args, request, found, jobs, handled, code>>
          /\ pc[c] = "unlink" /\ pc'[c] = "next"
          /\ files' = files \ {e \in found[c] : e.pid = cur[c]}
      BY <1>0, <2>9 DEF UnlinkStopped, Unlink
    <3>2. Cleared(c) => Cleared(c)'
      BY <3>1 DEF Cleared
    <3> QED
      BY <1>3, <1>4, <3>1, <3>2
  <2>10. ASSUME Waiting(c), UNCHANGED <<args, request, found, jobs, handled, cur, files>>,
                \/ pc'[c] \in {"grace", "escalate", "killgrace", "unlink"} /\ code' = code
                \/ pc'[c] = "next" /\ (code'[c] = 1 \/ request[c].op = "kill")
         PROVE  StopWork(c)'
    <3>1. pc'[c] # "next" => (Cleared(c) => Cleared(c)')
      BY <2>10 DEF Cleared
    <3> QED
      BY <1>3, <1>4, <2>10, <3>1
  <2>11. CASE Term(c)
    BY <1>0, <2>10, <2>11 DEF Term, dirVars
  <2>12. CASE Stopped(c)
    BY <1>0, <2>10, <2>12 DEF Stopped, AfterStopped, InCommand, dirVars
  <2>13. CASE LastProbe(c) \/ Escalate(c) \/ Survived(c)
    BY <1>0, <2>10, <2>13 DEF LastProbe, Escalate, Survived, dirVars
  <2> QED
    BY <1>10, <2>1, <2>2, <2>4, <2>5, <2>6, <2>7, <2>8, <2>9, <2>11, <2>12, <2>13
       DEF ManageStep
<1> QED
  BY <1>0, <1>5, <1>7, <1>8, <1>9, <1>10, OwnStepOrNone
-----------------------------------------------------------------------------
(* kill                                                                    *)

\* Whoever the plan names and a scan listed was found alive.
Accounted(c) == \A e \in listed[c] : e.pid \in handled[c] => e \in found[c]

\* Whoever is neither waiting his turn nor being waited for is down.
Downed(c) ==
    \A p \in handled[c] :
      Down(c, p) \/ (pc[c] # "tidy" /\ p \in jobs[c]) \/ (Waiting(c) /\ p = cur[c])

Tidied(c) ==
    pc[c] = "tidy" => \A e \in found[c] : e.pid \in handled[c] \ jobs[c] => e \notin files

LEMMA KillWorkPreserved ==
    ASSUME SignalInv, [Next]_vars, NEW c \in Cmd, KillWork(c), Scanned(c)
    PROVE  KillWork(c)'
<1> USE DEF TypeOK, Waiting, Working, Goto, Fail, listVars, workVars
<1>0. TypeOK /\ InStep(c) /\ InCommand(c) /\ Fresh(c) /\ TargetsBorn(c) /\ SeenDead(c)
  BY DEF SignalInv, IInv
<1>1. \A e \in registered : e \notin files => e \notin files'
  BY DirectoryHistory DEF SignalInv
<1>2. found[c] \subseteq registered /\ listed[c] \subseteq registered
  BY <1>0
<1> DEFINE Kills == request[c].op = "kill" /\ request[c].signal = "none" /\ Working(c)
<1>3. /\ KillWork(c) <=>
           (Kills => /\ Accounted(c)
                     /\ code[c] = 0 => Downed(c) /\ Tidied(c))
      /\ KillWork(c)' <=>
           (Kills' => /\ Accounted(c)'
                      /\ code'[c] = 0 => Downed(c)' /\ Tidied(c)')
  BY DEF KillWork, Accounted, Downed, Tidied
<1>4. ASSUME UNCHANGED <<found[c], handled[c]>>
      PROVE  \A p \in handled[c] : Down(c, p) => Down(c, p)'
  BY <1>0, <1>4, DownStays DEF SignalInv, TargetsBorn
<1>5. CASE Locals(c)' = Locals(c)
  <2>1. UNCHANGED <<request[c], pc[c], code[c], found[c], listed[c], jobs[c], handled[c], cur[c]>>
    BY <1>5 DEF Locals
  <2>2. Downed(c) => Downed(c)'
    BY <1>4, <2>1 DEF Downed
  <2>3. Tidied(c) => Tidied(c)'
    BY <1>1, <1>2, <2>1 DEF Tidied
  <2>4. Accounted(c) => Accounted(c)'
    BY <2>1 DEF Accounted
  <2> QED
    BY <1>3, <2>1, <2>2, <2>3, <2>4
<1>6. ASSUME ~Kills' PROVE KillWork(c)'
  BY <1>3, <1>6
<1>7. CASE Start(c)
  <2>1. ~Working(c)'
    BY <1>0, <1>7, FirstSteps DEF Start
  <2> QED
    BY <1>6, <2>1
<1>8. CASE Abort(c) \/ Finish(c)
  BY <1>0, <1>6, <1>8 DEF Abort, Finish
<1>9. CASE LaunchStep(c)
  <2>1. ~Working(c)'
    BY <1>0, <1>9 DEF LaunchStep, Spawn, SpawnFails, RegisterChild, RegisterFails, ForkPump,
                      ForkFails, Hint
  <2> QED
    BY <1>6, <2>1
<1>10. CASE ManageStep(c)
  <2>0. UNCHANGED <<status, pgid, root>>
    BY <1>10, ManageLeavesProcesses
  <2>1. CASE List(c) \/ Sweep(c) \/ Ps(c)
    BY <1>0, <1>6, <2>1 DEF List, Sweep, Ps, Read
  <2>2. CASE StopEnd(c) \/ KillBlind(c) \/ TidyEnd(c)
    BY <1>0, <1>6, <2>2 DEF StopEnd, KillBlind, TidyEnd
  <2>3. ASSUME request'[c].op = "stop" PROVE KillWork(c)'
    BY <1>6, <2>3
  <2>4. CASE StopBegin(c) \/ Select(c) \/ NextHit(c)
    BY <2>3, <2>4 DEF StopBegin, Select, NextHit, BatchDone
  <2>5. CASE UnlinkStopped(c)
    BY <1>0, <2>3, <2>5 DEF UnlinkStopped, InCommand
  <2>6. CASE NextOnce(c)
    BY <1>6, <2>6 DEF NextOnce
  <2>7. CASE SignalOnce(c)
    BY <1>0, <1>6, <2>7 DEF SignalOnce, InCommand
  <2>8. CASE KillPlan(c)
    <3> DEFINE plan == UNION {Holders(request[c].ports, i) : i \in DOMAIN request[c].ports}
    <3>1. \A p \in plan : Alive(p)
      <4>1. ASSUME NEW i, NEW p \in Holders(request[c].ports, i)
            PROVE  p \in Pid \ root /\ holds[p] # {}
        BY <4>1 DEF Holders
      <4>2. \A p \in Pid : holds[p] # {} => status[p] = "run"
        BY DEF SocketsOpen, SignalInv, IInv
      <4> QED
        BY <4>1, <4>2 DEF Alive
    <3>2. jobs'[c] = plan /\ handled'[c] = plan /\ UNCHANGED listVars /\ todo[c] = {}
      BY <1>0, <2>8 DEF KillPlan, Read
    <3> HIDE DEF plan
    <3>3. pc'[c] # "tidy"
      BY <1>0, <2>8 DEF KillPlan
    <3>4. Downed(c)' /\ Tidied(c)'
      BY <3>2, <3>3 DEF Downed, Tidied
    <3>5. ASSUME NEW e \in listed[c], e.pid \in plan PROVE e \in found[c]
      <4>1. Alive(e.pid)
        BY <3>1, <3>5
      <4>2. e \in files
        BY <1>2, <4>1 DEF SignalInv, IInv, LiveLeaderRegistered
      <4>3. e \notin dead[c]
        BY <1>0, <4>1 DEF SeenDead
      <4> QED
        BY <3>2, <4>2, <4>3 DEF Scanned
    <3>6. Accounted(c)'
      BY <3>2, <3>5 DEF Accounted
    <3> QED
      BY <1>3, <3>2, <3>4, <3>6
  <2>9. CASE NextHolder(c)
    <3>1. PICK p \in jobs[c] :
             jobs' = [jobs EXCEPT ![c] = @ \ {p}] /\ cur' = [cur EXCEPT ![c] = p]
      BY <2>9 DEF NextHolder
    <3>2. /\ jobs'[c] = jobs[c] \ {p} /\ cur'[c] = p /\ pc'[c] = "term" /\ pc[c] = "next"
          /\ UNCHANGED <<request, listed, found, handled, code>>
      BY <1>0, <2>9, <3>1 DEF NextHolder
    <3>3. Downed(c) => Downed(c)'
      BY <1>4, <3>2 DEF Downed
    <3>4. Accounted(c) => Accounted(c)'
      BY <3>2 DEF Accounted
    <3>5. Tidied(c)'
      BY <3>2 DEF Tidied
    <3> QED
      BY <1>3, <3>2, <3>3, <3>4, <3>5
  <2>10. ASSUME Waiting(c), UNCHANGED <<request, listed, found, jobs, handled, cur>>,
                \/ pc'[c] \in {"grace", "escalate", "killgrace"} /\ code' = code
                \/ pc'[c] = "next" /\ code'[c] = 1
                \/ pc'[c] = "next" /\ code' = code /\ Down(c, cur[c])
                \/ pc'[c] = "unlink" /\ request[c].op = "stop"
         PROVE  KillWork(c)'
    <3>1. Accounted(c) => Accounted(c)'
      BY <2>10 DEF Accounted
    <3>2. Tidied(c)'
      BY <2>10 DEF Tidied
    <3>3. \A p \in handled[c] : Down(c, p) => Down(c, p)'
      BY <1>4, <2>10
    <3>4. pc'[c] \in {"grace", "escalate", "killgrace"} \/ Down(c, cur[c]) => (Downed(c) => Downed(c)')
      BY <2>10, <3>3 DEF Downed
    <3> HIDE DEF Kills
    <3>5. Kills' => Kills /\ request[c].op = "kill" /\ pc'[c] # "unlink"
      BY <2>10 DEF Kills
    <3> QED
      BY <1>3, <2>10, <3>1, <3>2, <3>4, <3>5
  <2>11. CASE Term(c)
    BY <1>0, <2>10, <2>11 DEF Term
  <2>12. CASE Stopped(c)
    <3>1. Down(c, cur[c])
      <4>1. cur[c] \in Pid /\ Gone(c) /\ ~Alive(cur[c])
        BY <1>0, <2>12, GoneIsDead DEF Stopped, InStep, SignalInv, IInv
      <4>2. cur[c] \in Pids(found[c]) => \A q \in Group(cur[c]) : ~Signalable(q)
        BY <4>1 DEF Gone, IsGroup, Refused, Victims
      <4> QED
        BY <4>1, <4>2 DEF Down
    <3>2. pc'[c] = IF request[c].op = "stop" THEN "unlink" ELSE "next"
      BY <1>0, <2>12 DEF Stopped, AfterStopped
    <3>3. Waiting(c) /\ UNCHANGED <<request, listed, found, jobs, handled, cur, code>>
      BY <2>12 DEF Stopped
    <3> QED
      BY <2>10, <3>1, <3>2, <3>3
  <2>13. CASE LastProbe(c) \/ Escalate(c) \/ Survived(c)
    BY <1>0, <2>10, <2>13 DEF LastProbe, Escalate, Survived
  <2>14. CASE KillEnd(c)
    <3>1. /\ jobs[c] = {} /\ jobs'[c] = handled[c] /\ pc[c] = "next" /\ pc'[c] = "tidy"
          /\ UNCHANGED <<request, listed, found, handled, code>>
      BY <1>0, <2>14 DEF KillEnd, BatchDone
    <3>2. Downed(c) => Downed(c)'
      BY <1>4, <3>1 DEF Downed
    <3>3. Accounted(c) => Accounted(c)'
      BY <3>1 DEF Accounted
    <3>4. Tidied(c)'
      BY <3>1 DEF Tidied
    <3> QED
      BY <1>3, <3>1, <3>2, <3>3, <3>4
  <2>15. CASE Tidy(c)
    <3>1. PICK p \in jobs[c] :
             /\ jobs' = [jobs EXCEPT ![c] = @ \ {p}]
             /\ Unlink({e \in found[c] : e.pid = p /\ ~Alive(p)})
      BY <2>15 DEF Tidy
    <3>2. /\ jobs'[c] = jobs[c] \ {p} /\ pc[c] = "tidy" /\ pc'[c] = "tidy"
          /\ UNCHANGED <<request, listed, found, handled, code, pc, cur>>
          /\ files' = files \ {e \in found[c] : e.pid = p /\ ~Alive(p)}
      BY <1>0, <2>15, <3>1 DEF Tidy, Unlink
    <3>3. Downed(c) => Downed(c)'
      BY <1>4, <3>2 DEF Downed
    <3>4. Accounted(c) => Accounted(c)'
      BY <3>2 DEF Accounted
    <3>5. Kills /\ Downed(c) => ~Alive(p)
      <4>1. request[c].op = "kill" => p \in handled[c]
        BY <1>0, <3>1 DEF SignalInv, Asked, Targets
      <4> QED
        BY <3>2, <4>1 DEF Downed, Down
    <3>6. ~Alive(p) /\ Tidied(c) => Tidied(c)'
      BY <3>2 DEF Tidied
    <3> QED
      BY <1>3, <3>2, <3>3, <3>4, <3>5, <3>6
  <2> QED
    BY <1>10, <2>1, <2>2, <2>4, <2>5, <2>6, <2>7, <2>8, <2>9, <2>11, <2>12, <2>13, <2>14,
       <2>15 DEF ManageStep
<1> QED
  BY <1>0, <1>5, <1>7, <1>8, <1>9, <1>10, OwnStepOrNone
-----------------------------------------------------------------------------
(* kill -s                                                                 *)

\* Whom the signal has reached stays reached, as long as he could be.
LEMMA ReachedStays ==
    ASSUME TypeOK, [Next]_vars, NEW p \in Pid, Born(p), Reached(p)
    PROVE  Reached(p)'
<1> SUFFICES ASSUME Alive(p)' PROVE "USER" \in sig'[p]
  BY DEF Reached, Alive
<1>1. Alive(p)
  BY StepPersists DEF Persists
<1>2. status'[p] # "zombie"
  BY DEF Alive
<1>3. \/ sig'[p] = sig[p]
      \/ \E s \in Signal : sig'[p] = sig[p] \cup {s}
  BY <1>2, SignalStep
<1> QED
  BY <1>1, <1>3 DEF Reached, Alive

\* Whoever is neither waiting his turn nor about to be signalled has been reached.
Served(c) ==
    \A p \in handled[c] :
      Reached(p) \/ (pc[c] # "tidy" /\ p \in jobs[c]) \/ (pc[c] = "once" /\ p = cur[c])

LEMMA OnceWorkPreserved ==
    ASSUME SignalInv, [Next]_vars, NEW c \in Cmd, OnceWork(c)
    PROVE  OnceWork(c)'
<1> USE DEF TypeOK, Waiting, Working, Goto, Fail, listVars, workVars
<1>0. TypeOK /\ InStep(c) /\ InCommand(c) /\ Fresh(c) /\ TargetsBorn(c)
  BY DEF SignalInv, IInv
<1> DEFINE Signals == request[c].op = "kill" /\ request[c].signal = "user" /\ Working(c)
<1>1. /\ OnceWork(c) <=> (Signals /\ code[c] = 0 => Served(c))
      /\ OnceWork(c)' <=> (Signals' /\ code'[c] = 0 => Served(c)')
  BY DEF OnceWork, Served
<1>2. \A p \in handled[c] : Reached(p) => Reached(p)'
  BY <1>0, ReachedStays DEF TargetsBorn
<1>3. CASE Locals(c)' = Locals(c)
  <2>1. UNCHANGED <<request[c], pc[c], code[c], jobs[c], handled[c], cur[c]>>
    BY <1>3 DEF Locals
  <2>2. Served(c) => Served(c)'
    BY <1>2, <2>1 DEF Served
  <2> QED
    BY <1>1, <2>1, <2>2
<1>4. ASSUME ~Signals' PROVE OnceWork(c)'
  BY <1>1, <1>4
<1>5. CASE Start(c)
  <2>1. ~Working(c)'
    BY <1>0, <1>5, FirstSteps DEF Start
  <2> QED
    BY <1>4, <2>1
<1>6. CASE Abort(c) \/ Finish(c)
  BY <1>0, <1>4, <1>6 DEF Abort, Finish
<1>7. CASE LaunchStep(c)
  <2>1. ~Working(c)'
    BY <1>0, <1>7 DEF LaunchStep, Spawn, SpawnFails, RegisterChild, RegisterFails, ForkPump,
                      ForkFails, Hint
  <2> QED
    BY <1>4, <2>1
<1>8. CASE ManageStep(c)
  <2>1. CASE List(c) \/ Sweep(c) \/ Ps(c)
    BY <1>0, <1>4, <2>1 DEF List, Sweep, Ps, Read
  <2>2. CASE StopEnd(c) \/ KillBlind(c) \/ TidyEnd(c)
    BY <1>0, <1>4, <2>2 DEF StopEnd, KillBlind, TidyEnd
  <2>3. CASE StopBegin(c) \/ Select(c) \/ NextHit(c) \/ NextHolder(c)
    BY <1>4, <2>3 DEF StopBegin, Select, NextHit, NextHolder, BatchDone
  <2>4. CASE UnlinkStopped(c)
    BY <1>0, <1>4, <2>4 DEF UnlinkStopped, InCommand
  <2>5. CASE Term(c) \/ Stopped(c) \/ LastProbe(c) \/ Escalate(c) \/ Survived(c)
    <3>1. Waiting(c) /\ request' = request
      BY <2>5 DEF Term, Stopped, LastProbe, Escalate, Survived
    <3>2. ~Signals'
      BY <1>0, <3>1 DEF InCommand
    <3> QED
      BY <1>4, <3>2
  <2>6. CASE KillPlan(c)
    <3>1. jobs'[c] = handled'[c] /\ pc'[c] # "tidy"
      BY <1>0, <2>6 DEF KillPlan
    <3> QED
      BY <1>1, <3>1 DEF Served
  <2>7. CASE NextOnce(c)
    <3>1. PICK p \in jobs[c] :
             jobs' = [jobs EXCEPT ![c] = @ \ {p}] /\ cur' = [cur EXCEPT ![c] = p]
      BY <2>7 DEF NextOnce
    <3>2. /\ jobs'[c] = jobs[c] \ {p} /\ cur'[c] = p /\ pc'[c] = "once" /\ pc[c] = "next"
          /\ UNCHANGED <<request, handled, code>>
      BY <1>0, <2>7, <3>1 DEF NextOnce
    <3>3. Served(c) => Served(c)'
      BY <1>2, <3>2 DEF Served
    <3> QED
      BY <1>1, <3>2, <3>3
  <2>8. CASE SignalOnce(c)
    <3>1. /\ pc[c] = "once" /\ pc'[c] = "next"
          /\ UNCHANGED <<request, jobs, handled, cur, status, root>>
          /\ code'[c] = IF Refused(c) THEN 1 ELSE code[c]
      BY <1>0, <2>8 DEF SignalOnce
    <3>2. Reached(cur[c])'
      <4>1. cur[c] \in Victims(c) \/ ~Exists(cur[c])
        <5>1. cur[c] \in Pids(found[c]) => cur[c] \in Pid /\ pgid[cur[c]] = cur[c]
          BY <1>0 DEF Pids, SignalInv, IInv, SessionLeaders, Entry
        <5> QED
          BY <5>1 DEF Victims, IsGroup, Group
      <4>2. cur[c] \in Pid
        BY <1>0, <3>1 DEF InStep
      <4> QED
        BY <1>0, <2>8, <3>1, <4>1, <4>2
           DEF SignalOnce, Deliver, Signalable, Exists, Reached, ProcTypeOK
    <3>3. Served(c) => Served(c)'
      BY <1>2, <3>1, <3>2 DEF Served
    <3> QED
      BY <1>1, <3>1, <3>3
  <2>9. CASE KillEnd(c)
    <3>1. /\ jobs[c] = {} /\ pc[c] = "next" /\ pc'[c] = "tidy"
          /\ UNCHANGED <<request, handled, code>>
      BY <1>0, <2>9 DEF KillEnd, BatchDone
    <3>2. Served(c) => Served(c)'
      BY <1>2, <3>1 DEF Served
    <3> QED
      BY <1>1, <3>1, <3>2
  <2>10. CASE Tidy(c)
    <3>1. pc[c] = "tidy" /\ pc' = pc /\ UNCHANGED <<request, handled, code>>
      BY <2>10 DEF Tidy
    <3>2. Served(c) => Served(c)'
      BY <1>2, <3>1 DEF Served
    <3> QED
      BY <1>1, <3>1, <3>2
  <2> QED
    BY <1>8, <2>1, <2>2, <2>3, <2>4, <2>5, <2>6, <2>7, <2>8, <2>9, <2>10 DEF ManageStep
<1> QED
  BY <1>0, <1>3, <1>5, <1>6, <1>7, <1>8, OwnStepOrNone

-----------------------------------------------------------------------------
(* The exit codes.                                                         *)

LEMMA StopExitPreserved ==
    ASSUME ExitInv, [Next]_vars
    PROVE  StopExitHonest'
<1> USE DEF TypeOK
<1>0. TypeOK /\ \A c \in Cmd : InCommand(c)
  BY DEF ExitInv, SignalInv, IInv
<1>1. \A e \in registered : e \notin files => e \notin files'
  BY DirectoryHistory DEF ExitInv, SignalInv
<1>2. ASSUME NEW e \in registered PROVE ~Alive(e.pid) => ~Alive(e.pid)'
  BY <1>0, <1>2, StepPersists DEF Persists, ExitInv, SignalInv, IInv, Entry
<1> SUFFICES ASSUME NEW c \in Cmd, pc'[c] = "done", request'[c].op = "stop", code'[c] = 0,
                    NEW i \in DOMAIN request'[c].targets
             PROVE  /\ \E e \in listed'[c] : Means(request'[c].targets[i], e)
                    /\ \A e \in listed'[c] : Means(request'[c].targets[i], e) =>
                         ~Alive(e.pid)' /\ e \notin files'
  BY DEF StopExitHonest, Exited, Means
<1>3. CASE Locals(c)' = Locals(c)
  <2>1. UNCHANGED <<request[c], pc[c], code[c], listed[c]>>
    BY <1>3 DEF Locals
  <2>2. /\ \E e \in listed[c] : Means(request[c].targets[i], e)
        /\ \A e \in listed[c] : Means(request[c].targets[i], e) =>
             ~Alive(e.pid) /\ e \notin files
    BY <2>1 DEF ExitInv, StopExitHonest, Exited
  <2>3. listed[c] \subseteq registered
    BY <1>0
  <2> QED
    BY <1>1, <1>2, <2>1, <2>2, <2>3
<1>4. CASE StopEnd(c)
  <2>1. /\ pc[c] = "next" /\ jobs[c] = {} /\ args[c] = <<>>
        /\ UNCHANGED <<request, listed, files, status, root, code>>
    BY <1>4 DEF StopEnd, BatchDone, listVars, dirVars, procVars
  <2>2. StopWork(c) /\ Scanned(c)
    BY DEF ExitInv
  <2>3. /\ \E e \in found[c] : Means(request[c].targets[i], e)
        /\ \A e \in found[c] : Means(request[c].targets[i], e) =>
             e.pid \in handled[c] /\ e \notin files
    BY <2>1, <2>2 DEF StopWork, Working
  <2>4. \A e \in listed[c] : e \in found[c] \/ e \notin files
    BY <2>1, <2>2 DEF Scanned, Working
  <2>5. \A e \in registered : e \notin files => ~Alive(e.pid)
    BY DEF ExitInv, SignalInv, IInv, LiveLeaderRegistered
  <2>6. found[c] \subseteq listed[c] /\ listed[c] \subseteq registered
    BY <1>0, <2>2 DEF Scanned
  <2>7. \A e : Alive(e.pid)' <=> Alive(e.pid)
    BY <2>1 DEF Alive
  <2> QED
    BY <2>1, <2>3, <2>4, <2>5, <2>6, <2>7
<1>5. ~TidyEnd(c) /\ ~KillPlan(c)
  BY <1>0 DEF TidyEnd, KillPlan, InCommand
<1> QED
  BY <1>0, <1>3, <1>4, <1>5, DonePc DEF ExitInv, SignalInv

\* What exit code 0 of a kill that escalates says of one holder.
Ended(c, p) ==
    /\ ~Alive(p)
    /\ \A e \in listed[c] : e.pid = p =>
         e \notin files /\ \A q \in Group(p) : ~Signalable(q)

LEMMA KillExitPreserved ==
    ASSUME ExitInv, [Next]_vars
    PROVE  KillExitHonest'
<1> USE DEF TypeOK
<1>0. /\ TypeOK /\ ShellApart
      /\ \A c \in Cmd : InCommand(c) /\ TargetsBorn(c)
  BY DEF ExitInv, SignalInv, IInv
<1>1. \A e \in registered : e \notin files => e \notin files'
  BY DirectoryHistory DEF ExitInv, SignalInv
<1> SUFFICES ASSUME NEW c \in Cmd, pc'[c] = "done", request'[c].op = "kill", code'[c] = 0,
                    ~request'[c].dry, NEW p \in handled'[c]
             PROVE  /\ request'[c].signal = "none" => Ended(c, p)'
                    /\ request'[c].signal = "user" => Reached(p)'
  BY DEF KillExitHonest, Exited, Ended, Alive, Reached
<1>2. CASE Locals(c)' = Locals(c)
  <2>1. UNCHANGED <<request[c], pc[c], code[c], listed[c], handled[c]>>
    BY <1>2 DEF Locals
  <2>2. /\ request[c].signal = "none" => Ended(c, p)
        /\ request[c].signal = "user" => Reached(p)
    BY <2>1 DEF ExitInv, KillExitHonest, Exited, Ended, Alive, Reached
  <2>3. p \in Pid /\ Born(p) /\ listed[c] \subseteq registered
    BY <1>0, <2>1 DEF TargetsBorn
  <2>4. /\ ~Alive(p) => ~Alive(p)'
        /\ Reached(p) => Reached(p)'
    BY <1>0, <2>3, StepPersists, ReachedStays DEF Persists
  <2>5. ASSUME Ended(c, p), NEW e \in listed[c], e.pid = p
        PROVE  e \notin files' /\ \A q \in Group(p)' : ~Signalable(q)'
    <3>1. p \in Pids(registered)
      BY <2>3, <2>5 DEF Pids
    <3>2. e \notin files'
      BY <1>1, <2>3, <2>5 DEF Ended
    <3>3. \A q \in Group(p) : ~Signalable(q)
      BY <2>5 DEF Ended
    <3> QED
      BY <1>0, <3>1, <3>2, <3>3, GroupStaysDown DEF ExitInv, SignalInv
  <2> QED
    BY <2>1, <2>2, <2>4, <2>5 DEF Ended
<1>3. CASE TidyEnd(c)
  <2>1. /\ pc[c] = "tidy" /\ jobs[c] = {} /\ request[c].op = "kill" /\ code[c] = 0
        /\ UNCHANGED <<request, listed, found, handled, files, status, pgid, root>>
    BY <1>0, <1>3 DEF TidyEnd, InCommand, listVars, workVars, dirVars, procVars
  <2>2. KillWork(c) /\ OnceWork(c)
    BY DEF ExitInv
  <2>3. ASSUME request[c].signal = "none" PROVE Ended(c, p)'
    <3>1. Down(c, p) /\ \A e \in listed[c] : e.pid = p => e \in found[c] /\ e \notin files
      BY <2>1, <2>2, <2>3 DEF KillWork, Working, Waiting
    <3>2. Down(c, p)' /\ \A e \in listed[c] : e.pid = p => p \in Pids(found'[c])
      BY <2>1, <3>1, DownSame DEF Pids
    <3> QED
      BY <2>1, <3>1, <3>2 DEF Down, Ended
  <2>4. ASSUME request[c].signal = "user" PROVE Reached(p)'
    <3>1. Reached(p)
      BY <2>1, <2>2, <2>4 DEF OnceWork, Working
    <3> QED
      BY <1>0, <2>1, <3>1, ReachedStays DEF TargetsBorn
  <2> QED
    BY <2>1, <2>3, <2>4
<1>4. ~StopEnd(c)
  BY DEF StopEnd, BatchDone
<1> QED
  BY <1>0, <1>2, <1>3, <1>4, DonePc DEF ExitInv, SignalInv

LEMMA InitExitInv == Init => ExitInv
<1> SUFFICES ASSUME Init PROVE ExitInv
  OBVIOUS
<1>1. SignalInv
  BY InitSignalInv
<1> USE DEF Init, RegistryInit
<1>2. ASSUME NEW c \in Cmd PROVE Scanned(c) /\ StopWork(c) /\ KillWork(c) /\ OnceWork(c)
  BY DEF Scanned, StopWork, KillWork, OnceWork, Working, Waiting
<1> QED
  BY <1>1, <1>2 DEF ExitInv, StopExitHonest, KillExitHonest, Exited

LEMMA StepExitInv == ExitInv /\ [Next]_vars => ExitInv'
<1> SUFFICES ASSUME ExitInv, [Next]_vars PROVE ExitInv'
  OBVIOUS
<1>1. SignalInv'
  BY StepSignalInv DEF ExitInv
<1>2. ASSUME NEW c \in Cmd PROVE (Scanned(c) /\ StopWork(c) /\ KillWork(c) /\ OnceWork(c))'
  BY ScannedPreserved, StopWorkPreserved, KillWorkPreserved, OnceWorkPreserved DEF ExitInv
<1> QED
  BY <1>1, <1>2, StopExitPreserved, KillExitPreserved DEF ExitInv

\* Every reachable state satisfies the invariant the exit codes rest on.
THEOREM ExitsInductive == Spec => []ExitInv
<1>1. ExitInv /\ [Next]_vars => ExitInv'
  BY StepExitInv
<1> QED
  BY InitExitInv, <1>1, PTL DEF Spec

\* A stop that exits 0 has found a registration for each of its arguments, and
\* every process they named when it began is down and unregistered, whatever the
\* other invocations did to the same files meanwhile (registry.rs:264-320).
THEOREM StopTellsTheTruth == Spec => []StopExitHonest
<1>1. ExitInv => StopExitHonest
  BY DEF ExitInv
<1> QED
  BY <1>1, ExitsInductive, PTL

\* A kill that exits 0 leaves every holder it planned for down or another user's,
\* of deemo's own groups no member that could be signalled, and no pid file of
\* theirs; a kill -s that exits 0 has reached every holder that could still get the
\* signal (registry.rs:740-833).
THEOREM KillTellsTheTruth == Spec => []KillExitHonest
<1>1. ExitInv => KillExitHonest
  BY DEF ExitInv
<1> QED
  BY <1>1, ExitsInductive, PTL

\* A stop or a kill that has met a failure never returns to exit code 0, and kill
\* gets past its plan with 0 only if every port it was given has a holder in it
\* (registry.rs:264-320, 745-833).
THEOREM FailuresShow == Spec => FailureShows
<1>1. ASSUME SignalInv, [Next]_vars, NEW c \in Cmd, request[c].op \in {"stop", "kill"},
             pc[c] \notin {"idle", "done"}
      PROVE  \/ pc'[c] = pc[c] /\ code'[c] = code[c]
             \/ code'[c] # 0
             \/ KillPlan(c)
             \/ code'[c] = code[c] /\ (request[c].op = "kill" => pc[c] # "list")
  <2> USE DEF TypeOK, Goto, Fail
  <2>0. TypeOK /\ InStep(c) /\ InCommand(c)
    BY <1>1 DEF SignalInv, IInv
  <2>1. ~Start(c) /\ ~Finish(c) /\ (Abort(c) => code'[c] # 0)
    BY <1>1, <2>0 DEF Start, Finish, Abort
  <2>2. ~LaunchStep(c)
    BY <1>1, <2>0 DEF InStep, LaunchStep, Spawn, SpawnFails, RegisterChild, RegisterFails,
                      ForkPump, ForkFails, Hint
  <2>3. ASSUME ManageStep(c), ~KillPlan(c), code'[c] = 0
        PROVE  \/ pc'[c] = pc[c] /\ code'[c] = code[c]
               \/ code'[c] = code[c] /\ (request[c].op = "kill" => pc[c] # "list")
    <3>1. CASE List(c) \/ Sweep(c) \/ Ps(c)
      BY <1>1, <2>0, <3>1 DEF List, Sweep, Ps, Read
    <3>2. CASE StopBegin(c) \/ Select(c) \/ StopEnd(c) \/ NextHit(c) \/ UnlinkStopped(c)
      BY <2>0, <2>3, <3>2 DEF StopBegin, Select, StopEnd, NextHit, UnlinkStopped, BatchDone
    <3>3. CASE Term(c) \/ Stopped(c) \/ LastProbe(c) \/ Escalate(c) \/ Survived(c)
      BY <2>0, <2>3, <3>3 DEF Term, Stopped, LastProbe, Escalate, Survived
    <3>4. CASE KillBlind(c) \/ NextHolder(c) \/ NextOnce(c) \/ SignalOnce(c) \/ KillEnd(c)
               \/ Tidy(c) \/ TidyEnd(c)
      BY <2>0, <2>3, <3>4 DEF KillBlind, NextHolder, NextOnce, SignalOnce, KillEnd, Tidy,
                              TidyEnd, BatchDone
    <3> QED
      BY <2>3, <3>1, <3>2, <3>3, <3>4 DEF ManageStep
  <2>4. Locals(c)' = Locals(c) => pc'[c] = pc[c] /\ code'[c] = code[c]
    BY DEF Locals
  <2> QED
    BY <1>1, <2>0, <2>1, <2>2, <2>3, <2>4, OwnStepOrNone
<1>2. ASSUME SignalInv, NEW c \in Cmd, KillPlan(c), code'[c] = 0
      PROVE  /\ code[c] = 0
             /\ \A i \in DOMAIN request[c].ports :
                  \E p \in handled'[c] : request[c].ports[i] \in holds[p]
  <2> DEFINE ports == request[c].ports
             plan == UNION {Holders(ports, i) : i \in DOMAIN ports}
  <2>0. TypeOK
    BY <1>2 DEF SignalInv, IInv
  <2>1. /\ handled'[c] = plan
        /\ code'[c] = IF \E i \in DOMAIN ports : Holders(ports, i) = {} THEN 1 ELSE code[c]
    BY <1>2, <2>0 DEF KillPlan, TypeOK
  <2>2. ASSUME NEW i \in DOMAIN ports
        PROVE  \E p \in handled'[c] : ports[i] \in holds[p]
    <3>1. PICK p \in Holders(ports, i) : TRUE
      BY <1>2, <2>1
    <3> QED
      BY <2>1, <3>1 DEF Holders
  <2> QED
    BY <1>2, <2>1, <2>2
<1>3. SignalInv /\ [Next]_vars
        => [\A c \in Cmd :
              request[c].op \in {"stop", "kill"} /\ pc[c] \notin {"idle", "done"} =>
                /\ code[c] # 0 => code'[c] # 0
                /\ request[c].op = "kill" /\ pc[c] = "list" /\ pc'[c] # "list" /\ code'[c] = 0 =>
                     \A i \in DOMAIN request[c].ports :
                       \E p \in handled'[c] : request[c].ports[i] \in holds[p]]_vars
  BY <1>1, <1>2
<1> QED
  BY <1>3, SignalsInductive, PTL DEF Spec, FailureShows
=============================================================================
