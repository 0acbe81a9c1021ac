-------------------------------- MODULE Deemo --------------------------------
(***************************************************************************)
(* The whole of the unix process side: any number of deemo invocations,    *)
(* the pumps they leave behind, and the processes, all interleaved.        *)
(***************************************************************************)
EXTENDS Launch

vars == <<procVars, dirVars, request, pc, code, listVars, workVars, launchVars>>

Init ==
    /\ ProcInit
    /\ RegistryInit
    /\ ManageInit
    /\ LaunchInit

-----------------------------------------------------------------------------
(* Invocations come and go.                                                *)

Managing(r) == r.op \in {"ps", "stop", "kill"}

\* An unknown -s is a usage error before anything is read.
BadSignal(r) == r.op = "kill" /\ r.signal = "bad"

FirstStep(r) ==
    CASE BadSignal(r) -> "done"
      [] Managing(r) /\ ~BadSignal(r) -> "list"
      [] r.op = "detach" -> "spawn"
      [] r.op = "pipe" -> "fork"

\* A user runs deemo.  The management commands begin by opening the directory.
Start(c) ==
    /\ pc[c] = "idle"
    /\ \E r \in Requests :
         /\ request' = [request EXCEPT ![c] = r]
         /\ pc' = [pc EXCEPT ![c] = FirstStep(r)]
         /\ code' = [code EXCEPT ![c] = IF BadSignal(r) THEN 2 ELSE 0]
         /\ LET names == IF FirstStep(r) = "list" THEN files ELSE {}
            IN  /\ listed' = [listed EXCEPT ![c] = names]
                /\ todo' = [todo EXCEPT ![c] = names]
    /\ UNCHANGED <<procVars, dirVars, found, dead, workVars, launchVars>>

Forget(c) ==
    /\ listed' = [listed EXCEPT ![c] = {}]
    /\ todo' = [todo EXCEPT ![c] = {}]
    /\ found' = [found EXCEPT ![c] = {}]
    /\ dead' = [dead EXCEPT ![c] = {}]
    /\ args' = [args EXCEPT ![c] = <<>>]
    /\ jobs' = [jobs EXCEPT ![c] = {}]
    /\ handled' = [handled EXCEPT ![c] = {}]
    /\ cur' = [cur EXCEPT ![c] = NoPid]

\* Ctrl-C, a closed terminal or kill -9: nothing installs a handler in these
\* modes, so the invocation may be gone between any two of its steps.
Abort(c) ==
    /\ pc[c] \notin {"idle", "done"}
    /\ Goto(c, "done")
    /\ Fail(c, 130)
    /\ Forget(c)
    /\ UNCHANGED <<procVars, dirVars, request, launchVars>>

\* The process has exited, and the slot is free for another.
Finish(c) ==
    /\ pc[c] = "done"
    /\ Goto(c, "idle")
    /\ Fail(c, 0)
    /\ request' = [request EXCEPT ![c] = NoRequest]
    /\ Forget(c)
    /\ UNCHANGED <<procVars, dirVars, launchVars>>

\* Everything else that runs.  A pump does nothing but pump, until it exits.
Environment ==
    /\ \/ \E p, q \in Pid : stage[p] = "none" /\ Fork(p, q)
       \/ \E p \in Pid, port \in Port : stage[p] = "none" /\ (Bind(p, port) \/ Release(p, port))
       \/ \E p \in Pid : stage[p] = "none" /\ (SetSid(p) \/ Elevate(p))
       \/ \E p \in Pid : Exit(p)
       \/ \E p \in Pid : Reap(p)
    /\ UNCHANGED <<dirVars, request, pc, code, listVars, workVars, launchVars>>

Run(c) == (ManageStep(c) /\ UNCHANGED launchVars) \/ LaunchStep(c) \/ Finish(c)

Next ==
    \/ \E c \in Cmd : Start(c) \/ Run(c) \/ Abort(c)
    \/ \E q \in Pid : PumpStep(q)
    \/ Environment

Spec == Init /\ [][Next]_vars

-----------------------------------------------------------------------------
(* Fairness.  An invocation that has started is scheduled: none of its     *)
(* steps waits for anybody, because both grace periods end at a deadline.  *)
(* The kernel ends a process it has been told to kill.  Nobody has to exit *)
(* of his own accord, be reaped, or run deemo.                             *)

Dies(p) == Exit(p) /\ "KILL" \in sig[p]
               /\ UNCHANGED <<dirVars, request, pc, code, listVars, workVars, launchVars>>

Fairness ==
    /\ \A c \in Cmd : WF_vars(Run(c))
    /\ \A p \in Pid : WF_vars(Dies(p))

FairSpec == Spec /\ Fairness

-----------------------------------------------------------------------------
(* Types.                                                                  *)

Pc == {"idle", "list", "next", "term", "grace", "escalate", "killgrace", "unlink", "once",
       "tidy", "spawn", "register", "fork", "hint", "done"}

\* Every variable keeps the kind of value the code's variable has; a pid file
\* in the directory is one that was written.
TypeOK ==
    /\ ProcTypeOK
    /\ registered \in SUBSET Entry
    /\ files \in SUBSET registered
    /\ hinted \in SUBSET Entry
    /\ request \in [Cmd -> Requests \cup {NoRequest}]
    /\ pc \in [Cmd -> Pc]
    /\ code \in [Cmd -> {0, 1, 2, 127, 130}]
    /\ listed \in [Cmd -> SUBSET registered]
    /\ todo \in [Cmd -> SUBSET registered]
    /\ found \in [Cmd -> SUBSET registered]
    /\ dead \in [Cmd -> SUBSET registered]
    /\ args \in [Cmd -> Seq(Label)]
    /\ jobs \in [Cmd -> SUBSET Pid]
    /\ handled \in [Cmd -> SUBSET Pid]
    /\ cur \in [Cmd -> Pid \cup {NoPid}]
    /\ stage \in [Pid -> {"none", "forked", "session", "pumping"}]
    /\ pumpLog \in SUBSET Entry

-----------------------------------------------------------------------------
(* Safety.                                                                 *)

\* No sweep, stop or kill, however they overlap and wherever they are cut
\* short, costs a running process its registration ("only Dead may be swept",
\* registry.rs:87): as long as the leader can be signalled, its file is there.
LiveLeaderRegistered == \A e \in registered : Alive(e.pid) => e \in files

\* killpg on a registered pid never reaches the user's shell or anybody else's
\* group: what is registered leads a group, and the pid never named another
\* (registry.rs:3-9).
SessionLeaders ==
    \A e \in registered :
      /\ pgid[e.pid] = e.pid
      /\ \A f \in registered : f.pid = e.pid => f = e

\* What an argument of stop means to who typed it: "a number is a pid, anything
\* else a label" (registry.rs:234).
Means(raw, e) ==
    \/ NumberOf[raw] \in Pid /\ NumberOf[raw] = e.pid
    \/ NumberOf[raw] = NoPid /\ raw = e.label

\* Request r names the registration e.
Names(r, e) == \E i \in DOMAIN r.targets : Means(r.targets[i], e)

\* What the command line of c, of which P are the pids it has planned for,
\* entitles deemo to signal: for stop, the groups its arguments name; for kill,
\* who is in the plan, alone, or with its group if deemo started it.
MayHit(c, P, p) ==
    LET r == request[c]
    IN  \/ r.op = "stop" /\ \E e \in registered : pgid[p] = e.pid /\ Names(r, e)
        \/ /\ r.op = "kill" /\ ~r.dry
           /\ p \in P \/ \E e \in registered : pgid[p] = e.pid /\ e.pid \in P

\* A signal reaches only processes that a command line running at that moment
\* asks for: never a bystander in the shell's group, never for ps, --dry-run
\* or a usage error; and kill plans only for who has a socket on a port it was
\* given when it looks (registry.rs:8-9, 322-331, 764-775).
NoBystander ==
    [][/\ \A p \in Pid : sig'[p] \ sig[p] # {} =>
            \E c \in Cmd : pc[c] \notin {"idle", "done"} /\ MayHit(c, handled[c], p)
       /\ \A c \in Cmd : request[c].op = "kill" =>
            \A p \in handled'[c] \ handled[c] :
              \E i \in DOMAIN request[c].ports : request[c].ports[i] \in holds[p]]_vars

\* SIGKILL comes from an escalation only: never out of kill -s, and to the pid
\* that was asked for never without a SIGTERM and the grace period first
\* (registry.rs:344-361, 415-424).  A group member may have been forked since.
NoKillUnasked ==
    [][\A p \in Pid : "KILL" \in sig'[p] \ sig[p] =>
         \E c \in Cmd :
           /\ pc[c] = "escalate"
           /\ p \in Victims(c)
           /\ request[c].op = "kill" => request[c].signal = "none"
           /\ p = cur[c] => "TERM" \in sig[p]]_vars

\* Nothing that went wrong is forgotten on the way to the exit code, whatever
\* else went right: a stop or kill that has failed stays failed, and a kill that
\* can still exit 0 has found a holder for each port it was given
\* (registry.rs:264-320, 745-833).
FailureShows ==
    [][\A c \in Cmd : request[c].op \in {"stop", "kill"} /\ pc[c] \notin {"idle", "done"} =>
         /\ code[c] # 0 => code'[c] # 0
         /\ request[c].op = "kill" /\ pc[c] = "list" /\ pc'[c] # "list" /\ code'[c] = 0 =>
              \A i \in DOMAIN request[c].ports :
                \E p \in handled'[c] : request[c].ports[i] \in holds[p]]_vars

\* When deemo gives a group its last second, nobody in it has slipped past
\* SIGKILL, whatever was forked during the five seconds before
\* (registry.rs:355-357, 368-369).
NobodySlipsPastKill ==
    \A c \in Cmd : pc[c] = "killgrace" /\ IsGroup(c) =>
      \A p \in Victims(c) : Signalable(p) /\ status[p] = "run" => "KILL" \in sig[p]

Exited(c, op, n) == pc[c] = "done" /\ request[c].op = op /\ code[c] = n

\* stop exits 0 only if each argument named a registration and every process
\* they named when it began can no longer be signalled and is unregistered, even
\* when another stop, ps or kill was at work on the same files
\* (registry.rs:264-320).  StoppedIsDown says what that leaves open.
StopExitHonest ==
    \A c \in Cmd : Exited(c, "stop", 0) =>
      \A i \in DOMAIN request[c].targets :
        /\ \E e \in listed[c] : Means(request[c].targets[i], e)
        /\ \A e \in listed[c] : Means(request[c].targets[i], e) =>
             ~Alive(e.pid) /\ e \notin files

\* kill exits 0 only if every holder it planned for has exited, or has become
\* another user's, which its probe takes for the same thing (StoppedIsDown); if
\* in the groups that were deemo's nobody can be signalled any more, and their
\* registrations are dropped.  kill -s exits 0 only if the signal has reached
\* every holder that could still get it (registry.rs:740-833).
KillExitHonest ==
    \A c \in Cmd : Exited(c, "kill", 0) /\ ~request[c].dry =>
      \A p \in handled[c] :
        /\ request[c].signal = "none" =>
             /\ status[p] = "run" => p \in root
             /\ \A e \in listed[c] : e.pid = p =>
                  e \notin files /\ \A q \in Group(p) : ~Signalable(q)
        /\ request[c].signal = "user" /\ status[p] = "run" /\ p \notin root =>
             "USER" \in sig[p]

-----------------------------------------------------------------------------
(* Why the registrations are safe, as an inductive invariant.              *)

Born(p) == status[p] # "unborn"

\* A port is held by who runs: that is how kill's plan is of the born.
SocketsOpen == \A p \in Pid : holds[p] # {} => status[p] = "run"

\* Each invocation is at a step of the command it was given, and has a target
\* where that step needs one.
InStep(c) ==
    /\ pc[c] \in {"spawn", "register", "fork", "hint"} =>
         request[c].op \in {"detach", "pipe"}
    /\ pc[c] \in {"term", "grace", "escalate", "killgrace", "unlink", "once",
                  "register", "hint"} =>
         cur[c] \in Pid

\* Whoever an invocation deals with, or is still to deal with, has existed.
TargetsBorn(c) ==
    /\ \A p \in jobs[c] \cup handled[c] : Born(p)
    /\ cur[c] \in Pid => Born(cur[c])

\* What a command is about to unlink has been seen dead, and the dead do not
\* come back: their pids are not handed out again.
SeenDead(c) ==
    /\ \A e \in dead[c] : ~Alive(e.pid)
    /\ pc[c] = "unlink" => ~Alive(cur[c])

\* The pid a detach is about to register leads its own group, and nobody else
\* registers it.
DetachOwns(c) ==
    pc[c] = "register" =>
      /\ stage[cur[c]] = "none"
      /\ pgid[cur[c]] = cur[c]
      /\ cur[c] \notin Pids(registered)
      /\ \A d \in Cmd \ {c} : pc[d] = "register" => cur[d] # cur[c]

\* A pump registers itself once, after setsid.
PumpOwns(p) ==
    /\ stage[p] # "none" => Born(p)
    /\ stage[p] = "session" => pgid[p] = p
    /\ p \in Pids(pumpLog) => stage[p] # "none"
    /\ stage[p] \in {"forked", "session"} => p \notin Pids(registered)

\* What every invocation and the directory rely on between any two steps, whoever's
\* they are (registry.rs:37-53, 185-203, 447-463).
IInv ==
    /\ TypeOK
    /\ \A c \in Cmd : InStep(c) /\ TargetsBorn(c) /\ SeenDead(c) /\ DetachOwns(c)
    /\ \A p \in Pid : PumpOwns(p)
    /\ \A e \in registered : Born(e.pid)
    /\ SocketsOpen
    /\ SessionLeaders
    /\ LiveLeaderRegistered

-----------------------------------------------------------------------------
(* Why signals and exit codes are right: what the properties above rest on, *)
(* one fact about an invocation each.                                       *)

\* Nobody deemo deals with is the shell, whose group the shell never leaves.
ShellApart ==
    /\ status[Shell] = "run" /\ pgid[Shell] = Shell /\ stage[Shell] = "none"
    /\ Shell \notin Pids(registered)
    /\ \A c \in Cmd : pc[c] = "register" => cur[c] # Shell

Waiting(c) == pc[c] \in {"term", "grace", "escalate", "killgrace"}
Working(c) == Waiting(c) \/ pc[c] \in {"next", "unlink", "once", "tidy"}

\* The steps that signal or unlink belong to a stop, or to a kill that is neither
\* a dry run nor a usage error; escalation is not for kill -s.
InCommand(c) ==
    LET r == request[c]
    IN  /\ pc[c] = "list" => r.op \in {"ps", "stop", "kill"}
        /\ Working(c) => r.op \in {"stop", "kill"}
        /\ pc[c] = "unlink" => r.op = "stop"
        /\ pc[c] \in {"once", "tidy"} => r.op = "kill"
        /\ pc[c] = "once" => r.signal = "user"
        /\ Working(c) /\ r.op = "kill" => ~r.dry
        /\ Waiting(c) /\ r.op = "kill" => r.signal = "none"

\* An invocation has no target before it has read the directory, and forgets it
\* all before its slot is used again.
Fresh(c) ==
    /\ pc[c] \in {"idle", "list", "spawn", "fork"} =>
         args[c] = <<>> /\ jobs[c] = {} /\ handled[c] = {} /\ cur[c] = NoPid
    /\ pc[c] = "idle" =>
         listed[c] = {} /\ todo[c] = {} /\ found[c] = {} /\ dead[c] = {}

Targets(c) == {p \in Pid : p \in jobs[c] \/ p \in handled[c] \/ p = cur[c]}

\* Every target of stop was asked for, and every target of kill is in its plan.
Asked(c) ==
    LET r == request[c]
    IN  /\ r.op = "stop" =>
             /\ \A j \in DOMAIN args[c] : \E i \in DOMAIN r.targets : args[c][j] = r.targets[i]
             /\ \A p \in Targets(c) : \E e \in registered : e.pid = p /\ Names(r, e)
        /\ r.op = "kill" => Targets(c) \subseteq handled[c]

\* SIGTERM has reached the target itself, if anything can.
Warned(c) ==
    pc[c] \in {"grace", "escalate"} /\ status[cur[c]] = "run" /\ cur[c] \notin root =>
      "TERM" \in sig[cur[c]]

\* Whom an invocation deals with, and whom its signals have reached (registry.rs:344-385).
SignalInv ==
    /\ IInv
    /\ ShellApart
    /\ \A c \in Cmd : InCommand(c) /\ Fresh(c) /\ Asked(c) /\ Warned(c)
    /\ NobodySlipsPastKill

\* What was in the directory when it was opened is accounted for: not read yet,
\* found, dead, or unlinked by somebody.
Scanned(c) ==
    /\ todo[c] \cup found[c] \cup dead[c] \subseteq listed[c]
    /\ \A e \in listed[c] : e \in todo[c] \cup found[c] \cup dead[c] \/ e \notin files
    /\ Working(c) => todo[c] = {} /\ (request[c].op = "stop" => dead[c] = {})

\* While stop has nothing to complain of, each argument is still to be looked at,
\* or it selected something, all of which is among the targets; and those it has
\* dealt with are unregistered.
StopWork(c) ==
    request[c].op = "stop" /\ Working(c) =>
      /\ Waiting(c) \/ pc[c] = "unlink" => cur[c] \in handled[c]
      /\ code[c] = 0 =>
           /\ \A i \in DOMAIN request[c].targets :
                \/ \E j \in DOMAIN args[c] : args[c][j] = request[c].targets[i]
                \/ /\ \E e \in found[c] : Means(request[c].targets[i], e)
                   /\ \A e \in found[c] : Means(request[c].targets[i], e) =>
                        e.pid \in jobs[c] \cup handled[c]
           /\ \A e \in found[c] :
                e.pid \in handled[c] => e \notin files \/ (pc[c] # "next" /\ e.pid = cur[c])

\* p is down and, if it was deemo's, its group with it.
Down(c, p) ==
    /\ ~Alive(p)
    /\ p \in Pids(found[c]) => \A q \in Group(p) : ~Signalable(q)

\* A kill that escalates plans for whoever it found alive, and while it has
\* nothing to complain of, whoever is neither waiting his turn nor being waited for
\* is down; housekeeping unregisters them one by one.
KillWork(c) ==
    request[c].op = "kill" /\ request[c].signal = "none" /\ Working(c) =>
      /\ \A e \in listed[c] : e.pid \in handled[c] => e \in found[c]
      /\ code[c] = 0 =>
           /\ \A p \in handled[c] :
                Down(c, p) \/ (pc[c] # "tidy" /\ p \in jobs[c]) \/ (Waiting(c) /\ p = cur[c])
           /\ pc[c] = "tidy" =>
                \A e \in found[c] : e.pid \in handled[c] \ jobs[c] => e \notin files

\* p has had the signal of kill -s, if it can still get one.
Reached(p) == status[p] = "run" /\ p \notin root => "USER" \in sig[p]

\* While kill -s has nothing to complain of, whoever is neither waiting his turn
\* nor about to be signalled has been reached.
OnceWork(c) ==
    request[c].op = "kill" /\ request[c].signal = "user" /\ Working(c) /\ code[c] = 0 =>
      \A p \in handled[c] :
        Reached(p) \/ (pc[c] # "tidy" /\ p \in jobs[c]) \/ (pc[c] = "once" /\ p = cur[c])

\* What an invocation has done so far, and what it may still report (registry.rs:264-320,
\* 740-833).
ExitInv ==
    /\ SignalInv
    /\ \A c \in Cmd : Scanned(c) /\ StopWork(c) /\ KillWork(c) /\ OnceWork(c)
    /\ StopExitHonest
    /\ KillExitHonest

-----------------------------------------------------------------------------
(* The abstract specification.                                             *)

Life(e) ==
    IF e \notin registered THEN "none"
    ELSE IF e \notin files THEN "dropped"
    ELSE IF Alive(e.pid) THEN "live" ELSE "stale"

Registry_ == INSTANCE Registrations WITH life <- [e \in Entry |-> Life(e)]

\* The run directory keeps the promise of Registrations.tla.
Promise == Registry_!LifeSpec

-----------------------------------------------------------------------------
(* Liveness, under FairSpec.                                               *)

\* No invocation hangs on a target that does not die (registry.rs:388-403).
CommandsFinish == \A c \in Cmd : pc[c] # "idle" ~> pc[c] = "idle"

\* A group member that stop is waiting for is not left running: it exits, or
\* leaves the group, or becomes another user's, unless the command is cut short
\* (registry.rs:347-361).
StopIsFinal ==
    \A c \in Cmd, g, p \in Pid :
      (pc[c] = "grace" /\ IsGroup(c) /\ cur[c] = g /\ pgid[p] = g /\ Alive(p))
        ~> (~Alive(p) \/ pgid[p] # g \/ code[c] = 130)

-----------------------------------------------------------------------------
(* Statements of the documentation that the code does not keep.            *)

\* DESIGN.md:17: the pid file is removed only after the group is gone.
FileOutlivesGroup ==
    \A e \in registered :
      (\E p \in Group(e.pid) : Alive(p)) => e \in files

\* registry.rs:213 and 349, DESIGN.md:17: who cannot be signalled (EPERM) is a
\* survivor, given up honestly; "stopped" means that nobody in the target runs.
StoppedIsDown ==
    [][\A c \in Cmd : Stopped(c) => \A p \in Victims(c) : status[p] # "run"]_vars

\* main.rs:268: a hint is printed only when a pid file was registered to
\* answer it.
HintRegistered == hinted \subseteq registered
=============================================================================
