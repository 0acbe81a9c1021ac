------------------------------ MODULE Processes ------------------------------
(***************************************************************************)
(* The kernel's process table as deemo sees it through kill(2), killpg(2), *)
(* setsid(2) and /proc.  Nothing here is deemo's own code: it is modelled  *)
(* from how src/src/registry.rs and src/src/main.rs use those calls.       *)
(*                                                                         *)
(* Processes do as they please.  A process may exit at any moment, with or *)
(* without having been signalled, so ignoring SIGTERM, dying of it, and    *)
(* being slow to die of SIGKILL are all behaviours of the one action Exit. *)
(* What a signal does in the model is to be recorded in sig, which is what *)
(* the properties talk about and what keeps a process that was sent        *)
(* SIGKILL from doing anything but exit.                                   *)
(***************************************************************************)
EXTENDS Naturals, FiniteSets

CONSTANTS Pid,        \* process ids; one is used at most once per behaviour
          Shell,      \* the user's interactive shell, leader of its own group
          Port,       \* local ports
          MayElevate  \* pids that may become another user's (sudo, setuid)

ASSUME ProcessAssumption ==
    /\ Shell \in Pid
    /\ MayElevate \subseteq Pid \ {Shell}

VARIABLES status,   \* where each pid is in its life
          pgid,     \* process group of each pid
          root,     \* pids the user running deemo may not signal (EPERM)
          holds,    \* ports each pid has a socket on
          sig       \* history: signals deemo has delivered to each running pid

procVars == <<status, pgid, root, holds, sig>>

Signal == {"TERM", "KILL", "USER"}     \* USER: whatever kill -s names

ProcTypeOK ==
    /\ status \in [Pid -> {"unborn", "run", "zombie", "gone"}]
    /\ pgid \in [Pid -> Pid]
    /\ root \in SUBSET Pid
    /\ holds \in [Pid -> SUBSET Port]
    /\ sig \in [Pid -> SUBSET Signal]

ProcInit ==
    /\ status = [p \in Pid |-> IF p = Shell THEN "run" ELSE "unborn"]
    /\ pgid = [p \in Pid |-> p]
    /\ root = {}
    /\ holds = [p \in Pid |-> {}]
    /\ sig = [p \in Pid |-> {}]

-----------------------------------------------------------------------------
(* What a probe or a signal sees.                                          *)

\* An exited process keeps its pid, and its place in its group, until it is
\* reaped: kill(2) and killpg(2) find corpses.
Exists(p) == status[p] \in {"run", "zombie"}

\* kill(p, s) = 0 for every s, the probe 0 included.  ESRCH and EPERM are
\* the two ways it is not.
Signalable(p) == Exists(p) /\ p \notin root

Group(g) == {p \in Pid : Exists(p) /\ pgid[p] = g}

\* kill/killpg deliver to the processes of S that may be signalled.  A corpse
\* accepts any signal and none of them does anything.
Deliver(S, s) ==
    sig' = [p \in Pid |-> IF p \in S /\ Signalable(p) /\ status[p] = "run"
                            THEN sig[p] \cup {s}
                            ELSE sig[p]]

-----------------------------------------------------------------------------
(* What processes do on their own.                                         *)

\* A process with SIGKILL pending never returns to user space.
Active(p) == status[p] = "run" /\ "KILL" \notin sig[p]

\* A fresh process q: the group, the user and the open sockets are inherited.
Birth(q, group, user, ports) ==
    /\ status[q] = "unborn"
    /\ status' = [status EXCEPT ![q] = "run"]
    /\ pgid' = [pgid EXCEPT ![q] = group]
    /\ root' = IF user = "root" THEN root \cup {q} ELSE root
    /\ holds' = [holds EXCEPT ![q] = ports]
    /\ sig' = sig

Fork(p, q) ==
    /\ Active(p)
    /\ Birth(q, pgid[p], IF p \in root THEN "root" ELSE "user", holds[p])

\* setsid(2) by a group member: the double fork of a self-made daemon.
SetSid(p) ==
    /\ Active(p)
    /\ pgid[p] # p
    /\ pgid' = [pgid EXCEPT ![p] = p]
    /\ UNCHANGED <<status, root, holds, sig>>

\* exec of a set-user-id program such as sudo.
Elevate(p) ==
    /\ Active(p)
    /\ p \in MayElevate \ root
    /\ root' = root \cup {p}
    /\ UNCHANGED <<status, pgid, holds, sig>>

Bind(p, port) ==
    /\ Active(p)
    /\ p # Shell
    /\ \A q \in Pid : port \notin holds[q]
    /\ holds' = [holds EXCEPT ![p] = @ \cup {port}]
    /\ UNCHANGED <<status, pgid, root, sig>>

\* It closes the socket, and goes on.
Release(p, port) ==
    /\ Active(p)
    /\ port \in holds[p]
    /\ holds' = [holds EXCEPT ![p] = @ \ {port}]
    /\ UNCHANGED <<status, pgid, root, sig>>

\* What is left of it holds no sockets.
Exit(p) ==
    /\ p # Shell
    /\ status[p] = "run"
    /\ status' = [status EXCEPT ![p] = "zombie"]
    /\ sig' = [sig EXCEPT ![p] = {}]
    /\ holds' = [holds EXCEPT ![p] = {}]
    /\ UNCHANGED <<pgid, root>>

\* The parent (init, once deemo has exited) collects the corpse, and the table
\* entry is as good as new.
Reap(p) ==
    /\ status[p] = "zombie"
    /\ status' = [status EXCEPT ![p] = "gone"]
    /\ pgid' = [pgid EXCEPT ![p] = p]
    /\ root' = root \ {p}
    /\ UNCHANGED <<holds, sig>>
=============================================================================
