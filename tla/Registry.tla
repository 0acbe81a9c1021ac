------------------------------ MODULE Registry ------------------------------
(***************************************************************************)
(* The run directory $DEEMO_HOME/run and the pass every management command *)
(* makes over it before doing anything else (src/src/registry.rs).  There  *)
(* is no lock and no daemon: the directory is the only thing concurrent    *)
(* invocations of deemo share, besides the processes themselves.           *)
(*                                                                         *)
(* An invocation is a slot c \in Cmd, busy from Start to Finish and then   *)
(* free for the next one.  Its locals are functions on Cmd.                *)
(***************************************************************************)
EXTENDS Processes, Sequences

CONSTANTS Cmd,       \* deemo invocations that may run at the same time
          Label,     \* the labels, that is, the strings a user may type
          NumberOf,  \* NumberOf[l]: the pid l spells, or NoPid
          NoPid,
          Requests   \* the command lines users give (a subset of Request)

\* log: whether prepare_log gave a file.  It does not under --yolo, nor when
\* the file cannot be opened.
Request ==
         [op : {"ps"}]
    \cup [op : {"stop"}, targets : Seq(Label)]
    \cup [op : {"kill"}, ports : Seq(Port), dry : BOOLEAN,
          signal : {"none", "user", "bad"}]
    \cup [op : {"detach", "pipe"}, label : Label, log : BOOLEAN]

ASSUME RegistryAssumption ==
    /\ NoPid \notin Pid
    /\ NumberOf \in [Label -> Pid \cup {NoPid}]
    /\ Requests \subseteq Request

VARIABLES files,       \* the pid files in the run directory
          registered,  \* history: every pid file ever written
          hinted,      \* history: entries `stop with:` was printed for
          request,     \* the command line of each invocation
          pc,          \* where each invocation is
          code,        \* its exit code so far
          listed,      \* history: files when it opened the directory
          todo,        \* directory entries not read yet
          found,       \* entries read and not Dead
          dead         \* entries read and Dead

dirVars == <<files, registered, hinted>>
listVars == <<listed, todo, found, dead>>

\* The name <label>.<pid>.pid and the two keys that repeat it.  The other
\* keys (started, cmd, log) are only printed.
Entry == [label : Label, pid : Pid]

Pids(E) == {e.pid : e \in E}

NoRequest == [op |-> "ps"]

RegistryInit ==
    /\ files = {} /\ registered = {} /\ hinted = {}
    /\ request = [c \in Cmd |-> NoRequest]
    /\ pc = [c \in Cmd |-> "idle"]
    /\ code = [c \in Cmd |-> 0]
    /\ listed = [c \in Cmd |-> {}]
    /\ todo = [c \in Cmd |-> {}]
    /\ found = [c \in Cmd |-> {}]
    /\ dead = [c \in Cmd |-> {}]

-----------------------------------------------------------------------------
(* Liveness.                                                               *)

\* kill(pid, 0) = 0 and not a zombie.  Another user's process is refused the
\* probe, so it counts as dead.
Alive(p) == status[p] = "run" /\ p \notin root

-----------------------------------------------------------------------------
(* register and the scan.                                                  *)

\* fs::write can fail (no space, no permission, a label with a slash); then
\* the process runs on without a registration.
Register(e) ==
    /\ files' = files \cup {e}
    /\ registered' = registered \cup {e}

Unlink(E) ==
    /\ files' = files \ E
    /\ UNCHANGED <<registered, hinted>>

\* Read one pid file and probe its pid.  A file another invocation has
\* unlinked meanwhile cannot be read and yields no entry.
List(c) ==
    /\ pc[c] = "list"
    /\ \E e \in todo[c] :
         /\ todo' = [todo EXCEPT ![c] = @ \ {e}]
         /\ found' = [found EXCEPT ![c] =
                        IF e \in files /\ Alive(e.pid) THEN @ \cup {e} ELSE @]
         /\ dead' = [dead EXCEPT ![c] =
                        IF e \in files /\ ~Alive(e.pid) THEN @ \cup {e} ELSE @]
    /\ UNCHANGED <<request, pc, code, listed, dirVars>>

\* The whole directory has been read.
Read(c) == pc[c] = "list" /\ todo[c] = {}

Mut_SweepAll(c) ==
    /\ Read(c)
    /\ request[c].op \in {"ps", "stop"}
    /\ \E e \in dead[c] \cup found[c] :
         /\ dead' = [dead EXCEPT ![c] = @ \ {e}]
         /\ Unlink({e})
    /\ UNCHANGED <<request, pc, code, listed, todo, found>>

\* ps and stop delete what the scan found dead; kill leaves it alone.
Sweep(c) ==
    /\ Read(c)
    /\ request[c].op \in {"ps", "stop"}
    /\ \E e \in dead[c] :
         /\ dead' = [dead EXCEPT ![c] = @ \ {e}]
         /\ Unlink({e})
    /\ UNCHANGED <<request, pc, code, listed, todo, found>>

Swept(c) == Read(c) /\ dead[c] = {}

\* ps prints what is left, and exits 1 when that is nothing.
Ps(c) ==
    /\ Swept(c)
    /\ request[c].op = "ps"
    /\ pc' = [pc EXCEPT ![c] = "done"]
    /\ code' = [code EXCEPT ![c] = IF found[c] = {} THEN 1 ELSE 0]
    /\ UNCHANGED <<request, listVars, dirVars>>
=============================================================================
