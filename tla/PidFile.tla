------------------------------- MODULE PidFile -------------------------------
(***************************************************************************)
(* The pid files as text (register, parse_entry, list, sweep_dead and what *)
(* stop unlinks, src/src/registry.rs), below the level of Registry.tla: a  *)
(* file is written by a deemo that may be cut short or run out of disk,    *)
(* read by others at any moment in between, has lines of the command in it *)
(* if the command has any, and names a pid that the kernel will hand out   *)
(* again.                                                                  *)
(*                                                                         *)
(* A text is a sequence of <<key, value>>, one for each line.              *)
(***************************************************************************)
EXTENDS Integers, SequencesExt

CONSTANTS Pid,       \* process ids
          Number,    \* what a line may say instead of a pid, and parse: all of them
          Label,     \* labels
          Command,   \* commands: the lines in them after the first, <<>> for most
          Cmd,       \* deemo invocations that manage
          Births     \* bound: how often a pid is handed out

\* What a line can be: <<key, value>>, where the end of a value may be missing.
Line ==
    ({"label"} \X (Label \cup {"cut"}))
      \cup ({"cmd"} \X {"whole", "begin", "cut"})
      \cup ({"pid", "log", "other"} \X (Number \cup Label \cup {"cut"}))

\* The lines a command may have of its own.
Extra == {l \in Line : l[1] # "cmd"}

ASSUME PidFileAssumption ==
    /\ Pid \subseteq Number
    /\ "none" \notin Label
    /\ Command \subseteq Seq(Extra)
    /\ Births \in Nat

Name == Label \X Pid       \* <label>.<pid>.pid
Absent == << <<"no", "file">> >>

VARIABLES alive,    \* the pids that answer a probe
          births,   \* how often each pid has been handed out
          task,     \* the registration that is being written for a pid
          files,    \* the run directory: the text of each file
          pc,       \* where each invocation is
          want,     \* what it was asked for: a label to stop, or ps
          todo,     \* the files it has still to read
          found,    \* the entries it knows, with the history of when it read them
          known     \* history: the registrations there were when it began

procs == <<alive, births>>
calls == <<pc, want, todo, found, known>>
vars == <<procs, task, files, calls>>

NoTask == [label |-> "none", cmd |-> <<>>]

Init ==
    /\ alive = {} /\ births = [p \in Pid |-> 0]
    /\ task = [p \in Pid |-> NoTask]
    /\ files = [f \in Name |-> Absent]
    /\ pc = [c \in Cmd |-> "idle"] /\ want = [c \in Cmd |-> "ps"]
    /\ todo = [c \in Cmd |-> {}] /\ found = [c \in Cmd |-> {}] /\ known = [c \in Cmd |-> {}]

-----------------------------------------------------------------------------
(* The text.                                                               *)

\* All that matters of the command's first line is whether it is the last.
FirstLine(k) == IF k = <<>> THEN "whole" ELSE "begin"

Mut_LogEarly(label, p, k) ==
    << <<"log", label>>, <<"pid", p>>, <<"label", label>>, <<"cmd", FirstLine(k)>> >> \o k

\* The format string of register, but for started, which nothing depends on.  The
\* lines of a command become lines of the file.
Text(label, p, k) ==
    << <<"pid", p>>, <<"label", label>>, <<"cmd", FirstLine(k)>> >> \o k
      \o << <<"log", label>> >>

\* What may have reached the file so far: some lines, and of the next one nothing,
\* or part of its value.
Parts(text) ==
    UNION {{SubSeq(text, 1, n), Append(SubSeq(text, 1, n), <<text[n + 1][1], "cut">>)}
           : n \in 0..(Len(text) - 1)}

\* The value of the last line with that key.
Value(text, key) ==
    LET at == {i \in DOMAIN text : text[i][1] = key}
    IN  IF at = {} THEN "none" ELSE text[Max(at)][2]

\* A number that was cut is one as well.
IsNumber(v) == v \in Number \cup {"cut"}

Mut_Defaults(text) == text # <<>>

\* parse_entry gives an entry only when pid, label and log are all there.
Parses(text) ==
    /\ IsNumber(Value(text, "pid"))
    /\ Value(text, "label") # "none"
    /\ Value(text, "log") # "none"

-----------------------------------------------------------------------------
(* Processes, and the deemo that registers one.                            *)

\* deemo has spawned a daemon under a pid that is free, and is to register it.
Spawn(p, label, k) ==
    /\ p \notin alive /\ births[p] < Births /\ task[p] = NoTask
    /\ alive' = alive \cup {p}
    /\ births' = [births EXCEPT ![p] = @ + 1]
    /\ task' = [task EXCEPT ![p] = [label |-> label, cmd |-> k]]
    /\ UNCHANGED <<files, calls>>

\* Somebody else's process.
Stranger(p) ==
    /\ p \notin alive /\ births[p] < Births /\ task[p] = NoTask
    /\ alive' = alive \cup {p}
    /\ births' = [births EXCEPT ![p] = @ + 1]
    /\ UNCHANGED <<task, files, calls>>

Exit(p) ==
    /\ p \in alive
    /\ alive' = alive \ {p}
    /\ UNCHANGED <<births, task, files, calls>>

\* fs::write: the file is created, or truncated if the pid had one before.
CreateFile(p) ==
    /\ task[p] # NoTask
    /\ files' = [files EXCEPT ![<<task[p].label, p>>] = <<>>]
    /\ UNCHANGED <<procs, task, calls>>

\* Then it is filled, in one write or several; once full, it is registered.
FillFile(p) ==
    /\ task[p] # NoTask
    /\ LET f == <<task[p].label, p>>
           text == Text(task[p].label, p, task[p].cmd)
       IN  /\ files[f] # Absent
           /\ \/ /\ files' = [files EXCEPT ![f] = text]
                 /\ task' = [task EXCEPT ![p] = NoTask]
              \/ /\ files[f] = <<>>
                 /\ \E part \in Parts(text) : files' = [files EXCEPT ![f] = part]
                 /\ task' = task
    /\ UNCHANGED <<procs, calls>>

\* The disk is full, deemo is killed, or another invocation has unlinked the file.
RegisterFails(p) ==
    /\ task[p] # NoTask
    /\ task' = [task EXCEPT ![p] = NoTask]
    /\ UNCHANGED <<procs, files, calls>>

-----------------------------------------------------------------------------
(* The invocations that read and unlink: ps sweeps, stop also takes down.  *)

\* A registration that is complete, of a command of one line, and whose process runs.
Registered(f) ==
    /\ f[2] \in alive
    /\ files[f] = Text(f[1], f[2], <<>>)
    /\ task[f[2]] = NoTask

\* A history of births tells which process of that pid is meant.
Begin(c) ==
    /\ pc[c] = "idle"
    /\ pc' = [pc EXCEPT ![c] = "scan"]
    /\ \E w \in Label \cup {"ps"} : want' = [want EXCEPT ![c] = w]
    /\ todo' = [todo EXCEPT ![c] = {f \in Name : files[f] # Absent}]
    /\ known' = [known EXCEPT ![c] = {<<f, births[f[2]]>> : f \in {g \in Name : Registered(g)}}]
    /\ found' = [found EXCEPT ![c] = {}]
    /\ UNCHANGED <<procs, task, files>>

\* What is read, whether its pid answers the probe, and the history of when.
EntryOf(f) ==
    [file |-> f, pid |-> Value(files[f], "pid"), label |-> Value(files[f], "label"),
     cmd |-> Value(files[f], "cmd"), dead |-> Value(files[f], "pid") \notin alive,
     birth |-> births[f[2]]]

Mut_OneBadSpoilsAll(c, f) ==
    /\ pc[c] = "scan" /\ f \in todo[c]
    /\ found' = [found EXCEPT ![c] =
                   IF files[f] = Absent \/ ~Parses(files[f]) THEN {} ELSE @ \cup {EntryOf(f)}]
    /\ todo' = [todo EXCEPT ![c] = @ \ {f}]
    /\ UNCHANGED <<procs, task, files, pc, want, known>>

\* One file is read and its pid probed.  One that is gone or half there is skipped.
ReadFile(c, f) ==
    /\ pc[c] = "scan" /\ f \in todo[c]
    /\ found' = [found EXCEPT ![c] =
                   IF files[f] = Absent \/ ~Parses(files[f]) THEN @ ELSE @ \cup {EntryOf(f)}]
    /\ todo' = [todo EXCEPT ![c] = @ \ {f}]
    /\ UNCHANGED <<procs, task, files, pc, want, known>>

Scanned(c) ==
    /\ pc[c] = "scan" /\ todo[c] = {}
    /\ pc' = [pc EXCEPT ![c] = "act"]
    /\ UNCHANGED <<procs, task, files, want, todo, found, known>>

\* stop: a target it has selected does not answer, before or after its signals.
Terminated(c, e) ==
    /\ pc[c] = "act" /\ e \in found[c]
    /\ e.label = want[c] /\ ~e.dead /\ e.pid \notin alive
    /\ found' = [found EXCEPT ![c] = (@ \ {e}) \cup {[e EXCEPT !.dead = TRUE]}]
    /\ UNCHANGED <<procs, task, files, pc, want, todo, known>>

\* The file of what was seen dead is unlinked, whatever is in it by now.
RemoveFile(c, e) ==
    /\ pc[c] = "act" /\ e \in found[c]
    /\ e.dead
    /\ files' = [files EXCEPT ![e.file] = Absent]
    /\ found' = [found EXCEPT ![c] = @ \ {e}]
    /\ UNCHANGED <<procs, task, pc, want, todo, known>>

\* Done, or cut short.
End(c) ==
    /\ pc[c] # "idle"
    /\ pc' = [pc EXCEPT ![c] = "idle"]
    /\ want' = [want EXCEPT ![c] = "ps"]
    /\ todo' = [todo EXCEPT ![c] = {}]
    /\ found' = [found EXCEPT ![c] = {}]
    /\ known' = [known EXCEPT ![c] = {}]
    /\ UNCHANGED <<procs, task, files>>

Next ==
    \/ \E p \in Pid :
         \/ \E label \in Label, k \in Command : Spawn(p, label, k)
         \/ Stranger(p) \/ Exit(p)
         \/ CreateFile(p) \/ FillFile(p) \/ RegisterFails(p)
    \/ \E c \in Cmd :
         \/ Begin(c) \/ Scanned(c) \/ End(c)
         \/ \E f \in Name : ReadFile(c, f)
         \/ \E e \in found[c] : Terminated(c, e) \/ RemoveFile(c, e)

Spec == Init /\ [][Next]_vars

-----------------------------------------------------------------------------
(* Properties.                                                             *)

Entry == [file : Name, pid : Number \cup {"cut"}, label : Label \cup {"cut"},
          cmd : {"whole", "begin", "cut", "none"}, dead : BOOLEAN, birth : 0..Births]

\* Every variable keeps the kind of value the code's variable has: only a dead pid
\* is free, and a file that is there holds lines.
TypeOK ==
    /\ alive \subseteq Pid
    /\ births \in [Pid -> 0..Births] /\ \A p \in alive : births[p] > 0
    /\ task \in [Pid -> [label : Label, cmd : Command] \cup {NoTask}]
    /\ files \in [Name -> Seq(Line) \cup {Absent}]
    /\ pc \in [Cmd -> {"idle", "scan", "act"}]
    /\ want \in [Cmd -> Label \cup {"ps"}]
    /\ todo \in [Cmd -> SUBSET Name]
    /\ found \in [Cmd -> SUBSET Entry]
    /\ known \in [Cmd -> SUBSET (Name \X (0..Births))]

\* Whenever a file is read, in the middle of its registration or after one that
\* was cut short, what it yields is nothing, or the pid and the label it was
\* written for; unless the command has lines of its own (registry.rs:47, 55-83).
ReadRight ==
    \A c \in Cmd : \A e \in found[c] :
      e.cmd # "begin" => <<e.label, e.pid>> = e.file

\* Half-written files, other commands and reused pids notwithstanding, a daemon
\* that runs loses its registration only to an invocation that had read this file
\* when it was another's, before the kernel handed out the pid again or before it
\* was written over: the window the code accepts (registry.rs:87, 110-112, 447-451).
LostOnlyToReuse ==
    [][\A f \in Name : Registered(f) /\ files'[f] = Absent =>
         \E c \in Cmd : \E e \in found[c] :
           e.file = f /\ (e.birth # births[f[2]] \/ e.cmd = "begin")]_vars

\* What is registered and runs when a management command begins is among what it
\* works on, whatever else is in the directory (registry.rs:185-203), as long as
\* the file is there.
NotPassedOver ==
    \A c \in Cmd : pc[c] = "act" =>
      \A k \in known[c] :
        k[1][2] \in alive /\ births[k[1][2]] = k[2] /\ Registered(k[1]) =>
          \E e \in found[c] : e.file = k[1] /\ ~e.dead

-----------------------------------------------------------------------------
(* Why.                                                                    *)

\* A file is what one registration of that label and pid wrote, or has so far.
Written(f, k) == {Text(f[1], f[2], k)} \cup Parts(Text(f[1], f[2], k))

WrittenOnly == \A f \in Name : files[f] = Absent \/ \E k \in Command : files[f] \in Written(f, k)

\* What was seen dead is dead for good: its pid is free, or has been handed out again.
DeadForGood ==
    \A c \in Cmd : \A e \in found[c] :
      /\ e.birth <= births[e.file[2]]
      /\ e.dead /\ e.cmd # "begin" => e.file[2] \notin alive \/ e.birth # births[e.file[2]]

\* Of what was there when an invocation began, and still is, the file is to be read,
\* or an entry says that it runs; nobody writes it a second time.
StillThere(k) == births[k[1][2]] = k[2] /\ Registered(k[1])

Followed ==
    \A c \in Cmd :
      /\ pc[c] = "idle" => known[c] = {}
      /\ pc[c] # "scan" => todo[c] = {}
      /\ \A k \in known[c] :
           /\ k[2] <= births[k[1][2]]
           /\ k[2] = births[k[1][2]] => task[k[1][2]] = NoTask
           /\ StillThere(k) =>
                \/ k[1] \in todo[c]
                \/ \E e \in found[c] : e.file = k[1] /\ ~e.dead /\ e.pid = k[1][2]

\* What is in the files and what has been read of them (registry.rs:37-83, 185-203).
PidFileInv == TypeOK /\ WrittenOnly /\ ReadRight /\ DeadForGood /\ Followed
=============================================================================
