------------------------------ MODULE Foreground ------------------------------
(***************************************************************************)
(* Foreground mode (supervise and Out in src/src/main.rs): deemo starts a  *)
(* child with stdout and stderr on pipes, one thread for each pipe sends   *)
(* whole lines into one unbounded channel, and the main thread writes them *)
(* to the log and to stdout and exits with the child's exit code.  Ctrl+C  *)
(* has its own thread, and the forwarding of it another one.               *)
(*                                                                         *)
(* What is written is <<s, i>>, the i-th write to stream s; a reader's own *)
(* buffer counts as part of the pipe it reads.                             *)
(***************************************************************************)
EXTENDS Outputs, SequencesExt

CONSTANTS Mode,      \* the ways this instance may have been started
          Status     \* the exit codes the child may choose

\* log: prepare_log gave one.  Bounds: the user may press Ctrl+C (keys), the child
\* may become another user's (sudo), how many writes there are on both streams.
ASSUME ForegroundAssumption ==
    /\ Mode \subseteq [quiet : BOOLEAN, log : BOOLEAN, keys : BOOLEAN, sudo : BOOLEAN,
                   writes : Nat]
    /\ Status \subseteq 0..255

Stream == {"out", "err"}

VARIABLES mode,         \* how this one was started
          sent,         \* for each stream, the writes: which of them end a line
          ends,         \* who holds the write end: the child, a process it left
          child,        \* "none", "run", "killed" (pending), "zombie" or "reaped"
          status,       \* how it ended
          told,         \* it has got a SIGINT
          foreign,      \* it is another user's: kill(2) says EPERM
          passed,       \* how much of a stream went into the channel
          ended,        \* the readers that have left their loop
          chan,         \* the channel
          line,         \* the last line received
          heard,        \* history: everything received
          childpid,     \* CHILD_PID is set
          interrupted,  \* INTERRUPTED
          handler,      \* the thread that handles Ctrl+C: "free", "look" or "gone"
          forward,      \* the thread that forwards it: "none", "waits" or "over"
          code          \* exit code

family == <<ends, child, status, told, foreign>>
outside == <<mode, sent, peers>>
readers == <<passed, ended>>
queue == <<chan, line, heard>>
ctrlc == <<childpid, interrupted, handler, forward>>
vars == <<outside, family, readers, queue, ctrlc, pc, logVars, outVars, code>>

Init ==
    /\ mode \in Mode
    /\ sent = [s \in Stream |-> <<>>]
    /\ ends = [s \in Stream |-> {}]
    /\ child = "none" /\ status = <<"exit", 0>> /\ told = FALSE /\ foreign = FALSE
    /\ passed = [s \in Stream |-> 0] /\ ended = {}
    /\ chan = <<>> /\ line = <<>> /\ heard = <<>>
    /\ childpid = FALSE /\ interrupted = FALSE /\ handler = "free" /\ forward = "none"
    /\ OutputsInit(mode.log)
    /\ pc = "announce" /\ code = 0

Running == pc \notin {"done", "crashed", "quit"}

-----------------------------------------------------------------------------
(* The child.                                                              *)

\* It ends: its ends of the pipes are closed.
Dies(how) ==
    /\ child' = "zombie"
    /\ status' = how
    /\ ends' = [s \in Stream |-> ends[s] \ {"child"}]
    /\ UNCHANGED <<told, foreign>>

\* SIGINT: it may have a handler, which is for the child to say.
Interrupt == told' = (told \/ child = "run") /\ UNCHANGED <<ends, child, status, foreign>>

-----------------------------------------------------------------------------
(* The start of supervise.                                                 *)

Announce ==
    /\ pc = "announce"
    /\ Say("spawn")
    /\ UNCHANGED <<outside, family, readers, queue, ctrlc, logVars, outVars, code>>

Spawn ==
    /\ pc = "spawn"
    /\ child' = "run"
    /\ ends' = [s \in Stream |-> {"child"}]
    /\ Goto("setpid")
    /\ UNCHANGED <<outside, status, told, foreign, readers, queue, ctrlc, logVars, outVars,
                   code>>

\* spawn_error: not found, or any other reason.
SpawnFails ==
    /\ pc = "spawn"
    /\ Say("leave")
    /\ code' \in {127, 1}
    /\ UNCHANGED <<outside, family, readers, queue, ctrlc, logVars, outVars>>

\* From here on Ctrl+C can be forwarded; then the readers are started.
SetPid ==
    /\ pc = "setpid"
    /\ childpid' = TRUE
    /\ Goto("recv")
    /\ UNCHANGED <<outside, family, readers, queue, interrupted, handler, forward,
                   logVars, outVars, code>>

-----------------------------------------------------------------------------
(* The readers.                                                            *)

\* No more will come: nobody has the write end open.
Eof(s) == ends[s] = {}

Mut_Fragments(s, n) == n \in (passed[s] + 1)..Len(sent[s])

\* What is read in one go: the writes to s from m + 1 to n.
Chunk(s, m, n) == [i \in 1..(n - m) |-> <<s, m + i>>]

\* read_until gives everything up to the end of a line, or of the stream.
LineEnds(s, n) ==
    /\ n \in (passed[s] + 1)..Len(sent[s])
    /\ \A i \in (passed[s] + 1)..(n - 1) : ~sent[s][i]
    /\ sent[s][n] \/ (Eof(s) /\ n = Len(sent[s]))

SendLine(s) ==
    /\ childpid /\ Running
    /\ \E n \in 1..Len(sent[s]) :
         /\ LineEnds(s, n)
         /\ chan' = Append(chan, Chunk(s, passed[s], n))
         /\ passed' = [passed EXCEPT ![s] = n]
    /\ UNCHANGED <<outside, family, ended, line, heard, ctrlc, pc, logVars, outVars, code>>

ReaderEnds(s) ==
    /\ childpid /\ Running /\ s \notin ended
    /\ Eof(s) /\ passed[s] = Len(sent[s])
    /\ ended' = ended \cup {s}
    /\ UNCHANGED <<outside, family, passed, queue, ctrlc, pc, logVars, outVars, code>>

-----------------------------------------------------------------------------
(* The loop of supervise: each line to the log, then to stdout; both are   *)
(* flushed before it blocks.                                               *)

\* try_recv, or recv once both are flushed.
Receive ==
    /\ pc \in {"recv", "block"}
    /\ chan # <<>>
    /\ line' = Head(chan)
    /\ chan' = Tail(chan)
    /\ heard' = heard \o Head(chan)
    /\ Goto("log")
    /\ UNCHANGED <<outside, family, readers, ctrlc, logVars, outVars, code>>

Mut_TxKept == FALSE

Mut_OneReaderLeft == chan = <<>> /\ ended # {}

\* The main thread has dropped its own sender, so the last reader to leave closes it.
Disconnected == chan = <<>> /\ ended = Stream

Finish ==
    /\ pc \in {"recv", "block"}
    /\ Disconnected
    /\ Goto("final")
    /\ UNCHANGED <<outside, family, readers, queue, ctrlc, logVars, outVars, code>>

Mut_DryNoFlush ==
    /\ pc = "recv"
    /\ chan = <<>> /\ ~Disconnected
    /\ Goto("block")
    /\ UNCHANGED <<outside, family, readers, queue, ctrlc, logVars, outVars, code>>

RanDry ==
    /\ pc = "recv"
    /\ chan = <<>> /\ ~Disconnected
    /\ Goto("flush")
    /\ UNCHANGED <<outside, family, readers, queue, ctrlc, logVars, outVars, code>>

WriteLog ==
    /\ pc = "log"
    /\ Log(line, FALSE, IF mode.quiet THEN "recv" ELSE "out")
    /\ UNCHANGED <<outside, family, readers, queue, ctrlc, outVars, code>>

WriteOut ==
    /\ pc = "out"
    /\ Put(line, FALSE, "recv", "epipe", "stdouterror")
    /\ UNCHANGED <<outside, family, readers, queue, ctrlc, logVars, code>>

FlushLog ==
    /\ pc = "flush"
    /\ Log(<<>>, TRUE, IF mode.quiet THEN "block" ELSE "flushout")
    /\ UNCHANGED <<outside, family, readers, queue, ctrlc, outVars, code>>

FlushOut ==
    /\ pc = "flushout"
    /\ Put(<<>>, TRUE, "block", "epipe", "stdouterror")
    /\ UNCHANGED <<outside, family, readers, queue, ctrlc, logVars, code>>

-----------------------------------------------------------------------------
(* stdout has failed in the loop: the child is sent SIGKILL, the log is    *)
(* flushed, and nobody waits for the child to die of it.                   *)

\* The error of child.kill() is discarded: a child of another user's lives on.
Killed == IF child = "run" /\ ~foreign THEN "killed" ELSE child

Mut_StopForgets ==
    /\ pc \in {"epipe", "stdouterror"}
    /\ child' = IF pc = "epipe" THEN Killed ELSE child
    /\ Goto(IF pc = "epipe" THEN "cut" ELSE "cutreport")
    /\ UNCHANGED <<outside, ends, status, told, foreign, readers, queue, ctrlc, logVars,
                   outVars, code>>

StopChild ==
    /\ pc \in {"epipe", "stdouterror"}
    /\ child' = Killed
    /\ Goto(IF pc = "epipe" THEN "cut" ELSE "cutreport")
    /\ UNCHANGED <<outside, ends, status, told, foreign, readers, queue, ctrlc, logVars,
                   outVars, code>>

CutLog ==
    /\ \/ pc = "cut" /\ code' = 0 /\ Log(<<>>, TRUE, "leave")
       \/ pc = "cutreport" /\ code' = 1 /\ Log(<<>>, TRUE, "report")
    /\ UNCHANGED <<outside, family, readers, queue, ctrlc, outVars>>

-----------------------------------------------------------------------------
(* Both streams are closed: flush, wait for the child, exit as it did.     *)

Final ==
    /\ pc = "final"
    /\ Log(<<>>, TRUE, IF mode.quiet THEN "wait" ELSE "finalout")
    /\ UNCHANGED <<outside, family, readers, queue, ctrlc, outVars, code>>

\* The child is left alone when this flush fails.
FinalOut ==
    /\ pc = "finalout"
    /\ Put(<<>>, TRUE, "wait", "leave", "report")
    /\ code' = IF pc' = "report" THEN 1 ELSE code
    /\ UNCHANGED <<outside, family, readers, queue, ctrlc, logVars>>

StatusCode(how) == IF how[1] = "exit" THEN how[2] ELSE 128 + how[2]

Wait ==
    /\ pc = "wait"
    /\ child = "zombie"
    /\ child' = "reaped"
    /\ code' = StatusCode(status)
    /\ Say("report")
    /\ UNCHANGED <<outside, ends, status, told, foreign, readers, queue, ctrlc, logVars,
                   outVars>>

\* SIGCHLD was ignored by whoever started deemo, say.
WaitFails ==
    /\ pc = "wait"
    /\ child = "zombie"
    /\ code' = 1
    /\ Say("report")
    /\ UNCHANGED <<outside, family, readers, queue, ctrlc, logVars, outVars>>

Report ==
    /\ pc = "report"
    /\ ReportLog("leave")
    /\ UNCHANGED <<outside, family, readers, queue, ctrlc, logVars, outVars, code>>

\* Out is dropped: stdout's buffer is flushed as far as it can be, then the log's.
DropOut ==
    /\ shown' = IF reader = "there" THEN shown \o outbuf ELSE shown
    /\ outbuf' = <<>>
    /\ DropSink

Leave ==
    /\ pc = "leave"
    /\ Goto("done")
    /\ DropOut
    /\ UNCHANGED <<outside, family, readers, queue, ctrlc, code>>

Unwind ==
    /\ pc = "panic"
    /\ Goto("crashed")
    /\ code' = 101
    /\ DropOut
    /\ UNCHANGED <<outside, family, readers, queue, ctrlc>>

-----------------------------------------------------------------------------
(* Ctrl+C, typed at the terminal (the child gets it too) or sent to deemo  *)
(* alone: the first press is announced and remembered, the second exits.   *)

Press ==
    /\ Running /\ mode.keys /\ handler = "free"
    /\ Interrupt \/ UNCHANGED family
    /\ \/ /\ ~interrupted
          /\ interrupted' = TRUE
          /\ handler' = IF stderr = "ok" THEN "look" ELSE "gone"
          /\ UNCHANGED <<pc, code>>
       \/ /\ interrupted
          /\ Goto("quit")
          /\ code' = 130
          /\ UNCHANGED <<interrupted, handler>>
    /\ UNCHANGED <<outside, readers, queue, childpid, forward, logVars, outVars>>

Look ==
    /\ Running /\ handler = "look"
    /\ handler' = "free"
    /\ forward' = IF childpid THEN "waits" ELSE forward
    /\ UNCHANGED <<outside, family, readers, queue, childpid, interrupted,
                   pc, logVars, outVars, code>>

Mut_ForwardNot ==
    /\ Running /\ forward = "waits"
    /\ forward' = "over"
    /\ IF child # "run" THEN Interrupt ELSE UNCHANGED family
    /\ UNCHANGED <<outside, readers, queue, childpid, interrupted, handler,
                   pc, logVars, outVars, code>>

\* After its 250 ms: a child that still answers the probe gets SIGINT from deemo.
Forward ==
    /\ Running /\ forward = "waits"
    /\ forward' = "over"
    /\ IF foreign THEN UNCHANGED family ELSE Interrupt
    /\ UNCHANGED <<outside, readers, queue, childpid, interrupted, handler,
                   pc, logVars, outVars, code>>

-----------------------------------------------------------------------------
(* The world outside, while deemo runs.                                    *)

Written == Len(sent["out"]) + Len(sent["err"])

\* A holder of the write end writes, closes it or ends; the child may leave a
\* process that has its streams, or run a program of another user's.
Others ==
    /\ Running
    /\ \/ /\ Written < mode.writes
          /\ \E s \in Stream, nl \in BOOLEAN :
               /\ ends[s] # {}
               /\ sent' = [sent EXCEPT ![s] = Append(@, nl)]
          /\ UNCHANGED <<family, peers>>
       \/ /\ \E s \in Stream, h \in {"child", "heir"} :
               ends' = [ends EXCEPT ![s] = @ \ {h}]
          /\ UNCHANGED <<child, status, told, foreign, sent, peers>>
       \/ /\ child = "run"
          /\ ends' = [s \in Stream |-> IF "child" \in ends[s] THEN ends[s] \cup {"heir"} ELSE ends[s]]
          /\ UNCHANGED <<child, status, told, foreign, sent, peers>>
       \/ /\ child = "run" /\ mode.sudo
          /\ foreign' = TRUE
          /\ UNCHANGED <<ends, child, status, told, sent, peers>>
       \/ /\ \/ child = "run" /\ \E n \in Status : Dies(<<"exit", n>>)
             \/ child = "run" /\ told /\ Dies(<<"signal", 2>>)
             \/ child = "killed" /\ Dies(<<"signal", 9>>)
          /\ UNCHANGED <<sent, peers>>
       \/ /\ peers = <<"there", "ok", "ok">>
          /\ ReaderLeaves \/ DiskFills \/ TerminalCloses
          /\ UNCHANGED <<family, sent>>
    /\ UNCHANGED <<mode, readers, queue, ctrlc, pc, logVars, outVars, code>>

\* A step of the main thread.
Step ==
    \/ Announce \/ Spawn \/ SpawnFails \/ SetPid
    \/ Receive \/ Finish \/ RanDry \/ WriteLog \/ WriteOut \/ FlushLog \/ FlushOut
    \/ StopChild \/ CutLog
    \/ Final \/ FinalOut \/ Wait \/ WaitFails \/ Report \/ Leave \/ Unwind

Read(s) == SendLine(s) \/ ReaderEnds(s)

Next ==
    \/ Step
    \/ \E s \in Stream : Read(s)
    \/ Press \/ Look \/ Forward
    \/ Others

Spec == Init /\ [][Next]_vars

\* Every thread is scheduled, and whoever reads stdout takes what is written or
\* leaves.  Nothing is asked of the child, of a process it left or of the user.
FairSpec ==
    /\ Spec
    /\ WF_vars(Step)
    /\ \A s \in Stream : WF_vars(Read(s))
    /\ WF_vars(Look) /\ WF_vars(Forward)

-----------------------------------------------------------------------------
(* Properties.                                                             *)

Item == Stream \X (Nat \ {0})

\* Every variable keeps the kind of value the code's variable has.
TypeOK ==
    /\ mode \in Mode /\ PeersOK
    /\ sent \in [Stream -> Seq(BOOLEAN)] /\ passed \in [Stream -> Nat]
    /\ \A s \in Stream : passed[s] <= Len(sent[s])
    /\ chan \in Seq(Seq(Item)) /\ {line, heard} \subseteq Seq(Item)
    /\ {logged, logbuf, shown, outbuf} \subseteq Seq(Item)
    /\ ends \in [Stream -> SUBSET {"child", "heir"}]
    /\ child \in {"none", "run", "killed", "zombie", "reaped"}
    /\ status \in ({"exit"} \X Status) \cup {<<"exit", 0>>, <<"signal", 2>>, <<"signal", 9>>}
    /\ ended \subseteq Stream
    /\ {told, foreign, childpid, interrupted} \subseteq BOOLEAN
    /\ handler \in {"free", "look", "gone"}
    /\ forward \in {"none", "waits", "over"}
    /\ pc \in {"announce", "spawn", "setpid", "recv", "log", "out", "flush", "flushout",
               "block", "epipe", "stdouterror", "cut", "cutreport", "final", "finalout",
               "wait", "report", "leave", "panic", "done", "crashed", "quit"}
    /\ code \in Status \cup {0, 1, 101, 127, 130, 137}

InLog == logged \o logbuf
InOut == shown \o outbuf

\* Each write comes once, after the one before it on its stream.
InOrder(all) ==
    \A j \in DOMAIN all :
      LET s == all[j][1]  n == all[j][2]
      IN  /\ \A i \in 1..(j - 1) : all[i][1] = s => all[i][2] < n
          /\ n > 1 => \E i \in 1..(j - 1) : all[i] = <<s, n - 1>>

\* This write ends its line, or its stream without a line end.
EndsLine(w) == sent[w[1]][w[2]] \/ (Eof(w[1]) /\ w[2] = Len(sent[w[1]]))

\* A write that does not end its line is followed by the next one of its stream.
Unsplit(all) ==
    \A i \in 1..(Len(all) - 1) :
      EndsLine(all[i]) \/ all[i + 1] = <<all[i][1], all[i][2] + 1>>

\* Whatever the two streams do, the log has each in its order with nothing
\* missing, and no line is split by the other stream, unless that line is the
\* unfinished last one of its stream (main.rs:363-364).
WholeLines == InOrder(InLog) /\ Unsplit(InLog)

\* Both streams are at their end, and all that was written has been received.
AllHeard ==
    /\ \A s \in Stream : Eof(s) /\ passed[s] = Len(sent[s])
    /\ Len(heard) = Written

\* When deemo exits by itself, all it took from the channel is in a log that still
\* works (main.rs:470, 480), and what it has not taken, a channel of lines that
\* were read already included, is given up only to a stdout that has failed: never
\* in quiet mode, whatever becomes of the terminal (main.rs:412-431).
\* The child's own exit code comes only with both streams at their end and all of
\* them passed on (main.rs:432-438).  And deemo leaves a child running that could
\* still write only where the kernel refuses to kill it (main.rs:416, 421).
ExitHonest ==
    pc = "done" =>
      /\ sink = "open" => logged = heard
      /\ child # "none" /\ (mode.quiet \/ reader = "there") => AllHeard
      /\ child = "reaped" =>
           /\ code = StatusCode(status)
           /\ AllHeard
           /\ mode.quiet \/ shown = heard
      /\ child = "run" => foreign \/ \A s \in Stream : Eof(s)

\* deemo ends when the child has and nobody holds its streams any more: not a
\* lost reader, a lost terminal or a full disk keeps it.
Finishes == (child = "zombie" /\ \A s \in Stream : Eof(s)) ~> ~Running

\* Every finished line is passed on without waiting for more, however late the
\* other stream is (main.rs:453): again and again, as there are only so many
\* writes, both destinations that still work have them all.
CaughtUp ==
    \A s \in Stream : \A n \in DOMAIN sent[s] :
      sent[s][n] => /\ sink = "open" => <<s, n>> \in ToSet(logged)
                    /\ mode.quiet \/ <<s, n>> \in ToSet(shown)
Delivered == []<>(CaughtUp \/ ~Running)

\* A first Ctrl+C that finds the child's pid reaches the child, even when it was
\* sent to deemo alone, unless the child is not deemo's to signal by then
\* (main.rs:137-140, 153).
Forwarded ==
    (handler = "look" /\ childpid) ~> (told \/ child # "run" \/ foreign \/ ~Running)

-----------------------------------------------------------------------------
(* The invariant that WholeLines and ExitHonest follow from.               *)

\* What has been received, if it is m[s] writes of each stream s: whole lines.
HeardUpTo(m) ==
    /\ Len(heard) = m["out"] + m["err"]
    /\ \A j \in DOMAIN heard : heard[j][2] <= m[heard[j][1]]
    /\ \A s \in Stream : \A n \in 1..m[s] : \E j \in DOMAIN heard : heard[j] = <<s, n>>
    /\ InOrder(heard) /\ Unsplit(heard)
    /\ heard # <<>> => EndsLine(heard[Len(heard)])

\* A line takes stream s from its write m[s] to n[s].
LineBetween(l, m, n) ==
    \E s \in Stream :
      /\ m[s] < n[s]
      /\ n = [m EXCEPT ![s] = n[s]]
      /\ l = Chunk(s, m[s], n[s])
      /\ EndsLine(<<s, n[s]>>)

\* A place in each stream.
Mark == {m \in [Stream -> 0..Written] : \A s \in Stream : m[s] <= Len(sent[s])}

\* What the readers have passed on is what has been received, and then, line by
\* line, the channel; marks[k] is how far each stream is before its k-th line.
Streams ==
    \E marks \in [1..(Len(chan) + 1) -> Mark] :
      /\ HeardUpTo(marks[1])
      /\ \A k \in DOMAIN chan : LineBetween(chan[k], marks[k], marks[k + 1])
      /\ marks[Len(chan) + 1] = passed

\* Before the readers are started there is nothing; until the spawn, no child.
Begun ==
    /\ pc \in {"announce", "spawn", "setpid"} => ~childpid
    /\ pc \in {"announce", "spawn"} => child = "none"
    /\ ~childpid => chan = <<>> /\ heard = <<>> /\ ended = {}

\* A reader that has ended has passed everything on, for good.
Closed == \A s \in ended : Eof(s) /\ passed[s] = Len(sent[s])

\* The loop has ended by itself, with no reader left; not because stdout failed.
LoopOver ==
    \/ pc \in {"final", "finalout", "wait"}
    \/ /\ pc \in {"report", "leave", "done"}
       /\ \/ child = "run" /\ ~foreign
          \/ child # "none" /\ (mode.quiet \/ reader = "there")
    \/ child = "reaped"

\* Then both have; why the loop is cut short; whose exit code is reported when.
Ending ==
    /\ LoopOver => ended = Stream /\ chan = <<>>
    /\ pc \in {"epipe", "stdouterror", "cut", "cutreport"} => ~mode.quiet /\ reader # "there"
    /\ pc \in {"cut", "cutreport"} /\ child = "run" => foreign
    /\ child = "reaped" =>
         /\ pc \in {"report", "leave", "done", "panic", "crashed", "quit"}
         /\ pc \in {"report", "leave", "done"} => code = StatusCode(status)

\* The log: a beginning of what was received, and all of it while the log works,
\* but for the line in hand.
LogHas ==
    /\ IsPrefix(InLog, heard)
    /\ sink = "open" /\ Running => heard = IF pc = "log" THEN InLog \o line ELSE InLog
    /\ sink = "open" /\ pc \in {"announce", "spawn", "setpid", "finalout", "wait", "report", "leave"} =>
         logbuf = <<>>
    /\ sink = "open" /\ pc = "done" => logged = heard

\* The same for stdout, until it fails.
OutHas ==
    /\ mode.quiet => pc \notin {"out", "flushout", "finalout"}
    /\ IsPrefix(InOut, heard)
    /\ ~mode.quiet =>
         /\ pc \in {"log", "out"} => heard = InOut \o line
         /\ pc \in {"recv", "flush", "flushout", "block", "final", "finalout"} => heard = InOut
         /\ pc = "wait" \/ child = "reaped" => heard = shown /\ outbuf = <<>>

\* What holds between any two steps of the five threads (main.rs:350-492).
ForegroundInv ==
    TypeOK /\ Streams /\ Begun /\ Closed /\ Ending /\ LogHas /\ OutHas

-----------------------------------------------------------------------------
\* What was heard is passed on in that order to both, whatever fails.
Promised == INSTANCE Tee
Tees == Promised!TeeSpec
=============================================================================
