-------------------------------- MODULE Pump --------------------------------
(***************************************************************************)
(* Pipe mode (pump_pipe and its helpers, src/src/main.rs): read a slab     *)
(* from stdin, write it to the log and to stdout, flush both, read again.  *)
(* Around it: writers that pause and go, a reader that leaves, a terminal  *)
(* that closes, a disk that fills up, Ctrl+C.                              *)
(*                                                                         *)
(* The stream is the numbers 1, 2, ..., one for each write upstream; a     *)
(* slab is whatever has arrived by the time of the read.                   *)
(***************************************************************************)
EXTENDS Outputs

CONSTANTS Mode,      \* the ways this instance may have been started
          MaxWrites  \* bound: how many times upstream writes

\* detached: it is the child of pipe --background.  log: prepare_log gave one.
ASSUME PumpAssumption ==
    /\ Mode \subseteq [detached : BOOLEAN, quiet : BOOLEAN, log : BOOLEAN]
    /\ MaxWrites \in Nat

VARIABLES mode,         \* how this one was started
          sent,         \* how much upstream has written
          closed,       \* every writer has closed its end
          taken,        \* how much has been read
          slab,         \* the last read
          dead,         \* passthrough_dead
          interrupted,  \* INTERRUPTED
          handler,      \* the thread that handles Ctrl+C is there
          code          \* exit code

world == <<mode, sent, closed, peers>>
flags == <<dead, interrupted, handler, code>>
vars == <<world, pc, taken, slab, logVars, outVars, flags>>

Upto(n) == [i \in 1..n |-> i]

Init ==
    /\ mode \in Mode
    /\ sent = 0 /\ closed = FALSE
    /\ OutputsInit(mode.log)
    /\ pc = "read" /\ taken = 0 /\ slab = <<>>
    /\ dead = FALSE /\ interrupted = FALSE /\ handler = TRUE /\ code = 0

-----------------------------------------------------------------------------
(* The loop of pump_pipe.                                                  *)

Slab(n) == SubSeq(Upto(sent), taken + 1, taken + n)

\* &buf[..filled]: what has arrived, and nothing of the buffer behind it.
Filled(n) == Slab(n)

\* It blocks while nothing has arrived.  An interrupted read is tried again.
Read ==
    /\ pc = "read"
    /\ \E n \in 1..(sent - taken) :
         /\ slab' = Filled(n)
         /\ taken' = taken + n
    /\ Goto(IF dead THEN "logonly" ELSE "log")
    /\ UNCHANGED <<world, logVars, outVars, flags>>

Mut_EofAlive ==
    /\ pc = "read"
    /\ closed /\ taken = sent /\ ~dead
    /\ Goto("final")
    /\ UNCHANGED <<world, taken, slab, logVars, outVars, flags>>

Eof ==
    /\ pc = "read"
    /\ closed /\ taken = sent
    /\ Goto("final")
    /\ UNCHANGED <<world, taken, slab, logVars, outVars, flags>>

ReadFails ==
    /\ pc = "read"
    /\ Say("leave1")
    /\ UNCHANGED <<world, taken, slab, logVars, outVars, flags>>

\* emit: the log first.
WriteLog ==
    /\ pc = "log"
    /\ Log(slab, FALSE, IF mode.quiet THEN "flush" ELSE "out")
    /\ UNCHANGED <<world, taken, slab, outVars, flags>>

WriteOut ==
    /\ pc = "out"
    /\ Put(slab, FALSE, "flush", "epipe", "stdouterror")
    /\ UNCHANGED <<world, taken, slab, logVars, flags>>

Mut_FlushLogNever ==
    /\ pc = "flush"
    /\ Goto(IF mode.quiet THEN "read" ELSE "flushout")
    /\ UNCHANGED <<world, taken, slab, logVars, outVars, flags>>

Mut_FlushLogWhenDry ==
    /\ pc = "flush"
    /\ Log(<<>>, taken = sent, IF mode.quiet THEN "read" ELSE "flushout")
    /\ UNCHANGED <<world, taken, slab, outVars, flags>>

\* emit_flush: the log first.
FlushLog ==
    /\ pc = "flush"
    /\ Log(<<>>, TRUE, IF mode.quiet THEN "read" ELSE "flushout")
    /\ UNCHANGED <<world, taken, slab, outVars, flags>>

FlushOut ==
    /\ pc = "flushout"
    /\ Put(<<>>, TRUE, "read", "epipe", "stdouterror")
    /\ UNCHANGED <<world, taken, slab, logVars, flags>>

Mut_LogOnlySkips ==
    /\ pc = "logonly"
    /\ Log(<<>>, TRUE, "read")
    /\ UNCHANGED <<world, taken, slab, outVars, flags>>

LogOnly ==
    /\ pc = "logonly"
    /\ Log(slab, TRUE, "read")
    /\ UNCHANGED <<world, taken, slab, outVars, flags>>

-----------------------------------------------------------------------------
(* stdout has failed.  A detached pump goes on without it; any other stops, *)
(* with exit code 0 if the reader just left.                               *)

LosePassthrough ==
    /\ mode.detached
    /\ \/ pc = "epipe" /\ Say("read")
       \/ pc = "stdouterror" /\ Goto("read")
    /\ dead' = TRUE
    /\ UNCHANGED <<world, taken, slab, logVars, outVars, interrupted, handler, code>>

StopPumping ==
    /\ ~mode.detached
    /\ \/ pc = "epipe" /\ Log(<<>>, TRUE, "leave0")
       \/ pc = "stdouterror" /\ Log(<<>>, TRUE, "report")
    /\ UNCHANGED <<world, taken, slab, outVars, flags>>

-----------------------------------------------------------------------------
(* The way out.                                                            *)

Mut_FinalNoFlush ==
    /\ pc = "final"
    /\ Goto("finalout")
    /\ UNCHANGED <<world, taken, slab, logVars, outVars, flags>>

Final ==
    /\ pc = "final"
    /\ Log(<<>>, TRUE, "finalout")
    /\ UNCHANGED <<world, taken, slab, outVars, flags>>

\* Whether this last flush works is nobody's concern any more.
FinalOut ==
    /\ pc = "finalout"
    /\ shown' = IF reader = "there" THEN shown \o outbuf ELSE shown
    /\ outbuf' = <<>>
    /\ Goto("reporteof")
    /\ UNCHANGED <<world, taken, slab, logVars, flags>>

Report ==
    /\ pc \in {"report", "reporteof"}
    /\ ReportLog(IF pc = "report" THEN "leave1" ELSE "leaveeof")
    /\ UNCHANGED <<world, taken, slab, logVars, outVars, flags>>

\* The detached pump ends in process::exit, which drops nothing.
Leave ==
    /\ pc \in {"leave0", "leave1", "leaveeof"}
    /\ code' = CASE pc = "leave0" -> 0
                 [] pc = "leave1" -> 1
                 [] pc = "leaveeof" -> IF interrupted THEN 130 ELSE 0
    /\ Goto("done")
    /\ IF mode.detached THEN UNCHANGED logVars ELSE DropSink
    /\ UNCHANGED <<world, taken, slab, outVars, dead, interrupted, handler>>

Unwind ==
    /\ pc = "panic"
    /\ code' = 101
    /\ Goto("crashed")
    /\ DropSink
    /\ UNCHANGED <<world, taken, slab, outVars, dead, interrupted, handler>>

Running == pc \notin {"done", "crashed", "quit", "killed"}

\* Ctrl+C, on a thread of its own: the first press is remembered and announced,
\* the second exits at once.
Press ==
    /\ Running /\ handler
    /\ \/ /\ ~interrupted
          /\ interrupted' = TRUE
          /\ handler' = (stderr = "ok")
          /\ UNCHANGED <<pc, code>>
       \/ /\ interrupted
          /\ Goto("quit")
          /\ code' = 130
          /\ UNCHANGED <<interrupted, handler>>
    /\ UNCHANGED <<world, taken, slab, logVars, outVars, dead>>

\* SIGTERM or SIGKILL: no handler.
Killed ==
    /\ Running
    /\ Goto("killed")
    /\ UNCHANGED <<world, taken, slab, logVars, outVars, flags>>

-----------------------------------------------------------------------------
(* The world outside.                                                      *)

Others ==
    /\ \/ /\ ~closed /\ sent < MaxWrites
          /\ sent' = sent + 1
          /\ UNCHANGED <<closed, peers>>
       \/ /\ closed' = TRUE
          /\ UNCHANGED <<sent, peers>>
       \/ /\ ReaderLeaves \/ DiskFills
          /\ UNCHANGED <<sent, closed>>
    /\ UNCHANGED <<mode, pc, taken, slab, logVars, outVars, flags>>

HangUp ==
    /\ TerminalCloses
    /\ UNCHANGED <<mode, sent, closed, pc, taken, slab, logVars, outVars, flags>>

\* A step of the pump itself.
Step ==
    \/ Read \/ Eof \/ WriteLog \/ WriteOut \/ FlushLog \/ FlushOut \/ LogOnly
    \/ LosePassthrough \/ StopPumping
    \/ Final \/ FinalOut \/ Report \/ Leave \/ Unwind

Next == Step \/ ReadFails \/ Press \/ Killed \/ Others \/ HangUp

Spec == Init /\ [][Next]_vars

\* The pump is scheduled, and whoever reads stdout takes what is written or
\* leaves: a write to a full pipe is not stuck for ever.
FairSpec == Spec /\ WF_vars(Step)

-----------------------------------------------------------------------------
(* Properties.                                                             *)

Stream(n) == Seq(1..n)

\* Every variable keeps the kind of value the code's variable has, and nothing
\* but bytes of the stream is ever in a buffer or a file.
TypeOK ==
    /\ mode \in Mode
    /\ sent \in 0..MaxWrites /\ taken \in 0..sent
    /\ closed \in BOOLEAN
    /\ PeersOK
    /\ pc \in {"read", "log", "out", "flush", "flushout", "logonly", "epipe", "stdouterror",
               "final", "finalout", "report", "reporteof", "leave0", "leave1", "leaveeof",
               "panic", "done", "crashed", "quit", "killed"}
    /\ {slab, logged, logbuf, shown, outbuf} \subseteq Stream(taken)
    /\ dead \in BOOLEAN /\ interrupted \in BOOLEAN /\ handler \in BOOLEAN
    /\ code \in {0, 1, 101, 130}

\* The log, and passthrough, each with its buffer.
InLog == logged \o logbuf
InOut == shown \o outbuf

IsStream(s) == s = Upto(Len(s))

\* Nothing is lost, repeated or reordered on its way: while the log works it has,
\* file and buffer together, all that was read before this slab, and this slab
\* once written; what stdout got is a beginning of the stream; and a log that
\* failed ends at the failure (main.rs:170-206, 299-330).
Faithful ==
    /\ IsStream(InLog)
    /\ IsStream(shown)
    /\ sink = "open" /\ Running =>
         Len(InLog) = taken - (IF pc \in {"log", "logonly"} THEN Len(slab) ELSE 0)

\* However the pump ends, second Ctrl+C and SIGKILL included, the log lacks at
\* most the slab in hand (main.rs:141, DESIGN.md:57), as long as passthrough works.
OneSlabAtRisk ==
    sink = "open" /\ ~dead => Len(logged) >= taken - Len(slab)

\* Exit code 0 (130 after a Ctrl+C): all that was read is in the log, if that
\* still worked at the end, the stream had ended or its reader had left, and the
\* reader that stayed has all of it (main.rs:332-345).
ExitHonest ==
    pc = "done" /\ code # 1 =>
      /\ sink = "open" => logged = Upto(taken)
      /\ reader # "left" => closed /\ taken = sent
      /\ reader = "there" /\ ~mode.quiet => shown = Upto(sent)

\* Nothing keeps the pump from ending once every writer has closed: not a lost
\* reader, a lost terminal or a full disk (main.rs:289-295).
Drains == closed ~> ~Running

\* What upstream has written reaches the log and stdout without waiting for more
\* of it, unless the pump or passthrough fails: a line is visible as soon as the
\* writer pauses (main.rs:183-196).
Delivered ==
    \A n \in 1..MaxWrites :
      sent >= n ~> \/ /\ Len(logged) >= n \/ sink # "open"
                      /\ Len(shown) >= n \/ mode.quiet
                   \/ dead \/ ~Running

-----------------------------------------------------------------------------
(* The invariant that Faithful, OneSlabAtRisk and ExitHonest follow from.  *)

\* What had been read before this slab.
Earlier == taken - Len(slab)

\* The slab in hand is the end of what was read.
InHand ==
    /\ Len(slab) <= taken
    /\ slab = SubSeq(Upto(taken), Earlier + 1, taken)

LogHas ==
    /\ \E n \in 0..taken : InLog = Upto(n)
    /\ sink = "open" /\ Running =>
         InLog = Upto(IF pc \in {"log", "logonly"} THEN Earlier ELSE taken)

\* Nothing waits in the log's buffer where the pump may block, or leaves in order.
LogFlushed ==
    /\ sink = "open" /\ pc \in {"flushout", "finalout", "reporteof", "leaveeof", "leave0"} =>
         logbuf = <<>>
    /\ sink = "open" /\ pc = "read" /\ ~dead => logbuf = <<>>

OutHas ==
    /\ \E n \in 0..taken : InOut = Upto(n)
    /\ ~dead /\ ~mode.quiet /\ pc \in {"read", "log", "out", "flush", "flushout",
                                        "final", "finalout"} =>
         InOut = Upto(IF pc \in {"log", "out"} THEN Earlier ELSE taken)
    /\ reader = "there" /\ ~mode.quiet /\ pc \in {"reporteof", "leaveeof"} =>
         shown = Upto(taken)

\* Where the pump can be, and what that says of the world.
Way ==
    /\ mode.quiet => pc \notin {"out", "flushout", "epipe", "stdouterror"}
    /\ dead => pc \notin {"log", "out", "flush", "flushout", "epipe", "stdouterror"}
    /\ pc = "logonly" => dead
    /\ dead \/ pc \in {"epipe", "stdouterror"} => reader # "there"
    /\ pc \in {"epipe", "leave0"} => reader = "left"
    /\ pc \in {"final", "finalout", "reporteof", "leaveeof"} => closed /\ taken = sent

\* What holds of slab, buffers and files between any two calls of pump_pipe
\* (main.rs:284-345).
PumpInv ==
    TypeOK /\ InHand /\ LogHas /\ LogFlushed /\ OutHas /\ Way /\ OneSlabAtRisk /\ ExitHonest

-----------------------------------------------------------------------------
\* Pipe mode keeps the promise of Tee.tla: what was read is passed on in that
\* order to both, whatever fails (main.rs:170-206, 299-330).
Promised == INSTANCE Tee WITH heard <- Upto(taken)
Tees == Promised!TeeSpec

-----------------------------------------------------------------------------
(* Statements of the documentation that the code does not keep.            *)

\* DESIGN.md:59, CHANGELOG.md:170: if the terminal disappears, passthrough is
\* dropped and logging continues; a stdout that fails does not kill the pump.
OutlivesTerminal ==
    [][mode.detached /\ pc \in {"out", "flushout", "epipe", "stdouterror"}
         => pc' # "panic"]_vars
=============================================================================
