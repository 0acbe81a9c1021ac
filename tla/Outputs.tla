------------------------------- MODULE Outputs -------------------------------
(***************************************************************************)
(* The two destinations every pump of deemo writes to, and what it does    *)
(* when one of them fails (emit's helpers in src/src/main.rs, Sink in      *)
(* src/src/sink.rs): the log, and stdout, each behind a buffer.  Pipe mode *)
(* and foreground mode differ in what they write, a slab or a line; here   *)
(* it is a sequence of items.                                              *)
(***************************************************************************)
EXTENDS Naturals, Sequences

VARIABLES pc,       \* where the pump is
          reader,   \* who takes stdout: there, left (EPIPE), or lost to another error
          stderr,   \* whether stderr can be written
          disk,     \* whether the log can be written
          sink,     \* the log, unless there is none or a write failed
          logged,   \* what is in the file
          logbuf,   \* what is in the sink's BufWriter
          shown,    \* what the reader of stdout got
          outbuf    \* what is in stdout's buffer

logVars == <<sink, logged, logbuf>>
outVars == <<shown, outbuf>>
peers == <<reader, stderr, disk>>

OutputsInit(log) ==
    /\ reader = "there" /\ stderr = "ok" /\ disk = "ok"
    /\ sink = IF log THEN "open" ELSE "none"
    /\ logged = <<>> /\ logbuf = <<>>
    /\ shown = <<>> /\ outbuf = <<>>

Goto(l) == pc' = l

\* eprintln! panics when stderr is gone.
Say(l) == pc' = IF stderr = "ok" THEN l ELSE "panic"

\* log_op: everything queued and everything new goes to the file, or (buffered,
\* unless whole) only the first part of it.  An error costs the log, nothing else.
Log(data, whole, next) ==
    LET pending == logbuf \o data
    IN  \/ /\ sink # "open"
           /\ Goto(next)
           /\ UNCHANGED logVars
        \/ /\ sink = "open"
           /\ \E n \in 0..Len(pending) :
                /\ whole => n = Len(pending)
                /\ n > 0 => disk = "ok"
                /\ logged' = logged \o SubSeq(pending, 1, n)
                /\ logbuf' = SubSeq(pending, n + 1, Len(pending))
           /\ Goto(next)
           /\ sink' = sink
        \/ /\ sink = "open" /\ disk = "full" /\ pending # <<>>
           /\ \E n \in 0..(Len(pending) - 1) : logged' = logged \o SubSeq(pending, 1, n)
           /\ logbuf' = <<>>
           /\ sink' = "lost"
           /\ Say(next)

Mut_PutAgain(data, whole, next, left, broken) ==
    LET pending == outbuf \o data
    IN  \/ /\ \E n \in 0..Len(pending) :
                /\ whole => n = Len(pending)
                /\ n > 0 => reader = "there"
                /\ shown' = shown \o SubSeq(pending, 1, n)
                /\ outbuf' = IF n < Len(pending) THEN pending ELSE <<>>
           /\ Goto(next)
        \/ /\ reader # "there" /\ pending # <<>>
           /\ IF reader = "left" THEN Goto(left) ELSE Say(broken)
           /\ UNCHANGED outVars

\* A write to stdout, buffered in the same way.  stdout_stopped tells a reader
\* that has left (EPIPE, quietly) from any other failure.
Put(data, whole, next, left, broken) ==
    LET pending == outbuf \o data
    IN  \/ /\ \E n \in 0..Len(pending) :
                /\ whole => n = Len(pending)
                /\ n > 0 => reader = "there"
                /\ shown' = shown \o SubSeq(pending, 1, n)
                /\ outbuf' = SubSeq(pending, n + 1, Len(pending))
           /\ Goto(next)
        \/ /\ reader # "there" /\ pending # <<>>
           /\ IF reader = "left" THEN Goto(left) ELSE Say(broken)
           /\ UNCHANGED outVars

\* report_log names the log, if it is still one.
ReportLog(next) == IF sink = "open" THEN Say(next) ELSE Goto(next)

\* Dropping the sink flushes it, as far as it can.
DropSink ==
    /\ logged' = IF disk = "ok" THEN logged \o logbuf ELSE logged
    /\ logbuf' = <<>>
    /\ sink' = sink

-----------------------------------------------------------------------------
(* What happens to the destinations.                                       *)

\* The reader of the pipe leaves, or stdout fails in another way: it is a file on a
\* full disk, say.
ReaderLeaves ==
    reader = "there" /\ reader' \in {"left", "lost"} /\ UNCHANGED <<stderr, disk>>

DiskFills == disk' = "full" /\ UNCHANGED <<reader, stderr>>

\* The terminal closes: stderr, and stdout unless it is somebody else's.
TerminalCloses ==
    /\ stderr' = "gone"
    /\ reader' \in {reader, IF reader = "there" THEN "lost" ELSE reader}
    /\ disk' = disk

PeersOK ==
    /\ reader \in {"there", "left", "lost"}
    /\ stderr \in {"ok", "gone"} /\ disk \in {"ok", "full"}
    /\ sink \in {"none", "open", "lost"}
=============================================================================
