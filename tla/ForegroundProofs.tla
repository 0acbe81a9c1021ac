-------------------------- MODULE ForegroundProofs --------------------------
(***************************************************************************)
(* Proofs about Foreground.tla, for any child, any number of writes on its *)
(* two streams and whatever fails around deemo: no write is lost, moved or *)
(* repeated between a reader and the log, no line is split by the other    *)
(* stream, and the exit code says what became of child and streams.        *)
(***************************************************************************)
EXTENDS Foreground, OutputsProofs

-----------------------------------------------------------------------------
(* Types.                                                                  *)

LEMMA ItemType ==
    /\ TypeOK => {line, heard, logged, logbuf, shown, outbuf} \subseteq Seq(Item)
    /\ <<>> \in Seq(Item)
  BY EmptySeq DEF TypeOK

\* What a reader sends is a sequence of writes.
LEMMA ChunkType ==
    ASSUME NEW s \in Stream, NEW m \in Nat, NEW n \in Nat, m < n
    PROVE  /\ Chunk(s, m, n) \in Seq(Item) /\ Len(Chunk(s, m, n)) = n - m
           /\ \A i \in 1..(n - m) : Chunk(s, m, n)[i] = <<s, m + i>>
<1>1. \A i \in 1..(n - m) : <<s, m + i>> \in Item
  BY DEF Item
<1> QED
  BY <1>1 DEF Chunk

LEMMA SendType ==
    ASSUME TypeOK, NEW s \in Stream, SendLine(s)
    PROVE  TypeOK'
<1>1. PICK n \in 1..Len(sent[s]) :
        /\ n \in (passed[s] + 1)..Len(sent[s])
        /\ chan' = Append(chan, Chunk(s, passed[s], n))
        /\ passed' = [passed EXCEPT ![s] = n]
  BY DEF SendLine, LineEnds
<1>2. /\ passed[s] \in Nat /\ n \in Nat /\ passed[s] < n /\ n <= Len(sent[s])
      /\ chan \in Seq(Seq(Item))
  BY <1>1 DEF TypeOK
<1>3. chan' \in Seq(Seq(Item))
  BY <1>1, <1>2, ChunkType, AppendProperties
<1>4. passed' \in [Stream -> Nat] /\ \A t \in Stream : passed'[t] <= Len(sent[t])
  BY <1>1, <1>2 DEF TypeOK
<1> QED
  BY <1>3, <1>4 DEF SendLine, TypeOK, PeersOK, outside, family, ctrlc, logVars, outVars, peers

LEMMA ReceiveType ==
    ASSUME TypeOK, Receive
    PROVE  TypeOK'
<1>1. /\ chan \in Seq(Seq(Item)) /\ chan # <<>> /\ heard \in Seq(Item)
      /\ heard' = heard \o Head(chan) /\ line' = Head(chan) /\ chan' = Tail(chan)
  BY DEF TypeOK, Receive
<1>2. Head(chan) \in Seq(Item) /\ chan' \in Seq(Seq(Item))
  BY <1>1, HeadTailProperties
<1>3. heard' \in Seq(Item)
  BY <1>1, <1>2, ConcatProperties
<1> QED
  BY <1>1, <1>2, <1>3
  DEF Receive, Goto, TypeOK, PeersOK, outside, family, readers, ctrlc, logVars, outVars, peers

\* The log: types, and what LogStep says of it.
LEMMA LogType ==
    ASSUME TypeOK, NEW data \in Seq(Item), NEW whole \in BOOLEAN, NEW next,
           Log(data, whole, next)
    PROVE  /\ {logged', logbuf'} \subseteq Seq(Item)
           /\ sink' \in {"none", "open", "lost"} /\ pc' \in {next, "panic"}
  BY ItemType, LogStep DEF TypeOK, PeersOK, logVars

LEMMA PutType ==
    ASSUME TypeOK, NEW data \in Seq(Item), NEW whole \in BOOLEAN, NEW next, NEW left,
           NEW broken, Put(data, whole, next, left, broken)
    PROVE  /\ {shown', outbuf'} \subseteq Seq(Item)
           /\ pc' = next \/ (pc' \in {left, broken, "panic"} /\ reader # "there")
  BY ItemType, PutStep DEF Refused

\* Where the three writes to stdout lead.
LEMMA PutPlaces ==
    ASSUME TypeOK, NEW data, data \in {line, <<>>}, NEW whole \in BOOLEAN
    PROVE  /\ Put(data, whole, "recv", "epipe", "stdouterror")
                => /\ {shown', outbuf'} \subseteq Seq(Item)
                   /\ pc' = "recv" \/ (pc' \in {"epipe", "stdouterror", "panic"} /\ reader # "there")
           /\ Put(data, whole, "block", "epipe", "stdouterror")
                => /\ {shown', outbuf'} \subseteq Seq(Item)
                   /\ pc' = "block" \/ (pc' \in {"epipe", "stdouterror", "panic"} /\ reader # "there")
           /\ Put(data, whole, "wait", "leave", "report")
                => /\ {shown', outbuf'} \subseteq Seq(Item)
                   /\ pc' = "wait" \/ (pc' \in {"leave", "report", "panic"} /\ reader # "there")
<1>1. data \in Seq(Item)
  BY ItemType
<1>2. ASSUME NEW next, NEW left, NEW broken, Put(data, whole, next, left, broken)
      PROVE  /\ {shown', outbuf'} \subseteq Seq(Item)
             /\ pc' = next \/ (pc' \in {left, broken, "panic"} /\ reader # "there")
  BY <1>1, <1>2, PutType
<1>3. ASSUME Put(data, whole, "recv", "epipe", "stdouterror")
      PROVE  /\ {shown', outbuf'} \subseteq Seq(Item)
             /\ pc' = "recv" \/ (pc' \in {"epipe", "stdouterror", "panic"} /\ reader # "there")
  BY <1>2, <1>3
<1>4. ASSUME Put(data, whole, "block", "epipe", "stdouterror")
      PROVE  /\ {shown', outbuf'} \subseteq Seq(Item)
             /\ pc' = "block" \/ (pc' \in {"epipe", "stdouterror", "panic"} /\ reader # "there")
  BY <1>2, <1>4
<1>5. ASSUME Put(data, whole, "wait", "leave", "report")
      PROVE  /\ {shown', outbuf'} \subseteq Seq(Item)
             /\ pc' = "wait" \/ (pc' \in {"leave", "report", "panic"} /\ reader # "there")
  BY <1>2, <1>5
<1> QED
  BY <1>3, <1>4, <1>5

LEMMA DropType ==
    ASSUME TypeOK, DropOut
    PROVE  /\ {logged', logbuf', shown', outbuf'} \subseteq Seq(Item)
           /\ sink' \in {"none", "open", "lost"}
  BY ItemType, ConcatProperties DEF DropOut, DropSink, TypeOK, PeersOK

\* What a step may do to the rest, where it does not touch what has been read.
LEMMA ControlType ==
    ASSUME TypeOK, UNCHANGED <<mode, sent, passed, queue>>,
           \/ UNCHANGED <<logVars, outVars>>
           \/ /\ {logged', logbuf', shown', outbuf'} \subseteq Seq(Item)
              /\ sink' \in {"none", "open", "lost"},
           \/ UNCHANGED peers
           \/ /\ reader' \in {"there", "left", "lost"}
              /\ stderr' \in {"ok", "gone"} /\ disk' \in {"ok", "full"},
           ends' = ends \/ ends' \in [Stream -> SUBSET {"child", "heir"}],
           child' \in {child, "run", "killed", "zombie", "reaped"},
           status' \in {status, <<"signal", 2>>, <<"signal", 9>>} \cup ({"exit"} \X Status),
           told' = told \/ told' \in BOOLEAN,
           foreign' = foreign \/ foreign' \in BOOLEAN,
           ended' \subseteq Stream,
           childpid' = childpid \/ childpid' \in BOOLEAN,
           interrupted' = interrupted \/ interrupted' \in BOOLEAN,
           handler' \in {handler, "free", "look", "gone"},
           forward' \in {forward, "waits", "over"},
           pc' \in {pc, "spawn", "setpid", "recv", "out", "flush", "flushout",
               "block", "epipe", "stdouterror", "cut", "cutreport", "final", "finalout",
               "wait", "report", "leave", "panic", "done", "crashed", "quit"},
           code' \in {code, 0, 1, 101, 127, 130, 137} \cup Status
    PROVE  TypeOK'
<1>1. /\ ends' \in [Stream -> SUBSET {"child", "heir"}]
      /\ {told', foreign', childpid', interrupted'} \subseteq BOOLEAN
  BY DEF TypeOK
<1>2. /\ {logged', logbuf', shown', outbuf'} \subseteq Seq(Item)
      /\ sink' \in {"none", "open", "lost"}
  BY DEF TypeOK, PeersOK, logVars, outVars
<1>3. PeersOK'
  BY <1>2 DEF TypeOK, PeersOK, peers
<1>4. /\ child' \in {"none", "run", "killed", "zombie", "reaped"}
      /\ status' \in ({"exit"} \X Status) \cup {<<"exit", 0>>, <<"signal", 2>>, <<"signal", 9>>}
      /\ handler' \in {"free", "look", "gone"}
      /\ forward' \in {"none", "waits", "over"}
      /\ code' \in Status \cup {0, 1, 101, 127, 130, 137}
  BY DEF TypeOK
<1>5. pc' \in {"announce", "spawn", "setpid", "recv", "log", "out", "flush", "flushout",
               "block", "epipe", "stdouterror", "cut", "cutreport", "final", "finalout",
               "wait", "report", "leave", "panic", "done", "crashed", "quit"}
  BY DEF TypeOK
<1> QED
  BY <1>1, <1>2, <1>3, <1>4, <1>5 DEF TypeOK, queue

LEMMA StepType ==
    ASSUME TypeOK, [Next]_vars
    PROVE  TypeOK'
<1> USE DEF outside, family, readers, ctrlc, peers, Goto
<1>0. ended \subseteq Stream
  BY DEF TypeOK
<1>1. CASE Announce \/ Spawn \/ SpawnFails \/ SetPid
  <2>1. ends' = ends \/ ends' \in [Stream -> SUBSET {"child", "heir"}]
    BY <1>1 DEF Announce, Spawn, SpawnFails, SetPid
  <2> QED
    BY <1>1, <2>1, <1>0, ControlType DEF Announce, Spawn, SpawnFails, SetPid, Say
<1>2. CASE Finish \/ RanDry \/ Report
  BY <1>2, <1>0, ControlType DEF Finish, RanDry, Report, ReportLog, Say
<1>3. CASE Wait \/ WaitFails
  <2>1. StatusCode(status) \in Status \cup {0, 130, 137}
    BY DEF StatusCode, TypeOK
  <2> QED
    BY <1>3, <2>1, <1>0, ControlType DEF Wait, WaitFails, Say
<1>4. CASE StopChild
  BY <1>4, <1>0, ControlType DEF StopChild, Killed
<1>5. CASE Look \/ Forward \/ Press
  <2>1. told' \in BOOLEAN /\ UNCHANGED <<ends, child, status, foreign>>
    BY <1>5 DEF Look, Forward, Press, Interrupt, TypeOK
  <2> QED
    BY <1>5, <1>0, <2>1, ControlType DEF Look, Forward, Press, Interrupt
<1>6. CASE WriteLog \/ FlushLog \/ Final \/ CutLog
  <2>1. /\ {logged', logbuf'} \subseteq Seq(Item) /\ sink' \in {"none", "open", "lost"}
        /\ pc' \in {"recv", "out", "block", "flushout", "wait", "finalout", "leave", "report", "panic"}
    BY <1>6, ItemType, LogType DEF WriteLog, FlushLog, Final, CutLog
  <2>2. {shown', outbuf'} \subseteq Seq(Item)
    BY <1>6, ItemType DEF WriteLog, FlushLog, Final, CutLog, outVars
  <2>3. code' \in {code, 0, 1} /\ UNCHANGED <<outside, family, readers, queue, ctrlc>>
    BY <1>6 DEF WriteLog, FlushLog, Final, CutLog
  <2> QED
    BY <1>0, <2>1, <2>2, <2>3, ControlType
<1>7. CASE WriteOut \/ FlushOut \/ FinalOut
  <2>1. /\ {shown', outbuf'} \subseteq Seq(Item)
        /\ pc' \in {"recv", "block", "epipe", "stdouterror", "wait", "leave", "report", "panic"}
    BY <1>7, PutPlaces DEF WriteOut, FlushOut, FinalOut
  <2>2. {logged', logbuf'} \subseteq Seq(Item) /\ sink' \in {"none", "open", "lost"}
    BY <1>7, ItemType DEF WriteOut, FlushOut, FinalOut, logVars, TypeOK, PeersOK
  <2>3. code' \in {code, 1} /\ UNCHANGED <<outside, family, readers, queue, ctrlc>>
    BY <1>7 DEF WriteOut, FlushOut, FinalOut
  <2> QED
    BY <1>0, <2>1, <2>2, <2>3, ControlType
<1>8. CASE Leave \/ Unwind
  <2>1. /\ {logged', logbuf', shown', outbuf'} \subseteq Seq(Item)
        /\ sink' \in {"none", "open", "lost"}
    BY <1>8, DropType DEF Leave, Unwind
  <2> QED
    BY <1>8, <1>0, <2>1, ControlType DEF Leave, Unwind
<1>9. ASSUME NEW s \in Stream, ReaderEnds(s) PROVE TypeOK'
  BY <1>9, <1>0, ControlType DEF ReaderEnds
<1>10. CASE Others
  <2>1. sent' \in [Stream -> Seq(BOOLEAN)] /\ \A s \in Stream : passed[s] <= Len(sent'[s])
    <3>1. CASE sent' = sent
      BY <3>1 DEF TypeOK
    <3>2. ASSUME NEW s \in Stream, NEW nl \in BOOLEAN, sent' = [sent EXCEPT ![s] = Append(@, nl)]
          PROVE  sent' \in [Stream -> Seq(BOOLEAN)] /\ \A t \in Stream : passed[t] <= Len(sent'[t])
      <4>1. /\ sent \in [Stream -> Seq(BOOLEAN)] /\ passed \in [Stream -> Nat]
            /\ \A t \in Stream : passed[t] <= Len(sent[t])
        BY DEF TypeOK
      <4>2. Append(sent[s], nl) \in Seq(BOOLEAN) /\ Len(Append(sent[s], nl)) = Len(sent[s]) + 1
        BY <4>1, AppendProperties
      <4>3. Len(sent[s]) \in Nat
        BY <4>1, LenProperties
      <4> QED
        BY <3>2, <4>1, <4>2, <4>3
    <3> QED
      BY <1>10, <3>1, <3>2 DEF Others
  <2>2. ends' \in [Stream -> SUBSET {"child", "heir"}]
    <3>1. ends \in [Stream -> SUBSET {"child", "heir"}]
      BY DEF TypeOK
    <3> QED
      BY <1>10, <3>1 DEF Others, Dies
  <2>4. child' = child \/ child' = "zombie"
    BY <1>10 DEF Others, Dies
  <2>5. told' = told /\ (foreign' = foreign \/ foreign' = TRUE)
    BY <1>10 DEF Others, Dies
  <2>6. \/ status' = status
        \/ status' \in {<<"signal", 2>>, <<"signal", 9>>}
        \/ \E n \in Status : status' = <<"exit", n>>
    BY <1>10 DEF Others, Dies
  <2>7. child' \in {"none", "run", "killed", "zombie", "reaped"}
    BY <2>4 DEF TypeOK
  <2>8. {told', foreign'} \subseteq BOOLEAN
    BY <2>5, ZenonT(30) DEF TypeOK
  <2>9. status' \in ({"exit"} \X Status) \cup {<<"exit", 0>>, <<"signal", 2>>, <<"signal", 9>>}
    BY <2>6 DEF TypeOK
  <2>3. reader' \in {"there", "left", "lost"} /\ stderr' \in {"ok", "gone"} /\ disk' \in {"ok", "full"}
    BY <1>10 DEF Others, ReaderLeaves, DiskFills, TerminalCloses, TypeOK, PeersOK
  <2> QED
    BY <1>10, <2>1, <2>2, <2>3, <2>7, <2>8, <2>9 DEF Others, TypeOK, PeersOK, queue, logVars, outVars
<1>11. CASE UNCHANGED vars
  BY <1>11, <1>0, ControlType DEF vars
<1> QED
  BY <1>1, <1>2, <1>3, <1>4, <1>5, <1>6, <1>7, <1>8, <1>9, <1>10, <1>11,
     SendType, ReceiveType DEF Next, Step, Read
-----------------------------------------------------------------------------
(* What the readers pass on.                                               *)

\* The places a mark can name.
LEMMA MarkType ==
    ASSUME TypeOK
    PROVE  /\ \A s \in Stream : Len(sent[s]) \in Nat
           /\ Mark = {m \in [Stream -> Nat] : \A s \in Stream : m[s] <= Len(sent[s])}
<1>1. \A s \in Stream : Len(sent[s]) \in Nat
  BY LenProperties DEF TypeOK
<1>2. Len(sent["out"]) \in Nat /\ Len(sent["err"]) \in Nat
  BY <1>1, "out" \in Stream, "err" \in Stream DEF Stream
<1>0. \A a, b \in Nat : a <= a + b /\ b <= a + b /\ a + b \in Nat
  OBVIOUS
<1>3. \A s \in Stream : Len(sent[s]) <= Written
  <2> DEFINE a == Len(sent["out"])
             b == Len(sent["err"])
  <2>1. Written = a + b /\ \A s \in Stream : Len(sent[s]) = a \/ Len(sent[s]) = b
    BY DEF Written, Stream
  <2>2. a <= a + b /\ b <= a + b
    BY <1>0, <1>2
  <2> HIDE DEF a, b
  <2> QED
    BY <2>1, <2>2
<1>4. Written \in Nat
  BY <1>0, <1>2 DEF Written
<1>5. ASSUME NEW m \in [Stream -> Nat], \A s \in Stream : m[s] <= Len(sent[s])
      PROVE  m \in [Stream -> 0..Written]
  <2>1. \A s \in Stream : m[s] \in 0..Written
    <3> SUFFICES ASSUME NEW s \in Stream PROVE m[s] \in 0..Written
      OBVIOUS
    <3>1. m[s] \in Nat /\ m[s] <= Len(sent[s]) /\ Len(sent[s]) <= Written
      BY <1>3, <1>5
    <3> QED
      BY <1>1, <1>4, <3>1
  <2> QED
    BY <2>1
<1> QED
  BY <1>1, <1>5 DEF Mark

\* Positions of what is put behind a sequence.
LEMMA Behind ==
    ASSUME NEW S, NEW a \in Seq(S), NEW l \in Seq(S)
    PROVE  /\ Len(Then(a, l)) = Len(a) + Len(l) /\ Len(a) \in Nat /\ Len(l) \in Nat
           /\ \A i \in 1..Len(a) : Then(a, l)[i] = a[i]
           /\ \A i \in 1..Len(l) : Then(a, l)[Len(a) + i] = l[i]
           /\ \A j \in 1..(Len(a) + Len(l)) : j \in 1..Len(a) \/ \E i \in 1..Len(l) : j = Len(a) + i
<1>1. Len(a) \in Nat /\ Len(l) \in Nat
  BY LenProperties
<1>2. /\ Len(Then(a, l)) = Len(a) + Len(l)
      /\ \A i \in 1..(Len(a) + Len(l)) :
           Then(a, l)[i] = IF i <= Len(a) THEN a[i] ELSE l[i - Len(a)]
  BY ThenIsSeq
<1>3. ASSUME NEW j \in 1..(Len(a) + Len(l)), j \notin 1..Len(a)
      PROVE  j - Len(a) \in 1..Len(l) /\ j = Len(a) + (j - Len(a))
  BY <1>1, <1>3
<1>4. \A i \in 1..Len(l) :
        Len(a) + i \in 1..(Len(a) + Len(l)) /\ ~(Len(a) + i <= Len(a)) /\ Len(a) + i - Len(a) = i
  BY <1>1
<1>5. \A i \in 1..Len(l) : Then(a, l)[Len(a) + i] = l[i]
  <2> SUFFICES ASSUME NEW i \in 1..Len(l) PROVE Then(a, l)[Len(a) + i] = l[i]
    OBVIOUS
  <2> DEFINE j == Len(a) + i
  <2>1. j \in 1..(Len(a) + Len(l)) /\ ~(j <= Len(a)) /\ j - Len(a) = i
    BY <1>4
  <2> HIDE DEF j
  <2>2. Then(a, l)[j] = l[i]
    BY <1>2, <2>1
  <2> QED
    BY <2>2 DEF j
<1>6. \A i \in 1..Len(a) : Then(a, l)[i] = a[i]
  BY <1>1, <1>2
<1> QED
  BY <1>1, <1>2, <1>3, <1>5, <1>6

\* A line more, of stream s, behind what has been received.
LEMMA OrderGoesOn ==
    ASSUME NEW a \in Seq(Item), InOrder(a), NEW s \in Stream, NEW m \in Nat, NEW n \in Nat,
           m < n, \A j \in DOMAIN a : a[j][1] = s => a[j][2] <= m,
           \A k \in 1..m : \E j \in DOMAIN a : a[j] = <<s, k>>
    PROVE  InOrder(Then(a, Chunk(s, m, n)))
<1> DEFINE l == Chunk(s, m, n)
           all == Then(a, l)
<1>1. /\ l \in Seq(Item) /\ Len(l) = n - m /\ \A i \in 1..(n - m) : l[i] = <<s, m + i>>
  BY ChunkType
<1> HIDE DEF l
<1>2. /\ Len(all) = Len(a) + Len(l) /\ Len(a) \in Nat /\ Len(l) \in Nat
      /\ \A i \in 1..Len(a) : all[i] = a[i]
      /\ \A i \in 1..Len(l) : all[Len(a) + i] = l[i]
      /\ \A j \in 1..(Len(a) + Len(l)) : j \in 1..Len(a) \/ \E i \in 1..Len(l) : j = Len(a) + i
  BY <1>1, Behind
<1>3. all \in Seq(Item) /\ DOMAIN all = 1..(Len(a) + Len(l)) /\ DOMAIN a = 1..Len(a)
  BY <1>1, <1>2, ThenIsSeq, LenProperties
<1> HIDE DEF all
<1>4. \A i \in 1..Len(l) : all[Len(a) + i] = <<s, m + i>>
  BY <1>1, <1>2
<1> SUFFICES ASSUME NEW j \in 1..(Len(a) + Len(l))
             PROVE  LET t == all[j][1]  k == all[j][2]
                    IN  /\ \A i \in 1..(j - 1) : all[i][1] = t => all[i][2] < k
                        /\ k > 1 => \E i \in 1..(j - 1) : all[i] = <<t, k - 1>>
  BY <1>3 DEF InOrder, all, l
<1>5. CASE j \in 1..Len(a)
  <2>1. \A i \in 1..(j - 1) : i \in 1..Len(a) /\ all[i] = a[i]
    BY <1>2, <1>5
  <2>2. all[j] = a[j]
    BY <1>2, <1>5
  <2>3. LET t == a[j][1]  k == a[j][2]
        IN  /\ \A i \in 1..(j - 1) : a[i][1] = t => a[i][2] < k
            /\ k > 1 => \E i \in 1..(j - 1) : a[i] = <<t, k - 1>>
    BY <1>3, <1>5 DEF InOrder
  <2> QED
    BY <2>1, <2>2, <2>3
<1>6. ASSUME NEW i \in 1..Len(l), j = Len(a) + i
      PROVE  LET t == all[j][1]  k == all[j][2]
             IN  /\ \A h \in 1..(j - 1) : all[h][1] = t => all[h][2] < k
                 /\ k > 1 => \E h \in 1..(j - 1) : all[h] = <<t, k - 1>>
  <2>1. all[j] = <<s, m + i>>
    BY <1>4, <1>6
  <2>2. ASSUME NEW h \in 1..(j - 1), all[h][1] = s PROVE all[h][2] < m + i
    <3>1. CASE h \in 1..Len(a)
      <4>1. all[h] = a[h] /\ a[h][2] <= m /\ a[h] \in Item
        BY <1>2, <1>3, <2>2, <3>1, ElementOfSeq
      <4> QED
        BY <4>1 DEF Item
    <3>2. ASSUME NEW g \in 1..Len(l), h = Len(a) + g PROVE all[h][2] < m + i
      <4>1. g < i
        BY <1>2, <1>6, <3>2
      <4>2. all[h] = <<s, m + g>>
        BY <1>4, <3>2
      <4> QED
        BY <4>1, <4>2, <1>2
    <3> QED
      BY <1>2, <3>1, <3>2
  <2>3. ASSUME m + i > 1 PROVE \E h \in 1..(j - 1) : all[h] = <<s, m + i - 1>>
    <3>1. CASE i = 1
      <4>1. m \in 1..m /\ m + i - 1 = m
        BY <2>3, <3>1
      <4>2. PICK h \in 1..Len(a) : a[h] = <<s, m>>
        BY <1>3, <4>1
      <4>3. h \in 1..(j - 1) /\ all[h] = <<s, m>>
        BY <1>2, <1>6, <4>2
      <4> QED
        BY <4>1, <4>3
    <3>2. CASE i > 1
      <4> DEFINE g == i - 1
      <4>1. g \in 1..Len(l) /\ Len(a) + g \in 1..(j - 1) /\ m + g = m + i - 1
        BY <1>2, <1>6, <3>2
      <4> HIDE DEF g
      <4>2. all[Len(a) + g] = <<s, m + g>>
        BY <1>4, <4>1
      <4> QED
        BY <4>1, <4>2
    <3> QED
      BY <1>2, <3>1, <3>2
  <2>4. all[j][1] = s /\ all[j][2] = m + i
    BY <2>1
  <2> QED
    BY <2>2, <2>3, <2>4
<1> QED
  BY <1>2, <1>5, <1>6

LEMMA LinesGoOn ==
    ASSUME NEW a \in Seq(Item), Unsplit(a), a # <<>> => EndsLine(a[Len(a)]),
           NEW s \in Stream, NEW m \in Nat, NEW n \in Nat, m < n
    PROVE  Unsplit(Then(a, Chunk(s, m, n)))
<1> DEFINE l == Chunk(s, m, n)
           all == Then(a, l)
<1>1. /\ l \in Seq(Item) /\ Len(l) = n - m /\ \A i \in 1..(n - m) : l[i] = <<s, m + i>>
  BY ChunkType
<1> HIDE DEF l
<1>2. /\ Len(all) = Len(a) + Len(l) /\ Len(a) \in Nat /\ Len(l) \in Nat
      /\ \A i \in 1..Len(a) : all[i] = a[i]
      /\ \A i \in 1..Len(l) : all[Len(a) + i] = l[i]
      /\ \A j \in 1..(Len(a) + Len(l)) : j \in 1..Len(a) \/ \E i \in 1..Len(l) : j = Len(a) + i
  BY <1>1, Behind
<1> HIDE DEF all
<1>3. \A i \in 1..Len(l) : all[Len(a) + i] = <<s, m + i>>
  BY <1>1, <1>2
<1> SUFFICES ASSUME NEW j \in 1..(Len(a) + Len(l) - 1)
             PROVE  EndsLine(all[j]) \/ all[j + 1] = <<all[j][1], all[j][2] + 1>>
  BY <1>2 DEF Unsplit, all, l
<1>4. CASE j < Len(a)
  <2>1. j \in 1..(Len(a) - 1) /\ j \in 1..Len(a) /\ j + 1 \in 1..Len(a)
    BY <1>2, <1>4
  <2>2. EndsLine(a[j]) \/ a[j + 1] = <<a[j][1], a[j][2] + 1>>
    BY <2>1 DEF Unsplit
  <2> QED
    BY <1>2, <2>1, <2>2
<1>5. CASE j = Len(a)
  <2>1. a # <<>> /\ j \in 1..Len(a)
    BY <1>2, <1>5
  <2> QED
    BY <1>2, <1>5, <2>1
<1>6. CASE j > Len(a)
  <2> DEFINE i == j - Len(a)
  <2>1. /\ i \in 1..Len(l) /\ i + 1 \in 1..Len(l) /\ j = Len(a) + i /\ j + 1 = Len(a) + (i + 1)
        /\ m + (i + 1) = m + i + 1
    BY <1>2, <1>6
  <2> HIDE DEF i
  <2>2. all[j] = <<s, m + i>> /\ all[j + 1] = <<s, m + (i + 1)>>
    BY <1>3, <2>1
  <2> QED
    BY <2>1, <2>2
<1> QED
  BY <1>2, <1>4, <1>5, <1>6

\* What is received next.
LEMMA HeardMore ==
    ASSUME TypeOK, NEW m \in Mark, NEW n \in Mark, HeardUpTo(m), NEW l, LineBetween(l, m, n),
           heard' = Then(heard, l), UNCHANGED <<sent, ends>>
    PROVE  HeardUpTo(n)'
<1>1. PICK s \in Stream :
        /\ m[s] < n[s] /\ n = [m EXCEPT ![s] = n[s]]
        /\ l = Chunk(s, m[s], n[s]) /\ EndsLine(<<s, n[s]>>)
  BY DEF LineBetween
<1>2. m \in [Stream -> Nat] /\ n \in [Stream -> Nat]
  BY MarkType
<1>3. /\ l \in Seq(Item) /\ Len(l) = n[s] - m[s]
      /\ \A i \in 1..(n[s] - m[s]) : l[i] = <<s, m[s] + i>>
  <2>1. m[s] \in Nat /\ n[s] \in Nat /\ m[s] < n[s] /\ l = Chunk(s, m[s], n[s])
    BY <1>1, <1>2
  <2> QED
    BY <2>1, ChunkType
<1>4. heard \in Seq(Item) /\ DOMAIN heard = 1..Len(heard)
  BY ItemType, LenProperties
<1>5. /\ Len(heard') = Len(heard) + Len(l) /\ Len(heard) \in Nat /\ Len(l) \in Nat
      /\ \A i \in 1..Len(heard) : heard'[i] = heard[i]
      /\ \A i \in 1..Len(l) : heard'[Len(heard) + i] = l[i]
      /\ \A j \in 1..(Len(heard) + Len(l)) :
           j \in 1..Len(heard) \/ \E i \in 1..Len(l) : j = Len(heard) + i
  BY <1>3, <1>4, Behind
<1>6. heard' \in Seq(Item) /\ DOMAIN heard' = 1..(Len(heard) + Len(l))
  BY <1>3, <1>4, <1>5, ThenIsSeq, LenProperties
<1>7. /\ Len(heard) = m["out"] + m["err"]
      /\ \A j \in 1..Len(heard) : heard[j][2] <= m[heard[j][1]]
      /\ \A t \in Stream : \A k \in 1..m[t] : \E j \in 1..Len(heard) : heard[j] = <<t, k>>
      /\ InOrder(heard) /\ Unsplit(heard) /\ (heard # <<>> => EndsLine(heard[Len(heard)]))
  BY <1>4 DEF HeardUpTo
<1>8. /\ n[s] \in Nat /\ m[s] \in Nat /\ m[s] < n[s]
      /\ \A t \in Stream \ {s} : n[t] = m[t]
  BY <1>1, <1>2
<1>9. \A i \in 1..Len(l) : heard'[Len(heard) + i] = <<s, m[s] + i>>
  BY <1>3, <1>5
<1>10. Len(heard') = n["out"] + n["err"]
  <2>1. "out" \in Stream /\ "err" \in Stream /\ s \in {"out", "err"}
    BY DEF Stream
  <2>2. {m["out"], m["err"], n["out"], n["err"]} \subseteq Nat
    BY <1>2, <2>1
  <2>3. CASE s = "out"
    BY <1>3, <1>5, <1>7, <1>8, <2>1, <2>2, <2>3
  <2>4. CASE s = "err"
    BY <1>3, <1>5, <1>7, <1>8, <2>1, <2>2, <2>4
  <2> QED
    BY <2>1, <2>3, <2>4
<1>11. \A j \in DOMAIN heard' : heard'[j][2] <= n[heard'[j][1]]
  <2>1. ASSUME NEW j \in 1..Len(heard) PROVE heard'[j][2] <= n[heard'[j][1]]
    <3>1. heard'[j] = heard[j] /\ heard[j] \in Item /\ heard[j][2] <= m[heard[j][1]]
      BY <1>4, <1>5, <1>7, <2>1, ElementOfSeq
    <3>2. heard[j][1] \in Stream /\ heard[j][2] \in Nat
      BY <3>1 DEF Item
    <3>3. m[heard[j][1]] <= n[heard[j][1]]
      BY <1>1, <1>2, <1>8, <3>2
    <3> QED
      BY <1>2, <3>1, <3>2, <3>3
  <2>2. ASSUME NEW i \in 1..Len(l)
        PROVE  heard'[Len(heard) + i][2] <= n[heard'[Len(heard) + i][1]]
    <3>1. heard'[Len(heard) + i] = <<s, m[s] + i>> /\ m[s] + i <= n[s]
      BY <1>3, <1>8, <1>9, <2>2
    <3>2. heard'[Len(heard) + i][1] = s /\ heard'[Len(heard) + i][2] = m[s] + i
      BY <3>1
    <3> QED
      BY <3>1, <3>2
  <2> QED
    BY <1>5, <1>6, <2>1, <2>2
<1>12. \A t \in Stream : \A k \in 1..n[t] : \E j \in DOMAIN heard' : heard'[j] = <<t, k>>
  <2> SUFFICES ASSUME NEW t \in Stream, NEW k \in 1..n[t]
               PROVE  \E j \in 1..(Len(heard) + Len(l)) : heard'[j] = <<t, k>>
    BY <1>6
  <2>1. CASE k \in 1..m[t]
    <3>1. PICK j \in 1..Len(heard) : heard[j] = <<t, k>>
      BY <1>7, <2>1
    <3>2. j \in 1..(Len(heard) + Len(l)) /\ heard'[j] = <<t, k>>
      BY <1>5, <3>1
    <3> QED
      BY <3>2
  <2>2. CASE k \notin 1..m[t]
    <3>1. t = s
      BY <1>2, <1>8, <2>2
    <3> DEFINE i == k - m[s]
    <3>2. k \in 1..n[s] /\ k \notin 1..m[s]
      BY <2>2, <3>1
    <3>3. i \in 1..Len(l) /\ m[s] + i = k /\ Len(heard) + i \in 1..(Len(heard) + Len(l))
      <4>1. \A p, q, h, z \in Nat :
              k \in 1..q /\ k \notin 1..p /\ z = q - p
                => k - p \in 1..z /\ p + (k - p) = k /\ h + (k - p) \in 1..(h + z)
        OBVIOUS
      <4> QED
        BY <1>3, <1>5, <1>8, <3>2, <4>1
    <3> HIDE DEF i
    <3>4. heard'[Len(heard) + i] = <<t, k>>
      BY <1>9, <3>1, <3>3
    <3> QED
      BY <3>3, <3>4
  <2> QED
    BY <2>1, <2>2
<1>13. InOrder(heard')
  <2>1. \A j \in DOMAIN heard : heard[j][1] = s => heard[j][2] <= m[s]
    BY <1>4, <1>7
  <2>2. \A k \in 1..m[s] : \E j \in DOMAIN heard : heard[j] = <<s, k>>
    BY <1>4, <1>7
  <2> QED
    BY <1>1, <1>4, <1>7, <1>8, <2>1, <2>2, OrderGoesOn
<1>14. Unsplit(heard')
  BY <1>1, <1>4, <1>7, <1>8, LinesGoOn
<1>15. heard' # <<>> /\ heard'[Len(heard')] = <<s, n[s]>>
  <2>1. Len(l) \in 1..Len(l) /\ m[s] + Len(l) = n[s]
    BY <1>3, <1>5, <1>8
  <2>2. heard'[Len(heard) + Len(l)] = <<s, n[s]>>
    BY <1>9, <2>1
  <2> QED
    BY <1>5, <2>1, <2>2
<1>16. \A w : EndsLine(w)' <=> EndsLine(w)
  BY DEF EndsLine, Eof
<1>17. Unsplit(heard)' <=> Unsplit(heard')
  BY <1>16 DEF Unsplit
<1>18. InOrder(heard)' <=> InOrder(heard')
  BY DEF InOrder
<1>19. EndsLine(heard[Len(heard)])'
  BY <1>1, <1>15 DEF EndsLine, Eof
<1> QED
  BY <1>10, <1>11, <1>12, <1>13, <1>14, <1>17, <1>18, <1>19 DEF HeardUpTo

-----------------------------------------------------------------------------
(* The streams, from one step to the next.                                 *)

\* Once there is a child, the streams only grow, and nothing follows their end.
Onward ==
    /\ \A s \in Stream : Len(sent[s]) <= Len(sent'[s])
    /\ \A s \in Stream : \A i \in 1..Len(sent[s]) : sent'[s][i] = sent[s][i]
    /\ \A s \in Stream : Eof(s) => ends'[s] = {} /\ sent'[s] = sent[s]

LEMMA StreamsGoOn ==
    ASSUME TypeOK, [Next]_vars, ~Spawn
    PROVE  Onward
<1> USE DEF outside, family
<1>0. /\ sent \in [Stream -> Seq(BOOLEAN)] /\ ends \in [Stream -> SUBSET {"child", "heir"}]
      /\ \A s \in Stream : Len(sent[s]) \in Nat
  BY LenProperties DEF TypeOK
<1>1. ASSUME sent' = sent, \A s \in Stream : ends[s] = {} => ends'[s] = {}
      PROVE  Onward
  BY <1>0, <1>1 DEF Onward, Eof
<1>2. CASE sent' = sent /\ ends' = ends
  BY <1>1, <1>2
<1>3. ASSUME NEW how, Dies(how), sent' = sent PROVE Onward
  BY <1>0, <1>1, <1>3 DEF Dies
<1>4. CASE StopChild
  BY <1>2, <1>4 DEF StopChild
<1>5. CASE Others
  <2>1. ASSUME NEW s \in Stream, NEW nl \in BOOLEAN, ends[s] # {}, ends' = ends,
               sent' = [sent EXCEPT ![s] = Append(@, nl)]
        PROVE  Onward
    <3>1. /\ Len(Append(sent[s], nl)) = Len(sent[s]) + 1
          /\ \A i \in 1..Len(sent[s]) : Append(sent[s], nl)[i] = sent[s][i]
      BY <1>0, AppendProperties
    <3>2. sent'[s] = Append(sent[s], nl) /\ \A t \in Stream \ {s} : sent'[t] = sent[t]
      BY <1>0, <2>1
    <3>3. \A t \in Stream : t = s \/ t \in Stream \ {s}
      OBVIOUS
    <3>4. Len(sent[s]) <= Len(sent'[s]) /\ \A t \in Stream \ {s} : Len(sent[t]) <= Len(sent'[t])
      BY <1>0, <3>1, <3>2
    <3> HIDE DEF Onward
    <3>5. \A t \in Stream : \A i \in 1..Len(sent[t]) : sent'[t][i] = sent[t][i]
      BY <3>1, <3>2, <3>3
    <3>6. \A t \in Stream : Eof(t) => ends'[t] = {} /\ sent'[t] = sent[t]
      BY <2>1, <3>2, <3>3 DEF Eof
    <3> QED
      BY <3>3, <3>4, <3>5, <3>6 DEF Onward
  <2>2. ASSUME NEW s \in Stream, NEW h, ends' = [ends EXCEPT ![s] = @ \ {h}], sent' = sent
        PROVE  Onward
    BY <1>0, <1>1, <2>2
  <2>3. ASSUME sent' = sent,
               ends' = [s \in Stream |->
                          IF "child" \in ends[s] THEN ends[s] \cup {"heir"} ELSE ends[s]]
        PROVE  Onward
    BY <1>1, <2>3
  <2> QED
    BY <1>2, <1>3, <1>5, <2>1, <2>2, <2>3 DEF Others
<1>6. CASE Announce \/ SpawnFails \/ SetPid \/ Receive \/ Finish \/ RanDry
  BY <1>2, <1>6 DEF Announce, SpawnFails, SetPid, Receive, Finish, RanDry
<1>7. CASE WriteLog \/ WriteOut \/ FlushLog \/ FlushOut \/ CutLog \/ Final \/ FinalOut
  BY <1>2, <1>7 DEF WriteLog, WriteOut, FlushLog, FlushOut, CutLog, Final, FinalOut
<1>8. CASE Wait \/ WaitFails \/ Report \/ Leave \/ Unwind
  BY <1>2, <1>8 DEF Wait, WaitFails, Report, Leave, Unwind
<1>9. CASE Press \/ Look \/ Forward
  BY <1>2, <1>9 DEF Press, Look, Forward, Interrupt
<1>10. ASSUME NEW s \in Stream, Read(s) PROVE Onward
  BY <1>2, <1>10 DEF Read, SendLine, ReaderEnds
<1>11. CASE UNCHANGED vars
  BY <1>2, <1>11 DEF vars
<1> QED
  BY <1>4, <1>5, <1>6, <1>7, <1>8, <1>9, <1>10, <1>11 DEF Next, Step

\* A write that ends its line goes on doing so.
LEMMA LineStaysEnded ==
    ASSUME TypeOK, Onward, NEW w \in Item, w[2] <= Len(sent[w[1]]), EndsLine(w)
    PROVE  EndsLine(w)'
<1>1. w[1] \in Stream /\ w[2] \in 1..Len(sent[w[1]])
  BY MarkType DEF Item
<1>2. CASE sent[w[1]][w[2]]
  <2>1. sent'[w[1]][w[2]]
    BY <1>1, <1>2 DEF Onward
  <2> QED
    BY <2>1 DEF EndsLine
<1>3. CASE Eof(w[1]) /\ w[2] = Len(sent[w[1]])
  <2>1. ends'[w[1]] = {} /\ w[2] = Len(sent'[w[1]])
    BY <1>1, <1>3 DEF Onward
  <2> QED
    BY <2>1 DEF EndsLine, Eof
<1> QED
  BY <1>2, <1>3 DEF EndsLine

LEMMA MarkStays ==
    ASSUME TypeOK, TypeOK', Onward, NEW m \in Mark
    PROVE  m \in Mark'
<1>1. m \in [Stream -> Nat] /\ \A s \in Stream : m[s] <= Len(sent[s]) /\ Len(sent[s]) \in Nat
  BY MarkType
<1>2. \A s \in Stream : Len(sent'[s]) \in Nat
  BY LenProperties DEF TypeOK
<1>3. \A s \in Stream : m[s] <= Len(sent'[s])
  BY <1>1, <1>2 DEF Onward
<1>4. \A s \in Stream : m[s] \in 0..Written'
  <2> DEFINE a == Len(sent'["out"])
             b == Len(sent'["err"])
  <2>1. Written' = a + b /\ \A s \in Stream : Len(sent'[s]) = a \/ Len(sent'[s]) = b
    BY DEF Written, Stream
  <2>2. a \in Nat /\ b \in Nat
    BY <1>2 DEF Stream
  <2> HIDE DEF a, b
  <2>3. \A s \in Stream : m[s] \in Nat /\ (m[s] <= a \/ m[s] <= b)
    BY <1>1, <1>3, <2>1
  <2> QED
    BY <2>1, <2>2, <2>3
<1>5. m \in [Stream -> 0..Written']
  BY <1>1, <1>4
<1> QED
  BY <1>3, <1>5 DEF Mark

LEMMA HeardStays ==
    ASSUME TypeOK, Onward, NEW m \in Mark, HeardUpTo(m), heard' = heard
    PROVE  HeardUpTo(m)'
<1>1. \A s \in Stream : m[s] <= Len(sent[s]) /\ m[s] \in Nat /\ Len(sent[s]) \in Nat
  BY MarkType
<1>2. heard \in Seq(Item) /\ DOMAIN heard = 1..Len(heard) /\ Len(heard) \in Nat
  BY ItemType, LenProperties
<1>3. \A j \in 1..Len(heard) : heard[j] \in Item /\ heard[j][2] <= Len(sent[heard[j][1]])
  <2> SUFFICES ASSUME NEW j \in 1..Len(heard)
               PROVE  heard[j] \in Item /\ heard[j][2] <= Len(sent[heard[j][1]])
    OBVIOUS
  <2>1. heard[j] \in Item /\ heard[j][2] <= m[heard[j][1]]
    BY <1>2, ElementOfSeq DEF HeardUpTo
  <2>2. heard[j][1] \in Stream /\ heard[j][2] \in Nat
    BY <2>1 DEF Item
  <2> QED
    BY <1>1, <2>1, <2>2
<1>4. \A j \in 1..Len(heard) : EndsLine(heard[j]) => EndsLine(heard[j])'
  <2> SUFFICES ASSUME NEW j \in 1..Len(heard), EndsLine(heard[j]) PROVE EndsLine(heard[j])'
    OBVIOUS
  <2>1. \A w \in Item : w[2] <= Len(sent[w[1]]) /\ EndsLine(w) => EndsLine(w)'
    BY LineStaysEnded
  <2> DEFINE w == heard[j]
  <2>2. w \in Item /\ w[2] <= Len(sent[w[1]]) /\ EndsLine(w) /\ w' = w
    BY <1>3
  <2> HIDE DEF w
  <2>3. EndsLine(w)'
    BY <2>1, <2>2 DEF EndsLine, Eof
  <2> QED
    BY <2>3 DEF w
<1>5. Unsplit(heard)'
  <2>1. Unsplit(heard)
    BY DEF HeardUpTo
  <2>2. \A i \in 1..(Len(heard) - 1) : i \in 1..Len(heard)
    BY <1>2
  <2> QED
    BY <1>4, <2>1, <2>2 DEF Unsplit
<1>6. heard' # <<>> => EndsLine(heard[Len(heard)])'
  <2>1. heard # <<>> => Len(heard) \in 1..Len(heard) /\ EndsLine(heard[Len(heard)])
    BY <1>2, EmptySeq DEF HeardUpTo
  <2> QED
    BY <1>4, <2>1
<1>7. InOrder(heard)'
  BY DEF HeardUpTo, InOrder
<1> QED
  BY <1>5, <1>6, <1>7 DEF HeardUpTo

LEMMA LineStays ==
    ASSUME TypeOK, Onward, NEW m \in Mark, NEW n \in Mark, NEW l, LineBetween(l, m, n)
    PROVE  LineBetween(l, m, n)'
<1>1. PICK s \in Stream :
        /\ m[s] < n[s] /\ n = [m EXCEPT ![s] = n[s]]
        /\ l = Chunk(s, m[s], n[s]) /\ EndsLine(<<s, n[s]>>)
  BY DEF LineBetween
<1>2. m[s] \in Nat /\ n[s] \in Nat /\ n[s] <= Len(sent[s])
  BY MarkType
<1> DEFINE w == <<s, n[s]>>
<1>3. w \in Item /\ w[2] <= Len(sent[w[1]])
  BY <1>1, <1>2 DEF Item
<1>4. EndsLine(w)
  BY <1>1
<1> HIDE DEF w
<1>5. EndsLine(w)'
  BY <1>3, <1>4, LineStaysEnded
<1>6. EndsLine(<<s, n[s]>>)'
  BY <1>5 DEF w
<1> QED
  BY <1>1, <1>6 DEF LineBetween, Chunk

LEMMA StreamsStay ==
    ASSUME TypeOK, TypeOK', Streams, Onward, UNCHANGED <<heard, chan, passed>>
    PROVE  Streams'
<1>1. PICK marks \in [1..(Len(chan) + 1) -> Mark] :
        /\ HeardUpTo(marks[1])
        /\ \A k \in DOMAIN chan : LineBetween(chan[k], marks[k], marks[k + 1])
        /\ marks[Len(chan) + 1] = passed
  BY DEF Streams
<1>2. chan \in Seq(Seq(Item)) /\ DOMAIN chan = 1..Len(chan) /\ Len(chan) \in Nat
  BY LenProperties DEF TypeOK
<1>3. \A k \in 1..(Len(chan) + 1) : marks[k] \in Mark /\ marks[k] \in Mark'
  BY <1>1, MarkStays
<1>4. marks \in [1..(Len(chan) + 1) -> Mark']
  BY <1>1, <1>3
<1>5. 1 \in 1..(Len(chan) + 1) /\ \A k \in DOMAIN chan : {k, k + 1} \subseteq 1..(Len(chan) + 1)
  BY <1>2
<1>6. HeardUpTo(marks[1])'
  <2>1. marks[1] \in Mark /\ HeardUpTo(marks[1])
    BY <1>1, <1>3, <1>5
  <2> QED
    BY <2>1, HeardStays
<1>7. ASSUME NEW k \in DOMAIN chan PROVE LineBetween(chan[k], marks[k], marks[k + 1])'
  <2>1. \A l : LineBetween(l, marks[k], marks[k + 1]) => LineBetween(l, marks[k], marks[k + 1])'
    BY <1>3, <1>5, LineStays
  <2> QED
    BY <1>1, <2>1 DEF LineBetween
<1> QED
  BY <1>1, <1>4, <1>6, <1>7 DEF Streams

\* The spawn finds everything empty.
LEMMA StreamsEmpty ==
    ASSUME TypeOK, Streams, heard = <<>>, chan = <<>>, UNCHANGED <<heard, chan, passed, sent>>
    PROVE  Streams'
<1>1. PICK marks \in [1..(Len(chan) + 1) -> Mark] :
        HeardUpTo(marks[1]) /\ marks[Len(chan) + 1] = passed
  BY DEF Streams
<1>2. Len(chan) = 0 /\ Len(heard) = 0
  BY DEF Streams
<1>3. HeardUpTo(marks[1])'
  <2>1. InOrder(heard)' /\ Unsplit(heard)'
    BY <1>2 DEF InOrder, Unsplit
  <2> QED
    BY <1>1, <1>2, <2>1 DEF HeardUpTo
<1>4. marks \in [1..(Len(chan') + 1) -> Mark']
  BY <1>1 DEF Mark, Written
<1> QED
  BY <1>1, <1>2, <1>3, <1>4 DEF Streams

LEMMA StreamsSend ==
    ASSUME TypeOK, Streams, NEW s \in Stream, SendLine(s)
    PROVE  Streams'
<1>1. PICK marks \in [1..(Len(chan) + 1) -> Mark] :
        /\ HeardUpTo(marks[1])
        /\ \A k \in DOMAIN chan : LineBetween(chan[k], marks[k], marks[k + 1])
        /\ marks[Len(chan) + 1] = passed
  BY DEF Streams
<1>2. PICK n \in 1..Len(sent[s]) :
        /\ n \in (passed[s] + 1)..Len(sent[s])
        /\ sent[s][n] \/ (Eof(s) /\ n = Len(sent[s]))
        /\ chan' = Append(chan, Chunk(s, passed[s], n))
        /\ passed' = [passed EXCEPT ![s] = n]
  BY DEF SendLine, LineEnds
<1>3. UNCHANGED <<sent, ends, heard>>
  BY DEF SendLine, outside, family
<1>4. chan \in Seq(Seq(Item)) /\ DOMAIN chan = 1..Len(chan) /\ Len(chan) \in Nat
  BY LenProperties DEF TypeOK
<1> DEFINE N == Len(chan)
           l == Chunk(s, passed[s], n)
<1>5. /\ passed \in [Stream -> Nat] /\ passed[s] \in Nat /\ n \in Nat /\ passed[s] < n
      /\ n <= Len(sent[s]) /\ \A t \in Stream : passed[t] <= Len(sent[t])
  BY <1>2 DEF TypeOK
<1>6. l \in Seq(Item)
  BY <1>5, ChunkType
<1>7. LineBetween(l, passed, passed')
  <2>1. passed'[s] = n /\ passed[s] < passed'[s] /\ passed' = [passed EXCEPT ![s] = passed'[s]]
    BY <1>2, <1>5
  <2>2. EndsLine(<<s, n>>)
    BY <1>2 DEF EndsLine
  <2> QED
    BY <2>1, <2>2 DEF LineBetween
<1> HIDE DEF l
<1>8. /\ Len(chan') = N + 1 /\ DOMAIN chan' = 1..(N + 1)
      /\ \A k \in 1..N : chan'[k] = chan[k]
      /\ chan'[N + 1] = l
  BY <1>2, <1>4, <1>6, AppendProperties DEF l
<1>9. passed' \in Mark
  <2>1. passed' \in [Stream -> Nat] /\ \A t \in Stream : passed'[t] <= Len(sent[t])
    BY <1>2, <1>5
  <2> QED
    BY <2>1, MarkType
<1>10. PICK next \in [1..(N + 2) -> Mark] :
         next[N + 2] = passed' /\ \A k \in 1..(N + 1) : next[k] = marks[k]
  <2> DEFINE more == [k \in 1..(N + 2) |-> IF k = N + 2 THEN passed' ELSE marks[k]]
  <2>1. \A k \in 1..(N + 2) : k = N + 2 \/ k \in 1..(N + 1)
    BY <1>4
  <2>2. \A k \in 1..(N + 1) : k # N + 2 /\ k \in 1..(N + 2)
    BY <1>4
  <2>3. N + 2 \in 1..(N + 2)
    BY <1>4
  <2>4. /\ more \in [1..(N + 2) -> Mark]
        /\ more[N + 2] = passed' /\ \A k \in 1..(N + 1) : more[k] = marks[k]
    BY <1>1, <1>9, <2>1, <2>2, <2>3
  <2> HIDE DEF more
  <2> QED
    BY <2>4
<1>11. Mark' = Mark
  BY <1>3 DEF Mark, Written
<1>12. HeardUpTo(next[1])'
  <2>1. 1 \in 1..(N + 1)
    BY <1>4
  <2>2. next[1] = marks[1]
    BY <1>10, <2>1
  <2> QED
    BY <1>1, <1>3, <2>2 DEF HeardUpTo, InOrder, Unsplit, EndsLine, Eof
<1>13. ASSUME NEW k \in DOMAIN chan' PROVE LineBetween(chan'[k], next[k], next[k + 1])
  <2>1. CASE k = N + 1
    <3>1. N + 1 \in 1..(N + 1) /\ N + 1 + 1 = N + 2
      BY <1>4
    <3>2. next[k] = passed /\ next[k + 1] = passed' /\ chan'[k] = l
      BY <1>1, <1>8, <1>10, <2>1, <3>1
    <3> QED
      BY <1>7, <3>2
  <2>2. CASE k # N + 1
    <3>1. k \in 1..N /\ {k, k + 1} \subseteq 1..(N + 1)
      BY <1>4, <1>8, <2>2
    <3>2. next[k] = marks[k] /\ next[k + 1] = marks[k + 1] /\ chan'[k] = chan[k]
      BY <1>8, <1>10, <3>1
    <3> QED
      BY <1>1, <1>4, <3>1, <3>2
  <2> QED
    BY <2>1, <2>2
<1>14. \A k \in DOMAIN chan' : LineBetween(chan[k], next[k], next[k + 1])'
  BY <1>3, <1>13 DEF LineBetween, EndsLine, Eof
<1>15. N + 1 + 1 = N + 2
  BY <1>4
<1>16. next \in [1..(Len(chan') + 1) -> Mark'] /\ next[Len(chan') + 1] = passed'
  BY <1>8, <1>10, <1>11, <1>15
<1> QED
  BY <1>12, <1>14, <1>16 DEF Streams

LEMMA StreamsReceive ==
    ASSUME TypeOK, Streams, Receive
    PROVE  Streams' /\ Head(chan) \in Seq(Item) /\ Len(Head(chan)) > 0
<1>1. PICK marks \in [1..(Len(chan) + 1) -> Mark] :
        /\ HeardUpTo(marks[1])
        /\ \A k \in DOMAIN chan : LineBetween(chan[k], marks[k], marks[k + 1])
        /\ marks[Len(chan) + 1] = passed
  BY DEF Streams
<1>2. /\ chan # <<>> /\ heard' = heard \o Head(chan) /\ chan' = Tail(chan)
      /\ UNCHANGED <<sent, ends, passed>>
  BY DEF Receive, outside, family, readers
<1>3. /\ chan \in Seq(Seq(Item)) /\ DOMAIN chan = 1..Len(chan) /\ Len(chan) \in Nat
      /\ Len(chan) > 0
  BY <1>2, LenProperties, EmptySeq DEF TypeOK
<1>4. /\ Len(chan') = Len(chan) - 1 /\ DOMAIN chan' = 1..(Len(chan) - 1)
      /\ \A k \in 1..(Len(chan) - 1) : chan'[k] = chan[k + 1]
      /\ Head(chan) = chan[1] /\ Head(chan) \in Seq(Item)
  BY <1>2, <1>3, HeadTailProperties, LenProperties
<1> DEFINE l == Head(chan)
<1>5. 1 \in 1..Len(chan) /\ {1, 2} \subseteq 1..(Len(chan) + 1)
  BY <1>3
<1>6. marks[1] \in Mark /\ marks[2] \in Mark /\ LineBetween(l, marks[1], marks[2])
  <2>1. 1 + 1 = 2
    OBVIOUS
  <2> QED
    BY <1>1, <1>3, <1>4, <1>5, <2>1
<1>7. l \in Seq(Item) /\ heard' = Then(heard, l)
  BY <1>2, <1>4 DEF Then
<1>8. Len(l) > 0
  <2>1. PICK s \in Stream : marks[1][s] < marks[2][s] /\ l = Chunk(s, marks[1][s], marks[2][s])
    BY <1>6 DEF LineBetween
  <2>2. marks[1][s] \in Nat /\ marks[2][s] \in Nat
    BY <1>6, MarkType
  <2>3. Len(l) = marks[2][s] - marks[1][s]
    BY <2>1, <2>2, ChunkType
  <2> QED
    BY <2>1, <2>2, <2>3
<1> HIDE DEF l
<1>9. HeardUpTo(marks[2])'
  <2>1. HeardUpTo(marks[1])
    BY <1>1
  <2> QED
    BY <1>2, <1>6, <1>7, <2>1, HeardMore
<1>10. PICK next \in [1..Len(chan) -> Mark] : \A k \in 1..Len(chan) : next[k] = marks[k + 1]
  <2> DEFINE rest == [k \in 1..Len(chan) |-> marks[k + 1]]
  <2>1. \A k \in 1..Len(chan) : k + 1 \in 1..(Len(chan) + 1)
    BY <1>3
  <2>2. rest \in [1..Len(chan) -> Mark] /\ \A k \in 1..Len(chan) : rest[k] = marks[k + 1]
    BY <1>1, <2>1
  <2> HIDE DEF rest
  <2> QED
    BY <2>2
<1>11. next[1] = marks[2]
  <2>1. 1 + 1 = 2
    OBVIOUS
  <2> QED
    BY <1>5, <1>10, <2>1
<1>12. ASSUME NEW k \in DOMAIN chan' PROVE LineBetween(chan'[k], next[k], next[k + 1])
  <2>1. k \in 1..(Len(chan) - 1) /\ {k, k + 1} \subseteq 1..Len(chan)
    BY <1>3, <1>4
  <2>2. chan'[k] = chan[k + 1] /\ next[k] = marks[k + 1] /\ next[k + 1] = marks[k + 1 + 1]
    BY <1>4, <1>10, <2>1
  <2> QED
    BY <1>1, <1>3, <2>1, <2>2
<1>13. \A k \in DOMAIN chan' : LineBetween(chan[k], next[k], next[k + 1])'
  BY <1>2, <1>12 DEF LineBetween, EndsLine, Eof
<1>14. Len(chan) \in 1..Len(chan) /\ Len(chan) - 1 + 1 = Len(chan)
  BY <1>3
<1>15. Mark' = Mark
  BY <1>2 DEF Mark, Written
<1>16. next \in [1..(Len(chan') + 1) -> Mark'] /\ next[Len(chan') + 1] = passed'
  BY <1>1, <1>2, <1>4, <1>10, <1>14, <1>15
<1>17. HeardUpTo(next[1])'
  BY <1>9, <1>11
<1> QED
  BY <1>4, <1>8, <1>13, <1>16, <1>17 DEF Streams, l

-----------------------------------------------------------------------------
(* The log.                                                                *)

\* Where nothing may wait in the log's buffer.
Flushed == {"announce", "spawn", "setpid", "finalout", "wait", "report", "leave"}

LEMMA BeginningOf ==
    ASSUME NEW s \in Seq(Item), NEW t \in Seq(Item)
    PROVE  IsPrefix(s, t) <=> Extends(t, s, Item)
  BY PrefixExtends DEF IsPrefix

LEMMA LogBegins ==
    ASSUME TypeOK
    PROVE  /\ InLog = Then(logged, logbuf) /\ InOut = Then(shown, outbuf)
           /\ {InLog, InOut} \subseteq Seq(Item)
           /\ IsPrefix(InLog, heard) <=> Extends(heard, InLog, Item)
           /\ IsPrefix(InOut, heard) <=> Extends(heard, InOut, Item)
<1>1. InLog = Then(logged, logbuf) /\ InOut = Then(shown, outbuf)
  BY DEF InLog, InOut, Then
<1>2. InLog \in Seq(Item) /\ InOut \in Seq(Item) /\ heard \in Seq(Item)
  BY <1>1, ItemType, ThenIsSeq
<1> QED
  BY <1>1, <1>2, BeginningOf

\* A step that does not touch the log, nor what has been received.
LEMMA LogStays ==
    ASSUME LogHas, UNCHANGED <<logVars, line, heard>>,
           \/ pc' = pc
           \/ pc' = "quit"
           \/ /\ pc \notin {"log", "done", "crashed", "quit"} /\ pc' \notin {"log", "done"}
              /\ pc' \in Flushed => pc \in Flushed
    PROVE  LogHas'
<1>1. IsPrefix(InLog, heard)' /\ InLog' = InLog
  BY DEF LogHas, InLog, logVars
<1>2. (sink = "open" /\ Running => heard = IF pc = "log" THEN InLog \o line ELSE InLog)'
  <2>1. sink = "open" /\ Running => heard = IF pc = "log" THEN InLog \o line ELSE InLog
    BY DEF LogHas
  <2> QED
    BY <1>1, <2>1 DEF Running, logVars
<1>3. (sink = "open" /\ pc \in Flushed => logbuf = <<>>)'
  BY DEF LogHas, Flushed, logVars
<1>4. (sink = "open" /\ pc = "done" => logged = heard)'
  BY DEF LogHas, logVars
<1> QED
  BY <1>1, <1>2, <1>3, <1>4 DEF LogHas, Flushed

\* A write, or a flush.
LEMMA LogWritten ==
    ASSUME TypeOK, TypeOK', LogHas, Running, UNCHANGED <<line, heard>>,
           NEW data, NEW whole \in BOOLEAN, NEW next, Log(data, whole, next),
           data = IF pc = "log" THEN line ELSE <<>>,
           next \notin {"log", "done"}, next \in Flushed => whole
    PROVE  LogHas' /\ Extends(logged', logged, Item)
<1>1. data \in Seq(Item) /\ {line, heard, logged, logbuf} \subseteq Seq(Item)
  BY ItemType
<1>2. /\ logged' \in Seq(Item) /\ logbuf' \in Seq(Item)
      /\ Extends(logged', logged, Item)
      /\ \/ /\ sink # "open" /\ UNCHANGED logVars /\ pc' = next
         \/ /\ sink = "open" /\ sink' = "open" /\ pc' = next
            /\ Then(logged', logbuf') = Then(Then(logged, logbuf), data)
            /\ whole => logbuf' = <<>>
         \/ /\ sink = "open" /\ sink' = "lost" /\ pc' \in {next, "panic"}
            /\ logbuf' = <<>>
            /\ Extends(Then(Then(logged, logbuf), data), logged', Item)
  BY <1>1, LogStep
<1>3. InLog = Then(logged, logbuf) /\ InLog \in Seq(Item) /\ Extends(heard, InLog, Item)
  BY LogBegins DEF LogHas
<1>4. InLog' = Then(logged', logbuf') /\ InLog' \in Seq(Item)
  BY <1>2, ThenIsSeq DEF InLog, Then
<1>5. ASSUME sink = "open" PROVE Then(InLog, data) = heard
  <2>1. CASE pc = "log"
    BY <1>5, <2>1 DEF LogHas, Then
  <2>2. CASE pc # "log"
    <3>1. heard = InLog /\ data = <<>>
      BY <1>5, <2>2 DEF LogHas
    <3> QED
      BY <1>3, <3>1, ThenNothing
  <2> QED
    BY <2>1, <2>2
<1>6. Extends(heard, heard, Item)
  BY <1>1, ThenNothing DEF Extends
<1>7. Extends(heard', InLog', Item)
  <2>1. CASE sink # "open"
    BY <1>2, <1>3, <2>1 DEF InLog, logVars
  <2>2. CASE sink = "open" /\ sink' = "open"
    BY <1>2, <1>3, <1>4, <1>5, <1>6, <2>2
  <2>3. CASE sink = "open" /\ sink' = "lost"
    <3>1. Extends(heard, logged', Item) /\ logbuf' = <<>>
      BY <1>2, <1>3, <1>5, <2>3
    <3>2. InLog' = logged'
      BY <1>2, <1>4, <3>1, ThenNothing
    <3> QED
      BY <3>1, <3>2
  <2> QED
    BY <1>2, <2>1, <2>2, <2>3
<1>8. IsPrefix(InLog, heard)'
  <2>1. IsPrefix(InLog', heard')
    BY <1>1, <1>4, <1>7, BeginningOf
  <2> QED
    BY <2>1
<1>9. ASSUME sink' = "open"
      PROVE  heard' = InLog' /\ pc' = next /\ (next \in Flushed => logbuf' = <<>>)
  BY <1>2, <1>3, <1>4, <1>5, <1>9 DEF logVars
<1>10. (sink = "open" /\ Running => heard = IF pc = "log" THEN InLog \o line ELSE InLog)'
  BY <1>9
<1>11. (sink = "open" /\ pc \in Flushed => logbuf = <<>>)' /\ (sink = "open" /\ pc = "done" => logged = heard)'
  BY <1>9
<1> QED
  BY <1>2, <1>8, <1>10, <1>11 DEF LogHas, Flushed

\* A line is taken from the channel.
LEMMA LogReceive ==
    ASSUME TypeOK, TypeOK', LogHas, Receive, Head(chan) \in Seq(Item)
    PROVE  LogHas'
<1>1. /\ heard' = Then(heard, line') /\ line' = Head(chan) /\ UNCHANGED logVars
      /\ pc' = "log" /\ Running /\ pc # "log"
  BY DEF Receive, Goto, Running, Then
<1>2. InLog \in Seq(Item) /\ Extends(heard, InLog, Item) /\ heard \in Seq(Item)
  BY LogBegins, ItemType DEF LogHas
<1>3. InLog' = InLog
  BY <1>1 DEF InLog, logVars
<1>4. Extends(heard', heard, Item)
  BY <1>1 DEF Extends
<1>5. Extends(heard', InLog, Item) /\ heard' \in Seq(Item)
  BY <1>1, <1>2, <1>4, Further, ThenIsSeq
<1>6. IsPrefix(InLog, heard)'
  <2>1. IsPrefix(InLog', heard')
    BY <1>2, <1>3, <1>5, BeginningOf
  <2> QED
    BY <2>1
<1>7. sink' = "open" => heard' = Then(InLog', line')
  BY <1>1, <1>3 DEF LogHas, logVars
<1> QED
  BY <1>1, <1>6, <1>7 DEF LogHas, Then

\* Out is dropped, at the end or on the way out of a panic.
LEMMA LogDropped ==
    ASSUME TypeOK, TypeOK', LogHas, heard' = heard, DropSink, pc' \in {"done", "crashed"},
           pc' = "done" => pc = "leave"
    PROVE  LogHas' /\ Extends(logged', logged, Item)
<1>1. {heard, logged, logbuf, logged', logbuf'} \subseteq Seq(Item)
  BY DEF TypeOK
<1>2. /\ logged' = (IF disk = "ok" THEN Then(logged, logbuf) ELSE logged)
      /\ logbuf' = <<>> /\ sink' = sink
  BY DEF DropSink, Then
<1>3. InLog = Then(logged, logbuf) /\ Extends(heard, InLog, Item)
  BY LogBegins DEF LogHas
<1>4. InLog' = Then(logged', logbuf') /\ Then(logged', logbuf') = logged'
  BY <1>1, <1>2, ThenNothing DEF InLog, Then
<1>5. Extends(InLog, logged, Item)
  BY <1>1, <1>3 DEF Extends
<1>6. Extends(heard, logged', Item) /\ Extends(logged', logged, Item)
  <2>1. CASE disk = "ok"
    BY <1>2, <1>3, <1>5, <2>1
  <2>2. CASE disk # "ok"
    <3>1. logged' = logged
      BY <1>2, <2>2
    <3>2. Extends(logged, logged, Item)
      BY <1>1, ThenNothing DEF Extends
    <3>3. Extends(heard, logged, Item)
      BY <1>1, <1>3, <1>5, Further
    <3> QED
      BY <3>1, <3>2, <3>3
  <2> QED
    BY <2>1, <2>2
<1>7. IsPrefix(InLog, heard)'
  <2>1. IsPrefix(InLog', heard')
    BY <1>1, <1>4, <1>6, BeginningOf
  <2> QED
    BY <2>1
<1>8. ASSUME sink' = "open", pc' = "done" PROVE logged' = heard'
  <2>1. logbuf = <<>> /\ heard = InLog
    BY <1>2, <1>8 DEF LogHas, Running
  <2>2. InLog = logged
    BY <1>1, <1>3, <2>1, ThenNothing
  <2>3. logged' = logged
    BY <1>2, <1>3, <2>2
  <2> QED
    BY <2>1, <2>2, <2>3
<1> QED
  BY <1>6, <1>7, <1>8 DEF LogHas, Running

-----------------------------------------------------------------------------
(* stdout.                                                                 *)

\* Where the last line has been handed to stdout, or there was none.
Settled == {"recv", "flush", "flushout", "block", "final", "finalout"}

\* A step that does not touch stdout, nor what has been received.
LEMMA OutStays ==
    ASSUME OutHas, UNCHANGED <<outVars, line, heard, mode>>,
           \/ pc' = pc
           \/ mode.quiet => pc' \notin {"out", "flushout", "finalout"},
           \/ mode.quiet
           \/ /\ pc' \in {"log", "out"} => pc \in {"log", "out"}
              /\ pc' \in Settled => pc \in Settled \/ InOut = heard
              /\ pc' = "wait" \/ child' = "reaped" => pc = "wait" \/ child = "reaped"
    PROVE  OutHas'
<1>1. IsPrefix(InOut, heard)' /\ InOut' = InOut
  BY DEF OutHas, InOut, outVars
<1>2. (mode.quiet => pc \notin {"out", "flushout", "finalout"})'
  BY DEF OutHas
<1>3. ASSUME ~mode.quiet, pc' \in {"log", "out"} PROVE heard' = InOut' \o line'
  BY <1>1, <1>3 DEF OutHas
<1>4. ASSUME ~mode.quiet, pc' \in Settled PROVE heard' = InOut'
  BY <1>1, <1>4 DEF OutHas, Settled
<1>5. ASSUME ~mode.quiet, pc' = "wait" \/ child' = "reaped" PROVE heard' = shown' /\ outbuf' = <<>>
  BY <1>5 DEF OutHas, outVars
<1> QED
  BY <1>1, <1>2, <1>3, <1>4, <1>5 DEF OutHas, Settled

\* A write, or a flush.
LEMMA OutWritten ==
    ASSUME TypeOK, TypeOK', OutHas, pc \in {"out", "flushout", "finalout"},
           UNCHANGED <<mode, line, heard, child>>, child # "reaped",
           NEW data, NEW whole \in BOOLEAN, NEW next, NEW left, NEW broken,
           Put(data, whole, next, left, broken),
           data = IF pc = "out" THEN line ELSE <<>>,
           next \in {"recv", "block", "wait"}, next = "wait" => whole,
           {left, broken} \cap (Settled \cup {"log", "out", "wait"}) = {}
    PROVE  OutHas' /\ Extends(shown', shown, Item)
<1>1. data \in Seq(Item) /\ {line, heard, shown, outbuf} \subseteq Seq(Item)
  BY ItemType
<1>2. /\ shown' \in Seq(Item) /\ outbuf' \in Seq(Item)
      /\ Extends(shown', shown, Item)
      /\ \/ /\ pc' = next
            /\ Then(shown', outbuf') = Then(Then(shown, outbuf), data)
            /\ whole => outbuf' = <<>>
         \/ Refused(left, broken)
  BY <1>1, PutStep
<1>3. InOut = Then(shown, outbuf) /\ InOut \in Seq(Item) /\ Extends(heard, InOut, Item)
  BY LogBegins DEF OutHas
<1>4. InOut' = Then(shown', outbuf') /\ InOut' \in Seq(Item)
  BY <1>2, ThenIsSeq DEF InOut, Then
<1>5. Then(InOut, data) = heard /\ ~mode.quiet
  <2>1. CASE pc = "out"
    BY <2>1 DEF OutHas, Then
  <2>2. CASE pc # "out"
    <3>1. heard = InOut /\ data = <<>> /\ ~mode.quiet
      BY <2>2 DEF OutHas
    <3> QED
      BY <1>3, <3>1, ThenNothing
  <2> QED
    BY <2>1, <2>2
<1>6. CASE /\ pc' = next /\ Then(shown', outbuf') = Then(Then(shown, outbuf), data)
           /\ whole => outbuf' = <<>>
  <2>1. InOut' = heard
    BY <1>3, <1>4, <1>5, <1>6
  <2>2. IsPrefix(InOut, heard)'
    <3>1. Extends(heard, heard, Item)
      BY <1>1, ThenNothing DEF Extends
    <3>2. IsPrefix(InOut', heard')
      BY <1>1, <1>4, <2>1, <3>1, BeginningOf
    <3> QED
      BY <3>2
  <2>3. pc' = "wait" => outbuf' = <<>> /\ shown' = heard
    <3>1. ASSUME outbuf' = <<>> PROVE shown' = InOut'
      BY <1>2, <1>4, <3>1, ThenNothing
    <3> QED
      BY <1>6, <2>1, <3>1
  <2> QED
    BY <1>2, <1>5, <1>6, <2>1, <2>2, <2>3 DEF OutHas
<1>7. CASE Refused(left, broken)
  <2>1. UNCHANGED outVars /\ pc' \notin Settled \cup {"log", "out", "wait"}
    BY <1>7 DEF Refused, Settled
  <2> QED
    BY <1>2, <1>5, <2>1, OutStays
<1> QED
  BY <1>2, <1>6, <1>7

LEMMA OutReceive ==
    ASSUME TypeOK, TypeOK', OutHas, Receive, Head(chan) \in Seq(Item), child # "reaped"
    PROVE  OutHas'
<1>1. /\ heard' = Then(heard, line') /\ line' = Head(chan)
      /\ UNCHANGED <<outVars, child, mode>>
      /\ pc' = "log" /\ pc \in {"recv", "block"}
  BY DEF Receive, Goto, Then, family, outside
<1>2. InOut \in Seq(Item) /\ Extends(heard, InOut, Item) /\ heard \in Seq(Item)
  BY LogBegins, ItemType DEF OutHas
<1>3. InOut' = InOut
  BY <1>1 DEF InOut, outVars
<1>4. Extends(heard', heard, Item)
  BY <1>1 DEF Extends
<1>5. Extends(heard', InOut, Item) /\ heard' \in Seq(Item)
  BY <1>1, <1>2, <1>4, Further, ThenIsSeq
<1>6. IsPrefix(InOut, heard)'
  <2>1. IsPrefix(InOut', heard')
    BY <1>2, <1>3, <1>5, BeginningOf
  <2> QED
    BY <2>1
<1>7. ~mode.quiet => heard' = Then(InOut', line')
  BY <1>1, <1>3 DEF OutHas
<1> QED
  BY <1>1, <1>6, <1>7 DEF OutHas, Then

LEMMA OutDropped ==
    ASSUME TypeOK, TypeOK', OutHas, UNCHANGED <<mode, child, heard>>,
           shown' = IF reader = "there" THEN shown \o outbuf ELSE shown,
           outbuf' = <<>>, pc' \in {"done", "crashed"}
    PROVE  OutHas' /\ Extends(shown', shown, Item)
<1>1. {heard, shown, outbuf, shown', outbuf'} \subseteq Seq(Item)
  BY DEF TypeOK
<1>2. shown' = IF reader = "there" THEN Then(shown, outbuf) ELSE shown
  BY DEF Then
<1>3. InOut = Then(shown, outbuf) /\ Extends(heard, InOut, Item)
  BY LogBegins DEF OutHas
<1>4. InOut' = Then(shown', outbuf') /\ Then(shown', outbuf') = shown'
  BY <1>1, ThenNothing DEF InOut, Then
<1>5. Extends(InOut, shown, Item)
  BY <1>1, <1>3 DEF Extends
<1>6. Extends(heard, shown', Item) /\ Extends(shown', shown, Item)
  <2>1. CASE reader = "there"
    BY <1>2, <1>3, <1>5, <2>1
  <2>2. CASE reader # "there"
    <3>1. shown' = shown
      BY <1>2, <2>2
    <3>2. Extends(shown, shown, Item)
      BY <1>1, ThenNothing DEF Extends
    <3>3. Extends(heard, shown, Item)
      BY <1>1, <1>3, <1>5, Further
    <3> QED
      BY <3>1, <3>2, <3>3
  <2> QED
    BY <2>1, <2>2
<1>7. IsPrefix(InOut, heard)'
  <2>1. IsPrefix(InOut', heard')
    BY <1>1, <1>4, <1>6, BeginningOf
  <2> QED
    BY <2>1
<1>8. ASSUME ~mode.quiet, child' = "reaped" PROVE heard' = shown' /\ outbuf' = <<>>
  <2>1. heard = shown /\ outbuf = <<>>
    BY <1>8 DEF OutHas
  <2>2. Then(shown, outbuf) = shown
    BY <1>1, <2>1, ThenNothing
  <2> QED
    BY <1>2, <2>1, <2>2
<1> QED
  BY <1>6, <1>7, <1>8 DEF OutHas

-----------------------------------------------------------------------------
(* The start, and the ends.                                                *)

\* Only these touch what the readers and the channel hold.
LEMMA WhoReads ==
    ASSUME [Next]_vars
    PROVE  \/ UNCHANGED <<passed, ended, chan, line, heard>>
           \/ Receive
           \/ \E s \in Stream : Read(s)
<1> USE DEF readers, queue
<1>1. CASE Announce \/ Spawn \/ SpawnFails \/ SetPid \/ Finish \/ RanDry \/ StopChild
  BY <1>1 DEF Announce, Spawn, SpawnFails, SetPid, Finish, RanDry, StopChild
<1>2. CASE WriteLog \/ WriteOut \/ FlushLog \/ FlushOut \/ CutLog \/ Final \/ FinalOut
  BY <1>2 DEF WriteLog, WriteOut, FlushLog, FlushOut, CutLog, Final, FinalOut
<1>3. CASE Wait \/ WaitFails \/ Report \/ Leave \/ Unwind
  BY <1>3 DEF Wait, WaitFails, Report, Leave, Unwind
<1>4. CASE Press \/ Look \/ Forward \/ Others
  BY <1>4 DEF Press, Look, Forward, Others
<1>5. CASE UNCHANGED vars
  BY <1>5 DEF vars
<1> QED
  BY <1>1, <1>2, <1>3, <1>4, <1>5 DEF Next, Step

\* A reader that has ended stays where it is, and so does the stream.
LEMMA ReadersGoOn ==
    ASSUME TypeOK, Begun, Closed, [Next]_vars
    PROVE  /\ Closed'
           /\ ended = Stream /\ chan = <<>> => ended' = Stream /\ chan' = <<>>
<1>1. CASE ~childpid
  <2>1. ended = {} /\ chan = <<>>
    BY <1>1 DEF Begun
  <2>2. ended' = {}
    BY <1>1, <2>1, WhoReads DEF Receive, Read, SendLine, ReaderEnds, readers
  <2> QED
    BY <2>1, <2>2 DEF Closed, Stream
<1>2. CASE childpid
  <2>1. Onward
    BY <1>2, StreamsGoOn DEF Begun, Spawn
  <2>2. ended \subseteq Stream
    BY DEF TypeOK
  <2>3. ASSUME UNCHANGED <<passed, ended>>, chan = <<>> => chan' = <<>>
        PROVE  /\ Closed'
               /\ ended = Stream /\ chan = <<>> => ended' = Stream /\ chan' = <<>>
    BY <2>1, <2>2, <2>3 DEF Closed, Onward, Eof
  <2>4. ASSUME NEW s \in Stream, SendLine(s)
        PROVE  /\ Closed'
               /\ ended = Stream /\ chan = <<>> => ended' = Stream /\ chan' = <<>>
    <3>1. PICK n \in (passed[s] + 1)..Len(sent[s]) : passed' = [passed EXCEPT ![s] = n]
      BY <2>4 DEF SendLine, LineEnds
    <3>2. passed[s] \in Nat /\ passed \in [Stream -> Nat] /\ Len(sent[s]) \in Nat
      BY MarkType DEF TypeOK
    <3>3. passed[s] # Len(sent[s])
      BY <3>1, <3>2
    <3>4. s \notin ended
      BY <3>3 DEF Closed
    <3>5. \A t \in ended : passed'[t] = passed[t]
      BY <2>2, <3>1, <3>2, <3>4
    <3>6. UNCHANGED <<sent, ends, ended>>
      BY <2>4 DEF SendLine, outside, family
    <3> QED
      BY <3>4, <3>5, <3>6 DEF Closed, Eof
  <2>5. ASSUME NEW s \in Stream, ReaderEnds(s)
        PROVE  /\ Closed'
               /\ ended = Stream /\ chan = <<>> => ended' = Stream /\ chan' = <<>>
    <3>1. /\ ended' = ended \cup {s} /\ Eof(s) /\ passed[s] = Len(sent[s])
          /\ UNCHANGED <<sent, ends, passed, chan>>
      BY <2>5 DEF ReaderEnds, outside, family, queue
    <3> QED
      BY <3>1 DEF Closed, Eof
  <2>6. CASE Receive
    <3>1. UNCHANGED <<passed, ended>> /\ chan # <<>>
      BY <2>6 DEF Receive, readers
    <3> QED
      BY <2>3, <3>1
  <2> QED
    BY <2>3, <2>4, <2>5, <2>6, WhoReads DEF Read
<1> QED
  BY <1>1, <1>2

LEMMA ControlGoesOn ==
    ASSUME TypeOK, Begun, Closed, Ending, [Next]_vars,
           mode.quiet => pc \notin {"out", "flushout", "finalout"}
    PROVE  Begun' /\ Ending'
<1> USE DEF outside, peers, family, readers, queue, ctrlc, Goto
<1>0. ended = Stream /\ chan = <<>> => ended' = Stream /\ chan' = <<>>
  BY ReadersGoOn
<1>1. CASE Announce \/ Spawn \/ SpawnFails \/ SetPid
  BY <1>1 DEF Announce, Spawn, SpawnFails, SetPid, Say, Begun, Ending, LoopOver
<1>2. CASE Finish \/ RanDry
  BY <1>2 DEF Finish, RanDry, Disconnected, Begun, Ending, LoopOver
<1>3. CASE Wait \/ WaitFails
  <2>1. /\ pc = "wait" /\ pc' \in {"report", "panic"}
        /\ UNCHANGED <<mode, reader, status, childpid, ended, chan, heard>>
    BY <1>3 DEF Wait, WaitFails, Say, peers
  <2>2. \/ child' = "reaped" /\ code' = StatusCode(status)
        \/ child = "zombie" /\ child' = "zombie"
    BY <1>3 DEF Wait, WaitFails
  <2>3. Begun'
    BY <2>1, <2>2 DEF Begun
  <2>4. StatusCode(status)' = StatusCode(status)
    BY <2>1
  <2> QED
    BY <2>1, <2>2, <2>3, <2>4 DEF Ending, LoopOver
<1>4. CASE StopChild
  BY <1>4, <1>0 DEF StopChild, Killed, Begun, Ending, LoopOver
<1>5. CASE Report
  BY <1>5 DEF Report, ReportLog, Say, Begun, Ending, LoopOver
<1>6. CASE WriteLog \/ FlushLog \/ Final \/ CutLog
  <2>1. /\ \/ pc = "log" /\ pc' \in {"recv", "out", "panic"}
           \/ pc = "flush" /\ pc' \in {"block", "flushout", "panic"}
           \/ pc = "final" /\ pc' \in {"wait", "finalout", "panic"}
           \/ pc = "cut" /\ pc' \in {"leave", "panic"}
           \/ pc = "cutreport" /\ pc' \in {"report", "panic"}
    BY <1>6, ItemType, LogType DEF WriteLog, FlushLog, Final, CutLog
  <2>2. UNCHANGED <<mode, reader, child, status, foreign, childpid, ended, chan, heard>>
    BY <1>6 DEF WriteLog, FlushLog, Final, CutLog, peers
  <2> QED
    BY <2>1, <2>2 DEF Begun, Ending, LoopOver
<1>7. CASE WriteOut \/ FlushOut \/ FinalOut
  <2>1. /\ \/ pc = "out" /\ pc' \in {"recv", "epipe", "stdouterror", "panic"}
           \/ pc = "flushout" /\ pc' \in {"block", "epipe", "stdouterror", "panic"}
           \/ pc = "finalout" /\ pc' \in {"wait", "leave", "report", "panic"}
        /\ pc' \in {"epipe", "stdouterror"} => reader # "there"
    BY <1>7, PutPlaces DEF WriteOut, FlushOut, FinalOut
  <2>2. UNCHANGED <<mode, reader, child, status, foreign, childpid, ended, chan, heard>>
    BY <1>7 DEF WriteOut, FlushOut, FinalOut, peers
  <2> QED
    BY <2>1, <2>2 DEF Begun, Ending, LoopOver
<1>8. CASE Leave \/ Unwind
  BY <1>8 DEF Leave, Unwind, Begun, Ending, LoopOver
<1>9. CASE Receive
  BY <1>9 DEF Receive, Begun, Ending, LoopOver
<1>10. CASE Press \/ Look \/ Forward
  BY <1>10 DEF Press, Look, Forward, Interrupt, Begun, Ending, LoopOver
<1>11. CASE Others
  <2>1. /\ UNCHANGED <<mode, pc, code, childpid, ended, chan, heard>>
        /\ reader # "there" => reader' # "there"
    BY <1>11 DEF Others, ReaderLeaves, DiskFills, TerminalCloses, peers
  <2>2. \/ UNCHANGED <<child, status>> /\ (foreign => foreign')
        \/ child \in {"run", "killed"} /\ child' = "zombie"
    BY <1>11 DEF Others, Dies
  <2> QED
    BY <2>1, <2>2 DEF Begun, Ending, LoopOver
<1>12. ASSUME NEW s \in Stream, Read(s) PROVE Begun' /\ Ending'
  BY <1>0, <1>12 DEF Read, SendLine, ReaderEnds, Begun, Ending, LoopOver
<1>13. CASE UNCHANGED vars
  BY <1>13 DEF vars, Begun, Ending, LoopOver
<1> QED
  BY <1>1, <1>2, <1>3, <1>4, <1>5, <1>6, <1>7, <1>8, <1>9, <1>10, <1>11, <1>12, <1>13
  DEF Next, Step

-----------------------------------------------------------------------------
(* Every step.                                                             *)

LEMMA StreamsGo ==
    ASSUME TypeOK, TypeOK', Streams, Begun, [Next]_vars
    PROVE  Streams'
<1>1. CASE Receive
  BY <1>1, StreamsReceive
<1>2. ASSUME NEW s \in Stream, SendLine(s) PROVE Streams'
  BY <1>2, StreamsSend
<1>3. CASE UNCHANGED <<passed, ended, chan, line, heard>>
  <2>1. CASE Spawn
    <3>1. UNCHANGED sent /\ heard = <<>> /\ chan = <<>>
      BY <2>1 DEF Spawn, outside, Begun
    <3> QED
      BY <1>3, <3>1, StreamsEmpty
  <2>2. CASE ~Spawn
    BY <1>3, <2>2, StreamsGoOn, StreamsStay
  <2> QED
    BY <2>1, <2>2
<1>4. ASSUME NEW s \in Stream, ReaderEnds(s) PROVE Streams'
  <2>1. UNCHANGED <<passed, chan, heard>> /\ ~Spawn
    BY <1>4 DEF ReaderEnds, queue, Begun, Spawn
  <2> QED
    BY <2>1, StreamsGoOn, StreamsStay
<1> QED
  BY <1>1, <1>2, <1>3, <1>4, WhoReads DEF Read

\* Neither destination is touched.
LEMMA NoWrite ==
    ASSUME TypeOK, Begun, LogHas, OutHas, [Next]_vars,
           UNCHANGED <<logVars, outVars, line, heard, mode>>,
           \/ Announce \/ Spawn \/ SpawnFails \/ SetPid \/ Finish \/ RanDry
           \/ StopChild \/ Wait \/ WaitFails \/ Report
           \/ Press \/ Look \/ Forward \/ Others \/ UNCHANGED vars
           \/ \E s \in Stream : Read(s)
    PROVE  LogHas' /\ OutHas'
<1>1. \/ pc' = pc
      \/ pc' = "quit"
      \/ /\ pc \notin {"log", "done", "crashed", "quit"} /\ pc' \notin {"log", "done"}
         /\ pc' \in Flushed => pc \in Flushed
  <2>1. CASE Announce \/ Spawn \/ SpawnFails \/ SetPid \/ Finish \/ RanDry
    BY <2>1 DEF Announce, Spawn, SpawnFails, SetPid, Finish, RanDry, Say, Goto, Flushed
  <2>2. CASE StopChild \/ Wait \/ WaitFails \/ Report
    BY <2>2 DEF StopChild, Wait, WaitFails, Report, ReportLog, Say, Goto, Flushed
  <2>3. CASE Press \/ Look \/ Forward \/ Others \/ UNCHANGED vars \/ \E s \in Stream : Read(s)
    BY <2>3 DEF Press, Look, Forward, Others, vars, Read, SendLine, ReaderEnds, Goto
  <2> QED
    BY <2>1, <2>2, <2>3
<1>2. LogHas'
  BY <1>1, LogStays
<1>3. \/ pc' = pc
      \/ mode.quiet => pc' \notin {"out", "flushout", "finalout"}
  <2>1. CASE Announce \/ Spawn \/ SpawnFails \/ SetPid \/ Finish \/ RanDry
    BY <2>1 DEF Announce, Spawn, SpawnFails, SetPid, Finish, RanDry, Say, Goto
  <2>2. CASE StopChild \/ Wait \/ WaitFails \/ Report
    BY <2>2 DEF StopChild, Wait, WaitFails, Report, ReportLog, Say, Goto
  <2>3. CASE Press \/ Look \/ Forward \/ Others \/ UNCHANGED vars \/ \E s \in Stream : Read(s)
    BY <2>3 DEF Press, Look, Forward, Others, vars, Read, SendLine, ReaderEnds, Goto
  <2> QED
    BY <2>1, <2>2, <2>3
<1>4. pc' \in {"log", "out"} => pc \in {"log", "out"}
  <2>1. CASE Announce \/ Spawn \/ SpawnFails \/ SetPid \/ Finish \/ RanDry
    BY <2>1 DEF Announce, Spawn, SpawnFails, SetPid, Finish, RanDry, Say, Goto
  <2>2. CASE StopChild \/ Wait \/ WaitFails \/ Report
    BY <2>2 DEF StopChild, Wait, WaitFails, Report, ReportLog, Say, Goto
  <2>3. CASE Press \/ Look \/ Forward \/ Others \/ UNCHANGED vars \/ \E s \in Stream : Read(s)
    BY <2>3 DEF Press, Look, Forward, Others, vars, Read, SendLine, ReaderEnds, Goto
  <2> QED
    BY <2>1, <2>2, <2>3
<1>5. pc' \in Settled => pc \in Settled \/ InOut = heard
  <2>1. CASE SetPid
    <3>1. heard = <<>>
      BY <2>1 DEF SetPid, Begun
    <3>2. InOut \in Seq(Item) /\ Extends(<<>>, InOut, Item)
      BY <3>1, LogBegins DEF OutHas
    <3>3. Len(InOut) <= 0 /\ Len(InOut) \in Nat
      BY <3>2, Longer, LenProperties
    <3> QED
      BY <3>1, <3>2, <3>3, EmptySeq
  <2>2. CASE Announce \/ Spawn \/ SpawnFails \/ Finish \/ RanDry
    BY <2>2 DEF Announce, Spawn, SpawnFails, Finish, RanDry, Say, Goto, Settled
  <2>3. CASE StopChild \/ Wait \/ WaitFails \/ Report
    BY <2>3 DEF StopChild, Wait, WaitFails, Report, ReportLog, Say, Goto, Settled
  <2>4. CASE Press \/ Look \/ Forward \/ Others \/ UNCHANGED vars \/ \E s \in Stream : Read(s)
    BY <2>4 DEF Press, Look, Forward, Others, vars, Read, SendLine, ReaderEnds, Goto, Settled
  <2> QED
    BY <2>1, <2>2, <2>3, <2>4
<1>6. pc' = "wait" \/ child' = "reaped" => pc = "wait" \/ child = "reaped"
  <2> USE DEF family
  <2>1. CASE Announce \/ Spawn \/ SpawnFails \/ SetPid \/ Finish \/ RanDry
    BY <2>1 DEF Announce, Spawn, SpawnFails, SetPid, Finish, RanDry, Say, Goto
  <2>2. CASE StopChild \/ Wait \/ WaitFails \/ Report
    BY <2>2 DEF StopChild, Killed, Wait, WaitFails, Report, ReportLog, Say, Goto
  <2>3. CASE Press \/ Look \/ Forward \/ UNCHANGED vars \/ \E s \in Stream : Read(s)
    BY <2>3 DEF Press, Look, Forward, Interrupt, vars, Read, SendLine, ReaderEnds, Goto
  <2>4. CASE Others
    BY <2>4 DEF Others, Dies
  <2> QED
    BY <2>1, <2>2, <2>3, <2>4
<1>7. OutHas'
  BY <1>3, <1>4, <1>5, <1>6, OutStays
<1> QED
  BY <1>2, <1>7

\* What both destinations have, after any step.
LEMMA Passes ==
    ASSUME ForegroundInv, TypeOK', [Next]_vars
    PROVE  /\ LogHas' /\ OutHas'
           /\ Extends(logged', logged, Item) /\ Extends(shown', shown, Item)
<1> USE DEF ForegroundInv, outside, family, queue
<1>0. /\ UNCHANGED logVars => Extends(logged', logged, Item)
      /\ UNCHANGED outVars => Extends(shown', shown, Item)
  <2>1. <<>> \in Seq(Item) /\ Then(logged, <<>>) = logged /\ Then(shown, <<>>) = shown
    BY ItemType, ThenNothing
  <2> QED
    BY <2>1 DEF Extends, logVars, outVars
<1>1. CASE WriteLog \/ FlushLog \/ Final \/ CutLog
  <2>1. /\ pc \in {"log", "flush", "final", "cut", "cutreport"} /\ Running
        /\ UNCHANGED <<outVars, line, heard, mode, child>>
    BY <1>1 DEF WriteLog, FlushLog, Final, CutLog, Running
  <2>2. \/ pc = "log" /\ Log(line, FALSE, IF mode.quiet THEN "recv" ELSE "out")
        \/ pc = "flush" /\ Log(<<>>, TRUE, IF mode.quiet THEN "block" ELSE "flushout")
        \/ pc = "final" /\ Log(<<>>, TRUE, IF mode.quiet THEN "wait" ELSE "finalout")
        \/ pc = "cut" /\ Log(<<>>, TRUE, "leave")
        \/ pc = "cutreport" /\ Log(<<>>, TRUE, "report")
    BY <1>1 DEF WriteLog, FlushLog, Final, CutLog
  <2>3. LogHas' /\ Extends(logged', logged, Item)
    BY <2>1, <2>2, LogWritten DEF Flushed
  <2>4. \/ pc = "log" /\ pc' \in {IF mode.quiet THEN "recv" ELSE "out", "panic"}
        \/ pc = "flush" /\ pc' \in {IF mode.quiet THEN "block" ELSE "flushout", "panic"}
        \/ pc = "final" /\ pc' \in {IF mode.quiet THEN "wait" ELSE "finalout", "panic"}
        \/ pc \in {"cut", "cutreport"} /\ pc' \in {"leave", "report", "panic"}
    BY <2>2, ItemType, LogType
  <2>5. OutHas'
    BY <2>1, <2>4, OutStays DEF Settled
  <2> QED
    BY <1>0, <2>1, <2>3, <2>5
<1>2. CASE WriteOut \/ FlushOut \/ FinalOut
  <2>1. /\ pc \in {"out", "flushout", "finalout"} /\ child # "reaped"
        /\ UNCHANGED <<logVars, line, heard, mode, child>>
    BY <1>2 DEF WriteOut, FlushOut, FinalOut, Ending
  <2>2. \/ pc = "out" /\ Put(line, FALSE, "recv", "epipe", "stdouterror")
        \/ pc = "flushout" /\ Put(<<>>, TRUE, "block", "epipe", "stdouterror")
        \/ pc = "finalout" /\ Put(<<>>, TRUE, "wait", "leave", "report")
    BY <1>2 DEF WriteOut, FlushOut, FinalOut
  <2>3. OutHas' /\ Extends(shown', shown, Item)
    <3> DEFINE data == IF pc = "out" THEN line ELSE <<>>
    <3>1. ASSUME NEW whole \in BOOLEAN, NEW next, NEW left, NEW broken,
                 Put(data, whole, next, left, broken),
                 next \in {"recv", "block", "wait"}, next = "wait" => whole,
                 {left, broken} \cap (Settled \cup {"log", "out", "wait"}) = {}
          PROVE  OutHas' /\ Extends(shown', shown, Item)
      BY <2>1, <3>1, OutWritten
    <3>0. /\ {"epipe", "stdouterror"} \cap (Settled \cup {"log", "out", "wait"}) = {}
          /\ {"leave", "report"} \cap (Settled \cup {"log", "out", "wait"}) = {}
          /\ "recv" # "wait" /\ "block" # "wait"
      BY DEF Settled
    <3>2. CASE pc = "out"
      <4>1. data = line /\ Put(data, FALSE, "recv", "epipe", "stdouterror")
        BY <2>2, <3>2
      <4> HIDE DEF data
      <4> QED
        BY <3>0, <3>1, <4>1
    <3>3. CASE pc = "flushout"
      <4>1. data = <<>> /\ Put(data, TRUE, "block", "epipe", "stdouterror")
        BY <2>2, <3>3
      <4> HIDE DEF data
      <4> QED
        BY <3>0, <3>1, <4>1
    <3>4. CASE pc = "finalout"
      <4>1. data = <<>> /\ Put(data, TRUE, "wait", "leave", "report")
        BY <2>2, <3>4
      <4> HIDE DEF data
      <4> QED
        BY <3>0, <3>1, <4>1
    <3> QED
      BY <2>1, <3>2, <3>3, <3>4
  <2>4. \/ pc = "out" /\ pc' \in {"recv", "epipe", "stdouterror", "panic"}
        \/ pc = "flushout" /\ pc' \in {"block", "epipe", "stdouterror", "panic"}
        \/ pc = "finalout" /\ pc' \in {"wait", "leave", "report", "panic"}
    BY <2>2, PutPlaces
  <2>5. LogHas'
    BY <2>1, <2>4, LogStays DEF Flushed
  <2> QED
    BY <1>0, <2>1, <2>3, <2>5
<1>3. CASE Leave \/ Unwind
  <2>1. /\ UNCHANGED <<mode, child, heard>> /\ DropSink /\ pc' \in {"done", "crashed"}
        /\ pc' = "done" => pc = "leave"
        /\ shown' = (IF reader = "there" THEN shown \o outbuf ELSE shown) /\ outbuf' = <<>>
    BY <1>3 DEF Leave, Unwind, Goto, DropOut
  <2> QED
    BY <2>1, LogDropped, OutDropped
<1>4. CASE Receive
  <2>1. UNCHANGED <<logVars, outVars>> /\ child # "reaped"
    BY <1>4 DEF Receive, Ending
  <2>2. Head(chan) \in Seq(Item)
    BY <1>4, StreamsReceive
  <2> QED
    BY <1>0, <1>4, <2>1, <2>2, LogReceive, OutReceive
<1>5. ASSUME \/ Announce \/ Spawn \/ SpawnFails \/ SetPid \/ Finish \/ RanDry
             \/ StopChild \/ Wait \/ WaitFails \/ Report
             \/ Press \/ Look \/ Forward \/ Others \/ UNCHANGED vars
             \/ \E s \in Stream : Read(s)
      PROVE  /\ LogHas' /\ OutHas'
             /\ Extends(logged', logged, Item) /\ Extends(shown', shown, Item)
  <2>1. UNCHANGED <<logVars, outVars, line, heard, mode>>
    <3>1. CASE Announce \/ Spawn \/ SpawnFails \/ SetPid \/ Finish \/ RanDry
      BY <3>1 DEF Announce, Spawn, SpawnFails, SetPid, Finish, RanDry
    <3>2. CASE StopChild \/ Wait \/ WaitFails \/ Report
      BY <3>2 DEF StopChild, Wait, WaitFails, Report
    <3>3. CASE Press \/ Look \/ Forward \/ Others \/ UNCHANGED vars \/ \E s \in Stream : Read(s)
      BY <3>3 DEF Press, Look, Forward, Others, vars, Read, SendLine, ReaderEnds
    <3> QED
      BY <1>5, <3>1, <3>2, <3>3
  <2> QED
    BY <1>0, <1>5, <2>1, NoWrite
<1> QED
  BY <1>1, <1>2, <1>3, <1>4, <1>5 DEF Next, Step

-----------------------------------------------------------------------------
(* The theorems.                                                           *)

LEMMA InitHolds ==
    ASSUME Init
    PROVE  ForegroundInv
<1>1. /\ sent = [s \in Stream |-> <<>>] /\ passed = [s \in Stream |-> 0]
      /\ chan = <<>> /\ heard = <<>> /\ line = <<>>
      /\ logged = <<>> /\ logbuf = <<>> /\ shown = <<>> /\ outbuf = <<>>
      /\ pc = "announce" /\ child = "none" /\ ended = {} /\ ~childpid
  BY DEF Init, OutputsInit
<1>2. Len(<<>>) = 0
  OBVIOUS
<1>3. TypeOK
  <2>1. /\ <<>> \in Seq(BOOLEAN) /\ <<>> \in Seq(Seq(Item)) /\ <<>> \in Seq(Item)
    BY EmptySeq
  <2>2. /\ sent \in [Stream -> Seq(BOOLEAN)] /\ passed \in [Stream -> Nat]
        /\ \A s \in Stream : passed[s] <= Len(sent[s])
    BY <1>1, <1>2, <2>1
  <2>3. /\ chan \in Seq(Seq(Item)) /\ {line, heard} \subseteq Seq(Item)
        /\ {logged, logbuf, shown, outbuf} \subseteq Seq(Item)
    BY <1>1, <2>1
  <2>4. PeersOK
    BY DEF Init, OutputsInit, PeersOK
  <2>5. ends \in [Stream -> SUBSET {"child", "heir"}]
    BY DEF Init
  <2> QED
    BY <2>2, <2>3, <2>4, <2>5 DEF Init, TypeOK
<1>4. Streams
  <2>1. \A s \in Stream : passed[s] = 0 /\ Len(sent[s]) = 0
    BY <1>1, <1>2
  <2>2. passed \in Mark
    BY <1>1, <1>3, <2>1, MarkType DEF TypeOK
  <2>3. HeardUpTo(passed)
    <3>1. Len(heard) = 0 /\ passed["out"] = 0 /\ passed["err"] = 0 /\ DOMAIN heard = {}
      BY <1>1, <1>2, <2>1 DEF Stream
    <3>2. InOrder(heard) /\ Unsplit(heard)
      BY <3>1 DEF InOrder, Unsplit
    <3> QED
      BY <1>1, <2>1, <3>1, <3>2 DEF HeardUpTo
  <2> DEFINE marks == [k \in 1..1 |-> passed]
  <2>4. marks \in [1..1 -> Mark] /\ marks[1] = passed
    BY <2>2
  <2>5. Len(chan) + 1 = 1 /\ DOMAIN chan = {}
    BY <1>1, <1>2
  <2> HIDE DEF marks
  <2> QED
    BY <2>3, <2>4, <2>5 DEF Streams
<1>5. Begun /\ Closed /\ Ending
  BY <1>1 DEF Begun, Closed, Ending, LoopOver
<1>6. LogHas /\ OutHas
  <2>1. <<>> \in Seq(Item) /\ Then(<<>>, <<>>) = <<>>
    BY EmptySeq, ThenNothing
  <2>2. InLog = <<>> /\ InOut = <<>>
    BY <1>1, <2>1 DEF InLog, InOut, Then
  <2>3. Extends(<<>>, <<>>, Item)
    BY <2>1 DEF Extends
  <2>4. IsPrefix(InLog, heard) /\ IsPrefix(InOut, heard)
    BY <1>1, <2>1, <2>2, <2>3, BeginningOf
  <2> QED
    BY <1>1, <2>2, <2>4 DEF LogHas, OutHas
<1> QED
  BY <1>3, <1>4, <1>5, <1>6 DEF ForegroundInv

\* Between any two steps of the main thread, the readers, the Ctrl+C threads and
\* the child, the channel continues what has been received by whole lines, and the
\* log and stdout have what they should of it (main.rs:350-492).
THEOREM ForegroundInductive ==
    Spec => []ForegroundInv
<1>1. Init => ForegroundInv
  BY InitHolds
<1>2. ForegroundInv /\ [Next]_vars => ForegroundInv'
  <2> SUFFICES ASSUME ForegroundInv, [Next]_vars PROVE ForegroundInv'
    OBVIOUS
  <2> USE DEF ForegroundInv
  <2>1. TypeOK'
    BY StepType
  <2>2. Streams'
    BY <2>1, StreamsGo
  <2>3. Begun' /\ Ending'
    BY ControlGoesOn DEF OutHas
  <2>4. Closed'
    BY ReadersGoOn
  <2>5. LogHas' /\ OutHas'
    BY <2>1, Passes
  <2> QED
    BY <2>1, <2>2, <2>3, <2>4, <2>5
<1> QED
  BY <1>1, <1>2, PTL DEF Spec

\* Every variable keeps the kind of value the code's variable has.
THEOREM ForegroundTypeCorrect ==
    Spec => []TypeOK
<1>1. ForegroundInv => TypeOK
  BY DEF ForegroundInv
<1> QED
  BY <1>1, ForegroundInductive, PTL

\* What is whole stays whole in a beginning of it.
LEMMA BeginningIsWhole ==
    ASSUME NEW s \in Seq(Item), NEW t, Extends(t, s, Item), InOrder(t), Unsplit(t)
    PROVE  InOrder(s) /\ Unsplit(s)
<1>1. PICK u \in Seq(Item) : t = Then(s, u)
  BY DEF Extends
<1>2. /\ Len(t) = Len(s) + Len(u) /\ Len(s) \in Nat /\ Len(u) \in Nat
      /\ \A i \in 1..Len(s) : t[i] = s[i]
  BY <1>1, Behind
<1>3. DOMAIN s = 1..Len(s) /\ DOMAIN t = 1..Len(t)
  BY <1>1, ThenIsSeq, LenProperties
<1>4. InOrder(s)
  <2> SUFFICES ASSUME NEW j \in 1..Len(s)
               PROVE  LET r == s[j][1]  n == s[j][2]
                      IN  /\ \A i \in 1..(j - 1) : s[i][1] = r => s[i][2] < n
                          /\ n > 1 => \E i \in 1..(j - 1) : s[i] = <<r, n - 1>>
    BY <1>3 DEF InOrder
  <2>1. j \in 1..Len(t) /\ t[j] = s[j] /\ \A i \in 1..(j - 1) : i \in 1..Len(s) /\ t[i] = s[i]
    BY <1>2
  <2>2. LET r == t[j][1]  n == t[j][2]
        IN  /\ \A i \in 1..(j - 1) : t[i][1] = r => t[i][2] < n
            /\ n > 1 => \E i \in 1..(j - 1) : t[i] = <<r, n - 1>>
    BY <1>3, <2>1 DEF InOrder
  <2> QED
    BY <2>1, <2>2
<1>5. Unsplit(s)
  <2> SUFFICES ASSUME NEW i \in 1..(Len(s) - 1)
               PROVE  EndsLine(s[i]) \/ s[i + 1] = <<s[i][1], s[i][2] + 1>>
    BY DEF Unsplit
  <2>1. i \in 1..(Len(t) - 1) /\ t[i] = s[i] /\ t[i + 1] = s[i + 1]
    BY <1>2
  <2> QED
    BY <2>1 DEF Unsplit
<1> QED
  BY <1>4, <1>5

\* However the two readers, the channel and the log's buffer are scheduled, the
\* log has both streams in order with nothing missing and no finished line split
\* (main.rs:363-364, 398-411, 453-476).
THEOREM LinesStayWhole ==
    Spec => []WholeLines
<1>1. ForegroundInv => WholeLines
  <2> SUFFICES ASSUME ForegroundInv PROVE WholeLines
    OBVIOUS
  <2>1. InOrder(heard) /\ Unsplit(heard)
    BY DEF ForegroundInv, Streams, HeardUpTo
  <2>2. InLog \in Seq(Item) /\ Extends(heard, InLog, Item)
    BY LogBegins DEF ForegroundInv, LogHas
  <2> QED
    BY <2>1, <2>2, BeginningIsWhole DEF WholeLines
<1> QED
  BY <1>1, ForegroundInductive, PTL

\* deemo exits with the child's code only after every write of the child, and of
\* whoever it left its streams to, is in the log and has been taken by stdout; it
\* leaves lines in the channel only when stdout has failed, and a child running with
\* a stream open only when it may not signal it (main.rs:412-447, 466-490).
THEOREM ForegroundExitsHonestly ==
    Spec => []ExitHonest
<1>1. ForegroundInv => ExitHonest
  <2> SUFFICES ASSUME ForegroundInv, pc = "done"
               PROVE  /\ sink = "open" => logged = heard
                      /\ child # "none" /\ (mode.quiet \/ reader = "there") => AllHeard
                      /\ child = "reaped" =>
                           /\ code = StatusCode(status)
                           /\ AllHeard
                           /\ mode.quiet \/ shown = heard
                      /\ child = "run" => foreign \/ \A s \in Stream : Eof(s)
    BY DEF ExitHonest
  <2> USE DEF ForegroundInv
  <2>1. sink = "open" => logged = heard
    BY DEF LogHas
  <2>2. LoopOver => chan = <<>> /\ \A s \in Stream : Eof(s) /\ passed[s] = Len(sent[s])
    BY DEF Ending, Closed
  <2>3. child = "reaped" => code = StatusCode(status) /\ (mode.quiet \/ shown = heard)
    BY DEF Ending, OutHas
  <2>4. ASSUME chan = <<>>, \A s \in Stream : passed[s] = Len(sent[s])
        PROVE  Len(heard) = Written
    <3>1. HeardUpTo(passed)
      <4>1. Len(chan) + 1 = 1
        BY <2>4
      <4> QED
        BY <4>1 DEF Streams
    <3> QED
      BY <2>4, <3>1 DEF HeardUpTo, Written, Stream
  <2>5. LoopOver => AllHeard
    BY <2>2, <2>4 DEF AllHeard
  <2>6. /\ child = "run" /\ ~foreign => LoopOver
        /\ child # "none" /\ (mode.quiet \/ reader = "there") => LoopOver
        /\ child = "reaped" => LoopOver
    BY DEF LoopOver
  <2>7. LoopOver => \A s \in Stream : Eof(s)
    BY <2>2
  <2> QED
    BY <2>1, <2>3, <2>5, <2>6, <2>7
<1> QED
  BY <1>1, ForegroundInductive, PTL

-----------------------------------------------------------------------------
(* Foreground mode and the abstract tee.                                   *)

LEMMA PrefixOf ==
    ASSUME NEW s \in Seq(Item), NEW t \in Seq(Item), Extends(t, s, Item)
    PROVE  Promised!IsPrefix(s, t)
  BY PrefixExtends DEF Promised!IsPrefix

\* Both destinations hold a beginning of what was received.
BothBegin == Extends(heard, logged, Item) /\ Extends(heard, shown, Item)

LEMMA BothBeginAlways ==
    ASSUME ForegroundInv
    PROVE  BothBegin
<1>1. {logged, logbuf, shown, outbuf} \subseteq Seq(Item)
  BY ItemType DEF ForegroundInv
<1>2. Extends(InLog, logged, Item) /\ Extends(InOut, shown, Item)
  BY <1>1, LogBegins DEF Extends, ForegroundInv
<1>3. Extends(heard, InLog, Item) /\ Extends(heard, InOut, Item)
  BY LogBegins DEF ForegroundInv, LogHas, OutHas
<1> QED
  BY <1>1, <1>2, <1>3, Further DEF BothBegin

LEMMA ForegroundTees ==
    ASSUME ForegroundInv, TypeOK', BothBegin', [Next]_vars
    PROVE  [Promised!Hear \/ Promised!Pass]_<<heard, logged, shown>>
<1>1. /\ {heard, logged, shown} \subseteq Seq(Item)
      /\ {heard', logged', shown'} \subseteq Seq(Item)
  BY DEF ForegroundInv, TypeOK
<1>2. CASE Receive
  <2>1. UNCHANGED <<logged, shown>> /\ heard' = Then(heard, Head(chan))
    BY <1>2 DEF Receive, logVars, outVars, Then
  <2>2. Head(chan) \in Seq(Item) /\ Len(Head(chan)) > 0
    BY <1>2, StreamsReceive DEF ForegroundInv
  <2>3. Promised!IsPrefix(heard, heard')
    <3>1. Extends(heard', heard, Item)
      BY <2>1, <2>2 DEF Extends
    <3> QED
      BY <1>1, <3>1, PrefixOf
  <2>4. heard # heard'
    <3>1. Len(heard') = Len(heard) + Len(Head(chan)) /\ Len(heard) \in Nat /\ Len(Head(chan)) \in Nat
      BY <1>1, <2>1, <2>2, ThenIsSeq, LenProperties
    <3> QED
      BY <2>2, <3>1
  <2> QED
    BY <2>1, <2>3, <2>4 DEF Promised!Hear, Promised!IsStrictPrefix
<1>3. CASE ~Receive
  <2>1. heard' = heard
    BY <1>3, WhoReads DEF Read, SendLine, ReaderEnds, queue
  <2>2. Extends(logged', logged, Item) /\ Extends(shown', shown, Item)
    BY Passes
  <2>3. Extends(heard', logged', Item) /\ Extends(heard', shown', Item)
    BY DEF BothBegin
  <2>4. /\ Promised!IsPrefix(logged, logged') /\ Promised!IsPrefix(shown, shown')
        /\ Promised!IsPrefix(logged', heard') /\ Promised!IsPrefix(shown', heard')
    BY <1>1, <2>2, <2>3, PrefixOf
  <2> QED
    BY <2>1, <2>4 DEF Promised!Pass, Promised!Grows
<1> QED
  BY <1>2, <1>3

\* Foreground mode keeps the promise of Tee.tla, as pipe mode does: one order of
\* what was received, and both destinations keep what they have of it
\* (main.rs:413-447, 466-490).
THEOREM ForegroundKeepsTee ==
    Spec => Tees
<1>1. Init => Promised!TeeInit
  BY DEF Init, OutputsInit, Promised!TeeInit
<1>2. ForegroundInv => BothBegin /\ TypeOK
  BY BothBeginAlways DEF ForegroundInv
<1>3. ForegroundInv /\ TypeOK' /\ BothBegin' /\ [Next]_vars
        => [Promised!Hear \/ Promised!Pass]_<<heard, logged, shown>>
  BY ForegroundTees
<1> QED
  BY <1>1, <1>2, <1>3, ForegroundInductive, PTL DEF Spec, Tees, Promised!TeeSpec
=============================================================================
