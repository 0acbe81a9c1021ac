----------------------------- MODULE PumpProofs -----------------------------
(***************************************************************************)
(* Proofs about Pump.tla, for a stream of any length and whatever fails    *)
(* around the pump: the log and stdout each hold a beginning of the        *)
(* stream, the log lacks at most one slab, and exit code 0 says so.        *)
(***************************************************************************)
EXTENDS Pump, OutputsProofs

USE PumpAssumption

-----------------------------------------------------------------------------
(* The stream.                                                             *)

LEMMA UptoIsSeq ==
    ASSUME NEW n \in Nat
    PROVE  /\ Upto(n) \in Seq(Nat) /\ Len(Upto(n)) = n
           /\ \A i \in 1..n : Upto(n)[i] = i
  BY DEF Upto

LEMMA NothingYet ==
    Upto(0) = <<>>
<1>1. Upto(0) \in Seq(Nat) /\ Len(Upto(0)) = 0
  BY UptoIsSeq
<1> QED
  BY <1>1, EmptySeq

\* A beginning of the stream, and what it leaves.
LEMMA Beginning ==
    ASSUME NEW s \in Seq(Nat), NEW t \in Seq(Nat), NEW n \in Nat, Then(s, t) = Upto(n)
    PROVE  /\ Len(s) \in 0..n /\ s = Upto(Len(s))
           /\ s \in Seq(1..n) /\ t \in Seq(1..n)
<1>1. Len(s) \in Nat /\ Len(t) \in Nat
  BY LenProperties
<1>2. /\ Len(Then(s, t)) = Len(s) + Len(t)
      /\ \A i \in 1..(Len(s) + Len(t)) :
           Then(s, t)[i] = IF i <= Len(s) THEN s[i] ELSE t[i - Len(s)]
  BY ThenIsSeq
<1>3. Len(s) + Len(t) = n /\ \A i \in 1..n : Then(s, t)[i] = i
  BY <1>2, UptoIsSeq
<1>4. \A i \in 1..Len(s) : s[i] = i
  BY <1>1, <1>2, <1>3
<1>5. \A i \in 1..Len(t) : t[i] = Len(s) + i
  <2> SUFFICES ASSUME NEW i \in 1..Len(t) PROVE t[i] = Len(s) + i
    OBVIOUS
  <2> DEFINE j == Len(s) + i
  <2>1. j \in 1..n /\ ~(j <= Len(s)) /\ j - Len(s) = i
    BY <1>1, <1>3
  <2> HIDE DEF j
  <2>2. Then(s, t)[j] = t[i] /\ Then(s, t)[j] = j
    BY <1>2, <1>3, <2>1
  <2> QED
    BY <2>2 DEF j
<1>6. s = Upto(Len(s))
  <2>1. /\ Upto(Len(s)) \in Seq(Nat) /\ Len(Upto(Len(s))) = Len(s)
        /\ \A i \in 1..Len(s) : Upto(Len(s))[i] = i
    BY <1>1, UptoIsSeq
  <2> QED
    BY <1>4, <2>1, SeqEqual
<1>7. s \in Seq(1..n) /\ t \in Seq(1..n)
  <2>1. \A i \in 1..Len(s) : s[i] \in 1..n
    BY <1>1, <1>3, <1>4
  <2>2. \A i \in 1..Len(t) : t[i] \in 1..n
    BY <1>1, <1>3, <1>5
  <2>3. SubSeq(s, 1, Len(s)) \in Seq(1..n)
    BY <1>1, <2>1, SubSeqProperties, 1 \in Int, Len(s) \in Int
  <2>4. SubSeq(t, 1, Len(t)) \in Seq(1..n)
    BY <1>1, <2>2, SubSeqProperties, 1 \in Int, Len(t) \in Int
  <2> QED
    BY <2>3, <2>4, SubSeqFull
<1> QED
  BY <1>1, <1>3, <1>6, <1>7

\* A slab, put behind what was read before it, is what has been read now.
LEMMA Arrives ==
    ASSUME NEW t \in Nat, NEW n \in Nat, NEW e \in Nat, t + n <= e
    PROVE  LET d == SubSeq(Upto(e), t + 1, t + n)
           IN  /\ d \in Seq(Nat) /\ Len(d) = n
               /\ d = SubSeq(Upto(t + n), t + 1, t + n)
               /\ Then(Upto(t), d) = Upto(t + n)
<1> DEFINE d == SubSeq(Upto(e), t + 1, t + n)
           d1 == SubSeq(Upto(t + n), t + 1, t + n)
<1>1. \A k \in Nat : t + n <= k =>
        LET c == SubSeq(Upto(k), t + 1, t + n)
        IN  c \in Seq(Nat) /\ Len(c) = n /\ \A i \in 1..n : c[i] = t + i
  <2> SUFFICES ASSUME NEW k \in Nat, t + n <= k
               PROVE  LET c == SubSeq(Upto(k), t + 1, t + n)
                      IN  c \in Seq(Nat) /\ Len(c) = n /\ \A i \in 1..n : c[i] = t + i
    OBVIOUS
  <2>1. \A i \in (t + 1)..(t + n) : Upto(k)[i] = i /\ Upto(k)[i] \in Nat
    BY UptoIsSeq
  <2> DEFINE c == SubSeq(Upto(k), t + 1, t + n)
  <2>2. /\ c \in Seq(Nat)
        /\ Len(c) = IF t + 1 <= t + n THEN (t + n) - (t + 1) + 1 ELSE 0
        /\ \A i \in 1..((t + n) - (t + 1) + 1) : c[i] = Upto(k)[t + 1 + i - 1]
    BY <2>1, SubSeqProperties, t + 1 \in Int, t + n \in Int
  <2> HIDE DEF c
  <2>3. \A i \in 1..n : c[i] = t + i
    <3> SUFFICES ASSUME NEW i \in 1..n PROVE c[i] = t + i
      OBVIOUS
    <3>1. i \in 1..((t + n) - (t + 1) + 1) /\ t + 1 + i - 1 = t + i
      BY DEF c
    <3>2. c[i] = Upto(k)[t + i]
      BY <2>2, <3>1
    <3> QED
      BY <2>1, <3>2
  <2> QED
    BY <2>2, <2>3 DEF c
<1>2. /\ d \in Seq(Nat) /\ Len(d) = n /\ \A i \in 1..n : d[i] = t + i
      /\ d1 \in Seq(Nat) /\ Len(d1) = n /\ \A i \in 1..n : d1[i] = t + i
  BY <1>1, t + n \in Nat
<1> HIDE DEF d, d1
<1>3. d = d1
  BY <1>2, SeqEqual
<1>4. Then(Upto(t), d) = Upto(t + n)
  <2>1. Upto(t) \in Seq(Nat) /\ Len(Upto(t)) = t /\ \A i \in 1..t : Upto(t)[i] = i
    BY UptoIsSeq
  <2>2. /\ Upto(t + n) \in Seq(Nat) /\ Len(Upto(t + n)) = t + n
        /\ \A i \in 1..(t + n) : Upto(t + n)[i] = i
    BY UptoIsSeq, t + n \in Nat
  <2>3. /\ Then(Upto(t), d) \in Seq(Nat)
        /\ Len(Then(Upto(t), d)) = t + n
        /\ \A i \in 1..(t + n) :
             Then(Upto(t), d)[i] = IF i <= t THEN Upto(t)[i] ELSE d[i - t]
    <3>1. \A u \in Seq(Nat) : Len(u) = t =>
            /\ Then(u, d) \in Seq(Nat) /\ Len(Then(u, d)) = t + n
            /\ \A i \in 1..(t + n) : Then(u, d)[i] = IF i <= t THEN u[i] ELSE d[i - t]
      <4> SUFFICES ASSUME NEW u \in Seq(Nat), Len(u) = t
                   PROVE  /\ Then(u, d) \in Seq(Nat) /\ Len(Then(u, d)) = t + n
                          /\ \A i \in 1..(t + n) :
                               Then(u, d)[i] = IF i <= t THEN u[i] ELSE d[i - t]
        OBVIOUS
      <4>1. /\ Then(u, d) \in Seq(Nat) /\ Len(Then(u, d)) = Len(u) + Len(d)
            /\ \A i \in 1..(Len(u) + Len(d)) :
                 Then(u, d)[i] = IF i <= Len(u) THEN u[i] ELSE d[i - Len(u)]
        BY <1>2, ThenIsSeq
      <4> QED
        BY <1>2, <4>1
    <3> QED
      BY <2>1, <3>1
  <2>4. ASSUME NEW i \in 1..(t + n) PROVE Then(Upto(t), d)[i] = i
    <3>1. CASE i <= t
      BY <2>1, <2>3, <3>1
    <3>2. CASE ~(i <= t)
      <4>1. i - t \in 1..n /\ t + (i - t) = i
        BY <3>2
      <4> QED
        BY <1>2, <2>3, <3>2, <4>1
    <3> QED
      BY <3>1, <3>2
  <2> QED
    BY <2>2, <2>3, <2>4, SeqEqual
<1> QED
  BY <1>2, <1>3, <1>4 DEF d, d1

-----------------------------------------------------------------------------
(* What the invariant says of the sequences.                               *)

LEMMA Sequences ==
    ASSUME PumpInv
    PROVE  /\ taken \in Nat /\ sent \in Nat /\ taken <= sent
           /\ {slab, logged, logbuf, shown, outbuf} \subseteq Seq(Nat)
           /\ InLog = Then(logged, logbuf) /\ InOut = Then(shown, outbuf)
           /\ Len(slab) \in Nat /\ Earlier \in 0..taken /\ Len(slab) = taken - Earlier
           /\ Then(Upto(Earlier), slab) = Upto(taken)
<1>1. taken \in Nat /\ sent \in Nat /\ taken <= sent
  BY DEF PumpInv, TypeOK
<1>2. {slab, logged, logbuf, shown, outbuf} \subseteq Seq(Nat)
  <2>1. {slab, logged, logbuf, shown, outbuf} \subseteq Seq(1..taken)
    BY DEF PumpInv, TypeOK, Stream
  <2>2. Seq(1..taken) \subseteq Seq(Nat)
    BY SeqMonotonic, 1..taken \subseteq Nat
  <2> QED
    BY <2>1, <2>2
<1>3. InLog = Then(logged, logbuf) /\ InOut = Then(shown, outbuf)
  BY DEF InLog, InOut, Then
<1>4. Len(slab) \in Nat /\ Len(slab) <= taken /\ slab = SubSeq(Upto(taken), Earlier + 1, taken)
  BY <1>2, LenProperties DEF PumpInv, InHand
<1>5. Earlier \in 0..taken /\ Len(slab) = taken - Earlier
  BY <1>1, <1>4 DEF Earlier
<1>6. Then(Upto(Earlier), slab) = Upto(taken)
  <2> DEFINE k == Len(slab)
  <2>1. Earlier \in Nat /\ k \in Nat /\ Earlier + k = taken
    BY <1>1, <1>4, <1>5
  <2>2. slab = SubSeq(Upto(taken), Earlier + 1, Earlier + k)
    BY <1>4, <2>1
  <2> HIDE DEF k
  <2>3. Then(Upto(Earlier), SubSeq(Upto(taken), Earlier + 1, Earlier + k)) = Upto(Earlier + k)
    BY <1>1, <2>1, Arrives
  <2> QED
    BY <2>1, <2>2, <2>3
<1> QED
  BY <1>1, <1>2, <1>3, <1>4, <1>5, <1>6

\* What a destination and its buffer hold of the stream.
LEMMA Holds ==
    ASSUME NEW s \in Seq(Nat), NEW t \in Seq(Nat), NEW n \in Nat, NEW m \in Nat,
           m <= n, Then(s, t) = Upto(m)
    PROVE  {s, t} \subseteq Stream(n) /\ Len(s) <= m /\ s = Upto(Len(s))
<1>1. s \in Seq(1..m) /\ t \in Seq(1..m) /\ Len(s) <= m /\ s = Upto(Len(s))
  BY Beginning
<1>2. Seq(1..m) \subseteq Seq(1..n)
  BY SeqMonotonic, 1..m \subseteq 1..n
<1> QED
  BY <1>1, <1>2 DEF Stream

-----------------------------------------------------------------------------
(* What a write, a flush or a drop does to them.                           *)

\* The log: whatever the write does to it, it has a beginning of the stream, and
\* all of it as long as it works.
LEMMA LogKeeps ==
    ASSUME PumpInv, Running, NEW data, NEW whole \in BOOLEAN, NEW next,
           Log(data, whole, next), UNCHANGED <<taken, slab>>,
           data = IF pc \in {"log", "logonly"} THEN slab ELSE <<>>
    PROVE  /\ {logged', logbuf'} \subseteq Stream(taken)
           /\ \E n \in 0..taken : InLog' = Upto(n)
           /\ Extends(logged', logged, Nat) /\ Len(logged') >= Len(logged)
           /\ \/ sink # "open" /\ UNCHANGED logVars /\ pc' = next
              \/ /\ sink = "open" /\ sink' = "open" /\ pc' = next
                 /\ InLog' = Upto(taken)
                 /\ whole => logbuf' = <<>>
              \/ sink = "open" /\ sink' = "lost" /\ pc' \in {next, "panic"}
<1>1. data \in Seq(Nat)
  BY Sequences, ThenNothing
<1>2. /\ logged' \in Seq(Nat) /\ logbuf' \in Seq(Nat)
      /\ Extends(logged', logged, Nat)
      /\ \/ /\ sink # "open" /\ UNCHANGED logVars /\ pc' = next
         \/ /\ sink = "open" /\ sink' = "open" /\ pc' = next
            /\ Then(logged', logbuf') = Then(Then(logged, logbuf), data)
            /\ whole => logbuf' = <<>>
         \/ /\ sink = "open" /\ sink' = "lost" /\ pc' \in {next, "panic"}
            /\ logbuf' = <<>>
            /\ Extends(Then(Then(logged, logbuf), data), logged', Nat)
  <2> DEFINE Bytes == Nat
  <2>1. logged \in Seq(Bytes) /\ logbuf \in Seq(Bytes) /\ data \in Seq(Bytes)
    BY <1>1, Sequences
  <2> HIDE DEF Bytes
  <2>2. /\ logged' \in Seq(Bytes) /\ logbuf' \in Seq(Bytes)
        /\ Extends(logged', logged, Bytes)
        /\ \/ /\ sink # "open" /\ UNCHANGED logVars /\ pc' = next
           \/ /\ sink = "open" /\ sink' = "open" /\ pc' = next
              /\ Then(logged', logbuf') = Then(Then(logged, logbuf), data)
              /\ whole => logbuf' = <<>>
           \/ /\ sink = "open" /\ sink' = "lost" /\ pc' \in {next, "panic"}
              /\ logbuf' = <<>>
              /\ Extends(Then(Then(logged, logbuf), data), logged', Bytes)
    BY <2>1, LogStep
  <2> QED
    BY <2>2 DEF Bytes
<1>3. InLog' = Then(logged', logbuf')
  BY DEF InLog, Then
<1>4. ASSUME sink = "open" PROVE Then(Then(logged, logbuf), data) = Upto(taken)
  <2>1. Then(logged, logbuf) = Upto(IF pc \in {"log", "logonly"} THEN Earlier ELSE taken)
    BY <1>4, Sequences DEF PumpInv, LogHas
  <2>2. CASE pc \in {"log", "logonly"}
    BY <2>1, <2>2, Sequences
  <2>3. CASE pc \notin {"log", "logonly"}
    <3>1. Then(logged, logbuf) = Upto(taken) /\ data = <<>>
      BY <2>1, <2>3
    <3> QED
      BY <3>1, Sequences, UptoIsSeq, ThenNothing
  <2> QED
    BY <2>2, <2>3
<1>5. \E n \in 0..taken : Then(logged', logbuf') = Upto(n)
  <2>1. CASE sink # "open"
    <3>1. UNCHANGED <<logged, logbuf>>
      BY <1>2, <2>1 DEF logVars
    <3>2. \E n \in 0..taken : Then(logged, logbuf) = Upto(n)
      BY Sequences DEF PumpInv, LogHas
    <3> QED
      BY <3>1, <3>2
  <2>2. CASE sink = "open" /\ sink' = "open"
    BY <1>2, <1>4, <2>2, Sequences
  <2>3. CASE sink = "open" /\ sink' = "lost"
    <3>1. PICK u \in Seq(Nat) : Then(logged', u) = Upto(taken)
      BY <1>2, <1>4, <2>3 DEF Extends
    <3>2. Len(logged') \in 0..taken /\ logged' = Upto(Len(logged'))
      BY <1>2, <3>1, Beginning, Sequences
    <3>3. Then(logged', logbuf') = logged'
      BY <1>2, <2>3, ThenNothing
    <3> QED
      BY <3>2, <3>3
  <2> QED
    BY <1>2, <2>1, <2>2, <2>3
<1>6. {logged', logbuf'} \subseteq Stream(taken)
  <2>1. PICK n \in 0..taken : Then(logged', logbuf') = Upto(n)
    BY <1>5
  <2>2. n \in Nat /\ n <= taken /\ taken \in Nat
    BY Sequences
  <2> QED
    BY <1>2, <2>1, <2>2, Holds
<1>7. Len(logged') >= Len(logged)
  BY <1>2, Sequences, Longer
<1> QED
  BY <1>2, <1>3, <1>4, <1>5, <1>6, <1>7

\* stdout: what was accepted is passed on in order.
LEMMA PutKeeps ==
    ASSUME PumpInv, pc \in {"out", "flushout"}, NEW data, NEW whole \in BOOLEAN, NEW next,
           Put(data, whole, next, "epipe", "stdouterror"), UNCHANGED <<taken, slab>>,
           data = IF pc = "out" THEN slab ELSE <<>>
    PROVE  /\ {shown', outbuf'} \subseteq Stream(taken)
           /\ \E n \in 0..taken : InOut' = Upto(n)
           /\ Extends(shown', shown, Nat)
           /\ \/ pc' = next /\ InOut' = Upto(taken)
              \/ reader = "left" /\ pc' = "epipe"
              \/ reader \notin {"there", "left"} /\ pc' \in {"stdouterror", "panic"}
<1>1. data \in Seq(Nat)
  BY Sequences, ThenNothing
<1>2. /\ shown' \in Seq(Nat) /\ outbuf' \in Seq(Nat)
      /\ Extends(shown', shown, Nat)
      /\ \/ /\ pc' = next
            /\ Then(shown', outbuf') = Then(Then(shown, outbuf), data)
            /\ whole => outbuf' = <<>>
         \/ Refused("epipe", "stdouterror")
  <2>1. shown \in Seq(Nat) /\ outbuf \in Seq(Nat)
    BY Sequences
  <2> QED
    BY <1>1, <2>1, PutStep
<1>3. InOut' = Then(shown', outbuf')
  BY DEF InOut, Then
<1>4. Then(Then(shown, outbuf), data) = Upto(taken)
  <2>1. Then(shown, outbuf) = Upto(IF pc = "out" THEN Earlier ELSE taken)
    <3>1. ~dead /\ ~mode.quiet
      BY DEF PumpInv, Way
    <3> QED
      BY <3>1, Sequences DEF PumpInv, OutHas
  <2>2. CASE pc = "out"
    BY <2>1, <2>2, Sequences
  <2>3. CASE pc # "out"
    <3>1. Then(shown, outbuf) = Upto(taken) /\ data = <<>>
      BY <2>1, <2>3
    <3> QED
      BY <3>1, Sequences, UptoIsSeq, ThenNothing
  <2> QED
    BY <2>2, <2>3
<1>5. \E n \in 0..taken : Then(shown', outbuf') = Upto(n)
  <2>1. CASE Then(shown', outbuf') = Then(Then(shown, outbuf), data)
    BY <1>4, <2>1, Sequences
  <2>2. CASE Refused("epipe", "stdouterror")
    <3>1. UNCHANGED <<shown, outbuf>>
      BY <2>2 DEF outVars, Refused
    <3>2. \E n \in 0..taken : Then(shown, outbuf) = Upto(n)
      BY Sequences DEF PumpInv, OutHas
    <3> QED
      BY <3>1, <3>2
  <2> QED
    BY <1>2, <2>1, <2>2
<1>6. {shown', outbuf'} \subseteq Stream(taken)
  <2>1. PICK n \in 0..taken : Then(shown', outbuf') = Upto(n)
    BY <1>5
  <2>2. n \in Nat /\ n <= taken /\ taken \in Nat
    BY Sequences
  <2> QED
    BY <1>2, <2>1, <2>2, Holds
<1> QED
  BY <1>2, <1>3, <1>4, <1>5, <1>6 DEF Refused

\* The way out: what was buffered reaches the file, or is gone.
LEMMA DropKeeps ==
    ASSUME PumpInv, DropSink
    PROVE  /\ {logged', logbuf'} \subseteq Stream(taken)
           /\ \E n \in 0..taken : InLog' = Upto(n)
           /\ Extends(logged', logged, Nat) /\ Len(logged') >= Len(logged)
           /\ sink' = sink
           /\ logbuf = <<>> => logged' = logged
<1>1. logged \in Seq(Nat) /\ logbuf \in Seq(Nat)
  BY Sequences
<1>2. PICK n \in 0..taken : Then(logged, logbuf) = Upto(n)
  BY Sequences DEF PumpInv, LogHas
<1>3. n \in Nat /\ n <= taken /\ taken \in Nat
  BY <1>2, Sequences
<1>4. logged' = (IF disk = "ok" THEN Then(logged, logbuf) ELSE logged)
      /\ logbuf' = <<>> /\ sink' = sink
  BY DEF DropSink, Then
<1>5. logged' \in Seq(Nat) /\ logbuf' \in Seq(Nat)
  BY <1>1, <1>4, ThenIsSeq, ThenNothing
<1>6. Extends(logged', logged, Nat) /\ (logbuf = <<>> => logged' = logged)
  BY <1>1, <1>4, ThenNothing DEF Extends
<1>7. \E k \in 0..n : Then(logged', logbuf') = Upto(k)
  <2>1. Then(logged', logbuf') = logged'
    BY <1>4, <1>5, ThenNothing
  <2>2. Len(logged) \in 0..n /\ logged = Upto(Len(logged))
    BY <1>1, <1>2, <1>3, Beginning
  <2> QED
    BY <1>2, <1>3, <1>4, <2>1, <2>2
<1>8. {logged', logbuf'} \subseteq Stream(taken)
  <2>1. PICK k \in 0..n : Then(logged', logbuf') = Upto(k)
    BY <1>7
  <2>2. k \in Nat /\ k <= taken
    BY <1>3
  <2> QED
    BY <1>3, <1>5, <2>1, <2>2, Holds
<1>9. InLog' = Then(logged', logbuf') /\ \E k \in 0..taken : Then(logged', logbuf') = Upto(k)
  BY <1>3, <1>7 DEF InLog, Then
<1> QED
  BY <1>4, <1>5, <1>6, <1>8, <1>9, Longer, Sequences

-----------------------------------------------------------------------------
(* The steps of the pump.                                                  *)

\* Where the pump can be.
Place == {"read", "log", "out", "flush", "flushout", "logonly", "epipe", "stdouterror",
          "final", "finalout", "report", "reporteof", "leave0", "leave1", "leaveeof",
          "panic", "done", "crashed", "quit", "killed"}

LEMMA SlabSame ==
    ASSUME PumpInv, UNCHANGED <<taken, slab>>
    PROVE  InHand' /\ Earlier' = Earlier /\ slab' \in Stream(taken')
  BY DEF PumpInv, InHand, Earlier, TypeOK

LEMMA LogSame ==
    ASSUME PumpInv, UNCHANGED <<taken, slab>>, UNCHANGED logVars
    PROVE  /\ {logged', logbuf'} \subseteq Stream(taken')
           /\ InLog' = InLog /\ \E n \in 0..taken' : InLog' = Upto(n)
  BY DEF PumpInv, TypeOK, LogHas, InLog, logVars

LEMMA OutSame ==
    ASSUME PumpInv, UNCHANGED <<taken, slab>>, UNCHANGED outVars
    PROVE  /\ {shown', outbuf'} \subseteq Stream(taken')
           /\ InOut' = InOut /\ \E n \in 0..taken' : InOut' = Upto(n)
  BY DEF PumpInv, TypeOK, OutHas, InOut, outVars

\* A step that only writes to the log.
LEMMA AfterLog ==
    ASSUME PumpInv, Running, NEW data, NEW whole \in BOOLEAN,
           NEW next \in Place \ {"log", "logonly", "done"},
           Log(data, whole, next), UNCHANGED <<world, taken, slab, outVars, flags>>,
           data = IF pc \in {"log", "logonly"} THEN slab ELSE <<>>
    PROVE  /\ TypeOK' /\ InHand' /\ LogHas' /\ OneSlabAtRisk' /\ ExitHonest'
           /\ InOut' = InOut /\ \E n \in 0..taken' : InOut' = Upto(n)
           /\ Earlier' = Earlier
           /\ Extends(logged', logged, Nat)
           /\ pc' \in {next, "panic"}
           /\ sink' = "open" => sink = "open" /\ pc' = next /\ (whole => logbuf' = <<>>)
<1>0. UNCHANGED <<taken, slab>> /\ UNCHANGED outVars /\ UNCHANGED <<world, flags>>
  OBVIOUS
<1>1. /\ {logged', logbuf'} \subseteq Stream(taken)
      /\ \E n \in 0..taken : InLog' = Upto(n)
      /\ Extends(logged', logged, Nat) /\ Len(logged') >= Len(logged)
      /\ \/ sink # "open" /\ UNCHANGED logVars /\ pc' = next
         \/ /\ sink = "open" /\ sink' = "open" /\ pc' = next
            /\ InLog' = Upto(taken)
            /\ whole => logbuf' = <<>>
         \/ sink = "open" /\ sink' = "lost" /\ pc' \in {next, "panic"}
  BY <1>0, LogKeeps
<1>2. /\ InHand' /\ slab' \in Stream(taken') /\ Earlier' = Earlier
      /\ {shown', outbuf'} \subseteq Stream(taken')
      /\ InOut' = InOut /\ \E n \in 0..taken' : InOut' = Upto(n)
  BY <1>0, SlabSame, OutSame
<1>3. /\ pc' \in {next, "panic"} /\ sink' \in {"none", "open", "lost"}
      /\ sink' = "open" => /\ sink = "open" /\ pc' = next /\ InLog' = Upto(taken)
                           /\ whole => logbuf' = <<>>
  <2>1. sink \in {"none", "open", "lost"}
    BY DEF PumpInv, TypeOK, PeersOK
  <2> QED
    BY <1>1, <2>1 DEF logVars
<1>4. TypeOK'
  <2>1. pc' \in Place
    BY <1>3 DEF Place
  <2>2. /\ mode' \in Mode /\ sent' \in 0..MaxWrites /\ taken' \in 0..sent'
        /\ closed' \in BOOLEAN /\ dead' \in BOOLEAN /\ interrupted' \in BOOLEAN
        /\ handler' \in BOOLEAN /\ code' \in {0, 1, 101, 130}
    BY DEF PumpInv, TypeOK, world, flags
  <2>3. PeersOK'
    BY <1>3 DEF PumpInv, TypeOK, PeersOK, world, peers
  <2>4. {slab', logged', logbuf', shown', outbuf'} \subseteq Stream(taken')
    BY <1>0, <1>1, <1>2
  <2> QED
    BY <2>1, <2>2, <2>3, <2>4 DEF TypeOK, Place
<1>5. LogHas'
  <2>1. pc' \notin {"log", "logonly"}
    BY <1>3
  <2> QED
    BY <1>0, <1>1, <1>3, <2>1 DEF LogHas
<1>6. OneSlabAtRisk'
  <2>1. Len(logged) \in Nat /\ Len(logged') \in Nat /\ taken \in Nat /\ Len(slab) \in Nat
    <3>1. logged \in Seq(Nat) /\ taken \in Nat /\ Len(slab) \in Nat
      BY Sequences
    <3>2. logged' \in Seq(1..taken)
      BY <1>1 DEF Stream
    <3> QED
      BY <3>1, <3>2, LenProperties
  <2> QED
    BY <1>0, <1>1, <1>3, <2>1 DEF PumpInv, OneSlabAtRisk, flags
<1>7. ExitHonest'
  BY <1>3 DEF ExitHonest
<1> QED
  BY <1>1, <1>2, <1>3, <1>4, <1>5, <1>6, <1>7

LEMMA WriteLogKeeps ==
    ASSUME PumpInv, WriteLog
    PROVE  PumpInv' /\ Extends(logged', logged, Nat)
<1> DEFINE next == IF mode.quiet THEN "flush" ELSE "out"
<1>1. /\ pc = "log" /\ Running /\ next \in Place \ {"log", "logonly", "done"}
      /\ Log(slab, FALSE, next) /\ UNCHANGED <<world, taken, slab, outVars, flags>>
  BY DEF WriteLog, Running, Place
<1>2. /\ TypeOK' /\ InHand' /\ LogHas' /\ OneSlabAtRisk' /\ ExitHonest'
      /\ InOut' = InOut /\ \E n \in 0..taken' : InOut' = Upto(n)
      /\ Earlier' = Earlier
      /\ Extends(logged', logged, Nat)
      /\ pc' \in {next, "panic"}
      /\ sink' = "open" => sink = "open" /\ pc' = next /\ (FALSE => logbuf' = <<>>)
  BY <1>1, AfterLog
<1>3. LogFlushed'
  BY <1>1, <1>2 DEF LogFlushed
<1>4. Way'
  BY <1>1, <1>2 DEF PumpInv, Way, world, flags, peers
<1>5. OutHas'
  BY <1>1, <1>2 DEF PumpInv, OutHas, Way, world, flags, outVars, peers
<1> QED
  BY <1>2, <1>3, <1>4, <1>5 DEF PumpInv

LEMMA FlushLogKeeps ==
    ASSUME PumpInv, FlushLog
    PROVE  PumpInv' /\ Extends(logged', logged, Nat)
<1> DEFINE next == IF mode.quiet THEN "read" ELSE "flushout"
<1>1. /\ pc = "flush" /\ Running /\ next \in Place \ {"log", "logonly", "done"}
      /\ Log(<<>>, TRUE, next) /\ UNCHANGED <<world, taken, slab, outVars, flags>>
  BY DEF FlushLog, Running, Place
<1>2. /\ TypeOK' /\ InHand' /\ LogHas' /\ OneSlabAtRisk' /\ ExitHonest'
      /\ InOut' = InOut /\ \E n \in 0..taken' : InOut' = Upto(n)
      /\ Earlier' = Earlier
      /\ Extends(logged', logged, Nat)
      /\ pc' \in {next, "panic"}
      /\ sink' = "open" => sink = "open" /\ pc' = next /\ (TRUE => logbuf' = <<>>)
  BY <1>1, AfterLog
<1>3. LogFlushed'
  BY <1>1, <1>2 DEF LogFlushed
<1>4. Way'
  BY <1>1, <1>2 DEF PumpInv, Way, world, flags, peers
<1>5. OutHas'
  BY <1>1, <1>2 DEF PumpInv, OutHas, Way, world, flags, outVars, peers
<1> QED
  BY <1>2, <1>3, <1>4, <1>5 DEF PumpInv

LEMMA LogOnlyKeeps ==
    ASSUME PumpInv, LogOnly
    PROVE  PumpInv' /\ Extends(logged', logged, Nat)
<1> DEFINE next == "read"
<1>1. /\ pc = "logonly" /\ Running /\ next \in Place \ {"log", "logonly", "done"}
      /\ Log(slab, TRUE, next) /\ UNCHANGED <<world, taken, slab, outVars, flags>>
  BY DEF LogOnly, Running, Place
<1>2. /\ TypeOK' /\ InHand' /\ LogHas' /\ OneSlabAtRisk' /\ ExitHonest'
      /\ InOut' = InOut /\ \E n \in 0..taken' : InOut' = Upto(n)
      /\ Earlier' = Earlier
      /\ Extends(logged', logged, Nat)
      /\ pc' \in {next, "panic"}
      /\ sink' = "open" => sink = "open" /\ pc' = next /\ (TRUE => logbuf' = <<>>)
  BY <1>1, AfterLog
<1>3. LogFlushed'
  BY <1>1, <1>2 DEF LogFlushed
<1>4. Way'
  BY <1>1, <1>2 DEF PumpInv, Way, world, flags, peers
<1>5. OutHas'
  BY <1>1, <1>2 DEF PumpInv, OutHas, Way, world, flags, outVars, peers
<1> QED
  BY <1>2, <1>3, <1>4, <1>5 DEF PumpInv

LEMMA FinalKeeps ==
    ASSUME PumpInv, Final
    PROVE  PumpInv' /\ Extends(logged', logged, Nat)
<1> DEFINE next == "finalout"
<1>1. /\ pc = "final" /\ Running /\ next \in Place \ {"log", "logonly", "done"}
      /\ Log(<<>>, TRUE, next) /\ UNCHANGED <<world, taken, slab, outVars, flags>>
  BY DEF Final, Running, Place
<1>2. /\ TypeOK' /\ InHand' /\ LogHas' /\ OneSlabAtRisk' /\ ExitHonest'
      /\ InOut' = InOut /\ \E n \in 0..taken' : InOut' = Upto(n)
      /\ Earlier' = Earlier
      /\ Extends(logged', logged, Nat)
      /\ pc' \in {next, "panic"}
      /\ sink' = "open" => sink = "open" /\ pc' = next /\ (TRUE => logbuf' = <<>>)
  BY <1>1, AfterLog
<1>3. LogFlushed'
  BY <1>1, <1>2 DEF LogFlushed
<1>4. Way'
  BY <1>1, <1>2 DEF PumpInv, Way, world, flags, peers
<1>5. OutHas'
  BY <1>1, <1>2 DEF PumpInv, OutHas, Way, world, flags, outVars, peers
<1> QED
  BY <1>2, <1>3, <1>4, <1>5 DEF PumpInv

LEMMA StopPumpingKeeps ==
    ASSUME PumpInv, StopPumping
    PROVE  PumpInv' /\ Extends(logged', logged, Nat)
<1> DEFINE next == IF pc = "epipe" THEN "leave0" ELSE "report"
<1>1. /\ pc \in {"epipe", "stdouterror"} /\ Running /\ next \in Place \ {"log", "logonly", "done"}
      /\ Log(<<>>, TRUE, next) /\ UNCHANGED <<world, taken, slab, outVars, flags>>
  BY DEF StopPumping, Running, Place
<1>2. /\ TypeOK' /\ InHand' /\ LogHas' /\ OneSlabAtRisk' /\ ExitHonest'
      /\ InOut' = InOut /\ \E n \in 0..taken' : InOut' = Upto(n)
      /\ Earlier' = Earlier
      /\ Extends(logged', logged, Nat)
      /\ pc' \in {next, "panic"}
      /\ sink' = "open" => sink = "open" /\ pc' = next /\ (TRUE => logbuf' = <<>>)
  BY <1>1, AfterLog
<1>3. LogFlushed'
  BY <1>1, <1>2 DEF LogFlushed
<1>4. Way'
  BY <1>1, <1>2 DEF PumpInv, Way, world, flags, peers
<1>5. OutHas'
  BY <1>1, <1>2 DEF PumpInv, OutHas, Way, world, flags, outVars, peers
<1> QED
  BY <1>2, <1>3, <1>4, <1>5 DEF PumpInv

\* A step that only writes to stdout.
LEMMA AfterPut ==
    ASSUME PumpInv, NEW data, NEW whole \in BOOLEAN, NEW next \in {"flush", "read"},
           \/ pc = "out" /\ data = slab /\ next = "flush"
           \/ pc = "flushout" /\ data = <<>> /\ next = "read",
           Put(data, whole, next, "epipe", "stdouterror"),
           UNCHANGED <<world, taken, slab, logVars, flags>>
    PROVE  PumpInv' /\ Extends(shown', shown, Nat)
<1>0. UNCHANGED <<taken, slab>> /\ UNCHANGED logVars /\ UNCHANGED <<world, flags>>
  OBVIOUS
<1>1. /\ {shown', outbuf'} \subseteq Stream(taken)
      /\ \E n \in 0..taken : InOut' = Upto(n)
      /\ Extends(shown', shown, Nat)
      /\ \/ pc' = next /\ InOut' = Upto(taken)
         \/ reader = "left" /\ pc' = "epipe"
         \/ reader \notin {"there", "left"} /\ pc' \in {"stdouterror", "panic"}
  <2>1. pc \in {"out", "flushout"} /\ data = IF pc = "out" THEN slab ELSE <<>>
    OBVIOUS
  <2> QED
    BY <1>0, <2>1, PutKeeps
<1>2. /\ InHand' /\ slab' \in Stream(taken') /\ Earlier' = Earlier
      /\ {logged', logbuf'} \subseteq Stream(taken')
      /\ InLog' = InLog /\ \E n \in 0..taken' : InLog' = Upto(n)
  BY <1>0, SlabSame, LogSame
<1>3. pc' \in {next, "epipe", "stdouterror", "panic"}
  BY <1>1
<1>4. TypeOK'
  <2>1. pc' \in Place
    BY <1>3 DEF Place
  <2>2. /\ mode' \in Mode /\ sent' \in 0..MaxWrites /\ taken' \in 0..sent'
        /\ closed' \in BOOLEAN /\ dead' \in BOOLEAN /\ interrupted' \in BOOLEAN
        /\ handler' \in BOOLEAN /\ code' \in {0, 1, 101, 130}
    BY DEF PumpInv, TypeOK, world, flags
  <2>3. PeersOK'
    BY DEF PumpInv, TypeOK, PeersOK, world, peers, logVars
  <2>4. {slab', logged', logbuf', shown', outbuf'} \subseteq Stream(taken')
    BY <1>0, <1>1, <1>2
  <2> QED
    BY <2>1, <2>2, <2>3, <2>4 DEF TypeOK, Place
<1>5. LogHas'
  <2>1. pc \notin {"log", "logonly"} /\ pc' \notin {"log", "logonly"} /\ Running
    BY <1>3 DEF Running
  <2>2. sink = "open" => InLog = Upto(taken)
    BY <2>1 DEF PumpInv, LogHas
  <2> QED
    BY <1>0, <1>2, <2>1, <2>2 DEF LogHas, logVars
<1>6. LogFlushed'
  BY <1>0, <1>3 DEF PumpInv, LogFlushed, logVars, flags
<1>7. OutHas'
  <2>1. pc' \notin {"log", "out", "reporteof", "leaveeof"}
    BY <1>3
  <2>2. pc' \in {"read", "flush"} => InOut' = Upto(taken)
    BY <1>1
  <2>3. pc' \notin {"final", "finalout", "flushout"}
    BY <1>3
  <2> QED
    BY <1>0, <1>1, <2>1, <2>2, <2>3 DEF OutHas
<1>8. Way'
  BY <1>0, <1>1, <1>3 DEF PumpInv, Way, world, flags, peers
<1>9. OneSlabAtRisk' /\ ExitHonest'
  BY <1>0, <1>3 DEF PumpInv, OneSlabAtRisk, ExitHonest, logVars, flags
<1> QED
  BY <1>1, <1>2, <1>4, <1>5, <1>6, <1>7, <1>8, <1>9 DEF PumpInv

LEMMA WriteOutKeeps ==
    ASSUME PumpInv, WriteOut
    PROVE  PumpInv' /\ Extends(shown', shown, Nat)
<1>1. pc = "out" /\ Put(slab, FALSE, "flush", "epipe", "stdouterror")
      /\ UNCHANGED <<world, taken, slab, logVars, flags>>
  BY DEF WriteOut
<1> QED
  BY <1>1, AfterPut

LEMMA FlushOutKeeps ==
    ASSUME PumpInv, FlushOut
    PROVE  PumpInv' /\ Extends(shown', shown, Nat)
<1>1. pc = "flushout" /\ Put(<<>>, TRUE, "read", "epipe", "stdouterror")
      /\ UNCHANGED <<world, taken, slab, logVars, flags>>
  BY DEF FlushOut
<1> QED
  BY <1>1, AfterPut

\* A slab is read: all that was read before is in the log.
LEMMA ReadKeeps ==
    ASSUME PumpInv, Read
    PROVE  PumpInv'
<1>1. PICK n \in 1..(sent - taken) : slab' = Filled(n) /\ taken' = taken + n
  BY DEF Read
<1>2. /\ pc = "read" /\ pc' = (IF dead THEN "logonly" ELSE "log")
      /\ UNCHANGED <<world, logVars, outVars, flags>>
  BY DEF Read, Goto
<1>3. taken \in Nat /\ sent \in Nat /\ n \in Nat /\ taken + n <= sent
  BY Sequences
<1>4. /\ slab' \in Seq(Nat) /\ Len(slab') = n
      /\ slab' = SubSeq(Upto(taken'), taken + 1, taken')
      /\ Then(Upto(taken), slab') = Upto(taken')
  <2> DEFINE d == SubSeq(Upto(sent), taken + 1, taken + n)
  <2>1. slab' = d
    BY <1>1 DEF Filled, Slab
  <2>2. /\ d \in Seq(Nat) /\ Len(d) = n
        /\ d = SubSeq(Upto(taken + n), taken + 1, taken + n)
        /\ Then(Upto(taken), d) = Upto(taken + n)
    BY <1>3, Arrives
  <2> HIDE DEF d
  <2> QED
    BY <1>1, <2>1, <2>2
<1>5. Earlier' = taken /\ InHand'
  BY <1>1, <1>3, <1>4 DEF Earlier, InHand
<1>6. InLog' = InLog /\ InOut' = InOut
  BY <1>2 DEF InLog, InOut, logVars, outVars
<1>7. {slab', logged', logbuf', shown', outbuf'} \subseteq Stream(taken')
  <2>1. slab' \in Seq(1..taken')
    <3>1. Upto(taken) \in Seq(Nat) /\ taken' \in Nat
      BY <1>1, <1>3, UptoIsSeq
    <3> QED
      BY <1>4, <3>1, Beginning
  <2>2. {logged, logbuf, shown, outbuf} \subseteq Seq(1..taken)
    BY DEF PumpInv, TypeOK, Stream
  <2>3. Seq(1..taken) \subseteq Seq(1..taken')
    <3>1. 1..taken \subseteq 1..taken'
      BY <1>1, <1>3
    <3> QED
      BY <3>1, SeqMonotonic
  <2> QED
    BY <1>2, <2>1, <2>2, <2>3 DEF Stream, logVars, outVars
<1>8. TypeOK'
  <2>1. pc' \in Place
    BY <1>2 DEF Place
  <2>2. /\ mode' \in Mode /\ sent' \in 0..MaxWrites /\ taken' \in 0..sent'
        /\ closed' \in BOOLEAN /\ dead' \in BOOLEAN /\ interrupted' \in BOOLEAN
        /\ handler' \in BOOLEAN /\ code' \in {0, 1, 101, 130}
    BY <1>1, <1>2, <1>3 DEF PumpInv, TypeOK, world, flags
  <2>3. PeersOK'
    BY <1>2 DEF PumpInv, TypeOK, PeersOK, world, peers, logVars
  <2> QED
    BY <1>7, <2>1, <2>2, <2>3 DEF TypeOK, Place
<1>9. sink = "open" => InLog = Upto(taken)
  BY <1>2 DEF PumpInv, LogHas, Running
<1>10. LogHas'
  <2>1. \E k \in 0..taken : InLog = Upto(k)
    BY DEF PumpInv, LogHas
  <2>2. \E k \in 0..taken' : InLog' = Upto(k)
    BY <1>1, <1>3, <1>6, <2>1
  <2>3. pc' \in {"log", "logonly"} /\ (sink' = "open" => InLog' = Upto(Earlier'))
    BY <1>2, <1>5, <1>6, <1>9 DEF logVars
  <2> QED
    BY <2>2, <2>3 DEF LogHas
<1>11. OutHas'
  <2>1. \E k \in 0..taken : InOut = Upto(k)
    BY DEF PumpInv, OutHas
  <2>2. \E k \in 0..taken' : InOut' = Upto(k)
    BY <1>1, <1>3, <1>6, <2>1
  <2>3. ~dead /\ ~mode.quiet => InOut = Upto(taken)
    BY <1>2 DEF PumpInv, OutHas
  <2>4. pc' \in {"log", "logonly"} /\ dead' = dead /\ mode' = mode /\ (pc' = "logonly" <=> dead)
    BY <1>2 DEF world, flags
  <2>5. pc' # "logonly" /\ ~mode'.quiet => InOut' = Upto(Earlier')
    BY <1>5, <1>6, <2>3, <2>4
  <2>6. ~dead' => pc' = "log"
    BY <2>4
  <2> QED
    BY <2>2, <2>4, <2>5, <2>6 DEF OutHas
<1>12. LogFlushed' /\ Way' /\ ExitHonest'
  BY <1>2 DEF PumpInv, LogFlushed, Way, ExitHonest, world, flags, peers
<1>13. OneSlabAtRisk'
  <2>1. ASSUME sink = "open", ~dead PROVE Len(logged) = taken
    <3>1. logbuf = <<>>
      BY <1>2, <2>1 DEF PumpInv, LogFlushed
    <3>2. Then(logged, logbuf) = logged
      BY <3>1, Sequences, ThenNothing
    <3>3. logged = Upto(taken)
      BY <1>9, <2>1, <3>2, Sequences
    <3> QED
      BY <1>3, <3>3, UptoIsSeq
  <2>2. taken' - Len(slab') = taken
    BY <1>1, <1>3, <1>4
  <2> QED
    BY <1>2, <1>3, <2>1, <2>2 DEF OneSlabAtRisk, logVars, flags
<1> QED
  BY <1>5, <1>8, <1>10, <1>11, <1>12, <1>13 DEF PumpInv

\* The last flush of stdout.
LEMMA FinalOutKeeps ==
    ASSUME PumpInv, FinalOut
    PROVE  PumpInv' /\ Extends(shown', shown, Nat)
<1>1. /\ pc = "finalout" /\ pc' = "reporteof"
      /\ UNCHANGED <<taken, slab>> /\ UNCHANGED logVars /\ UNCHANGED <<world, flags>>
      /\ shown' = (IF reader = "there" THEN Then(shown, outbuf) ELSE shown) /\ outbuf' = <<>>
  BY DEF FinalOut, Goto, Then
<1>2. shown \in Seq(Nat) /\ outbuf \in Seq(Nat)
  BY Sequences
<1>3. shown' \in Seq(Nat) /\ outbuf' \in Seq(Nat) /\ Extends(shown', shown, Nat)
  BY <1>1, <1>2, ThenIsSeq, ThenNothing DEF Extends
<1>4. \E k \in 0..taken : Then(shown', outbuf') = Upto(k)
  <2>1. Then(shown', outbuf') = shown'
    BY <1>1, <1>3, ThenNothing
  <2>2. PICK n \in 0..taken : Then(shown, outbuf) = Upto(n)
    BY Sequences DEF PumpInv, OutHas
  <2>3. n \in Nat /\ n <= taken /\ taken \in Nat
    BY Sequences
  <2>4. Len(shown) \in 0..n /\ shown = Upto(Len(shown))
    BY <1>2, <2>2, <2>3, Beginning
  <2> QED
    BY <1>1, <2>1, <2>2, <2>3, <2>4
<1>5. {shown', outbuf'} \subseteq Stream(taken)
  <2>1. PICK k \in 0..taken : Then(shown', outbuf') = Upto(k)
    BY <1>4
  <2>2. k \in Nat /\ k <= taken /\ taken \in Nat
    BY Sequences
  <2> QED
    BY <1>3, <2>1, <2>2, Holds
<1>6. /\ InHand' /\ slab' \in Stream(taken') /\ Earlier' = Earlier
      /\ {logged', logbuf'} \subseteq Stream(taken')
      /\ InLog' = InLog /\ \E n \in 0..taken' : InLog' = Upto(n)
  BY <1>1, SlabSame, LogSame
<1>7. TypeOK'
  <2>1. pc' \in Place
    BY <1>1 DEF Place
  <2>2. /\ mode' \in Mode /\ sent' \in 0..MaxWrites /\ taken' \in 0..sent'
        /\ closed' \in BOOLEAN /\ dead' \in BOOLEAN /\ interrupted' \in BOOLEAN
        /\ handler' \in BOOLEAN /\ code' \in {0, 1, 101, 130}
    BY <1>1 DEF PumpInv, TypeOK, world, flags
  <2>3. PeersOK'
    BY <1>1 DEF PumpInv, TypeOK, PeersOK, world, peers, logVars
  <2>4. {slab', logged', logbuf', shown', outbuf'} \subseteq Stream(taken')
    BY <1>1, <1>5, <1>6
  <2> QED
    BY <2>1, <2>2, <2>3, <2>4 DEF TypeOK, Place
<1>8. LogHas'
  <2>1. sink = "open" => InLog = Upto(taken)
    BY <1>1 DEF PumpInv, LogHas, Running
  <2> QED
    BY <1>1, <1>6, <2>1 DEF LogHas, logVars
<1>9. OutHas'
  <2>1. ASSUME reader = "there", ~mode.quiet PROVE shown' = Upto(taken)
    <3>1. ~dead
      BY <2>1 DEF PumpInv, Way
    <3> QED
      BY <1>1, <2>1, <3>1, Sequences DEF PumpInv, OutHas
  <2>2. InOut' = Then(shown', outbuf')
    BY DEF InOut, Then
  <2>3. mode' = mode /\ reader' = reader
    BY <1>1 DEF world, peers
  <2> QED
    BY <1>1, <1>4, <2>1, <2>2, <2>3 DEF OutHas
<1>10. LogFlushed' /\ Way'
  BY <1>1 DEF PumpInv, LogFlushed, Way, logVars, world, flags, peers
<1>11. OneSlabAtRisk' /\ ExitHonest'
  BY <1>1 DEF PumpInv, OneSlabAtRisk, ExitHonest, logVars, flags
<1> QED
  BY <1>3, <1>6, <1>7, <1>8, <1>9, <1>10, <1>11 DEF PumpInv

\* Everything else leaves the log, stdout and the slab alone.
Quiet == UNCHANGED <<mode, taken, slab>> /\ UNCHANGED logVars /\ UNCHANGED outVars

LEMMA QuietKeeps ==
    ASSUME PumpInv, Quiet, dead => dead'
    PROVE  /\ InHand' /\ Earlier' = Earlier /\ OneSlabAtRisk'
           /\ {slab', logged', logbuf', shown', outbuf'} \subseteq Stream(taken')
           /\ InLog' = InLog /\ \E n \in 0..taken' : InLog' = Upto(n)
           /\ InOut' = InOut /\ \E n \in 0..taken' : InOut' = Upto(n)
<1>1. UNCHANGED <<taken, slab>> /\ UNCHANGED logVars /\ UNCHANGED outVars
  BY DEF Quiet
<1>2. OneSlabAtRisk'
  BY <1>1 DEF PumpInv, OneSlabAtRisk, logVars
<1> QED
  BY <1>1, <1>2, SlabSame, LogSame, OutSame

\* A step of the pump that writes nothing, a press of Ctrl+C or a kill.
LEMMA ControlKeeps ==
    ASSUME PumpInv,
           Eof \/ ReadFails \/ LosePassthrough \/ Report \/ Press \/ Killed
    PROVE  PumpInv'
<1>1. Quiet /\ UNCHANGED world /\ (dead => dead') /\ Running
  BY DEF Eof, ReadFails, LosePassthrough, Report, Press, Killed, Quiet, world, flags, Running
<1>2. /\ InHand' /\ Earlier' = Earlier /\ OneSlabAtRisk'
      /\ {slab', logged', logbuf', shown', outbuf'} \subseteq Stream(taken')
      /\ InLog' = InLog /\ \E n \in 0..taken' : InLog' = Upto(n)
      /\ InOut' = InOut /\ \E n \in 0..taken' : InOut' = Upto(n)
  BY <1>1, QuietKeeps
<1>3. \/ pc = "read" /\ pc' = "final" /\ closed /\ taken = sent /\ UNCHANGED flags
      \/ pc = "read" /\ pc' \in {"leave1", "panic"} /\ UNCHANGED flags
      \/ /\ pc \in {"epipe", "stdouterror"} /\ pc' \in {"read", "panic"}
         /\ dead' = TRUE /\ UNCHANGED <<interrupted, handler, code>>
      \/ pc = "report" /\ pc' \in {"leave1", "panic"} /\ UNCHANGED flags
      \/ pc = "reporteof" /\ pc' \in {"leaveeof", "panic"} /\ UNCHANGED flags
      \/ pc' = pc /\ dead' = dead /\ code' = code /\ {interrupted', handler'} \subseteq BOOLEAN
      \/ /\ pc' \in {"quit", "killed"} /\ dead' = dead /\ code' \in {code, 130}
         /\ UNCHANGED <<interrupted, handler>>
  <2>1. CASE Eof
    BY <2>1 DEF Eof, Goto
  <2>2. CASE ReadFails
    BY <2>2 DEF ReadFails, Say
  <2>3. CASE LosePassthrough
    BY <2>3 DEF LosePassthrough, Goto, Say
  <2>4. CASE Report
    BY <2>4 DEF Report, ReportLog, Say, Goto
  <2>5. CASE Press
    <3>1. /\ handler /\ dead' = dead
          /\ \/ interrupted' = TRUE /\ handler' = (stderr = "ok") /\ pc' = pc /\ code' = code
             \/ pc' = "quit" /\ code' = 130 /\ UNCHANGED <<interrupted, handler>>
      BY <2>5 DEF Press, Goto
    <3> QED
      BY <3>1
  <2>6. CASE Killed
    BY <2>6 DEF Killed, Goto, flags
  <2> QED
    BY <2>1, <2>2, <2>3, <2>4, <2>5, <2>6
<1>4. TypeOK'
  <2>1. pc' \in Place
    BY <1>3 DEF PumpInv, TypeOK, Place
  <2>2. /\ mode' \in Mode /\ sent' \in 0..MaxWrites /\ taken' \in 0..sent'
        /\ closed' \in BOOLEAN
    BY <1>1 DEF PumpInv, TypeOK, world, Quiet
  <2>3. /\ dead' \in BOOLEAN /\ interrupted' \in BOOLEAN
        /\ handler' \in BOOLEAN /\ code' \in {0, 1, 101, 130}
    <3>1. /\ dead \in BOOLEAN /\ interrupted \in BOOLEAN /\ handler \in BOOLEAN
          /\ code \in {0, 1, 101, 130}
      BY DEF PumpInv, TypeOK
    <3>2. dead' = dead \/ dead' = TRUE
      BY <1>3 DEF flags
    <3>3. code' = code \/ code' = 130
      BY <1>3 DEF flags
    <3>4. \/ UNCHANGED <<interrupted, handler>>
          \/ interrupted' \in BOOLEAN /\ handler' \in BOOLEAN
      BY <1>3, Zenon DEF flags
    <3>5. interrupted' \in BOOLEAN /\ handler' \in BOOLEAN
      BY <3>1, <3>4, Zenon
    <3>6. dead' \in BOOLEAN
      BY <3>1, <3>2
    <3> QED
      BY <3>1, <3>3, <3>5, <3>6
  <2>4. PeersOK'
    BY <1>1 DEF PumpInv, TypeOK, PeersOK, world, peers, Quiet, logVars
  <2> QED
    BY <1>2, <2>1, <2>2, <2>3, <2>4 DEF TypeOK, Place
<1>5. LogHas'
  <2>1. \/ pc \notin {"log", "logonly"} /\ pc' \notin {"log", "logonly"}
        \/ pc' = pc
        \/ ~Running'
    BY <1>3 DEF Running
  <2> QED
    BY <1>1, <1>2, <2>1 DEF PumpInv, LogHas, Quiet, logVars
<1>6. OutHas'
  BY <1>1, <1>2, <1>3 DEF PumpInv, OutHas, Quiet, outVars, world, peers, flags
<1>7. LogFlushed' /\ Way'
  BY <1>1, <1>3 DEF PumpInv, LogFlushed, Way, Quiet, logVars, world, flags, peers
<1>8. ExitHonest'
  BY <1>1, <1>3 DEF ExitHonest, Running
<1> QED
  BY <1>2, <1>4, <1>5, <1>6, <1>7, <1>8 DEF PumpInv

\* The world around the pump.
LEMMA OutsideKeeps ==
    ASSUME PumpInv, Others \/ HangUp
    PROVE  PumpInv'
<1>1. Quiet /\ UNCHANGED pc /\ UNCHANGED flags
  BY DEF Others, HangUp, Quiet
<1>2. /\ InHand' /\ Earlier' = Earlier /\ OneSlabAtRisk'
      /\ {slab', logged', logbuf', shown', outbuf'} \subseteq Stream(taken')
      /\ InLog' = InLog /\ \E n \in 0..taken' : InLog' = Upto(n)
      /\ InOut' = InOut /\ \E n \in 0..taken' : InOut' = Upto(n)
  BY <1>1, QuietKeeps DEF flags
<1>3. \/ sent' = sent /\ closed' = closed
      \/ sent' = sent /\ closed' = TRUE
      \/ ~closed /\ sent < MaxWrites /\ sent' = sent + 1 /\ closed' = closed
  BY DEF Others, HangUp
<1>4. /\ reader' \in {"there", "left", "lost"} /\ stderr' \in {"ok", "gone"}
      /\ disk' \in {"ok", "full"}
      /\ reader # "there" => reader' = reader
  BY DEF Others, HangUp, ReaderLeaves, DiskFills, TerminalCloses, peers, PumpInv, TypeOK, PeersOK
<1>5. TypeOK'
  <2>1. /\ sent' \in 0..MaxWrites /\ taken' \in 0..sent' /\ closed' \in BOOLEAN
    <3>1. sent \in 0..MaxWrites /\ taken \in 0..sent /\ closed \in BOOLEAN /\ MaxWrites \in Nat
      BY DEF PumpInv, TypeOK
    <3>2. taken' = taken /\ (sent' = sent \/ (sent < MaxWrites /\ sent' = sent + 1))
      BY <1>1, <1>3 DEF Quiet
    <3>3. closed' = closed \/ closed' = TRUE
      BY <1>3
    <3>4. closed' \in BOOLEAN
      BY <3>1, <3>3
    <3>5. sent' \in 0..MaxWrites /\ taken' \in 0..sent'
      BY <3>1, <3>2
    <3> QED
      BY <3>4, <3>5
  <2>2. /\ mode' \in Mode /\ pc' \in Place
        /\ dead' \in BOOLEAN /\ interrupted' \in BOOLEAN
        /\ handler' \in BOOLEAN /\ code' \in {0, 1, 101, 130}
    BY <1>1 DEF PumpInv, TypeOK, Place, flags, Quiet
  <2>3. PeersOK'
    BY <1>1, <1>4 DEF PumpInv, TypeOK, PeersOK, Quiet, logVars
  <2> QED
    BY <1>2, <2>1, <2>2, <2>3 DEF TypeOK, Place
<1>6. LogHas' /\ LogFlushed'
  BY <1>1, <1>2 DEF PumpInv, LogHas, LogFlushed, Quiet, logVars, Running, flags
<1>7. OutHas'
  BY <1>1, <1>2, <1>4 DEF PumpInv, OutHas, Quiet, outVars, flags, TypeOK, PeersOK
<1>8. Way'
  BY <1>1, <1>3, <1>4 DEF PumpInv, Way, Quiet, flags
<1>9. ExitHonest'
  <2>1. closed /\ taken = sent => closed' /\ taken' = sent' /\ sent' = sent
    BY <1>1, <1>3 DEF Quiet
  <2>2. UNCHANGED <<pc, code, sink, logged, taken, mode, shown>>
    BY <1>1 DEF Quiet, logVars, outVars, flags
  <2>3. (reader' # "left" => reader # "left") /\ (reader' = "there" => reader = "there")
    BY <1>4 DEF PumpInv, TypeOK, PeersOK
  <2> QED
    BY <2>1, <2>2, <2>3 DEF PumpInv, ExitHonest
<1> QED
  BY <1>2, <1>5, <1>6, <1>7, <1>8, <1>9 DEF PumpInv

\* The end: main returns, or a panic unwinds, and the sink is dropped; or the
\* detached pump exits and drops nothing.
LEMMA EndKeeps ==
    ASSUME PumpInv, Leave \/ Unwind
    PROVE  PumpInv' /\ Extends(logged', logged, Nat)
<1>1. /\ UNCHANGED <<taken, slab>> /\ UNCHANGED world /\ UNCHANGED outVars
      /\ UNCHANGED <<dead, interrupted, handler>>
      /\ code' \in {0, 1, 101, 130}
      /\ pc' \in {"done", "crashed"}
      /\ pc' = "done" /\ code' # 1 => pc \in {"leave0", "leaveeof"}
      /\ UNCHANGED logVars \/ DropSink
  BY DEF Leave, Unwind, Goto
<1>2. /\ {logged', logbuf'} \subseteq Stream(taken)
      /\ \E n \in 0..taken : InLog' = Upto(n)
      /\ Extends(logged', logged, Nat) /\ Len(logged') >= Len(logged)
      /\ sink' = sink
      /\ logbuf = <<>> => logged' = logged
  <2>1. ASSUME UNCHANGED logVars
        PROVE  /\ {logged', logbuf'} \subseteq Stream(taken)
               /\ \E n \in 0..taken : InLog' = Upto(n)
               /\ Extends(logged', logged, Nat) /\ Len(logged') >= Len(logged)
               /\ sink' = sink
               /\ logbuf = <<>> => logged' = logged
    <3>1. logged' = logged /\ sink' = sink
      BY <2>1 DEF logVars
    <3>2. Extends(logged', logged, Nat)
      BY <3>1, Sequences, ThenNothing DEF Extends
    <3>3. Len(logged') >= Len(logged)
      BY <3>2, Sequences, Longer
    <3>4. /\ {logged', logbuf'} \subseteq Stream(taken)
          /\ \E n \in 0..taken : InLog' = Upto(n)
      BY <1>1, <2>1, LogSame
    <3> QED
      BY <3>1, <3>2, <3>3, <3>4
  <2> QED
    BY <1>1, <2>1, DropKeeps
<1>3. /\ InHand' /\ slab' \in Stream(taken') /\ Earlier' = Earlier
      /\ {shown', outbuf'} \subseteq Stream(taken')
      /\ InOut' = InOut /\ \E n \in 0..taken' : InOut' = Upto(n)
  BY <1>1, SlabSame, OutSame
<1>4. TypeOK'
  <2>1. pc' \in Place
    BY <1>1 DEF Place
  <2>2. /\ mode' \in Mode /\ sent' \in 0..MaxWrites /\ taken' \in 0..sent'
        /\ closed' \in BOOLEAN /\ dead' \in BOOLEAN /\ interrupted' \in BOOLEAN
        /\ handler' \in BOOLEAN /\ code' \in {0, 1, 101, 130}
    BY <1>1 DEF PumpInv, TypeOK, world
  <2>3. PeersOK'
    BY <1>1, <1>2 DEF PumpInv, TypeOK, PeersOK, world, peers
  <2>4. {slab', logged', logbuf', shown', outbuf'} \subseteq Stream(taken')
    BY <1>1, <1>2, <1>3
  <2> QED
    BY <2>1, <2>2, <2>3, <2>4 DEF TypeOK, Place
<1>5. LogHas' /\ LogFlushed'
  BY <1>1, <1>2 DEF LogHas, LogFlushed, Running
<1>6. OutHas' /\ Way'
  BY <1>1, <1>3 DEF PumpInv, OutHas, Way, world, peers
<1>7. OneSlabAtRisk'
  <2>1. Len(logged) \in Nat /\ Len(logged') \in Nat /\ taken \in Nat /\ Len(slab) \in Nat
    <3>1. logged \in Seq(Nat) /\ taken \in Nat /\ Len(slab) \in Nat
      BY Sequences
    <3>2. logged' \in Seq(1..taken)
      BY <1>2 DEF Stream
    <3> QED
      BY <3>1, <3>2, LenProperties
  <2> QED
    BY <1>1, <1>2, <2>1 DEF PumpInv, OneSlabAtRisk
<1>8. ExitHonest'
  <2> SUFFICES ASSUME pc' = "done", code' # 1
               PROVE  /\ sink' = "open" => logged' = Upto(taken')
                      /\ reader' # "left" => closed' /\ taken' = sent'
                      /\ reader' = "there" /\ ~mode'.quiet => shown' = Upto(sent')
    BY DEF ExitHonest
  <2>1. pc \in {"leave0", "leaveeof"}
    BY <1>1
  <2>2. ASSUME sink' = "open" PROVE logged' = Upto(taken')
    <3>1. sink = "open" /\ logbuf = <<>>
      BY <1>2, <2>1, <2>2 DEF PumpInv, LogFlushed
    <3>2. InLog = Upto(taken)
      BY <2>1, <3>1 DEF PumpInv, LogHas, Running
    <3>3. Then(logged, logbuf) = logged
      BY <3>1, Sequences, ThenNothing
    <3> QED
      BY <1>1, <1>2, <3>1, <3>2, <3>3, Sequences
  <2>3. reader' = reader /\ mode' = mode /\ closed' = closed /\ sent' = sent
        /\ taken' = taken /\ shown' = shown
    BY <1>1 DEF world, peers, outVars
  <2>4. reader # "left" => pc = "leaveeof"
    BY <2>1 DEF PumpInv, Way
  <2>5. pc = "leaveeof" => closed /\ taken = sent
    BY DEF PumpInv, Way
  <2>6. reader = "there" /\ ~mode.quiet /\ pc = "leaveeof" => shown = Upto(taken)
    BY DEF PumpInv, OutHas
  <2> QED
    BY <2>2, <2>3, <2>4, <2>5, <2>6
<1> QED
  BY <1>2, <1>3, <1>4, <1>5, <1>6, <1>7, <1>8 DEF PumpInv

-----------------------------------------------------------------------------
(* The theorems.                                                           *)

LEMMA InitHolds ==
    ASSUME Init
    PROVE  PumpInv
<1>1. /\ mode \in Mode /\ sent = 0 /\ closed = FALSE /\ pc = "read" /\ taken = 0
      /\ slab = <<>> /\ logged = <<>> /\ logbuf = <<>> /\ shown = <<>> /\ outbuf = <<>>
      /\ sink \in {"open", "none"} /\ reader = "there" /\ stderr = "ok" /\ disk = "ok"
      /\ dead = FALSE /\ interrupted = FALSE /\ handler = TRUE /\ code = 0
  BY DEF Init, OutputsInit
<1>2. PICK e \in Seq(Nat) : e = <<>>
  BY EmptySeq
<1>3. Len(e) = 0 /\ Then(e, e) = e /\ Upto(0) = e /\ e \in Stream(0)
  <2>1. Len(e) = 0 /\ Upto(0) = e
    BY <1>2, EmptySeq, NothingYet
  <2>2. Then(e, e) = e
    BY <1>2, ThenNothing
  <2> QED
    BY <1>2, <2>1, <2>2, EmptySeq DEF Stream
<1>4. InLog = Upto(0) /\ InOut = Upto(0)
  BY <1>1, <1>2, <1>3 DEF InLog, InOut, Then
<1>5. TypeOK
  <2>1. {slab, logged, logbuf, shown, outbuf} \subseteq Stream(taken)
    BY <1>1, <1>2, <1>3
  <2>2. sent \in 0..MaxWrites /\ taken \in 0..sent
    BY <1>1
  <2>3. PeersOK /\ code \in {0, 1, 101, 130} /\ pc \in Place
    BY <1>1 DEF PeersOK, Place
  <2>4. closed \in BOOLEAN /\ dead \in BOOLEAN /\ interrupted \in BOOLEAN /\ handler \in BOOLEAN
    BY <1>1
  <2> QED
    BY <1>1, <2>1, <2>2, <2>3, <2>4 DEF TypeOK, Place
<1>6. InHand /\ Earlier = 0
  <2>1. Earlier = 0 /\ Len(slab) = 0
    <3>1. slab = e
      BY <1>1, <1>2
    <3>2. Len(slab) = 0
      BY <1>3, <3>1
    <3>3. taken = 0
      BY <1>1
    <3> QED
      BY <3>2, <3>3 DEF Earlier
  <2>2. SubSeq(Upto(taken), Earlier + 1, taken) = <<>>
    BY <1>1, <2>1, SubSeqEmpty, 1 \in Int, 0 \in Int
  <2> QED
    BY <1>1, <2>1, <2>2 DEF InHand
<1>7. LogHas /\ LogFlushed /\ OutHas
  BY <1>1, <1>4 DEF LogHas, LogFlushed, OutHas
<1>8. Way /\ ExitHonest
  BY <1>1 DEF Way, ExitHonest
<1>9. OneSlabAtRisk
  <2>1. Len(logged) = 0 /\ Len(slab) = 0 /\ taken = 0
    BY <1>1, <1>2, <1>3
  <2> QED
    BY <2>1 DEF OneSlabAtRisk
<1> QED
  BY <1>5, <1>6, <1>7, <1>8, <1>9 DEF PumpInv

LEMMA StutterKeeps ==
    ASSUME PumpInv, UNCHANGED vars
    PROVE  PumpInv'
<1>1. Quiet /\ UNCHANGED world /\ UNCHANGED flags /\ UNCHANGED pc
  BY DEF vars, Quiet, world
<1>2. /\ InHand' /\ Earlier' = Earlier /\ OneSlabAtRisk'
      /\ {slab', logged', logbuf', shown', outbuf'} \subseteq Stream(taken')
      /\ InLog' = InLog /\ \E n \in 0..taken' : InLog' = Upto(n)
      /\ InOut' = InOut /\ \E n \in 0..taken' : InOut' = Upto(n)
  BY <1>1, QuietKeeps DEF flags
<1>3. TypeOK'
  BY <1>1, <1>2 DEF PumpInv, TypeOK, PeersOK, Quiet, world, peers, flags, logVars
<1>4. LogHas' /\ LogFlushed' /\ OutHas'
  BY <1>1, <1>2 DEF PumpInv, LogHas, LogFlushed, OutHas, Quiet, world, peers, flags, logVars,
                    outVars, Running
<1>5. Way' /\ ExitHonest'
  BY <1>1 DEF PumpInv, Way, ExitHonest, Quiet, world, peers, flags, logVars, outVars
<1> QED
  BY <1>2, <1>3, <1>4, <1>5 DEF PumpInv

\* PumpInv is inductive (main.rs:126-345).
THEOREM PumpInductive ==
    Spec => []PumpInv
<1>1. Init => PumpInv
  BY InitHolds
<1>2. PumpInv /\ [Next]_vars => PumpInv'
  <2> SUFFICES ASSUME PumpInv, [Next]_vars PROVE PumpInv'
    OBVIOUS
  <2>1. CASE Step
    <3>1. CASE WriteLog \/ FlushLog \/ LogOnly \/ StopPumping \/ Final
      BY <3>1, WriteLogKeeps, FlushLogKeeps, LogOnlyKeeps, StopPumpingKeeps, FinalKeeps
    <3>2. CASE Read \/ WriteOut \/ FlushOut \/ FinalOut
      BY <3>2, ReadKeeps, WriteOutKeeps, FlushOutKeeps, FinalOutKeeps
    <3>3. CASE Eof \/ LosePassthrough \/ Report
      BY <3>3, ControlKeeps
    <3>4. CASE Leave \/ Unwind
      BY <3>4, EndKeeps
    <3> QED
      BY <2>1, <3>1, <3>2, <3>3, <3>4 DEF Step
  <2>2. CASE ReadFails \/ Press \/ Killed
    BY <2>2, ControlKeeps
  <2>3. CASE Others \/ HangUp
    BY <2>3, OutsideKeeps
  <2>4. CASE UNCHANGED vars
    BY <2>4, StutterKeeps
  <2> QED
    BY <2>1, <2>2, <2>3, <2>4 DEF Next
<1> QED
  BY <1>1, <1>2, PTL DEF Spec

\* Nothing but bytes of the stream is ever in a buffer or a file.
THEOREM PumpTypeCorrect ==
    Spec => []TypeOK
<1>1. PumpInv => TypeOK
  BY DEF PumpInv
<1> QED
  BY <1>1, PumpInductive, PTL

\* Nothing is lost, repeated or reordered on its way to the log or to stdout, and
\* a log that works has everything up to the slab in hand (main.rs:170-206, 299-330).
THEOREM NothingLostOnTheWay ==
    Spec => []Faithful
<1>1. PumpInv => Faithful
  <2> SUFFICES ASSUME PumpInv PROVE Faithful
    OBVIOUS
  <2>1. \A n \in Nat : Len(Upto(n)) = n
    BY UptoIsSeq
  <2>2. taken \in Nat /\ Earlier \in 0..taken /\ Earlier = taken - Len(slab)
        /\ Len(slab) \in Nat
    BY Sequences DEF Earlier
  <2>3. IsStream(InLog)
    <3>1. PICK n \in 0..taken : InLog = Upto(n)
      BY DEF PumpInv, LogHas
    <3> QED
      BY <2>1, <2>2, <3>1 DEF IsStream
  <2>4. IsStream(shown)
    <3>1. PICK n \in 0..taken : Then(shown, outbuf) = Upto(n)
      BY Sequences DEF PumpInv, OutHas
    <3>2. n \in Nat
      BY <2>2
    <3> QED
      BY <3>1, <3>2, Sequences, Beginning DEF IsStream
  <2>5. ASSUME sink = "open", Running
        PROVE  Len(InLog) = taken - (IF pc \in {"log", "logonly"} THEN Len(slab) ELSE 0)
    <3>1. InLog = Upto(IF pc \in {"log", "logonly"} THEN Earlier ELSE taken)
      BY <2>5 DEF PumpInv, LogHas
    <3>2. CASE pc \in {"log", "logonly"}
      BY <2>1, <2>2, <3>1, <3>2
    <3>3. CASE pc \notin {"log", "logonly"}
      BY <2>1, <2>2, <3>1, <3>3
    <3> QED
      BY <3>2, <3>3
  <2> QED
    BY <2>3, <2>4, <2>5 DEF Faithful
<1> QED
  BY <1>1, PumpInductive, PTL

\* However the pump ends, the log lacks at most the slab in hand (main.rs:141).
THEOREM AtMostOneSlabLost ==
    Spec => []OneSlabAtRisk
<1>1. PumpInv => OneSlabAtRisk
  BY DEF PumpInv
<1> QED
  BY <1>1, PumpInductive, PTL

\* The exit code tells the truth (main.rs:332-345).
THEOREM PumpExitsHonestly ==
    Spec => []ExitHonest
<1>1. PumpInv => ExitHonest
  BY DEF PumpInv
<1> QED
  BY <1>1, PumpInductive, PTL

-----------------------------------------------------------------------------
(* Pipe mode implements Tee.tla.                                           *)

\* Only a read takes anything in, and what was passed on stays.
LEMMA Outward ==
    ASSUME PumpInv, [Next]_vars
    PROVE  \/ Read
           \/ /\ taken' = taken
              /\ Extends(logged', logged, Nat) /\ Extends(shown', shown, Nat)
<1>1. logged \in Seq(Nat) /\ shown \in Seq(Nat)
  BY Sequences
<1>2. ASSUME UNCHANGED logVars PROVE Extends(logged', logged, Nat)
  BY <1>1, <1>2, ThenNothing DEF Extends, logVars
<1>3. ASSUME UNCHANGED outVars PROVE Extends(shown', shown, Nat)
  BY <1>1, <1>3, ThenNothing DEF Extends, outVars
<1>4. CASE WriteLog \/ FlushLog \/ LogOnly \/ StopPumping \/ Final
  <2>1. taken' = taken /\ UNCHANGED outVars
    BY <1>4 DEF WriteLog, FlushLog, LogOnly, StopPumping, Final
  <2>2. Extends(logged', logged, Nat)
    BY <1>4, WriteLogKeeps, FlushLogKeeps, LogOnlyKeeps, StopPumpingKeeps, FinalKeeps
  <2> QED
    BY <1>3, <2>1, <2>2
<1>5. CASE WriteOut \/ FlushOut \/ FinalOut
  <2>1. taken' = taken /\ UNCHANGED logVars
    BY <1>5 DEF WriteOut, FlushOut, FinalOut
  <2>2. Extends(shown', shown, Nat)
    BY <1>5, WriteOutKeeps, FlushOutKeeps, FinalOutKeeps
  <2> QED
    BY <1>2, <2>1, <2>2
<1>6. CASE Leave \/ Unwind
  <2>1. taken' = taken /\ UNCHANGED outVars
    BY <1>6 DEF Leave, Unwind
  <2> QED
    BY <1>3, <1>6, <2>1, EndKeeps
<1>7. CASE \/ Eof \/ LosePassthrough \/ Report \/ ReadFails \/ Press \/ Killed
           \/ Others \/ HangUp \/ UNCHANGED vars
  <2>1. taken' = taken /\ UNCHANGED logVars /\ UNCHANGED outVars
    BY <1>7 DEF Eof, LosePassthrough, Report, ReadFails, Press, Killed, Others, HangUp, vars
  <2> QED
    BY <1>2, <1>3, <2>1
<1> QED
  BY <1>4, <1>5, <1>6, <1>7 DEF Next, Step

LEMMA PrefixOf ==
    ASSUME NEW s \in Seq(Nat), NEW t \in Seq(Nat), Extends(t, s, Nat)
    PROVE  Promised!IsPrefix(s, t)
  BY PrefixExtends DEF Promised!IsPrefix

\* The log and stdout each hold a beginning of what was read.
Begun == Extends(Upto(taken), logged, Nat) /\ Extends(Upto(taken), shown, Nat)

LEMMA BothBegin ==
    ASSUME PumpInv
    PROVE  Begun
<1>1. ASSUME NEW s \in Seq(Nat), NEW t \in Seq(Nat), NEW n \in 0..taken, Then(s, t) = Upto(n)
      PROVE  Extends(Upto(taken), s, Nat)
  <2>1. n \in Nat /\ taken - n \in Nat /\ taken \in Nat /\ n + (taken - n) = taken
    BY Sequences
  <2> DEFINE k == taken - n
             d == SubSeq(Upto(taken), n + 1, n + k)
  <2>2. d \in Seq(Nat) /\ Then(Upto(n), d) = Upto(n + k)
    <3>1. k \in Nat /\ n + k <= taken
      BY <2>1
    <3> HIDE DEF k
    <3> QED
      BY <2>1, <3>1, Arrives
  <2>3. n + k = taken
    BY <2>1
  <2> HIDE DEF k, d
  <2>4. Then(Then(s, t), d) = Then(s, Then(t, d))
    BY <2>2, Regroup
  <2>5. Then(t, d) \in Seq(Nat)
    BY <2>2, ThenIsSeq
  <2>6. Upto(taken) = Then(s, Then(t, d))
    BY <1>1, <2>2, <2>3, <2>4
  <2> QED
    BY <2>5, <2>6 DEF Extends
<1>2. /\ \E n \in 0..taken : Then(logged, logbuf) = Upto(n)
      /\ \E n \in 0..taken : Then(shown, outbuf) = Upto(n)
  BY Sequences DEF PumpInv, LogHas, OutHas
<1>3. {logged, logbuf, shown, outbuf} \subseteq Seq(Nat)
  BY Sequences
<1> QED
  BY <1>1, <1>2, <1>3 DEF Begun

\* A step of the pump is a step of Tee.tla or leaves its variables alone.
LEMMA PumpTees ==
    ASSUME PumpInv, Begun', [Next]_vars
    PROVE  [Promised!Hear \/ Promised!Pass]_<<Upto(taken), logged, shown>>
<1>1. /\ taken \in Nat /\ logged \in Seq(Nat) /\ shown \in Seq(Nat)
      /\ Upto(taken) \in Seq(Nat) /\ Len(Upto(taken)) = taken
  BY Sequences, UptoIsSeq
<1>2. CASE Read
  <2>1. PICK n \in 1..(sent - taken) : taken' = taken + n /\ slab' = Filled(n)
    BY <1>2 DEF Read
  <2>2. UNCHANGED <<logged, shown>>
    BY <1>2 DEF Read, logVars, outVars
  <2>3. sent \in Nat /\ n \in Nat \ {0} /\ taken + n <= sent
    BY Sequences, <2>1
  <2> DEFINE d == SubSeq(Upto(sent), taken + 1, taken + n)
  <2>4. d \in Seq(Nat) /\ Then(Upto(taken), d) = Upto(taken + n)
    BY <1>1, <2>3, Arrives
  <2> HIDE DEF d
  <2>5. Extends(Upto(taken'), Upto(taken), Nat)
    BY <2>1, <2>4 DEF Extends
  <2>6. Upto(taken') \in Seq(Nat) /\ Len(Upto(taken')) = taken' /\ taken' # taken
    BY <1>1, <2>1, <2>3, UptoIsSeq
  <2>7. Promised!IsPrefix(Upto(taken), Upto(taken'))
    BY <1>1, <2>5, <2>6, PrefixOf
  <2>8. Upto(taken) # Upto(taken')
    BY <1>1, <2>6
  <2> QED
    BY <2>2, <2>7, <2>8 DEF Promised!Hear, Promised!IsStrictPrefix
<1>3. CASE taken' = taken /\ Extends(logged', logged, Nat) /\ Extends(shown', shown, Nat)
  <2>1. Upto(taken)' = Upto(taken)
    BY <1>3
  <2>2. logged' \in Seq(Nat) /\ shown' \in Seq(Nat)
    BY <1>1, <1>3, Longer
  <2>3. Promised!IsPrefix(logged, logged') /\ Promised!IsPrefix(shown, shown')
    BY <1>1, <1>3, <2>2, PrefixOf
  <2>4. Extends(Upto(taken), logged', Nat) /\ Extends(Upto(taken), shown', Nat)
    BY <1>3 DEF Begun
  <2>5. Promised!IsPrefix(logged', Upto(taken)) /\ Promised!IsPrefix(shown', Upto(taken))
    BY <1>1, <2>2, <2>4, PrefixOf
  <2> QED
    BY <2>1, <2>3, <2>5 DEF Promised!Pass, Promised!Grows
<1> QED
  BY <1>2, <1>3, Outward

\* Pipe mode keeps the promise of Tee.tla: one order of what was read, and both
\* destinations keep what they have of it (main.rs:170-206, 299-330).
THEOREM PumpKeepsTee ==
    Spec => Tees
<1>1. Init => Promised!TeeInit
  <2> SUFFICES ASSUME Init PROVE Promised!TeeInit
    OBVIOUS
  <2>1. taken = 0 /\ logged = <<>> /\ shown = <<>>
    BY DEF Init, OutputsInit
  <2>2. Upto(taken) = <<>>
    BY <2>1, NothingYet
  <2> QED
    BY <2>1, <2>2 DEF Promised!TeeInit
<1>2. PumpInv => Begun
  BY BothBegin
<1>3. PumpInv /\ Begun' /\ [Next]_vars
        => [Promised!Hear \/ Promised!Pass]_<<Upto(taken), logged, shown>>
  BY PumpTees
<1> QED
  BY <1>1, <1>2, <1>3, PumpInductive, PTL DEF Spec, Tees, Promised!TeeSpec
=============================================================================
