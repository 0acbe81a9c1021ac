---------------------------- MODULE OutputsProofs ----------------------------
(***************************************************************************)
(* What one write to a destination does (Outputs.tla), whatever the items  *)
(* are and wherever the buffer is cut: nothing is lost, repeated or        *)
(* reordered between the destination and its buffer, and what has arrived  *)
(* stays.  The proofs about both pumps build on this.                      *)
(***************************************************************************)
EXTENDS Outputs, SequenceTheorems, TLAPS

\* s, and t behind it; a name, because the provers take \o apart.
Then(s, t) == s \o t

\* t is s with something behind it.
Extends(t, s, S) == \E u \in Seq(S) : t = Then(s, u)

-----------------------------------------------------------------------------
(* Sequences.                                                              *)

\* A sequence cut in two.
LEMMA Cut ==
    ASSUME NEW S, NEW s \in Seq(S), NEW n \in 0..Len(s)
    PROVE  /\ SubSeq(s, 1, n) \in Seq(S) /\ Len(SubSeq(s, 1, n)) = n
           /\ SubSeq(s, n + 1, Len(s)) \in Seq(S)
           /\ SubSeq(s, 1, n) \o SubSeq(s, n + 1, Len(s)) = s
           /\ n = Len(s) => SubSeq(s, n + 1, Len(s)) = <<>>
<1>1. Len(s) \in Nat /\ \A i \in 1..Len(s) : s[i] \in S
  BY ElementOfSeq, LenProperties
<1>2. SubSeq(s, 1, n) \in Seq(S) /\ Len(SubSeq(s, 1, n)) = n
  <2>1. n \in Nat /\ \A i \in 1..n : s[i] \in S
    BY <1>1
  <2>2. /\ SubSeq(s, 1, n) \in Seq(S)
        /\ Len(SubSeq(s, 1, n)) = IF 1 <= n THEN n - 1 + 1 ELSE 0
    BY <2>1, SubSeqProperties, 1 \in Int, n \in Int
  <2> QED
    BY <2>1, <2>2
<1>3. SubSeq(s, n + 1, Len(s)) \in Seq(S)
  BY <1>1, SubSeqProperties, n + 1 \in Int, Len(s) \in Int, \A i \in (n + 1)..Len(s) : s[i] \in S
<1>4. SubSeq(s, 1, n) \o SubSeq(s, n + 1, Len(s)) = s
  <2>1. 1 \in 1..Len(s) + 1 /\ n \in 1 - 1..Len(s) /\ Len(s) \in n..Len(s)
    BY <1>1
  <2>2. SubSeq(s, 1, n) \o SubSeq(s, n + 1, Len(s)) = SubSeq(s, 1, Len(s))
    BY <2>1, ConcatAdjacentSubSeq
  <2> QED
    BY <2>2, SubSeqFull
<1>5. ASSUME n = Len(s) PROVE SubSeq(s, n + 1, Len(s)) = <<>>
  BY <1>1, <1>5, SubSeqEmpty, n + 1 \in Int, Len(s) \in Int, Len(s) < n + 1
<1> QED
  BY <1>1, <1>2, <1>3, <1>4, <1>5

LEMMA ThenIsSeq ==
    ASSUME NEW S, NEW s \in Seq(S), NEW t \in Seq(S)
    PROVE  /\ Then(s, t) \in Seq(S) /\ Len(Then(s, t)) = Len(s) + Len(t)
           /\ \A i \in 1..(Len(s) + Len(t)) :
                Then(s, t)[i] = IF i <= Len(s) THEN s[i] ELSE t[i - Len(s)]
  BY ConcatProperties DEF Then

LEMMA Regroup ==
    ASSUME NEW S, NEW s \in Seq(S), NEW t \in Seq(S), NEW u \in Seq(S)
    PROVE  Then(Then(s, t), u) = Then(s, Then(t, u))
  BY ConcatAssociative DEF Then

LEMMA ThenNothing ==
    ASSUME NEW S, NEW s \in Seq(S)
    PROVE  <<>> \in Seq(S) /\ Then(s, <<>>) = s
  BY ConcatEmptySeq, EmptySeq DEF Then

LEMMA Longer ==
    ASSUME NEW S, NEW s \in Seq(S), NEW t, Extends(t, s, S)
    PROVE  t \in Seq(S) /\ Len(t) >= Len(s)
<1>1. PICK u \in Seq(S) : t = Then(s, u)
  BY DEF Extends
<1>2. Len(s) \in Nat /\ Len(u) \in Nat
  BY LenProperties
<1> QED
  BY <1>1, <1>2, ThenIsSeq

\* A beginning, said in the two ways.
LEMMA PrefixExtends ==
    ASSUME NEW S, NEW s \in Seq(S), NEW t \in Seq(S)
    PROVE  Extends(t, s, S) <=> (Len(s) <= Len(t) /\ SubSeq(s, 1, Len(s)) = SubSeq(t, 1, Len(s)))
<1>1. Len(s) \in Nat /\ Len(t) \in Nat /\ SubSeq(s, 1, Len(s)) = s
  BY LenProperties, SubSeqFull
<1>2. ASSUME NEW u \in Seq(S), t = Then(s, u)
      PROVE  Len(s) <= Len(t) /\ s = SubSeq(t, 1, Len(s))
  <2>1. Len(u) \in Nat /\ \A i \in 1..Len(s) : s[i] \in S
    BY LenProperties, ElementOfSeq
  <2>2. /\ Len(t) = Len(s) + Len(u)
        /\ \A i \in 1..(Len(s) + Len(u)) : t[i] = IF i <= Len(s) THEN s[i] ELSE u[i - Len(s)]
    BY <1>2, ThenIsSeq
  <2>3. \A i \in 1..Len(s) : t[i] = s[i] /\ t[i] \in S
    BY <1>1, <2>1, <2>2
  <2> DEFINE w == SubSeq(t, 1, Len(s))
  <2>4. /\ w \in Seq(S) /\ Len(w) = IF 1 <= Len(s) THEN Len(s) - 1 + 1 ELSE 0
        /\ \A i \in 1..(Len(s) - 1 + 1) : w[i] = t[1 + i - 1]
    BY <1>1, <2>3, SubSeqProperties, 1 \in Int, Len(s) \in Int
  <2> HIDE DEF w
  <2>5. Len(w) = Len(s) /\ \A i \in 1..Len(s) : w[i] = s[i]
    BY <1>1, <2>3, <2>4
  <2>6. w = s
    BY <2>4, <2>5, SeqEqual
  <2> QED
    BY <1>1, <2>1, <2>2, <2>6 DEF w
<1>3. ASSUME Len(s) <= Len(t), s = SubSeq(t, 1, Len(s))
      PROVE  \E u \in Seq(S) : t = Then(s, u)
  <2> DEFINE u == SubSeq(t, Len(s) + 1, Len(t))
  <2>1. Len(s) \in 0..Len(t)
    BY <1>1, <1>3
  <2>2. u \in Seq(S) /\ SubSeq(t, 1, Len(s)) \o u = t
    BY <2>1, Cut
  <2> HIDE DEF u
  <2>3. t = Then(s, u)
    BY <1>3, <2>2, Zenon DEF Then
  <2> QED
    BY <2>2, <2>3
<1> QED
  BY <1>1, <1>2, <1>3 DEF Extends

LEMMA Further ==
    ASSUME NEW S, NEW s \in Seq(S), NEW t, Extends(t, s, S), NEW u, Extends(u, t, S)
    PROVE  Extends(u, s, S)
<1>1. PICK a \in Seq(S) : t = Then(s, a)
  BY DEF Extends
<1>2. PICK b \in Seq(S) : u = Then(t, b)
  BY DEF Extends
<1>3. u = Then(s, Then(a, b)) /\ Then(a, b) \in Seq(S)
  BY <1>1, <1>2, Regroup, ThenIsSeq
<1> QED
  BY <1>3 DEF Extends

\* What a destination and its buffer hold together, when the first part of what
\* is pending moves from the one into the other.
LEMMA Moves ==
    ASSUME NEW S, NEW done \in Seq(S), NEW buf \in Seq(S), NEW data \in Seq(S),
           NEW n \in 0..Len(Then(buf, data))
    PROVE  LET pending == Then(buf, data)
               left == SubSeq(pending, 1, n)
               rest == SubSeq(pending, n + 1, Len(pending))
           IN  /\ left \in Seq(S) /\ Then(done, left) \in Seq(S) /\ rest \in Seq(S)
               /\ Then(Then(done, left), rest) = Then(Then(done, buf), data)
               /\ n = Len(pending) => rest = <<>>
<1> DEFINE pending == Then(buf, data)
           left == SubSeq(pending, 1, n)
           rest == SubSeq(pending, n + 1, Len(pending))
<1>1. pending \in Seq(S)
  BY ThenIsSeq
<1>2. /\ left \in Seq(S) /\ rest \in Seq(S) /\ Then(left, rest) = pending
      /\ n = Len(pending) => rest = <<>>
  BY <1>1, Cut DEF Then
<1>3. Then(done, pending) = Then(Then(done, buf), data)
  BY Regroup
<1> HIDE DEF left, rest, pending
<1>4. Then(done, left) \in Seq(S)
  BY <1>2, ThenIsSeq
<1>5. Then(Then(done, left), rest) = Then(done, Then(left, rest))
  BY <1>2, Regroup
<1>6. Then(Then(done, left), rest) = Then(Then(done, buf), data)
  BY <1>2, <1>3, <1>5, Zenon
<1> QED
  BY <1>2, <1>4, <1>6 DEF left, rest, pending

-----------------------------------------------------------------------------
(* Writes.                                                                 *)

\* log_op: the log takes the data, is none any more, or is lost with this write
\* and keeps a beginning of what it had to take.
LEMMA LogStep ==
    ASSUME NEW S, logged \in Seq(S), logbuf \in Seq(S), NEW data \in Seq(S),
           NEW whole \in BOOLEAN, NEW next, Log(data, whole, next)
    PROVE  /\ logged' \in Seq(S) /\ logbuf' \in Seq(S)
           /\ Extends(logged', logged, S)
           /\ \/ /\ sink # "open" /\ UNCHANGED logVars /\ pc' = next
              \/ /\ sink = "open" /\ sink' = "open" /\ pc' = next
                 /\ Then(logged', logbuf') = Then(Then(logged, logbuf), data)
                 /\ whole => logbuf' = <<>>
              \/ /\ sink = "open" /\ sink' = "lost" /\ pc' \in {next, "panic"}
                 /\ logbuf' = <<>>
                 /\ Extends(Then(Then(logged, logbuf), data), logged', S)
<1> DEFINE pending == Then(logbuf, data)
<1>1. pending \in Seq(S) /\ Len(pending) \in Nat
  BY ThenIsSeq, LenProperties
<1>2. CASE sink # "open"
  <2>1. UNCHANGED logVars /\ pc' = next
    BY <1>2 DEF Log, Goto, Then
  <2>2. logged' = Then(logged, <<>>) /\ <<>> \in Seq(S)
    BY <2>1, ThenNothing DEF logVars
  <2> QED
    BY <1>2, <2>1, <2>2 DEF logVars, Extends
<1>3. ASSUME sink = "open", NEW n \in 0..Len(pending), whole => n = Len(pending),
             logged' = Then(logged, SubSeq(pending, 1, n)),
             logbuf' = SubSeq(pending, n + 1, Len(pending)),
             pc' = next, sink' = sink
      PROVE  /\ logged' \in Seq(S) /\ logbuf' \in Seq(S)
             /\ Extends(logged', logged, S)
             /\ sink' = "open" /\ pc' = next
             /\ Then(logged', logbuf') = Then(Then(logged, logbuf), data)
             /\ whole => logbuf' = <<>>
  <2> DEFINE left == SubSeq(pending, 1, n)
             rest == SubSeq(pending, n + 1, Len(pending))
  <2>1. /\ left \in Seq(S) /\ Then(logged, left) \in Seq(S) /\ rest \in Seq(S)
        /\ Then(Then(logged, left), rest) = Then(Then(logged, logbuf), data)
        /\ n = Len(pending) => rest = <<>>
    BY Moves
  <2>2. logged' = Then(logged, left) /\ logbuf' = rest
    BY <1>3
  <2> HIDE DEF left, rest
  <2> QED
    BY <1>3, <2>1, <2>2, Zenon DEF Extends
<1>4. ASSUME sink = "open", NEW n \in 0..(Len(pending) - 1),
             logged' = Then(logged, SubSeq(pending, 1, n)),
             logbuf' = <<>>, sink' = "lost", pc' \in {next, "panic"}
      PROVE  /\ logged' \in Seq(S) /\ logbuf' \in Seq(S)
             /\ Extends(logged', logged, S)
             /\ Extends(Then(Then(logged, logbuf), data), logged', S)
  <2>1. n \in 0..Len(pending)
    BY <1>1
  <2> DEFINE left == SubSeq(pending, 1, n)
             rest == SubSeq(pending, n + 1, Len(pending))
  <2>2. /\ left \in Seq(S) /\ Then(logged, left) \in Seq(S) /\ rest \in Seq(S)
        /\ Then(Then(logged, left), rest) = Then(Then(logged, logbuf), data)
    BY <2>1, Moves
  <2>3. logged' = Then(logged, left) /\ logbuf' \in Seq(S)
    BY <1>4, EmptySeq
  <2> HIDE DEF left, rest
  <2> QED
    BY <2>2, <2>3, Zenon DEF Extends
<1>5. CASE sink = "open"
  <2>1. CASE sink' = sink
    <3>1. sink' # "lost"
      BY <1>5, <2>1
    <3>2. PICK n \in 0..Len(pending) :
             /\ whole => n = Len(pending)
             /\ logged' = Then(logged, SubSeq(pending, 1, n))
             /\ logbuf' = SubSeq(pending, n + 1, Len(pending))
             /\ pc' = next
      BY <1>5, <3>1 DEF Log, Goto, Then
    <3> QED
      BY <1>3, <1>5, <2>1, <3>2
  <2>2. CASE sink' # sink
    <3>1. PICK n \in 0..(Len(pending) - 1) :
             /\ logged' = Then(logged, SubSeq(pending, 1, n))
             /\ logbuf' = <<>> /\ sink' = "lost" /\ pc' \in {next, "panic"}
      BY <1>5, <2>2 DEF Log, Say, logVars, Then
    <3> QED
      BY <1>4, <1>5, <3>1
  <2> QED
    BY <2>1, <2>2
<1> QED
  BY <1>2, <1>5

\* What is left of a write to stdout that was refused.
Refused(left, broken) ==
    /\ UNCHANGED outVars
    /\ \/ reader = "left" /\ pc' = left
       \/ reader \notin {"there", "left"} /\ pc' \in {broken, "panic"}

\* A write to stdout: it is taken, or refused because there is no reader.
LEMMA PutStep ==
    ASSUME NEW S, shown \in Seq(S), outbuf \in Seq(S), NEW data \in Seq(S),
           NEW whole \in BOOLEAN, NEW next, NEW left, NEW broken,
           Put(data, whole, next, left, broken)
    PROVE  /\ shown' \in Seq(S) /\ outbuf' \in Seq(S)
           /\ Extends(shown', shown, S)
           /\ \/ /\ pc' = next
                 /\ Then(shown', outbuf') = Then(Then(shown, outbuf), data)
                 /\ whole => outbuf' = <<>>
              \/ Refused(left, broken)
<1> DEFINE pending == Then(outbuf, data)
<1>1. CASE /\ reader # "there"
           /\ IF reader = "left" THEN Goto(left) ELSE Say(broken)
           /\ UNCHANGED outVars
  <2>1. UNCHANGED <<shown, outbuf>>
    BY <1>1 DEF outVars
  <2>2. shown' = Then(shown, <<>>) /\ <<>> \in Seq(S)
    BY <2>1, ThenNothing
  <2>3. \/ reader = "left" /\ pc' = left
        \/ reader \notin {"there", "left"} /\ pc' \in {broken, "panic"}
    BY <1>1 DEF Goto, Say
  <2>4. Extends(shown', shown, S)
    BY <2>2 DEF Extends
  <2> QED
    BY <1>1, <2>1, <2>3, <2>4 DEF Refused
<1>2. ASSUME NEW n \in 0..Len(pending), whole => n = Len(pending),
             shown' = Then(shown, SubSeq(pending, 1, n)),
             outbuf' = SubSeq(pending, n + 1, Len(pending)),
             pc' = next
      PROVE  /\ shown' \in Seq(S) /\ outbuf' \in Seq(S)
             /\ Extends(shown', shown, S)
             /\ Then(shown', outbuf') = Then(Then(shown, outbuf), data)
             /\ whole => outbuf' = <<>>
  <2> DEFINE first == SubSeq(pending, 1, n)
             rest == SubSeq(pending, n + 1, Len(pending))
  <2>1. /\ first \in Seq(S) /\ Then(shown, first) \in Seq(S) /\ rest \in Seq(S)
        /\ Then(Then(shown, first), rest) = Then(Then(shown, outbuf), data)
        /\ n = Len(pending) => rest = <<>>
    BY Moves
  <2>2. shown' = Then(shown, first) /\ outbuf' = rest
    BY <1>2
  <2> HIDE DEF first, rest
  <2> QED
    BY <1>2, <2>1, <2>2, Zenon DEF Extends
<1>3. ASSUME \E n \in 0..Len(pending) :
               /\ whole => n = Len(pending)
               /\ n > 0 => reader = "there"
               /\ shown' = Then(shown, SubSeq(pending, 1, n))
               /\ outbuf' = SubSeq(pending, n + 1, Len(pending)),
             pc' = next
      PROVE  /\ shown' \in Seq(S) /\ outbuf' \in Seq(S)
             /\ Extends(shown', shown, S)
             /\ Then(shown', outbuf') = Then(Then(shown, outbuf), data)
             /\ whole => outbuf' = <<>>
  BY <1>2, <1>3
<1> QED
  BY <1>1, <1>3 DEF Put, Goto, Then
=============================================================================
