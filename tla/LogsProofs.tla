----------------------------- MODULE LogsProofs ------------------------------
(***************************************************************************)
(* Proofs about Logs.tla, for any number of runs, labels, moments and      *)
(* --keep values: no overlap of prunes removes a newest log, a run's log   *)
(* goes only by another run's prune, and `logs` misses only what has been  *)
(* overtaken.  Where a label is another one, a dash and a word, the code   *)
(* mixes the two up (ForeignLogsStay in Logs.tla), hence Longer = {}.      *)
(***************************************************************************)
EXTENDS Logs, FiniteSetTheorems, TLAPS

-----------------------------------------------------------------------------
(* Names and counts.                                                       *)

\* The names of one label sort by their stamps, which are in range (sink.rs, the
\* names of the three --timestamp values).
LEMMA StampType ==
    ASSUME NEW scheme \in Scheme, NEW t \in 0..Horizon
    PROVE  Stamp(scheme, t) \in 0..(Last + Day)
<1>1. Day \in Nat /\ Day > 0 /\ Horizon \in Nat /\ scheme \in {"run", "day", "off"}
  BY LogsAssumption DEF LogsAssumption
<1> DEFINE q == t \div Day
           r == t % Day
<1>2. q \in Nat /\ r \in 0..(Day - 1) /\ t = Day * q + r
  BY <1>1
<1>3. q <= Day * q
  BY <1>1, <1>2
<1>4. q * (Day + 1) = Day * q + q
  BY <1>1, <1>2
<1> HIDE DEF q, r
<1>5. CASE scheme = "run"
  <2>1. Stamp(scheme, t) = q * (Day + 1) + r
    BY <1>5 DEF Stamp, q, r
  <2> QED
    BY <1>1, <1>2, <1>3, <1>4, <2>1 DEF Last
<1>6. CASE scheme = "day"
  <2>1. Stamp(scheme, t) = q * (Day + 1) + Day
    BY <1>6 DEF Stamp, q
  <2> QED
    BY <1>1, <1>2, <1>3, <1>4, <2>1 DEF Last
<1>7. CASE scheme = "off"
  BY <1>1, <1>7 DEF Stamp, Last
<1> QED
  BY <1>1, <1>5, <1>6, <1>7

\* Of one label, the earlier stamp sorts first (LogName, prune).
LEMMA BeforeByStamp ==
    ASSUME NEW f \in File, NEW g \in File, g.label = f.label
    PROVE  Before(f.label, g, f) <=> g.stamp < f.stamp
<1>1. Day \in Nat /\ Horizon \in Nat
  BY LogsAssumption DEF LogsAssumption
<1>2. f.stamp \in 0..(Last + Day) /\ g.stamp \in 0..(Last + Day) /\ Last + Day \in Nat
  BY <1>1 DEF File, Last
<1>3. /\ Place(f.label, f) = IF f.stamp < Last + Day THEN 0 ELSE 2
      /\ Place(f.label, g) = IF g.stamp < Last + Day THEN 0 ELSE 2
  BY DEF Place
<1> QED
  BY <1>2, <1>3 DEF Before

\* As logs are added, more is newer than a file, and it is less among the newest.
LEMMA NewerGrows ==
    ASSUME IsFiniteSet(created'), created \subseteq created', NEW f
    PROVE  /\ Newer(f) \subseteq Newer(f)'
           /\ Newest(f)' => Newest(f)
<1>1. Newer(f) \subseteq Newer(f)'
  BY DEF Newer
<1>2. IsFiniteSet(Newer(f)')
  BY FS_Subset DEF Newer
<1>3. /\ IsFiniteSet(Newer(f))
      /\ Cardinality(Newer(f)) <= Cardinality(Newer(f)')
      /\ Cardinality(Newer(f)) \in Nat /\ Cardinality(Newer(f)') \in Nat
  BY <1>1, <1>2, FS_Subset, FS_CardinalityType
<1>4. Keep \subseteq Nat
  BY LogsAssumption DEF LogsAssumption
<1> QED
  BY <1>1, <1>3, <1>4 DEF Newest

\* With nothing newer, a file is among the newest, however few are kept.
LEMMA NothingNewer ==
    ASSUME NEW f, Newer(f) = {}
    PROVE  Newest(f)
BY FS_EmptySet, LogsAssumption DEF Newest, LogsAssumption

\* Finite sets: a union is no larger than its parts together.
LEMMA UnionCount ==
    ASSUME NEW S, NEW T, NEW x, IsFiniteSet(S), IsFiniteSet(T)
    PROVE  /\ IsFiniteSet((S \cup {x}) \cup T)
           /\ Cardinality((S \cup {x}) \cup T) <= Cardinality(S) + 1 + Cardinality(T)
<1> DEFINE X == S \cup {x}
<1>1. IsFiniteSet(X) /\ Cardinality(X) = IF x \in S THEN Cardinality(S) ELSE Cardinality(S) + 1
  BY FS_AddElement
<1>2. Cardinality(S) \in Nat /\ Cardinality(T) \in Nat
  BY FS_CardinalityType
<1>3. Cardinality(X) \in Nat /\ Cardinality(X) <= Cardinality(S) + 1
  BY <1>1, <1>2
<1> HIDE DEF X
<1>4. IsFiniteSet(X \cap T)
  BY <1>1, FS_Subset, X \cap T \in SUBSET X
<1>5. Cardinality(X \cap T) \in Nat
  BY <1>4, FS_CardinalityType
<1>6. /\ IsFiniteSet(X \cup T)
      /\ Cardinality(X \cup T) = Cardinality(X) + Cardinality(T) - Cardinality(X \cap T)
  BY <1>1, FS_Union
<1>7. IsFiniteSet(X \cup T) /\ Cardinality(X \cup T) <= Cardinality(S) + 1 + Cardinality(T)
  BY <1>2, <1>3, <1>5, <1>6
<1> QED
  BY <1>7 DEF X

\* What a prune finds to be in excess has been overtaken by at least as many logs
\* as it is to keep (prune: the oldest, files.len() - keep of them).
LEMMA ExcessOvertaken ==
    ASSUME Longer = {}, TypeOK, IsFiniteSet(created), NEW r \in Run,
           keep[r] \in Keep \ {0}, NEW f \in Excess(r)
    PROVE  f \in created /\ f.label = mine[r].label /\ ~Newest(f)
<1> DEFINE l == mine[r].label
           Older == {g \in Ours(l) : Before(l, g, f)}
           Later == {g \in Ours(l) : g.label = f.label /\ g.stamp > f.stamp}
<1>1. /\ f \in Ours(l) /\ Ours(l) \subseteq created /\ created \subseteq File
      /\ \A g \in Ours(l) : g.label = l
  BY DEF Excess, Ours, Matches, TypeOK
<1>2. Horizon \in Nat /\ Day \in Nat /\ Keep \subseteq Nat
  BY LogsAssumption DEF LogsAssumption
<1>3. Ours(l) \subseteq (Older \cup {f}) \cup Later
  <2> SUFFICES ASSUME NEW g \in Ours(l), g \notin Older, g \notin Later PROVE g = f
    OBVIOUS
  <2>1. g \in File /\ f \in File /\ g.label = f.label
    BY <1>1
  <2>2. g.stamp \in Int /\ f.stamp \in Int
    BY <2>1 DEF File
  <2>3. ~(g.stamp < f.stamp) /\ ~(g.stamp > f.stamp)
    BY <1>1, <2>1, BeforeByStamp
  <2>4. g.stamp = f.stamp
    BY <2>2, <2>3
  <2> QED
    BY <2>1, <2>4 DEF File
<1>4. IsFiniteSet(Ours(l)) /\ IsFiniteSet(Older) /\ IsFiniteSet(Later) /\ IsFiniteSet(Newer(f))
  BY <1>1, FS_Subset DEF Newer
<1>5. /\ IsFiniteSet((Older \cup {f}) \cup Later)
      /\ Cardinality((Older \cup {f}) \cup Later) <= Cardinality(Older) + 1 + Cardinality(Later)
  BY <1>4, UnionCount
<1>6. /\ Cardinality(Ours(l)) \in Nat /\ Cardinality(Older) \in Nat /\ Cardinality(Later) \in Nat
      /\ Cardinality((Older \cup {f}) \cup Later) \in Nat /\ Cardinality(Newer(f)) \in Nat
  BY <1>4, <1>5, FS_CardinalityType
<1>7. Cardinality(Ours(l)) <= Cardinality((Older \cup {f}) \cup Later)
  BY <1>3, <1>5, FS_Subset
<1>8. Cardinality(Later) <= Cardinality(Newer(f))
  <2>1. Later \subseteq Newer(f)
    BY <1>1 DEF Newer
  <2> QED
    BY <1>4, <2>1, FS_Subset
<1>9. Cardinality(Older) < Cardinality(Ours(l)) - keep[r]
  BY DEF Excess
<1>10. keep[r] \in Nat
  BY <1>2
<1> HIDE DEF l, Older, Later
<1>11. keep[r] <= Cardinality(Newer(f))
  BY <1>5, <1>6, <1>7, <1>8, <1>9, <1>10
<1>12. ~(Cardinality(Newer(f)) < keep[r])
  BY <1>6, <1>10, <1>11
<1> QED
  BY <1>1, <1>12 DEF Newest, l

-----------------------------------------------------------------------------
(* Types, and a newest log of every label.                                 *)

LEMMA StepType ==
    ASSUME TypeOK, [Next]_vars
    PROVE  TypeOK'
<1>1. ASSUME NEW r \in Run, Open(r) PROVE TypeOK'
  <2>1. PICK l \in Label, scheme \in Scheme, k \in Keep :
          LET f == [label |-> l, stamp |-> Stamp(scheme, now)]
          IN  /\ disk' = disk \cup {f}
              /\ created' = created \cup {f}
              /\ mine' = [mine EXCEPT ![r] = f]
              /\ keep' = [keep EXCEPT ![r] = k]
              /\ at' = [at EXCEPT ![r] = IF k = 0 THEN "run" ELSE "scan"]
    BY <1>1 DEF Open
  <2>2. [label |-> l, stamp |-> Stamp(scheme, now)] \in File
    BY StampType DEF TypeOK, File
  <2> QED
    BY <1>1, <2>1, <2>2 DEF TypeOK, Open
<1>2. ASSUME NEW r \in Run, Scan(r) PROVE TypeOK'
  <2>1. Doomed(r) \subseteq created
    BY DEF Doomed, Excess, Ours, TypeOK
  <2> QED
    BY <1>2, <2>1 DEF TypeOK, Scan
<1>3. ASSUME NEW r \in Run, ScanFails(r) \/ Pruned(r) \/ Show(r) PROVE TypeOK'
  BY <1>3 DEF TypeOK, ScanFails, Pruned, Show
<1>4. ASSUME NEW r \in Run, Remove(r) PROVE TypeOK'
  BY <1>4 DEF TypeOK, Remove
<1>5. ASSUME NEW r \in Run, Look(r) PROVE TypeOK'
  <2>1. at' \in [Run -> {"idle", "scan", "prune", "run", "show", "shown", "missing", "nolog"}]
    BY <1>5 DEF TypeOK, Look
  <2>2. mine' \in [Run -> created \cup {NoFile}]
    BY <1>5 DEF TypeOK, Look, Ours
  <2> QED
    BY <1>5, <2>1, <2>2 DEF TypeOK, Look
<1>6. ASSUME NEW r \in Run, End(r) PROVE TypeOK'
  BY <1>6 DEF TypeOK, End
<1>7. CASE Tick
  BY <1>7 DEF TypeOK, Tick
<1>8. CASE UNCHANGED vars
  BY <1>8 DEF TypeOK, vars
<1> QED
  BY <1>1, <1>2, <1>3, <1>4, <1>5, <1>6, <1>7, <1>8 DEF Next

\* A step creates at most one log, which is on disk then.
LEMMA CreatedStep ==
    ASSUME TypeOK, [Next]_vars
    PROVE  \/ /\ created' = created /\ disk' \subseteq disk
           \/ \E f \in File : created' = created \cup {f} /\ disk' = disk \cup {f}
<1>1. ASSUME NEW r \in Run, Open(r)
      PROVE  \E f \in File : created' = created \cup {f} /\ disk' = disk \cup {f}
  <2>1. \A l \in Label, scheme \in Scheme : [label |-> l, stamp |-> Stamp(scheme, now)] \in File
    BY StampType DEF TypeOK, File
  <2> QED
    BY <1>1, <2>1 DEF Open
<1> QED
  BY <1>1 DEF Next, Scan, ScanFails, Remove, Pruned, Look, Show, End, Tick, vars

LEMMA StepTops ==
    ASSUME TypeOK, IsFiniteSet(created), Tops, [Next]_vars
    PROVE  IsFiniteSet(created') /\ Tops'
<1>1. CASE created' = created
  BY <1>1 DEF Tops, Newer
<1>2. ASSUME NEW n \in File, created' = created \cup {n}
      PROVE  IsFiniteSet(created') /\ Tops'
  <2>1. \A f \in created' : f.stamp \in Int
    <3>1. Last + Day \in Nat
      BY LogsAssumption DEF LogsAssumption, Last
    <3> QED
      BY <1>2, <3>1 DEF TypeOK, File
  <2>2. ASSUME NEW f \in created'
        PROVE  \E g \in created' : g.label = f.label /\ g.stamp >= f.stamp /\ Newer(g)' = {}
    <3>1. CASE \E g \in created : g.label = f.label /\ g.stamp >= f.stamp /\ Newer(g) = {}
      <4>1. PICK g \in created : g.label = f.label /\ g.stamp >= f.stamp /\ Newer(g) = {}
        BY <3>1
      <4>2. CASE n.label = g.label /\ n.stamp > g.stamp
        <5>1. n.stamp >= f.stamp
          BY <1>2, <2>1, <4>1, <4>2
        <5>2. Newer(n)' = {}
          BY <1>2, <2>1, <4>1, <4>2 DEF Newer
        <5> QED
          BY <1>2, <4>1, <4>2, <5>1, <5>2
      <4>3. CASE ~(n.label = g.label /\ n.stamp > g.stamp)
        BY <1>2, <4>1, <4>3 DEF Newer
      <4> QED
        BY <4>2, <4>3
    <3>2. CASE ~\E g \in created : g.label = f.label /\ g.stamp >= f.stamp /\ Newer(g) = {}
      <4>1. f = n
        BY <1>2, <3>2 DEF Tops
      <4>2. \A g \in created : g.label = n.label => ~(g.stamp > n.stamp)
        <5> SUFFICES ASSUME NEW g \in created, g.label = n.label, g.stamp > n.stamp PROVE FALSE
          OBVIOUS
        <5>1. PICK h \in created : h.label = g.label /\ h.stamp >= g.stamp /\ Newer(h) = {}
          BY DEF Tops
        <5>2. h.stamp >= n.stamp
          BY <1>2, <2>1, <5>1
        <5> QED
          BY <3>2, <4>1, <5>1, <5>2
      <4>3. Newer(n)' = {}
        BY <1>2, <2>1, <4>2 DEF Newer
      <4> QED
        BY <1>2, <2>1, <4>1, <4>3
    <3> QED
      BY <3>1, <3>2
  <2>3. IsFiniteSet(created')
    BY <1>2, FS_AddElement
  <2> QED
    BY <2>2, <2>3 DEF Tops
<1> QED
  BY <1>1, <1>2, CreatedStep

-----------------------------------------------------------------------------
(* What prunes do to each other, and what `logs` sees of them.             *)

\* No step makes a log one of the newest again.
LEMMA OvertakenForGood ==
    ASSUME TypeOK, IsFiniteSet(created), Tops, [Next]_vars, NEW f
    PROVE  /\ created \subseteq created' /\ IsFiniteSet(created')
           /\ Newer(f) \subseteq Newer(f)'
           /\ Newest(f)' => Newest(f)
<1>1. created \subseteq created' /\ IsFiniteSet(created')
  BY CreatedStep, StepTops
<1> QED
  BY <1>1, NewerGrows

LEMMA StepNewestKept ==
    ASSUME TypeOK, IsFiniteSet(created), Tops, NewestKept, PruneInv, [Next]_vars
    PROVE  NewestKept'
<1> SUFFICES ASSUME NEW f \in created', Newest(f)' PROVE f \in disk'
  BY DEF NewestKept
<1>1. Newest(f)
  BY OvertakenForGood
<1>2. f \in created => f \in disk
  BY <1>1 DEF NewestKept
<1>3. ASSUME NEW r \in Run, Remove(r) PROVE f \in disk'
  BY <1>1, <1>2, <1>3 DEF Remove, PruneInv
<1>4. ASSUME NEW r \in Run, Open(r) PROVE f \in disk'
  BY <1>2, <1>4 DEF Open
<1> QED
  BY <1>2, <1>3, <1>4 DEF Next, Scan, ScanFails, Pruned, Look, Show, End, Tick, vars

LEMMA StepPruneInv ==
    ASSUME Longer = {}, TypeOK, IsFiniteSet(created), Tops, PruneInv, [Next]_vars
    PROVE  PruneInv'
<1> SUFFICES ASSUME NEW r \in Run
             PROVE  /\ (at[r] = "scan" => keep[r] \in Keep \ {0})'
                    /\ (at[r] # "prune" => doomed[r] = {})'
                    /\ \A f \in doomed'[r] : ~Newest(f)' /\ f.label = mine'[r].label /\ f # mine'[r]
  BY DEF PruneInv
<1>1. \A f : Newest(f)' => Newest(f)
  BY OvertakenForGood
<1>2. /\ at[r] = "scan" => keep[r] \in Keep \ {0}
      /\ at[r] # "prune" => doomed[r] = {}
      /\ \A f \in doomed[r] : ~Newest(f) /\ f.label = mine[r].label /\ f # mine[r]
  BY DEF PruneInv
<1>3. CASE UNCHANGED <<at[r], keep[r], doomed[r], mine[r]>>
  BY <1>1, <1>2, <1>3
<1>4. CASE Open(r)
  <2>1. PICK k \in Keep : keep'[r] = k /\ at'[r] = IF k = 0 THEN "run" ELSE "scan"
    BY <1>4 DEF Open, TypeOK
  <2>2. doomed'[r] = {}
    BY <1>2, <1>4 DEF Open
  <2> QED
    BY <2>1, <2>2
<1>5. CASE Scan(r)
  <2>1. at'[r] = "prune" /\ doomed'[r] = Excess(r) \ {mine[r]} /\ mine' = mine
    BY <1>5 DEF Scan, Doomed, TypeOK
  <2>2. \A f \in Excess(r) : f.label = mine[r].label /\ ~Newest(f)
    BY <1>2, <1>5, ExcessOvertaken DEF Scan
  <2> QED
    BY <1>1, <2>1, <2>2
<1>6. CASE ScanFails(r)
  <2>1. at'[r] = "run" /\ doomed'[r] = {}
    BY <1>2, <1>6 DEF ScanFails, TypeOK
  <2> QED
    BY <2>1
<1>7. CASE Remove(r)
  <2>1. /\ at'[r] = "prune" /\ doomed'[r] \subseteq doomed[r]
        /\ mine' = mine
    BY <1>7 DEF Remove, TypeOK
  <2> QED
    BY <1>1, <1>2, <2>1
<1>8. CASE Pruned(r)
  <2>1. at'[r] = "run" /\ doomed'[r] = {}
    BY <1>8 DEF Pruned, TypeOK
  <2> QED
    BY <2>1
<1>9. CASE Look(r)
  <2>1. at'[r] \in {"show", "nolog"} /\ doomed'[r] = {}
    BY <1>2, <1>9 DEF Look, TypeOK
  <2> QED
    BY <2>1
<1>10. CASE Show(r)
  <2>1. at'[r] \in {"shown", "missing"} /\ doomed'[r] = {}
    BY <1>2, <1>10 DEF Show, TypeOK
  <2> QED
    BY <2>1
<1>11. CASE End(r)
  <2>1. at'[r] = "idle" /\ doomed'[r] = {}
    BY <1>11 DEF End, TypeOK
  <2> QED
    BY <2>1
<1>12. ASSUME NEW s \in Run, s # r,
              Open(s) \/ Scan(s) \/ ScanFails(s) \/ Remove(s) \/ Pruned(s) \/ Look(s) \/ Show(s) \/ End(s)
       PROVE  UNCHANGED <<at[r], keep[r], doomed[r], mine[r]>>
  BY <1>12 DEF Open, Scan, ScanFails, Remove, Pruned, Look, Show, End, TypeOK
<1>13. CASE Tick \/ UNCHANGED vars
  BY <1>3, <1>13 DEF Tick, vars
<1> QED
  BY <1>3, <1>4, <1>5, <1>6, <1>7, <1>8, <1>9, <1>10, <1>11, <1>12, <1>13 DEF Next

\* The one that sorts last is the newest of its label there has ever been, since
\* that one is never pruned (LogName, the latest by name).
LEMMA LatestIsNewest ==
    ASSUME Longer = {}, TypeOK, Tops, NewestKept, NEW l \in Label, NEW f \in Ours(l), IsLatest(l, f)
    PROVE  f \in created /\ Newer(f) = {}
<1>1. f \in created /\ f \in File /\ f.label = l
  BY DEF Ours, Matches, TypeOK
<1>2. PICK g \in created : g.label = f.label /\ g.stamp >= f.stamp /\ Newer(g) = {}
  BY <1>1 DEF Tops
<1>3. g \in Ours(l) /\ g \in File
  BY <1>1, <1>2, NothingNewer DEF NewestKept, Ours, Matches, TypeOK
<1>4. f.stamp \in Int /\ g.stamp \in Int
  BY <1>1, <1>3 DEF File
<1>5. g = f
  <2> SUFFICES ASSUME g # f PROVE FALSE
    OBVIOUS
  <2>1. g.stamp < f.stamp
    BY <1>1, <1>2, <1>3, BeforeByStamp DEF IsLatest
  <2> QED
    BY <1>2, <1>4, <2>1
<1> QED
  BY <1>1, <1>2, <1>5

LEMMA StepLookInv ==
    ASSUME Longer = {}, LogsInv, [Next]_vars
    PROVE  LookInv' /\ MissesOnlyTheOutdated'
<1> USE DEF LogsInv
<1> SUFFICES ASSUME NEW r \in Run, at'[r] \in {"show", "missing"}
             PROVE  /\ mine'[r] \in created' /\ Newer(mine[r])' \cap known'[r] = {}
                    /\ at'[r] = "missing" => Newer(mine[r])' \ known'[r] # {}
  BY DEF LookInv, MissesOnlyTheOutdated
<1>1. created \subseteq created'
  BY OvertakenForGood
<1>2. CASE UNCHANGED <<at[r], mine[r], known[r]>>
  <2>1. mine[r] \in created /\ Newer(mine[r]) \cap known[r] = {} /\ known[r] \subseteq created
    BY <1>2 DEF LookInv, TypeOK
  <2>2. at[r] = "missing" => Newer(mine[r]) \ known[r] # {}
    BY DEF MissesOnlyTheOutdated
  <2>3. /\ Newer(mine[r]) \subseteq Newer(mine[r])'
        /\ Newer(mine[r])' \cap created \subseteq Newer(mine[r])
    BY <1>1, <1>2 DEF Newer
  <2> QED
    BY <1>1, <1>2, <2>1, <2>2, <2>3
<1>3. CASE Look(r)
  <2>1. PICK l \in Label : \E f \in Ours(l) : /\ IsLatest(l, f) /\ mine' = [mine EXCEPT ![r] = f]
                                              /\ at' = [at EXCEPT ![r] = "show"]
    BY <1>3 DEF Look, TypeOK
  <2>2. PICK f \in Ours(l) : /\ IsLatest(l, f) /\ mine' = [mine EXCEPT ![r] = f]
                             /\ at' = [at EXCEPT ![r] = "show"]
    BY <2>1
  <2>3. f \in created /\ Newer(f) = {}
    BY <2>2, LatestIsNewest
  <2>4. mine'[r] = f /\ at'[r] = "show" /\ known'[r] = created /\ created' = created
    BY <1>3, <2>2 DEF Look, TypeOK
  <2> QED
    BY <2>3, <2>4 DEF Newer
<1>4. CASE Show(r)
  <2>1. mine' = mine /\ created' = created /\ known' = known /\ at[r] = "show" /\ mine[r] \notin disk
    BY <1>4 DEF Show, TypeOK
  <2>2. mine[r] \in created /\ Newer(mine[r]) \cap known[r] = {}
    BY <2>1 DEF LookInv
  <2>3. Newer(mine[r]) # {}
    BY <2>1, <2>2, NothingNewer DEF NewestKept
  <2>4. Newer(mine[r])' = Newer(mine[r])
    BY <2>1 DEF Newer
  <2> QED
    BY <2>1, <2>2, <2>3, <2>4
<1>5. CASE Open(r) \/ Scan(r) \/ ScanFails(r) \/ Remove(r) \/ Pruned(r) \/ End(r)
  BY <1>5 DEF Open, Scan, ScanFails, Remove, Pruned, End, TypeOK
<1>6. ASSUME NEW s \in Run, s # r,
             Open(s) \/ Scan(s) \/ ScanFails(s) \/ Remove(s) \/ Pruned(s) \/ Look(s) \/ Show(s) \/ End(s)
      PROVE  UNCHANGED <<at[r], mine[r], known[r]>>
  BY <1>6 DEF Open, Scan, ScanFails, Remove, Pruned, Look, Show, End, TypeOK
<1>7. CASE Tick \/ UNCHANGED vars
  BY <1>2, <1>7 DEF Tick, vars
<1> QED
  BY <1>2, <1>3, <1>4, <1>5, <1>6, <1>7 DEF Next

-----------------------------------------------------------------------------
(* The theorems.                                                           *)

\* Every variable keeps its type, whatever the labels.
THEOREM LogsTypeCorrect == Spec => []TypeOK
<1>1. Init => TypeOK
  BY LogsAssumption DEF LogsAssumption, Init, TypeOK
<1> QED
  BY <1>1, StepType, PTL DEF Spec

\* LogsInv is inductive: the prunes rely on nothing but what they leave to each other
\* (sink.rs:102-134).
THEOREM LogsInductive == ASSUME Longer = {} PROVE Spec => []LogsInv
<1>1. Init => LogsInv
  <2> SUFFICES ASSUME Init PROVE LogsInv
    OBVIOUS
  <2>1. TypeOK
    BY LogsAssumption DEF LogsAssumption, Init, TypeOK
  <2>2. IsFiniteSet(created) /\ Tops /\ NewestKept
    BY FS_EmptySet DEF Init, Tops, NewestKept
  <2>3. PruneInv /\ LookInv /\ MissesOnlyTheOutdated
    BY DEF Init, PruneInv, LookInv, MissesOnlyTheOutdated
  <2> QED
    BY <2>1, <2>2, <2>3 DEF LogsInv
<1>2. LogsInv /\ [Next]_vars => LogsInv'
  BY StepType, StepTops, StepNewestKept, StepPruneInv, StepLookInv DEF LogsInv
<1> QED
  BY <1>1, <1>2, PTL DEF Spec

\* However the prunes of concurrent runs overlap and wherever they are cut short, the
\* newest logs of every label stay (sink.rs:102-134).
THEOREM NewestNeverPruned == ASSUME Longer = {} PROVE Spec => []NewestKept
BY LogsInductive, PTL DEF LogsInv

\* `deemo logs` misses the file it chose only if there is a newer one by then
\* (sink.rs:137-159).
THEOREM LogsMissOnlyTheOutdated == ASSUME Longer = {} PROVE Spec => []MissesOnlyTheOutdated
BY LogsInductive, PTL DEF LogsInv

\* A run's own log goes only by the prune of another run of its label
\* (sink.rs:126-128).
THEOREM OwnLogOutlivesOwnPrune == ASSUME Longer = {} PROVE Spec => OwnLogStays
<1> DEFINE ByAnother ==
      \A r \in Run :
        at[r] \in {"scan", "prune", "run"} /\ mine[r] \in disk \ disk' =>
          \E s \in Run \ {r} : mine[s].label = mine[r].label /\ mine[r] \in doomed[s]
<1>1. LogsInv /\ [Next]_vars => [ByAnother]_vars
  <2> SUFFICES ASSUME LogsInv, [Next]_vars, NEW r \in Run, mine[r] \in disk \ disk'
               PROVE  \E s \in Run \ {r} : mine[s].label = mine[r].label /\ mine[r] \in doomed[s]
    OBVIOUS
  <2>1. PICK s \in Run : Remove(s)
    BY DEF Next, Open, Scan, ScanFails, Pruned, Look, Show, End, Tick, vars
  <2>2. mine[r] \in doomed[s]
    BY <2>1 DEF Remove
  <2>3. mine[s].label = mine[r].label /\ s # r
    BY <2>2 DEF LogsInv, PruneInv
  <2> QED
    BY <2>2, <2>3
<1> QED
  BY <1>1, LogsInductive, PTL DEF Spec, OwnLogStays

=============================================================================
