----------------------------- MODULE PortsProofs -----------------------------
(***************************************************************************)
(* Proofs about Ports.tla, for any processes, sockets, tables and command  *)
(* lines: the lookup finds everybody who has held such a socket all along  *)
(* and nobody who never held one.  Both follow from PortsInv; every step   *)
(* of the lookup and of the processes meanwhile preserves it.              *)
(***************************************************************************)
EXTENDS Ports, FiniteSetTheorems, WellFoundedInduction, TLAPS

-----------------------------------------------------------------------------
(* Steps.                                                                  *)

\* The lookup only looks: it changes no process and none of its inputs
\* (port.rs has no call that does).
LEMMA LooksOnly ==
    Lookup => UNCHANGED <<world, given>>
BY DEF Lookup, ReadTable, TablesRead, VisitPid, ListFds, ReadFd, SocketInfo, PidDone, WalkDone,
       CountPids, ListPids, InfosDone, ProcsDone, Lsof

\* Whatever the processes do, the lookup stays where it is, and the history
\* of what was held all along only shrinks, that of what was ever held grows.
LEMMA MeanwhileStep ==
    ASSUME Meanwhile
    PROVE  /\ pc \notin {"done", "failed"}
           /\ events < MaxEvents /\ events' = events + 1
           /\ steady' = steady \cap Owned(fds') /\ ever' = ever \cup Owned(fds')
           /\ UNCHANGED <<given, pc, scan, visit, limits, tally, found>>
BY DEF Meanwhile, Create, Close, HandOver, Fork, Exit, Happens

\* A place on the command line, by any of its sockets (slot_of).
LEMMA Slots ==
    ASSUME ports \in Requests
    PROVE  /\ Len(ports) \in Nat /\ DOMAIN ports = 1..Len(ports)
           /\ \A s \in Sock : \A i \in SlotOf(s) : i \in DOMAIN ports /\ ports[i] = Addr[s].local
BY PortsAssumption DEF PortsAssumption, SlotOf, Slot

\* Of any places there is a first one (slot_of: position finds it).
LEMMA LeastPlace ==
    ASSUME NEW T \in SUBSET Nat, T # {}
    PROVE  \E i \in T : \A j \in T : i <= j
<1> DEFINE R == {ss \in Nat \X Nat : ss[1] < ss[2]}
<1>1. IsWellFoundedOn(R, Nat)
  BY NatLessThanWellFounded DEF OpToRel
<1>2. \A i, j \in Nat : <<j, i>> \in R <=> j < i
  OBVIOUS
<1> HIDE DEF R
<1>3. PICK i \in T : \A j \in T : <<j, i>> \notin R
  BY <1>1, WFMin
<1>4. \A j \in T : ~(j < i) /\ j \in Nat /\ i \in Nat
  BY <1>2, <1>3
<1> QED
  BY <1>4

\* Adding to the answer keeps what is in it (found[slot].push).
LEMMA AddKeeps ==
    ASSUME found \in [DOMAIN ports -> SUBSET Pid], NEW p \in Pid, NEW slots, Add(p, slots)
    PROVE  /\ found' \in [DOMAIN ports -> SUBSET Pid]
           /\ \A i \in DOMAIN ports :
                found'[i] = IF i \in slots THEN found[i] \cup {p} ELSE found[i]
BY DEF Add

-----------------------------------------------------------------------------
(* Types.                                                                  *)

LEMMA InitType == Init => TypeOK /\ Kept
<1> SUFFICES ASSUME Init PROVE TypeOK /\ Kept
  OBVIOUS
<1>1. PICK w \in Start : /\ alive = w.alive
                         /\ fds = [p \in Pid |-> {s \in Sock : w.owner[s] = p}]
  BY DEF Init
<1>2. /\ w.alive \subseteq Pid
      /\ \A s \in Sock : w.owner[s] \in w.alive \cup {0}
  BY PortsAssumption DEF PortsAssumption
<1>3. alive \subseteq Pid /\ fds \in [Pid -> SUBSET Sock] /\ \A p \in Pid \ alive : fds[p] = {}
  BY <1>1, <1>2, PortsAssumption DEF PortsAssumption
<1>4. readable \in Tables \cup {{}}
  BY DEF Init
<1>5. backend \in Backend /\ pc \in {"tables", "count"}
  BY DEF Init
<1>6. 0 \in 0..MaxEvents /\ 0 \in 0..Len(Table)
  BY PortsAssumption DEF PortsAssumption, Table
<1>7. TypeOK
  BY <1>3, <1>4, <1>5, <1>6 DEF Init, TypeOK
<1>8. Kept
  BY DEF Init, Kept, Owned
<1> QED
  BY <1>7, <1>8

\* A step of the lookup keeps every type.
LEMMA LookupType ==
    ASSUME TypeOK, Kept, Lookup
    PROVE  TypeOK'
<1> DEFINE Answers == found' \in [DOMAIN ports -> SUBSET Pid]
<1>1. UNCHANGED <<world, given>>
  BY LooksOnly
<1>2. Len(Table) = 4 /\ \A s \in Sock : SlotOf(s) \subseteq DOMAIN ports
  BY Slots DEF TypeOK, Table
<1>3. UNCHANGED found => Answers
  BY DEF TypeOK
<1>4. CASE ReadTable
  BY <1>1, <1>2, <1>4 DEF TypeOK, ReadTable, world, given, visit, limits, tally
<1>5. CASE TablesRead
  BY <1>1, <1>2, <1>5 DEF TypeOK, TablesRead, world, given, scan, limits, tally
<1>6. ASSUME NEW p \in Pid, VisitPid(p) PROVE TypeOK'
  <2>1. fds[p] \in SUBSET Sock
    BY DEF TypeOK
  <2> QED
    BY <1>1, <1>6, <2>1 DEF TypeOK, VisitPid, world, given, scan, limits, tally
<1>7. ASSUME NEW p \in Pid, ListFds(p) PROVE TypeOK'
  <2>1. fds[p] \in SUBSET Sock
    BY DEF TypeOK
  <2> QED
    BY <1>1, <1>7, <2>1 DEF TypeOK, ListFds, world, given, scan, tally
<1>8. ASSUME NEW s \in Sock, ReadFd(s) PROVE TypeOK'
  <2>1. at \in Pid
    BY <1>8 DEF Kept, ReadFd
  <2>2. hits' \subseteq DOMAIN ports
    BY <1>2, <1>8 DEF TypeOK, ReadFd
  <2>3. Answers
    BY <1>3, <1>8, <2>1, AddKeeps DEF TypeOK, ReadFd
  <2>4. pc' \in {"fds", "walk"} /\ seen' \subseteq Sock
    BY <1>8 DEF TypeOK, ReadFd
  <2> QED
    BY <1>1, <1>8, <2>2, <2>3, <2>4 DEF TypeOK, ReadFd, world, given, scan, limits, tally
<1>9. ASSUME NEW s \in Sock, SocketInfo(s) PROVE TypeOK'
  <2>1. at \in Pid
    BY <1>9 DEF Kept, SocketInfo
  <2>2. Answers
    BY <1>3, <1>9, <2>1, AddKeeps DEF TypeOK, SocketInfo
  <2>3. recognized' \in BOOLEAN /\ sockets' \in BOOLEAN /\ due' \subseteq Sock
    BY <1>9 DEF TypeOK, SocketInfo
  <2> QED
    BY <1>1, <1>9, <2>2, <2>3 DEF TypeOK, SocketInfo, world, given, scan, limits
<1>10. CASE PidDone
  <2>1. at \in Pid
    BY <1>10 DEF Kept, PidDone
  <2>2. Answers
    BY <1>10, <2>1, AddKeeps DEF TypeOK, PidDone
  <2> QED
    BY <1>1, <1>10, <2>2 DEF TypeOK, PidDone, world, given, scan, visit, limits, tally
<1>11. CASE WalkDone \/ InfosDone
  BY <1>1, <1>11 DEF TypeOK, WalkDone, InfosDone, world, given, scan, visit, limits, tally
<1>12. CASE CountPids \/ ListPids
  <2>1. Cardinality(alive) \in Nat
    BY PortsAssumption, FS_Subset, FS_CardinalityType DEF PortsAssumption, TypeOK
  <2>2. room' \in Nat
    BY <1>12, <2>1 DEF CountPids, ListPids, TypeOK
  <2>3. {listed', skipped'} \subseteq SUBSET Pid
    BY <1>12 DEF CountPids, ListPids, CutOff, TypeOK, visit
  <2> QED
    BY <1>1, <1>12, <2>2, <2>3 DEF TypeOK, CountPids, ListPids, world, given, scan, visit, tally
<1>13. CASE ProcsDone
  BY <1>1, <1>13 DEF TypeOK, ProcsDone, world, given, scan, visit, limits, tally
<1>14. CASE Lsof
  BY <1>1, <1>14 DEF TypeOK, Lsof, world, given, scan, visit, limits, tally
<1> QED
  BY <1>4, <1>5, <1>6, <1>7, <1>8, <1>9, <1>10, <1>11, <1>12, <1>13, <1>14 DEF Lookup

\* A process has sockets open only while it lives.
LEMMA MeanwhileWorld ==
    ASSUME TypeOK, Meanwhile
    PROVE  /\ alive' \subseteq Pid /\ fds' \in [Pid -> SUBSET Sock]
           /\ \A p \in Pid \ alive' : fds'[p] = {}
<1> USE DEF Happens
<1>1. ASSUME NEW p \in alive, NEW s \in Sock, Create(p, s) \/ Close(p, s)
      PROVE  /\ alive' \subseteq Pid /\ fds' \in [Pid -> SUBSET Sock]
             /\ \A q \in Pid \ alive' : fds'[q] = {}
  BY <1>1 DEF TypeOK, Create, Close
<1>2. ASSUME NEW p \in alive, NEW q \in alive, NEW s \in Sock, HandOver(p, q, s)
      PROVE  /\ alive' \subseteq Pid /\ fds' \in [Pid -> SUBSET Sock]
             /\ \A r \in Pid \ alive' : fds'[r] = {}
  BY <1>2 DEF TypeOK, HandOver
<1>3. ASSUME NEW p \in alive, NEW q \in Pid, Fork(p, q)
      PROVE  /\ alive' \subseteq Pid /\ fds' \in [Pid -> SUBSET Sock]
             /\ \A r \in Pid \ alive' : fds'[r] = {}
  BY <1>3 DEF TypeOK, Fork
<1>4. ASSUME NEW p \in alive, Exit(p)
      PROVE  /\ alive' \subseteq Pid /\ fds' \in [Pid -> SUBSET Sock]
             /\ \A q \in Pid \ alive' : fds'[q] = {}
  BY <1>4 DEF TypeOK, Exit
<1> QED
  BY <1>1, <1>2, <1>3, <1>4 DEF Meanwhile

LEMMA StepType ==
    ASSUME TypeOK, Kept, [Next]_vars
    PROVE  TypeOK'
<1>1. CASE Lookup
  BY <1>1, LookupType
<1>2. CASE Meanwhile
  <2>1. /\ alive' \subseteq Pid /\ fds' \in [Pid -> SUBSET Sock]
        /\ \A p \in Pid \ alive' : fds'[p] = {}
    BY <1>2, MeanwhileWorld
  <2>2. events' \in 0..MaxEvents
    BY <1>2, MeanwhileStep, PortsAssumption DEF TypeOK, PortsAssumption
  <2>3. steady' \subseteq ever'
    BY <1>2, MeanwhileStep DEF TypeOK
  <2>4. UNCHANGED <<given, pc, scan, visit, limits, tally, found>>
    BY <1>2, MeanwhileStep
  <2> QED
    BY <2>1, <2>2, <2>3, <2>4 DEF TypeOK, given, scan, visit, limits, tally
<1>3. CASE UNCHANGED vars
  BY <1>3 DEF TypeOK, vars, world, given, scan, visit, limits, tally
<1> QED
  BY <1>1, <1>2, <1>3 DEF Next

\* The history stays true, and no backend gets to the other's side.
LEMMA StepKept ==
    ASSUME TypeOK, Kept, [Next]_vars
    PROVE  Kept'
<1>1. CASE Lookup
  <2>1. UNCHANGED <<world, given>>
    BY <1>1, LooksOnly
  <2>2. pc' \in {"tables", "walk", "fds"} => pc \in {"tables", "walk", "fds"}
    BY <1>1 DEF Lookup, ReadTable, TablesRead, VisitPid, ListFds, ReadFd, SocketInfo, PidDone,
                WalkDone, CountPids, ListPids,
                InfosDone, ProcsDone, Lsof, given
  <2>3. pc' \in {"count", "list", "procs", "infos", "lsof"} =>
          pc \in {"count", "list", "procs", "infos", "lsof"}
    BY <1>1 DEF Lookup, ReadTable, TablesRead, VisitPid, ListFds, ReadFd, SocketInfo, PidDone,
                WalkDone, CountPids, ListPids,
                InfosDone, ProcsDone, Lsof, given
  <2>4. pc' \in {"fds", "infos"} => at' \in Pid
    BY <1>1 DEF Kept, Lookup, ReadTable, TablesRead, VisitPid, ListFds, ReadFd, SocketInfo, PidDone,
                WalkDone, CountPids, ListPids,
                InfosDone, ProcsDone, Lsof, visit
  <2>5. pc' \in {"walk", "fds"} => tables' = Len(Table)
    BY <1>1 DEF Kept, Lookup, ReadTable, TablesRead, VisitPid, ListFds, ReadFd, SocketInfo, PidDone,
                WalkDone, CountPids, ListPids,
                InfosDone, ProcsDone, Lsof, scan
  <2>6. pc' \in {"tables", "count", "list"} => at' = 0
    BY <1>1 DEF Kept, Lookup, ReadTable, TablesRead, VisitPid, ListFds, ReadFd, SocketInfo, PidDone,
                WalkDone, CountPids, ListPids,
                InfosDone, ProcsDone, Lsof, visit
  <2> QED
    BY <2>1, <2>2, <2>3, <2>4, <2>5, <2>6 DEF Kept, world, given, Owned
<1>2. CASE Meanwhile
  BY <1>2, MeanwhileStep, MeanwhileWorld DEF Kept, Owned, given, scan, visit
<1>3. CASE UNCHANGED vars
  BY <1>3 DEF Kept, Owned, vars, world, given, scan, visit
<1> QED
  BY <1>1, <1>2, <1>3 DEF Next

-----------------------------------------------------------------------------
(* Nobody who never held such a socket.                                    *)

\* What has been seen stays seen (the history only grows).
LEMMA SeenStays ==
    ASSUME [Next]_vars, NEW p, NEW i, Seen(p, i)
    PROVE  Seen(p, i)'
<1>1. ever \subseteq ever' /\ ports' = ports
  BY LooksOnly, MeanwhileStep DEF Next, vars, world, given
<1> QED
  BY <1>1 DEF Seen, SlotOf, Slot, Inet

LEMMA StepOnlySeen ==
    ASSUME TypeOK, Kept, OnlySeen, [Next]_vars
    PROVE  OnlySeen'
<1> DEFINE Indexed == \A s \in index : Inet(s) /\ SlotOf(s) # {}
           HitsFair == pc = "fds" => \A i \in hits : Seen(at, i)
           Fair == \A i \in DOMAIN ports : \A p \in found[i] : Seen(p, i)
<1>1. \A p, i : Seen(p, i) => Seen(p, i)'
  BY SeenStays
<1>2. ports' = ports /\ \A s : SlotOf(s)' = SlotOf(s) /\ Inet(s)' = Inet(s)
  BY LooksOnly, MeanwhileStep DEF Next, vars, world, given, SlotOf, Slot, Inet
<1>3. UNCHANGED index => Indexed'
  BY <1>2 DEF OnlySeen
<1>4. UNCHANGED <<pc, at, hits>> \/ pc' # "fds" => HitsFair'
  BY <1>1 DEF OnlySeen
<1>5. UNCHANGED found => Fair'
  BY <1>1, <1>2 DEF OnlySeen
<1>6. ASSUME NEW p \in Pid, NEW slots, Add(p, slots), \A i \in slots : Seen(p, i)
      PROVE  Fair'
  <2>1. \A i \in DOMAIN ports : found'[i] = IF i \in slots THEN found[i] \cup {p} ELSE found[i]
    BY <1>6, AddKeeps DEF TypeOK
  <2>2. ASSUME NEW i \in DOMAIN ports, NEW q \in found'[i] PROVE Seen(q, i)
    BY <1>6, <2>1, <2>2 DEF OnlySeen
  <2> QED
    BY <1>1, <1>2, <2>2
<1>7. (Indexed /\ HitsFair /\ Fair)' => OnlySeen'
  BY DEF OnlySeen
<1> HIDE DEF Indexed, HitsFair, Fair
<1>8. CASE ReadTable
  <2>1. Indexed'
    <3>1. ASSUME NEW s \in index' PROVE Inet(s) /\ SlotOf(s) # {}
      <4>1. CASE s \in index
        BY <4>1 DEF OnlySeen
      <4>2. CASE s \notin index
        <5>1. s \in Sock /\ Addr[s].table = Table[tables + 1] /\ SlotOf(s) # {}
          BY <1>8, <3>1, <4>2 DEF ReadTable
        <5>2. tables + 1 \in 1..4
          BY <1>8 DEF ReadTable, TypeOK, Table
        <5> QED
          BY <5>1, <5>2 DEF Table, Inet
      <4> QED
        BY <4>1, <4>2
    <3> QED
      BY <1>2, <3>1 DEF Indexed
  <2> QED
    BY <1>4, <1>5, <1>7, <1>8, <2>1 DEF ReadTable
<1>9. CASE TablesRead
  BY <1>3, <1>4, <1>5, <1>7, <1>9 DEF TablesRead, scan
<1>10. ASSUME NEW p \in Pid, VisitPid(p) PROVE OnlySeen'
  BY <1>3, <1>5, <1>7, <1>10 DEF VisitPid, scan, HitsFair
<1>11. ASSUME NEW p \in Pid, ListFds(p) PROVE OnlySeen'
  BY <1>3, <1>4, <1>5, <1>7, <1>11 DEF ListFds, scan
<1>12. ASSUME NEW s \in Sock, ReadFd(s) PROVE OnlySeen'
  <2>1. at \in Pid /\ <<at, s>> \in ever
    BY <1>12 DEF ReadFd, Kept, Owned
  <2>2. \A i \in hits' : Seen(at, i)
    BY <1>12, <2>1 DEF ReadFd, OnlySeen, Seen
  <2>3. HitsFair'
    BY <1>1, <1>12, <2>2 DEF ReadFd, HitsFair
  <2>4. Fair'
    BY <1>5, <1>6, <1>12, <2>1, <2>2 DEF ReadFd
  <2> QED
    BY <1>3, <1>7, <1>12, <2>3, <2>4 DEF ReadFd, scan
<1>13. ASSUME NEW s \in Sock, SocketInfo(s) PROVE OnlySeen'
  <2>1. at \in Pid
    BY <1>13 DEF SocketInfo, Kept
  <2>2. ASSUME s \in fds[at], HasPort(s) PROVE \A i \in SlotOf(s) : Seen(at, i)
    BY <2>1, <2>2 DEF HasPort, Seen, Kept, Owned
  <2>3. Fair'
    BY <1>5, <1>6, <1>13, <2>1, <2>2 DEF SocketInfo
  <2> QED
    BY <1>3, <1>4, <1>7, <1>13, <2>3 DEF SocketInfo, scan
<1>14. CASE PidDone
  <2>1. at \in Pid /\ \A i \in hits : Seen(at, i)
    BY <1>14 DEF PidDone, Kept, OnlySeen
  <2>2. Fair'
    BY <1>6, <1>14, <2>1 DEF PidDone
  <2> QED
    BY <1>3, <1>4, <1>7, <1>14, <2>2 DEF PidDone, scan
<1>15. CASE WalkDone \/ InfosDone
  BY <1>3, <1>4, <1>5, <1>7, <1>15 DEF WalkDone, InfosDone, scan
<1>16. CASE CountPids \/ ListPids
  BY <1>3, <1>4, <1>5, <1>7, <1>16 DEF CountPids, ListPids, scan, visit
<1>17. CASE ProcsDone
  <2>1. Fair'
    <3>1. CASE FallsBack
      BY <1>2, <1>17, <3>1 DEF ProcsDone, Fair
    <3>2. CASE ~FallsBack
      BY <1>5, <1>17, <3>2 DEF ProcsDone
    <3> QED
      BY <3>1, <3>2
  <2> QED
    BY <1>3, <1>4, <1>7, <1>17, <2>1 DEF ProcsDone, scan
<1>18. CASE Lsof
  <2>1. CASE UNCHANGED found
    BY <1>3, <1>4, <1>5, <1>7, <1>18, <2>1 DEF Lsof, scan
  <2>2. CASE ~UNCHANGED found
    <3>1. found' = [i \in DOMAIN ports |->
                      {p \in Pid \ Hidden : \E s \in fds[p] : Inet(s) /\ i \in SlotOf(s)}]
      BY <1>18, <2>2 DEF Lsof
    <3>2. ASSUME NEW i \in DOMAIN ports, NEW p \in found'[i] PROVE Seen(p, i)
      <4>1. p \in Pid
        BY <3>1, <3>2
      <4>2. PICK s \in fds[p] : Inet(s) /\ i \in SlotOf(s)
        BY <3>1, <3>2
      <4> QED
        BY <4>1, <4>2 DEF Seen, Kept, Owned, TypeOK
    <3>3. Fair'
      BY <1>1, <1>2, <3>2 DEF Fair
    <3> QED
      BY <1>3, <1>4, <1>7, <1>18, <3>3 DEF Lsof, scan
  <2> QED
    BY <2>1, <2>2
<1>19. CASE Meanwhile \/ UNCHANGED vars
  <2>1. UNCHANGED <<index, pc, at, hits, found>>
    BY <1>19, MeanwhileStep DEF vars, scan, visit
  <2> QED
    BY <1>3, <1>4, <1>5, <1>7, <2>1
<1> QED
  BY <1>8, <1>9, <1>10, <1>11, <1>12, <1>13, <1>14, <1>15, <1>16, <1>17, <1>18, <1>19
  DEF Next, Lookup

-----------------------------------------------------------------------------
(* Everybody who has held such a socket all along.                         *)

\* Whatever is owed after a step was owed before it, by somebody who lives.
LEMMA OwedBefore ==
    ASSUME TypeOK, Kept, [Next]_vars, NEW p \in Pid, NEW s \in Sock, NEW i, Owed(p, s, i)'
    PROVE  /\ Owed(p, s, i)
           /\ s \in fds[p] /\ p \in alive
           /\ ports' = ports /\ readable' = readable /\ backend' = backend
           /\ SlotOf(s)' = SlotOf(s)
<1>1. steady' \subseteq steady /\ UNCHANGED <<ports, readable, backend>>
  BY LooksOnly, MeanwhileStep DEF Next, vars, world, given
<1>2. Owed(p, s, i) /\ SlotOf(s)' = SlotOf(s)
  BY <1>1 DEF Owed, Findable, Inet, SlotOf, Slot
<1>3. s \in fds[p]
  BY <1>2 DEF Owed, Findable, Kept, Owned
<1> QED
  BY <1>1, <1>2, <1>3 DEF TypeOK

\* An owed socket is in the index once all the tables have been read.
LEMMA IndexFull ==
    ASSUME TypeOK, WalkOwes, backend = "procfs", tables = Len(Table),
           NEW p \in Pid, NEW s \in Sock, NEW i \in DOMAIN ports, Owed(p, s, i)
    PROVE  s \in index
<1>2. PICK k \in DOMAIN Table : Addr[s].table = Table[k]
  BY PortsAssumption DEF Owed, Findable, Inet, PortsAssumption
<1>3. k \in 1..tables
  BY DEF Table
<1> QED
  BY <1>2, <1>3 DEF WalkOwes

\* The early end of a process's descriptors (port.rs: hits.len() == slots): as many
\* matches as the last slot that any socket has are all the slots there are.
LEMMA AllHitIsAll ==
    ASSUME TypeOK, NEW h, AllHit(h), \A i \in h : \E t \in index : i \in SlotOf(t),
           NEW s \in index
    PROVE  SlotOf(s) \subseteq h
<1>1. PICK n : /\ \E t \in index : n \in SlotOf(t)
               /\ Cardinality(h) = n
               /\ \A t \in index : \A m \in SlotOf(t) : m <= n
  BY DEF AllHit
<1>2. /\ Len(ports) \in Nat
      /\ \A t \in index : SlotOf(t) \subseteq 1..Len(ports)
  BY Slots DEF TypeOK
<1>3. n \in 1..Len(ports) /\ \A t \in index : SlotOf(t) \subseteq 1..n
  BY <1>1, <1>2
<1>4. h \subseteq 1..n
  BY <1>3
<1>5. IsFiniteSet(1..n) /\ Cardinality(1..n) = n
  BY <1>2, <1>3, FS_Interval
<1>6. h = 1..n
  BY <1>1, <1>4, <1>5, FS_Subset
<1> QED
  BY <1>3, <1>6

LEMMA StepHitsSeen ==
    ASSUME TypeOK, HitsSeen, [Next]_vars
    PROVE  HitsSeen'
<1>1. \A s : SlotOf(s)' = SlotOf(s)
  BY LooksOnly, MeanwhileStep DEF Next, vars, world, given, SlotOf, Slot
<1>2. UNCHANGED <<pc, index, seen, hits>> \/ pc' # "fds" => HitsSeen'
  BY <1>1 DEF HitsSeen
<1>3. ASSUME NEW p \in Pid, VisitPid(p) PROVE HitsSeen'
  BY <1>3 DEF VisitPid, HitsSeen
<1>4. ASSUME NEW s \in Sock, ReadFd(s) PROVE HitsSeen'
  <2>1. /\ \A t \in seen' \cap index : SlotOf(t) \subseteq hits'
        /\ \A i \in hits' : \E t \in index : i \in SlotOf(t)
    BY <1>4 DEF ReadFd, HitsSeen
  <2> QED
    BY <1>1, <1>4, <2>1 DEF ReadFd, HitsSeen, scan
<1>5. CASE TablesRead \/ ReadTable \/ WalkDone \/ PidDone
  BY <1>2, <1>5 DEF TablesRead, ReadTable, WalkDone, PidDone
<1>6. CASE CountPids \/ ListPids \/ InfosDone \/ ProcsDone \/ Lsof
  BY <1>2, <1>6 DEF CountPids, ListPids, InfosDone, ProcsDone, Lsof
<1>7. ASSUME NEW p \in Pid, ListFds(p) PROVE HitsSeen'
  BY <1>2, <1>7 DEF ListFds
<1>8. ASSUME NEW s \in Sock, SocketInfo(s) PROVE HitsSeen'
  BY <1>2, <1>8 DEF SocketInfo
<1>9. CASE Meanwhile \/ UNCHANGED vars
  BY <1>2, <1>9, MeanwhileStep DEF vars, scan, visit
<1> QED
  BY <1>3, <1>4, <1>5, <1>6, <1>7, <1>8, <1>9 DEF Next, Lookup

LEMMA StepWalkOwes ==
    ASSUME TypeOK, Kept, WalkOwes, HitsSeen, [Next]_vars
    PROVE  WalkOwes'
<1> SUFFICES ASSUME NEW p \in Pid, NEW s \in Sock, NEW i \in DOMAIN ports', Owed(p, s, i)'
             PROVE  /\ (\A k \in 1..tables : backend = "procfs" /\ Addr[s].table = Table[k] => s \in index)'
                    /\ (pc \in {"walk", "fds"} =>
                          /\ p \in listed
                          /\ p < at \/ (p = at /\ pc = "walk") => p \in found[i])'
                    /\ (pc = "fds" /\ p = at => s \in due)'
  BY DEF WalkOwes
<1> DEFINE Covered == \A k \in 1..tables : backend = "procfs" /\ Addr[s].table = Table[k] => s \in index
           There == pc \in {"walk", "fds"} => p \in listed
           Passed == pc \in {"walk", "fds"} /\ (p < at \/ (p = at /\ pc = "walk")) => p \in found[i]
           Due == pc = "fds" /\ p = at => s \in due
<1>1. SUFFICES Covered' /\ There' /\ Passed' /\ Due'
  OBVIOUS
<1>2. /\ Owed(p, s, i)
      /\ s \in fds[p] /\ p \in alive
      /\ ports' = ports /\ readable' = readable /\ backend' = backend
  BY OwedBefore
<1>3. i \in DOMAIN ports /\ i \in SlotOf(s)
  BY <1>2 DEF Owed, Findable
<1>4. Covered /\ There /\ Passed /\ Due
  BY <1>2, <1>3 DEF WalkOwes
<1>5. pc \in {"walk", "fds"} => s \in index
  BY <1>2, <1>3, IndexFull DEF Kept
<1>6. p \in Nat /\ p > 0 /\ at \in Nat
  <2>1. at \in Pid \cup {0}
    BY DEF TypeOK
  <2> QED
    BY <2>1, PortsAssumption DEF PortsAssumption
<1>7. UNCHANGED scan => Covered'
  BY <1>2, <1>4 DEF scan
<1>8. UNCHANGED <<pc, listed, at, due, found>> \/ pc' \notin {"walk", "fds"} => There' /\ Passed' /\ Due'
  BY <1>2, <1>4
<1>9. ASSUME NEW slots, NEW q \in Pid, Add(q, slots)
      PROVE  (p \in found[i] => p \in found'[i]) /\ (p = q /\ i \in slots => p \in found'[i])
  <2>1. \A j \in DOMAIN ports : found'[j] = IF j \in slots THEN found[j] \cup {q} ELSE found[j]
    BY <1>9, AddKeeps DEF TypeOK
  <2> QED
    BY <1>3, <2>1
<1> HIDE DEF Covered, There, Passed, Due
<1>10. CASE ReadTable
  <2>1. ASSUME NEW k \in 1..tables', backend' = "procfs", Addr[s].table = Table[k] PROVE s \in index'
    <3>1. CASE k \in 1..tables
      BY <1>2, <1>4, <1>10, <2>1, <3>1 DEF ReadTable, Covered
    <3>2. CASE k \notin 1..tables
      <4>1. k = tables + 1
        BY <1>10, <3>2 DEF ReadTable, TypeOK, Table
      <4>2. Addr[s].table \in readable /\ Open(s) /\ SlotOf(s) # {}
        BY <1>2, <1>3, <2>1 DEF Owed, Findable, Open
      <4> QED
        BY <1>10, <2>1, <4>1, <4>2 DEF ReadTable
    <3> QED
      BY <3>1, <3>2
  <2>2. Covered'
    BY <2>1 DEF Covered
  <2> QED
    BY <1>8, <1>10, <2>2 DEF ReadTable
<1>11. CASE TablesRead
  <2>1. There'
    BY <1>2, <1>11 DEF TablesRead, There
  <2>2. at' = 0 /\ pc' # "fds"
    BY <1>11 DEF TablesRead, Kept
  <2>3. Passed' /\ Due'
    BY <1>6, <2>2 DEF Passed, Due
  <2> QED
    BY <1>7, <1>11, <2>1, <2>3 DEF TablesRead
<1>12. ASSUME NEW q \in Pid, VisitPid(q) PROVE Covered' /\ There' /\ Passed' /\ Due'
  <2>1. There'
    BY <1>4, <1>12 DEF VisitPid, There
  <2>2. q \in Nat /\ at' = q /\ UNCHANGED found
    BY <1>12, PortsAssumption DEF VisitPid, PortsAssumption
  <2>3. p < q => p <= at
    BY <1>2, <1>4, <1>6, <1>12, <2>2 DEF VisitPid, There
  <2>4. p <= at => p \in found[i]
    BY <1>4, <1>6, <1>12 DEF VisitPid, Passed
  <2>5. p = q => pc' = "fds"
    BY <1>2, <1>12 DEF VisitPid, Owed, Findable
  <2>6. Passed'
    BY <2>2, <2>3, <2>4, <2>5 DEF Passed
  <2>7. Due'
    BY <1>2, <1>12 DEF VisitPid, Due
  <2> QED
    BY <1>7, <1>12, <2>1, <2>6, <2>7 DEF VisitPid
<1>13. ASSUME NEW t \in Sock, ReadFd(t) PROVE Covered' /\ There' /\ Passed' /\ Due'
  <2>1. pc = "fds" /\ at \in Pid /\ UNCHANGED <<listed, at, due, scan>>
    BY <1>13 DEF ReadFd, Kept
  <2>2. There' /\ Due'
    BY <1>4, <2>1 DEF There, Due
  <2>3. CASE AllHit(hits')
    <3>1. Add(at, hits')
      BY <1>13, <2>3 DEF ReadFd
    <3>2. \A j \in hits' : \E u \in index : j \in SlotOf(u)
      BY <1>13 DEF ReadFd, HitsSeen
    <3>3. i \in hits'
      BY <1>3, <1>5, <2>1, <2>3, <3>2, AllHitIsAll
    <3>4. p < at => p \in found[i]
      BY <1>4, <2>1 DEF Passed
    <3>5. p < at \/ p = at => p \in found'[i]
      BY <1>9, <2>1, <3>1, <3>3, <3>4
    <3> QED
      BY <1>7, <2>1, <2>2, <3>5 DEF Passed
  <2>4. CASE ~AllHit(hits')
    <3>1. UNCHANGED <<pc, found>>
      BY <1>13, <2>4 DEF ReadFd
    <3> QED
      BY <1>7, <1>8, <2>1, <3>1
  <2> QED
    BY <2>3, <2>4
<1>14. CASE PidDone
  <2>1. pc = "fds" /\ pc' = "walk" /\ at \in Pid /\ UNCHANGED <<listed, at, due, scan>>
    BY <1>14 DEF PidDone, Kept, visit
  <2>2. There' /\ Due'
    BY <1>4, <2>1 DEF There, Due
  <2>3. p = at => i \in hits
    <3>1. SUFFICES ASSUME p = at PROVE i \in hits
      OBVIOUS
    <3>2. s \in due
      BY <1>4, <2>1, <3>1 DEF Due
    <3>3. s \in seen
      BY <1>2, <1>14, <3>1, <3>2 DEF PidDone
    <3> QED
      BY <1>3, <1>5, <2>1, <3>3 DEF HitsSeen
  <2>4. p < at => p \in found[i]
    BY <1>4, <2>1 DEF Passed
  <2>5. p < at \/ p = at => p \in found'[i]
    BY <1>9, <1>14, <2>1, <2>3, <2>4 DEF PidDone
  <2> QED
    BY <1>7, <2>1, <2>2, <2>5 DEF Passed
<1>15. CASE WalkDone \/ CountPids \/ ListPids \/ InfosDone \/ ProcsDone \/ Lsof
  BY <1>7, <1>8, <1>15 DEF WalkDone, CountPids, ListPids, InfosDone, ProcsDone, Lsof
<1>16. ASSUME NEW q \in Pid, ListFds(q) PROVE Covered' /\ There' /\ Passed' /\ Due'
  BY <1>7, <1>8, <1>16 DEF ListFds
<1>17. ASSUME NEW t \in Sock, SocketInfo(t) PROVE Covered' /\ There' /\ Passed' /\ Due'
  BY <1>7, <1>8, <1>17 DEF SocketInfo
<1>18. CASE Meanwhile \/ UNCHANGED vars
  BY <1>7, <1>8, <1>18, MeanwhileStep DEF vars, scan, visit
<1> QED
  BY <1>10, <1>11, <1>12, <1>13, <1>14, <1>15, <1>16, <1>17, <1>18 DEF Next, Lookup

LEMMA StepListOwes ==
    ASSUME TypeOK, Kept, ListOwes, [Next]_vars
    PROVE  ListOwes'
<1>1. (backend = "moved" => ~recognized)'
  <2>1. backend' = backend
    BY LooksOnly, MeanwhileStep DEF Next, vars, world, given
  <2>2. ASSUME NEW s \in Sock, SocketInfo(s), backend = "moved" PROVE ~recognized'
    BY <2>2 DEF SocketInfo, ListOwes
  <2>3. recognized' = recognized \/ \E s \in Sock : SocketInfo(s)
    BY MeanwhileStep DEF Next, Lookup, ReadTable, TablesRead, VisitPid, ListFds, ReadFd, PidDone,
       WalkDone, CountPids, ListPids,
                InfosDone, ProcsDone, Lsof, vars, tally
  <2> QED
    BY <2>1, <2>2, <2>3 DEF ListOwes
<1> SUFFICES ASSUME NEW p \in Pid, NEW s \in Sock, NEW i \in DOMAIN ports', Owed(p, s, i)',
                    pc' \in {"procs", "infos"}
             PROVE  (\/ p \in listed \cup skipped
                     \/ pc = "infos" /\ p = at /\ s \in due
                     \/ sockets /\ (backend = "moved" \/ p \in found[i]))'
  BY <1>1 DEF ListOwes
<1> DEFINE ToList == p \in listed \cup skipped
           ToLook == pc = "infos" /\ p = at /\ s \in due
           Answered == sockets /\ (backend = "moved" \/ p \in found[i])
<1>2. SUFFICES (ToList \/ ToLook \/ Answered)'
  OBVIOUS
<1>3. /\ Owed(p, s, i)
      /\ s \in fds[p] /\ p \in alive
      /\ ports' = ports /\ backend' = backend
  BY OwedBefore
<1>4. i \in DOMAIN ports /\ i \in SlotOf(s) /\ HasPort(s) /\ p \notin Hidden
  BY <1>3 DEF Owed, Findable, HasPort
<1>5. pc \in {"procs", "infos"} => ToList \/ ToLook \/ Answered
  BY <1>3, <1>4 DEF ListOwes
<1>6. CASE ListPids
  BY <1>3, <1>6 DEF ListPids
<1>7. ASSUME NEW q \in Pid, ListFds(q) PROVE (ToList \/ ToLook \/ Answered)'
  <2>1. CASE p = q
    BY <1>3, <1>4, <1>7, <2>1 DEF ListFds
  <2>2. CASE p # q
    BY <1>3, <1>5, <1>7, <2>2 DEF ListFds, tally
  <2> QED
    BY <2>1, <2>2
<1>8. ASSUME NEW t \in Sock, SocketInfo(t) PROVE (ToList \/ ToLook \/ Answered)'
  <2>1. at \in Pid
    BY <1>8 DEF SocketInfo, Kept
  <2>6. found \in [DOMAIN ports -> SUBSET Pid]
    BY DEF TypeOK
  <2>2. p \in found[i] => p \in found'[i]
    <3>1. CASE Add(at, SlotOf(t))
      <4>1. \A j \in DOMAIN ports :
              found'[j] = IF j \in SlotOf(t) THEN found[j] \cup {at} ELSE found[j]
        BY <2>1, <2>6, <3>1, AddKeeps
      <4> QED
        BY <1>4, <4>1
    <3> QED
      BY <1>8, <3>1 DEF SocketInfo
  <2>3. /\ sockets' /\ UNCHANGED <<listed, skipped, at>>
        /\ pc' = "infos" /\ due' = due \ {t}
    BY <1>8 DEF SocketInfo, limits
  <2>4. ToList \/ ToLook \/ Answered
    BY <1>5, <1>8 DEF SocketInfo
  <2>5. ASSUME ToLook, s = t, backend # "moved" PROVE p \in found'[i]
    <3>1. Add(at, SlotOf(s))
      BY <1>3, <1>4, <1>8, <2>5 DEF SocketInfo
    <3>2. \A j \in DOMAIN ports :
            found'[j] = IF j \in SlotOf(s) THEN found[j] \cup {at} ELSE found[j]
      BY <2>1, <2>6, <3>1, AddKeeps
    <3> QED
      BY <1>4, <2>5, <3>2
  <2> QED
    BY <1>3, <2>2, <2>3, <2>4, <2>5
<1>9. CASE InfosDone
  BY <1>3, <1>5, <1>9 DEF InfosDone, visit, limits, tally
<1>10. CASE ReadTable \/ TablesRead \/ PidDone \/ WalkDone \/ CountPids \/ ProcsDone \/ Lsof
  BY <1>10 DEF ReadTable, TablesRead, PidDone, WalkDone, CountPids, ProcsDone, Lsof
<1>11. ASSUME NEW q \in Pid, VisitPid(q) PROVE FALSE
  BY <1>11 DEF VisitPid
<1>12. ASSUME NEW t \in Sock, ReadFd(t) PROVE FALSE
  BY <1>12 DEF ReadFd
<1>13. CASE Meanwhile \/ UNCHANGED vars
  <2>1. UNCHANGED <<pc, listed, skipped, at, due, sockets, found>>
    BY <1>13, MeanwhileStep DEF vars, visit, limits, tally
  <2> QED
    BY <1>3, <1>5, <2>1
<1> QED
  BY <1>6, <1>7, <1>8, <1>9, <1>10, <1>11, <1>12, <1>13 DEF Next, Lookup

\* Every way to an answer: the walk is over, no table had such a socket, every
\* process was asked, or lsof was.
LEMMA StepAllPaid ==
    ASSUME PortsInv, [Next]_vars
    PROVE  AllPaid'
<1> USE DEF PortsInv
<1> SUFFICES ASSUME pc' = "done", NEW p \in Pid, NEW s \in Sock, NEW i \in DOMAIN ports', Owed(p, s, i)'
             PROVE  p \in found'[i] \cup skipped'
  BY DEF AllPaid
<1>1. /\ Owed(p, s, i)
      /\ s \in fds[p] /\ p \in alive
      /\ ports' = ports
  BY OwedBefore
<1>2. i \in DOMAIN ports /\ i \in SlotOf(s) /\ Inet(s) /\ p \notin Hidden
  BY <1>1 DEF Owed, Findable
<1>3. CASE TablesRead
  <2>1. index = {} /\ tables = Len(Table) /\ backend = "procfs"
    BY <1>1, <1>3 DEF TablesRead, Kept, Owed, Findable
  <2> QED
    BY <1>1, <1>2, <2>1, IndexFull
<1>4. CASE WalkDone
  <2>1. pc = "walk" /\ p <= at /\ UNCHANGED found
    BY <1>1, <1>2, <1>4 DEF WalkDone, WalkOwes
  <2>2. p \in Nat /\ at \in Nat
    BY PortsAssumption DEF PortsAssumption, TypeOK
  <2>3. p < at \/ p = at
    BY <2>1, <2>2
  <2> QED
    BY <1>1, <1>2, <2>1, <2>3 DEF WalkOwes
<1>5. CASE ProcsDone
  <2>1. pc = "procs" /\ listed = {} /\ ~FallsBack /\ UNCHANGED <<found, skipped>>
    BY <1>5 DEF ProcsDone
  <2>2. p \in skipped \/ (sockets /\ (backend = "moved" \/ p \in found[i]))
    BY <1>1, <1>2, <2>1 DEF ListOwes
  <2> QED
    BY <2>1, <2>2 DEF ListOwes, FallsBack
<1>6. CASE Lsof
  <2>1. found' = [j \in DOMAIN ports |->
                    {q \in Pid \ Hidden : \E t \in fds[q] : Inet(t) /\ j \in SlotOf(t)}]
    BY <1>6 DEF Lsof
  <2> QED
    BY <1>1, <1>2, <2>1
<1>7. CASE UNCHANGED vars
  BY <1>1, <1>2, <1>7 DEF vars, limits, AllPaid
<1>8. CASE Meanwhile
  BY <1>8, MeanwhileStep
<1>9. CASE ReadTable \/ PidDone \/ CountPids \/ ListPids \/ InfosDone
  BY <1>9 DEF ReadTable, PidDone, CountPids, ListPids, InfosDone
<1>10. ASSUME NEW q \in Pid, VisitPid(q) \/ ListFds(q) PROVE FALSE
  BY <1>10 DEF VisitPid, ListFds
<1>11. ASSUME NEW t \in Sock, ReadFd(t) \/ SocketInfo(t) PROVE FALSE
  BY <1>11 DEF ReadFd, SocketInfo
<1> QED
  BY <1>3, <1>4, <1>5, <1>6, <1>7, <1>8, <1>9, <1>10, <1>11 DEF Next, Lookup

-----------------------------------------------------------------------------
(* The theorems.                                                           *)

LEMMA InitPortsInv == Init => PortsInv
<1> SUFFICES ASSUME Init PROVE PortsInv
  OBVIOUS
<1>1. TypeOK /\ Kept
  BY InitType
<1>2. pc \in {"tables", "count"} /\ tables = 0 /\ index = {} /\ ~recognized
  BY DEF Init
<1>3. \A i \in DOMAIN ports : found[i] = {}
  BY DEF Init
<1> QED
  BY <1>1, <1>2, <1>3 DEF PortsInv, OnlySeen, WalkOwes, HitsSeen, ListOwes, AllPaid

\* PortsInv is inductive: what every step of the lookup relies on, it leaves behind
\* (port.rs, both backends).
THEOREM PortsInductive == Spec => []PortsInv
<1>1. PortsInv /\ [Next]_vars => PortsInv'
  BY StepType, StepKept, StepOnlySeen, StepWalkOwes, StepHitsSeen, StepListOwes, StepAllPaid
  DEF PortsInv
<1> QED
  BY <1>1, InitPortsInv, PTL DEF Spec

\* Every variable keeps its type, for any processes and command lines.
THEOREM PortsTypeCorrect == Spec => []TypeOK
BY PortsInductive, PTL DEF PortsInv

\* A process that holds the port from beginning to end is found, whatever happens
\* meanwhile, unless libproc had no room for it or /proc could not be read
\* (port.rs:17-20, 42-43, 436-437).
THEOREM BusyPortFound == Spec => []Complete
<1>1. PortsInv => Complete
  <2> SUFFICES ASSUME PortsInv, pc = "done",
                      NEW p \in Pid, NEW s \in Sock, NEW i \in DOMAIN ports,
                      Findable(p, s), Addr[s].local = ports[i]
               PROVE  p \in Answer(i) \cup skipped
    BY DEF Complete
  <2>1. DOMAIN ports \subseteq Nat
    BY Slots DEF PortsInv, TypeOK
  <2>2. PICK j \in {k \in DOMAIN ports : ports[k] = Addr[s].local} :
               \A k \in {n \in DOMAIN ports : ports[n] = Addr[s].local} : j <= k
    BY <2>1, LeastPlace
  <2>3. /\ DOMAIN ports = 1..Len(ports) /\ Len(ports) \in Nat
        /\ j \in DOMAIN ports /\ ports[j] = Addr[s].local /\ j <= i
    BY <2>2, Slots DEF PortsInv, TypeOK
  <2>4. \A k \in 1..(j - 1) : k \in DOMAIN ports /\ ~(j <= k)
    BY <2>3
  <2>5. j \in SlotOf(s) /\ j <= i
    BY <2>2, <2>3, <2>4 DEF SlotOf, Slot
  <2>6. p \in found[j] \cup skipped
    BY <2>2, <2>5 DEF PortsInv, AllPaid, Owed
  <2> QED
    BY <2>2, <2>5, <2>6 DEF Answer
<1> QED
  BY <1>1, PortsInductive, PTL

\* Nobody is found who has not held the port during the lookup (port.rs:4-7, 94-100).
THEOREM OnlyHoldersFound == Spec => []Sound
<1>1. PortsInv => Sound
  <2> SUFFICES ASSUME PortsInv, NEW i \in DOMAIN ports, NEW p \in found[i]
               PROVE  \E s \in Sock : <<p, s>> \in ever /\ Inet(s) /\ Addr[s].local = ports[i]
    BY DEF Sound
  <2> QED
    BY Slots DEF PortsInv, TypeOK, OnlySeen, Seen
<1> QED
  BY <1>1, PortsInductive, PTL
=============================================================================
