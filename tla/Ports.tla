-------------------------------- MODULE Ports --------------------------------
(***************************************************************************)
(* Which processes hold a port (src/src/port.rs): the lookup of deemo kill *)
(* as the walk it is, next to processes that open, close, inherit and hand *)
(* over sockets, exit and are born while it walks.                         *)
(*                                                                         *)
(* On Linux the socket tables give the inodes of the ports, then /proc the *)
(* processes with such a descriptor; on macOS libproc lists the processes, *)
(* their descriptors and what each is, with lsof to fall back on.          *)
(***************************************************************************)
EXTENDS Naturals, Sequences, FiniteSets

CONSTANTS Pid,       \* process ids: /proc lists them in ascending order
          Hidden,    \* those of other users, whose descriptors we may not read
          Crowded,   \* those that may have 32,768 descriptors or more: as many
                     \* as libproc is asked for
          Sock,      \* sockets
          Addr,      \* of each: its table, its local port, its peer's port
          Requests,  \* the command lines: sequences of ports
          Backend,   \* "procfs", "libproc", or "moved": libproc, and a kernel
                     \* whose structures are not the ones this code expects
          Tables,    \* what can be read of the tables and "proc": the possibilities
          Start,     \* who there is in the beginning, and whose each socket is
                     \* (0: nobody's yet)
          MaxEvents  \* bound: how often something happens during the walk

\* socket tables, in the order of the loop.  Of a unix socket, local is the
\* number in the place of a port.
Table == <<"tcp", "tcp6", "udp", "udp6">>

Inet(s) == Addr[s].table # "unix"

ASSUME PortsAssumption ==
    /\ Pid \subseteq Nat \ {0} /\ IsFiniteSet(Pid) /\ {Hidden, Crowded} \subseteq SUBSET Pid
    /\ \A s \in Sock :
         /\ {Addr[s].local, Addr[s].peer} \subseteq Nat
         /\ Addr[s].table \in {Table[k] : k \in DOMAIN Table} \cup {"unix"}
    /\ Requests \subseteq Seq(Nat)
    /\ Backend \subseteq {"procfs", "libproc", "moved"}
    /\ Start \subseteq [alive : SUBSET Pid, owner : [Sock -> Pid \cup {0}]]
    /\ \A w \in Start : \A s \in Sock : w.owner[s] \in w.alive \cup {0}
    /\ Tables \subseteq SUBSET ({Table[k] : k \in DOMAIN Table} \cup {"proc"})
    /\ MaxEvents \in Nat

VARIABLES alive,       \* the processes there are
          fds,         \* the sockets each has open
          events,      \* how often something has happened
          ports,       \* the command line
          backend,     \* which implementation this is
          readable,    \* the tables that can be read, and "proc" if /proc can
          pc,          \* where the lookup is
          tables,      \* how many tables it has been through
          index,       \* the sockets of these ports, from the tables
          listed,      \* the processes there were when it opened /proc, or that
                       \* libproc listed and are still to be looked at
          at,          \* the process it looks at, or looked at last
          due,         \* the sockets this one had when its list was opened
          seen,        \* those looked at
          hits,        \* the slots they matched
          room,        \* for how many processes there is room in libproc's list
          sockets,     \* some descriptor was a socket
          recognized,  \* and some of them made sense
          found,       \* the answer: for each place on the command line, pids
          skipped,     \* history: those libproc had no room for, and those with
                       \* sockets it left out of their list
          steady,      \* history: <<pid, socket>> held all along
          ever         \* history: <<pid, socket>> held at some time

world == <<alive, fds, events, steady, ever>>
given == <<ports, backend, readable>>
scan == <<tables, index>>
visit == <<listed, at, due, seen, hits>>
limits == <<room, skipped>>
tally == <<sockets, recognized>>
vars == <<world, given, pc, scan, visit, limits, tally, found>>

Owned(f) == {h \in Pid \X Sock : h[2] \in f[h[1]]}

Init ==
    /\ \E w \in Start :
         /\ alive = w.alive
         /\ fds = [p \in Pid |-> {s \in Sock : w.owner[s] = p}]
    /\ events = 0
    /\ ports \in Requests
    /\ backend \in Backend
    /\ readable \in IF backend = "procfs" THEN Tables ELSE {{}}
    /\ pc = IF backend = "procfs" THEN "tables" ELSE "count"
    /\ tables = 0 /\ index = {}
    /\ listed = {} /\ at = 0 /\ due = {} /\ seen = {} /\ hits = {}
    /\ room = 0 /\ skipped = {}
    /\ sockets = FALSE /\ recognized = FALSE
    /\ found = [i \in DOMAIN ports |-> {}]
    /\ steady = Owned(fds) /\ ever = Owned(fds)

-----------------------------------------------------------------------------
(* Slots.                                                                  *)

\* slot_of: the first place of a port on the command line, if it has one.
Slot(port) == {i \in DOMAIN ports : ports[i] = port /\ \A j \in 1..(i - 1) : ports[j] # port}

\* Only the local side of a socket counts.
SlotOf(s) == Slot(Addr[s].local)

\* found[slot].push(pid), sorted and without duplicates in the end.
Add(p, slots) == found' = [i \in DOMAIN found |-> IF i \in slots THEN found[i] \cup {p} ELSE found[i]]

-----------------------------------------------------------------------------
(* Linux: holders_impl, socket_inodes and pids_with_sockets.               *)

Open(s) == \E p \in Pid : s \in fds[p]

\* The next table, if it can be read.
ReadTable ==
    /\ pc = "tables" /\ tables < Len(Table)
    /\ LET t == Table[tables + 1]
           rows == {s \in Sock : Addr[s].table = t /\ Open(s)}
       IN  index' = IF t \in readable THEN index \cup {s \in rows : SlotOf(s) # {}} ELSE index
    /\ tables' = tables + 1
    /\ UNCHANGED <<world, given, pc, visit, limits, tally, found>>

\* No table at all is an error; no such socket is an answer, and so is a /proc
\* that cannot be opened.
TablesRead ==
    /\ pc = "tables" /\ tables = Len(Table)
    /\ pc' = IF readable \subseteq {"proc"} THEN "failed"
             ELSE IF index = {} \/ "proc" \notin readable THEN "done" ELSE "walk"
    /\ listed' = alive
    /\ UNCHANGED <<world, given, scan, at, due, seen, hits, limits, tally, found>>

\* The next process.  One that was there when /proc was opened is not passed
\* over; one born since may be.
VisitPid(p) ==
    /\ pc = "walk"
    /\ p \in alive /\ p > at
    /\ \A q \in listed \cap alive : q > at => q >= p
    /\ at' = p
    /\ due' = fds[p] /\ seen' = {} /\ hits' = {}
    /\ pc' = IF p \in Hidden THEN "walk" ELSE "fds"
    /\ UNCHANGED <<world, given, scan, listed, limits, tally, found>>

Mut_AnyHit(h) == h # {}

\* hits.len() == slots: every slot up to the last one in the index has matched.
AllHit(h) ==
    \E s \in index : \E n \in SlotOf(s) :
      /\ Cardinality(h) = n
      /\ \A t \in index : \A m \in SlotOf(t) : m <= n

\* The next descriptor.  The loop ends when every slot has matched.
ReadFd(s) ==
    /\ pc = "fds"
    /\ s \in fds[at] \ seen
    /\ seen' = seen \cup {s}
    /\ hits' = IF s \in index THEN hits \cup SlotOf(s) ELSE hits
    /\ IF AllHit(hits') THEN pc' = "walk" /\ Add(at, hits') ELSE UNCHANGED <<pc, found>>
    /\ UNCHANGED <<world, given, scan, listed, at, due, limits, tally>>

\* Or when there is none left; what was opened since may have been missed.
PidDone ==
    /\ pc = "fds"
    /\ due \cap fds[at] \subseteq seen
    /\ pc' = "walk"
    /\ Add(at, hits)
    /\ UNCHANGED <<world, given, scan, visit, limits, tally>>

WalkDone ==
    /\ pc = "walk"
    /\ \A q \in listed \cap alive : q <= at
    /\ pc' = "done"
    /\ UNCHANGED <<world, given, scan, visit, limits, tally, found>>

-----------------------------------------------------------------------------
(* macOS: libproc_holders, list_fds, socket_info; lsof_holders.            *)

\* The first call only asks how many processes there are.
CountPids ==
    /\ pc = "count"
    /\ \/ pc' = "list" /\ room' = Cardinality(alive)
       \/ pc' = "lsof" /\ UNCHANGED room
    /\ UNCHANGED <<world, given, scan, visit, skipped, tally, found>>

\* The list is cut off where its room ends; its order, the kernel's, is any.
CutOff(all) ==
    IF Cardinality(all) <= room THEN {all} ELSE {cut \in SUBSET all : Cardinality(cut) = room}

ListPids ==
    /\ pc = "list"
    /\ \/ /\ pc' = "procs"
          /\ listed' \in CutOff(alive)
          /\ skipped' = alive \ listed'
       \/ pc' = "lsof" /\ UNCHANGED <<listed, skipped>>
    /\ UNCHANGED <<world, given, scan, at, due, seen, hits, room, tally, found>>

\* The next process of the list; gone or another user's, it has no list of
\* descriptors, and one of too many is cut off.
ListFds(p) ==
    /\ pc = "procs" /\ p \in listed
    /\ listed' = listed \ {p}
    /\ at' = p
    /\ due' \in IF p \in Hidden THEN {{}} ELSE IF p \in Crowded THEN SUBSET fds[p] ELSE {fds[p]}
    /\ skipped' = IF due' = fds[p] THEN skipped ELSE skipped \cup {p}
    /\ pc' = "infos"
    /\ UNCHANGED <<world, given, scan, seen, hits, room, tally, found>>

Mut_AnyKind(s) == TRUE

\* SOCKINFO_IN or SOCKINFO_TCP: what starts with a port.
HasPort(s) == Inet(s)

\* What one of the descriptors is, if it is still open.
SocketInfo(s) ==
    /\ pc = "infos" /\ s \in due
    /\ due' = due \ {s}
    /\ sockets' = TRUE
    /\ LET known == s \in fds[at] /\ backend # "moved"
       IN  /\ recognized' = (recognized \/ known)
           /\ IF known /\ HasPort(s) THEN Add(at, SlotOf(s)) ELSE found' = found
    /\ UNCHANGED <<world, given, pc, scan, listed, at, seen, hits, limits>>

InfosDone ==
    /\ pc = "infos" /\ due = {}
    /\ pc' = "procs"
    /\ UNCHANGED <<world, given, scan, visit, limits, tally, found>>

Mut_NeverFallsBack == FALSE

\* Not one socket was recognized: ask lsof rather than report a port as free.
FallsBack == sockets /\ ~recognized

ProcsDone ==
    /\ pc = "procs" /\ listed = {}
    /\ pc' = IF FallsBack THEN "lsof" ELSE "done"
    /\ found' = IF FallsBack THEN [i \in DOMAIN ports |-> {}] ELSE found
    /\ skipped' = IF FallsBack THEN {} ELSE skipped
    /\ UNCHANGED <<world, given, scan, visit, room, tally>>

\* lsof names the sockets with such a port on either side; local_port keeps the
\* local one.  It may be missing, or fail.
Lsof ==
    /\ pc = "lsof"
    /\ \/ /\ found' = [i \in DOMAIN ports |->
                         {p \in Pid \ Hidden : \E s \in fds[p] : Inet(s) /\ i \in SlotOf(s)}]
          /\ pc' = "done"
       \/ pc' = "failed" /\ UNCHANGED found
    /\ UNCHANGED <<world, given, scan, visit, limits, tally>>

-----------------------------------------------------------------------------
(* The processes meanwhile.                                                *)

Happens(f) ==
    /\ pc \notin {"done", "failed"}
    /\ events < MaxEvents /\ events' = events + 1
    /\ fds' = f
    /\ steady' = steady \cap Owned(f)
    /\ ever' = ever \cup Owned(f)
    /\ UNCHANGED <<given, pc, scan, visit, limits, tally, found>>

Create(p, s) == ~Open(s) /\ Happens([fds EXCEPT ![p] = @ \cup {s}]) /\ UNCHANGED alive

Close(p, s) == s \in fds[p] /\ Happens([fds EXCEPT ![p] = @ \ {s}]) /\ UNCHANGED alive

\* Over a unix socket, say.
HandOver(p, q, s) ==
    /\ s \in fds[p]
    /\ Happens([fds EXCEPT ![q] = @ \cup {s}])
    /\ UNCHANGED alive

\* A pid that is free may be one that was in use before.
Fork(p, q) ==
    /\ q \notin alive
    /\ alive' = alive \cup {q}
    /\ Happens([fds EXCEPT ![q] = fds[p]])

Exit(p) == alive' = alive \ {p} /\ Happens([fds EXCEPT ![p] = {}])

Meanwhile ==
    \/ \E p \in alive, s \in Sock : Create(p, s) \/ Close(p, s)
    \/ \E p, q \in alive, s \in Sock : HandOver(p, q, s)
    \/ \E p \in alive, q \in Pid : Fork(p, q)
    \/ \E p \in alive : Exit(p)

Lookup ==
    \/ ReadTable \/ TablesRead
    \/ \E p \in Pid : VisitPid(p) \/ ListFds(p)
    \/ \E s \in Sock : ReadFd(s) \/ SocketInfo(s)
    \/ PidDone \/ WalkDone
    \/ CountPids \/ ListPids \/ InfosDone \/ ProcsDone \/ Lsof

Next == Lookup \/ Meanwhile

Spec == Init /\ [][Next]_vars

-----------------------------------------------------------------------------
(* Properties.                                                             *)

\* Every variable keeps the kind of value the code's variable has.
TypeOK ==
    /\ alive \subseteq Pid /\ fds \in [Pid -> SUBSET Sock]
    /\ \A p \in Pid \ alive : fds[p] = {}
    /\ events \in 0..MaxEvents
    /\ ports \in Requests /\ backend \in Backend /\ readable \in Tables \cup {{}}
    /\ pc \in {"tables", "walk", "fds", "count", "list", "procs", "infos", "lsof", "done", "failed"}
    /\ tables \in 0..Len(Table)
    /\ {index, due, seen} \subseteq SUBSET Sock
    /\ {listed, skipped} \subseteq SUBSET Pid /\ at \in Pid \cup {0} /\ room \in Nat
    /\ hits \subseteq DOMAIN ports
    /\ {sockets, recognized} \subseteq BOOLEAN
    /\ found \in [DOMAIN ports -> SUBSET Pid]
    /\ steady \subseteq ever

\* p has had s open all along, and we may read both its descriptors and the tables.
Findable(p, s) ==
    /\ <<p, s>> \in steady
    /\ Inet(s)
    /\ p \notin Hidden
    /\ backend = "procfs" => {Addr[s].table, "proc"} \subseteq readable

\* The answer for the port in place i.  One asked for twice has a single list, at
\* its first place: those that follow stay empty (slot_of).
Answer(i) == UNION {found[j] : j \in {k \in DOMAIN ports : k <= i /\ ports[k] = ports[i]}}

\* A process that has such a socket open from beginning to end is in the answer,
\* whatever else opens, closes, is handed over, exits or is born meanwhile, with
\* several ports in one walk, and whichever backend answers (port.rs:17-20, 42-43,
\* 436-437): unless /proc cannot be read (415), or libproc had no room for it in a
\* list it had sized before (54-68), or for its sockets in a list of 32,768
\* descriptors (137).  These three are a busy port reported as free.
Complete ==
    pc = "done" =>
      \A p \in Pid, s \in Sock, i \in DOMAIN ports :
        Findable(p, s) /\ Addr[s].local = ports[i] => p \in Answer(i) \cup skipped

\* Whoever is in the answer has had a socket with that local port open during the
\* lookup: never a client of the port, never by accident of another kind of socket
\* (port.rs:4-7, 94-100).
Sound ==
    \A i \in DOMAIN ports : \A p \in found[i] :
      \E s \in Sock : <<p, s>> \in ever /\ Inet(s) /\ Addr[s].local = ports[i]

-----------------------------------------------------------------------------
(* Why: the invariant the proofs of Sound and Complete rest on.            *)

\* The history is true, and each backend stays on its own side.
Kept ==
    /\ steady \subseteq Owned(fds)
    /\ Owned(fds) \subseteq ever
    /\ ever \subseteq Pid \X Sock
    /\ pc \in {"tables", "walk", "fds"} => backend = "procfs"
    /\ pc \in {"count", "list", "procs", "infos", "lsof"} => backend # "procfs"
    /\ pc \in {"fds", "infos"} => at \in Pid
    /\ pc \in {"walk", "fds"} => tables = Len(Table)
    /\ pc \in {"tables", "count", "list"} => at = 0

\* What the list in place i owes.
Owed(p, s, i) == Findable(p, s) /\ i \in SlotOf(s)

\* p has had a socket of the port in place i.
Seen(p, i) == \E s \in Sock : <<p, s>> \in ever /\ Inet(s) /\ i \in SlotOf(s)

\* Nothing gets into the answer that was not there.
OnlySeen ==
    /\ \A s \in index : Inet(s) /\ SlotOf(s) # {}
    /\ pc = "fds" => \A i \in hits : Seen(at, i)
    /\ \A i \in DOMAIN ports : \A p \in found[i] : Seen(p, i)

\* Linux: what is owed is in the index once its table has been read, its process
\* was there when /proc was opened, and is in the answer once it has been passed.
WalkOwes ==
    \A p \in Pid, s \in Sock, i \in DOMAIN ports : Owed(p, s, i) =>
      /\ \A k \in 1..tables : backend = "procfs" /\ Addr[s].table = Table[k] => s \in index
      /\ pc \in {"walk", "fds"} =>
           /\ p \in listed
           /\ p < at \/ (p = at /\ pc = "walk") => p \in found[i]
      /\ pc = "fds" /\ p = at => s \in due

\* The slots that have matched are those of the sockets looked at.
HitsSeen ==
    pc = "fds" =>
      /\ \A s \in seen \cap index : SlotOf(s) \subseteq hits
      /\ \A i \in hits : \E s \in index : i \in SlotOf(s)

\* macOS: what is owed is still to be listed, or to be looked at, or has been
\* seen to be a socket, and then it is in the answer unless nothing makes sense; or
\* there was no room for it.
ListOwes ==
    /\ backend = "moved" => ~recognized
    /\ pc \in {"procs", "infos"} =>
         \A p \in Pid, s \in Sock, i \in DOMAIN ports : Owed(p, s, i) =>
           \/ p \in listed \cup skipped
           \/ pc = "infos" /\ p = at /\ s \in due
           \/ sockets /\ (backend = "moved" \/ p \in found[i])

\* Complete, list by list.
AllPaid ==
    pc = "done" =>
      \A p \in Pid, s \in Sock, i \in DOMAIN ports : Owed(p, s, i) => p \in found[i] \cup skipped

\* What the lookup has so far is right, and misses nobody it owes (port.rs:38-47).
PortsInv == TypeOK /\ Kept /\ OnlySeen /\ WalkOwes /\ HitsSeen /\ ListOwes /\ AllPaid
=============================================================================
