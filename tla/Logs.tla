-------------------------------- MODULE Logs --------------------------------
(***************************************************************************)
(* The log directory $DEEMO_HOME/logs (src/src/sink.rs): every run opens a *)
(* log named after its label and the time, prunes the older ones of the    *)
(* label (--keep), and `deemo logs` shows the one whose name sorts last.   *)
(* Runs share nothing but the directory.                                   *)
(*                                                                         *)
(* A file name is its label and its stamp, a number that orders the names  *)
(* of one label as the code's string comparison does.                      *)
(***************************************************************************)
EXTENDS Integers, FiniteSets

CONSTANTS Run,      \* deemo invocations that may run at the same time
          Label,
          Longer,   \* <<l, m>>: label m is l, a dash and a word
          Scheme,   \* the --timestamp values in use
          Keep,     \* the --keep values in use
          Horizon,  \* bound: the last moment of the local clock
          Day,      \* moments in a day
          Slips     \* the local clock may be set back (NTP, end of DST)

ASSUME LogsAssumption ==
    /\ Longer \subseteq {lm \in Label \X Label : lm[1] # lm[2]}
    /\ Scheme \subseteq {"run", "day", "off"}
    /\ Keep \subseteq Nat
    /\ Horizon \in Nat
    /\ Day \in Nat \ {0}
    /\ Slips \in BOOLEAN

VARIABLES now,      \* the local clock
          disk,     \* the files in the directory
          created,  \* history: every file ever opened
          at,       \* where each invocation is
          mine,     \* the log it writes, or the one it shows
          keep,     \* its --keep
          doomed,   \* files its prune is still to remove
          known     \* history: for `logs`, what had been created when it looked

vars == <<now, disk, created, at, mine, keep, doomed, known>>

Last == 2 * Horizon + 1

\* <label>-<day>-<time>.log, <label>-<day>.log and <label>.log: the names of one
\* day sort before the file of that day, and all of them before the plain name,
\* because a dash sorts before a dot.
Stamp(scheme, t) ==
    CASE scheme = "run" -> (t \div Day) * (Day + 1) + (t % Day)
      [] scheme = "day" -> (t \div Day) * (Day + 1) + Day
      [] scheme = "off" -> Last + Day

File == [label : Label, stamp : 0..(Last + Day)]

NoFile == [label |-> "none", stamp |-> 0]

\* LogName::matches.
Matches(l, f) == f.label = l \/ <<l, f.label>> \in Longer

\* Where f sorts among the names that match l: those of a longer label follow
\* l's own dated names, digits before letters.
Place(l, f) == IF f.label = l /\ f.stamp < Last + Day THEN 0
               ELSE IF f.label # l THEN 1 ELSE 2

Before(l, f, g) ==
    \/ Place(l, f) < Place(l, g)
    \/ Place(l, f) = Place(l, g) /\ f.stamp < g.stamp

Ours(l) == {f \in disk : Matches(l, f)}

Init ==
    /\ now = 0
    /\ disk = {} /\ created = {}
    /\ at = [r \in Run |-> "idle"]
    /\ mine = [r \in Run |-> NoFile]
    /\ keep = [r \in Run |-> 0]
    /\ doomed = [r \in Run |-> {}]
    /\ known = [r \in Run |-> {}]

-----------------------------------------------------------------------------
(* A run opens its log, then prunes.                                       *)

\* Sink::open appends to a file that is there and creates one that is not.
Open(r) ==
    /\ at[r] = "idle"
    /\ \E l \in Label, scheme \in Scheme, k \in Keep :
         LET f == [label |-> l, stamp |-> Stamp(scheme, now)]
         IN  /\ disk' = disk \cup {f}
             /\ created' = created \cup {f}
             /\ mine' = [mine EXCEPT ![r] = f]
             /\ keep' = [keep EXCEPT ![r] = k]
             /\ at' = [at EXCEPT ![r] = IF k = 0 THEN "run" ELSE "scan"]
    /\ UNCHANGED <<now, doomed, known>>

\* The oldest of the label's files, as many as there are too many.
Excess(r) ==
    LET l == mine[r].label
    IN  {f \in Ours(l) :
           Cardinality({g \in Ours(l) : Before(l, g, f)}) < Cardinality(Ours(l)) - keep[r]}

Mut_NewestDoomed(r) ==
    LET l == mine[r].label
    IN  {f \in Ours(l) :
           Cardinality({g \in Ours(l) : Before(l, f, g)}) < Cardinality(Ours(l)) - keep[r]}
        \ {mine[r]}

Mut_OwnDoomed(r) == Excess(r)

\* Less the file this run is writing.
Doomed(r) == Excess(r) \ {mine[r]}

Scan(r) ==
    /\ at[r] = "scan"
    /\ doomed' = [doomed EXCEPT ![r] = Doomed(r)]
    /\ at' = [at EXCEPT ![r] = "prune"]
    /\ UNCHANGED <<now, disk, created, mine, keep, known>>

\* read_dir failed: a warning, and the run goes on.
ScanFails(r) ==
    /\ at[r] = "scan"
    /\ at' = [at EXCEPT ![r] = "run"]
    /\ UNCHANGED <<now, disk, created, mine, keep, doomed, known>>

\* remove_file, which may fail; the file may be gone already, too.
Remove(r) ==
    /\ at[r] = "prune"
    /\ \E f \in doomed[r] :
         /\ doomed' = [doomed EXCEPT ![r] = @ \ {f}]
         /\ disk' \in {disk, disk \ {f}}
    /\ UNCHANGED <<now, created, at, mine, keep, known>>

Pruned(r) ==
    /\ at[r] = "prune"
    /\ doomed[r] = {}
    /\ at' = [at EXCEPT ![r] = "run"]
    /\ UNCHANGED <<now, disk, created, mine, keep, doomed, known>>

-----------------------------------------------------------------------------
(* deemo logs <LABEL>                                                      *)

Mut_LatestFirst(l, f) == \A g \in Ours(l) \ {f} : Before(l, f, g)

\* The greatest name is the newest run.
IsLatest(l, f) == \A g \in Ours(l) \ {f} : Before(l, g, f)

Mut_LookExact(r) ==
    /\ at[r] = "idle"
    /\ \E l \in Label :
         /\ mine' = [mine EXCEPT ![r] = [label |-> l, stamp |-> Stamp("off", now)]]
         /\ at' = [at EXCEPT ![r] = "show"]
    /\ known' = [known EXCEPT ![r] = created]
    /\ UNCHANGED <<now, disk, created, keep, doomed>>

Look(r) ==
    /\ at[r] = "idle"
    /\ \E l \in Label :
         \/ /\ Ours(l) = {}
            /\ at' = [at EXCEPT ![r] = "nolog"]
            /\ mine' = mine
         \/ \E f \in Ours(l) :
              /\ IsLatest(l, f)
              /\ at' = [at EXCEPT ![r] = "show"]
              /\ mine' = [mine EXCEPT ![r] = f]
    /\ known' = [known EXCEPT ![r] = created]
    /\ UNCHANGED <<now, disk, created, keep, doomed>>

\* show_log opens the file, if it is still there.
Show(r) ==
    /\ at[r] = "show"
    /\ at' = [at EXCEPT ![r] = IF mine[r] \in disk THEN "shown" ELSE "missing"]
    /\ UNCHANGED <<now, disk, created, mine, keep, doomed, known>>

-----------------------------------------------------------------------------
\* The invocation is over, or killed: it may be at any step.
End(r) ==
    /\ at[r] # "idle"
    /\ at' = [at EXCEPT ![r] = "idle"]
    /\ mine' = [mine EXCEPT ![r] = NoFile]
    /\ keep' = [keep EXCEPT ![r] = 0]
    /\ doomed' = [doomed EXCEPT ![r] = {}]
    /\ known' = [known EXCEPT ![r] = {}]
    /\ UNCHANGED <<now, disk, created>>

Tick ==
    /\ now' \in 0..Horizon
    /\ now' = now + 1 \/ (Slips /\ now' < now)
    /\ UNCHANGED <<disk, created, at, mine, keep, doomed, known>>

Next ==
    \/ \E r \in Run :
         \/ Open(r) \/ Scan(r) \/ ScanFails(r) \/ Remove(r) \/ Pruned(r)
         \/ Look(r) \/ Show(r) \/ End(r)
    \/ Tick

Spec == Init /\ [][Next]_vars

-----------------------------------------------------------------------------
(* Properties.                                                             *)

\* What is on disk was opened by a run, and every invocation deals with such
\* files only.
TypeOK ==
    /\ now \in 0..Horizon
    /\ created \in SUBSET File
    /\ disk \in SUBSET created
    /\ at \in [Run -> {"idle", "scan", "prune", "run", "show", "shown", "missing", "nolog"}]
    /\ mine \in [Run -> created \cup {NoFile}]
    /\ keep \in [Run -> Keep \cup {0}]
    /\ doomed \in [Run -> SUBSET created]
    /\ known \in [Run -> SUBSET created]

Newer(f) == {g \in created : g.label = f.label /\ g.stamp > f.stamp}

\* Among the newest of its label, by every --keep in use.
Newest(f) == \A k \in Keep \ {0} : Cardinality(Newer(f)) < k

\* However the prunes of concurrent runs overlap, each from a listing of its
\* own, and wherever they stop, the newest logs of a label stay: as many as the
\* least --keep in use (sink.rs:102-134).
NewestKept == \A f \in created : Newest(f) => f \in disk

\* The log a run is writing disappears only under the prune of another run of
\* the same label, never under its own, not even where it does not sort last
\* (sink.rs:126-128).
OwnLogStays ==
    [][\A r \in Run :
         at[r] \in {"scan", "prune", "run"} /\ mine[r] \in disk \ disk' =>
           \E s \in Run \ {r} :
             mine[s].label = mine[r].label /\ mine[r] \in doomed[s]]_vars

\* logs misses the file it chose only if a newer one has been opened since it
\* looked, so that trying again shows something newer (sink.rs:137-159).
MissesOnlyTheOutdated ==
    \A r \in Run : at[r] = "missing" => Newer(mine[r]) \ known[r] # {}

-----------------------------------------------------------------------------
(* Why, where no label is another one, a dash and a word.                  *)

\* What a prune is about to remove is of the run's label, not its own log, and
\* has been overtaken by enough others; so has it ever after.
PruneInv ==
    \A r \in Run :
      /\ at[r] = "scan" => keep[r] \in Keep \ {0}
      /\ at[r] # "prune" => doomed[r] = {}
      /\ \A f \in doomed[r] : ~Newest(f) /\ f.label = mine[r].label /\ f # mine[r]

\* What `logs` chose was the newest there had ever been, because that one is kept.
LookInv ==
    \A r \in Run : at[r] \in {"show", "missing"} =>
      mine[r] \in created /\ Newer(mine[r]) \cap known[r] = {}

\* Every label that has files has a newest one.
Tops ==
    \A f \in created : \E g \in created :
      g.label = f.label /\ g.stamp >= f.stamp /\ Newer(g) = {}

\* What concurrent prunes and lookups leave to each other, whatever each has listed
\* (sink.rs:102-159).
LogsInv ==
    /\ TypeOK /\ IsFiniteSet(created) /\ Tops
    /\ NewestKept /\ PruneInv
    /\ LookInv /\ MissesOnlyTheOutdated

-----------------------------------------------------------------------------
(* Statements of the documentation that the code does not keep.            *)

\* DESIGN.md:77: files of another label are ignored.
ForeignLogsStay ==
    \A r \in Run, f \in File : f \in doomed[r] => f.label = mine[r].label
=============================================================================
