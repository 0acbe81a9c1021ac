# A formal model of deemo

deemo runs a command in the background, or tees a pipe into a log, and manages
what it left running: `ps`, `stop <LABEL|PID>`, `kill <PORT>`, `logs <LABEL>`.
There is no daemon, no lock and no database. Every invocation is a short-lived
process of its own; all that two of them share is a directory of pid files, a
directory of logs, and the processes of the system. This directory holds TLA+
models of that code, TLC configurations that check them on small instances,
and TLAPS proofs that the safety properties they check hold for instances of
every size. Paths such as `registry.rs:453` mean `src/registry.rs` of the
repository (`main.rs`, `sink.rs`, `port.rs`, `cli.rs` alike), `DESIGN.md` its root.

## Inventory

| Component | Code | State | Operations | Talks to |
|---|---|---|---|---|
| Process table (external) | as used by registry.rs, main.rs | status, group, owner, ports of each pid | fork, setsid, exec of setuid programs, bind, exit, reap; kill, killpg | everybody |
| Registry | registry.rs:19-203, 447-599 | `run/<label>.<pid>.pid` | register, list (scan and probe), sweep_dead, ps | process table; every command |
| stop | registry.rs:205-413 | its selection, what it has handled | select, terminate (SIGTERM, 5 s, SIGKILL, 1 s), unlink | registry, process table |
| kill | registry.rs:415-424, 708-834, port.rs | its plan | look up holders, terminate or signal once, housekeeping | registry, process table |
| detach | main.rs:494-589 | - | spawn with setsid, register, hint | registry, process table, logs |
| pipe --background | main.rs:233-276 | - | fork; child: setsid, register, pump; parent: hint | registry, process table, logs |
| Pipe pump | main.rs:135-231, 284-348, sink.rs:23-74 | slab, log buffer, stdout buffer, flags | read, write, flush, degrade, leave; Ctrl+C | stdin, stdout, stderr, disk |
| Log files | sink.rs:31-199, main.rs:103-133 | `logs/*.log` | open, prune (`--keep`), logs | concurrent runs |
| Foreground | main.rs:350-492, 135-166 | two reader threads, the line channel, two buffers, CHILD_PID, INTERRUPTED | supervise, merge lines, stop or wait for the child, forward SIGINT | child, stdout, stderr, disk |
| Port lookup | port.rs | socket index, hits | tables and /proc walk (Linux), libproc walk and lsof (macOS), netstat (Windows) | kill, every process |
| Pid file text | registry.rs:19-83 | the lines of a file | register writes, parse_entry reads | registry |
| Signal names, ps table, command line | registry.rs:472-706, signal.rs, cli.rs | - | parse, format | - |

What makes each of them correct, and hard:

* **Registry.** A process that runs keeps its pid file, and what is dead
  eventually loses it. Hard because sweeps, stops and registrations of
  several invocations interleave, each from a scan of its own, and because
  any of them can be cut short (nothing installs a handler).
* **stop.** It signals what it was asked to and nobody else, gives SIGTERM its
  grace period, leaves nobody behind, and its exit code is true. Hard because
  groups change while it waits: members fork, leave, exit, change user; the
  leader dies first; corpses answer probes.
* **kill.** The same, where deemo's own daemons are groups and everybody else
  is a single pid, from a plan that ages while earlier targets take seconds.
* **detach, pipe --background.** What is registered leads a group of its own;
  otherwise `killpg` would hit the user's shell.
* **Pump.** What is read is in the log and on stdout before it blocks; no
  failure of one output costs the other; it ends when its writers have closed.
* **Foreground.** The same for two streams: each keeps its order and its lines,
  the exit code is the child's, and Ctrl+C reaches it. Hard because five threads
  and the child, and what the child leaves behind, end in any order.
* **Port lookup.** Who holds the port is found, and nobody else, although sockets
  and processes come and go during the walk.
* **Pid file text.** A file is read while it is written, or after its writer died
  in the middle; its name and its content outlive the process they name.
* **Log files.** The newest logs stay, whatever prunes at the same time.

`PROJECT.json` lists every hazard of this kind with its line and the
properties that would catch it going wrong.

## Modules

```
Processes ── Registry ── Manage ── Launch ── Deemo ─┬─ MCDeemo
 (kernel)    (run dir)  (stop,    (detach,   │      └─ DeemoProofs ── DeemoCommands
                         kill)     pipe -B)  └ INSTANCE Registrations
Outputs ─┬─ Pump ───────┬─ MCPump
         │   └ INST. Tee └─ PumpProofs ──────┐
         ├─ OutputsProofs ───────────────────┤
         └─ Foreground ─┬─ ForegroundProofs ─┘
             └ INST. Tee └─ MCForeground
Logs ─┬─ MCLogs         Ports ─┬─ MCPorts         PidFile ─┬─ MCPidFile
      └─ LogsProofs            └─ PortsProofs              └─ PidFileProofs
```

* **Processes.tla** is not deemo's code but the kernel as deemo uses it. A
  process may fork, call setsid, bind a port and release it again, become
  root's, exit and be reaped whenever it likes. A corpse keeps its pid and its place in its group until
  reaped, and answers kill and killpg. `sig` records what deemo has sent; a
  process that was sent SIGKILL does nothing any more but exit. Ignoring
  SIGTERM and dying of it are both behaviours of `Exit`.
* **Registry.tla**: `files` is the run directory. `List` reads one pid file
  and probes its pid (list, parse_entry, liveness); `Sweep` is sweep_dead,
  one unlink at a time; `Register` is register; `Ps` is ps. `Alive(p)` is
  `kill(p, 0) == 0` and not a zombie.
* **Manage.tla**: `Term`, `Stopped`, `LastProbe`, `Escalate`, `Survived` are
  terminate and wait_gone for one target, where the last probe of the first grace
  period and the SIGKILL after it are two steps; `Victims`, `Refused` and `Gone` are Target::send
  and Target::gone, group and single. `StopBegin`, `Select`, `NextHit`,
  `UnlinkStopped`, `StopEnd` are stop. `KillPlan`, `KillBlind`, `NextHolder`,
  `NextOnce`, `SignalOnce`, `KillEnd`, `Tidy`, `TidyEnd` are kill.
* **Launch.tla**: `Spawn`, `SpawnFails`, `RegisterChild`, `RegisterFails` are
  detach; `ForkPump`, `ForkFails`, `Hint` the parent of pipe --background and
  `PumpSession`, `PumpRegister`, `PumpUnregistered` its child.
* **Deemo.tla** composes them: invocations start, run, are cut short (`Abort`,
  anywhere) and finish, next to pumps and processes. It has the properties. They
  say on their own what a command line asks for (`Means`, `Names`, `MayHit`),
  not with the operators that select targets in Manage.tla.
* **Registrations.tla** is the abstract specification of the run directory: a
  registration is written once, is there as long as its process can be
  signalled, and is dropped at most once. `Promise` in Deemo.tla says that
  Deemo implements it under the mapping `Life`.
* **DeemoProofs.tla** and **DeemoCommands.tla** have the theorems about Deemo.tla:
  the run directory and its refinement; who is signalled, and the exit codes.
  The other components have one proof module each; OutputsProofs.tla has what
  every write to a buffered destination does, for both pumps.
* **Logs.tla**: `Open`, `Scan`, `Remove`, `Pruned` are Sink::open and
  prune_old_logs; `Look` and `Show` are latest_log and show_log. A file name is
  its label and a number that sorts as the code's strings do.
* **Outputs.tla**: what both pumps write to, and the helpers of emit. `Log` and
  `Put` are the two writers with their buffers and errors (log_op,
  stdout_stopped); `Say` is eprintln!, which panics when stderr is gone. stdout
  fails because its reader leaves (EPIPE) or in another way, as a file on a full
  disk or a closed terminal does.
* **Pump.tla**: one action per call in the loop of pump_pipe; `Press` is the
  Ctrl+C handler on its thread.
* **Foreground.tla**: `Announce` to `SetPid` and `Receive` to `Leave` are the main
  thread in supervise, one action per call; `SendLine` and `ReaderEnds` a reader
  thread; `Press` and `Look` the Ctrl+C handler, `Forward` the thread that it
  starts. `StopChild` is `let _ = child.kill()`: a child that runs has SIGKILL
  pending ("killed") until it dies of it, unless it has become another user's
  (`foreign`), as sudo does; then it lives on, and gets no SIGINT either. `ends`
  says who still has the write end of a pipe: the child, or a process it left
  there. A write is `<<stream, number>>` and either ends a line
  or does not.
* **Tee.tla** is the abstract specification of both: there is one order of what
  was heard, and the log and stdout each hold a growing beginning of it. `Tees`
  in both modules says that they implement it; in Pump.tla `heard` is what has
  been read so far, in Foreground.tla what was received.
* **Ports.tla**: `ReadTable` and `TablesRead` are socket_inodes over the four
  tables, `VisitPid`, `ReadFd`, `PidDone` and `WalkDone` pids_with_sockets;
  `CountPids`, `ListPids`, `ListFds`, `SocketInfo` and `ProcsDone`
  libproc_holders, `Lsof` lsof_holders. The list of processes is cut off where
  the room that an earlier call asked for ends, and that of descriptors at 32,768
  (`Crowded` processes may have as many); `skipped` remembers who was left out.
  `Meanwhile` is what processes do between any two of these.
  Manage.tla has all of it as one step, `Holders`; Ports.tla says what that step
  may be relied on for.
* **PidFile.tla**: the run directory one level below Registry.tla. A text is a
  sequence of lines; `CreateFile` and `FillFile` are fs::write, which may stop
  anywhere; `Value` and `Parses` are parse_entry; `ReadFile` a step of list with
  its probe; `RemoveFile` the unlink of sweep_dead and of stop, `Terminated` the
  death that stop waits for. Pids are handed out again.

The last part of a module before its refinement or its documentation's
statements is the inductive invariant of its proofs, conjunct by conjunct.

Operators named `Mut_...` are not part of any model: each is a plausible bug
in the definition after it, used to see that a property can fail.

### Abstractions

* Opening a directory lists it in one step; reading a pid file and probing its
  pid is one step; in Manage.tla the lookup of port holders is one step.
* SIGTERM and the probe that asks whether a refused one is hopeless
  (registry.rs:348) are one step: they ask the kernel the same question.
* Grace periods are not clocks: while the target is there, a wait may end at any
  moment. So a target may be escalated early, never late.
* stop and kill handle the members of a selection in any order; the code's
  order (label, pid, port) is one of them.
* In Deemo.tla a pid is used once; PidFile.tla and Ports.tla hand pids out again.
* Processes of another user never come back to ours. deemo itself belongs to the
  group of `Shell`, as do processes started from the shell. A pump only pumps.
* In Pump.tla one upstream write is one number, in Foreground.tla a stream and a
  number; a short write ends between two of them. A slab may be several.
* Foreground.tla counts a reader's own buffer as part of its pipe. A pipe's read
  never fails. SIGKILL for deemo is left out: nothing is promised about it. The
  250 ms before forwarding are not a clock.
* Ports.tla reads one socket table in one step: that the kernel may give a long
  table in pieces, between which it changes, is left out, as are rows without a
  process (TIME_WAIT). A descriptor is its socket: that its number is used for
  another one within a visit is left out.
* PidFile.tla leaves out `started=`, on which nothing depends, and the signals of
  stop, which are in Manage.tla: a target answers the probe until it exits.

## What the runs check

Runs that must pass, each a minute or two:

| Run | Instance | Shows |
|---|---|---|
| `stop` | 2 invocations, 2 pids and the shell, label `web`, a port; stop, kill, detach | `LiveLeaderRegistered`, `NobodySlipsPastKill`, `StopExitHonest`, `IInv` (which contains `TypeOK` and `SessionLeaders`) |
| `kill` | 1 invocation at a time, 2 ports, a pid that may become root's; kill of two ports, `-s`, a wrong `-s`, `--dry-run`, detach | `KillExitHonest`, `FailureShows`, `ExitInv` (which contains `SignalInv`), `NoBystander`, `NoKillUnasked` |
| `live` | 1 invocation, under `FairSpec`, a label of digits that spells a pid; ps, stop of two labels, detach, pipe -B | `SessionLeaders`, `Promise`, `NoBystander`, `CommandsFinish`, `StopIsFinal` |
| `logs` | 2 runs of one label, all naming schemes, keep 0 and 2, three moments, two days, a clock that may go back | `NewestKept`, `OwnLogStays`, `MissesOnlyTheOutdated`, `LogsInv`, `TypeOK` |
| `pump` | every mode, 3 upstream writes, under `FairSpec` | `Faithful`, `OneSlabAtRisk`, `ExitHonest`, `PumpInv` (which contains `TypeOK`), `Tees`, `Drains`, `Delivered` |
| `foreground` | 2 writes with a log; 1 with `--quiet` and a log; 1 with `--quiet` and Ctrl+C; 1 with a child that may become root's; Ctrl+C next to such a child; one of: stdout fails, the disk fills, the terminal closes; under `FairSpec` | `WholeLines`, `ExitHonest`, `ForegroundInv` (which contains `TypeOK`), `Tees`, `Finishes`, `Delivered`, `Forwarded` |
| `ports` | 3 pids, one of another user, one with a crowded list; a server, a second one on another table, a client and a unix socket; two ports, and one port twice; both backends, a kernel with other structures, tables and a /proc that cannot be read; any 2 events during the walk | `Complete`, `Sound`, `PortsInv` (which contains `TypeOK`) |
| `pidfile` | 2 management commands, a pid handed out twice, 2 labels, commands of one line and one with a line `pid=...` | `ReadRight`, `NotPassedOver`, `LostOnlyToReuse`, `TypeOK` |

Why these bounds are enough for what they look for: two invocations show every
race of two scans, two stops, a stop and a registration; a slot is free again
after `Finish`, so there are any number of invocations, two at a time. Two pids
besides the shell give a leader and a member, or two daemons, or a daemon and a
stranger; each may fork the other, leave, die first or be forked late. Two ports
give one process with both, two with one each, and a free one. With three writes
a slab is one write or several, and another can arrive while it is in hand. Two
writes on two streams are two fragments of one line, a line and a fragment, or
one of each stream. Two events hand a socket over and close it behind, or fork
and exit, between any two steps of a walk. Three pids make a list of two that is
too short for a third, cut off anywhere. A pid handed out twice, to either
label or to a stranger, has the file of its first life left behind, written over,
or torn.

The bounds are `Horizon` for `now` in Logs.tla, `MaxWrites` in Pump.tla,
`writes`, `keys` and `sudo` (and one trouble of the three) in Foreground.tla,
`MaxEvents` in Ports.tla and `Births` in PidFile.tla; everything else is finite
because pids are. No property mentions a bound, but `Delivered` of Foreground.tla
asks for all finished lines at once again and again, which is what it means for
finitely many.

Runs that must fail, each a sentence of the documentation that the code does
not keep:

| Run | Property | What happens |
|---|---|---|
| `orphans` | `FileOutlivesGroup` | The leader of a daemon exits, its children run on: the next ps or stop sweeps the file, and no stop reaches the group again. |
| `stubborn` | `StoppedIsDown` | A daemon becomes root's while stop waits for it: `killpg(pgid, 0)` fails with EPERM, which counts as gone. stop reports it stopped, drops its file and exits 0. |
| `foreign_logs` | `ForeignLogsStay` | Pruning `web` counts and deletes logs of `web-admin`. |
| `pump_terminal` | `OutlivesTerminal` | A detached pump's terminal closes: the eprintln! that reports the failed stdout panics, since stderr is the same terminal. |

Seen while modelling and not given a run of their own. Of stop and kill:

* Whoever cannot be signalled counts as gone, in either form of a target
  (registry.rs:381, 382), which is the run `stubborn`. So the Stubborn return of
  registry.rs:350, which is for EPERM, is never taken: `Hopeless` is false in
  every state. And a daemon that became root's before a command listed it is
  swept like a dead one (registry.rs:116). The exit codes are therefore stated
  with these exceptions: `StopExitHonest` says that what was named cannot be signalled any more,
  `KillExitHonest` that a holder has exited or is another user's.
* A group of unreaped corpses answers `killpg(pgid, 0)` and is reported to have
  survived SIGKILL, although DESIGN.md:46 counts zombies as dead. That includes
  a group that dies between the last probe and SIGKILL.
* A daemon registered after kill's scan and before its lookup is signalled as a
  single pid: its leader goes, its children stay.
* A label of digits makes the hint `stop with: deemo stop 8080` select a pid.
* `kill 80 80` stops the holder, then reports that nothing uses port 80: slot_of
  (port.rs:32) knows only the first place of a port, against the list per
  requested port of port.rs:17-20. `Complete` speaks of the first place.
* There are three ways in which a busy port is reported as free without an error:
  /proc cannot be opened (port.rs:415); more processes are born between libproc's
  two calls than have died (54-68: what has no room is left out); a process has
  more than 32,768 descriptors (137). `Complete` excepts them by name.
* A pid that was handed out again makes stop signal a stranger's group. The
  window is as long as the file stays, across reboots too, not the "short
  window" of registry.rs:111.
* A command with a newline in it writes lines of its own into its pid file
  (registry.rs:47): they may name another pid or label, or, with a `pid=` that
  does not parse, hide the entry. `ReadRight` and `LostOnlyToReuse` except it.
* A socket handed from a process that the walk has still to reach to one it has
  passed is not found; `Complete` promises only who holds it all along.

Of the pumps:

* The parent of pipe -B prints `stop with:` before, or without, the child's
  registration, against main.rs:268 (`HintRegistered` in Deemo.tla states it).
* A detached pump that has just lost its reader skips emit_flush (main.rs:315):
  the slab in hand waits in the log's buffer until there is another one.
* In foreground mode nothing bounds the channel (main.rs:365), against the one
  slab of DESIGN.md:57 and main.rs:141. What is in it is lost to the log when
  stdout fails, since the loop ends at once, against "the line that was read" of
  main.rs:480, and when Ctrl+C is pressed twice. `ExitHonest` says that it is
  lost in no other way.
* When stdout fails and the child has become root's (sudo), `child.kill()` fails
  and its error is discarded (main.rs:416, 421): deemo exits, the child runs on.
* A first Ctrl+C before CHILD_PID is set (main.rs:361) is remembered but never
  forwarded; the second one exits. The forwarder may also probe a pid that has
  been reaped meanwhile (main.rs:153).
* The last line of a stream, if it does not end, is glued to the next one of the
  other stream: `WholeLines` excepts it.

Of the logs: `--keep` counts files and does not ask who is writing, so that a
long-lived daemon may go on writing to a log that a prune has removed; and prune keeps one file too many when the file just opened does not
sort last (sink.rs:127).

### Fairness

`FairSpec` of Deemo.tla assumes that an invocation that has started is scheduled
(weak fairness of `Run(c)`; none of its steps waits for anybody, since both
grace periods end), and that a process that was sent SIGKILL exits. Nothing else
is fair: nobody has to exit of his own accord, be reaped, bind, or run deemo.
`FairSpec` of Pump.tla assumes that the pump is scheduled and that a write to
stdout is not stuck for ever, which is up to its reader. Upstream need not
write, close, or be interrupted. `FairSpec` of Foreground.tla assumes the same of
the main thread, and that each reader, the Ctrl+C handler and the forwarder are
scheduled: threads of one process that nothing blocks. Nothing is asked of the
child, which need not write, close, heed SIGINT or exit, nor of a process it
left. A pump, a foreground run and a lookup end for good, so their runs do not
check deadlock.

## What is proved

Everything here holds for every value of the constants, from the one assumption
that each module states about its own. These are types, and little more:
the shell is a process that never becomes root's (`ProcessAssumption`), no pid
is none (`RegistryAssumption`), a day has a length (`LogsAssumption`), there are
four socket tables and finitely many pids (`PortsAssumption`), a pid is a number a line may hold
(`PidFileAssumption`). The bounds of the runs are constants too, so that the
theorems hold for all of them.

| Module | Theorem | Statement |
|---|---|---|
| DeemoProofs | `Inductive` | `Spec => []IInv` |
| | `TypeCorrect` | `Spec => []TypeOK` |
| | `LiveStaysRegistered` | `Spec => []LiveLeaderRegistered` |
| | `RegisteredLead` | `Spec => []SessionLeaders` |
| | `KeepsPromise` | `Spec => Promise` (implements Registrations.tla) |
| DeemoCommands | `SignalsInductive` | `Spec => []SignalInv` |
| | `NobodySlips` | `Spec => []NobodySlipsPastKill` |
| | `NoBystanderHit` | `Spec => NoBystander` |
| | `KillEscalatesOnly` | `Spec => NoKillUnasked` |
| | `ExitsInductive` | `Spec => []ExitInv` |
| | `StopTellsTheTruth` | `Spec => []StopExitHonest` |
| | `KillTellsTheTruth` | `Spec => []KillExitHonest` |
| | `FailuresShow` | `Spec => FailureShows` |
| PortsProofs | `PortsInductive` | `Spec => []PortsInv` |
| | `PortsTypeCorrect` | `Spec => []TypeOK` |
| | `BusyPortFound` | `Spec => []Complete` |
| | `OnlyHoldersFound` | `Spec => []Sound` |
| LogsProofs | `LogsTypeCorrect` | `Spec => []TypeOK` |
| | `LogsInductive` | `Longer = {}` gives `Spec => []LogsInv` |
| | `NewestNeverPruned` | `Longer = {}` gives `Spec => []NewestKept` |
| | `LogsMissOnlyTheOutdated` | `Longer = {}` gives `Spec => []MissesOnlyTheOutdated` |
| | `OwnLogOutlivesOwnPrune` | `Longer = {}` gives `Spec => OwnLogStays` |
| PidFileProofs | `PidFileInductive` | `Spec => []PidFileInv` |
| | `PidFileTypeCorrect` | `Spec => []TypeOK` |
| | `ReadsAreRight` | `Spec => []ReadRight` |
| | `NobodyPassedOver` | `Spec => []NotPassedOver` |
| | `LostToReuseOnly` | `Spec => LostOnlyToReuse` |
| PumpProofs | `PumpInductive` | `Spec => []PumpInv` |
| | `PumpTypeCorrect` | `Spec => []TypeOK` |
| | `NothingLostOnTheWay` | `Spec => []Faithful` |
| | `AtMostOneSlabLost` | `Spec => []OneSlabAtRisk` |
| | `PumpExitsHonestly` | `Spec => []ExitHonest` |
| | `PumpKeepsTee` | `Spec => Tees` (implements Tee.tla) |
| ForegroundProofs | `ForegroundInductive` | `Spec => []ForegroundInv` |
| | `ForegroundTypeCorrect` | `Spec => []TypeOK` |
| | `LinesStayWhole` | `Spec => []WholeLines` |
| | `ForegroundExitsHonestly` | `Spec => []ExitHonest` |
| | `ForegroundKeepsTee` | `Spec => Tees` (implements Tee.tla) |

### The run directory (DeemoProofs)

`LiveLeaderRegistered` is not inductive: that a file is unlinked only when its
process is dead follows from what the invocation saw earlier. `IInv` adds it:

* `SeenDead`: what a sweep or a stop is about to unlink has been seen dead. It
  stays true because the dead do not come back (`GoneIsDead`), which needs that
  everything an invocation deals with has been born (`TargetsBorn`); otherwise a
  pid just forked could become alive under it.
* `DetachOwns`, `PumpOwns`: who is about to register leads its group and nobody
  else registers it. It stays true because only a pid's first registration
  precedes its death, and because setsid by a leader changes nothing.
* `InStep`: an invocation at a step that uses `cur` has one, and runs the command
  whose step that is.

The proof has one lemma per conjunct, each split by kind of step; `DirectoryStep`
says which steps touch the directory at all, `StepPersists` that births and
deaths are for good. `KeepsPromise` maps a registration to none, live, stale or
dropped (`Life`): a step writes one file, unlinks one pid's, or changes the
processes, never two of these (`DirectoryOrProcess`), so that at most one
registration moves (`OneRegistrationMoves`), and it moves as the abstract one
may (`LifeStep`). SessionLeaders carries that too: two files of one pid would
move at once.

### Signals (DeemoCommands)

The three properties are about a step, or about a group, and need what led there.
`SignalInv` adds to `IInv`: `Asked`, every target of a stop is registered under
something its command line names, and every target of a kill is in its plan; `InCommand`, which commands can be at which step, so
that the step that signals belongs to a request that asks for it (`SelectsMeans`
ties what is selected to what the command line means); `Fresh`, an
invocation starts without targets from the last use of its slot; `ShellApart`,
nobody registers or becomes the leader of the shell's group; `Warned`, SIGTERM
has reached the target before its grace period may end. `NobodySlipsPastKill`
is preserved because a process that has SIGKILL pending can no longer fork, and
nobody joins a group but by fork (`GroupStep`).

### Exit codes (DeemoCommands)

What exit code 0 says is about the whole run of an invocation, so `ExitInv` keeps
its books: `Scanned`, all that was listed is still to be read, found, dead, or
unlinked by somebody; `StopWork`, while stop has nothing to complain of, each
argument is still to be looked at or has selected something, all of which is a
target, and the targets dealt with are unregistered; `KillWork`, the same for
kill, whose targets are down (`Down`) and unregistered one by one at the end;
`OnceWork`, the same for kill -s, whose targets have had the signal (`Reached`).
That a plan is of processes that exist rests on `SocketsOpen`: the dead hold no
ports.
They survive the other invocations because a file that is gone never comes back
(`DirectoryHistory`), and a group with nobody left to signal stays that way
(`GroupStaysDown`): a member would have to be forked by one that can run, and
setsid only leads out of a group. `FailureShows` needs no more than `SignalInv`:
each step keeps the code of its own invocation, or raises it, and only KillPlan
leaves the scan of a kill with a plan.

### Port lookup (PortsProofs)

`Complete` is about the end of a walk in which everything moves. `PortsInv`
follows what is owed (`Owed`: a socket held all along, by a process that may be
looked into, and, on Linux, on a table that can be read next to a /proc that can
be listed), for the one list its port has. On Linux (`WalkOwes`) it is in the
index once its table has been read, and its process is in the answer once it is
passed, for it was there when /proc was opened; while it is looked at, the
socket is in the list of its descriptors. On macOS (`ListOwes`) it is still to be
listed or looked at, or has been seen to be a socket, or was cut off (`skipped`);
if nothing was recognized then, lsof is asked, which looks again and so takes
back what was cut off. `HitsSeen` is for the early end of a visit
(port.rs:439-444): when as many slots have matched as the index has, up to the
last one, nothing is missed. That is `AllPaid`, list by list; `Complete` is the
same for every place on the command line, since a port has a first place
(`LeastPlace`, a well-founded argument). `OnlySeen` gives `Sound`.

### Log files (LogsProofs)

A prune removes, one by one, files from a listing that other runs have outdated.
`PruneInv` says of each doomed file that enough newer ones of its label have
been created, and that never ceases to hold (`OvertakenForGood`): so overlapping
prunes do not add up, though each removes `Excess` from a listing of its own.
That a run never dooms its own log is in it as well. `LookInv` with `Tops` (a
label that has files has a newest one, which is kept) gives what `logs` finds.

`Longer = {}` says that no label is another one, a dash and a word. It is not a
convenience: without it the statements are false, which is the finding
`ForeignLogsStay`, where a prune of `web` counts and deletes the logs of
`web-admin`. `LogsTypeCorrect` does without it.

### Pid file text (PidFileProofs)

`WrittenOnly`: a file holds what one registration of its label and pid wrote, or
a part of it that fs::write may have left (`Parts`). `ReadsRight` concludes from
the lines such a text can have that it does not parse, or says its own label
and pid, unless its command went on in lines of its own; the last line with a
key decides, and that a set of lines has a last one is a well-founded argument
(`MaxIsLast`). `DeadForGood`: what was seen dead is still dead, or its pid has
been handed out again, which each entry's history of births tells apart.
`Followed`: what was registered when an invocation began is still to be read,
or an entry says that it runs.

### The pipe pump (OutputsProofs, PumpProofs)

OutputsProofs is about one write to a writer with a buffer, wherever it is cut
and whatever fails: destination and buffer together are what they were, and a
beginning of what was written (`LogStep`, `PutStep`). PumpProofs adds the
stream. `Faithful` is not inductive, since it says nothing of stdout's buffer
and of the slab in hand; `PumpInv` says exactly where the stream has got to, by
place in the loop: the slab is the end of what was read (`InHand`), file and
buffer of the log have all before it or, from the write on, all of it
(`LogHas`), the same for stdout while passthrough works (`OutHas`), the log's
buffer is empty where the pump may block or leaves in order (`LogFlushed`), and
`Way` says which places are reached in which mode and with which peers. From it
`PumpKeepsTee`: both destinations grow, and are beginnings of what was read.

### Foreground mode (OutputsProofs, ForegroundProofs)

Here the order of what is written is only made while deemo runs, by two readers
and a channel, so that it cannot be given by a formula as in the pump: it is
`heard`, what the main thread has received. `ForegroundInv` has these parts:

* `Streams`: what the readers have passed on is what has been received, and
  then, line by line, the channel. Its witness is a row of marks, how far each
  stream is before each line in the channel; `Receive` drops the first mark
  (`StreamsReceive`), `SendLine` adds one (`StreamsSend`), and the rest leave
  them alone. A line that ends stays a line that ends, since a stream only grows
  and nothing follows its end (`StreamsGoOn`, `LineStaysEnded`). `HeardUpTo` says
  that what has been received are whole lines, each stream in its order; a line
  put behind that keeps it so (`OrderGoesOn`, `LinesGoOn`, `HeardMore`).
* `Begun`: before the readers start there is nothing to read, and no child before
  the spawn. Without it the spawn would open a stream that has already ended.
* `Closed`, `Ending`: a reader that has ended had everything, for good. The loop
  is left in order only when both have and the channel is empty (`LoopOver`);
  otherwise because stdout has failed, and then the child has been killed or is
  another user's. No other way out reports the child's code.
* `LogHas`, `OutHas`: what log and stdout hold of what was received, by place in
  the loop, as in the pump.

`WholeLines` is a beginning of what was received (`BeginningIsWhole`); `ExitHonest`
counts: with an empty channel there is one mark, where both readers have got to,
which is the end of both streams. `ForegroundKeepsTee` is as for the pump.

### Model-checked only

* Liveness, which is out of the prover's reach, as is `ENABLED`: `CommandsFinish`,
  `StopIsFinal`, `Drains`, `Finishes`, both `Delivered` and `Forwarded`.
* The four runs that must fail.

`PidFileInv` and `SignalInv` are proved but not listed in a run of their own:
`SignalInv` is part of `ExitInv`, and of the other one the properties it is for
are checked.

## What is not modelled

The signal table and the ps table, which are lookup and formatting with unit
tests; clap; how libproc's bytes, lsof's and /proc's lines are cut up; netstat
and the Windows variant, where every stop is reported a success and liveness is
unknown; resolve_home; the text that `logs` prints.

## Plan

1. Done: all modules, their runs, and the proofs above, which state every safety
   property that a passing run checks.
2. Left: the tables of signals and of `ps`, and the Windows variant, if they grow
   logic of their own.
