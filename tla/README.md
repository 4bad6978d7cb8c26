# A model of RAMPP

RAMPP is a Windows tray program that runs Apache, MySQL and PHP for a
developer: it gives each a port, writes its configuration files, starts it,
watches its health, retries it after a crash and stops it. This directory
models how it does so in TLA+, checks the model with TLC on small instances and
proves what it can of it with TLAPS. Paths below are relative to the repository.

## The system

| Part | State | Operations | Code |
|---|---|---|---|
| Reducer | `AppState`: per service state, desired state, retry count, last error, health streak, start time; the port ledger; configuration; phpMyAdmin switch | one handler per `Event`, returns `SideEffect`s | `src/reducer.rs`, `src/state.rs`, `src/events.rs` |
| Port ledger | per service: assigned port, ports found unusable, attempt token | `assign`, `release`, `begin_attempt`, `allocate_port` | `src/state.rs`, `src/reducer.rs` |
| Executor | a handle per service (watcher, kill channel, health checker), its own copy of the configuration | one function per `SideEffect` | `src/executor.rs` |
| Threads of the executor | one watcher per process, readiness pollers, health checkers, retry timers | each answers with events | `src/executor.rs`, `src/health.rs`, `src/process.rs` |
| Event loop | debounce table, the application state | receive, reduce, start health checks, execute, copy the state for the window; shutdown | `src/main.rs` |
| Channel, mutex, shutdown channel | 256 events; the state the window shows; "all processes are dead" | send and receive, lock, wait with a time limit | `src/main.rs`, `src/ui.rs` |
| Provisioning | the managed configuration files | `desired_configs`, `reconcile`, adoption of vendor files | `src/provision.rs` |
| Configuration, persistence | `rampp.toml`, `rampp.state` | validate, write atomically | `src/config.rs` |
| Startup | `rampp.toml`, `rampp.state`, the managed files, the vendor's `httpd.conf` and its backup, MySQL's data directory | a sequence of idempotent steps before the loop, on every launch | `src/main.rs`, `src/provision.rs`, `src/mysql_conf.rs` |
| Window, tray | a copy of the state | send commands | `src/ui.rs`, `src/tray.rs` |
| Template generators, paths, logging | none | text and output | the other files |

Everything meets in one channel. The window, the tray, a one-second tick and
the executor's threads send `Event`s; one thread receives them, calls
`reducer(state, event)` and has the executor carry out the effects before it
receives the next. The executor itself sends events back (`ConfigsReconciled`,
`ProcessSpawnFailed`, ...), which queue behind whatever is already there.

What makes this hard is that a report is always about the past. Between the
moment a thread sends and the moment the reducer sees it, other events are
reduced: the attempt it reports on may have been given up, its port moved, its
service stopped. Readiness reports carry an attempt token for this; exits, bind
failures and spawn failures do not. Next to that come failures half-way through
an effect, timers that cannot be cancelled, a configuration that exists in
three copies (reducer, executor, disk), and a shutdown in the midst of all.

What each part has to get right:

- reducer: no shared port; up only what is wanted; retries bounded between two
  resets of their count; every way out of being up that may leave a process
  behind kills it; every stop is persisted;
- executor and threads: Running only on the service's own process; nothing left
  alive that the reducer calls down; every start and every stop is resolved;
- provisioning: what runs, runs on what is on disk, and that says what the
  window says;
- loop: everything comes to rest where the user wants it; nothing outlives it;
- channel and threads: nobody waits for what waits for it; no handle is
  overwritten while its threads run; the process always ends;
- startup: whatever an earlier launch left half done, no file of the user's and
  no database is lost, and nothing that is missing is kept quiet.

`PROJECT.json` lists the hazards at their lines.

## The modules

| Module | Models | Extends |
|---|---|---|
| `PortLedger` | ports, scan range, `allocate_port`, the attempt token; assumptions on the constants | |
| `Provision` | managed files, `desired_configs`, `reconcile` as operators | `PortLedger` |
| `Reducer` | `reducer`: one action per event; the properties of the state alone | `PortLedger` |
| `Lifecycle` | the abstract life cycle of the README (lines 232-251) and BRIEF.md: states, wish, retry budget | |
| `Executor` | side effects, processes, threads, faults | `Reducer`, `Provision` |
| `EventLoop` | queue, loop, debounce, commands, shutdown, fairness; the properties of the whole | `Executor` |
| `EventChannel` | the bounded channel, the threads and what they wait for, the mutex, the end of the loop and of the process | |
| `Startup` | `main()` up to the loop, launch after launch, and what is on disk between launches | |
| `MCReducer`, `MCEventLoop`, `MCEventChannel`, `MCStartup` | instances for TLC | |
| `ReducerProofs`, `ReducerStepProofs`, `LifecycleProofs` | theorems about `Reducer`: its invariants, its steps, the refinement | `Reducer`, each the one before |
| `EventLoopProofs`, `RecoveryProofs`, `ProcessProofs` | theorems about `EventLoop`: its types and its reducer, what must not be forgotten, processes and the phpMyAdmin switch | `EventLoop` and `ReducerStepProofs`, each the one before |
| `EventChannelProofs`, `StartupProofs` | theorems about `EventChannel` and `Startup` | |

**Reducer.** A variable per field of `ServiceStatus`, `PortSlot` and the rest of
`AppState`; `last_error` and `started_at` keep only whether they are set.
`effects` is the vector the last call returned, without `LogEvent`. An action is
a disjunction over the arms of its match; an ignored event is `ignored`. In this
module events come in any order and with any payload, so what holds here holds
whatever the rest of the program does.

**Lifecycle** is implemented by the reducer (`ImplementsLifecycle`) under
`wanted <- desired` and `budget <- MAX_RETRIES - retry_count`: a crash costs one
unit, and only a start by the user, a completed restart or a successful start
gives the budget back.

**Executor.** `execute` carries out the next effect of `effects`. Effects that
send several events (`do_spawn`, `do_toggle_phpmyadmin`) run in stages, because
other threads send in between. A handle is a record; its watcher is `live`
until it has reported, then `gone`. `born`, `conf` and the field `of` of an
event are history: the code has no such value and no guard of the model reads
them. Killing a live process puts its exit into the channel before the effect
ends, as the join in `do_kill` guarantees; without a handle the exit is made up.

The operating system appears as its outcomes. The normal one is free, the
others are *faults*: an instance names the kinds it looks at (`Faults`) and how
many happen (`MaxFaults`).

**EventLoop.** `HandleEvent` takes the head of the queue and does what the body
of the loop does up to `execute`. `DropCommand` is the debounce: time is not
modelled, so any repetition of a command may be dropped. Commands come at any
time, since the window enables its buttons by a copy of the state that may be
old. After `ShutdownAll` the loop executes, joins, and ends. `LoopInit` is what
`main()` hands over: the wishes it read are in `rampp.state`, which it wrote
(`main.rs:131`) before it dropped the wish for a MySQL it could not provision
(`main.rs:211-217`), so the file may still have that one.

**EventChannel** is the same program seen from the other side: what events say
is left to `EventLoop`, and what counts is who waits for whom. `plan` is what the
loop has yet to do before it receives again, as the operations in it that wait or
that another thread can see: a send to itself, a join, a lock. It is built by
operators with the names of the executor's functions. An event may have any
effect. The threads of a handle are its `checker` and its `watcher`; all other
senders (tick, tray, pollers, timers) are `Sources`, which nobody joins. `leaked`
is history.

**Startup** has a variable per file and `pc` for the step of `main()` that comes
next. A managed file is who wrote it and what it says. Every step may fail in
the ways its code can (`Faults`). A launch that gets to the loop ends in one of
two ways. `Close` is the window or the tray: `ShutdownAll` sets every desired
state to Stopped and saves that. `Kill` ends the process at any point and
leaves what was being written in any state the code does not exclude: a file
written by `atomic_write` is old or new, the backup written by `fs::write` may
be torn, the data directory half cleared or half initialised. Of the loop the
two effects stay that rewrite these files: `do_persist` (in `SaveWish` and
`Close`) and `do_reconcile` (`BeginReconcile`). The user edits and deletes files between
launches. `wish`, `foreign` and `mishaps` are history: what the user last asked
for, whose `httpd.conf` is owed to whom, and what has gone wrong so far.

## The runs

| Run | Instance | Shows |
|---|---|---|
| `reducer` | Apache and PHP with overlapping scan ranges of two ports at 65534/65535, two configurations that swap them, one retry, two health failures, a token of two values | type and safety invariants of the reducer, four action properties, `ImplementsLifecycle` |
| `loop_one` | MySQL, provisioned or in Error; two faults of exit, slow, unhealthy, foreign server; two commands, also a shutdown | `DownMeansDead`, `KillFindsPort`, `CrashedIsRetried`, `WishIsSaved`, `ShutdownIsClean` |
| `loop_two` | two services, Apache on the last port; one fault of exit, busy port; two commands | `LoopTypeOK`, `ConfigsApplied` |
| `loop_switch` | Apache with phpMyAdmin, two document roots; one fault of exit, busy port, directory; two commands | `SwitchIsHonest`, `SpawnsFollowConfig` |
| `loop_live` | one service under fairness; two faults of busy port, failed spawn, failed write, foreign server, exit; two commands | `RunningHasHandle`, `StartingResolves`, `StoppingResolves`, `WantedIsHonoured` |
| `channel` | MySQL alone, tick thread and tray, a channel of two places, clicks that send one event | `ChannelTypeOK`, `OneOfEach`, `CleanExit`; `LoopReturns`, `ClosingEnds`, `SendersReleased` under fairness |
| `startup` | two services, three launches, one failure of ten kinds, two edits of eight kinds, three secrets | `StartupTypeOK`, `ForeignKept`, `FreshIsAdopted`, `EmptyIsReported`, `WishKept`; `UserFileStays`, `DataKept`, `SecretKept` |
| `half_initialised` | two launches, mysqld fails once | a violation, see below |
| `stuck_in_stopping`, `stale_exit`, `orphan`, `reload` | one service, one or two faults | violations, see below |

Bounds and why they are enough. One retry and one or two health failures are the
smallest numbers at which "granted", "used up" and "below the threshold" all
occur. A scan range of two ports has a free port, a second choice and
exhaustion; at the top of the range it also has the overflow. Two services are
the least that can share a port or a file. `AttemptSpace` is 2 in `reducer`, so
that the token wraps, and 16 in the loop, which no behaviour reaches. Two faults
and two commands allow a fault during the recovery from another and a change of
mind during both. The `CONSTRAINT`s of `MCReducer` keep PHP's failures and
phpMyAdmin's switches from multiplying Apache's history (they are commented
there); those of `MCEventLoop` choose initial states, and in `loop_one`
nobody asks for Apache, which every instance has. One health report per
service is pending at a time, and passes are sent only where they reset a
streak; a tick only where it would find the directory changed. `loop_switch`
leaves out write failures and a second change of the directory: the code does
let the switch and Apache part then (see the hazards). Deadlock is not checked
in the loop's runs: a loop with nothing to do waits.

In `channel`, two places are the fewest at which the channel can be empty, in
between and full; whoever can block with 256 places can block with two, with
fewer sends before it. One service has both threads of a handle, and a second
one would only add another that is joined after it; events without an effect,
with one send and with two are all there. Deadlock is not checked, because the
loop may jam on a full channel and the process ends: `LoopReturns` names the
jam, and `CleanExit` and `ClosingEnds` say how the process ends. In `startup`, three
launches are a first one, one that finds what the first left, and one that
finds what the second made of it; with two edits the user can take a file over
and delete another. One failure and any number of kills. Deadlock is not
checked because launches are bounded.

Every property has a mutant: a definition marked *faulty* next to the real one,
a mistake this code could contain, under which TLC finds the property violated.

**Fairness** (`loop_live`): the loop's thread keeps running, a poller reports, a
timer fires, and a checker of a dead service reports a failure. These are
threads of the operating system that block only on their own sleep and on the
channel. Nothing is assumed of faults, users, exits or passing health checks.

**Fairness** (`channel`): every thread that can take its next step takes it
(weak fairness per thread: loop, window, each checker, watcher and source, and
`main()`'s wait with its time limit). The loop's operations are strongly fair
besides, because it competes with the window for the mutex, which the window
takes once a frame for a copy and gives back; and so is the window's last send,
which competes for room with threads that wait for a timer or the user between
two sends. Nothing is assumed of clicks, of
closing the window or of processes that end by themselves.

### Where the code does not do what it says

- `stuck_in_stopping`: a process fails to bind while a stop is queued before the
  report. The watcher has gone, so the kill makes up no exit, and `PortUnavailable`
  is ignored in Stopping. `executor.rs:579-587` means to rule this out.
- `stale_exit`: a kill's exit is queued behind a start that was already waiting,
  and is taken for a crash of the new process. `executor.rs:359-363` claims that
  the join prevents it; it would with an empty queue.
- `orphan`: a failed spawn is reduced after the next attempt was spawned. The
  service shows Error, then Stopped, and its process lives. It takes a retry or a
  start that enters the queue between the two, as happens when an effect holds up
  the loop for seconds (a graceful MySQL stop). BRIEF.md:289 forbids orphans.
  `PortUnavailable` has the same gap, though `reducer.rs:284-285` says that a late
  report "must not respawn or blacklist anything": it is matched by its port, and
  the next attempt usually gets the same one. The report of an attempt that was
  given up blacklists the port under the new process, and without another free
  port the service shows Error while its process lives. `orphan.cfg` shows this
  too, with the faults `slow` and `port busy`, a scan range of one port on the last
  one (`AtTheTop`) and three commands.
- `reload`: a restart after Reload Config spawns from the executor's old copy of
  the configuration, against README.md:193.
- `half_initialised`: mysqld fails after it has made `ibdata1`. The next launch
  takes the directory for an initialised one: it neither clears and repeats, as
  `mysql_conf.rs:117-118` means to after "a prior failed init", nor shows the
  error again. A kill during the first launch has the same effect.

Two more disagreements are read off the source and the properties, without a run
of their own:

- *An ordinary close restores nothing.* BRIEF.md:236-246 calls the desired state
  "persisted", to be restored on startup. But closing the window sends
  `ShutdownAll` (`ui.rs:196-198`), whose handler sets every desired state to
  Stopped and emits `PersistDesiredState` (`reducer.rs:500-519`), and so the next
  launch finds all of them stopped. Only a kill or a power cut leaves something to
  restore. `Close` models this, and `WishKept` is to be read with it: closing
  counts as the user's wish to stop everything.
- *started_at.* The comments at `state.rs:64` ("cleared on
  Running/Stopped/Error/Crashed", "elapsed startup time") and `state.rs:309`
  ("when a service leaves the Starting state") say that it is cleared on becoming
  Running. `ProcessReady` keeps it on purpose (`reducer.rs:127-131`), two tests
  check that (`reducer.rs:1252-1297`, `tests/reducer_props.rs:154-172`) and the
  window shows it as the uptime of a running service (`ui.rs:242-248`).
  `StartedAtTracksActive` states what code, tests and window agree on; a property
  that followed the two comments would be false after every start.

`loop_one` and `loop_live` leave out the faults that lead to these (failed
spawns and bind failures; bind failures) so that they can show what holds
otherwise. In particular `DownMeansDead` is claimed only where no spawn fails,
and `StoppingResolves` and `WantedIsHonoured` only where no bind fails.

`GivingUpKills` excepts four ways into Error that emit no kill (`GoesUnkilled`):
`ProcessSpawnFailed` and a `PortUnavailable` without another free port, which mean
that there is no process (unless they are late: `orphan`), and `FatalError` and
`PortConflictDetected`, which nothing in the program sends. The kill of the last
retry looks to it like the first of these and is left to `DownMeansDead`, which
covers Error as well. `KillFindsPort` excepts that same kill: giving up releases
the port before it (`reducer.rs:632`), so that MySQL is then not asked to shut down
first. `RetriesBounded` bounds the retries between two resets of their count: a
service that gets ready and dies again is retried for ever, since `ProcessReady`
resets it.

Three conditions belong to what `startup` shows and are written into its
properties. `FreshIsAdopted` is claimed of a first launch that nothing disturbs:
a kill between the write of `rampp.state` (`main.rs:131`) and the adoption
(`main.rs:153`) leaves the vendor's `httpd.conf` in use for good, since the next
launch is no longer a first one. `WishKept`, `SecretKept` and `UserFileStays`
are claimed while `rampp.state` is sound: a reader takes an unreadable file for
an empty one (`config.rs:260`), and the next write replaces it by all-stopped
defaults and a new secret. `WishKept` excepts MySQL after a failed
initialisation, which makes RAMPP forget that MySQL was wanted (`main.rs:217`).
`WishIsSaved` is claimed without `RestartService`, which persists nothing: a
restart queued behind a stop brings up a service that `rampp.state` has as
stopped. It also excepts the wish for a MySQL that could not be provisioned
(`Unprovisioned`), which the file keeps until the next save although it is dropped
in memory.

The jam that `LoopReturns` excepts is real: with a full channel the loop can
wait for room that only it could make, either with a send of its own
(`executor.rs:70`) or by joining a checker that is sending (`executor.rs:394`).
`on_exit` sends before `main()` starts to wait (`ui.rs:197`), so the time limit
does not cover it, and a window closed during a jam stays. The code accepts this
with 256 places.

## What is proved

TLAPS checks every step of what follows, for every set of services, every scan
range, token width, retry bound, threshold, choice of faults and bound, as far
as they meet the assumptions in the modules that declare them: a configuration
gives different, valid ports, as `config.rs` enforces; the channel has room for
an event; there is a service. Further hypotheses are named and stated with the
theorem.

**Reducer** (`ReducerProofs`, `LifecycleProofs`). `TypeCorrect`,
`PortsNeverShared`, `UpMeansWanted`, `StartedAtIsRight`, `RetriesStayBounded`,
`StreakStaysBelow`, `LedgerStaysHeld` are the seven invariants of the run
`reducer`, and `ReducerImplementsLifecycle` is the refinement. The invariants
are not inductive one by one: that a crash keeps the retry count in bounds needs
that what is up is wanted, that a port conflict leaves a usable port needs that
the old one was not blacklisted, and that a streak is below the threshold on
becoming ready needs the typing of the counters. `IInv` is their conjunction,
stated per service (`LocalInv`) with the ledger's distinctness on top;
`Inductive` proves it. The argument goes by the helpers the handlers share:
`allocate_port` returns a free port or none, `begin_start` and
`crash_and_retry` preserve `IInv` for the service they are called for, and each
event is a step that changes one service or that stops several at once. The
refinement uses `IInv` and maps each action, service by service, to a step of
`Lifecycle` or to rest.

**Its steps** (`ReducerStepProofs`). `SpawnsMatchLedger`, `GivenUpIsKilled`,
`ErrorsHaveReasons` and `StopsAreSaved` are its four action properties. `GivenUpIsKilled` says that
a step which takes a service out of Starting or Running kills it or is one of the
four in `GoesUnkilled`. Each
step is shown to keep six promises to each service (`Right`: what it kills,
reports, persists and checks, where it may move it, and when it retries) and two
about the list of effects as a whole (`SpawnsMatch`, `KillsMatch`); lemmas about
lists put one after the other carry them from the helpers to the handlers. The
modules on the loop need the same promises again.

**The loop** (`EventLoopProofs`). `LoopReducesOnly`: `EventLoop` implements
`Reducer`'s `Spec`, so whatever the threads send and in whatever order, all that
is said above of the reducer is true of the running program. The invariant is
`LInv`: `IInv`, the types of the effects, the executor and the loop, and above all
that what is in the channel is a `Message`, since a port or a token in an event
becomes one in the state. `LoopIsTyped` follows.

**What must not be forgotten** (`RecoveryProofs`).

- `CrashesAreRetried`, `StartsAreDecided`: without a further hypothesis, so also
  where spawns fail and tokens wrap around. Each follows a promise on its way,
  from the effect by way of a timer or a poller to the event in the channel.
- `WishesAreSaved`, where writes succeed and nobody uses `RestartService`
  (`SavesCanBeTrusted`); the strengthening is that the file holds the wish, or a
  `PersistDesiredState` is still to be carried out, or the wish is the one for
  MySQL that `main()` dropped and nobody has started MySQL since.
- `SpawnsAreConfigured`, where RAMPP owns the files and no configuration is
  reloaded from disk (`ConfigFromWindow`; the run `reload` shows what becomes of
  it otherwise). It needs `CopyKnown`: the executor's copy of the configuration is
  the reducer's, or a `PersistConfig` that makes it so is still to come and
  nothing is spawned before it; and once a spawn has reconciled, the disk says
  what the state says until it launches.

**Processes** (`ProcessProofs`). `DownIsDead`, `KillsFindPorts`,
`ShutdownLeavesNothing`, `RunsOnItsProcess`, `StopsAreFinished` and `ConfigsReachProcesses`, where a spawn
that is asked for succeeds (`SpawnsSucceed`: no failed spawn or write, no port
that is taken). `DownIsDead`, `ShutdownLeavesNothing` and `StopsAreFinished` are
false in general: `orphan` (with a failed spawn or a busy port) and `stuck_in_stopping` are
the counterexamples. Processes still end at any moment, are slow, fail their
checks and are answered for by foreign servers. The invariant `PInv` says of each service who owns its process (a
service that is up, or a kill still to come), who reports its end, that what is
Starting is spawned or about to be, and that what is Running runs on the process
of its attempt and port; and of the list of effects that what is left of it still
fits the state. `CInv`, on top of it, says that a live process runs on what is on
disk or that its restart is on its way, which rests on a spawn being the first
effect of its list.

*Where anything fails.* `RunsOnItsOwn` and `ConfigsReachItsOwn` state
`RunningHasHandle` and `ConfigsApplied` without an assumption on the instance:
spawns and writes may fail and ports be taken, files may be the user's own, and
every command may come. `OInv` says that what is Starting is about to be spawned,
or is doomed (the report that ends its attempt is in the channel, ahead of any
answer that would make it Running), or is on its own process and on the current
configuration or with a restart coming; and that no answer to an earlier attempt
carries the token of one that is about to be spawned. That last part needs
`TokensFresh`: no token is used again while an answer to its earlier use is
outstanding. `TokensStayFresh` derives it for as long as no counter comes to its
end (`NoWrap`; in the code 2^32 - 1 attempts of one service), by an invariant
(`Issued`) that no outstanding answer is ahead of its service's counter.
`OwnWhileTokensLast` puts the three together.

*The switch.* `SwitchesAreHonest` states `SwitchIsHonest` under `SpawnsSucceed`.
It needs the order of events in the channel. `SwitchRight` says that the last
event that sets the switch says what the file on disk says, or that a restart
which makes the file follow is behind it; that the file is not left for Apache
to run on without a restart on its way; and that a directory which is gone either
has been noticed or has a single message of it on its way, with no switch-on
queued behind. Its hypotheses:

- `ReturnsWhenOff`: a removed directory comes back only when RAMPP has noticed
  that it was gone and has switched off. At most one change of the directory, as
  in `loop_switch`, implies it; without it Apache can be left on the old file.
- `TokensFresh`, as above.
- no Reload Config, and that is a real race: a reload tells the reducer that the
  directory is gone without switching off (`reducer.rs`, `ConfigReloaded`), so a
  switch-on that is already queued is believed, and no later tick finds a change.

**Channel and threads** (`EventChannelProofs`). `ChannelIsTyped`,
`HandlesAreKept`, `ExitsAreClean`, for any number of services, sources and
places. `ChanInv` describes the rest of the loop's work: at most one thread is
started in it, and only where the one before is gone or joined earlier in the
list; every thread is gone or joined before the end is announced, and none is
started after; a lock is followed by an unlock; the end is last. Most of the
proof is that the lists are made like that, those of the shutdown for
whatever order the handles come in.

**Startup** (`StartupProofs`). `StartupIsTyped`, `ForeignIsKept`,
`VendorIsAdopted`, `EmptinessIsReported`, `WishIsKept`, `UserFilesStay`,
`DataIsKept`, `SecretIsKept`: all eight properties of the run `startup`, for any
number of launches, failures, kills and edits. `SInv` adds to each what is known
between the steps of a launch: `ForeignInv` that the original is removed only
when the backup is its own; `DataInv` that mysqld only fills an empty
directory, and never without a `my.ini`; `FreshInv` that nobody but the
vendor has written `httpd.conf` before the first save; `AdoptInv` where a launch
that nothing disturbs stands while the vendor's file is in place; `SecretInv`
that the secret in memory, in `rampp.state` and in the generated file is one and
the same;
`WishInv` that a launch has what the file has, and the file what the user wants,
where closing the window is to want everything stopped.

`IInv`, `SInv`, `PInv`, `SwitchRight`, `OInv`, `ChanInv` and the step property
`TokensFresh` were checked by TLC on instances like those of the runs before they
were proved or assumed.

### Only model-checked

Liveness under fairness is beyond the prover: `WantedIsHonoured`, `LoopReturns`,
`ClosingEnds`, `SendersReleased`. The runs that expect a violation show one.
Every invariant and every action property of a passing run is stated by a
theorem. Two theorems leave out faults that the run has: `loop_live` checks
`StoppingResolves` also where spawns and writes fail and a port is busy at the
check before a spawn, and `loop_switch` checks `SwitchIsHonest` also with a busy
port.

## What is not modelled

Time (delays, back-off, debounce windows, timeouts): a timer fires at any
moment, and the grace period of the shutdown is over at any moment. The contents
of files beyond the settings in them. The `.bak` copies `reconcile` makes, which
nothing reads, and the SQL file that grants RAMPP its account. `php.ini`,
`phpmyadmin.conf` and the phpMyAdmin switch during startup (they are in
`Executor`), and `rampp.toml` written by RAMPP (`write_config`, in `Executor`)
between launches. Directories, the health endpoint and the seeded document root.
The probes' protocols, path validation and the Windows API (job objects,
process creation). A poisoned mutex. Drawing and logging. `graceful_shutdown`
appears as a kill: it changes how long one takes and the exit code, which the
reducer only logs; which port it is sent to is `KillFindsPort`. `FatalError` and `PortConflictDetected` are handled by the reducer and are
actions there, but nothing in the program sends them.

## What is left open

`SpawnsSucceed` is stronger than `DownIsDead`, `ShutdownLeavesNothing` and
`StopsAreFinished` need, but not by much: a failed spawn or a busy port
(`orphan`) leaves a process that no stop and no shutdown's effects kill, and a
failed bind leaves a service in Stopping (`stuck_in_stopping`). If the reducer
compared the attempt in `ProcessSpawnFailed`, `PortUnavailable` and `ProcessExit`
as it does in `ProcessReady`, the assumption should be dispensable for the first
two, and `OInv` is the invariant to start from.
`SwitchIsHonest` with write failures is not a promise of the code (see the
hazards), and with a directory that comes and goes it holds only up to
`ReturnsWhenOff`.
