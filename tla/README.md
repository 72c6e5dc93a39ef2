# Verification of DigitDojo Shield

TLA+ specifications of the `shieldd` daemon and the packages under `internal/`,
the TLC configurations that check them on small instances, and theorems about
them that TLAPS checks for every value of the constants.  Everything is
translated from the Go source; `PROJECT.json` maps each definition to the lines
it stands for, lists the hazards of the code at the lines where they bite, and
names the runs, their mutants, the theorems and the findings.

    tlc -workers 2 -config Firewall.cfg MCFirewall      # a run
    tlapm FirewallProofs.tla                            # a module of proofs

## 1. The system

`cmd/shieldd` loads a configuration, builds an `app.Application` and calls its
`Run`, which serves an HTTP API and a sampling loop until a signal or a failure
of the API.  `cmd/shield` is a command-line client of the same packages.

| Part (source) | State it keeps | Operations | Talks to |
|---|---|---|---|
| Firewall controller, registry, nftables backend (`firewall/`) | a mutex, the registered backends; the kernel holds the table | Reconcile, Cleanup, Inspect: snapshot, operate, roll back on failure | `nft`, as a child process per command |
| Lists and their store (`storage/`, `blacklist/`, `whitelist/`) | two in-memory sets, a snapshot file replaced atomically | AddBlacklist, AddWhitelist, RemoveBlacklist, NewState, Save, Load | the file system |
| Configuration manager (`config/manager.go`) | current configuration, history, the file, one backup per version | Update, Reload, Rollback, NewManager | the file system; `applyConfiguration` as a callback under its mutex |
| Detector daemon (`detector/daemon.go`) | running, stopping, the current loop's cancel and done | SetHandlers, Start, Stop, Shutdown; a goroutine per Start | handlers called from the loop |
| Detection engine, sources (`detector/detector.go`) | thresholds; none that changes | Evaluate, Sample | `/proc` |
| Application runtime (`app/app.go`) | configuration, engine, statistics, one run | newApplication, Run, applyConfiguration, handleSample | all of the above, through calls and callbacks |
| API server (`api/api.go`) | the `http.Server`, a rate limiter | StartListener, Shutdown, handlers, event streams | configuration manager, event bus, history, logs |
| Event bus (`events/`), monitor, history | subscribers; attacks and metrics, in a file | Publish, Subscribe; Record, reads | the logger and event streams, in the publisher's goroutine |
| Alerting (`alerts/`) | cooldowns, deliveries, provider health, their state file | Dispatch, Retry, AddProvider, UpdateHealth | HTTP providers, the file system |
| Rate limiter (in `api/api.go`) | a bucket per client, the time of the last sweep | allow | the API's middleware |
| Structured log (`logger/`) | an open file, rotated archives, streams | Write with rotation, Query, Clear, Subscribe, Close | the file system, log streams of the API |
| Audit trail (`audit/`) | an append-only file (nil in the daemon) | Record, Query, Export, Subscribe | the file system |
| Sysctl tuning (`sysctl/`) | original values in a file | Backup, Apply, Restore (not wired in) | `/proc/sys` |
| System inventory, CLI, `config/reload.go`, dashboard, scripts | none the daemon depends on | reads; `install/firewall-cleanup.sh` destroys the table | - |

What is hard about it, and what each part must get right:

* **Firewall.**  A batch may be in the kernel although its command failed; the
  rollback must survive the caller's cancellation; callers, crashes and the
  cleanup script interleave; timeouts are rounded.  The table must at every
  moment be one whole policy that somebody was told, or may have been told, is
  in force.
* **Lists.**  Every system call of a save can fail, and process and host can
  die between any two.  What was acknowledged must survive, and a restart must
  never find a file it refuses.
* **Configuration.**  File, manager and runtime change one after the other and
  each step can fail or be cut off.  What is reported, what runs and what the
  next daemon will find must agree.
* **Detector daemon.**  Starts, stops, shutdowns that give up, and panics of
  the loop interleave.  The flags must tell the truth, and after a shutdown
  nothing may call the handlers.
* **Application.**  Signals and failures come at any moment, with requests,
  event streams and samples in flight.  It must exit, and its log must be
  complete but for what a failing disk or an administrator took from it.
* **Telemetry** (bus, streams, history).  Status, history, log and streams are
  written one after the other, saves fail, queues drop, clients come and go
  during a publication, and the daemon dies during an attack.  They must tell
  one story of the attacks, and the log, whose writes may fail without anybody
  being told, must be wrong only where something is missing.
* **Alerting.**  Dispatches race for a rule's cooldown, which starts before the
  delivery; contexts end before or
  between attempts; saves fail.  A rule must fire once in its cooldown and be
  silent for no other reason; history and health must tell what providers did.
* **Structured log.**  Rotation copies, truncates and prunes, and each can fail
  or be cut off; queries read the file, block by block, while it is rotated; the
  disk fills up in the middle of a line.  An entry that was acknowledged must
  not be lost, a query must show the log once and in order, and archives must
  not outlive the next rotation that succeeds.
* **Rate limiter.**  Buckets are made late, refilled late and forgotten.  A
  client must be answered as if its bucket had always been there, and may be given
  the burst again only if it was silent.
* **Audit trail.**  Clients page through the file by offset, without the lock,
  while records are added and lines are cut off.  Pages must join.

## 2. Modules

| Module | Models | Proofs |
|---|---|---|
| `FirewallRules` | desired states, rendering, the kernel's table, listing and parsing | |
| `Firewall` (`MCFirewall`) | controller, registry and backend over the kernel | `FirewallProofs` |
| `ListRules` | the effect and the conflicts of a mutation | |
| `DurableLists` | **abstract**: what the store promises | |
| `ListStore` (`MCListStore`) | `State` and `FileStore` over a file system | `ListStoreProofs` (with the refinement) |
| `ConfigManager` (`MCConfigManager`) | manager, runtime, file and backups | `ConfigManagerProofs` |
| `DetectorDaemon` (`MCDetectorDaemon`) | the daemon and its loops | `DetectorDaemonProofs` |
| `Telemetry` (`MCTelemetry`) | `handleSample`, the history store, the event bus and its streams | `TelemetryProofs` |
| `Application` (`MCApplication`) | `Run`; **composes** `DetectorDaemon` by `INSTANCE`, with one user, `run` | `ApplicationProofs` |
| `LogFiles` | lines, fragments and archives of the log | |
| `LogManager` | `StructuredLogger` and `Manager` over a file system | |
| `AlertPolicy` | rules, retry policies and their arithmetic, health | |
| `AlertDispatch` | the alert manager and `Retry` | |
| `RateLimits` | the limits and the refill of a bucket | |
| `TokenBuckets` | **abstract**: a bucket per client, forgotten only while the client is silent | |
| `RateLimiter` | `rateLimiter.allow` | `RateLimiterProofs` (with the refinement) |
| `AuditTrail` | the audit manager, and clients that page through its file | |
| `MCServices` | the log, the alert manager, the rate limiter and the audit trail, side by side | `ServicesProofs` (with the refinement) |

### Firewall

`table` is the kernel's table and `now` the clock; `lock` is `Controller.mu`;
`pc`, `op`, `snap`, `prog`, `cancelled` and `result` are the locals of each
caller's `run` (`controller.go:69-145`).  A `Command` is one step of the
operation: resolving the backend, the existence queries of `Snapshot` and
`inspect`, the listing, `nft --check`, `nft --file`, and the same two again in a
rollback.  A command can fail before or after the kernel commits, or because
its context is done.  `FirewallRules` has the pure part: `Normalize`,
`RenderRuleset` (remaining seconds rounded up), `Commit`, `ParseRuleset`, with
half-second ticks so that rounding shows.  `policy` is a history variable: the
policies an administrator may believe in force.

Abstracted: both address families behave alike and are one; the listing and its
parsing are one step; a recovered panic is a failing step; nil contexts, unknown
backend names and invalid addresses return before any state changes.  A batch is
one step, `Commit`, because the kernel makes it one.  An `nft` that outlives the
daemon commits at the moment of the crash or not at all (`Crash`); that it does so
later, into the next life, is left out.  The
backend is taken with enforcement enabled: `NewController` leaves it disabled,
and the daemon never calls `Reconcile`, so that these are properties of the
controller as its tests use it and as it would be enabled.

### ListStore

`mu` and `saver` are `State.mu` and `FileStore.mu`; each thread walks through
create, write, sync, rename and syncDir of `FileStore.Save`, then installs the
lists in memory.  `file` is the snapshot as processes see it, `disk` what the
next boot finds; a renamed file whose data was not synchronised may be torn.
`Boot` is the goroutine of `NewState`.  `DurableLists` says what that amounts to
for a user: a change is visible only once a restart can find nothing else.  The
refinement mapping is `view <- mem`, `may <- {file.lists, disk.lists}`.

Abstracted: an address has one spelling; an invalid one returns at once;
temporaries left by a crash are not counted.  The daemon's own API answers all
three mutations with `ErrEnforcementUnavailable` (`app.go:150-158`); the clients of
the model are those of `State`'s API, as its tests use it.

### ConfigManager

`file` and `backup` are on disk, `running` is `Application.cfg`, `current` and
`history` are the manager's.  A configuration is opaque but for what decides:
`Listener` (what only a restart can change), `Undeliverable` (alert settings
that are refused), and `Damaged` for content that does not load.  `Apply` is the
whole of `applyLocked` up to the backup, with the runtime's side, since it runs
under `Manager.mu`.  `writeAtomically` is one step (a failure leaves the file as
it was); the backups are plain writes and may be torn by a crash, and a torn one
does not load (`Damaged`).  A host that loses power is left out, and with it the
synchronisation of the directory, whose errors the code ignores
(`config/manager.go:206`).  `history.json` is written and never read, and is
left out.

### DetectorDaemon

The code under `Daemon.mu` is one step; cancelling the context and waiting for
`done` come after it was released and are steps of their own.  Loops are
numbered in the order of their starts; `lpc` is where each is in `run`: the
select, a sample, a handler, the deferred function's report of a panic, its
critical section (`End`) and `close(done)`.  The timer of `Shutdown` may expire
at any moment, also when `done` is closed.  A panic of `onError` inside the
deferred function kills the process and is not modelled.

### Application

`phase` follows `Run` line by line: bind, start the detector, start the API,
announce, serve, and the shutdown sequence.  `server` is `api.Server.server`
(`failed` once `Serve` returned and it was forgotten), `req` what each
connection does.  Handlers and samples publish in their own goroutine, a
handler's publications and its return being one step; the logger drops what
comes after `Close`, and it ignores the error of a write that fails
(`structured.go:88`).  `WriteLog` therefore has three outcomes: the event is in
the log; it is in the log and the rotation before it removed the archive with
those before; it is lost.  A request may clear the log as well (`ClearLog`).
`missing`, a history variable, has the kinds of events that are gone for one of
these reasons, and `LifeIsRecorded` is about the events that were given to an
open log.  `net/http` is external: `Shutdown` waits until the connections are
idle.  The refusal of a second `Run`, statistics, history, stream queues and
alerts are left out.

### Telemetry

`status` is `Application.stats.AttackStatus`; `pc` follows `handleSample`:
statistics, `history.Record`, then the events of `agenda` one by one.  `attacks`
and `file` are `Store.attacks` in memory and on disk; a save is one step, for it
renames a temporary file and a process that dies earlier leaves the old one.
`subscribers` and `nextID` are the bus; `Publish` copies the subscribers under
the lock, `Deliver` calls one of them.  An event stream has the identifier of
its subscription and a channel of `Queue` events; what its client has yet to
read of the transitions is kept in `owed`, a history variable.  `log` has the
transitions that the log's file has: a write may fail (`WriteLog`), which nobody
is told, and the file may be emptied by a request or a rotation (`ClearLog`).
`gaps`, a history variable, says after how many entries one is missing, and
`LogTellsTheStatus` asks of the log what a reader may conclude who knows of
these.  Metrics, their retention, payloads and the second built-in subscriber,
which sends runtime errors to the alert services and keeps no state, are left
out.  `Selected`, the sub-sequence of what is in a set, is a recursive function
of its own, so that the proofs can reason about it.

### LogManager

`active` and `archives` are the files, sequences of numbered entries and of
fragments, which are what a write that was cut off leaves; `stable` is the part
of the file that survives the machine, and an archive survives it once the kernel
has written it back, for rotation never synchronises it.  `task` is where the
holder of `Manager.mu` is in `Write`: create the archive, copy, truncate, prune,
append, synchronise, tell the streams.  Each of these may fail, and the daemon or
the machine may go down between any two.  `Query` takes no lock: it reads the
file by its offset (`at`) in blocks that end anywhere, so that a part of a line may
be in its buffer (`ReadPart`, `held`) when the file is emptied.  The offset is then
one of another file (`adrift`): `Land` puts it at any place of any line written
since, since lines are of any length in bytes, and what is there is read as an entry
if it is the beginning of one, joined to the part in the buffer if that makes a line
that parses (`joined`), or skipped.  `AtEnd` is also an offset behind the end of the
file.

Sizes are counted in entries (`MaxSize`), fragments as nothing.  `Remains` is
what a power failure leaves of a file: any number of the lines that were not
written back, the last of them maybe in part, and of a file that was emptied
also the old content.  `excused` holds what the code loses knowingly or cannot
know of: entries that were cleared, that expired with their archive, that follow
a fragment on its line, or whose archive the power failure took.  Filters, the
order and the limit of a query's answer (it keeps the oldest matches and sorts
these) and the logger without a file are left out.

### AlertDispatch

`cooldowns`, `providers`, `health` and `deliveries` are the manager's fields,
`saved` its state file.  Each dispatcher goes through its copy of the rules in
their order (`FireRule`, `SkipRule`; `todo` and `rule` are positions in `Rules`),
and for each provider through `Retry`: an attempt, a
wait, and again, until an answer is final, the attempts are used up or its
context is done (`GiveUp`).  `Wrapped` keeps integers at `Width` bits: a backoff
that overflows makes `rand.Int64N` panic, in a goroutine that does not recover,
which is `Overflow`: the process dies and starts again.  No property forbids it, for
nothing in the package keeps a policy from getting there; what is asked is that
history and health survive it.  The wait itself, the
backoff and the jitter together, may take any time, so that their sum is not
computed.  `Record` is the critical section at the end of `deliver`,
which updates all providers of that identifier, the history and the file.  A
provider whose save failed stays in memory.

A provider is its identifier; transports are the answers they may give; a rule's
threshold is not read by `Dispatch` and is left out with disabled rules.  The key of
a cooldown is the rule: the code's is the rule's identifier followed by the type of
the event (`alerts/manager.go:221`), and that two rules may have the same key where
one identifier begins with the other is left out.  The
daemon makes no `Manager` yet: these are properties of the package as its tests
use it.

### RateLimiter

`allow` is one step under the limiter's mutex: sweep when one is due, find or
make the bucket, refill it, take a token.  A tick refills one unit and a request
costs `Cost` of them, which makes the fractions of the code exact; elapsed time
is monotonic, as Go's is.  `TokenBuckets` has a bucket for every client from the
beginning; a request may forget those of clients that have been `silent` for as long
as `Idle`, which are full again.  The refinement mapping fills in `level` and
`silent` for buckets that are not there.  Limit and burst are what the configuration
says (`api.go:111`), so that `Burst`, the ticks in which a bucket refills, may be
above `Idle`: then a forgotten client gains requests, and the refinement says that
only one which was silent for so long does.  Where `Burst <= Idle`, as with the
values the code falls back to (60 tokens at 30 a second against 600 seconds), a
forgotten bucket was full (`SweepsGiveNothing`).

### AuditTrail

`trail` is the file and `synced` what of it survives the machine; `stage` is
where the holder of `Manager.mu` is in `Record`, which synchronises also after a
write that failed.  `cursor`, `matched` and `page` are the locals of a `Query`,
and `pages` what a client has: it asks for the page at that offset.  `Wanted` is
the filter; `Export` is a first page that is long.  `misled` are the
clients that a power failure made the holders of records that are no more.  The
streams are those of the log and are left out; the daemon makes no audit manager.

In both files, a write that is cut off is cut off before the end of its line's
JSON; that only the newline is missing, and a line parses until the next is
written after it, is left out.

### MCServices

The four share no state and no action: what the log's streams or the API's
middleware do beside them is in their own modules.  A behaviour of the four
together is then one of each, and a property of one is true of it exactly if it
is true of that one alone.  `subject` chooses in `Init` which of them moves, so
that the run's states are the sum of theirs and not the product.

## 3. Runs

All of TLC's runs set `CHECK_DEADLOCK FALSE`, since calls, faults and crashes
are bounded and everybody may simply be done, or the process has returned.

| Run | Checks | Instance | Distinct states |
|---|---|---|---|
| `firewall` | `TypeOK`, `TableMatchesPolicy`, `NoGapNoLockout`, `RollbackSurvivesCancellation`, `OnlyExplainedErrors` | 2 callers, 2 addresses, 4 requests, 2 operations, 2 faults, 1 crash, 1 cleanup script, 5 ticks | 790,274 |
| `firewall_live` | `EveryCallReturns` | 2 callers, 2 operations, 1 fault, 1 crash, 2 ticks | 96,604 |
| `list_store` | `TypeOK`, `RestartNeverRefused`, `AcknowledgedIsDurableWhenSettled`, `ImplementsDurableLists` | 2 clients, 2 addresses, 3 mutations, 2 faults, 2 crashes | 545,595 |
| `list_store_ack` | violation of `AcknowledgedIsDurable` | 2 mutations, 1 fault, 1 crash | |
| `config_manager` | `TypeOK`, `ReportsWhatRuns`, `AcknowledgedIsInForce`, `RollbackFindsTheVersion` | 2 callers, 4 configurations, 3 operations, 1 fault, 1 crash, 1 edit | 527,079 |
| `config_rolled_back` | violation of `RolledBackIsRestored` | 1 update, 1 fault | |
| `detector_daemon` | `TypeOK`, `FlagsTellTheTruth`, `ShutdownIsQuiet`, `StoppingEnds` | 2 users, 5 calls, 1 panic | 53,967 |
| `detector_started` | violation of `StartedIsRunning` | 3 calls | |
| `telemetry` | `TypeOK`, `OneActiveAttackPerKind`, `HistoryMatchesStatus`, `LogTellsTheStatus`, `StreamsMissNothing`, `SavedHistoryStands` | 2 kinds of attacks, 2 samples, 2 streams, channels of 1, 1 fault, 1 crash, 1 other event or clearing | 2,950,998 |
| `application` | `TypeOK`, `CleanShutdownHasTheLastWord`, `LifeIsRecorded`, `EveryRunEnds` | 2 connections, 1 panic | 173,448 |
| `application_drained` | violation of `RequestsAreDrained` | 2 connections | |
| `services`, the log | `TypeOK`, `AcknowledgedIsKept`, `QueriesTellTheLog`, `StreamsFollowTheLog`, `ArchivesAreBounded` | files of 2 entries, 1 archive, 4 entries, 1 query, 1 stream with a channel of 1, 1 fault, 1 crash, 1 clearing | 697,159 |
| `services`, the alerts | `CooldownHolds`, `HistoryIsTrue`, `HealthAgreesWithHistory` | 2 dispatchers, 2 dispatches, 2 rules, 2 providers, 2 attempts, 8 bits, 1 failed save, crash, provider or health check | 428,339 |
| `services`, the limiter | `ImplementsTokenBuckets`, `IdleBucketsGo` | 2 clients, a burst of 5 that is above the idle time of 3, 9 ticks, pauses of up to 3 | 6,997 |
| `services`, the audit trail | `AuditIsATrail` | 4 records of which 3 match, 1 client with pages of 1, 2 mishaps | 8,014 |

Why the bounds are enough.  Both mutexes serialise their users, so that two
callers show every overlap there is: one inside, one arriving, with the second
operation running on what the first left.  The firewall needs two faults for an
operation and its rollback to fail, and five half-second ticks for a ban to be
rendered, expire in the kernel and be listed in its last second.  The list store
needs three mutations for a stale file, its opposite and a repair, and two
crashes for a crash during the recovery from one.  The configuration manager
needs one operation to make a version, one to leave it, and one to go back, with
a restart between.  Five calls let the detector be started twice, stopped and
shut down at once, while a first loop has not ended.  Telemetry's first history
may hold an attack of an earlier life, so that two samples reach a beginning and
an end within a life and across a crash; a channel of one event is full whenever
its client is one event behind.  Four entries in files of two rotate once
and go on; a fault in one rotation and the entry after it show what it leaves.
Two dispatches of one event race for its cooldown, and the second may find it
ended; with 8 bits one provider's first wait overflows and the other's does not.
Nine ticks are three idle times, and a bucket that was drained is forgotten before
it is full.  Four records let a page begin after a line
that was cut off, and the records before and after a crash be on one page each.
The safety properties do not rest on the bounds at all: every invariant, action
property and refinement that a passing run checks is a theorem as well
(section 5).  What rests on them are the three liveness properties.

**Symmetry** is used for callers, clients and (in the list store) addresses,
which the modules treat alike, and in no run that checks liveness.

**Fairness.**  Each run with a liveness property asks for no more than the code
and its runtime give:

* `firewall_live`: a started `nft` returns or is killed when its context ends
  (weak fairness of `Command`); Go's `sync.Mutex` hands over to a waiter that
  starves (strong fairness of `Lock`).
* `detector_daemon`: a goroutine goes on after releasing the mutex, samples and
  handlers return (weak fairness of `Cancel` and `Run`); Go's `select` chooses
  at random among ready cases, so that it does not take the ticker for ever
  (strong fairness of `Cancelled`).
* `application`: weak fairness of `Run` alone, whose waits all have deadlines.
  Nothing is asked of clients, requests, samples or the signal.

## 4. What the runs that fail show

Each is a place where the code does something other than its own words, quoted
in `PROJECT.json` under `findings`.

* `list_store_ack`: `FileStore.Save` fails at the directory sync, after the
  rename.  The mutation is reported as failed and memory keeps the old lists
  while the file has the new ones.  The opposite mutation is then already true
  in memory and acknowledged without a save; a restart undoes it.
* `config_rolled_back`: an update whose backup cannot be written answers
  "configuration was rolled back"; the file is, the runtime and the manager are
  not.
* `detector_started`: `Start` while a stop is in progress answers nil and starts
  nothing.  `running` is tested before `stopping` and the two are cleared
  together, so that the error written for this case cannot occur.
* `application_drained`: when `Serve` fails the server is forgotten before
  `Shutdown` looks for it, so that the requests it had accepted are not drained,
  and no error says so.

`AcknowledgedIsDurableWhenSettled`, `ReportsWhatRuns`, `FlagsTellTheTruth` and
`CleanShutdownHasTheLastWord` are what does hold beside them.

## 5. What is proved

The theorems hold for every value of the constants, in particular any number of
callers, calls, faults, crashes and addresses, from the named assumptions:
`SecondAssumption` (a second has at least one tick), `LimitsAssumption` (limits and
times are positive), `ConfigAssumption`, `CallerAssumption` and
`ThreadAssumption` (no caller is the value that says a mutex is free),
`EnabledAssumption`, `RequestsAssumption`, `RulesAssumption` and `RetryAssumption`
(types: a rule names providers and has a cooldown, a policy allows an attempt and
waits for some time, which `Retry` sees to; integers have a bit and the
history room for one delivery),
`SizeAssumption` (a log file may have an entry, and there is an archive),
`KindsAssumption`, `HistoriesAssumption` and `LogAssumption` (kinds of attacks are
listed once, a history that loads has at most one active attack of each, and the
log is no client's stream), `BoundsAssumption`, `BoundAssumption`,
`QueueAssumption` and `ServicesAssumption` (bounds and capacities are natural
numbers).

* **`FirewallProofs`**: `TypeInvariant`; `MutualExclusion`; `PolicyInForce`
  (`TableMatchesPolicy`); `PacketsFollowPolicy` (`NoGapNoLockout`);
  `CancellationRollsBack`; `ErrorsAreExplained` (`OnlyExplainedErrors`, an action
  property).  That the table shows a policy is not inductive: a
  rollback writes what an earlier step listed.  `PolicyInv` therefore says as
  well that only one caller is inside the mutex, that the snapshot it holds
  shows a policy in force less than a second short, and that the batch about to
  run renders its target or, in a rollback, such a policy.  The lemmas before it
  are about the data: rounding up and truncating loses less than a second
  (`ListingIsClose`), rendering and committing a state gives a table that shows
  it (`RenderShows`, `CommitShows`), parsing gives the state back
  (`ParseShows`), and all of it stays true as time passes (`RendersLater`).
  The explained errors follow from the types, step by step: a caller's failure is
  its own step, never another's (`OthersStay`), and each step that fails without
  a fault is one of those named (`ErrorIsExplained`).
* **`ListStoreProofs`**: `TypeInvariant`; `RestartsLoad`
  (`RestartNeverRefused`); `Implementation` (every step of `ListStore` is one of
  `DurableLists` or leaves its variables alone); `Durability`
  (`AcknowledgedIsDurableWhenSettled`).  `StoreInv` relates the save under way
  to the lists and the file; `Promise` says, for each address without an
  unsettled save, that memory, file and disk agree up to the one mutation in
  doubt.
* **`DetectorDaemonProofs`**: `TypeInvariant`; `FlagsAreRight`
  (`FlagsTellTheTruth`); `ShutdownIsEnd` (`ShutdownIsQuiet`).  `Tracks` is the
  strengthening: loops are numbered by their starts, a closed `done` belongs to
  a loop that is gone, and a user who aims at the current loop has made the
  daemon stop.

* **`ConfigManagerProofs`**: `TypeInvariant`; `ReportsAreTrue`
  (`ReportsWhatRuns`); `AcknowledgementsHold` (`AcknowledgedIsInForce`);
  `RollbacksFindTheVersion` (`RollbackFindsTheVersion`).  These hold only between
  operations, so that the strengthening says what an operation in progress owes:
  `Reported` (runtime, manager and history change together), `InForce` (what was
  running is what a failure puts back, and the file is the candidate unless the
  caller was overtaken), `Versioned` (a version that is not spoilt is in its
  backup, or about to be written there).  `Count` says why there are no more
  versions than calls: each caller on its way to one is pending.
* **`ApplicationProofs`**: `TypeInvariant`; `LastWord`
  (`CleanShutdownHasTheLastWord`); `LivesAreRecorded` (`LifeIsRecorded`);
  `DetectorIsDetectorDaemon`.  The module uses the detector's proofs for one
  user (`D`): each step of the application is a step of the detector or leaves it
  alone, so that its invariant comes for free.  `LoopEnds` then says that after
  the wait no loop runs unless an error was kept, `Connections` that after the
  draining no request does, and `Life` in which phases the log can have been
  given the last event.
* **`RateLimiterProofs`**: `TypeInvariant`; `BucketsAreForgotten`
  (`IdleBucketsGo`); `Implementation` (`ImplementsTokenBuckets`: each request is
  one of `TokenBuckets`, each pause a pause), for any limit and burst;
  `SweepsGiveNothing` (where `Burst <= Idle`, what a sweep forgets is full).
  `Swept` says that at the last sweep no bucket was idle, and that requests do
  not go on for long without one.  The refinement rests on `RefilledAddsUp`, and
  on a forgotten client having been silent.  The `services` run checks both on a
  small instance, under the names of `MCServices`.
* **`TelemetryProofs`**: `Inductive`; `TypeInvariant`; `OneActive_Always`
  (`OneActiveAttackPerKind`); `HistoryIsOfTheStatus` (`HistoryMatchesStatus`);
  `LogIsOfTheStatus` (`LogTellsTheStatus`); `StreamsAreWhole`
  (`StreamsMissNothing`); `SavedHistoryIsKept` (`SavedHistoryStands`, an action
  property).  The properties hold between samples or between publications, so
  that `IInv` says what is true in the middle of one: `LogIsBehind`, that the
  log lacks exactly the transition at the end of the agenda until the logger was
  called, and otherwise says what the status is but for its gaps;
  `OwedIsQueued`, that a stream owes its client what is in its channel and the
  event that is being published, unless it was given it; `Monitored`, that the
  history follows the statistics with one step between; `FileIsBehind`, that the
  file is what memory was.  `Registered` and `Addressed` are why a publication
  that meets a client coming or going gives it each event once: identifiers are
  never used twice.
* **`ServicesProofs`**: `Invariant`, `TypeInvariant`, and for each of the four
  services what its run checks.  The invariant is the conjunction of theirs; a
  step of one leaves the variables of the others alone.
  * The log: `AcknowledgedEntriesAreKept` (`AcknowledgedIsKept`);
    `QueriesAreTrue` (`QueriesTellTheLog`); `StreamsAreTrue`
    (`StreamsFollowTheLog`); `ArchivesStayFew` (`ArchivesAreBounded`).
    `LogFilesAreLined` says that lines are in order and no entry is ahead of the
    one being written; `LogTask` how far a rotation has got, in particular that
    what is about to be truncated is in an archive; `LogKeeps` that what was
    acknowledged is kept twice, for processes and for the next boot; `LogQuery`
    that what a query has found comes before all that is ahead of its place in
    the file, and that what it must still show is there to be read, though the file
    is truncated and written again behind it; `LogJoined` that a line made of two is
    paid for by a truncation that caught the query within a line.
  * The alert manager: `CooldownsHold` (`CooldownHolds`); `TheHistoryIsTrue`
    (`HistoryIsTrue`); `HealthIsTrue` (`HealthAgreesWithHistory`).  `Cooling`
    relates a rule's cooldown to the last time that it fired; `Trying` says
    which attempts of a `Retry` lie behind a dispatcher at each of its steps;
    `Named` that whoever is alerted, or was, is among the providers, so that the
    first of that identifier has a health to keep.  The history is cut from its
    beginning: `Trail` and its lemmas say that this shortens the newest run of
    successes or failures, and what a new delivery does to it.
  * The rate limiter: `BucketsAreForgotten` and `Implementation`, from
    `RateLimiterProofs` by `INSTANCE`.
  * The audit trail: `TrailIsWhole` (`AuditIsATrail`).  `TrailIsLined` and
    `RecordsAreKept` are the file's part.  `Paging` says that a query has counted
    what matches before its cursor, and `PagesJoin` that the pages a client has
    and the one being filled are together the beginning of what it asks for, which
    holds across records that arrive and crashes that do not mislead it.

Where a proof needs induction on numbers or sequences, the theorems of the
library, which take an operator as a parameter, are of no use; `SetInduction` and
`LeastNumber` state it for a set of natural numbers, from the order of these being
well-founded, and the recursive functions of the models (`Selected`, the
folds behind `FlattenSeq`) are reasoned about with these.

Only model-checked: the liveness properties (`EveryCallReturns`, `StoppingEnds`,
`EveryRunEnds`), which are outside what the prover handles.  The symmetry of
callers, clients and addresses is taken from the text of the modules, which treat
them alike; no theorem uses it.

## 6. What is not modelled, and the plan

A daemon that dies in the middle of an update starts on the candidate, which it
may have been about to refuse (`config/manager.go:105`): the file carries no trace
of that, the crash is an action of `ConfigManager`, and no property asks for more.
An attack that ends while the daemon is down is resolved in the history by the
first sample of the next life and announced to nobody; nothing in the
repository says otherwise, and no property asks for it.

Not modelled:

* the detection engine's thresholds and the `/proc` readers, the system inventory,
  the CLI, the dashboard, the scripts other than the cleanup script: stateless, or
  no state the daemon depends on; `config/reload.go`: unused;
* sysctl tuning: nothing calls it, and `Restore` turns every underscore of a
  backup's name into a dot (`sysctl.go`), so that it stops at the first of the
  listed names that has one; there is no sequence of its calls to check;
* the handlers of the API that only read, and the merging of masked secrets in
  `PATCH /config`; metrics and their retention; filters and paging of log queries;
* the data race of `handleSample` with `applyConfiguration` (`app.go:302`): two
  pointers, each replaced whole, where either value does the same in the model.

Traces that nobody reads, such as the temporary file of a save that was cut off
and `history.json`, are left out.

The order of the work was: the firewall boundary, the durable lists, the
configuration, the daemon's life cycle, the application, telemetry, and then the
log, the alert manager, the rate limiter and the audit trail, with the proofs of the
configuration manager, the application and the limiter, and then those of
telemetry and of the four services.  What comes next:

1. Proofs: an abstract history of what each client of an event stream is promised,
   refined by `Telemetry`; the numbers of `firewall` commands after which an
   operation has returned, which is the safety half of `EveryCallReturns`.
2. Secrets in `ConfigManager`'s configurations, with the two reads of
   `PATCH /config` (`api.go:293`).
3. The retention of metrics, once a property asks for it.
