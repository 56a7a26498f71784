# A TLA+ model of Logr

Logr (`github.com/mattermost/logr/v2`) is an asynchronous logging engine. The
application logs through `Logger`; a record goes through a bounded queue to the
goroutine of the engine, which fans it out to the bounded queues of target
hosts, each with a goroutine that formats the record and writes it to a target
(file, TCP socket, syslog, ...). This directory models the parts of it that run
concurrently and the way of a record's data from the arguments of a call to the
lines that targets are given, checks both with TLC on small instances and
proves, with TLAPS and for every instance, the safety of each component, that
the engine implements the specifications of its hosts and of delivery, and that
the conversions of a record's data do what they are meant to.

## Inventory

| Component | State | Operations | Interacts through | What makes it correct |
|---|---|---|---|---|
| `TargetHost` (target.go) | channel `in`, channels `quit` and `done`, flag `shutdown`, counters | `newTargetHost`, `Log`, `start`, `writeRec`, `flush`, `Shutdown` | called by the engine; calls the target, `ReportError` and the `OnTargetQueueFull` handler | nothing is lost silently, the target is closed once and after the last write, flush signals always find their receiver |
| `Logr` (logr.go, logger.go) | channel `in`, `quit`, `done`, flag `shutdown`, list `targetHosts` behind `tmux` | `Log`, `enqueue`, `Flush`, `Shutdown`, `AddTarget`, `RemoveTargets`, `start`, `fanout`, `flush` | channels, `tmux`, flush channels inside records, handlers | order and at-most-once delivery per target, a flush covers what was accepted before it, calls return |
| level cache (levelcache.go, filters) | an array or a `sync.Map` of statuses; filters of the targets | `IsLevelEnabled`, `get`, `put`, `clear`, `CustomFilter.Add` | `tmux` for computing and changing, no lock for reading | the answer is never one that was already obsolete when the question was asked |
| `Tcp` (targets/tcp.go) | `conn`, `monitor`, `shutdown`, a mutex | `Write`, `getConn`, `dial`, `close`, `Shutdown`, `monitor` | goroutines for dialling and monitoring, the read loop of the host, `Shutdown` of the host | reconnects, leaves no connection open, does not block a shutdown, closes no channel twice; it falls short of the second and the third, see the counterexamples `MCTcp_*` |
| metrics (metrics.go, target.go) | `lgr.metrics` behind `metricsMux`, a `done` channel per struct; meters and an updater per host | `SetMetricsCollector`, `stopMetricsUpdater`, `startMetricsUpdater` of the engine and of a host, the counters | `metricsMux`, `done`, the read loop | one updater keeps feeding the collector in force, and ends; a collector that fails does not take the program down |
| configuration (config/config.go) | none of its own | `ConfigureTargets` | `RemoveTargets`, `AddTarget` | replaces the list of targets and leaves none behind that nobody can close |
| loggers and fields (logger.go, sugar.go, stdlogger.go, field.go, fieldapi.go) | the fields of a logger | `Log`, `LogM`, `With`, the styles of `Sugar`, `argsToFields`, `Any`, `LimitString` | the slice of fields that a record shares with its caller | what is logged is what the arguments mean, none lost and none paired wrongly |
| records and formatters (logrec.go, formatter.go, formatters/*.go) | a record, shared by all hosts; a pool of buffers | `prep`, `WithTime`, `Format`, `BorrowBuffer`, `ReleaseBuffer` | records in queues, `fieldsAll` read by several goroutines | every target is given each record whole, once, with its caller, and with keys that differ |
| options, file, writer, syslog and testing targets | values | setters, one call each | called by the above | |

What is hard in this code: handshakes on unbuffered channels between goroutines
that may have given up (flush, dial); `select` with several ready cases; flags
that are tested before a lock is taken; panics that restart a loop in the middle
of an operation; a full queue at any of two stages; a cache read under no lock;
and records whose fields several goroutines read while one writes them.
`PROJECT.json` lists each of these at its line under "hazards".

## Modules

| Module | Models | Notes |
|---|---|---|
| `TargetHost` | target.go | any set of hosts and of goroutines that call `Log` |
| `Delivery` | | abstract specification: what the pipeline promises for each target |
| `Logr` | logr.go, logger.go | extends `TargetHost`; the read loop is the one feeder of the hosts |
| `LevelCache` | levelcache.go, `IsLevelEnabled`, filters | independent of `Logr`, which uses the result of a check |
| `Tcp` | targets/tcp.go | with the read loop and the `Shutdown` of its host |
| `Metrics` | metrics.go, the metrics of target.go | |
| `Fields` | field.go, fieldapi.go, `argsToFields` of sugar.go | operators only |
| `Formatters` | formatter.go, formatters/*.go | operators only, over `Fields` |
| `Records` | logger.go, sugar.go, logrec.go, and `enqueue`, `fanout`, `writeRec` and the pool as far as they touch a record's data | uses `Formatters` |
| `Config` | config/config.go | with `AddTarget`, `RemoveTargets` and `Shutdown` as far as they touch the list |
| `MC*` | | instances for TLC |
| `*_proofs` | | TLAPS proofs about `TargetHost`, `Logr`, `Delivery`, `LevelCache`, `Tcp`, `Metrics`, `Config` and `Records` (with `Fields` and `Formatters`) |

**TargetHost.** Variables `hin`, `hquit`, `hdone`, `hshutdown` are the fields of
a host; `hpc`, `hrec`, `hflush` its goroutine; `fpc`, `fhost`, `frec` the
callers of `Log`. Each channel operation, each test of a flag and each call of
the target is one step, so everything that can happen between two of them does.
A record is its order number, its level and the goroutine that waits for its
flush channel. `MaxTargetQueue` gives each host its capacity. With capacity 0 a
sender needs a receiver in its `select`: the record is in `hin` just between the
two halves of that meeting, and `CanSend`, `QueueBound` and the guard of
`StartQuit` see to it that nothing comes between them. Faults (failing `Init`,
`Write` or formatter, panics, a panicking handler, timeouts) are switched on by
the constant `Faults`.

**Logr.** `MaxQueueSize` is the capacity of `lgr.in`; 0, which the option
allows, makes it unbuffered, and then `CanEnqueue`, `InBound` and the guard of
`StartRecvQuit` do what their counterparts do for a host. A step of the engine
that concerns a host (`host.Log`, `host.Shutdown`, `newTargetHost`) is the
action of `TargetHost` conjoined with the step of the caller. `tmux` is modelled
with the rule of `sync.RWMutex` that a waiting writer keeps new readers out.
`IsLevelEnabled` is its result for the current list. `HasTargets` and the test
of the flag in `FlushWithTimeout` are one step; the comment at `FlushCheck` says
why this hides nothing.

**LevelCache.** `get`, the computation under the read lock, `put`, assignment of
the list and `clear` are separate steps, and the map is cleared entry by entry.
The history variables `pubTargets`, `pubFilter` and `seen` record which answers
were right at some time during a check, and `touched` the levels that were added
to a filter in use, for which the cache makes no promise but `NoFalseEnable`.

**Tcp.** The assignments of `tcp.conn` and `tcp.monitor` by the dialling
goroutine are separate steps that do not take the mutex, as in the code. The
network may refuse, break, hang, send data, or be down for good. The history
variable `stray` holds the connections that `dial` left open when it returned
an error of the handshake or of the certificate (tcp.go:131-142). The code
keeps no reference to them; `ConnectionsOwned` names them as the one kind of
connection without an owner, and the run `tcp_failed_handshake` shows the leak.

**Metrics.** A `metrics` struct, its channel and its updater share a name.
Critical sections of `metricsMux` are atomic. A collector is the set of meters
it fails to provide: the engine ignores its errors, keeps a nil meter and meets
it later, in the read loop, which recovers, or in an updater, which does not. A
host asks the collector in force once, when it is made.

**Fields, Formatters.** A text is a name, a length and the number of dots behind
it; a key is a number of underscores and a base; a line is a sequence of
entries, each a part of the record, a key and a text. That is enough to tell a
value from another, a shortened one from a whole one and one shortened twice,
and to see two equal keys. Which conversions fail and which panic is kept
(`ValueString`, `EncodePanics`, `FormatResult`), layout is not. A value may have
a marshaller of its own for JSON, as an object or an array of gojay
(`OwnMarshaller`); `encodeField` looks for it before it looks at the type of the
field, so such a value is neither shortened nor rendered by `ValueString`, and
its marshaller may panic. The `LimitedStringer` that `enqueue` puts around a
`Stringer` hides it, and an argument that is itself a `Field` has none.

**Records.** One call of the application, the read loop of the engine and the
read loops of the hosts. A scenario says which call, with which arguments,
logger and options, and which hosts there are. `enqueue` shortens the fields in
place, one step per field, in the slice of the caller; with `LogM` that slice
belongs to several records, so `prep` copies fields of one while the next is
being shortened. A field is copied in one step although Go may tear the copy:
the comment at `PrepCopy` says why that makes no difference. `fieldsAll` is
shared by the hosts, hence the steps of a `FieldSorter` that sorts in place. A
buffer is taken from the pool or made, and comes back unless it is too large.
Two goroutines that log one slice at a time are excluded. The properties say
what a call means independently of the conversion: `Heads` characterises the
arguments at which a field begins as a set, `AllMeant` gives the records, and
`Orders` the bijections of fields and entries that are sorted. A part of a
sequence is taken by the places of its elements (`InOrder`, `ElementsAt`), and a
sorter is modelled by what it returns: each field stands behind those that come
before it (`Before`, `Sorted`). What keys are without their underscores is the
constant `Bases`, in the order of strings.

**Config.** An entry of a configuration is what `newTarget` and `newFormatter`
tell apart: the type, and whether its JSON is absent, malformed, refused or
accepted. A target is known by the call that made it, so the properties can say
whose targets a list holds. `RemoveTargets` reports an error for a host in the
list that is shut down already, and the call of `ConfigureTargets` then fails
without a look at its entries. The history variable `late` records the targets that
were on their way into the list when `Shutdown` emptied it.

## Runs

Passing runs:

| Run | Checks | Shows |
|---|---|---|
| `host` | `HostTypeOK`, `ClosedOnce`, `SilentAfterClose`, `FlushHandshake`, `NothingVanishes`, `ShutdownCompletes` | one host, with a queue of two records or an unbuffered one, two feeders, all faults; a shutdown ends without the help of its context |
| `logr_flush` | `FedHostAlive`, `FlushDelivers`, `ShutdownCloses` | log, flush and shutdown against add and remove, failing `Init`; the second host is unbuffered |
| `logr_faults` | `LogrTypeOK`, `LoggedCounted`, refinements `DeliverySpec` and `HostSpec` | log, flush and shutdown with every fault, through an unbuffered `lgr.in`; the theorems say the same of a buffered one |
| `logr_live` | `CallsReturn` | log, flush, shutdown and remove by two goroutines, without timeouts: no deadlock among queues, `tmux` and flush channels but for the calls that `Abandoned` names |
| `cache` | `CacheTypeOK`, `Coherent`, `FreshAnswer`, `NoFalseEnable`, `OnlyLastPanics` | both caches, and filters that change |
| `tcp` | `TcpTypeOK`, `NoDoubleClose`, `ConnectionsOwned`, `WriteEnds`, `TcpShutdownEnds`, `WriterReleased` | reconnecting and shutting down with TLS and every fault: who closes each connection, and that only failed handshakes leave one that nobody does; a network that stops failing, or a server that is down for good; a handshake that hangs is the exception `Hung` |
| `config` | `ConfigTypeOK`, `NoOrphan`, `OldTargetsClosed`, `ListedAreOpen`, `SuccessIsComplete`, `OnlyLateTargetsLeft` | overlapping and failing calls of `ConfigureTargets`, and `Shutdown`: what stays open after it is what an `AddTarget` under way at the time added |
| `metrics` | `MetricsTypeOK`, `DoneClosedOnce`, `DeathExplained`, `KeepsPolling`, `HostPolledWhileOpen` | concurrent changes of the collector, collectors that fail, hosts that come and go: the program dies only of a reset or of a meter that an updater or the counter of errors lacks |
| `records` | `RecordsTypeOK`, `OutputFaithful`, `KeysDistinct`, `CallerKnown` | every way to call a logger, every formatter, colliding keys, fields that are too long or cannot be rendered, one slice logged twice for two hosts |

Runs in which a sentence of the code's own documentation fails; "findings" in
`PROJECT.json` quotes each sentence and tells the story:

| Run | Property | What happens |
|---|---|---|
| `flush_timeout` | `FlushEnds` | after a `Flush` that timed out the engine never logs again |
| `tcp_no_deadline` | `ShutdownStopsWrite` | `ConfigureTargets` hangs when a server is down |
| `tcp_failed_handshake` | `ResourcesFreed` | each failed TLS handshake leaves its connection open |

### Further counterexamples

These configurations are kept with the project but are not among its runs; TLC
finds the property of each violated within seconds
(`tlc -config MCConfig_mixed.cfg MCConfig`).

| Configuration | Property | Sentence | What happens |
|---|---|---|---|
| `MCLogr_two_flushes` | `FlushAnswered` | logr.go:287 | the flush record that another flush finds in `lgr.in` is thrown away (logr.go:475), so the second of two flushes is never answered |
| `MCLogr_dropped_flush` | `FlushAnswered` | logr.go:287, README.md:193 | a flush record that `OnTargetQueueFull` drops is waited for, for ever (target.go:170, logr.go:493) |
| `MCLogr_drained` | `EngineDrained` | logr.go:371 | the read loop may take `quit` while `lgr.in` holds records |
| `MCLogr_target_drained` | `DrainedAtClose` | target.go:22, 155 | the read loop of a host may take `quit` while its queue holds records; `RemoveTargets`, which does not flush, loses them although logr.go:201 promises best effort |
| `MCLogr_late_record` | `NothingEnqueuedAfterShutdown` | logr.go:325 | a `Log` that passed the level check enqueues after `Shutdown` |
| `MCLogr_late_target` | `NoTargetAddedAfterShutdown` | logr.go:325 | an `AddTarget` that passed the test of the flag adds a target that nobody closes |
| `MCLevelCache_map_last_level` | `NoPanic` | const.go:14 | the `sync.Map` cache has no entry for `MaxLevelID` |
| `MCLevelCache_filter_reset` | `AddEnables` | filtercustom.go:34, logr.go:231 | a level added to a filter may stay disabled in the cache even when `ResetLevelCache` follows: a check that began before puts its result behind the reset |
| `MCConfig_mixed` | `Replaces` | config.go:40 | the list ends up with targets of two overlapping calls |
| `MCConfig_partial` | `AllOrNothing` | config.go:40 | a call that fails half-way has closed the old targets and leaves some of the new ones |
| `MCTcp_hang` | `ShutdownStopsDial` | tcp.go:73 | a silent TLS server blocks `Tcp.Shutdown` for ever, deadline or not |
| `MCTcp_late_dial` | `ResourcesFreed` | target.go:21 | a dial that outlives `Shutdown` leaves its connection open |
| `MCTcp_peer_data` | `MonitorClosesOnError` | tcp.go:231 | the monitor closes a healthy connection on which the server sends a byte |
| `MCMetrics_leak` | `UpdatersEnd` | metrics.go:114 | an updater outside its `select` when it is stopped never ends |
| `MCMetrics_reset` | `ResetIsSafe` | logr.go:237 | `SetMetricsCollector(nil)` may kill the program: an updater at the top of its loop reads `metrics.done` through nil |
| `MCMetrics_host_leak` | `HostUpdatersEnd` | target.go:271 | the updater of a host whose `Init` failed never ends, for `done` is closed only by the read loop |
| `MCRecords_sorter` | `OutputFaithful` | logrec.go:129 | a `FieldSorter` that sorts in place writes `fieldsAll` while the formatter of another host reads it |
| `MCRecords_float` | `OutputFaithful` | fieldapi.go:68 | `Float` stores every float as `Float32Type`, so that a float64 is rendered with 32 bits |
| `MCRecords_with_time` | `CallerKnown` | logrec.go:90 | the copy `WithTime` makes lacks `fieldsAll` and the caller |
| `MCRecords_with` | `FieldsLimited` | options.go:195 | fields that `With` adds to a logger are not shortened |
| `MCRecords_caller_key` | `NoKeyTwice` | json.go:172 | a field named like the key of the caller makes an object with that key twice |

### What is promised of calls and of Shutdown

`CallsReturn` says that a call of the API comes to its end without the help of a
timeout, or gets to a place described by `Abandoned`, which only a timeout ends:

- it is blocked on the full `lgr.in` (logr.go:279) and the read loop has left: a
  record fills the queue after the flush of `Shutdown`, a second caller has
  passed the level check, and the loop takes `quit`;
- it waits for the answer to its flush record and that record is no longer
  anywhere in the engine (`InService`), because another flush threw it away, or
  the read loop has left.

Both occur in the run `logr_live`, where two goroutines flush, shut down, log
and remove in any overlap. `FlushAnswered`, the sentence of logr.go:287 without
exceptions, fails in `MCLogr_two_flushes` and `MCLogr_dropped_flush`. A queue that
drops is outside of `logr_live`, for it keeps the read loop itself from ever
getting back.

`ShutdownCloses` speaks of the moment `Shutdown` returns: every host made until
then is shut down once, or is in the hands of an `AddTarget` that passed the
test for shutdown before the flag was set. The exception is the one of
`MCLogr_late_target`; `OnlyLateTargetsLeft` in module `Config` says which targets it
leaves open in the end.

### Bounds

- Queues have capacity 1 in the runs of the engine (`MaxQueueSize`,
  `MaxTargetQueue`; 0 for `lgr.in` in `logr_faults` and for the second host of
  `logr_flush`), so that they are full as soon as they hold anything, with two
  records and two flushes at most (`MaxRecords`, `MaxFlushes`). Two records are
  what `CallsReturn` needs: one that fills the queue and one that is blocked
  behind it. The run of one
  host has capacity 2 and four calls (`MaxCalls`), so that a flush finds records
  behind it and a full queue is met; its unbuffered host, where nothing can be
  behind a flush, has two calls. These bound only new calls: every call under
  way and every goroutine can go on to its end, so the bounds cause no deadlock.
- One host where the question is about one pipeline, two where it is about the
  list; two goroutines of the application.
- Levels: two, one of which the first host does not enable. The cache has
  `MaxLevelID = 1` and is asked about the ids 0, 1 and 2: one that both caches
  hold, the last one and one beyond it. Goroutines are symmetric there.
- `Dials` bounds the connections at a time, `MaxFailures` the failures of the
  network, `MaxWrites` the records. The run has one failure of any kind, data
  from the server and a failed handshake among them, besides a server that goes
  down and handshakes that hang; two dials are a connection that breaks or is
  left open and the one after it, while the old monitor still runs. A stray
  connection keeps its dial, so two failures take the third dial of `ThreeDials`;
  with these and without the `PROPERTIES` the invariants hold in the same way
  (891 758 states), and the theorems allow any number. The pause of the TCP target has limits 2
  and 4 in place of 100 and 30000 ms, which lets it grow and reach its cap.
- `Config` has three calls of `ConfigureTargets` by two goroutines, so that an
  old configuration is replaced by two overlapping calls; configurations of up
  to two entries that succeed, skip an entry, fail at each place there is, or
  panic.
- `Metrics` has two structs and one host: an updater and its successor, and a
  host that outlives a change of the collector. Collectors provide every meter,
  all but the counter of records, or none.
- `Records` has texts of 1 and 5 bytes and the limits 0 (none) and 2, so that a
  text is below the limit or can be shortened twice; all sequences of up to
  three arguments of five kinds, in which a key, a value and a lone last
  argument meet in every order; one slice logged at two levels for two hosts;
  and for one record every formatter with every option that changes an entry.
- Deadlock checking is off but for `records`, where all work must be done in the
  end: elsewhere the application may stop calling, and a system that has been
  shut down stops.

### Fairness

The Go scheduler runs every goroutine that can run: weak fairness of each
goroutine's steps, including those inside a call of the API; nobody has to make
a call. `sync.Mutex` and `sync.RWMutex` do not starve a waiter, hence strong
fairness of the steps that enter them. The choice of a `select` among ready
cases is never assumed fair. Where a channel is closed before a `select` is
entered and the other case is a new timer, the channel wins; this is the strong
fairness of `UpdaterReturn`, `HostUpdaterReturn` and of the end of a monitor. In
`Tcp` dialling and writing end after their timeouts. Contexts that end, and all
timeouts of the other modules, are faults that may happen, never help that is
relied on.

## Proofs

Every theorem below holds for every value of the constants that satisfies the
assumption of its module: any sets of goroutines, hosts, levels, collectors and
configurations, any capacities (0 included where the code allows it) and any set
of faults. The assumptions, which TLC evaluates for the instances, only say what
the constants are:

| Assumption | Says |
|---|---|
| `HostAssumption` | the capacity of each host is a number, the handler answers drop, block or either, faults are among the known ones, a filter gives each host a set of levels, `nil` is no host, caller or level |
| `LogrAssumption` | the capacity of `lgr.in` is a number; the read loop is the one caller of `host.Log` and not a goroutine of the application; no host is twice in the initial list |
| `CacheAssumption` | level ids are numbers, the last one positive; kinds of cache and of calls are among the known ones; filters answer every level |
| `TcpAssumption` | the pauses are positive numbers, the first not above the cap; `nil` is neither a connection nor the holder of the mutex |
| `MetricsAssumption` | the first struct is one; a collector is the set of meters it lacks |
| `ConfigAssumption` | configurations are functions from names to entries, factories and faults are among the known ones, the default size of a queue is positive |
| `BasesAssumption` | the names of keys are a sequence, the empty one first, and those that the code uses are among them |
| `RecordsAssumption` | the call of a scenario is one of those modelled; its arguments, levels, frames and the fields of the logger are sequences; fields are as fieldapi.go makes them (`IsNew`), strings may be keys, the message is a text; formatters have the options of their kind (`IsFormatter`): Plain and `DefaultFormatter` have no sorter, GELF nothing to disable |

A property that a run checks is rarely inductive. Each module names the parts
of its inductive invariant, has a lemma that the initial states satisfy it, one
that every step keeps it, with a step per action, and derives the theorems. The
invariants were checked with TLC on the instances of the runs first: those of
`Records_proofs` in part on a selection of the scenarios, and with a record's own
`fieldsAll` for the fields that a line is said to show, which the invariant
quantifies over without a bound.

**`TargetHost_proofs`.** `HostTypeCorrect` (`HostTypeOK`) needs `Calling`: a
caller inside `Log` has a host, and a record it was called with.
`ClosedAtMostOnce` and `NoWriteAfterClose` come from `StopInv`, which ties the
flag, `quit`, `done`, the place of the goroutine and that of the call that shuts
down together: `done` is closed only when the goroutine has exited, and the
target has been closed exactly when the one `Shutdown` that passed the flag has
returned. `HandshakeHolds`: a waiting caller has at most one flush record,
queued or being served, in the host it waits for. `AllRecordsAccounted`: each
action moves one record from one term of the balance to another.

**`Logr_proofs`.** `EngineInv` says who holds `tmux` or waits for it (`LockOK`),
what the read loop does where (`LoopKnown`), which hosts are in the list, being
added or being closed (`HostsKnown`, `WalkKnown`), and that a host in the list
that is shut down is being removed by the holder of the lock, or the read loop
is gone or given up (`DeadListed`). From it follow `LogrTypeCorrect`,
`FedHostsAreAlive`, and `EngineImplementsHosts`: whatever the engine does to a
host is what `HostSpec` allows, so that the five theorems about hosts hold of
the engine. `EveryWriteIsCounted` uses one of them: `HandshakeHolds` makes a
flush record the last one in a channel whose only feeder waits, so
`TargetHost.flush`, which does not count what it writes, never finds anything to
write.
`ShutdownClosesAll` proves `ShutdownCloses` from `CloseInv`: one call of `Shutdown`
is past the swap (`OneEnds`), a host that is shut down has been closed or is being
closed by the call that passed its flag (`BeingClosed`, with `StopInv` of the
hosts), whoever goes through the list has closed or kept what it has passed
(`Walked`), and a host that was made is closed, listed or in the hands of an
`AddTarget` (`Held`). A `Shutdown` that meets a host already shut down skips it; that
this host has been closed by then, and is not still being closed, is what the
lock gives: at most one call goes through the list at a time (`OneWalks`). The run
has no context that ends; the theorem has.

**`Delivery_proofs`.** `EngineDeliversInOrder`: the engine implements
`Delivery`, with `out` and `accepted` as the refinement mapping. A write is a
delivery because the record is newer than everything the target has; `OrderInv`
carries this back along the way of the record: it is the oldest in its host's
channel, newer than what that host received before fanout got to it, and
`lgr.in` is in order because a number is given with the send. That no host is
twice in the list (`ListedOnce`) keeps fanout from sending it one record twice.
Faults are allowed without exception. `FlushIsComplete` proves `FlushDelivers`
under `NoLoss`, the hypothesis that nothing is configured to lose records, and
each item of it is there because the code does lose one: `OnTargetQueueFull` may
answer drop (target.go:170), a write or a formatter may fail or panic
(target.go:223-246), a filter or a handler may panic in fanout (logr.go:446), a
send to a host may time out (target.go:177), and with a context that ends
`Shutdown` closes hosts although the read loop is in the middle of a flush.
Everything else may happen: records that `OnQueueFull` drops were never
accepted, hosts may be added and removed, their `Init` may fail. `ReachInv` is
the invariant behind it: a record that was accepted and has left `lgr.in` is
written, in hand, or in the channel of each host that is to get it; a host that
has answered a flush record has written all; and the read loop asks the hosts
one after the other, under the lock.

**`LevelCache_proofs`.** `CacheInv` proves `Coherent`, `FreshAnswer`,
`NoFalseEnable` and `OnlyLastPanics` for both caches. Its parts are the
exclusion of readers and writers of `tmux`; `Pending`, that the status a check
is about to cache is the one the current list gives, for the check holds the
read lock; `Cleared`, that what a writer has cleared stays cleared until it lets
go; and `SeenNow`, that a check under way has seen the answer of the published
list. `ResetLevelCache` and `Shutdown`, which clear without the lock, do no harm
since an absent entry agrees with every list.

**`Tcp_proofs`.** `TcpInv` proves `NoDoubleClose` and `ConnectionsOwned`. The
argument is that one goroutine dials at a time and does so while `getConn` holds
the mutex (`OneDials`, `Waiting`); the only dial that goes on without `getConn`
was left behind after the signal of `Shutdown` (`LeftBehind`), after which
nobody calls `close` again. So the two assignments of tcp.go:98-99 are never
separated by a `close`. `ConnectionsOwned` follows from `Reachable`, that an
open connection is `tcp.conn`, awaited or stray, and `MonitorAlive`, that
`tcp.conn` has a monitor while it is open. `ConnectionsHaveOwner` proves it as it
stands, with the stray connections: it is no promise that reconnecting leaks
nothing.

**`Metrics_proofs`, `Config_proofs`.** `DoneClosedOnce` holds because the closer
of a channel resets the field under `metricsMux`; `DeathExplained` because every
state in which a meter outside of the read loop is fatal was preceded by the
event the history variable records (`Exposure`). `ConfigInv` numbers the calls
(`Numbered`), so that a target is known by who made it (`Fresh`), and follows
the targets a call found (`OldKnown`) and those it made (`Progress`);
`LateKnown` says which were on their way when `Shutdown` set the flag. All six
properties of the run follow.

**`Records_proofs`.** The recursive functions of `Fields` and `Formatters` are
chosen by their equations; that the equations have a solution, and that every
solution has a certain value, is proved by induction. The library's induction
theorems take a predicate, which the provers cannot instantiate, so the module
derives induction over sets from the well-foundedness of `<` on `Nat`
(`LeastNatural`, `Induction`). The results:

- `ShortenedOnce`: shortening a field in place for a second record, or a third,
  changes nothing that is rendered, however many `LimitedStringer`s are wrapped
  around a `Stringer`. This is what makes it harmless that `prep` copies a field
  while `enqueue` shortens the same slice, the claim at `PrepCopy`.
  `ShortenedFits`: what remains is within the limit.
- `CollisionAvoided`: `prefixCollision` ends, for any four names, although a
  name may itself begin with underscores, and yields none of them.
- `ArgsMeant`: `argsToFields`, which goes through its arguments in order, yields
  what `PairFields` and `Heads` say of the arguments as a set, for any number of
  them. The run `records` checks up to three.
- `SortedOrder`: a sorter returns every field once, and none behind one with a
  larger key. The order of keys is a strict total order on whatever names there
  are, so the fields that come before one can be counted.
- `RecordsTypeCorrect`: `RecordsTypeOK`, from `RecordsInv`, in which the records
  that are made and those still on their way together never exceed what the call
  means. The errors that `argsToFields` logs are among them, so this rests on
  `ArgsMeant`.
- `CallerKnownAlways`, `KeysDistinctAlways` and `OutputFaithfulAlways`: what is
  written to the targets is what the call means, for every call, all arguments,
  any number of records, fields, hosts and formatters, and every interleaving.

The last three rest on the inductive invariant `LinesInv`. `RecordsInv` says
where records are, not which; a line, however, is right only if its record was,
when it was formatted, and that was decided by the steps before. So `LinesInv`
adds two parts. `FlowOK` numbers the records of the call (`Tasks`: the members
of `Logged`, each with its slice and whether a stack is captured) and says of
every stage what it holds of the record with that number: the calls still to be
made are the rest of the list; a field in the slice of the caller is as it was
made, or shortened, perhaps for a record that is gone already (`Holds`); in
`enqueue` the fields before `at` are shortened and those behind it may be; a
record in the queue has all of its fields settled (`SettledAll`), so that
nothing that is done to the slice later changes what it renders; `prep` has
copied settled fields only (`Gathers`); and a prepared record is what is meant
(`Prepared`). `LinesOK` says of every host that the records in its queue and
those it wrote are ones its filter lets through, and that the entries in its
buffer and those of a line are what formatting that record yields (`LineOf`).
A line can then be compared with what is meant without looking at states:
a line is built of pieces of different parts, which `Parts` finds again
(`PartsSeven`).

- `CallerKnownAlways` follows from `LinesInv`, because the record was captured
  with a stack if some host needs one, under `KeepsTime`: no formatter replaces
  the time, since the copy that `WithTime` makes has no caller (logrec.go:97).
- `KeysDistinctAlways` needs `SortsCopies`: no JSON formatter sorts in place,
  since two of them may lose one field to another. GELF may, it sorts a slice of
  its own.
- `OutputFaithfulAlways` needs both and `FloatsFit`: a float has no more digits
  than 32 bits keep (field.go:155-160). That nothing is missing at the end is a
  second invariant, `CompleteOK`: a record that a host's filter lets through and
  that can be rendered (`Due`) is, once it went through fanout, in that host's
  queue, in hand or written (`Keeps`), and what the host wrote, has in hand and
  has in its queue follows the order of the call (`InTurn`). That such a record
  is written when it is formatted is `DueFormatted`.

Each of the three hypotheses is needed: `MCRecords_with_time`,
`MCRecords_sorter` and `MCRecords_float` have counterexamples without them. They
are conditions on `Scenarios` alone. All scenarios of the run `records` satisfy
`KeepsTime` and `FloatsFit`, and all but those in which a JSON formatter of the
only host sorts in place satisfy `SortsCopies`.

### Not proved

- Liveness (`ShutdownCompletes`, `CallsReturn`, `WriteEnds`,
  `TcpShutdownEnds`, `WriterReleased`, `KeepsPolling`, `HostPolledWhileOpen`):
  fairness and `ENABLED` are outside the reach of the prover.
- `OutputFaithful` and `KeysDistinct` with a JSON formatter that sorts in place
  and is the only host: the theorems exclude such formatters altogether, the run
  `records` has scenarios with one.
- That a read loop does not stop in the middle of a record: `records` checks for
  deadlocks, which is a matter of `ENABLED`.

## Not modelled

- How text looks: quotes, escapes, colours, padding, time formats, the rendering
  of a value of each type. Formatters are modelled by what they put out and in
  which order.
- Thin code: the setters of options.go, of which only the values matter, and
  these are constants or parts of a scenario; the file, writer, syslog and
  testing targets, which forward to a writer and stand behind `TargetHost` as a
  target that may fail; `RedirectStdLog`, which changes global variables of
  package `log`; `ResolvePackageName`, `IsTimeoutError` and the buffer for tests
  in buffer.go.
- Callbacks of the application that call back into the Logr. They run with
  `tmux` held for reading in two places, so one that adds or removes a target
  waits for itself.
- Time: only that a timer may fire. So the update frequency of the metrics,
  which is not clamped at metrics.go:126, has no counterpart.
- Two goroutines that log the same slice of fields at a time, and nil pointers
  in `Stringer` fields, which the application has to avoid.

## Plan

Done: `TargetHost` for any capacity, `Logr` with `Delivery`, `LevelCache`,
`Tcp`, `Metrics` with hosts and failing collectors, `Config`, and `Fields`,
`Formatters` and `Records`; proofs of all their safety properties.

Next, when the code changes or more is asked of the model:

1. `OutputFaithful` for one host that sorts in place, which needs `FlowOK` to
   follow the permutation that the sorter has reached.
2. Two goroutines that log one slice of fields, as a data race whose outcomes
   are chosen by the scheduler.
3. Callbacks that call back into the Logr, in module `Logr`.
