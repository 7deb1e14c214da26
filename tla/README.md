# EnerSentry: TLA+ models, checks and proofs

EnerSentry is a supervisory program for energy-storage sites: it polls Modbus
devices over TCP and RS485, keeps the samples in memory and in monthly SQLite
databases, raises alarms, records black-box snapshots and sends control commands
by select-before-operate. A device simulator with fault injection comes with it.
This directory specifies the parts of it that decide something, model-checks
them on small instances with TLC and proves the central properties with TLAPS
for every value of the constants.

Source paths below are relative to `src/apps/ens_app/src/` unless they say
otherwise. `PROJECT.json` maps every definition to the lines it models.

## 1. The system

### Threads and the way data goes

```
 device <--TCP--> TcpChannel --bytes--> ModbusStreamAccumulator --frames--> ModbusEngine
                      |  connectionChanged                        | responseParsed
                      v  (queued to the main thread)              v
     main thread: EnerSentryApp ----invokeMethod (queued)----> PollDriver (worker thread)
                      |  onConsumeTick (50 ms)                    |
                      |<--------------- SampleBridge (mutex) -----+
                      +--> L1 ring buffers --> BlackBoxManager --> CriticalSwapFile
                      +--> DataBus --> AlarmEngine --> AlarmRecordStore --> alarm_YYYYMM.db
                      |            \-> UI
                      +--> DownSampler / L2HistoryStore --> history_YYYYMM.db
     operator --> UI --> SboStateMachine + DeviceSboGuard --> PollDriver::sendWrite
```

The channel, the engine and the poll driver live on a worker thread; the
application object, the data hub, the alarm engine, the SBO machine and the
widgets live on the main thread. The two threads talk by queued Qt calls and by
the mutex-protected sample bridge; everything inside a thread is serialised by
its event loop.

### Inventory

| Component | State it keeps | Operations | What is hard about it | What makes it correct |
|---|---|---|---|---|
| `SboStateMachine`, `DeviceSboGuard` | state, command, sequence id, three timers, link flag; per register the holder of the selection | submitSelect, submitOperate, submitCancel, onDeviceAck, onLinkStatusChanged, three timeouts | two machines on one register; late operate and late acknowledgement; a timeout racing an answer; link flaps | a register has one holder, exactly while its machine is Armed; nothing stale, doubled or unselected is sent; reports never contradict; every sequence ends |
| `ModbusEngine`, `TransactionIdAllocator` | in-flight table, used ids | writeRequest, onData, onConnectionChanged | answers after a reconnect, silent and garbled answers, a 16-bit id space | an answer completes the request it answers; ids and table agree |
| `PollDriver`, `EnerSentryApp` | polling flag, pending window, segment cursor, tick timer | start/stop polling, tick, response, SBO write | connection changes cross a thread boundary in both directions | samples are decoded as the segment they were asked for; the tick chain survives; every segment is polled |
| `PollScheduler` | three queues per link, counters, slave health | enqueue, dequeueNext, onLinkFree, failure/success, probing | starvation between priorities; stages of the breaker | bounded overtaking; the stage follows the failures |
| `TcpChannel` | socket, flags, delay, timer | open, close, connected, disconnected, error | which errors are retried; a close during an attempt | flag = socket; an open channel keeps trying; the delay doubles to its cap |
| `SerialChannel` | port, one pending write | open, close, asyncWrite, errors | a removed port; a write over a write | no reconnection logic |
| `ModbusStreamAccumulator` | byte ring, hunting counter | append, tryExtractFrame, clear | cut and garbled streams, a buffer that wraps | a complete frame is not held back, and no frame is made of pieces of two |
| `ModbusFrame`, `crc16` | - | build a request, parse a response, TCP and RTU | lengths and offsets per function code | what is parsed is what the device meant |
| `PointTable` and the segments of `EnerSentryApp` | points, three indexes; segments | load, resolve, reassemble, decode; buildSegments, onResponseParsed | gaps, overlaps, widths, byte orders, address 65535, short answers | every enabled point is read by one segment, and what is published is what its registers hold |
| `AlarmRuleLoader` | configuration | load | malformed files | - |
| `AlarmEngine` | per point: pending delays, latch, current id, last raise; storm ring and queue | onSample, onConnectionChanged, reloadRules, suppressPoint | two delays and a hysteresis band; suppression windows; storms; rule changes while latched | sustained excursions are latched, alarms end once, ids are fresh |
| `AlarmRecordStore`, alarm part of `SQLiteDataAccess` | open records by id; one table per month | onAlarmRaised, onAlarmRecovered, ackAlarm | month boundaries, restarts with old rows, events for unknown ids | a row says what the engine knows |
| Alarm centre, `AlarmNotifier`, the dialog of critical alarms | rows, selection, filters, debounce timer; time of the last notice; the one dialog | query, applyRows, confirm, replay, export; notify | the table is filled anew between choice and click; nested event loops of dialogs; one dialog for many alarms; rows of earlier runs under the numbers of this one | only numbers of rows the user saw and selected are confirmed; what is announced comes into the rows and, if critical, on the screen |
| `RingBuffer`, `L1SnapshotStore` | slots, write and published positions, cursors; tables of buffers | push, pushBatch, readRecent, extractRange, evictSlowConsumer; initFromPolicy, write | readers without a lock, wrap-around | a reader never sees an older value than it asked for, and skips only what is lost |
| `DataBus`, `SampleBridge` | subscriptions with handles; bounded queue | subscribe, unsubscribe, broadcast; push, drain | the last entry takes the place of a removed one; views that come and go; overflow | an entry belongs to a view that is alive and has its handle; the oldest sample is dropped |
| `DownSampler`, `L2HistoryStore`, `SQLiteDataAccess` | windows, queue, databases | feed, rollUp, enqueueSample, flush, batchInsert, queryRange | late samples, month boundaries, failing batches, a crash between two months | nothing is counted twice, nothing is lost without a report, queries are exact |
| `BlackBoxManager`, `CriticalSwapFile` | slots in a mapped file | triggerBlackBox, appendSnapshot, parsePendingSnapshots | a crash between two stores; a full file | a snapshot written survives, at most one is torn |
| Overview | optional values per rack, drill-down, what is shown | onSample, refresh timer, clicks | means over racks that have not reported; a static counter | what was broadcast comes to the screen |
| Chart (`RealtimeChartWidget`, `RealtimePlotWidget`) | channels with buffers, graphs, timer, ruler | sample, repaint, show, hide, axis, read-out | a page that is hidden while its buffers fill; thinning | what was received is drawn |
| `BusinessStateMachine` | states of station, devices, points | registration and transitions | the hierarchy of the three | - (not connected to the application) |
| `AuthManager` and its dialogs | users, session, failure counters, `users.json`; which window is open | login, forced change, lock, unlock, idle timer, user management | a session that outlives changes to its user; lock-outs that expire | a session belongs to a user and has its role; attempts are limited; an idle session is locked |
| Simulator: `FaultInjector` | sessions, override table | inject, recover, abort, tick, resolveOverride, linkEffect | overlapping faults, ramps back, a target that changes | overrides are those of the live sessions; a recovery ends |
| Simulator: `SimulatorEngine`, point generator, drills | phase of the tick thread, working copies, steps of the drill with their handles | start, stop, tick, inject, recoverAll, loadScenario | a tick beside masters' writes; one step for many slaves; drills that end or are replaced | a drill's faults stay recoverable and PASS means injected; a fault is shown while it lasts and leaves no trace |
| Simulator: `register_bank`, dispatch, TCP server, RTU port | register sets, threads and sockets, receive buffer | request, write, accept, serve, close | copy and publish beside a tick; a connection accepted during close | requests are answered as the protocol says; a closed server leaves no thread |

`PROJECT.json` lists the hazards, each at its line, with the properties that
would catch it.

## 2. Modules

`PROJECT.json` gives the lines of every definition. An `MC` module with several
*parts* puts specifications that share no state beside each other: a variable
`part` says which of them moves, so that their states add up and do not multiply,
and each of them behaves exactly as it does alone.

### Select before operate: `DeviceSboGuard`, `SelectBeforeOperate`, `SboControl`

`DeviceSboGuard` is the guard: `buckets[k]` is the id that holds a register, or
`Free`, with one action per outcome of a method. `SboControl` extends it and adds the
machines: every member of `SboStateMachine` is a field of `sm[m]`, each slot and each
timer callback is one action, and `ForceAbort` and `BackToIdle` are operators that the
actions apply. `linkConnected` is what `onLinkStatusChanged` last said, and the
environment may call `SubmitOperate`, `SubmitCancel` and `DeviceAck` with any id that
was ever accepted, so late and repeated calls are part of every behaviour.
The history variables record which id was granted what (`accepted`), what was
sent (`commands`) and what was reported (`cleared`, `succeeded`, `failed`).

`SelectBeforeOperate` is the contract: a register is selected by at most one ticket, a
ticket is granted once, and a command is sent only by consuming the ticket that
selects its register. `SboControl` implements it (`ImplementsContract`).

### Acquisition: `ModbusEngine`, `PollLink`

`ModbusEngine` has the in-flight table and the allocator of one TCP link: `Register`
enters a request, `Settle` takes it out, `EngineConnectionChanged` clears both
tables. `PollLink` composes it with the poll driver, the device
(external: it answers in any order, stays silent or garbles), the channel seen
from outside, and the two queues: `toWorker` holds what the main thread posted to
the worker (start and stop of polling, the reset of the pending poll, SBO writes) and
`toMain` the connection changes still on their way to the main thread. A request on the
`wire` is a record of its id and what it asks for; which request the last published answer
was given to and as which segment it was decoded is kept in `decoded`, which is how a
mix-up becomes visible.

### The link byte by byte: `ModbusFrame`, `StreamAccumulator`, `RegisterBank`, `SlaveTransports`, `ModbusLink`

Where `PollLink` has records, these have bytes. `ModbusFrame` builds requests and
parses responses for both transports; `StreamAccumulator` is the buffer with its
hunting for a header, as operators on a record `[buf, slid]`, including the byte
behind the end that `tryExtractFrame` reads when it has only seven. On the other side
`RegisterBank` is the simulator's register set per slave, replaced as a whole by
whoever publishes, with the dispatch of requests and their exceptions;
`SlaveTransports` adds the accept thread, the thread of each connection and the
steps of `close` of the TCP server, and buffer, silence timer and delayed answer
of the RTU port. `ModbusLink` composes both ends: `up` and `down` are the bytes
under way, delivered in pieces of any size, `asked`, `said` and `got` what was
requested, answered and reported, `torn` whether a connection broke off inside an
answer and `spoiled` whether anything was lost or damaged.

### Points: `PointTable`, `Acquisition`

`PointTable` loads rows of a file with the checks of the loader, has the three
indexes as look-ups, and the conversions: `reassembleBytes` for the four byte
orders and `decodeToEngineering`, both on bytes. `Acquisition` is what
`EnerSentryApp` makes of it: `buildSegments` and the decoding of an answer, which
may carry fewer registers than were asked for. The reader of the table is the
device, given as the words of its registers; the property compares what is
published with what the row's byte order means. `Ordering` has the orders that
`std::sort`, `std::map` and `std::set` go by in `PointTable`, `ScenarioScript` and
`HistoryPath`.

### Scheduler: `PollScheduler`, `SlaveHealth`, `Scheduler`

`PollScheduler` is one link with its three queues, its two counters and the
half-duplex flag. `SlaveHealth` is the three-stage circuit breaker. They share
no state in the code; `Scheduler` puts them side by side, as the class does.

### Channel: `TcpChannel`

The socket (external), the flags, the delay and the reconnect timer. The delay is doubled
up to its cap as in the code, over four configurations: base and cap zero, a cap that is
no multiple of the base, one equal to it, and one below it. The jitter is left out.
`close()` is two steps: `Close` up to the call of `abort()`, and `Abort`, in which the
socket calls `onDisconnected` back before `close()` deletes it; between them only other
threads look, at the flag. Opening an open channel is `Close`, `Abort` and `Open`. `refusal`
is how the last attempt failed.

### Alarms: `AlarmLedger`, `AlarmEngine`, `AlarmRecords`, `AlarmCenter`

`AlarmEngine` keeps `PointState` of every point (pending delays with their beginning,
latch, current id, last raise), the counter of ids, the ring of trigger times and
the storm queue. A sample is in the zone on, off or between with respect to the rule; the
two clocks of the code (steady and wall) are one `now` counted from the boot of
the machine. `AlarmRecords` composes it with the record store and the monthly
tables, whose rows outlive a restart; `Restart` empties the memory of the
process and starts the next run. Engine, store and centre are connected
directly on one thread, so a sample and everything it causes is one action.

`AlarmLedger` is the abstract specification: a point has at most one open alarm, numbers
are fresh, and only an open alarm is closed. `KeepsLedger` says that the engine implements it.

`AlarmCenter` is the user's side: the query over months with filters and limits,
the rows and the selection, the debounce timer that fills the table anew, the
modal dialogs in whose nested loops the timers go on, and the notifier with the
one dialog of critical alarms. `alarms` are those of this run, by number, as engine and
store know them; `records` are the rows of the databases, those of earlier runs (`EarlierRows`)
among them. Numbers begin with 1 in every run, so a row of an earlier run may bear the number
of an alarm: in the same month the insert of the alarm fails and its updates reach the old
row, in another month two rows are told apart by nothing but the month. A click
on Confirm passes the numbers on, the engine looks them up among the alarms of this run and the
store in the month of those.

### History: `HistoryPath`

The way of a sample from the acquisition thread to the monthly databases:
`Push` is the bridge as the worker sees it, `ConsumeTick`, `ConsumeOne` and `ConsumeDone` the
loop of `onConsumeTick`, one sample per step with the worker pushing in between,
`OnFlushTick` the write of all months of the buffer. A batch may be refused by the
database, one month after the other, and the process may stop (with its last
flush) or die. A query goes through the months of its range one by one. Of a window only the number of samples counted in it is kept;
`fed` counts what was given to the down-sampler.

### Snapshots: `RingBuffer`, `BlackBox`

`RingBuffer` is the lock-free buffer: every atomic access another thread can
notice is a step (reserve, each store, publish; the load of the published
position by a reader, each slot it copies, the store of its cursor). The value stored at a position is the
position, so that a value tells its lap. `BlackBox` starts from a critical alarm:
the groups of buffers of `L1SnapshotStore`, the window taken out of them, and
`appendSnapshot` store by store into a mapped file that outlives the process.

### User interface: `UserSession`, `DataBus`, `RealtimePlot`

`UserSession` is `AuthManager` with the dialogs that drive it. A modal dialog is a
`screen`, which enables the slots of that window only. The clock is what is left of
a lock-out and the time since the last activity, both capped at the limit they
are compared with, so the module has no bound on time.

`DataBus` is the bus with the handles and the swap-and-pop of `unsubscribe`, its
three subscribers (the application's sink, the overview, the chart) made and
destroyed in any order, and the overview itself: cached values, means per rack and
station, the tree and what the timer shows. `RealtimePlot` is the chart: samples
posted to its thread, channels and their buffers, the repaint timer that stops
with the page, `minMaxBucketDownSample`, removal of old data, ruler and read-out.

### Simulator: `FaultInjector`, `PointGenerator`, `ScenarioScript`, `SimulatorEngine`

`FaultInjector` has the sessions with their ramps and the override table rebuilt
from them, and the two questions asked of it (`resolveOverride`, `linkEffect`).
`PointGenerator` is a tick of one slave: physics, overrides, alarm word.
`ScenarioScript` loads a drill into steps and fires the due ones, with the handles kept
for RECOVER. `SimulatorEngine` composes them with `RegisterBank`: the tick thread
goes through scenario, sessions and slaves one after the other while the console
injects, recovers, loads and stops, and a master's request is in the handler
between its snapshot and its publish.

## 3. Runs

All runs are in `PROJECT.json`; `expect: violation` marks the ones that show a
disagreement between the code and a document, comment or test (section 6).

| Run | Bounds | What it shows |
|---|---|---|
| `sbo_control` | 2 machines, 2 registers, 1 value, `MaxSeq` = 3 | locks and Armed states agree; nothing stale, doubled or unselected is sent; refinement of the contract; every machine returns to Idle |
| `poll_link` | 3 ids, 3 segments on 2 slaves, 2 connections lost, 1 write | decoding, convergence of driver and link; every segment is polled again and again unless a request stays unanswered |
| `scheduler` | limits 2 and 2, 6 tasks; 1 slave, 9 failures | bounded overtaking; the stage follows the failures |
| `modbus_link`, part *stream* | 1 slave and a stranger, 2 registers, 2 requests of 3 (TCP) or 4 (RTU) kinds, 2 connections, pieces of 1 and 7 bytes (port: 3) or all there is, four effects on an answer | responses are answers, none is held back, answers fit requests, a closed server ends its threads |
| `modbus_link`, part *channel* | 8 failures, 4 configurations, one error that is retried and one that is not | flag and listeners, also inside `close()`; reconnection ends only with an error no slot handles |
| `alarm_records` | 1 point, time to 6, 2 runs, 2 months, storm from 1 alarm | detection, ledger, records |
| `data_hub`, part *ring* | 2 readers, capacity 2, batches of 1 and 3, 6 positions | reads are current, only lost values are skipped |
| `data_hub`, part *box* | 4 ids in dense and sparse groups, 2 slots per buffer, 3 slots in the file, 4 alarms, 2 crashes | survival, exact windows |
| `data_hub`, part *points* | every table of 3 or 4 points out of the listed widths, orders and places, ids of 8 values; reads of at most 5 registers or 2 bits; every length of answer | segments cover the points, what is published is held |
| `data_hub`, part *history* | 2 points, windows of 2 units, months of 1 window, time to 5, 4 samples, 1 refused batch, 2 runs | counted at most once, loss is reported, exact queries |
| `console`, part *session* | 2 names, 2 passwords, 2 roles, lock after 3 failures for 3 units, idle lock after 2 | session and user agree, limited attempts, idle lock |
| `console`, part *overview* | 1 rack with 2 points, 1 point outside, 3 handles, 2 broadcasts | no entry outlives its view; what was broadcast is shown |
| `console`, part *plot* | 2 channels for 3 points, 3 samples waiting, thinned to 2, window of 2, 4 samples | what was received is drawn, also after the page was hidden |
| `console`, part *center* | 2 alarms, one critical, limit of 1 row, filters on all and on one kind, 2 months, with and without rows of an earlier run | confirmation, rows catch up |
| `sim_engine` | 2 racks with 3 points each, 1 fault of the panel, 3 drills and an unreadable file, 1 write request | handles of drills, PASS, faults shown and ended |

Why the bounds are enough.
`MaxSeq` = 3 lets a register be taken, lost and taken again while a call for the
first selection is still late, which is the longest chain of causes in the code
(an id is compared only with the current one). Two machines suffice for the
guard: a bucket has one holder. `MaxTid` = 3 makes the allocator wrap inside a
run, so an id is reused while old traffic may be present; with two losses one
connection is set up between two others and both of its hand-overs can be late;
one write shares the in-flight table with polls. Six tasks exceed the sum of
both limits plus one task of each class that waits, so both guards act and are
reset; nine failures in a row take a slave through every stage and one failed
probe, and a success or a registration lets it begin again.

In `modbus_link` two requests share the in-flight table, and the second may be made on the
connection that follows the first; pieces of 1 and of 7 bytes cut a frame at every place,
also where `tryExtractFrame` has seven bytes and looks at the eighth, and the
capacity of 32 makes the buffer overflow in a long garbled stream. The value
773 has two different bytes. Eight failures exceed the attempt at which every
configuration of the channel reaches its cap.

In `alarm_records` one unit of time is one
delay; the suppression window (3) is longer than raising and recovering (2), so
both a suppressed repeat and an allowed one happen; two months and two runs give
a row of the previous month and one of the previous process. `Uptime` is at
least the suppression window, because the code drops the first alarm of a
machine that has just booted (section 6). In the history part a month has a single
window, so that every second step of the clock crosses a month boundary; a
buffer of two overflows with the third row; the second run starts on the
databases of the first. Six positions in a ring of two are three laps, and a
batch of three is longer than the ring. In the box part four alarms wrap the
three slots of the file and leave one torn; a ring of two wraps within four
units of time. Three points with two address distances give gaps, overlaps, equal addresses and,
with the limit of five registers, segments that are cut; address 65539, slave 257 and id 9 are what
the casts to 16 bits, to 8 and to the width of an id change, the last into an id
that is taken; a file with no point that is enabled makes `start` fail.

In the session part three failures before a lock-out and locks of
three units let failures of two lock periods overlap. Three handles are one for each
subscriber, or a view made, destroyed and made again beside another. A chart of two channels refuses the third point;
three samples waiting exceed the two a thinning keeps. Two alarms with a limit
of one row leave an alarm outside of what the user sees; the rows of an earlier run have the
number of the first alarm, so an insert fails in the month of such a row and succeeds in
the next. In `sim_engine` the
drills have a step for all slaves and one for a run of cells that is longer than the
rack, out of order in the file and with an action that does not exist; two racks
make a step for all differ from a step for one.

`CHECK_DEADLOCK FALSE` stands where a bound (tasks, time, failures, losses) ends
every behaviour or the application may really stop.

Fairness. `sbo_control`: single-shot timers that were started fire
(`TimerFairness`). `poll_link`: both event loops run and a
tick whose timer is running comes (`EventLoops`); nothing is assumed of the
device, and `EverySegmentIsPolled` excepts the behaviours in which some request
is left unanswered for ever. `modbus_link`: every thread of the TCP server and
whoever called `close` keep running; of the channel, the timer fires, an attempt ends, and a
host that is tried again and again is up at some attempt (strong fairness of
`OnConnected`). `console`: the clock goes on, and the timers of the window and of the
views fire while they run. `sim_engine`: the tick thread goes on
(`TickFairness`, stated through the phase of the thread, which nothing else
moves). No operator, device, master or link is assumed to do anything else.

## 4. Proofs

`tlapm` checks every leaf; nothing is assumed beyond the named `ASSUME`s of the
components, which TLC evaluates in the runs.

* `SboControlProofs`: `IInv` is inductive. The safety properties are not: that a
  selection is sent at most once needs that ids are fresh (`nextSeq` above every id in
  use), that a lock belongs to the machine that is Armed with that id, and that
  what a machine holds is what was granted. From it: type correctness,
  `LockMatchesArmed`, `SentAtMostOnce`, `CommandsWereSelected`,
  `ReportsAreConsistent`, `TimersMatchState` and the refinement
  `ImplementsContract` (initial states, then one case per action: a step of the
  contract or a stutter); and, as a property of steps, `WindowEndsArmed`: only the link
  coming back and `onFlappingTimeout` stop the flapping window, and the latter leaves
  `Armed` through `forceAbort` when the link is down.
* `PollLinkProofs`: `IInv` says which requests can be on the wire for which table
  entry and what is last in both queues. The convergence of driver and link
  (`PollingFollowsLink`) needs the strengthening that the last event queued for
  the worker agrees with the last change still to be delivered.
* `PollLinkProofs`, the scheduler, about the object as a whole (`Scheduler`, whose steps leave
  one of its two parts alone): both starvation bounds, for every value of the limits.
  The counters of the code bound the overtaking only because the tasks that
  overtake are counted from the arrival of the task that waits. `PollsInOrder` needs
  that what waits in a queue of polls is sorted by arrival. `StageMatchesFailures` and
  `OneReportPerStage` follow from `BreakerInv`: for every registered slave the counter of
  failures, the stage, the interval and the reports made so far fit together.
* `PollLinkProofs`, the channel: `ListenersKnowTheLink`, `TimerMeansWaiting` and `KeepsTrying`
  for any set of errors, those no slot handles among them, and any configurations.
  `ChannelInv` adds which states close() and its nested call pass through (`Consistent`).
* `PollLinkProofs`, the points: `SegmentsCoverPoints` for every file of points, whatever
  the limits of a read, and `PublishedIsHeld` for every device and every length of an
  answer. A table that was loaded has each point in its three indexes once
  (`LoadedTables`); the points of a slave come out of the sort without repetition and in the
  order of their addresses, and the loop that joins them keeps that every point so far is in
  one segment and no segment is longer than a read (`PointsInTurn`). `AcqInv` says that what
  is polled was built from the table.
* `ModbusLinkProofs`, the bytes of a TCP link: `ResponsesAreAnswers`, `NothingHeldBack` and
  `AnswersFitRequests` for any requests the application may make, any slaves and register
  values, connections, pieces and faults on answers. `LinkIInv` says that, until a connection
  is lost in the middle of an answer, there are requests `T` and a number `k` such that: the
  bytes on their way to the server are exactly the frames of the requests it has not taken over
  (`LineUp`); what the accumulator holds followed by what is on its way to the master is
  exactly the frames of the answers after the `k`-th, the first of them incomplete in the
  accumulator (`LineDown`); each answer is to the request of its number, which is in the books
  under an id nobody else has (`Ledger`); and the reports so far are of answers up to the
  `k`-th, each of a later one than the one before (`Matched`). It rests on lemmas about the
  codecs (a request is read by the server as it was built, `RequestIsRead`; an answer is parsed
  as it was meant, `AnswerIsParsed`; the length field says where a frame ends,
  `FramesAreTaken`), on the loop of `onBytesReceived` taken round by round
  (`WholeFramesAreTaken`, `AnswersAreReported`) and on what a line holds when a frame is put at
  its end or taken from its front (`HoldsMore`, `HoldsRest`).
* `SequenceLemmas`: what the others need of folds and sorts. A recursive function that is a
  fold exists and unwinds (`FoldExists`, `FoldUnwinds`), a set has an enumeration in a
  given strict order and only one (`OrderIsReached`, `OrderIsUnique`), two enumerations whose
  members are ordered join to that of the union (`OrdersJoin`), and a set of naturals has a
  least one (`LeastNatural`), which takes the place of induction.
* `AlarmProofs`: `EngineIInv` relates the state of a point to itself and to the samples
  it has seen: an open alarm belongs to a latched point, only open alarms have
  numbers, no two points the same one, and a point whose samples stay beyond a threshold has been
  a candidate for at least as long. From it `EngineInv` and `SustainedIsDetected`,
  and the refinement `KeepsLedger` of `AlarmLedger`, action by action.
  `RecordsFollowEngine` needs `RecordIInv`: a row of the present run whose number
  some point has open says what the engine says of it and is where `m_triggerByAlarmId`
  points to; every other row of the run says Recovered. Rows of earlier runs, whose
  numbers this run gives again, are told by their `run`.
* `DataHubProofs`, the ring: for every capacity, set of readers, batches and counts, a
  value read is that of its position or of a later lap (`ReadsAreCurrent`), no
  step moves a cursor back, and a cursor passes only what was delivered or
  overwritten (`OnlyLostAreSkipped`). `RingIInv` has three parts: a slot holds the newest
  position stored in it (`SlotsAreCurrent`), the three positions of the producer are
  in order (`ProducerOrder`), and the interval a reader works on was published
  when it began (`ReaderWindow`). `SlotsAreCurrent` is where the remainder of two
  positions that share a slot is used.
* `DataHubProofs`, the black box: `extractRange` is a loop, and what it returns
  is shown by the turn that would be the first to go wrong (`LeastNatural`; the induction
  theorems themselves cannot be instantiated). `SnapshotIsTheWindow` adds that the buffers are filled in the order of
  time, for dense and sparse groups (`RoutedByPoint`). `WrittenSurvive` needs that the newest
  `SlotCount - 1` snapshots lie whole, one behind the other, before the write position
  (`WrittenInOrder`), and that an opened file is written where its header says
  (`FileFits`), so that a write that is cut off spoils no slot but the next;
  for `AtMostOneTorn`, that every slot in use but that one holds a snapshot that was taken
  (`OthersAreTaken`). Of
  the ids it is used only that one of them is the greatest.
* `DataHubProofs`, the history: `CountedAtMostOnce` and `LossIsReported` for every length
  of windows and months, every capacity, any refused batches, stops and crashes, and
  `OneOpenWindow`. `HistoryIInv` adds to the two sums that a row lies in the database of
  its month, that the primary key is unique in it, and that nothing on its way is of
  the future. Then a batch either leaves a month alone or moves exactly its rows, since a
  month that takes it has no row of the same key, neither in the table nor twice in the
  batch (`InsertingMoves`). The sums over the places of a queue are handled by
  lemmas of their own: an element may be taken out first (`SumTakes`), places that move with
  their counts keep the sum (`SumMoves`), fewer places have no larger one (`SumShrinks`).
  `QueryIsExact`: since the rows of a month are in its database under keys of their own, each
  database gives the rows of the range in the order of the keys and once, and the months, one
  behind the other, give the enumeration of the whole range (`OrdersJoin`).
* `SimulatorProofs`: `EngineInv` says of the drill that is loaded that every session it began
  and that is ACTIVE is in reach of a handle the script keeps (`Held`), and, unless the drill
  has failed, that the steps it fired are done (`StepDone`). A drill is a fold of folds (due
  steps, slaves of a step, handles of a step), so each is taken one member at a time with a
  relation that a member keeps. From it `ScriptedFaultsAreHeld` and `PassMeansInjected`.
  That relation (`GoOn`: no session is lost, renamed or revived, and its value comes nearer to
  where it was) holds of every step while the engine runs, which is `RecoveriesAreMonotone`. It
  supposes a rate that is not negative: nothing rejects a drill file that gives one, and such a
  recovery moves away. `TableFollowsSessions` holds although most ticks leave the table alone:
  what it has an entry for, and of which type, depends on the states alone (`RebuiltByStates`).
* `ConsoleProofs`: three parts that share no state. `SessionInv`: behind the login dialog
  somebody is logged in, is in the table and has the role it says; from it
  `SessionIsOfAUser` and `ChangedBeforeUse`. For `AttemptsAreLimited`, the failures
  the counter of a name stands for are the newest ones, and the one before them, which
  locked the name, is at least as old as what has run off the lock
  (`FailuresExplained`). For `NoEntryOutlivesItsView`, handles and entries correspond one
  to one and the index leads from each to the other, through swap-and-pop
  (`BusInv`). For `OnlyTheSeenAreConfirmed`, the selected rows are rows the user saw
  when he selected them, whatever the debounce timer fills in and whatever rows of earlier
  runs are in the databases (`CenterInv`).

Assumptions. The named `ASSUME`s say that limits, lengths and bounds are natural
numbers (positive where the code divides by them), that marker values are no ordinary ones
(`NoState`, `NoUser`, `Free`, `NoEntry`), and what the configuration must be: of the rules
their levels, of the user files that they are tables of users, of the
ids of a policy that they are bounded, of the rows earlier runs left that they have the
columns of the table (their numbers may be any), of files of points and drills that the JSON parser
gives whole numbers where the loader asks for them, of devices and registers that
they have 16 bits, and that a read may ask for four registers at least. `MasterAssumption`
says what a caller of `writeRequest` may pass (words, and no more values than the byte count can
say), `LinkAssumption` that there are fewer requests than ids, and `RoomAssumption` that the
answers to all of them fit the accumulator: the code discards the oldest bytes when they do
not, which is a loss that `spoiled` does not record. The bounds that make the instances finite stay in the
guards; the theorems hold for every value of them.

Only model-checked, and why:

* liveness and everything about `ENABLED`, which the prover does not have:
  `EveryMachineReturnsToIdle`, `EverySegmentIsPolled`, `ServerShutsDown`,
  `Reconnects`, `IdleIsLocked`, `ViewsCatchUp`, `FaultIsShown`, `FaultsEnd`;
* `ResponsesAreAnswers`, `NothingHeldBack` and `AnswersFitRequests` over RTU. There a frame ends
  where its CRC is right, and pieces of two frames, or a garbled one, may happen to have a right
  CRC: on the instance of the run they have not, but it is not so for every instance.

The modules state more than the runs check. Proved, and in no run:
`CommandsWereSelected`, `TimersMatchState`, `AnswersFindTheirRequest`, `ChainNeverBreaks`,
`TimerMeansWaiting`, `CursorsOnlyAdvance`, `PollsInOrder`, `OneReportPerStage`,
`EngineInv`, `ChangedBeforeUse`, `RoutedByPoint`, `OneOpenWindow`, `WindowEndsArmed`,
`AtMostOneTorn`, `TableFollowsSessions`, `RecoveriesAreMonotone`. Stated and not proved:
`BackoffDoubles`, since the provers know nothing of powers, and the type invariants of the
other modules.

## 5. Simplifications

* In `PollLink` frames are records, not bytes, and a garbled frame is one the engine
  rejects; `ModbusLink` has the bytes, with short frames and two requests.
* An answer that never comes, and a garbled one, leave their id allocated until
  the connection ends: that is what the code does.
* `PollScheduler` is modelled for any caller of its interface. The application
  sets its links to full duplex, takes every poll out in the slot that put it in, and
  never registers a slave, so neither the limits nor the breaker act there.
* `start()` of the application is called once per process; starting again
  after `stop()` is not modelled.
* A malformed header makes the TCP server drop the connection
  (`modbus_tcp_server.cpp:219`); `ReadRequest` has only requests the codec built, which are
  none.
* In `ModbusLink` a request is made on a connection that is up; one made without a connection,
  which registers its id all the same, is in `PollLink`.
* `SlaveTransports` lets `close()` wake the accept thread and the threads that
  receive. On POSIX systems `::close` of a descriptor does not wake a thread that is blocked
  in it, and the threads, which are detached, may read `m_running` after the server is destroyed;
  neither is in the model.
* `RegisterBank` takes a write with several values as one publish, as `setHolding`
  on the copy does; the mutex of the emulator admits one request at a time.
* `PointTable` starts from what the JSON parser returns. Floating-point numbers stay
  their sign, exponent and fraction; scaling one is left to the reader of the
  bytes. `PublishedIsHeld` leaves out `Float32` in one register, `Bool`, and the byte
  order CDAB of a single register (section 6).
* With the default threshold (200) the storm detector needs more trigger times than
  its ring (128) holds; the runs use thresholds within the ring, as a caller of
  `setStormConfig` would.
* No code calls `onDeviceAck`: the echo of a write is dropped by the poll
  driver. `SboControl` includes the call because the machine offers it, and
  nothing that is shown depends on its happening.
* `onStormFlush` and `onStormBatch` are no actions: nothing starts the timer.
* Each alarm starts the debounce timer of the alarm centre anew (`alarm_center_widget.cpp:230`),
  so alarms less than its time apart put the query off without end; the part of `ViewsCatchUp`
  about it (`AlarmsCatchUp`) promises rows only until the next alarm.
* `AlarmCenter` takes the alarms from the engine's signals in any order a point
  allows; a month whose database cannot be opened, which the query passes over, the
  label with the number of active alarms and the text of the exported file are
  left out.
* `HistoryPath` has the one granularity the application feeds (`Gran1s`), a clock
  that does not go back, and counts that stay far from the 16 bits of the
  column; aggregated values are left out. A query reads every month of its range; the code
  passes over one whose database cannot be opened or read, and returns the others.
* `RingBuffer` lets stores become visible in the order they are made, which is what
  the release store and the acquire load of the published position give for the
  data they order; the relaxed stores of a lap in progress may be seen early or
  late in that order. Positions (64 bits) do not overflow.
* `BlackBox` treats each `memcpy` and each header field as one store; the pages of
  the file survive the end of the process (not of the machine, for which
  `forceSync` exists and has no caller). `CriticalSwapRecovery` has no caller either.
* `UserSession` compares passwords, not hashes. The new password of a forced change
  at login is not written to `users.json` by the code and not in the model; the
  table of permissions is reduced to who may manage users. The audit log is left
  out.
* `DataBus` has broadcasts on the main thread only, where the consume timer makes
  them; the rate counter is taken modulo `CounterRange`.
* `RealtimePlot` counts samples for their times; the graph is a sequence of keys and
  values, and axes matter as far as they choose what is removed or read out.
* The physics of the simulator drifts slowly; here what a point shows without a fault is a
  constant. Ages are kept up to `MaxAge`, values are integers, random noise and the
  tables of device profiles are left out. `loadScenario` waits here for the tick
  thread to be between two steps; the code does not (section 6).
* All steps of a drill that are due are one step (`Drive`), as are the overrides of
  all points of a slave (`GenerateSlave`); the code takes the lock of the injector for each of
  them, so that the console may come in between.
* `ScriptedFaultsAreHeld` is about the drill that is loaded: a drill that replaces
  another drops the handles of the faults that go on. `PassMeansInjected`
  exempts a single register that a slave does not have, which the code passes over by intent
  (`scenario_script.cpp:303`).

## 6. Findings

Runs with `expect: violation`; `PROJECT.json` has the quotes.

| Run | In one sentence |
|---|---|
| `link_torn_answer` | a lost connection clears the tables but not the accumulator, ids start at 1 again, and an old header is completed with the first bytes of the next answer |
| `critical_popup` | the dialog of critical alarms is hidden when it is closed and never shown again |
| `alarm_history_rewritten` | ids restart at 1, so a recovery is written into an old record |
| `black_box_snapshot_refused` | once a buffer has wrapped, a snapshot holds the window once per lap, is too long for a slot, and the critical alarm leaves nothing in the file |

The modules also state, in a section of their own at the end, what documents,
comments or tests say of the program and TLC refutes on instances of the size
above. These statements are in no run:

| Statement | In one sentence |
|---|---|
| `SboControl!IdleHoldsNoLock` | probing the guard for a refused selection can take a lock nobody releases |
| `SboControl!ArmedOnDeadLinkIsWatched` | a selection on a link that is already down has no pending abort |
| `SboControl!ExecutedAwaitsItsAck` | a loss during execution wipes the id the acknowledgement is compared with |
| `PollLink!PollingSurvivesSilence` | one unanswered request ends polling on a connection that is up |
| `PollLink!IdsDieWithTheConnection` | a tick on a dead connection registers an id that survives the reconnect |
| `PollLink!AnswerFillsItsSegment` | a late `resetPending` lets an answer be decoded as the next segment of the same slave |
| `PollScheduler!SlowPollsSurviveAll` | slow polls can wait for any number of dispatches |
| `PollScheduler!ControlsInOrder` | waiting control writes are sent last in, first out |
| `TcpChannel!AlwaysReconnects` (under `FairChannelSpec`) | an attempt that times out or finds no host is the last one |
| `AlarmRecords!ConfirmationIsContinuous` | a jump across the hysteresis band does not restart the delay |
| `AlarmRecords!OnlyRepeatsAreDropped` | the first alarm after the boot of the machine is dropped |
| `AlarmRecords!StormIsDelivered` (under `FairSpec`) | alarms queued in a storm are delivered to nobody |
| `AlarmCenter!ConfirmsTheSelected` | numbers begin with 1 in every run and nothing else is passed on, so a click on a row an earlier run left confirms the alarm of this run with its number, which the user may never have seen |
| `HistoryPath!WindowsAreStoredOnce` | a sample consumed after its window was rolled up opens it again; the second row fails and takes its batch with it |
| `RealtimePlot!SpikesAreDrawn` | the bucket size is rounded, so the newest samples of a long buffer, and a spike among them, may not be looked at |

Read in the code and stated in no module:

* `reassembleBytes` writes nothing for CDAB of one register, which then decodes to
  0; a `Bool` in a holding register looks at the high byte only; the loader takes
  two points of different register types at one address for duplicates.
* `minMaxBucketDownSample` puts the smallest value before the largest whatever
  their times, and the graph is told that its data is sorted; `nearestSample`
  gives the sample before the cursor where there is one.
* The overview never drops a cached value; the static counter of its rate
  outlives the view.
* After a wrong CRC the accumulator slides one byte for each piece of data that
  comes, so a good frame behind a bad one waits for more bytes.
* The table of the alarm centre is not filled anew when an alarm recovers; alarms
  merged in a storm never reach it.
* `BusinessStateMachine::toRunning` on a device of a station that is not running
  contradicts BusinessStateMachine.h:11, and registering a device again resets a
  running one.
* `SerialChannel::onErrorOccurred` tells listeners that the connection is gone while
  `isConnected()` stays true, and a second `asyncWrite` replaces the callback of the first.
* `SimulatorEngine::loadScenario` replaces the script without waiting for the tick
  thread, and the thread of a TCP connection may close a descriptor `close()` has closed.

## 7. Not modelled, and the plan

Not modelled: `SerialChannel`, which the application never constructs;
`AlarmRuleLoader`, which parses a file into the rules `AlarmEngine` takes
any set of; `BusinessStateMachine`, which nothing is connected to; the wrappers of
memory-mapped files, which are calls of the operating system; the views of
history, configuration and diagnosis, which show what other components hold.
Pure presentation (painting, layout, text) is left out everywhere.

What came first: select-before-operate, because a command is what does harm; then
acquisition with its scheduler and channel; then alarms, history, snapshots and
sessions; then the bytes of the link with both codecs, the point table, the
simulator and the views. What is left, in order:

1. Proofs: the type invariants that are no part of an inductive invariant yet; that over RTU a
   frame with a right CRC that is not an answer is the only way to report one.
2. `SboLink`: `SboControl` composed with `PollLink`, so that a command sent is a
   frame and a link loss is the same event for both.
3. `SerialChannel` with the RTU branch of `ModbusLink`, and `BusinessStates`, should the
   application come to use them.

## 8. Running

```
tlc -workers 2 -config MCSboControl.cfg MCSboControl
tlapm SboControlProofs.tla
```
