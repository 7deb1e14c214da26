---------------------------- MODULE HistoryPath ----------------------------
(***************************************************************************)
(* The way of a sample from the acquisition thread to the monthly history  *)
(* databases: SampleBridge, onConsumeTick, DownSampler, L2HistoryStore and *)
(* the history part of SQLiteDataAccess.  A sample is its point and its    *)
(* time; of a window only the number of samples counted in it is kept.     *)
(* The main thread runs one slot at a time: onConsumeTick takes samples    *)
(* one by one while the acquisition thread goes on pushing, and            *)
(* onFlushTick comes between two of its runs.                              *)
(***************************************************************************)
EXTENDS Integers, Sequences, FiniteSets, FiniteSetsExt, SequencesExt, Ordering

CONSTANTS
    Points,
    WindowMs,       \* length of a window, in units of time
    MonthWindows,   \* windows in a month
    MaxPending,     \* SampleBridge::kMaxPending
    BufferCapacity, \* L2HistoryStore::m_capacity
    LastMoment,     \* bound: the clock stops
    MaxPushed,      \* bound: samples pushed
    MaxBusy,        \* bound: months whose database refuses a batch
    MaxRuns         \* bound: runs of the process

ASSUME LengthsAssumption ==
    /\ WindowMs \in Nat \ {0} /\ MonthWindows \in Nat \ {0}
    /\ MaxPending \in Nat \ {0} /\ BufferCapacity \in Nat \ {0}
ASSUME HistoryBoundsAssumption == LastMoment \in Nat /\ MaxPushed \in Nat /\ MaxBusy \in Nat /\ MaxRuns \in Nat

VARIABLES
    wall,        \* the system clock, from the start of the first month (never the epoch)
    bridge,     \* SampleBridge::m_q
    consuming,  \* onConsumeTick is in its loop
    buckets,    \* DownSampler::m_buckets: samples counted per window, 0 = no bucket
    writeBuffer, \* L2HistoryStore::m_writeBuffer
    db,         \* rows of each month's database
    dropped,    \* m_droppedCount is not 0 in this run
    failed,     \* history: some flush has returned false
    pushed,     \* history: samples pushed into the bridge
    fed,        \* history: samples given to feed, per point and window
    busy,       \* history: batches refused by the database
    runs        \* history: runs of the process so far

historyVars == <<wall, bridge, consuming, buckets, writeBuffer, db, dropped, failed, pushed, fed, busy, runs>>

(* alignToWindow: the number of the window a time falls into. *)
AlignToWindow(ts) == ts \div WindowMs

Windows == 0 .. AlignToWindow(LastMoment)

(* getDatabasePath, getTableName: the month a window belongs to. *)
MonthOf(w) == w \div MonthWindows

Months == 0 .. MonthOf(AlignToWindow(LastMoment))

Sample == [point : Points, timestamp : 0 .. LastMoment]

DownSampledSample == [point : Points, window : Windows, count : Nat \ {0}]

NoBuckets == [p \in Points |-> [w \in Windows |-> 0]]

HistoryInit ==
    /\ wall = 0
    /\ bridge = <<>>
    /\ consuming = FALSE
    /\ buckets = NoBuckets
    /\ writeBuffer = <<>>
    /\ db = [m \in Months |-> {}]
    /\ dropped = FALSE
    /\ failed = FALSE
    /\ pushed = 0
    /\ fed = NoBuckets
    /\ busy = 0
    /\ runs = 1

ClockTick ==
    /\ wall < LastMoment
    /\ wall' = wall + 1
    /\ UNCHANGED <<bridge, consuming, buckets, writeBuffer, db, dropped, failed, pushed, fed, busy, runs>>

-----------------------------------------------------------------------------
(* SampleBridge                                                            *)

(* push, from the acquisition thread: the oldest sample makes room. *)
Push(p) ==
    /\ pushed < MaxPushed
    /\ pushed' = pushed + 1
    /\ bridge' = Append(IF Len(bridge) >= MaxPending THEN Tail(bridge) ELSE bridge,
                        [point |-> p, timestamp |-> wall])
    /\ UNCHANGED <<wall, consuming, buckets, writeBuffer, db, dropped, failed, fed, busy, runs>>

-----------------------------------------------------------------------------
(* DownSampler and L2HistoryStore                                          *)

(* Buckets after feed. *)
Feed(s) == [buckets EXCEPT ![s.point][AlignToWindow(s.timestamp)] = @ + 1]

(* rollUp: the windows of a point that lie before the current one. *)
ClosedWindows(b, p) == {w \in Windows : b[p][w] > 0 /\ w < AlignToWindow(wall)}

RollUpRow(b, p, w) == [point |-> p, window |-> w, count |-> b[p][w]]

(* Mutant: the bucket is emitted and kept. *)
BucketsKept(b, p) == b

(* Mutant: the open window is erased with the closed ones. *)
BucketsCleared(b, p) == [b EXCEPT ![p] = [w \in Windows |-> 0]]

(* Buckets after rollUp. *)
BucketsLeft(b, p) ==
    [b EXCEPT ![p] = [w \in Windows |-> IF w \in ClosedWindows(b, p) THEN 0 ELSE b[p][w]]]

(* enqueueSample counts what it drops. *)
Overflow(q) == Len(q) > BufferCapacity

(* The newest rows, as many as the buffer holds. *)
Bounded(q) == SubSeq(q, IF Overflow(q) THEN Len(q) - BufferCapacity + 1 ELSE 1, Len(q))

(* The timer starts onConsumeTick. *)
ConsumeTick ==
    /\ ~consuming
    /\ bridge # <<>>
    /\ consuming' = TRUE
    /\ UNCHANGED <<wall, bridge, buckets, writeBuffer, db, dropped, failed, pushed, fed, busy, runs>>

(* One turn of its loop: tryPop, feed, rollUp, enqueueSample.  A point has *)
(* at most two closed windows, which the hash table yields in any order.   *)
ConsumeOne ==
    /\ consuming
    /\ bridge # <<>>
    /\ LET s == Head(bridge)
           b == Feed(s)
       IN  /\ bridge' = Tail(bridge)
           /\ fed' = [fed EXCEPT ![s.point][AlignToWindow(s.timestamp)] = @ + 1]
           /\ buckets' = BucketsLeft(b, s.point)
           /\ \E order \in SetToSeqs(ClosedWindows(b, s.point)) :
                LET q == writeBuffer \o [i \in DOMAIN order |-> RollUpRow(b, s.point, order[i])]
                IN  /\ writeBuffer' = Bounded(q)
                    /\ dropped' = (dropped \/ Overflow(q))
    /\ UNCHANGED <<wall, consuming, db, failed, pushed, busy, runs>>

ConsumeDone ==
    /\ consuming
    /\ bridge = <<>>
    /\ consuming' = FALSE
    /\ UNCHANGED <<wall, bridge, buckets, writeBuffer, db, dropped, failed, pushed, fed, busy, runs>>

-----------------------------------------------------------------------------
(* Databases                                                               *)

RowsOf(m) == {writeBuffer[i] : i \in {j \in DOMAIN writeBuffer : MonthOf(writeBuffer[j].window) = m}}

(* Two rows of the batch, or one of the batch and one of the table, have   *)
(* the same primary key (point_id, ts).                                    *)
Conflicts(m) ==
    \/ \E i, j \in DOMAIN writeBuffer :
          /\ i # j
          /\ MonthOf(writeBuffer[i].window) = m
          /\ writeBuffer[i].point = writeBuffer[j].point /\ writeBuffer[i].window = writeBuffer[j].window
    \/ \E r \in RowsOf(m), old \in db[m] : r.point = old.point /\ r.window = old.window

(* batchInsert: all the rows of the month or none. *)
BatchInsert(m, refused) ==
    IF m \in refused \/ Conflicts(m) THEN db[m] ELSE db[m] \cup RowsOf(m)

(* flush: the buffer is taken over whole; what a month refuses is gone. *)
Flush(refused) ==
    /\ db' = [m \in Months |-> BatchInsert(m, refused)]
    /\ failed' = (failed \/ \E m \in Months : RowsOf(m) # {} /\ (m \in refused \/ Conflicts(m)))
    /\ busy' = busy + Cardinality(refused)

(* The databases that cannot be opened or locked in time (external). *)
Refusals == {R \in SUBSET {MonthOf(writeBuffer[i].window) : i \in DOMAIN writeBuffer} :
                busy + Cardinality(R) <= MaxBusy}

OnFlushTick ==
    /\ ~consuming
    /\ writeBuffer # <<>>
    /\ \E refused \in Refusals : Flush(refused)
    /\ writeBuffer' = <<>>
    /\ UNCHANGED <<wall, bridge, consuming, buckets, dropped, pushed, fed, runs>>

(* The memory of a process that starts. *)
FreshMemory ==
    /\ bridge' = <<>>
    /\ consuming' = FALSE
    /\ buckets' = NoBuckets
    /\ writeBuffer' = <<>>
    /\ dropped' = FALSE
    /\ runs' = runs + 1

(* stop() flushes what has been rolled up; open windows and the bridge are *)
(* lost.  The next process finds the databases.                            *)
StopAndRestart ==
    /\ runs < MaxRuns
    /\ ~consuming
    /\ \E refused \in Refusals : Flush(refused)
    /\ FreshMemory
    /\ UNCHANGED <<wall, pushed, fed>>

(* The process dies without stop(), at any moment: a flush it was in has   *)
(* committed the transactions of some months and not of the others.        *)
CrashAndRestart ==
    /\ runs < MaxRuns
    /\ \E done \in IF consuming THEN {{}} ELSE SUBSET Months :
          db' = [m \in Months |-> IF m \in done THEN BatchInsert(m, {}) ELSE db[m]]
    /\ FreshMemory
    /\ UNCHANGED <<wall, failed, pushed, fed, busy>>

HistoryNext ==
    \/ ClockTick
    \/ \E p \in Points : Push(p)
    \/ ConsumeTick \/ ConsumeOne \/ ConsumeDone
    \/ OnFlushTick
    \/ StopAndRestart \/ CrashAndRestart

HistorySpec == HistoryInit /\ [][HistoryNext]_historyVars

-----------------------------------------------------------------------------
(* queryRange: month by month from that of the start, each asked for the   *)
(* part of the interval that lies in it, rows in ascending order.          *)

MonthStart(m) == m * MonthWindows * WindowMs

(* Mutant: the month after the last whole one is left out. *)
QueryMonthsShort(begin, end) ==
    {m \in Months : m >= MonthOf(AlignToWindow(begin)) /\ MonthStart(m + 1) <= end}

QueryMonths(begin, end) ==
    {m \in Months : m >= MonthOf(AlignToWindow(begin)) /\ MonthStart(m) < end}

(* ORDER BY ts.  A month whose database cannot be opened or read is passed *)
(* over with a warning; that is left out.                                  *)
ByWindow(r1, r2) == r1.window < r2.window

QueryMonth(p, m, begin, end) ==
    InOrder({r \in db[m] : /\ r.point = p
                           /\ r.window * WindowMs >= Max({begin, MonthStart(m)})
                           /\ r.window * WindowMs < Min({end, MonthStart(m + 1)})}, ByWindow)

NextMonth(m1, m2) == m1 < m2

QueryInTurn(p, begin, end, months) ==
    FoldLeft(LAMBDA out, m : out \o QueryMonth(p, m, begin, end), <<>>, months)

QueryRange(p, begin, end) ==
    IF begin >= end THEN <<>>
    ELSE QueryInTurn(p, begin, end, InOrder(QueryMonths(begin, end), NextMonth))

-----------------------------------------------------------------------------
(* Properties.                                                             *)

(* Every variable holds a value of its type. *)
HistoryTypeOK ==
    /\ wall \in 0 .. LastMoment
    /\ bridge \in Seq(Sample) /\ Len(bridge) <= MaxPending
    /\ consuming \in BOOLEAN
    /\ buckets \in [Points -> [Windows -> Nat]]
    /\ writeBuffer \in Seq(DownSampledSample) /\ Len(writeBuffer) <= BufferCapacity
    /\ db \in [Months -> SUBSET DownSampledSample]
    /\ dropped \in BOOLEAN /\ failed \in BOOLEAN
    /\ pushed \in 0 .. MaxPushed
    /\ fed \in [Points -> [Windows -> Nat]]
    /\ busy \in 0 .. MaxBusy
    /\ runs \in 1 .. MaxRuns

(* Samples of a point and window that wait in the buffer, and that are in  *)
(* the databases.                                                          *)
Queued(p, w) ==
    MapThenSumSet(LAMBDA i : writeBuffer[i].count,
                  {i \in DOMAIN writeBuffer : writeBuffer[i].point = p /\ writeBuffer[i].window = w})

Stored(p, w) ==
    MapThenSumSet(LAMBDA r : r.count,
                  {r \in UNION {db[m] : m \in Months} : r.point = p /\ r.window = w})

(* However often batches fail, windows are opened again and the process is *)
(* restarted, no sample is counted twice (rollUp, flush).                  *)
CountedAtMostOnce ==
    \A p \in Points, w \in Windows : buckets[p][w] + Queued(p, w) + Stored(p, w) <= fed[p][w]

(* While the process runs, nothing fed to the down-sampler disappears      *)
(* unless enqueueSample has counted a drop or flush has returned false.    *)
LossIsReported ==
    (runs = 1 /\ ~dropped /\ ~failed) =>
        \A p \in Points, w \in Windows : buckets[p][w] + Queued(p, w) + Stored(p, w) = fed[p][w]

(* The table of buckets cannot grow: a point has one open window, because  *)
(* every feed is followed by a rollUp of the same point (onConsumeTick).   *)
OneOpenWindow == \A p \in Points : Cardinality({w \in Windows : buckets[p][w] > 0}) <= 1

(* queryRange finds every row of the interval, once and in order, across   *)
(* month boundaries; there is something to ask for once there are rows.    *)
QueryIsExact ==
    LET stored == UNION {db[m] : m \in Months}
    IN  stored # {} =>
          \A p \in Points, begin, end \in 0 .. LastMoment + 1 :
              QueryRange(p, begin, end) =
                  InOrder({r \in stored : /\ r.point = p
                                          /\ r.window * WindowMs >= begin
                                          /\ r.window * WindowMs < end}, ByWindow)

-----------------------------------------------------------------------------
(* Statement of the documentation that the code does not keep.             *)

(* DBDD: windows only move forward, so that a plain INSERT is enough.  But *)
(* a sample consumed after its window has been rolled up opens it again,   *)
(* and the second row takes the whole batch with it.                       *)
WindowsAreStoredOnce == \A m \in Months : ~Conflicts(m)
=============================================================================
