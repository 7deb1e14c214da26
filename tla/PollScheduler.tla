--------------------------- MODULE PollScheduler ---------------------------
(***************************************************************************)
(* The queues of one link of protocol/PollScheduler: control writes (HIGH) *)
(* overtake polls (NORMAL), polls overtake slow polls (LOW), and two       *)
(* counters keep the lower queues from starving.  Links share nothing, so  *)
(* one link stands for all; the circuit breaker is module SlaveHealth.     *)
(***************************************************************************)
EXTENDS Integers, Sequences

CONSTANTS
    MaxConsecutivePreempt,   \* LinkParams::maxConsecutivePreempt
    MaxConsecutiveSboBurst,  \* LinkParams::maxConsecutiveSboBurst
    IsHalfDuplex,            \* LinkParams::isHalfDuplex
    NoTask,                  \* nothing dispatched yet
    MaxTasks                 \* bound: tasks enqueued in a run

ASSUME ParamsAssumption ==
    /\ MaxConsecutivePreempt \in Nat
    /\ MaxConsecutiveSboBurst \in Nat
    /\ IsHalfDuplex \in BOOLEAN
ASSUME MaxTasksAssumption == MaxTasks \in Nat

VARIABLES
    high, normal, low,  \* the three deques; a task is its enqueue number
    preempt,            \* consecutivePreemptCount
    sbo,                \* consecutiveSboCount
    busy,               \* a frame is on the half-duplex bus
    enqueued,           \* tasks enqueued so far
    last,               \* history: the last dispatch, [queue, task]
    normalWait,         \* history: HIGH dispatched while NORMAL waits
    lowRun,             \* history: NORMAL in a row while LOW waits
    lowWait             \* history: HIGH and NORMAL dispatched while LOW waits

queues == <<high, normal, low>>
counters == <<preempt, sbo>>
history == <<last, normalWait, lowRun, lowWait>>
dequeVars == <<high, normal, low, preempt, sbo, busy, enqueued,
               last, normalWait, lowRun, lowWait>>

Dispatched == [queue : {"high", "normal", "low"}, task : Nat]

QueuesInit ==
    /\ high = <<>> /\ normal = <<>> /\ low = <<>>
    /\ preempt = 0
    /\ sbo = 0
    /\ busy = FALSE
    /\ enqueued = 0
    /\ last = NoTask
    /\ normalWait = 0
    /\ lowRun = 0
    /\ lowWait = 0

-----------------------------------------------------------------------------
(* enqueue: control writes go to the front of their queue, polls to the    *)
(* back of theirs.                                                         *)
Enqueue ==
    /\ enqueued < MaxTasks
    /\ enqueued' = enqueued + 1
    /\ \/ high' = <<enqueued>> \o high /\ UNCHANGED <<normal, low>>
       \/ normal' = Append(normal, enqueued) /\ UNCHANGED <<high, low>>
       \/ low' = Append(low, enqueued) /\ UNCHANGED <<high, normal>>
    /\ UNCHANGED busy /\ UNCHANGED counters /\ UNCHANGED history

(* The half-duplex bus is free, or need not be. *)
MayDispatch == ~(IsHalfDuplex /\ busy)

(* The history of a dispatch: who was kept waiting by it. *)
Record(queue, task) ==
    /\ last' = [queue |-> queue, task |-> task]
    /\ normalWait' = IF queue = "normal" THEN 0
                     ELSE IF queue = "high" /\ normal # <<>> THEN normalWait + 1
                     ELSE normalWait
    /\ lowRun' = IF queue = "normal" /\ low # <<>> /\ high = <<>>
                   THEN lowRun + 1 ELSE 0
    /\ lowWait' = IF queue = "low" \/ low = <<>> THEN 0 ELSE lowWait + 1

TakeHigh   == high' = Tail(high) /\ UNCHANGED <<normal, low>> /\ Record("high", Head(high))
TakeNormal == normal' = Tail(normal) /\ UNCHANGED <<high, low>> /\ Record("normal", Head(normal))
TakeLow    == low' = Tail(low) /\ UNCHANGED <<high, normal>> /\ Record("low", Head(low))

(* dequeueNext, the SBO storm guard: NORMAL gets the slot. *)
DequeueYield ==
    /\ MayDispatch
    /\ high # <<>> /\ normal # <<>>
    /\ sbo >= MaxConsecutiveSboBurst
    /\ sbo' = 0
    /\ preempt' = 0
    /\ TakeNormal
    /\ busy' = TRUE
    /\ UNCHANGED enqueued

(* Mutant: the burst limit is compared one too late. *)
DequeueHighTooLong ==
    /\ MayDispatch
    /\ high # <<>>
    /\ ~(sbo > MaxConsecutiveSboBurst /\ normal # <<>>)
    /\ sbo' = sbo + 1
    /\ preempt' = preempt + 1
    /\ TakeHigh
    /\ busy' = TRUE
    /\ UNCHANGED enqueued

(* dequeueNext, a control write. *)
DequeueHigh ==
    /\ MayDispatch
    /\ high # <<>>
    /\ ~(sbo >= MaxConsecutiveSboBurst /\ normal # <<>>)
    /\ sbo' = sbo + 1
    /\ preempt' = preempt + 1
    /\ TakeHigh
    /\ busy' = TRUE
    /\ UNCHANGED enqueued

(* dequeueNext, the starvation guard of LOW. *)
DequeueLowGuard ==
    /\ MayDispatch
    /\ high = <<>> /\ low # <<>>
    /\ preempt >= MaxConsecutivePreempt
    /\ preempt' = 0
    /\ TakeLow
    /\ busy' = TRUE
    /\ UNCHANGED <<sbo, enqueued>>

(* Mutant: a poll does not count as preempting LOW. *)
DequeueNormalUncounted ==
    /\ MayDispatch
    /\ high = <<>> /\ normal # <<>>
    /\ ~(preempt >= MaxConsecutivePreempt /\ low # <<>>)
    /\ TakeNormal
    /\ busy' = TRUE
    /\ UNCHANGED <<preempt, sbo, enqueued>>

(* dequeueNext, a poll. *)
DequeueNormal ==
    /\ MayDispatch
    /\ high = <<>> /\ normal # <<>>
    /\ ~(preempt >= MaxConsecutivePreempt /\ low # <<>>)
    /\ preempt' = preempt + 1
    /\ TakeNormal
    /\ busy' = TRUE
    /\ UNCHANGED <<sbo, enqueued>>

(* dequeueNext, a slow poll when nothing else waits. *)
DequeueLow ==
    /\ MayDispatch
    /\ high = <<>> /\ normal = <<>> /\ low # <<>>
    /\ preempt < MaxConsecutivePreempt
    /\ preempt' = 0
    /\ TakeLow
    /\ busy' = TRUE
    /\ UNCHANGED <<sbo, enqueued>>

(* onLinkFree *)
LinkFree ==
    /\ busy
    /\ busy' = FALSE
    /\ UNCHANGED enqueued /\ UNCHANGED queues /\ UNCHANGED counters /\ UNCHANGED history

DequeueNext ==
    \/ DequeueYield \/ DequeueHigh \/ DequeueLowGuard \/ DequeueNormal \/ DequeueLow

QueuesNext == Enqueue \/ DequeueNext \/ LinkFree

QueuesSpec == QueuesInit /\ [][QueuesNext]_dequeVars

-----------------------------------------------------------------------------
(* Every variable holds a value of its type. *)
QueuesTypeOK ==
    /\ high \in Seq(Nat) /\ normal \in Seq(Nat) /\ low \in Seq(Nat)
    /\ preempt \in Nat
    /\ sbo \in Nat
    /\ busy \in BOOLEAN
    /\ enqueued \in Nat
    /\ last \in Dispatched \cup {NoTask}
    /\ normalWait \in Nat
    /\ lowRun \in Nat
    /\ lowWait \in Nat

(* Storm guard: however control writes arrive, at most                     *)
(* maxConsecutiveSboBurst of them are sent while a poll waits.             *)
PollsSurviveStorm == normalWait <= MaxConsecutiveSboBurst

(* Starvation guard: without control writes in between, at most            *)
(* maxConsecutivePreempt polls are sent in a row while a slow poll waits.  *)
SlowPollsSurvivePolls == lowRun <= MaxConsecutivePreempt

(* Polls of one class are sent in the order in which they were enqueued:   *)
(* what was just taken is older than all that still waits.                 *)
PollsInOrder ==
    last # NoTask =>
        /\ last.queue = "normal" => \A i \in 1 .. Len(normal) : last.task < normal[i]
        /\ last.queue = "low"    => \A i \in 1 .. Len(low)    : last.task < low[i]

(* Inductive: the counters dominate the waits they bound. *)
WaitsAreCounted ==
    /\ QueuesTypeOK
    /\ normalWait <= sbo
    /\ PollsSurviveStorm
    /\ lowRun <= preempt
    /\ SlowPollsSurvivePolls

-----------------------------------------------------------------------------
(* LLD-100: after maxConsecutivePreempt HIGH or NORMAL dispatches one LOW  *)
(* is forced.                                                              *)
SlowPollsSurviveAll == lowWait <= MaxConsecutivePreempt

(* LLD-100: strictly FIFO on a serial link; the control write just taken   *)
(* is older than those that still wait.                                    *)
ControlsInOrder ==
    (last # NoTask /\ last.queue = "high") =>
        \A i \in 1 .. Len(high) : last.task < high[i]
=============================================================================
