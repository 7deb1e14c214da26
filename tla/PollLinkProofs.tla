--------------------------- MODULE PollLinkProofs ---------------------------
(***************************************************************************)
(* Proofs about PollLink, for any number of transaction ids, slaves and    *)
(* segments and any bound on flaps and writes.  The invariant falls into   *)
(* three parts that are preserved one by one: the matching of requests and *)
(* answers, the event queues, and the poll driver.  Then what is polled,   *)
(* for every point table file, device and limit of a read: the segments    *)
(* cover the points, and what is published is what the device holds.  Then *)
(* the channel the link runs over.  Last the scheduler, for every pair of  *)
(* limits, every number of tasks and every set of slaves: each starvation  *)
(* counter is at least the wait it is meant to bound, and a dispatch that  *)
(* lengthens a wait is only made below the limit; what waits is sorted;    *)
(* each slave is at the stage of its failures, reported once per stage.    *)
(***************************************************************************)
EXTENDS PollLink, TcpChannel, Acquisition, Scheduler, SequenceLemmas, SequenceTheorems,
        FiniteSetTheorems, FunctionTheorems, TLAPS

(* Requests, ids and the connection. *)
MatchingInv ==
    /\ used \subseteq Tids
    /\ inFlight \in [Tids -> InFlightEntry \cup {NoEntry}]
    /\ wire \subseteq [tid : Tids, ask : Asks]
    /\ connected \in BOOLEAN
    /\ TablesAgree
    /\ AnswersFindTheirRequest

(* The two event queues and what the threads believe. *)
QueueInv ==
    /\ started \in BOOLEAN /\ connected \in BOOLEAN
    /\ appConnected \in BOOLEAN /\ running \in BOOLEAN
    /\ toMain \in Seq(BOOLEAN)
    /\ toWorker \in Seq(Calls)
    /\ toMain = <<>> => appConnected = connected
    /\ LastEventIsLink
    /\ LastSwitchIsBelief

(* The poll driver. *)
DriverInv ==
    /\ pending \in Pending
    /\ nextSeg \in Segs
    /\ ticks \in Nat
    /\ decoded \in [asked : Segs, as : Segs] \cup {None}
    /\ flaps \in 0 .. MaxFlaps
    /\ writes \in 0 .. MaxWrites
    /\ DecodedFromItsSlave
    /\ ChainNeverBreaks

LEMMA Parts == IInv <=> MatchingInv /\ QueueInv /\ DriverInv
BY DEF IInv, TypeOK, MatchingInv, QueueInv, DriverInv

LEMMA EntryType == \A ask \in Asks : EntryOf(ask) \in InFlightEntry /\ EntryOf(ask) # NoEntry
BY SegAssumption, WriteAssumption, NoEntryAssumption, SlavesAssumption
   DEF EntryOf, Asks, Write, Segs, InFlightEntry

-----------------------------------------------------------------------------
(* Requests and answers.                                                   *)

(* writeRequest, however it ends, keeps every request findable: the id it  *)
(* registers was free.                                                     *)
LEMMA WriteKeepsMatching ==
    ASSUME MatchingInv, NEW ask \in Asks, connected' = connected,
           WriteRefused \/ WriteFails(ask) \/ WriteSent(ask)
    PROVE  MatchingInv'
<1>1. CASE WriteRefused
  BY <1>1 DEF MatchingInv, WriteRefused, TablesAgree, AnswersFindTheirRequest
<1>2. ASSUME NEW t \in Tids, Lowest(t), Register(t, EntryOf(ask)),
             \/ wire' = wire
             \/ connected /\ wire' = wire \cup {[tid |-> t, ask |-> ask]}
      PROVE  MatchingInv'
  <2>1. t \notin used /\ inFlight[t] = NoEntry
    BY <1>2 DEF Lowest, MatchingInv, TablesAgree
  <2>2. used' = used \cup {t} /\ inFlight' = [inFlight EXCEPT ![t] = EntryOf(ask)]
    BY <1>2, <2>1 DEF Register, MatchingInv
  <2>3. EntryOf(ask) \in InFlightEntry /\ EntryOf(ask) # NoEntry
    BY EntryType
  <2>4. /\ used' \subseteq Tids
        /\ inFlight' \in [Tids -> InFlightEntry \cup {NoEntry}]
        /\ wire' \subseteq [tid : Tids, ask : Asks]
        /\ connected' \in BOOLEAN
    BY <1>2, <2>2, <2>3 DEF MatchingInv
  <2>5. TablesAgree'
    BY <2>2, <2>3 DEF TablesAgree, MatchingInv
  <2>6. \A r \in wire : r.tid # t /\ r.tid \in Tids
    BY <2>1 DEF MatchingInv, AnswersFindTheirRequest
  <2>7. \A r \in wire' : r.tid \in used' /\ inFlight'[r.tid] = EntryOf(r.ask)
    BY <1>2, <2>2, <2>6 DEF MatchingInv, AnswersFindTheirRequest
  <2>8. \A r1, r2 \in wire' : r1.tid = r2.tid => r1 = r2
    BY <1>2, <2>6 DEF MatchingInv, AnswersFindTheirRequest
  <2>9. wire' # {} => connected'
    BY <1>2 DEF MatchingInv, AnswersFindTheirRequest
  <2> QED
    BY <2>4, <2>5, <2>7, <2>8, <2>9 DEF MatchingInv, AnswersFindTheirRequest
<1>3. CASE WriteFails(ask)
  BY <1>2, <1>3 DEF WriteFails
<1>4. CASE WriteSent(ask)
  BY <1>2, <1>4 DEF WriteSent
<1> QED
  BY <1>1, <1>3, <1>4

(* Losing the connection, or finding it, with the requests that die. *)
LEMMA ConnectionKeepsMatching ==
    ASSUME MatchingInv, NEW up \in BOOLEAN, EngineConnectionChanged(up),
           connected' \in BOOLEAN,
           \/ wire' = {}
           \/ up /\ connected' = TRUE /\ wire' = wire
    PROVE  MatchingInv'
<1>1. CASE up
  BY <1>1 DEF EngineConnectionChanged, MatchingInv, TablesAgree, AnswersFindTheirRequest
<1>2. CASE ~up
  BY <1>2 DEF EngineConnectionChanged, MatchingInv, TablesAgree, AnswersFindTheirRequest
<1> QED
  BY <1>1, <1>2

(* An answer settles exactly its own request. *)
LEMMA AnswerKeepsMatching ==
    ASSUME MatchingInv, NEW r \in wire, Settle(r.tid), wire' = wire \ {r},
           connected' = connected
    PROVE  MatchingInv'
<1>1. r.tid \in Tids
  BY DEF MatchingInv
<1>2. /\ used' \subseteq Tids
      /\ inFlight' \in [Tids -> InFlightEntry \cup {NoEntry}]
      /\ wire' \subseteq [tid : Tids, ask : Asks]
      /\ connected' \in BOOLEAN
  BY <1>1 DEF MatchingInv, Settle
<1>3. TablesAgree'
  BY <1>1 DEF MatchingInv, Settle, TablesAgree
<1>4. \A q \in wire' : q \in wire /\ q.tid # r.tid /\ q.tid \in Tids
  BY DEF MatchingInv, AnswersFindTheirRequest
<1>5. AnswersFindTheirRequest'
  BY <1>1, <1>4 DEF MatchingInv, Settle, AnswersFindTheirRequest
<1> QED
  BY <1>2, <1>3, <1>5 DEF MatchingInv

(* A request that is lost leaves its id registered, which does no harm. *)
LEMMA LossKeepsMatching ==
    ASSUME MatchingInv, wire' \subseteq wire, UNCHANGED <<used, inFlight, connected>>
    PROVE  MatchingInv'
BY DEF MatchingInv, TablesAgree, AnswersFindTheirRequest

LEMMA MatchingStep == MatchingInv /\ DriverInv /\ [Next]_vars => MatchingInv'
<1> SUFFICES ASSUME MatchingInv, DriverInv, [Next]_vars PROVE MatchingInv'
  OBVIOUS
<1>1. CASE LinkUp
  BY <1>1, ConnectionKeepsMatching DEF LinkUp
<1>2. CASE LinkDown
  BY <1>2, ConnectionKeepsMatching DEF LinkDown
<1>3. CASE PollTickStopped
  BY <1>3, LossKeepsMatching DEF PollTickStopped, engineVars
<1>4. CASE PollTickSkips \/ UNCHANGED vars
  BY <1>4, LossKeepsMatching DEF PollTickSkips, vars
<1>5. CASE PollTick
  <2>1. nextSeg \in Asks
    BY DEF DriverInv, Asks
  <2> QED
    BY <1>5, <2>1, WriteKeepsMatching DEF PollTick
<1>6. ASSUME NEW r \in wire, NEW ok \in BOOLEAN, DeviceAnswers(r, ok)
      PROVE  MatchingInv'
  BY <1>6, AnswerKeepsMatching DEF DeviceAnswers
<1>7. ASSUME NEW r \in wire, DeviceGarbles(r)
      PROVE  MatchingInv'
  BY <1>7, LossKeepsMatching DEF DeviceGarbles, engineVars
<1>8. CASE WorkerEvent
  <2>1. CASE StartPolling \/ StopPolling \/ ResetPending
    BY <1>8, <2>1, LossKeepsMatching
       DEF WorkerEvent, StartPolling, StopPolling, ResetPending
  <2>2. CASE SendCommand
    <3>1. Write \in Asks
      BY DEF Asks
    <3> QED
      BY <1>8, <2>2, <3>1, WriteKeepsMatching DEF WorkerEvent, SendCommand
  <2> QED
    BY <1>8, <2>1, <2>2 DEF WorkerEvent
<1>9. CASE ConnectionChanged \/ ConnectionChangedLate \/ DispatchSboCommand
  BY <1>9, LossKeepsMatching
     DEF ConnectionChanged, ConnectionChangedLate, DispatchSboCommand, engineVars
<1>10. CASE Stop
  <2>1. (~connected) \in BOOLEAN
    OBVIOUS
  <2> QED
    BY <1>10, <2>1, ConnectionKeepsMatching DEF Stop
<1> QED
  BY <1>1, <1>2, <1>3, <1>4, <1>5, <1>6, <1>7, <1>8, <1>9, <1>10 DEF Next

-----------------------------------------------------------------------------
(* Queues.                                                                 *)

(* A call that is no switch changes nothing at the end of a queue. *)
LEMMA AppendOther ==
    ASSUME NEW q \in Seq(Calls), NEW c \in Calls, ~IsSwitch(c), NEW on \in BOOLEAN
    PROVE  /\ NoSwitch(q) => NoSwitch(Append(q, c))
           /\ LastSwitch(q, on) => LastSwitch(Append(q, c), on)
<1>1. /\ Len(Append(q, c)) = Len(q) + 1
      /\ \A i \in 1 .. Len(q) : Append(q, c)[i] = q[i]
      /\ Append(q, c)[Len(q) + 1] = c
      /\ Len(q) \in Nat
  OBVIOUS
<1>2. NoSwitch(q) => NoSwitch(Append(q, c))
  BY <1>1 DEF NoSwitch
<1>3. ASSUME LastSwitch(q, on) PROVE LastSwitch(Append(q, c), on)
  <2>1. PICK i \in 1 .. Len(q) :
            /\ q[i] = IF on THEN "start" ELSE "stop"
            /\ \A j \in i + 1 .. Len(q) : ~IsSwitch(q[j])
    BY <1>3 DEF LastSwitch
  <2>2. \A j \in i + 1 .. Len(Append(q, c)) : ~IsSwitch(Append(q, c)[j])
    BY <1>1, <2>1
  <2> QED
    BY <1>1, <2>1, <2>2 DEF LastSwitch
<1> QED
  BY <1>2, <1>3

(* A switch at the end of a queue is its last. *)
LEMMA AppendSwitch ==
    ASSUME NEW q \in Seq(Calls), NEW on \in BOOLEAN
    PROVE  LastSwitch(Append(q, IF on THEN "start" ELSE "stop"), on)
<1> DEFINE c == IF on THEN "start" ELSE "stop"
<1>1. c \in Calls
  BY DEF Calls
<1>2. /\ Len(Append(q, c)) = Len(q) + 1
      /\ Append(q, c)[Len(q) + 1] = c
      /\ Len(q) \in Nat
  BY <1>1
<1>3. \A j \in (Len(q) + 1) + 1 .. Len(Append(q, c)) : FALSE
  BY <1>2
<1> QED
  BY <1>2, <1>3 DEF LastSwitch

(* Taking the first call off a queue. *)
LEMMA TailSwitch ==
    ASSUME NEW q \in Seq(Calls), q # <<>>, NEW on \in BOOLEAN
    PROVE  /\ NoSwitch(q) => NoSwitch(Tail(q)) /\ ~IsSwitch(Head(q))
           /\ LastSwitch(q, on) =>
                 \/ LastSwitch(Tail(q), on)
                 \/ NoSwitch(Tail(q)) /\ Head(q) = IF on THEN "start" ELSE "stop"
<1>1. /\ Len(q) \in Nat \ {0}
      /\ Len(Tail(q)) = Len(q) - 1
      /\ \A i \in 1 .. Len(q) - 1 : Tail(q)[i] = q[i + 1]
      /\ Head(q) = q[1]
  OBVIOUS
<1>2. NoSwitch(q) => NoSwitch(Tail(q)) /\ ~IsSwitch(Head(q))
  BY <1>1 DEF NoSwitch
<1>3. ASSUME LastSwitch(q, on)
      PROVE  \/ LastSwitch(Tail(q), on)
             \/ NoSwitch(Tail(q)) /\ Head(q) = IF on THEN "start" ELSE "stop"
  <2>1. PICK i \in 1 .. Len(q) :
            /\ q[i] = IF on THEN "start" ELSE "stop"
            /\ \A j \in i + 1 .. Len(q) : ~IsSwitch(q[j])
    BY <1>3 DEF LastSwitch
  <2>2. CASE i = 1
    BY <1>1, <2>1, <2>2 DEF NoSwitch
  <2>3. CASE i # 1
    <3>1. i - 1 \in 1 .. Len(Tail(q)) /\ Tail(q)[i - 1] = q[i]
      BY <1>1, <2>1, <2>3
    <3>2. \A j \in (i - 1) + 1 .. Len(Tail(q)) : ~IsSwitch(Tail(q)[j])
      BY <1>1, <2>1
    <3> QED
      BY <2>1, <3>1, <3>2 DEF LastSwitch
  <2> QED
    BY <2>2, <2>3
<1> QED
  BY <1>2, <1>3

(* Taking the first event off the queue of the main thread. *)
LEMMA EventTail ==
    ASSUME NEW q \in Seq(BOOLEAN), q # <<>>
    PROVE  /\ Tail(q) \in Seq(BOOLEAN) /\ Head(q) \in BOOLEAN
           /\ Tail(q) # <<>> => Tail(q)[Len(Tail(q))] = q[Len(q)]
           /\ Tail(q) = <<>> => Head(q) = q[Len(q)]
<1>1. /\ Len(q) \in Nat \ {0}
      /\ Len(Tail(q)) = Len(q) - 1
      /\ \A i \in 1 .. Len(q) - 1 : Tail(q)[i] = q[i + 1]
      /\ Head(q) = q[1]
  OBVIOUS
<1>2. Tail(q) \in Seq(BOOLEAN) /\ Head(q) \in BOOLEAN
  OBVIOUS
<1>3. Tail(q) = <<>> <=> Len(Tail(q)) = 0
  BY <1>2, EmptySeq
<1>4. CASE Len(Tail(q)) = 0
  BY <1>1, <1>2, <1>3, <1>4
<1>5. CASE Len(Tail(q)) # 0
  BY <1>1, <1>2, <1>3, <1>5
<1> QED
  BY <1>4, <1>5

(* A new state of the connection joins the events for the main thread. *)
LEMMA EventAppended ==
    ASSUME NEW q \in Seq(BOOLEAN), NEW b \in BOOLEAN
    PROVE  /\ Append(q, b) \in Seq(BOOLEAN) /\ Append(q, b) # <<>>
           /\ Append(q, b)[Len(Append(q, b))] = b
OBVIOUS

LEMMA QueueStep == QueueInv /\ [Next]_vars => QueueInv'
<1> SUFFICES ASSUME QueueInv, [Next]_vars PROVE QueueInv'
  OBVIOUS
<1>1. ASSUME UNCHANGED <<started, connected, appConnected, running, toMain, toWorker>>
      PROVE  QueueInv'
  BY <1>1 DEF QueueInv, LastEventIsLink, LastSwitchIsBelief
<1>2. CASE LinkUp \/ LinkDown
  <2>1. /\ connected' \in BOOLEAN /\ toMain' = Append(toMain, connected')
        /\ UNCHANGED <<started, appConnected, running, toWorker>>
    BY <1>2 DEF LinkUp, LinkDown, driverVars
  <2> QED
    BY <2>1, EventAppended DEF QueueInv, LastEventIsLink, LastSwitchIsBelief
<1>3. CASE PollTickStopped
  BY <1>1, <1>3 DEF PollTickStopped, appVars, queueVars
<1>4. CASE PollTickSkips \/ UNCHANGED vars
  BY <1>1, <1>4 DEF PollTickSkips, vars
<1>5. CASE PollTick
  BY <1>1, <1>5 DEF PollTick, appVars, queueVars
<1>6. ASSUME NEW r \in wire, NEW ok \in BOOLEAN, DeviceAnswers(r, ok)
      PROVE  QueueInv'
  BY <1>1, <1>6 DEF DeviceAnswers, appVars, queueVars
<1>7. ASSUME NEW r \in wire, DeviceGarbles(r)
      PROVE  QueueInv'
  BY <1>1, <1>7 DEF DeviceGarbles, driverVars, appVars, queueVars
<1>8. CASE WorkerEvent
  <2>1. /\ toWorker # <<>> /\ toWorker' = Tail(toWorker) /\ started
        /\ UNCHANGED <<started, connected, appConnected, toMain>>
    BY <1>8 DEF WorkerEvent, appVars
  <2>2. Tail(toWorker) \in Seq(Calls)
    BY <2>1 DEF QueueInv
  <2>3. /\ running' \in BOOLEAN
        /\ Head(toWorker) = "start" => running' = TRUE
        /\ Head(toWorker) = "stop" => running' = FALSE
        /\ ~IsSwitch(Head(toWorker)) => running' = running
    BY <1>8 DEF WorkerEvent, StartPolling, StopPolling, ResetPending, SendCommand,
                IsSwitch, QueueInv
  <2>4. /\ NoSwitch(toWorker) => NoSwitch(Tail(toWorker)) /\ ~IsSwitch(Head(toWorker))
        /\ LastSwitch(toWorker, appConnected) =>
              \/ LastSwitch(Tail(toWorker), appConnected)
              \/ /\ NoSwitch(Tail(toWorker))
                 /\ Head(toWorker) = IF appConnected THEN "start" ELSE "stop"
    BY <2>1, TailSwitch DEF QueueInv
  <2>5. LastSwitchIsBelief'
    BY <2>1, <2>3, <2>4 DEF QueueInv, LastSwitchIsBelief
  <2> QED
    BY <2>1, <2>2, <2>3, <2>5 DEF QueueInv, LastEventIsLink
<1>9. CASE ConnectionChanged
  <2>1. /\ toMain # <<>> /\ toMain' = Tail(toMain) /\ appConnected' = Head(toMain)
        /\ UNCHANGED <<started, connected, running>>
        /\ toWorker' = IF Head(toMain) THEN Append(toWorker, "start")
                         ELSE Append(Append(toWorker, "stop"), "reset")
    BY <1>9 DEF ConnectionChanged, driverVars
  <2>2. /\ toMain' \in Seq(BOOLEAN) /\ appConnected' \in BOOLEAN
        /\ toMain' = <<>> => appConnected' = connected'
        /\ LastEventIsLink'
    BY <2>1, EventTail DEF QueueInv, LastEventIsLink
  <2>3. CASE Head(toMain)
    <3>1. toWorker' = Append(toWorker, "start") /\ appConnected' = TRUE
      BY <2>1, <2>2, <2>3
    <3>2. toWorker' \in Seq(Calls)
      BY <3>1 DEF QueueInv, Calls
    <3>3. LastSwitch(toWorker', appConnected')
      BY <3>1, AppendSwitch DEF QueueInv
    <3> QED
      BY <2>1, <2>2, <3>2, <3>3 DEF QueueInv, LastSwitchIsBelief
  <2>4. CASE ~Head(toMain)
    <3> DEFINE q == Append(toWorker, "stop")
    <3>1. toWorker' = Append(q, "reset") /\ appConnected' = FALSE
      BY <2>1, <2>2, <2>4
    <3>2. q \in Seq(Calls) /\ "reset" \in Calls /\ ~IsSwitch("reset")
      BY DEF QueueInv, Calls, IsSwitch
    <3>3. LastSwitch(q, FALSE)
      BY AppendSwitch DEF QueueInv
    <3> HIDE DEF q
    <3>4. LastSwitch(toWorker', appConnected')
      BY <3>1, <3>2, <3>3, AppendOther
    <3>5. toWorker' \in Seq(Calls)
      BY <3>1, <3>2
    <3> QED
      BY <2>1, <2>2, <3>4, <3>5 DEF QueueInv, LastSwitchIsBelief
  <2> QED
    BY <2>3, <2>4
<1>10. CASE ConnectionChangedLate
  <2>1. /\ toMain # <<>> /\ toMain' = Tail(toMain) /\ appConnected' = Head(toMain)
        /\ ~started
        /\ UNCHANGED <<started, connected, running, toWorker>>
    BY <1>10 DEF ConnectionChangedLate, driverVars
  <2>2. /\ toMain' \in Seq(BOOLEAN) /\ appConnected' \in BOOLEAN
        /\ toMain' = <<>> => appConnected' = connected'
        /\ LastEventIsLink'
    BY <2>1, EventTail DEF QueueInv, LastEventIsLink
  <2> QED
    BY <2>1, <2>2 DEF QueueInv, LastSwitchIsBelief
<1>11. CASE DispatchSboCommand
  <2>1. /\ toWorker' = Append(toWorker, "write")
        /\ UNCHANGED <<started, connected, appConnected, running, toMain>>
    BY <1>11 DEF DispatchSboCommand, driverVars
  <2>2. "write" \in Calls /\ ~IsSwitch("write")
    BY DEF Calls, IsSwitch
  <2>3. toWorker' \in Seq(Calls)
    BY <2>1, <2>2 DEF QueueInv
  <2>4. LastSwitchIsBelief'
    BY <2>1, <2>2, AppendOther DEF QueueInv, LastSwitchIsBelief
  <2> QED
    BY <2>1, <2>3, <2>4 DEF QueueInv, LastEventIsLink
<1>12. CASE Stop
  <2>1. /\ started' = FALSE /\ running' = FALSE
        /\ connected' = FALSE /\ appConnected' = FALSE
        /\ toMain' = IF connected THEN Append(toMain, FALSE) ELSE toMain
        /\ UNCHANGED toWorker
    BY <1>12 DEF Stop
  <2>2. toMain' \in Seq(BOOLEAN) /\ LastEventIsLink'
    BY <2>1, EventAppended DEF QueueInv, LastEventIsLink
  <2> QED
    BY <2>1, <2>2 DEF QueueInv, LastSwitchIsBelief
<1> QED
  BY <1>2, <1>3, <1>4, <1>5, <1>6, <1>7, <1>8, <1>9, <1>10, <1>11, <1>12
     DEF Next

-----------------------------------------------------------------------------
(* The poll driver.                                                        *)

LEMMA DriverStep ==
    MatchingInv /\ QueueInv /\ DriverInv /\ [Next]_vars => DriverInv'
<1> SUFFICES ASSUME MatchingInv, QueueInv, DriverInv, [Next]_vars PROVE DriverInv'
  OBVIOUS
<1>1. ASSUME UNCHANGED <<running, pending, nextSeg, ticks, decoded>>,
             flaps' \in 0 .. MaxFlaps, writes' \in 0 .. MaxWrites
      PROVE  DriverInv'
  BY <1>1 DEF DriverInv, DecodedFromItsSlave, ChainNeverBreaks
<1>2. CASE LinkUp \/ LinkDown
  <2>1. /\ flaps' = flaps \/ (flaps < MaxFlaps /\ flaps' = flaps + 1)
        /\ writes' = writes
    BY <1>2 DEF LinkUp, LinkDown
  <2>2. flaps' \in 0 .. MaxFlaps
    BY <2>1, BoundAssumption DEF DriverInv
  <2> QED
    BY <1>1, <1>2, <2>1, <2>2 DEF LinkUp, LinkDown, driverVars, DriverInv
<1>3. CASE PollTickStopped
  <2>1. /\ ticks' \in Nat /\ ~running'
        /\ UNCHANGED <<pending, nextSeg, decoded, flaps, writes>>
    BY <1>3 DEF PollTickStopped, DriverInv, appVars
  <2> QED
    BY <2>1 DEF DriverInv, DecodedFromItsSlave, ChainNeverBreaks
<1>4. CASE PollTickSkips \/ UNCHANGED vars
  BY <1>1, <1>4 DEF PollTickSkips, vars, DriverInv
<1>5. CASE PollTick
  <2>1. /\ nextSeg' = (nextSeg + 1) % NSeg
        /\ pending' = pending \/ pending' = [active |-> TRUE, seg |-> nextSeg]
        /\ UNCHANGED <<running, ticks, decoded, flaps, writes>>
    BY <1>5 DEF PollTick, appVars
  <2>2. nextSeg' \in Segs
    <3>1. nextSeg + 1 \in Nat /\ NSeg \in Nat \ {0}
      BY SegAssumption DEF DriverInv, Segs
    <3>2. \A n \in Nat, k \in Nat \ {0} : n % k \in 0 .. k - 1
      OBVIOUS
    <3> QED
      BY <2>1, <3>1, <3>2 DEF Segs
  <2>3. pending' \in Pending
    <3>1. pending \in Pending /\ [active |-> TRUE, seg |-> nextSeg] \in Pending
      BY DEF DriverInv, Pending
    <3> QED
      BY <2>1, <3>1
  <2> QED
    BY <2>1, <2>2, <2>3 DEF DriverInv, DecodedFromItsSlave, ChainNeverBreaks
<1>6. ASSUME NEW r \in wire, NEW ok \in BOOLEAN, DeviceAnswers(r, ok)
      PROVE  DriverInv'
  <2>1. UNCHANGED <<running, nextSeg, ticks, flaps, writes>>
    BY <1>6 DEF DeviceAnswers, appVars
  <2>2. pending' \in Pending
    BY <1>6 DEF DeviceAnswers, DriverInv, Pending
  <2>3. CASE ~(MatchesPending(r) /\ ok)
    BY <1>6, <2>1, <2>2, <2>3
       DEF DeviceAnswers, DriverInv, DecodedFromItsSlave, ChainNeverBreaks
  <2>4. CASE MatchesPending(r) /\ ok
    <3>1. r.ask \in Segs /\ pending.seg \in Segs
      BY <2>4 DEF MatchesPending, MatchingInv, DriverInv, Pending, Asks
    <3>2. EntryOf(r.ask) = EntryOf(pending.seg) /\ FcOf[r.ask] = FcOf[pending.seg]
      BY <2>4 DEF MatchesPending, MatchingInv, AnswersFindTheirRequest
    <3>3. r.ask # Write /\ pending.seg # Write
      BY <3>1, SegAssumption DEF Segs, Write
    <3>4. SlaveOf[r.ask] = SlaveOf[pending.seg]
      BY <3>2, <3>3 DEF EntryOf
    <3>5. decoded' = [asked |-> r.ask, as |-> pending.seg]
      BY <1>6, <2>4 DEF DeviceAnswers
    <3>6. decoded' \in [asked : Segs, as : Segs] /\ DecodedFromItsSlave'
      BY <3>1, <3>2, <3>4, <3>5 DEF DecodedFromItsSlave
    <3> QED
      BY <2>1, <2>2, <3>6 DEF DriverInv, ChainNeverBreaks
  <2> QED
    BY <2>3, <2>4
<1>7. ASSUME NEW r \in wire, DeviceGarbles(r)
      PROVE  DriverInv'
  <2>1. UNCHANGED <<running, nextSeg, ticks, decoded, flaps, writes>>
    BY <1>7 DEF DeviceGarbles, driverVars, appVars
  <2>2. pending' \in Pending
    BY <1>7 DEF DeviceGarbles, driverVars, DriverInv, Pending
  <2> QED
    BY <2>1, <2>2 DEF DriverInv, DecodedFromItsSlave, ChainNeverBreaks
<1>8. CASE WorkerEvent
  <2>1. UNCHANGED <<nextSeg, decoded, flaps, writes>>
    BY <1>8 DEF WorkerEvent, appVars
  <2>2. pending' \in Pending
    BY <1>8 DEF WorkerEvent, StartPolling, StopPolling, ResetPending, SendCommand,
                DriverInv, Pending
  <2>3. ticks' \in Nat /\ ChainNeverBreaks'
    BY <1>8 DEF WorkerEvent, StartPolling, StopPolling, ResetPending, SendCommand,
                DriverInv, ChainNeverBreaks
  <2> QED
    BY <2>1, <2>2, <2>3 DEF DriverInv, DecodedFromItsSlave
<1>9. CASE ConnectionChanged \/ ConnectionChangedLate \/ DispatchSboCommand
  <2>1. /\ flaps' = flaps
        /\ writes' = writes \/ (writes < MaxWrites /\ writes' = writes + 1)
    BY <1>9 DEF ConnectionChanged, ConnectionChangedLate, DispatchSboCommand
  <2>2. writes' \in 0 .. MaxWrites
    BY <2>1, BoundAssumption DEF DriverInv
  <2> QED
    BY <1>1, <1>9, <2>1, <2>2
       DEF ConnectionChanged, ConnectionChangedLate, DispatchSboCommand,
           driverVars, DriverInv
<1>10. CASE Stop
  BY <1>10 DEF Stop, DriverInv, DecodedFromItsSlave, ChainNeverBreaks
<1> QED
  BY <1>1, <1>2, <1>3, <1>4, <1>5, <1>6, <1>7, <1>8, <1>9, <1>10 DEF Next

-----------------------------------------------------------------------------
LEMMA InitHolds == Init => IInv
<1> SUFFICES ASSUME Init PROVE IInv
  OBVIOUS
<1>1. MatchingInv
  BY DEF Init, EngineInit, MatchingInv, TablesAgree, AnswersFindTheirRequest
<1>2. QueueInv
  <2>1. /\ started = TRUE /\ connected = FALSE /\ appConnected = FALSE
        /\ running = FALSE /\ toMain = <<>> /\ toWorker = <<>>
    BY DEF Init
  <2>2. NoSwitch(toWorker)
    BY <2>1 DEF NoSwitch
  <2>3. toMain \in Seq(BOOLEAN) /\ toWorker \in Seq(Calls)
    BY <2>1
  <2> QED
    BY <2>1, <2>2, <2>3 DEF QueueInv, LastEventIsLink, LastSwitchIsBelief
<1>3. DriverInv
  BY SegAssumption, BoundAssumption
     DEF Init, DriverInv, Pending, Segs, DecodedFromItsSlave, ChainNeverBreaks
<1> QED
  BY <1>1, <1>2, <1>3, Parts

(* The inductive invariant holds in every reachable state. *)
THEOREM LinkInvariance == Spec => []IInv
<1>1. IInv /\ [Next]_vars => IInv'
  <2> SUFFICES ASSUME IInv, [Next]_vars PROVE IInv'
    OBVIOUS
  <2>1. MatchingInv' /\ QueueInv' /\ DriverInv'
    BY Parts, MatchingStep, QueueStep, DriverStep
  <2> QED
    BY <2>1 DEF IInv, TypeOK, MatchingInv, QueueInv, DriverInv
<1> QED
  BY <1>1, InitHolds, PTL DEF Spec

(* Type correctness of the acquisition path. *)
THEOREM LinkTypeCorrect == Spec => []TypeOK
<1>1. IInv => TypeOK
  BY DEF IInv
<1> QED
  BY <1>1, LinkInvariance, PTL

(* ModbusEngine: bitmap and table agree, and every request on the          *)
(* connection will be matched with its own answer, whatever is lost,       *)
(* garbled or cut off.                                                     *)
THEOREM MatchingIsExact == Spec => [](TablesAgree /\ AnswersFindTheirRequest)
<1>1. IInv => TablesAgree /\ AnswersFindTheirRequest
  BY DEF IInv
<1> QED
  BY <1>1, LinkInvariance, PTL

(* PollDriver::onResponseParsed publishes nothing from another slave or    *)
(* register type.                                                          *)
THEOREM NoForeignSamples == Spec => []DecodedFromItsSlave
<1>1. IInv => DecodedFromItsSlave
  BY DEF IInv
<1> QED
  BY <1>1, LinkInvariance, PTL

(* PollDriver: the tick chain outlives every early return. *)
THEOREM ChainSurvives == Spec => []ChainNeverBreaks
<1>1. IInv => ChainNeverBreaks
  BY DEF IInv
<1> QED
  BY <1>1, LinkInvariance, PTL

(* The queued startPolling and stopPolling calls leave the driver in the   *)
(* state of the connection once they are delivered.                        *)
THEOREM DriverFollowsLink == Spec => []PollingFollowsLink
<1>1. IInv => PollingFollowsLink
  <2> SUFFICES ASSUME IInv PROVE PollingFollowsLink
    OBVIOUS
  <2>1. ~(NoSwitch(toWorker) /\ LastSwitch(toWorker, appConnected))
    BY DEF NoSwitch, LastSwitch, IsSwitch
  <2> QED
    BY <2>1 DEF IInv, PollingFollowsLink, LastSwitchIsBelief
<1> QED
  BY <1>1, LinkInvariance, PTL

-----------------------------------------------------------------------------
(* The points that are read                                                *)

PointsIn(file) == {RowRead(row) : row \in ToSet(file.points)}
PointKey(p) == <<p.slaveAddress, p.registerAddr>>

(* Functions on some of the elements of a set. *)
Partial(D, T) == UNION {[S -> T] : S \in SUBSET D}

Tables(P) == [loaded : BOOLEAN, byPointId : Partial(Int, P),
              byAddr : Partial(Int \X Int, Int), bySlave : Partial(Int, Seq(Int))]

(* The three indexes have the same points, each with what its row says. *)
IdsFit(t) == \A i \in DOMAIN t.byPointId : t.byPointId[i].pointId = i
AddrsFit(t) ==
    \A i \in DOMAIN t.byPointId : /\ PointKey(t.byPointId[i]) \in DOMAIN t.byAddr
                                  /\ t.byAddr[PointKey(t.byPointId[i])] = i
SlaveFits(t, i) ==
    /\ t.byPointId[i].slaveAddress \in DOMAIN t.bySlave
    /\ \E k \in DOMAIN t.bySlave[t.byPointId[i].slaveAddress] :
          t.bySlave[t.byPointId[i].slaveAddress][k] = i
SlaveListed(t, s) ==
    \A k \in DOMAIN t.bySlave[s] : /\ t.bySlave[s][k] \in DOMAIN t.byPointId
                                   /\ t.byPointId[t.bySlave[s][k]].slaveAddress = s
SlavesFit(t) ==
    /\ \A i \in DOMAIN t.byPointId : SlaveFits(t, i)
    /\ \A s \in DOMAIN t.bySlave : SlaveListed(t, s)
Decodable(p) == p.regType \in RegisterType /\ p.dataType \in DataType /\ p.byteOrder \in ByteOrder
GoodTable(t) ==
    /\ IsFiniteSet(DOMAIN t.byPointId)
    /\ IdsFit(t) /\ AddrsFit(t) /\ SlavesFit(t)
    /\ \A i \in DOMAIN t.byPointId : Decodable(t.byPointId[i])
LoadedTables(P) == {t \in Tables(P) : t.loaded => GoodTable(t)}

GoodPoint(p) == p.pointId \in Int /\ p.slaveAddress \in Int /\ p.registerAddr \in Nat /\ p.enabled \in BOOLEAN

(* What the loader is given. *)
LEMMA RowsAreGood ==
    ASSUME NEW file \in TableFiles, NEW row \in ToSet(file.points)
    PROVE  /\ GoodPoint(RowRead(row)) /\ RowRead(row) \in PointsIn(file)
           /\ RowRead(row).regType = row.regType /\ RowRead(row).dataType = row.dataType
           /\ RowRead(row).byteOrder = row.byteOrder
<1>1. /\ DOMAIN row = {"pointId", "slaveAddress", "regType", "dataType", "byteOrder",
                       "registerAddr", "scaleFactor", "offset", "enabled"}
      /\ row.pointId \in Int /\ row.slaveAddress \in Int /\ row.registerAddr \in Int
      /\ row.enabled \in BOOLEAN
  BY TableFilesAssumption
<1>2. row.registerAddr % 65536 \in Nat /\ row.slaveAddress % 256 \in Int /\ row.pointId % IdRange \in Int
  BY <1>1, IdRangeAssumption
<1>3. /\ RowRead(row).pointId = row.pointId % IdRange /\ RowRead(row).slaveAddress = row.slaveAddress % 256
      /\ RowRead(row).registerAddr = row.registerAddr % 65536 /\ RowRead(row).enabled = row.enabled
      /\ RowRead(row).regType = row.regType /\ RowRead(row).dataType = row.dataType
      /\ RowRead(row).byteOrder = row.byteOrder
  BY <1>1 DEF RowRead, ParseRegisterAddr
<1>4. RowRead(row) \in PointsIn(file)
  BY DEF PointsIn
<1> QED
  BY <1>1, <1>2, <1>3, <1>4 DEF GoodPoint

(* What a row adds to a table. *)
Extends(g, f, k, v) ==
    g = [i \in DOMAIN f \cup {k} |-> IF i = k THEN v ELSE f[i]]
Listed(t, s) == IF s \in DOMAIN t.bySlave THEN t.bySlave[s] ELSE <<>>
Adds(u, t, p) ==
    /\ u.loaded = TRUE
    /\ p.pointId \notin DOMAIN t.byPointId /\ PointKey(p) \notin DOMAIN t.byAddr
    /\ Extends(u.byPointId, t.byPointId, p.pointId, p)
    /\ Extends(u.byAddr, t.byAddr, PointKey(p), p.pointId)
    /\ u.bySlave = [s \in DOMAIN t.bySlave \cup {p.slaveAddress} |->
                        Listed(t, s) \o IF s = p.slaveAddress THEN <<p.pointId>> ELSE <<>>]

LEMMA RowIsAddedOrRefused ==
    ASSUME NEW file \in TableFiles, NEW row \in ToSet(file.points), NEW t
    PROVE  \/ AddRow(t, row) = NoTable
           \/ t.loaded /\ Adds(AddRow(t, row), t, RowRead(row)) /\ Decodable(RowRead(row))
              /\ AddRow(t, row) = [loaded |-> AddRow(t, row).loaded, byPointId |-> AddRow(t, row).byPointId,
                                   byAddr |-> AddRow(t, row).byAddr, bySlave |-> AddRow(t, row).bySlave]
<1> DEFINE p == RowRead(row)
<1>1. p.regType = row.regType /\ p.dataType = row.dataType /\ p.byteOrder = row.byteOrder
  BY RowsAreGood
<1> SUFFICES ASSUME AddRow(t, row) # NoTable
             PROVE  t.loaded /\ Adds(AddRow(t, row), t, p) /\ Decodable(p)
                    /\ AddRow(t, row) = [loaded |-> AddRow(t, row).loaded, byPointId |-> AddRow(t, row).byPointId,
                                   byAddr |-> AddRow(t, row).byAddr, bySlave |-> AddRow(t, row).bySlave]
  OBVIOUS
<1>2. /\ t.loaded /\ row.regType \in RegisterType /\ row.dataType \in DataType
      /\ row.byteOrder \in ByteOrder
      /\ p.pointId \notin DOMAIN t.byPointId /\ PointKey(p) \notin DOMAIN t.byAddr
  BY DEF AddRow, RowRead, PointKey
<1>3. AddRow(t, row) =
         [loaded    |-> TRUE,
          byPointId |-> [i \in DOMAIN t.byPointId \cup {p.pointId} |->
                            IF i = p.pointId THEN p ELSE t.byPointId[i]],
          byAddr    |-> [k \in DOMAIN t.byAddr \cup {PointKey(p)} |->
                            IF k = PointKey(p) THEN p.pointId ELSE t.byAddr[k]],
          bySlave   |-> [s \in DOMAIN t.bySlave \cup {p.slaveAddress} |->
                            Listed(t, s) \o IF s = p.slaveAddress THEN <<p.pointId>> ELSE <<>>]]
  BY <1>2 DEF AddRow, RowRead, PointKey, Listed
<1> HIDE DEF p
<1>4. Adds(AddRow(t, row), t, p)
  BY <1>2, <1>3 DEF Adds, Extends
<1> QED
  BY <1>1, <1>2, <1>3, <1>4 DEF Decodable

LEMMA NoTableIsATable == ASSUME NEW P PROVE NoTable \in LoadedTables(P) /\ EmptyTable \in LoadedTables(P)
<1>1. ASSUME NEW D, NEW T PROVE <<>> \in Partial(D, T)
  <2>1. <<>> \in [{} -> T]
    OBVIOUS
  <2> QED
    BY <2>1 DEF Partial
<1>2. NoTable \in Tables(P) /\ EmptyTable \in Tables(P) /\ ~NoTable.loaded
  BY <1>1 DEF Tables, NoTable, EmptyTable
<1>3. DOMAIN EmptyTable.byPointId = {} /\ DOMAIN EmptyTable.bySlave = {}
  BY DEF EmptyTable, NoTable
<1>4. IsFiniteSet(DOMAIN EmptyTable.byPointId)
  BY <1>3, FS_EmptySet
<1>5. GoodTable(EmptyTable)
  BY <1>3, <1>4 DEF GoodTable, IdsFit, AddrsFit, SlavesFit
<1> QED
  BY <1>2, <1>5 DEF LoadedTables

LEMMA PartialType ==
    ASSUME NEW D, NEW T, NEW f \in Partial(D, T)
    PROVE  \A i \in DOMAIN f : i \in D /\ f[i] \in T
<1>1. PICK S \in SUBSET D : f \in [S -> T]
  BY DEF Partial
<1> QED
  BY <1>1

LEMMA PartialExtends ==
    ASSUME NEW D, NEW T, NEW f \in Partial(D, T), NEW k \in D, NEW v \in T,
           NEW g, Extends(g, f, k, v)
    PROVE  /\ g \in Partial(D, T) /\ DOMAIN g = DOMAIN f \cup {k} /\ g[k] = v
           /\ \A i \in DOMAIN f : i # k => g[i] = f[i]
<1>1. PICK S \in SUBSET D : f \in [S -> T]
  BY DEF Partial
<1>2. g \in [S \cup {k} -> T] /\ S \cup {k} \in SUBSET D
  BY <1>1 DEF Extends
<1>3. g \in Partial(D, T)
  BY <1>2 DEF Partial
<1>4. DOMAIN g = DOMAIN f \cup {k} /\ g[k] = v /\ \A i \in DOMAIN f : i # k => g[i] = f[i]
  BY DEF Extends
<1> QED
  BY <1>3, <1>4

(* A row that is added leaves every index as it should be. *)
LEMMA RowKeepsTables ==
    ASSUME NEW file \in TableFiles, NEW row \in ToSet(file.points), NEW t \in LoadedTables(PointsIn(file))
    PROVE  AddRow(t, row) \in LoadedTables(PointsIn(file))
<1> DEFINE P == PointsIn(file)
           p == RowRead(row)
           u == AddRow(t, row)
<1>1. CASE u = NoTable
  BY <1>1, NoTableIsATable
<1>2. CASE u # NoTable
  <2>1. /\ t.loaded /\ Adds(u, t, p) /\ Decodable(p)
        /\ u = [loaded |-> u.loaded, byPointId |-> u.byPointId, byAddr |-> u.byAddr, bySlave |-> u.bySlave]
    BY <1>2, RowIsAddedOrRefused
  <2>2. t \in Tables(P) /\ GoodTable(t)
    BY <2>1 DEF LoadedTables
  <2>3. p \in P /\ GoodPoint(p)
    BY RowsAreGood
  <2> HIDE DEF p, u, P
  <2>4. /\ t.byPointId \in Partial(Int, P) /\ t.byAddr \in Partial(Int \X Int, Int)
        /\ t.bySlave \in Partial(Int, Seq(Int))
    BY <2>2 DEF Tables
  <2>5. p.pointId \in Int /\ p.slaveAddress \in Int /\ PointKey(p) \in Int \X Int
    BY <2>3 DEF GoodPoint, PointKey
  <2>6. /\ u.byPointId \in Partial(Int, P)
        /\ DOMAIN u.byPointId = DOMAIN t.byPointId \cup {p.pointId} /\ u.byPointId[p.pointId] = p
        /\ \A i \in DOMAIN t.byPointId : i # p.pointId => u.byPointId[i] = t.byPointId[i]
    <3>1. PICK g, f, id, D : g = u.byPointId /\ f = t.byPointId /\ id = p.pointId /\ D = Int
      OBVIOUS
    <3>2. Extends(g, f, id, p) /\ f \in Partial(D, P) /\ id \in D /\ p \in P
      BY <2>1, <2>3, <2>4, <2>5, <3>1 DEF Adds
    <3>3. /\ g \in Partial(D, P) /\ DOMAIN g = DOMAIN f \cup {id} /\ g[id] = p
          /\ \A i \in DOMAIN f : i # id => g[i] = f[i]
      BY <3>2, PartialExtends
    <3> QED
      BY <3>1, <3>3
  <2>7. /\ u.byAddr \in Partial(Int \X Int, Int)
        /\ DOMAIN u.byAddr = DOMAIN t.byAddr \cup {PointKey(p)} /\ u.byAddr[PointKey(p)] = p.pointId
        /\ \A k \in DOMAIN t.byAddr : k # PointKey(p) => u.byAddr[k] = t.byAddr[k]
    <3>1. PICK g, f : g = u.byAddr /\ f = t.byAddr
      OBVIOUS
    <3>2. Extends(g, f, PointKey(p), p.pointId) /\ f \in Partial(Int \X Int, Int)
      BY <2>1, <2>4, <3>1 DEF Adds
    <3>3. /\ g \in Partial(Int \X Int, Int) /\ DOMAIN g = DOMAIN f \cup {PointKey(p)}
          /\ g[PointKey(p)] = p.pointId
          /\ \A k \in DOMAIN f : k # PointKey(p) => g[k] = f[k]
      BY <2>5, <3>2, PartialExtends
    <3> QED
      BY <3>1, <3>3
  <2>8. p.pointId \notin DOMAIN t.byPointId /\ PointKey(p) \notin DOMAIN t.byAddr
    BY <2>1 DEF Adds
  <2>9. \A s \in DOMAIN t.bySlave : s \in Int /\ t.bySlave[s] \in Seq(Int)
    BY <2>4, PartialType
  <2>10. /\ DOMAIN u.bySlave = DOMAIN t.bySlave \cup {p.slaveAddress}
         /\ \A s \in DOMAIN u.bySlave :
               u.bySlave[s] = Listed(t, s) \o IF s = p.slaveAddress THEN <<p.pointId>> ELSE <<>>
         /\ u.bySlave = [s \in DOMAIN u.bySlave |-> u.bySlave[s]]
    BY <2>1 DEF Adds
  <2>11. \A s \in DOMAIN u.bySlave : Listed(t, s) \in Seq(Int)
    BY <2>9 DEF Listed
  <2>12. ASSUME NEW s \in DOMAIN u.bySlave
         PROVE  /\ u.bySlave[s] \in Seq(Int)
                /\ \A k \in DOMAIN u.bySlave[s] :
                      \/ s \in DOMAIN t.bySlave /\ k \in DOMAIN t.bySlave[s] /\ u.bySlave[s][k] = t.bySlave[s][k]
                      \/ s = p.slaveAddress /\ u.bySlave[s][k] = p.pointId
                /\ s \in DOMAIN t.bySlave => \A k \in DOMAIN t.bySlave[s] :
                      k \in DOMAIN u.bySlave[s] /\ u.bySlave[s][k] = t.bySlave[s][k]
                /\ s = p.slaveAddress => \E k \in DOMAIN u.bySlave[s] : u.bySlave[s][k] = p.pointId
    <3>1. PICK old \in Seq(Int) : old = Listed(t, s)
      BY <2>11
    <3>2. PICK new : new = u.bySlave[s]
      OBVIOUS
    <3>3. CASE s = p.slaveAddress
      <4>1. new = old \o <<p.pointId>>
        BY <2>10, <3>1, <3>2, <3>3
      <4>2. /\ new \in Seq(Int) /\ Len(new) = Len(old) + 1 /\ new[Len(old) + 1] = p.pointId
            /\ \A k \in 1 .. Len(old) : new[k] = old[k]
        BY <2>5, <4>1
      <4>3. s \in DOMAIN t.bySlave => old = t.bySlave[s]
        BY <3>1 DEF Listed
      <4>4. s \notin DOMAIN t.bySlave => Len(old) = 0
        BY <3>1 DEF Listed
      <4>5. DOMAIN new = 1 .. Len(old) + 1 /\ DOMAIN old = 1 .. Len(old) /\ Len(old) \in Nat
        BY <4>2
      <4>6. Len(old) + 1 \in DOMAIN new
        BY <4>5
      <4>7. new[Len(old) + 1] = p.pointId /\ new \in Seq(Int)
        BY <4>2
      <4>8. \A k \in DOMAIN new : \/ s \in DOMAIN t.bySlave /\ k \in DOMAIN t.bySlave[s] /\ new[k] = t.bySlave[s][k]
                                  \/ s = p.slaveAddress /\ new[k] = p.pointId
        <5>1. \A k \in 1 .. Len(old) + 1 : k = Len(old) + 1 \/ k \in 1 .. Len(old)
          BY <4>5
        <5>2. ASSUME NEW k \in DOMAIN new, k # Len(old) + 1
              PROVE  s \in DOMAIN t.bySlave /\ k \in DOMAIN old /\ new[k] = old[k]
          <6>1. k \in 1 .. Len(old) /\ Len(old) # 0
            BY <4>5, <5>1, <5>2
          <6> QED
            BY <4>2, <4>4, <4>5, <6>1
        <5> QED
          BY <3>3, <4>3, <4>7, <5>2
      <4>9. s \in DOMAIN t.bySlave => \A k \in DOMAIN t.bySlave[s] : k \in DOMAIN new /\ new[k] = t.bySlave[s][k]
        <5>1. \A k \in DOMAIN old : k \in DOMAIN new /\ new[k] = old[k]
          BY <4>2, <4>5
        <5> QED
          BY <4>3, <5>1
      <4> HIDE DEF u
      <4> QED
        BY <3>2, <4>6, <4>7, <4>8, <4>9
    <3>4. CASE s # p.slaveAddress
      <4>1. new = old \o <<>> /\ s \in DOMAIN t.bySlave
        BY <2>10, <3>1, <3>2, <3>4
      <4>2. new = old
        BY <4>1
      <4>3. old = t.bySlave[s]
        BY <3>1, <4>1 DEF Listed
      <4> QED
        BY <3>2, <3>4, <4>1, <4>2, <4>3
    <3> QED
      BY <3>3, <3>4
  <2>13. u.bySlave \in Partial(Int, Seq(Int))
    <3>1. DOMAIN u.bySlave \in SUBSET Int
      BY <2>5, <2>9, <2>10
    <3>2. u.bySlave \in [DOMAIN u.bySlave -> Seq(Int)]
      BY <2>10, <2>12
    <3> QED
      BY <3>1, <3>2 DEF Partial
  <2>14. u.loaded = TRUE
    BY <2>1 DEF Adds
  <2>15. u \in Tables(P)
    BY <2>1, <2>6, <2>7, <2>13, <2>14 DEF Tables
  <2>16. IsFiniteSet(DOMAIN u.byPointId)
    <3>1. IsFiniteSet(DOMAIN t.byPointId)
      BY <2>2 DEF GoodTable
    <3> QED
      BY <2>6, <3>1, FS_AddElement
  <2>17. IdsFit(u)
    BY <2>2, <2>6 DEF GoodTable, IdsFit
  <2>18. AddrsFit(u)
    <3>1. \A i \in DOMAIN t.byPointId : /\ PointKey(t.byPointId[i]) \in DOMAIN t.byAddr
                                        /\ t.byAddr[PointKey(t.byPointId[i])] = i
      BY <2>2 DEF GoodTable, AddrsFit
    <3> QED
      BY <2>6, <2>7, <2>8, <3>1 DEF AddrsFit
  <2>19. SlavesFit(u)
    <3>1. /\ \A i \in DOMAIN t.byPointId : SlaveFits(t, i)
          /\ \A s \in DOMAIN t.bySlave : SlaveListed(t, s)
      BY <2>2 DEF GoodTable, SlavesFit
    <3>2. ASSUME NEW i \in DOMAIN u.byPointId PROVE SlaveFits(u, i)
      <4>1. CASE i = p.pointId
        <5>1. u.byPointId[i] = p
          BY <2>6, <4>1
        <5>2. p.slaveAddress \in DOMAIN u.bySlave
          BY <2>10
        <5>3. \E k \in DOMAIN u.bySlave[p.slaveAddress] : u.bySlave[p.slaveAddress][k] = p.pointId
          BY <2>12, <5>2
        <5> QED
          BY <4>1, <5>1, <5>2, <5>3 DEF SlaveFits
      <4>2. CASE i # p.pointId
        <5>1. i \in DOMAIN t.byPointId /\ u.byPointId[i] = t.byPointId[i] /\ SlaveFits(t, i)
          BY <2>6, <3>1, <4>2
        <5> QED
          BY <2>10, <2>12, <5>1 DEF SlaveFits
      <4> QED
        BY <4>1, <4>2
    <3>3. ASSUME NEW s \in DOMAIN u.bySlave PROVE SlaveListed(u, s)
      <4>1. ASSUME NEW k \in DOMAIN u.bySlave[s]
            PROVE  /\ u.bySlave[s][k] \in DOMAIN u.byPointId
                   /\ u.byPointId[u.bySlave[s][k]].slaveAddress = s
        <5>1. CASE s \in DOMAIN t.bySlave /\ k \in DOMAIN t.bySlave[s] /\ u.bySlave[s][k] = t.bySlave[s][k]
          <6>1. SlaveListed(t, s)
            BY <3>1, <5>1
          <6>2. /\ t.bySlave[s][k] \in DOMAIN t.byPointId
                /\ t.byPointId[t.bySlave[s][k]].slaveAddress = s
            BY <5>1, <6>1 DEF SlaveListed
          <6> QED
            BY <2>6, <2>8, <5>1, <6>2
        <5>2. CASE s = p.slaveAddress /\ u.bySlave[s][k] = p.pointId
          BY <2>6, <5>2
        <5> QED
          BY <2>12, <5>1, <5>2
      <4> QED
        BY <4>1 DEF SlaveListed
    <3> QED
      BY <3>2, <3>3 DEF SlavesFit
  <2>20. \A i \in DOMAIN u.byPointId : Decodable(u.byPointId[i])
    BY <2>1, <2>2, <2>6 DEF GoodTable
  <2>21. GoodTable(u)
    BY <2>16, <2>17, <2>18, <2>19, <2>20 DEF GoodTable
  <2> QED
    BY <2>15, <2>21 DEF LoadedTables, u, P
<1> QED
  BY <1>1, <1>2

(* The loader takes the rows one after the other. *)
LEMMA RowsInTurn ==
    ASSUME NEW file \in TableFiles
    PROVE  \E h : /\ h[0] = EmptyTable
                  /\ \A i \in 1 .. Len(file.points) : h[i] = AddRow(h[i - 1], file.points[i])
                  /\ \A i \in 0 .. Len(file.points) : h[i] \in LoadedTables(PointsIn(file))
                  /\ FoldLeft(AddRow, EmptyTable, file.points) = h[Len(file.points)]
<1> DEFINE A == LoadedTables(PointsIn(file))
           rows == file.points
           n == Len(rows)
           Step(g, s) == IF s = {} THEN EmptyTable ELSE AddRow(g[s \ {Max(s)}], rows[Max(s)])
           IsIter(g) == g = [s \in SUBSET (1 .. n) |-> Step(g, s)]
           iter == CHOOSE g : IsIter(g)
           F == [i \in 1 .. n |-> [a \in A |-> AddRow(a, rows[i])]]
<1>1. n \in Nat /\ DOMAIN rows = 1 .. n /\ \A i \in 1 .. n : rows[i] \in ToSet(rows)
  <2>1. rows \in Seq(ToSet(rows))
    BY TableFilesAssumption
  <2> QED
    BY <2>1
<1>2. \A i \in 1 .. n : F[i] \in [A -> A] /\ \A a \in A : F[i][a] = AddRow(a, rows[i])
  BY <1>1, RowKeepsTables
<1>3. EmptyTable \in A
  BY NoTableIsATable
<1>4. FoldLeft(AddRow, EmptyTable, rows) = iter[1 .. n]
  BY <1>1 DEF FoldLeft, MapThenFoldSet
<1> HIDE DEF A, rows, n, F
<1>5. ASSUME NEW s \in SUBSET (1 .. n), s # {} PROVE Max(s) \in 1 .. n /\ s \ {Max(s)} \in SUBSET (1 .. n)
  BY <1>1, <1>5, MaxIsGreatest
<1>6. \E g : IsIter(g)
  <2>1. PICK g : IsFold(g, F, EmptyTable, n) /\ \A s \in SUBSET (1 .. n) : g[s] \in A
    BY <1>1, <1>2, <1>3, FoldExists
  <2>2. \A s \in SUBSET (1 .. n) : FoldStep(g, F, EmptyTable, s) = Step(g, s)
    BY <1>2, <1>5, <2>1 DEF FoldStep
  <2>3. IsIter(g)
    BY <2>1, <2>2 DEF IsFold
  <2> QED
    BY <2>3
<1>7. IsIter(iter)
  BY <1>6
<1> HIDE DEF iter
<1>8. iter[{}] = EmptyTable
  BY <1>7
<1>9. FoldsOver(iter, F, EmptyTable, A, n)
  <2>1. ASSUME NEW s \in SUBSET (1 .. n), s # {}, iter[s \ {Max(s)}] \in A
        PROVE  iter[s] = F[Max(s)][iter[s \ {Max(s)}]]
    BY <1>2, <1>5, <1>7, <2>1
  <2> QED
    BY <1>8, <2>1 DEF FoldsOver
<1> HIDE DEF IsIter, Step
<1>10. PICK h : IsRun(h, F, EmptyTable, A, n) /\ iter[1 .. n] = h[n]
  BY <1>1, <1>2, <1>3, <1>9, FoldUnwinds
<1>11. \A i \in 1 .. n : h[i] = AddRow(h[i - 1], rows[i])
  <2>1. \A i \in 1 .. n : i - 1 \in 0 .. n
    BY <1>1
  <2> QED
    BY <1>2, <1>10, <2>1 DEF IsRun
<1> QED
  BY <1>4, <1>10, <1>11 DEF A, rows, n, IsRun

(* The order in which the loader sorts the ids of a slave. *)
ByAddress(t, S) == {r \in S \X S : t.byPointId[r[1]].registerAddr < t.byPointId[r[2]].registerAddr}

(* Points of one slave have different addresses. *)
LEMMA AddressesOrder ==
    ASSUME NEW P, \A p \in P : GoodPoint(p), NEW t \in Tables(P), GoodTable(t),
           NEW s \in DOMAIN t.bySlave
    PROVE  IsStrictOrder(ByAddress(t, ToSet(t.bySlave[s])), ToSet(t.bySlave[s]))
<1> DEFINE S == ToSet(t.bySlave[s])
<1>1. ASSUME NEW i \in S
      PROVE  /\ i \in DOMAIN t.byPointId /\ t.byPointId[i].slaveAddress = s
             /\ t.byPointId[i].registerAddr \in Nat
  <2>1. PICK k \in DOMAIN t.bySlave[s] : i = t.bySlave[s][k]
    BY DEF ToSet
  <2>2. i \in DOMAIN t.byPointId /\ t.byPointId[i].slaveAddress = s
    BY <2>1 DEF GoodTable, SlavesFit, SlaveListed
  <2>3. t.byPointId \in Partial(Int, P)
    BY DEF Tables
  <2>4. t.byPointId[i] \in P
    <3>1. PICK D, f : D = Int /\ f = t.byPointId
      OBVIOUS
    <3>2. f[i] \in P
      BY <2>2, <2>3, <3>1, PartialType
    <3> QED
      BY <3>1, <3>2
  <2> QED
    BY <2>2, <2>4 DEF GoodPoint
<1>2. ASSUME NEW i \in S, NEW j \in S, t.byPointId[i].registerAddr = t.byPointId[j].registerAddr
      PROVE  i = j
  <2>1. PointKey(t.byPointId[i]) = PointKey(t.byPointId[j])
    BY <1>1, <1>2 DEF PointKey
  <2>2. t.byAddr[PointKey(t.byPointId[i])] = i /\ t.byAddr[PointKey(t.byPointId[j])] = j
    BY <1>1 DEF GoodTable, AddrsFit
  <2> QED
    BY <2>1, <2>2
<1>3. ASSUME NEW i \in S, NEW j \in S
      PROVE  <<i, j>> \in ByAddress(t, S) <=> t.byPointId[i].registerAddr < t.byPointId[j].registerAddr
  BY DEF ByAddress
<1> HIDE DEF S
<1> DEFINE a(i) == t.byPointId[i].registerAddr
<1>4. \A i \in S : a(i) \in Nat
  BY <1>1
<1>5. \A i, j \in S : (<<i, j>> \in ByAddress(t, S) <=> a(i) < a(j)) /\ (a(i) = a(j) => i = j)
  BY <1>2, <1>3
<1> HIDE DEF a
<1>6. IsStrictOrder(ByAddress(t, S), S)
  BY <1>4, <1>5 DEF IsStrictOrder
<1> QED
  BY <1>6 DEF S

LEMMA SlaveIsSorted ==
    ASSUME NEW P, \A p \in P : GoodPoint(p), NEW t \in Tables(P), GoodTable(t),
           NEW s \in DOMAIN t.bySlave
    PROVE  IsInOrder(InOrder(ToSet(t.bySlave[s]),
                             LAMBDA a, b : t.byPointId[a].registerAddr < t.byPointId[b].registerAddr),
                     ByAddress(t, ToSet(t.bySlave[s])), ToSet(t.bySlave[s]))
<1> DEFINE S == ToSet(t.bySlave[s])
           R == ByAddress(t, S)
           q == InOrder(S, LAMBDA a, b : t.byPointId[a].registerAddr < t.byPointId[b].registerAddr)
<1>1. IsFiniteSet(S)
  <2>1. S \subseteq DOMAIN t.byPointId
    BY DEF GoodTable, SlavesFit, SlaveListed, ToSet
  <2> QED
    BY <2>1, FS_Subset DEF GoodTable
<1>2. IsStrictOrder(R, S)
  BY AddressesOrder
<1>3. ASSUME NEW x \in S
      PROVE  Rank(R, S, x) = Cardinality({y \in S : t.byPointId[y].registerAddr < t.byPointId[x].registerAddr})
  <2>1. Below(R, S, x) = {y \in S : t.byPointId[y].registerAddr < t.byPointId[x].registerAddr}
    BY DEF Below, ByAddress
  <2> QED
    BY <2>1 DEF Rank
<1>4. q = [i \in 1 .. Cardinality(S) |->
              CHOOSE x \in S : Cardinality({y \in S : t.byPointId[y].registerAddr < t.byPointId[x].registerAddr}) = i - 1]
  BY DEF InOrder
<1> HIDE DEF q, R, S
<1>5. ASSUME NEW i \in 1 .. Cardinality(S), NEW x \in S, Rank(R, S, x) = i - 1
      PROVE  q[i] \in S /\ Rank(R, S, q[i]) = i - 1
  <2> DEFINE N(z) == Cardinality({y \in S : t.byPointId[y].registerAddr < t.byPointId[z].registerAddr})
  <2>1. q[i] = CHOOSE z \in S : N(z) = i - 1
    BY <1>4
  <2>2. N(x) = i - 1
    BY <1>3, <1>5
  <2>3. \A z \in S : Rank(R, S, z) = N(z)
    BY <1>3
  <2> HIDE DEF N
  <2> QED
    BY <2>1, <2>2, <2>3
<1>6. q = [i \in 1 .. Cardinality(S) |-> q[i]]
  <2> DEFINE c(i) == CHOOSE x \in S : Cardinality({y \in S : t.byPointId[y].registerAddr < t.byPointId[x].registerAddr}) = i - 1
  <2>1. q = [i \in 1 .. Cardinality(S) |-> c(i)]
    BY <1>4
  <2> HIDE DEF c
  <2> QED
    BY <2>1
<1>7. IsInOrder(q, R, S)
  BY <1>1, <1>2, <1>5, <1>6, OrderIsReached
<1> QED
  BY <1>7 DEF q, R, S

(* What loadFromJsonFile returns: every row is found again. *)
LEMMA LoadedIndexes ==
    ASSUME NEW file \in TableFiles, NEW tbl, tbl = LoadFromJsonFile(file), tbl.loaded
    PROVE  \E t \in Tables(PointsIn(file)) :
              /\ GoodTable(t)
              /\ Cardinality(DOMAIN t.byPointId) = Len(file.points)
              /\ tbl.byPointId = t.byPointId /\ tbl.byAddr = t.byAddr
              /\ tbl.bySlave = [s \in DOMAIN t.bySlave |->
                                   InOrder(ToSet(t.bySlave[s]),
                                           LAMBDA a, b : t.byPointId[a].registerAddr
                                                       < t.byPointId[b].registerAddr)]
<1> DEFINE rows == file.points
           n == Len(rows)
           t == FoldLeft(AddRow, EmptyTable, rows)
<1>1. n \in Nat /\ \A i \in 1 .. n : rows[i] \in ToSet(rows)
  <2>1. rows \in Seq(ToSet(rows))
    BY TableFilesAssumption
  <2> QED
    BY <2>1
<1>2. file.readable /\ file.schemaVersion \in {"1.0", "1.1"}
  BY DEF LoadFromJsonFile, NoTable
<1>3. tbl = [t EXCEPT !.bySlave =
               [s \in DOMAIN @ |-> InOrder(ToSet(@[s]), LAMBDA a, b : t.byPointId[a].registerAddr
                                                                   < t.byPointId[b].registerAddr)]]
  BY <1>2 DEF LoadFromJsonFile
<1>4. PICK h : /\ h[0] = EmptyTable
               /\ \A i \in 1 .. n : h[i] = AddRow(h[i - 1], rows[i])
               /\ \A i \in 0 .. n : h[i] \in LoadedTables(PointsIn(file))
               /\ t = h[n]
  BY RowsInTurn
<1> HIDE DEF t, rows, n
<1>5. t \in Tables(PointsIn(file)) /\ (t.loaded => GoodTable(t))
  BY <1>1, <1>4 DEF LoadedTables
<1>6. /\ tbl.loaded = t.loaded /\ tbl.byPointId = t.byPointId /\ tbl.byAddr = t.byAddr
      /\ tbl.bySlave = [s \in DOMAIN t.bySlave |->
                           InOrder(ToSet(t.bySlave[s]), LAMBDA a, b : t.byPointId[a].registerAddr
                                                                   < t.byPointId[b].registerAddr)]
  BY <1>3, <1>5 DEF Tables
<1>7. Cardinality(DOMAIN t.byPointId) = n
  <2> DEFINE G == {i \in 0 .. n : h[i].loaded => Cardinality(DOMAIN h[i].byPointId) = i}
  <2>1. 0 \in G
    <3>1. DOMAIN h[0].byPointId = {}
      BY <1>4 DEF EmptyTable, NoTable
    <3> QED
      BY <1>1, <3>1, FS_EmptySet
  <2>2. ASSUME NEW i \in 0 .. n - 1, i \in G PROVE i + 1 \in G
    <3>1. i + 1 \in 1 .. n /\ (i + 1) - 1 = i /\ i \in 0 .. n /\ i + 1 \in 0 .. n
      BY <1>1
    <3>2. h[i + 1] = AddRow(h[i], rows[i + 1])
      BY <1>4, <3>1
    <3>3. rows[i + 1] \in ToSet(file.points)
      BY <1>1, <3>1 DEF rows
    <3>4. SUFFICES ASSUME h[i + 1].loaded PROVE Cardinality(DOMAIN h[i + 1].byPointId) = i + 1
      BY <3>1
    <3>5. h[i + 1] # NoTable
      BY <3>4 DEF NoTable
    <3>6. h[i].loaded /\ Adds(h[i + 1], h[i], RowRead(rows[i + 1]))
      BY <3>2, <3>3, <3>5, RowIsAddedOrRefused
    <3>7. /\ Cardinality(DOMAIN h[i].byPointId) = i /\ IsFiniteSet(DOMAIN h[i].byPointId)
      BY <1>4, <2>2, <3>1, <3>6 DEF LoadedTables, GoodTable
    <3>8. PICK id : /\ id \notin DOMAIN h[i].byPointId
                    /\ DOMAIN h[i + 1].byPointId = DOMAIN h[i].byPointId \cup {id}
      BY <3>6 DEF Adds, Extends
    <3> QED
      BY <3>7, <3>8, FS_AddElement
  <2> HIDE DEF G
  <2>3. \A i \in 0 .. n : i \in G
    BY <1>1, <2>1, <2>2, CountUp
  <2>4. n \in G
    BY <1>1, <2>3
  <2> QED
    BY <1>4, <1>6, <2>4 DEF G
<1> QED
  BY <1>5, <1>6, <1>7 DEF n, rows

IsLoaded(file, tbl) == file \in TableFiles /\ tbl = LoadFromJsonFile(file) /\ tbl.loaded

(* The points of a loaded table: each under its own id. *)
LEMMA LoadedPoints ==
    ASSUME NEW file, NEW tbl, IsLoaded(file, tbl)
    PROVE  /\ \A p \in AllPoints(tbl) :
                /\ GoodPoint(p) /\ Decodable(p)
                /\ p.pointId \in DOMAIN tbl.byPointId /\ tbl.byPointId[p.pointId] = p
           /\ IsFiniteSet(AllPoints(tbl)) /\ Cardinality(AllPoints(tbl)) = Len(file.points)
<1>1. PICK t \in Tables(PointsIn(file)) :
              /\ GoodTable(t)
              /\ Cardinality(DOMAIN t.byPointId) = Len(file.points)
              /\ tbl.byPointId = t.byPointId
  BY LoadedIndexes DEF IsLoaded
<1>2. ASSUME NEW i \in DOMAIN t.byPointId
      PROVE  GoodPoint(t.byPointId[i]) /\ Decodable(t.byPointId[i]) /\ t.byPointId[i].pointId = i
  <2>1. t.byPointId[i] \in PointsIn(file)
    <3>1. PICK D, f : D = Int /\ f = t.byPointId
      OBVIOUS
    <3>2. f \in Partial(D, PointsIn(file))
      BY <3>1 DEF Tables
    <3> QED
      BY <3>1, <3>2, PartialType
  <2>2. GoodPoint(t.byPointId[i])
    BY <2>1, RowsAreGood DEF PointsIn, IsLoaded
  <2> QED
    BY <1>1, <2>2 DEF GoodTable, IdsFit
<1>3. \A p \in AllPoints(tbl) : /\ GoodPoint(p) /\ Decodable(p)
                                /\ p.pointId \in DOMAIN tbl.byPointId /\ tbl.byPointId[p.pointId] = p
  BY <1>1, <1>2 DEF AllPoints
<1> DEFINE S == DOMAIN t.byPointId
           f == [i \in S |-> t.byPointId[i]]
<1>4. f \in Bijection(S, AllPoints(tbl))
  <2>1. f \in [S -> AllPoints(tbl)]
    BY <1>1 DEF AllPoints
  <2>2. \A a, b \in S : f[a] = f[b] => a = b
    BY <1>2
  <2>3. \A p \in AllPoints(tbl) : \E i \in S : f[i] = p
    BY <1>1 DEF AllPoints
  <2> HIDE DEF f, S
  <2> QED
    BY <2>1, <2>2, <2>3, Fun_IsBij
<1>5. ExistsBijection(S, AllPoints(tbl))
  BY <1>4 DEF ExistsBijection
<1>6. IsFiniteSet(AllPoints(tbl)) /\ Cardinality(AllPoints(tbl)) = Cardinality(S)
  <2>1. IsFiniteSet(S)
    BY <1>1 DEF GoodTable
  <2> HIDE DEF S
  <2> QED
    BY <1>5, <2>1, FS_Bijection
<1> QED
  BY <1>1, <1>3, <1>6

(* The three indexes of a loaded table agree, and those of a slave are in  *)
(* the order of the addresses.                                             *)
LEMMA LoadedIndexesAgree ==
    ASSUME IsLoaded(tableFile, table)
    PROVE  IndexesAgree
<1> DEFINE file == tableFile
           list(t, s) == ToSet(t.bySlave[s])
<1>1. PICK t \in Tables(PointsIn(file)) :
              /\ GoodTable(t)
              /\ table.byPointId = t.byPointId /\ table.byAddr = t.byAddr
              /\ table.bySlave = [s \in DOMAIN t.bySlave |->
                                   InOrder(ToSet(t.bySlave[s]),
                                           LAMBDA a, b : t.byPointId[a].registerAddr
                                                       < t.byPointId[b].registerAddr)]
  BY LoadedIndexes DEF IsLoaded
<1>2. \A p \in PointsIn(file) : GoodPoint(p)
  BY RowsAreGood DEF PointsIn, IsLoaded
<1>3. SUFFICES ASSUME NEW p \in AllPoints(table)
      PROVE  /\ PointIdOf(table, p.pointId) = {p}
             /\ Resolve(table, p.slaveAddress, p.registerAddr) = {p}
             /\ p \in ToSet(AllOnSlave(table, p.slaveAddress))
             /\ \A i \in 2 .. Len(AllOnSlave(table, p.slaveAddress)) :
                    AllOnSlave(table, p.slaveAddress)[i - 1].registerAddr
                    < AllOnSlave(table, p.slaveAddress)[i].registerAddr
  BY DEF IndexesAgree
<1>4. p.pointId \in DOMAIN t.byPointId /\ t.byPointId[p.pointId] = p
  <2>1. p.pointId \in DOMAIN table.byPointId /\ table.byPointId[p.pointId] = p
    BY LoadedPoints
  <2> QED
    BY <1>1, <2>1
<1>5. PointIdOf(table, p.pointId) = {p}
  BY <1>1, <1>4 DEF PointIdOf
<1>6. Resolve(table, p.slaveAddress, p.registerAddr) = {p}
  <2>1. PointKey(p) \in DOMAIN t.byAddr /\ t.byAddr[PointKey(p)] = p.pointId
    BY <1>1, <1>4 DEF GoodTable, AddrsFit
  <2> QED
    BY <1>1, <1>4, <2>1 DEF Resolve, PointKey
<1> DEFINE s == p.slaveAddress
           S == ToSet(t.bySlave[s])
           q == table.bySlave[s]
           n == Cardinality(S)
<1>7. SlaveFits(t, p.pointId)
  BY <1>1, <1>4 DEF GoodTable, SlavesFit
<1>8. s \in DOMAIN t.bySlave /\ p.pointId \in S
  BY <1>4, <1>7 DEF SlaveFits, ToSet
<1>9. IsInOrder(q, ByAddress(t, S), S)
  <2>1. q = InOrder(S, LAMBDA a, b : t.byPointId[a].registerAddr < t.byPointId[b].registerAddr)
    BY <1>1, <1>8
  <2> QED
    BY <1>1, <1>2, <1>8, <2>1, SlaveIsSorted
<1>10. n \in Nat
  <2>1. SlaveListed(t, s)
    BY <1>1, <1>8 DEF GoodTable, SlavesFit
  <2>2. S \subseteq DOMAIN t.byPointId
    BY <2>1 DEF SlaveListed, ToSet
  <2> QED
    BY <1>1, <2>2, FS_Subset, FS_CardinalityType DEF GoodTable
<1>11. AllOnSlave(table, s) = [i \in DOMAIN q |-> t.byPointId[q[i]]]
  BY <1>1, <1>8 DEF AllOnSlave
<1> HIDE DEF q, S, n
<1>12. DOMAIN q = 1 .. n
  BY <1>9 DEF IsInOrder, n
<1>13. p \in ToSet(AllOnSlave(table, s))
  <2>1. PICK i \in 1 .. n : q[i] = p.pointId
    BY <1>8, <1>9 DEF IsInOrder, n
  <2> QED
    BY <1>4, <1>11, <1>12, <2>1 DEF ToSet
<1>14. Len(AllOnSlave(table, s)) = n
  <2>1. PICK v : v = [i \in 1 .. n |-> t.byPointId[q[i]]]
    OBVIOUS
  <2>2. v = AllOnSlave(table, s)
    BY <1>11, <1>12, <2>1
  <2> HIDE DEF s
  <2> QED
    BY <1>10, <2>1, <2>2
<1>15. ASSUME NEW i \in 2 .. n
       PROVE  AllOnSlave(table, s)[i - 1].registerAddr < AllOnSlave(table, s)[i].registerAddr
  <2>1. i - 1 \in 1 .. n /\ i \in 1 .. n /\ i - 1 < i
    BY <1>10
  <2>2. <<q[i - 1], q[i]>> \in ByAddress(t, S)
    BY <1>9, <2>1 DEF IsInOrder, n
  <2>3. t.byPointId[q[i - 1]].registerAddr < t.byPointId[q[i]].registerAddr
    BY <2>2 DEF ByAddress
  <2> QED
    BY <1>11, <1>12, <2>1, <2>3
<1> QED
  BY <1>5, <1>6, <1>13, <1>14, <1>15

-----------------------------------------------------------------------------
(* Segments                                                                *)

(* The points of one slave and register type. *)
IsGroup(G) ==
    /\ IsFiniteSet(G) /\ G # {}
    /\ \A p \in G : GoodPoint(p) /\ Decodable(p)
    /\ \A p, q \in G : p.pointId = q.pointId => p = q
    /\ \A p, q \in G : p.regType = q.regType /\ p.slaveAddress = q.slaveAddress

BeforeOrder(G) == {r \in G \X G : Before(r[1], r[2])}

(* One value always fits a read. *)
LEMMA WidthFits ==
    ASSUME NEW p, Decodable(p)
    PROVE  PointWidth(p) \in 1 .. 4 /\ PointWidth(p) <= MaxQty(p.regType) /\ MaxQty(p.regType) \in Nat
<1>1. p.dataType \in {"Bool", "Int16", "Uint16"} \/ p.dataType \in {"Int32", "Float32"} \/ p.dataType = "Float64"
  BY DEF Decodable, DataType
<1>2. RegisterCountFor(p.dataType) \in {1, 2, 4}
  BY <1>1 DEF RegisterCountFor
<1>3. CASE IsBitType(p.regType)
  BY <1>3, ReadLimitsAssumption DEF PointWidth, MaxQty
<1>4. CASE ~IsBitType(p.regType)
  <2>1. PointWidth(p) = RegisterCountFor(p.dataType) /\ MaxQty(p.regType) = MaxRegisters
    BY <1>4 DEF PointWidth, MaxQty
  <2> QED
    BY <1>2, <2>1, ReadLimitsAssumption
<1> QED
  BY <1>3, <1>4

LEMMA GroupOrder ==
    ASSUME NEW G, IsGroup(G)
    PROVE  IsStrictOrder(BeforeOrder(G), G)
<1> DEFINE a(p) == p.registerAddr
           d(p) == p.pointId
<1>1. \A p \in G : a(p) \in Nat /\ d(p) \in Int
  BY DEF IsGroup, GoodPoint
<1>2. \A p, q \in G : d(p) = d(q) => p = q
  BY DEF IsGroup
<1>3. \A p, q \in G : <<p, q>> \in BeforeOrder(G) <=> a(p) < a(q) \/ (a(p) = a(q) /\ d(p) < d(q))
  BY DEF BeforeOrder, Before
<1> HIDE DEF a, d
<1>4. \A p \in G : <<p, p>> \notin BeforeOrder(G)
  BY <1>1, <1>3
<1>5. ASSUME NEW x \in G, NEW y \in G, NEW z \in G, <<x, y>> \in BeforeOrder(G), <<y, z>> \in BeforeOrder(G)
      PROVE  <<x, z>> \in BeforeOrder(G)
  BY <1>1, <1>3, <1>5
<1>6. ASSUME NEW x \in G, NEW y \in G, x # y
      PROVE  <<x, y>> \in BeforeOrder(G) \/ <<y, x>> \in BeforeOrder(G)
  <2>1. d(x) # d(y)
    BY <1>2, <1>6
  <2> QED
    BY <1>1, <1>3, <2>1
<1> QED
  BY <1>4, <1>5, <1>6 DEF IsStrictOrder

LEMMA GroupIsSorted ==
    ASSUME NEW G, IsGroup(G)
    PROVE  IsInOrder(InOrder(G, Before), BeforeOrder(G), G)
<1> DEFINE R == BeforeOrder(G)
           q == InOrder(G, Before)
           N(z) == Cardinality({y \in G : Before(y, z)})
<1>1. IsFiniteSet(G)
  BY DEF IsGroup
<1>2. IsStrictOrder(R, G)
  BY GroupOrder
<1>3. ASSUME NEW x \in G PROVE Rank(R, G, x) = N(x)
  <2>1. Below(R, G, x) = {y \in G : Before(y, x)}
    BY DEF Below, BeforeOrder
  <2> QED
    BY <2>1 DEF Rank
<1> DEFINE c(i) == CHOOSE x \in G : N(x) = i - 1
<1>4. q = [i \in 1 .. Cardinality(G) |-> c(i)]
  BY DEF InOrder
<1> HIDE DEF q, R, N
<1>5. ASSUME NEW i \in 1 .. Cardinality(G), NEW x \in G, Rank(R, G, x) = i - 1
      PROVE  q[i] \in G /\ Rank(R, G, q[i]) = i - 1
  <2>1. q[i] = c(i)
    BY <1>4
  <2>2. N(x) = i - 1
    BY <1>3, <1>5
  <2>3. \A z \in G : Rank(R, G, z) = N(z)
    BY <1>3
  <2> QED
    BY <2>1, <2>2, <2>3
<1>6. q = [i \in 1 .. Cardinality(G) |-> q[i]]
  <2> HIDE DEF c
  <2> QED
    BY <1>4
<1>7. IsInOrder(q, R, G)
  BY <1>1, <1>2, <1>5, <1>6, OrderIsReached
<1> QED
  BY <1>7 DEF q, R

SegmentRecords(G) == [start : Int, qty : Int, points : Seq(G)]
Accs(G) == [done : Seq(SegmentRecords(G)), points : Seq(G), start : Int, end : Int]
NoPoints == [done |-> <<>>, points |-> <<>>, start |-> 0, end |-> 0]
Seg(acc) == [start |-> acc.start, qty |-> acc.end - acc.start, points |-> acc.points]

Larger(a, b) == IF a > b THEN a ELSE b

LEMMA PointIsAdded ==
    ASSUME NEW G, \A p \in G : GoodPoint(p) /\ Decodable(p), NEW acc \in Accs(G), NEW p \in G
    PROVE  /\ AddPoint(acc, p) \in Accs(G)
           /\ Opens(acc, p) =>
                 /\ AddPoint(acc, p).done = Finished(acc)
                 /\ AddPoint(acc, p).points = <<p>>
                 /\ AddPoint(acc, p).start = p.registerAddr
                 /\ AddPoint(acc, p).end = p.registerAddr + PointWidth(p)
           /\ ~Opens(acc, p) =>
                 /\ AddPoint(acc, p).done = acc.done
                 /\ AddPoint(acc, p).points = Append(acc.points, p)
                 /\ AddPoint(acc, p).start = acc.start
                 /\ AddPoint(acc, p).end = Larger(p.registerAddr + PointWidth(p), acc.end)
<1>1. p.registerAddr \in Nat /\ PointWidth(p) \in 1 .. 4
  BY WidthFits DEF GoodPoint
<1>2. PICK e \in Int : e = p.registerAddr + PointWidth(p)
  BY <1>1
<1>3. /\ acc.done \in Seq(SegmentRecords(G)) /\ acc.points \in Seq(G) /\ acc.start \in Int /\ acc.end \in Int
      /\ acc = [done |-> acc.done, points |-> acc.points, start |-> acc.start, end |-> acc.end]
  BY DEF Accs
<1>4. CASE Opens(acc, p)
  <2>1. AddPoint(acc, p) = [done |-> Finished(acc), points |-> <<p>>, start |-> p.registerAddr, end |-> e]
    BY <1>2, <1>4 DEF AddPoint
  <2>2. Seg(acc) \in SegmentRecords(G)
    BY <1>3 DEF Seg, SegmentRecords
  <2>3. Finished(acc) \in Seq(SegmentRecords(G))
    BY <1>3, <2>2 DEF Finished, Seg
  <2>4. <<p>> \in Seq(G) /\ p.registerAddr \in Int
    BY <1>1
  <2> QED
    BY <1>2, <1>4, <2>1, <2>3, <2>4 DEF Accs
<1>5. CASE ~Opens(acc, p)
  <2>1. PICK d, ps, st, en : d = acc.done /\ ps = acc.points /\ st = acc.start /\ en = acc.end
    OBVIOUS
  <2>2. AddPoint(acc, p) = [done |-> d, points |-> Append(ps, p), start |-> st, end |-> Larger(e, en)]
    BY <1>2, <1>3, <1>5, <2>1 DEF AddPoint, Larger
  <2>3. Append(acc.points, p) \in Seq(G) /\ Larger(e, acc.end) \in Int
    BY <1>2, <1>3 DEF Larger
  <2> QED
    BY <1>2, <1>3, <1>5, <2>1, <2>2, <2>3 DEF Accs
<1> QED
  BY <1>4, <1>5

LEMMA PointsInTurn ==
    ASSUME NEW G, \A p \in G : GoodPoint(p) /\ Decodable(p), NEW q \in Seq(G)
    PROVE  \E h : /\ h[0] = NoPoints
                  /\ \A i \in 1 .. Len(q) : h[i] = AddPoint(h[i - 1], q[i])
                  /\ \A i \in 0 .. Len(q) : h[i] \in Accs(G)
                  /\ FoldLeft(AddPoint, NoPoints, q) = h[Len(q)]
<1> DEFINE A == Accs(G)
           n == Len(q)
           Step(g, s) == IF s = {} THEN NoPoints ELSE AddPoint(g[s \ {Max(s)}], q[Max(s)])
           IsIter(g) == g = [s \in SUBSET (1 .. n) |-> Step(g, s)]
           iter == CHOOSE g : IsIter(g)
           F == [i \in 1 .. n |-> [a \in A |-> AddPoint(a, q[i])]]
<1>1. n \in Nat /\ DOMAIN q = 1 .. n /\ \A i \in 1 .. n : q[i] \in G
  OBVIOUS
<1>2. \A i \in 1 .. n : F[i] \in [A -> A] /\ \A a \in A : F[i][a] = AddPoint(a, q[i])
  BY <1>1, PointIsAdded
<1>3. NoPoints \in A
  BY DEF NoPoints, Accs
<1>4. FoldLeft(AddPoint, NoPoints, q) = iter[1 .. n]
  BY <1>1 DEF FoldLeft, MapThenFoldSet
<1> HIDE DEF A, n, F
<1>5. ASSUME NEW s \in SUBSET (1 .. n), s # {} PROVE Max(s) \in 1 .. n /\ s \ {Max(s)} \in SUBSET (1 .. n)
  BY <1>1, <1>5, MaxIsGreatest
<1>6. \E g : IsIter(g)
  <2>1. PICK g : IsFold(g, F, NoPoints, n) /\ \A s \in SUBSET (1 .. n) : g[s] \in A
    BY <1>1, <1>2, <1>3, FoldExists
  <2>2. \A s \in SUBSET (1 .. n) : FoldStep(g, F, NoPoints, s) = Step(g, s)
    BY <1>2, <1>5, <2>1 DEF FoldStep
  <2>3. IsIter(g)
    BY <2>1, <2>2 DEF IsFold
  <2> QED
    BY <2>3
<1>7. IsIter(iter)
  BY <1>6
<1> HIDE DEF iter
<1>8. iter[{}] = NoPoints
  BY <1>7
<1>9. FoldsOver(iter, F, NoPoints, A, n)
  <2>1. ASSUME NEW s \in SUBSET (1 .. n), s # {}, iter[s \ {Max(s)}] \in A
        PROVE  iter[s] = F[Max(s)][iter[s \ {Max(s)}]]
    BY <1>2, <1>5, <1>7, <2>1
  <2> QED
    BY <1>8, <2>1 DEF FoldsOver
<1> HIDE DEF IsIter, Step
<1>10. PICK h : IsRun(h, F, NoPoints, A, n) /\ iter[1 .. n] = h[n]
  BY <1>1, <1>2, <1>3, <1>9, FoldUnwinds
<1>11. \A i \in 1 .. n : h[i] = AddPoint(h[i - 1], q[i])
  <2>1. \A i \in 1 .. n : i - 1 \in 0 .. n
    BY <1>1
  <2> QED
    BY <1>2, <1>10, <2>1 DEF IsRun
<1> QED
  BY <1>4, <1>10, <1>11 DEF A, n, IsRun

PointsOf(s) == ToSet(s.points)

(* A read of some points of one group: within the limit, and no address in *)
(* it that no point has.                                                   *)
GoodSegment(s, G) ==
    /\ s \in SegmentRecords(G) /\ s.points # <<>>
    /\ s.qty \in 1 .. MaxQty(s.points[1].regType)
    /\ \A p \in PointsOf(s) : /\ p.registerAddr >= s.start
                              /\ p.registerAddr + PointWidth(p) <= s.start + s.qty
    /\ \A a \in s.start .. s.start + s.qty - 1 : \E p \in PointsOf(s) :
          a \in p.registerAddr .. p.registerAddr + PointWidth(p) - 1

Apart(D) == \A s, t \in D : s # t => PointsOf(s) \cap PointsOf(t) = {}

(* The points of T are each in one segment. *)
Progress(acc, T, G) ==
    LET D == ToSet(acc.done)
    IN  /\ \A s \in D : GoodSegment(s, G)
        /\ Apart(D)
        /\ \A t \in T : t \in ToSet(acc.points) \/ \E s \in D : t \in PointsOf(s)
        /\ \A s \in D : PointsOf(s) \subseteq T
        /\ ToSet(acc.points) \subseteq T
        /\ acc.points = <<>> => acc.done = <<>>
        /\ acc.points # <<>> =>
              /\ GoodSegment(Seg(acc), G)
              /\ acc.start = acc.points[1].registerAddr
              /\ \A s \in D : PointsOf(s) \cap ToSet(acc.points) = {}

LEMMA AppendAdds ==
    ASSUME NEW E, NEW s, NEW e, s \in Seq(E), e \in E
    PROVE  /\ ToSet(Append(s, e)) = ToSet(s) \cup {e} /\ Append(s, e) # <<>>
           /\ Append(s, e) \in Seq(E)
           /\ s # <<>> => Append(s, e)[1] = s[1]
<1>1. Append(s, e) \in Seq(E) /\ Len(Append(s, e)) = Len(s) + 1 /\ Len(s) \in Nat
  OBVIOUS
<1>2. \A i \in 1 .. Len(s) : Append(s, e)[i] = s[i]
  OBVIOUS
<1>3. Append(s, e)[Len(s) + 1] = e
  OBVIOUS
<1>4. DOMAIN Append(s, e) = 1 .. Len(s) + 1 /\ DOMAIN s = 1 .. Len(s)
  BY <1>1
<1>5. ToSet(Append(s, e)) = ToSet(s) \cup {e}
  <2>1. PICK f, n : f = Append(s, e) /\ n = Len(s)
    OBVIOUS
  <2>2. /\ n \in Nat /\ DOMAIN f = 1 .. n + 1 /\ DOMAIN s = 1 .. n /\ f[n + 1] = e
        /\ \A i \in 1 .. n : f[i] = s[i]
    BY <1>1, <1>2, <1>3, <1>4, <2>1
  <2>3. ToSet(f) = ToSet(s) \cup {e}
    <3>1. \A i \in DOMAIN f : i \in DOMAIN s \/ i = n + 1
      BY <2>2
    <3>2. \A i \in DOMAIN s : i \in DOMAIN f
      BY <2>2
    <3>3. n + 1 \in DOMAIN f
      BY <2>2
    <3> QED
      BY <2>2, <3>1, <3>2, <3>3 DEF ToSet
  <2> QED
    BY <2>1, <2>3
<1>6. Append(s, e) # <<>>
  BY <1>1
<1>8. s # <<>> => 1 \in 1 .. Len(s)
  OBVIOUS
<1> QED
  BY <1>1, <1>2, <1>5, <1>6, <1>8

(* The point is the last of the order so far. *)
LEMMA FirstOfASegment ==
    ASSUME NEW G, IsGroup(G), NEW acc \in Accs(G), NEW T, Progress(acc, T, G), NEW p \in G \ T, Opens(acc, p)
    PROVE  Progress(AddPoint(acc, p), T \cup {p}, G)
<1> DEFINE u == AddPoint(acc, p)
           D == ToSet(acc.done)
           w == PointWidth(p)
<1> SUFFICES Progress(u, T \cup {p}, G)
  OBVIOUS
<1>0. \A x \in G : GoodPoint(x) /\ Decodable(x)
  BY DEF IsGroup
<1>1. /\ u \in Accs(G) /\ u.done = Finished(acc) /\ u.points = <<p>>
      /\ u.start = p.registerAddr /\ u.end = p.registerAddr + w
  BY <1>0, PointIsAdded
<1>2. w \in 1 .. MaxQty(p.regType) /\ w \in Nat /\ p.registerAddr \in Nat
  BY <1>0, WidthFits DEF GoodPoint
<1>3. u.points # <<>> /\ ToSet(u.points) = {p} /\ u.points[1] = p /\ u.points \in Seq(G)
  <2>1. <<p>> # <<>> /\ <<p>>[1] = p /\ <<p>> \in Seq(G) /\ DOMAIN <<p>> = {1}
    OBVIOUS
  <2>2. ToSet(<<p>>) = {p}
    BY <2>1 DEF ToSet
  <2> HIDE DEF u
  <2> QED
    BY <1>1, <2>1, <2>2
<1> HIDE DEF u, w
<1>4. Seg(u) \in SegmentRecords(G) /\ Seg(u).points = u.points /\ Seg(u).start = p.registerAddr /\ Seg(u).qty = w
  BY <1>1, <1>2, <1>3 DEF Seg, SegmentRecords, Accs
<1>5. GoodSegment(Seg(u), G)
  <2>1. \A a \in p.registerAddr .. p.registerAddr + w - 1 : \E x \in {p} :
           a \in x.registerAddr .. x.registerAddr + PointWidth(x) - 1
    BY DEF w
  <2>2. p.registerAddr >= p.registerAddr /\ p.registerAddr + PointWidth(p) <= p.registerAddr + w
    BY <1>2 DEF w
  <2> QED
    BY <1>2, <1>3, <1>4, <2>1, <2>2 DEF GoodSegment, PointsOf
<1>6. CASE acc.points = <<>>
  <2>1. ToSet(<<>>) = {}
    BY DEF ToSet
  <2>2. u.done = <<>> /\ acc.done = <<>> /\ ToSet(u.done) = {} /\ D = {} /\ ToSet(acc.points) = {}
    BY <1>1, <1>6, <2>1 DEF Finished, Progress
  <2> HIDE DEF D
  <2>3. T = {}
    BY <2>2 DEF Progress, D
  <2>4. Apart({})
    BY DEF Apart
  <2>5. \A s \in ToSet(u.done) : GoodSegment(s, G)
    BY <2>2
  <2> QED
    BY <1>1, <1>3, <1>5, <2>2, <2>3, <2>4, <2>5 DEF Progress
<1>7. CASE acc.points # <<>>
  <2>1. u.done = Append(acc.done, Seg(acc))
    BY <1>1, <1>7 DEF Finished, Seg
  <2>2. /\ GoodSegment(Seg(acc), G) /\ \A s \in D : PointsOf(s) \cap ToSet(acc.points) = {}
        /\ \A s \in D : GoodSegment(s, G)
        /\ Apart(D)
        /\ \A t \in T : t \in ToSet(acc.points) \/ \E s \in D : t \in PointsOf(s)
        /\ \A s \in D : PointsOf(s) \subseteq T
        /\ ToSet(acc.points) \subseteq T
    BY <1>7 DEF Progress
  <2>3. Seg(acc) \in SegmentRecords(G) /\ acc.done \in Seq(SegmentRecords(G)) /\ PointsOf(Seg(acc)) = ToSet(acc.points)
    BY <2>2 DEF GoodSegment, Accs, PointsOf, Seg
  <2>4. ToSet(u.done) = D \cup {Seg(acc)}
    BY <2>1, <2>3, AppendAdds
  <2> HIDE DEF D
  <2>5. Apart(ToSet(u.done))
    BY <2>2, <2>3, <2>4 DEF Apart
  <2>6. /\ \A t \in T : \E s \in ToSet(u.done) : t \in PointsOf(s)
        /\ \A s \in ToSet(u.done) : PointsOf(s) \subseteq T
    BY <2>2, <2>3, <2>4
  <2>7. \A s \in ToSet(u.done) : GoodSegment(s, G) /\ PointsOf(s) \cap {p} = {}
    BY <2>2, <2>4, <2>6
  <2> QED
    BY <1>1, <1>3, <1>5, <2>5, <2>6, <2>7 DEF Progress
<1> QED
  BY <1>6, <1>7

LEMMA NextOfASegment ==
    ASSUME NEW G, IsGroup(G), NEW acc \in Accs(G), NEW T, T \in SUBSET G, Progress(acc, T, G),
           NEW p \in G \ T, ~Opens(acc, p), \A t \in T : t.registerAddr <= p.registerAddr
    PROVE  Progress(AddPoint(acc, p), T \cup {p}, G)
<1> DEFINE u == AddPoint(acc, p)
           D == ToSet(acc.done)
           w == PointWidth(p)
<1> SUFFICES Progress(u, T \cup {p}, G)
  OBVIOUS
<1>0. \A x \in G : GoodPoint(x) /\ Decodable(x)
  BY DEF IsGroup
<1>1. /\ u \in Accs(G) /\ u.done = acc.done /\ u.points = Append(acc.points, p)
      /\ u.start = acc.start /\ u.end = Larger(p.registerAddr + w, acc.end)
  BY <1>0, PointIsAdded
<1>2. w \in Nat /\ w >= 1 /\ p.registerAddr \in Nat
  BY <1>0, WidthFits DEF GoodPoint
<1>3. /\ acc.points # <<>> /\ p.registerAddr <= acc.end
      /\ p.registerAddr + w - acc.start <= MaxQty(p.regType)
      /\ acc.points \in Seq(G) /\ acc.start \in Int /\ acc.end \in Int
  BY <1>0, <1>2, WidthFits DEF Opens, Accs
<1>4. /\ GoodSegment(Seg(acc), G) /\ acc.start = acc.points[1].registerAddr
      /\ \A s \in D : PointsOf(s) \cap ToSet(acc.points) = {}
      /\ \A s \in D : GoodSegment(s, G)
      /\ Apart(D)
      /\ \A t \in T : t \in ToSet(acc.points) \/ \E s \in D : t \in PointsOf(s)
      /\ \A s \in D : PointsOf(s) \subseteq T
      /\ ToSet(acc.points) \subseteq T
  BY <1>3 DEF Progress
<1>5. /\ u.points # <<>> /\ ToSet(u.points) = ToSet(acc.points) \cup {p} /\ u.points[1] = acc.points[1]
      /\ u.points \in Seq(G)
  BY <1>1, <1>3, AppendAdds
<1>6. acc.points[1] \in ToSet(acc.points)
  <2>1. 1 \in DOMAIN acc.points
    BY <1>3
  <2> QED
    BY <2>1 DEF ToSet
<1>7. acc.start <= p.registerAddr
  BY <1>4, <1>6
<1> HIDE DEF u, w, D
<1>8. /\ Seg(u) \in SegmentRecords(G) /\ Seg(u).points = u.points /\ Seg(u).start = acc.start
      /\ Seg(u).qty = u.end - acc.start /\ u.end \in Int
      /\ Seg(acc).points = acc.points /\ Seg(acc).start = acc.start /\ Seg(acc).qty = acc.end - acc.start
  BY <1>1, <1>2, <1>3, <1>5 DEF Seg, SegmentRecords, Accs
<1>9. GoodSegment(Seg(u), G)
  <2>1. u.end >= acc.end /\ u.end >= p.registerAddr + w /\ u.end \in {acc.end, p.registerAddr + w}
    BY <1>1, <1>2, <1>3 DEF Larger
  <2>2. /\ Seg(acc).qty \in 1 .. MaxQty(acc.points[1].regType)
        /\ \A x \in ToSet(acc.points) : /\ x.registerAddr >= acc.start
                                        /\ x.registerAddr + PointWidth(x) <= acc.start + (acc.end - acc.start)
        /\ \A a \in acc.start .. acc.start + (acc.end - acc.start) - 1 : \E x \in ToSet(acc.points) :
               a \in x.registerAddr .. x.registerAddr + PointWidth(x) - 1
    BY <1>4, <1>8 DEF GoodSegment, PointsOf
  <2>3. acc.start + (acc.end - acc.start) = acc.end /\ acc.start + (u.end - acc.start) = u.end
    BY <1>3, <1>8
  <2>4. MaxQty(acc.points[1].regType) = MaxQty(p.regType) /\ MaxQty(p.regType) \in Nat
    <3>1. acc.points[1] \in G
      BY <1>3
    <3> QED
      BY <1>0, <3>1, WidthFits DEF IsGroup
  <2>5. Seg(u).qty \in 1 .. MaxQty(u.points[1].regType)
    <3>1. acc.end - acc.start \in 1 .. MaxQty(p.regType)
      BY <1>8, <2>2, <2>4
    <3>2. Seg(u).qty = u.end - acc.start /\ u.points[1] = acc.points[1]
      BY <1>5, <1>8
    <3>3. PICK most \in Nat : most = MaxQty(p.regType)
      BY <2>4
    <3>4. u.end - acc.start <= most
      <4>1. (p.registerAddr + w) - acc.start <= most /\ acc.end - acc.start <= most
        BY <1>2, <1>3, <3>1, <3>3
      <4>2. u.end = acc.end \/ u.end = p.registerAddr + w
        BY <2>1
      <4> QED
        BY <4>1, <4>2
    <3>5. u.end - acc.start >= acc.end - acc.start /\ u.end - acc.start \in Int
      BY <1>3, <1>8, <2>1
    <3>6. u.end - acc.start \in 1 .. most
      BY <3>1, <3>4, <3>5
    <3> QED
      BY <2>4, <3>2, <3>3, <3>6
  <2>6. ASSUME NEW x \in ToSet(u.points)
        PROVE  x.registerAddr >= acc.start /\ x.registerAddr + PointWidth(x) <= u.end
    <3>1. CASE x = p
      BY <1>2, <1>3, <1>7, <1>8, <2>1, <3>1 DEF w
    <3>2. CASE x \in ToSet(acc.points)
      <4>1. x \in G
        BY <1>3, <3>2 DEF ToSet
      <4>2. x.registerAddr \in Nat /\ PointWidth(x) \in Nat
        BY <1>0, <4>1, WidthFits DEF GoodPoint
      <4> QED
        BY <1>3, <1>8, <2>1, <2>2, <2>3, <3>2, <4>2
    <3> QED
      BY <1>5, <3>1, <3>2
  <2>7. ASSUME NEW a \in acc.start .. u.end - 1
        PROVE  \E x \in ToSet(u.points) : a \in x.registerAddr .. x.registerAddr + PointWidth(x) - 1
    <3>1. CASE a <= acc.end - 1
      <4>1. a \in acc.start .. acc.start + (acc.end - acc.start) - 1
        BY <1>3, <1>8, <2>3, <3>1
      <4>2. PICK x \in ToSet(acc.points) : a \in x.registerAddr .. x.registerAddr + PointWidth(x) - 1
        BY <2>2, <4>1
      <4> QED
        BY <1>5, <4>2
    <3>2. CASE a > acc.end - 1
      <4>1. a \in p.registerAddr .. p.registerAddr + w - 1
        <5>1. a \in Int /\ a >= acc.end /\ a < u.end
          BY <1>3, <1>8, <3>2
        <5>2. u.end = p.registerAddr + w /\ a >= p.registerAddr
          BY <1>2, <1>3, <2>1, <5>1
        <5> QED
          BY <1>2, <5>1, <5>2
      <4> QED
        BY <1>5, <4>1 DEF w
    <3> QED
      BY <1>3, <1>8, <3>1, <3>2
  <2>8. PICK z : z = Seg(u)
    OBVIOUS
  <2>9. /\ z \in SegmentRecords(G) /\ z.points = u.points /\ z.start = acc.start /\ z.start + z.qty = u.end
        /\ z.qty \in 1 .. MaxQty(z.points[1].regType) /\ z.points # <<>> /\ PointsOf(z) = ToSet(u.points)
    BY <1>5, <1>8, <2>3, <2>5, <2>8 DEF PointsOf
  <2>10. \A x \in PointsOf(z) : x.registerAddr >= z.start /\ x.registerAddr + PointWidth(x) <= z.start + z.qty
    BY <2>6, <2>9
  <2>11. ASSUME NEW a \in z.start .. z.start + z.qty - 1
         PROVE  \E x \in PointsOf(z) : a \in x.registerAddr .. x.registerAddr + PointWidth(x) - 1
    <3>1. PICK b, n, m \in Int : b = z.start /\ n = z.qty /\ m = u.end
      BY <1>8, <2>9 DEF SegmentRecords
    <3>2. a \in b .. b + n - 1 /\ b + n = m /\ b = acc.start
      BY <2>9, <2>11, <3>1
    <3>3. a \in acc.start .. u.end - 1
      BY <3>1, <3>2
    <3> HIDE DEF PointsOf
    <3> QED
      BY <2>7, <2>9, <3>3
  <2>12. GoodSegment(z, G)
    BY <2>9, <2>10, <2>11, Zenon DEF GoodSegment
  <2> QED
    BY <2>8, <2>12
<1>10. \A s \in D : PointsOf(s) \cap ToSet(u.points) = {}
  BY <1>4, <1>5
<1>11. /\ \A t \in T \cup {p} : t \in ToSet(u.points) \/ \E s \in D : t \in PointsOf(s)
       /\ \A s \in D : PointsOf(s) \subseteq T \cup {p}
       /\ ToSet(u.points) \subseteq T \cup {p}
  BY <1>4, <1>5
<1>12. u.start = u.points[1].registerAddr
  BY <1>1, <1>4, <1>5
<1>13. ToSet(u.done) = D
  BY <1>1 DEF D
<1> QED
  BY <1>4, <1>5, <1>9, <1>10, <1>11, <1>12, <1>13 DEF Progress

(* What buildSegments makes of one group. *)
LEMMA SegmentsOfAGroup ==
    ASSUME NEW G, IsGroup(G)
    PROVE  /\ \A s \in SegmentsOf(G) : GoodSegment(s, G)
           /\ Apart(SegmentsOf(G))
           /\ \A p \in G : \E s \in SegmentsOf(G) : p \in PointsOf(s)
<1> DEFINE q == InOrder(G, Before)
           n == Cardinality(G)
           C(i) == {q[k] : k \in 1 .. i}
<1>0. n \in Nat /\ n # 0
  BY FS_CardinalityType, FS_EmptySet DEF IsGroup
<1>1. IsInOrder(q, BeforeOrder(G), G)
  BY GroupIsSorted
<1>2. SegmentsOf(G) = ToSet(Finished(FoldLeft(AddPoint, NoPoints, q)))
  BY DEF SegmentsOf, NoPoints
<1> HIDE DEF q, n
<1>3. q \in [1 .. n -> G] /\ q \in Seq(G) /\ Len(q) = n
  BY <1>0, <1>1 DEF IsInOrder, n
<1>4. \A i, j \in 1 .. n : i < j => Before(q[i], q[j])
  BY <1>1 DEF IsInOrder, BeforeOrder, n
<1>5. PICK h : /\ h[0] = NoPoints
               /\ \A i \in 1 .. n : h[i] = AddPoint(h[i - 1], q[i])
               /\ \A i \in 0 .. n : h[i] \in Accs(G)
               /\ FoldLeft(AddPoint, NoPoints, q) = h[n]
  <2>1. \A p \in G : GoodPoint(p) /\ Decodable(p)
    BY DEF IsGroup
  <2> QED
    BY <1>3, <2>1, PointsInTurn
<1>6. \A x, y \in G : Before(x, y) => x # y /\ x.registerAddr <= y.registerAddr
  BY DEF Before, IsGroup, GoodPoint
<1>7. Progress(h[n], C(n), G)
  <2> DEFINE Good == {i \in 0 .. n : Progress(h[i], C(i), G)}
  <2>1. 0 \in Good
    <3>1. C(0) = {}
      OBVIOUS
    <3>2. NoPoints.done = <<>> /\ NoPoints.points = <<>>
      BY DEF NoPoints
    <3>3. ToSet(<<>>) = {}
      BY DEF ToSet
    <3>4. Apart({})
      BY DEF Apart
    <3> HIDE DEF C
    <3>5. Progress(NoPoints, C(0), G)
      BY <3>1, <3>2, <3>3, <3>4 DEF Progress
    <3> QED
      BY <1>0, <1>5, <3>5
  <2>2. ASSUME NEW i \in 0 .. n - 1, i \in Good PROVE i + 1 \in Good
    <3>1. i + 1 \in 1 .. n /\ (i + 1) - 1 = i /\ i \in 0 .. n /\ i + 1 \in 0 .. n
      BY <1>0
    <3>2. h[i + 1] = AddPoint(h[i], q[i + 1]) /\ h[i] \in Accs(G) /\ q[i + 1] \in G
      BY <1>3, <1>5, <3>1
    <3>3. \A k \in 1 .. i : q[k] \in G /\ Before(q[k], q[i + 1])
      BY <1>0, <1>3, <1>4, <3>1
    <3>4. /\ C(i) \in SUBSET G /\ q[i + 1] \notin C(i)
          /\ \A t \in C(i) : t.registerAddr <= q[i + 1].registerAddr
      BY <1>6, <3>2, <3>3
    <3>5. C(i + 1) = C(i) \cup {q[i + 1]}
      <4>1. \A k : k \in 1 .. i + 1 <=> (k \in 1 .. i \/ k = i + 1)
        BY <3>1
      <4> QED
        BY <4>1
    <3> HIDE DEF C
    <3>6. Progress(h[i], C(i), G)
      BY <2>2
    <3>7. Progress(AddPoint(h[i], q[i + 1]), C(i) \cup {q[i + 1]}, G)
      <4>1. PICK acc, p, T : acc = h[i] /\ p = q[i + 1] /\ T = C(i)
        OBVIOUS
      <4>2. /\ acc \in Accs(G) /\ Progress(acc, T, G) /\ p \in G \ T /\ T \in SUBSET G
            /\ \A t \in T : t.registerAddr <= p.registerAddr
        BY <3>2, <3>4, <3>6, <4>1
      <4>3. CASE Opens(acc, p)
        BY <4>1, <4>2, <4>3, FirstOfASegment
      <4>4. CASE ~Opens(acc, p)
        BY <4>1, <4>2, <4>4, NextOfASegment
      <4> QED
        BY <4>3, <4>4
    <3> QED
      BY <3>1, <3>2, <3>5, <3>7
  <2> HIDE DEF Good
  <2>3. \A i \in 0 .. n : i \in Good
    BY <1>0, <2>1, <2>2, CountUp
  <2>4. n \in Good
    BY <1>0, <2>3
  <2> QED
    BY <2>4 DEF Good
<1>8. C(n) = G
  BY <1>1, <1>3 DEF IsInOrder, n
<1> HIDE DEF C
<1>9. PICK acc \in Accs(G) : acc = h[n]
  BY <1>0, <1>5
<1> DEFINE D == ToSet(acc.done)
<1>10. /\ \A s \in D : GoodSegment(s, G)
       /\ Apart(D)
       /\ \A t \in G : t \in ToSet(acc.points) \/ \E s \in D : t \in PointsOf(s)
       /\ acc.points = <<>> => acc.done = <<>>
       /\ acc.points # <<>> => /\ GoodSegment(Seg(acc), G)
                               /\ \A s \in D : PointsOf(s) \cap ToSet(acc.points) = {}
  BY <1>7, <1>8, <1>9 DEF Progress
<1>11. acc.points # <<>>
  <2> SUFFICES ASSUME acc.points = <<>> PROVE FALSE
    OBVIOUS
  <2>1. D = {} /\ ToSet(acc.points) = {}
    BY <1>10 DEF ToSet
  <2> HIDE DEF D
  <2>2. PICK t \in G : TRUE
    BY DEF IsGroup
  <2> QED
    BY <1>10, <2>1, <2>2
<1>12. Seg(acc) \in SegmentRecords(G) /\ PointsOf(Seg(acc)) = ToSet(acc.points) /\ acc.done \in Seq(SegmentRecords(G))
  BY <1>10, <1>11 DEF GoodSegment, PointsOf, Seg, Accs
<1>13. Finished(acc) = Append(acc.done, Seg(acc))
  BY <1>11 DEF Finished, Seg
<1>14. SegmentsOf(G) = D \cup {Seg(acc)}
  <2>1. ToSet(Append(acc.done, Seg(acc))) = ToSet(acc.done) \cup {Seg(acc)}
    BY <1>12, AppendAdds
  <2> QED
    BY <1>2, <1>5, <1>9, <1>13, <2>1
<1> HIDE DEF D
<1>15. Apart(SegmentsOf(G))
  BY <1>10, <1>11, <1>12, <1>14 DEF Apart
<1> QED
  BY <1>10, <1>11, <1>12, <1>14, <1>15

Enabled(tbl) == {p \in AllPoints(tbl) : p.enabled}
GroupOf(tbl, p) == {q \in Enabled(tbl) : q.slaveAddress = p.slaveAddress /\ q.regType = p.regType}

LEMMA EnabledPointsAreGrouped ==
    ASSUME NEW file, NEW tbl, IsLoaded(file, tbl), NEW p \in Enabled(tbl)
    PROVE  IsGroup(GroupOf(tbl, p)) /\ p \in GroupOf(tbl, p)
<1>1. /\ \A q \in AllPoints(tbl) : /\ GoodPoint(q) /\ Decodable(q)
                                   /\ q.pointId \in DOMAIN tbl.byPointId /\ tbl.byPointId[q.pointId] = q
      /\ IsFiniteSet(AllPoints(tbl))
  BY LoadedPoints
<1>2. GroupOf(tbl, p) \in SUBSET AllPoints(tbl)
  BY DEF GroupOf, Enabled
<1>3. IsFiniteSet(GroupOf(tbl, p))
  BY <1>1, <1>2, FS_Subset
<1>4. p \in GroupOf(tbl, p)
  BY DEF GroupOf
<1>5. \A q, r \in GroupOf(tbl, p) : q.regType = r.regType /\ q.slaveAddress = r.slaveAddress
  BY DEF GroupOf
<1>6. \A q, r \in GroupOf(tbl, p) : q.pointId = r.pointId => q = r
  BY <1>1, <1>2
<1> QED
  BY <1>1, <1>2, <1>3, <1>4, <1>5, <1>6 DEF IsGroup

LEMMA SegmentsByGroup ==
    ASSUME NEW tbl
    PROVE  \A s : s \in BuildSegments(tbl) <=> \E p \in Enabled(tbl) : s \in SegmentsOf(GroupOf(tbl, p))
<1>1. BuildSegments(tbl) = UNION {SegmentsOf(g) : g \in {GroupOf(tbl, p) : p \in Enabled(tbl)}}
  BY Zenon DEF BuildSegments, Enabled, GroupOf
<1> QED
  BY <1>1

(* Every segment has points of one group, every enabled point one segment. *)
LEMMA SegmentsAreGood ==
    ASSUME NEW file, NEW tbl, IsLoaded(file, tbl)
    PROVE  /\ \A s \in BuildSegments(tbl) : \E p \in Enabled(tbl) : GoodSegment(s, GroupOf(tbl, p))
           /\ \A p \in Enabled(tbl) : Cardinality({s \in BuildSegments(tbl) : p \in PointsOf(s)}) = 1
<1>1. \A s \in BuildSegments(tbl) : \E p \in Enabled(tbl) : s \in SegmentsOf(GroupOf(tbl, p))
  BY SegmentsByGroup
<1>2. ASSUME NEW p \in Enabled(tbl), NEW s \in SegmentsOf(GroupOf(tbl, p))
      PROVE  GoodSegment(s, GroupOf(tbl, p)) /\ PointsOf(s) \in SUBSET GroupOf(tbl, p)
  <2>1. IsGroup(GroupOf(tbl, p))
    BY EnabledPointsAreGrouped
  <2>2. GoodSegment(s, GroupOf(tbl, p))
    BY <1>2, <2>1, SegmentsOfAGroup
  <2>3. s.points \in Seq(GroupOf(tbl, p))
    BY <2>2 DEF GoodSegment, SegmentRecords
  <2>4. PointsOf(s) \in SUBSET GroupOf(tbl, p)
    BY <2>3 DEF PointsOf, ToSet
  <2> QED
    BY <2>2, <2>4
<1>3. ASSUME NEW p \in Enabled(tbl)
      PROVE  Cardinality({s \in BuildSegments(tbl) : p \in PointsOf(s)}) = 1
  <2>1. p \in GroupOf(tbl, p) /\ IsGroup(GroupOf(tbl, p))
    BY EnabledPointsAreGrouped
  <2>2. PICK s \in SegmentsOf(GroupOf(tbl, p)) : p \in PointsOf(s)
    BY <2>1, SegmentsOfAGroup
  <2>3. s \in BuildSegments(tbl)
    BY SegmentsByGroup
  <2>4. ASSUME NEW t \in BuildSegments(tbl), p \in PointsOf(t)
        PROVE  t = s
    <3>1. PICK q \in Enabled(tbl) : t \in SegmentsOf(GroupOf(tbl, q))
      BY <1>1
    <3>2. p \in GroupOf(tbl, q)
      BY <1>2, <2>4, <3>1
    <3>3. GroupOf(tbl, p) = GroupOf(tbl, q)
      BY <3>2 DEF GroupOf
    <3>4. Apart(SegmentsOf(GroupOf(tbl, p)))
      BY <2>1, SegmentsOfAGroup
    <3> QED
      BY <2>2, <2>4, <3>1, <3>3, <3>4 DEF Apart
  <2>5. {t \in BuildSegments(tbl) : p \in PointsOf(t)} = {s}
    BY <2>2, <2>3, <2>4
  <2> QED
    BY <2>5, FS_Singleton
<1> QED
  BY <1>1, <1>2, <1>3

-----------------------------------------------------------------------------
(* The polls                                                               *)

(* What is polled is what the table of the file says, and what was         *)
(* published last comes from the last answer.                              *)
AcqInv ==
    /\ tableFile \in TableFiles
    /\ stage = "polling" => IsLoaded(tableFile, table) /\ segments = BuildSegments(table)
    /\ stage # "polling" => segments = {} /\ answer = NoAnswer /\ (stage = "off" => table = NoTable)
    /\ answer # NoAnswer =>
          /\ answer.segment \in segments /\ answer.device \in Devices
          /\ answer.received \in Received(answer.segment)
          /\ Has(answer.device, answer.segment, answer.received)
          /\ published = {<<p.pointId, ValueOf(p, answer.segment, answer.device)>> :
                             p \in Decoded(answer.segment, answer.received)}

LEMMA AcqInvHolds == AcqSpec => []AcqInv
<1>1. AcqInit => AcqInv
  BY DEF AcqInit, AcqInv
<1>2. AcqInv /\ [AcqNext]_acqVars => AcqInv'
  <2> SUFFICES ASSUME AcqInv, [AcqNext]_acqVars PROVE AcqInv'
    OBVIOUS
  <2>1. CASE Start
    <3>1. Usable(table') => IsLoaded(tableFile', table')
      BY <2>1 DEF Start, AcqInv, IsLoaded, Usable
    <3>2. /\ stage' = (IF Usable(table') THEN "polling" ELSE "failed")
          /\ segments' = (IF Usable(table') THEN BuildSegments(table') ELSE {})
          /\ tableFile' = tableFile /\ answer' = answer /\ published' = published /\ stage = "off"
      BY <2>1 DEF Start
    <3>3. answer' = NoAnswer /\ tableFile' \in TableFiles
      BY <3>2 DEF AcqInv
    <3>4. CASE Usable(table')
      BY <3>1, <3>2, <3>3, <3>4 DEF AcqInv
    <3>5. CASE ~Usable(table')
      BY <3>2, <3>3, <3>5 DEF AcqInv
    <3> QED
      BY <3>4, <3>5
  <2>2. ASSUME NEW segment \in segments, NEW device \in Devices, NEW received \in Received(segment),
               Answered(segment, device, received)
        PROVE  AcqInv'
    <3>1. /\ stage = "polling" /\ UNCHANGED <<tableFile, stage, table, segments>>
          /\ Has(device, segment, received)
          /\ answer' = [segment |-> segment, device |-> device, received |-> received]
          /\ published' = {<<p.pointId, ValueOf(p, segment, device)>> : p \in Decoded(segment, received)}
      BY <2>2 DEF Answered
    <3>2. answer'.segment = segment /\ answer'.device = device /\ answer'.received = received
      BY <3>1
    <3>3. published' = {<<p.pointId, ValueOf(p, answer'.segment, answer'.device)>> :
                             p \in Decoded(answer'.segment, answer'.received)}
      BY <3>1, <3>2, Zenon
    <3>4. /\ answer'.segment \in segments' /\ answer'.device \in Devices
          /\ answer'.received \in Received(answer'.segment)
          /\ Has(answer'.device, answer'.segment, answer'.received)
      BY <3>1, <3>2
    <3>5. /\ tableFile' \in TableFiles /\ stage' = "polling"
          /\ IsLoaded(tableFile', table') /\ segments' = BuildSegments(table')
      BY <3>1 DEF AcqInv
    <3> QED
      BY <3>3, <3>4, <3>5 DEF AcqInv
  <2>3. CASE UNCHANGED acqVars
    BY <2>3, Zenon DEF acqVars, AcqInv, IsLoaded
  <2> QED
    BY <2>1, <2>2, <2>3 DEF AcqNext
<1> QED
  BY <1>1, <1>2, PTL DEF AcqSpec

LEMMA InvImpliesCover == AcqInv => SegmentsCoverPoints
<1> SUFFICES ASSUME AcqInv, stage = "polling"
             PROVE  /\ Len(tableFile.points) = Cardinality(AllPoints(table)) /\ IndexesAgree
                    /\ \A p \in AllPoints(table) : p.enabled =>
                          Cardinality({s \in segments : p \in ToSet(s.points)}) = 1
                    /\ \A s \in segments :
                          /\ s.qty \in 1 .. MaxQty(s.points[1].regType)
                          /\ \A p \in ToSet(s.points) :
                                /\ p.enabled
                                /\ p.slaveAddress = s.points[1].slaveAddress
                                /\ p.regType = s.points[1].regType
                                /\ p.registerAddr >= s.start
                                /\ p.registerAddr + PointWidth(p) <= s.start + s.qty
                          /\ \A a \in s.start .. s.start + s.qty - 1 : \E p \in ToSet(s.points) :
                                a \in p.registerAddr .. p.registerAddr + PointWidth(p) - 1
  BY DEF SegmentsCoverPoints
<1>1. IsLoaded(tableFile, table) /\ segments = BuildSegments(table)
  BY DEF AcqInv
<1>2. Len(tableFile.points) = Cardinality(AllPoints(table)) /\ IndexesAgree
  BY <1>1, LoadedPoints, LoadedIndexesAgree
<1>3. ASSUME NEW p \in AllPoints(table), p.enabled
      PROVE  Cardinality({s \in segments : p \in ToSet(s.points)}) = 1
  <2>1. p \in Enabled(table)
    BY <1>3 DEF Enabled
  <2>2. Cardinality({s \in BuildSegments(table) : p \in PointsOf(s)}) = 1
    BY <1>1, <2>1, SegmentsAreGood
  <2> QED
    BY <1>1, <2>2, Zenon DEF PointsOf
<1>4. ASSUME NEW s \in segments
      PROVE  /\ s.qty \in 1 .. MaxQty(s.points[1].regType)
             /\ \A p \in ToSet(s.points) :
                   /\ p.enabled
                   /\ p.slaveAddress = s.points[1].slaveAddress
                   /\ p.regType = s.points[1].regType
                   /\ p.registerAddr >= s.start
                   /\ p.registerAddr + PointWidth(p) <= s.start + s.qty
             /\ \A a \in s.start .. s.start + s.qty - 1 : \E p \in ToSet(s.points) :
                   a \in p.registerAddr .. p.registerAddr + PointWidth(p) - 1
  <2>1. PICK c \in Enabled(table) : GoodSegment(s, GroupOf(table, c))
    BY <1>1, SegmentsAreGood
  <2>2. s.points \in Seq(GroupOf(table, c)) /\ s.points # <<>>
    BY <2>1 DEF GoodSegment, SegmentRecords
  <2>3. s.points[1] \in GroupOf(table, c) /\ \A p \in ToSet(s.points) : p \in GroupOf(table, c)
    BY <2>2 DEF ToSet
  <2>4. \A p \in ToSet(s.points) : /\ p.enabled
                                   /\ p.slaveAddress = s.points[1].slaveAddress
                                   /\ p.regType = s.points[1].regType
    BY <2>3 DEF GroupOf, Enabled
  <2> QED
    BY <2>1, <2>4 DEF GoodSegment, PointsOf
<1> QED
  BY <1>2, <1>3, <1>4

(* Whatever the table file holds, loadFromJsonFile keeps every row and     *)
(* buildSegments puts every enabled point, with all its registers, in one  *)
(* segment that is no longer than a read may be and has no other address.  *)
THEOREM SegmentsCover == AcqSpec => []SegmentsCoverPoints
  BY AcqInvHolds, InvImpliesCover, PTL

-----------------------------------------------------------------------------
(* Bytes                                                                   *)

Word == {x \in Nat : x < 65536}

LEMMA BytesOfAWord ==
    ASSUME NEW x \in Word
    PROVE  /\ x \div 256 \in 0 .. 255 /\ x % 256 \in 0 .. 255
           /\ x = 256 * (x \div 256) + (x % 256)
           /\ Swapped(x) \in Word /\ Swapped(x) \div 256 = x % 256 /\ Swapped(x) % 256 = x \div 256
<1>1. PICK h, l \in Int : h = x \div 256 /\ l = x % 256
  BY DEF Word
<1>2. h \in 0 .. 255 /\ l \in 0 .. 255 /\ x = 256 * h + l
  BY <1>1 DEF Word
<1>3. Swapped(x) = 256 * l + h
  BY <1>1 DEF Swapped
<1>4. (256 * l + h) \div 256 = l /\ (256 * l + h) % 256 = h /\ 256 * l + h \in Word
  <2>1. (256 * l + h) \div 256 = l
    BY <1>2
  <2>2. (256 * l + h) % 256 = h
    BY <1>2
  <2>3. 256 * l + h \in Word
    BY <1>2 DEF Word
  <2> QED
    BY <2>1, <2>2, <2>3
<1> QED
  BY <1>1, <1>2, <1>3, <1>4

(* The places of the two bytes of a register. *)
LEMMA Places ==
    ASSUME NEW k \in Nat, k >= 1
    PROVE  /\ (2 * k - 1) % 2 = 1 /\ ((2 * k - 1) + 1) \div 2 = k
           /\ (2 * k) % 2 = 0 /\ (2 * k) \div 2 = k
  OBVIOUS

OnWire(regs, n, k) ==
    /\ 2 * k - 1 \in 1 .. 2 * n /\ 2 * k \in 1 .. 2 * n
    /\ WireBytes(regs)[2 * k - 1] = regs[k] \div 256
    /\ WireBytes(regs)[2 * k] = regs[k] % 256

LEMMA WireBytesAre ==
    ASSUME NEW n \in Nat, NEW regs \in [1 .. n -> Word], NEW k \in 1 .. n
    PROVE  OnWire(regs, n, k)
<1>1. Len(regs) = n
  OBVIOUS
<1>2. 2 * k - 1 \in 1 .. 2 * n /\ 2 * k \in 1 .. 2 * n
  OBVIOUS
<1>3. /\ (2 * k - 1) % 2 = 1 /\ ((2 * k - 1) + 1) \div 2 = k
      /\ (2 * k) % 2 = 0 /\ (2 * k) \div 2 = k
  BY Places
<1>4. WireBytes(regs) = [i \in 1 .. 2 * n |->
         IF i % 2 = 1 THEN regs[(i + 1) \div 2] \div 256 ELSE regs[i \div 2] % 256]
  BY <1>1 DEF WireBytes
<1> QED
  BY <1>1, <1>2, <1>3, <1>4 DEF OnWire

(* The words of some registers in a byte order. *)
InByteOrder(regs, order, n, w) ==
    \A k \in 1 .. n :
        CASE order = "ABCD" -> w[k] = regs[k]
          [] order = "CDAB" -> w[k] = regs[IF k <= n \div 2 THEN k + n \div 2 ELSE k - n \div 2]
          [] order = "BADC" -> w[k] = Swapped(regs[k])
          [] order = "DCBA" -> w[k] = Swapped(regs[n + 1 - k])

BytesOf(b, w, n) == \A k \in 1 .. n : b[2 * k - 1] = w[k] \div 256 /\ b[2 * k] = w[k] % 256

LEMMA ReassembledBytes ==
    ASSUME NEW n \in {1, 2, 4}, NEW regs \in [1 .. n -> Word], NEW order \in ByteOrder,
           order = "CDAB" => n # 1, NEW w, InByteOrder(regs, order, n, w)
    PROVE  BytesOf(ReassembleBytes(regs, order), w, n)
<1> DEFINE b == WireBytes(regs)
<1>1. /\ Len(regs) = n
      /\ \A k \in 1 .. n : /\ 2 * k - 1 \in 1 .. 2 * n /\ 2 * k \in 1 .. 2 * n
                           /\ b[2 * k - 1] = regs[k] \div 256 /\ b[2 * k] = regs[k] % 256
  <2>1. Len(regs) = n /\ n \in Nat
    OBVIOUS
  <2>2. \A k \in 1 .. n : OnWire(regs, n, k)
    BY <2>1, WireBytesAre
  <2> QED
    BY <2>1, <2>2 DEF OnWire
<1>2. \A k \in 1 .. n : /\ Swapped(regs[k]) \div 256 = regs[k] % 256
                        /\ Swapped(regs[k]) % 256 = regs[k] \div 256
  BY BytesOfAWord
<1>3. CASE order = "ABCD"
  <2>1. ReassembleBytes(regs, order) = b
    BY <1>3 DEF ReassembleBytes
  <2>2. \A k \in 1 .. n : w[k] = regs[k]
    BY <1>3 DEF InByteOrder
  <2> HIDE DEF b
  <2> QED
    BY <1>1, <2>1, <2>2 DEF BytesOf
<1>4. CASE order = "BADC"
  <2>1. ReassembleBytes(regs, order) = [i \in 1 .. 2 * n |-> b[IF i % 2 = 1 THEN i + 1 ELSE i - 1]]
    BY <1>1, <1>4 DEF ReassembleBytes
  <2>2. \A k \in 1 .. n : w[k] = Swapped(regs[k])
    BY <1>4 DEF InByteOrder
  <2> HIDE DEF b
  <2>3. ASSUME NEW k \in 1 .. n
        PROVE  /\ ReassembleBytes(regs, order)[2 * k - 1] = b[2 * k]
               /\ ReassembleBytes(regs, order)[2 * k] = b[2 * k - 1]
    <3>1. (2 * k - 1) % 2 = 1 /\ (2 * k - 1) + 1 = 2 * k /\ (2 * k) % 2 = 0
      BY Places
    <3>2. PICK r, o, e : r = ReassembleBytes(regs, order) /\ o = 2 * k - 1 /\ e = 2 * k
      OBVIOUS
    <3>3. /\ r = [i \in 1 .. 2 * n |-> b[IF i % 2 = 1 THEN i + 1 ELSE i - 1]]
          /\ o \in 1 .. 2 * n /\ e \in 1 .. 2 * n /\ o % 2 = 1 /\ e % 2 = 0 /\ o + 1 = e /\ e - 1 = o
      BY <1>1, <2>1, <3>1, <3>2
    <3>4. r[o] = b[e] /\ r[e] = b[o]
      BY <3>3
    <3> QED
      BY <3>2, <3>4
  <2> QED
    BY <1>1, <1>2, <2>2, <2>3 DEF BytesOf
<1>5. CASE order = "DCBA"
  <2>1. ReassembleBytes(regs, order) = [i \in 1 .. 2 * n |-> b[2 * n + 1 - i]]
    BY <1>1, <1>5 DEF ReassembleBytes
  <2>2. \A k \in 1 .. n : w[k] = Swapped(regs[n + 1 - k])
    BY <1>5 DEF InByteOrder
  <2> HIDE DEF b
  <2>3. ASSUME NEW k \in 1 .. n
        PROVE  /\ ReassembleBytes(regs, order)[2 * k - 1] = regs[n + 1 - k] % 256
               /\ ReassembleBytes(regs, order)[2 * k] = regs[n + 1 - k] \div 256
               /\ n + 1 - k \in 1 .. n
    <3>1. PICK j \in 1 .. n : j = n + 1 - k
      OBVIOUS
    <3>2. 2 * n + 1 - (2 * k - 1) = 2 * j /\ 2 * n + 1 - 2 * k = 2 * j - 1
      BY <3>1
    <3>3. /\ ReassembleBytes(regs, order)[2 * k - 1] = b[2 * j]
          /\ ReassembleBytes(regs, order)[2 * k] = b[2 * j - 1]
      <4>1. PICK r, o, e : r = ReassembleBytes(regs, order) /\ o = 2 * k - 1 /\ e = 2 * k
        OBVIOUS
      <4>2. /\ r = [i \in 1 .. 2 * n |-> b[2 * n + 1 - i]]
            /\ o \in 1 .. 2 * n /\ e \in 1 .. 2 * n
            /\ 2 * n + 1 - o = 2 * j /\ 2 * n + 1 - e = 2 * j - 1
        BY <1>1, <2>1, <3>2, <4>1
      <4>3. r[o] = b[2 * j] /\ r[e] = b[2 * j - 1]
        BY <4>2
      <4> QED
        BY <4>1, <4>3
    <3> QED
      BY <1>1, <3>1, <3>3
  <2> QED
    BY <1>2, <2>2, <2>3 DEF BytesOf
<1>6. CASE order = "CDAB"
  <2>1. PICK m \in {1, 2} : n = 2 * m /\ n \div 2 = m
    BY <1>6
  <2>2. ReassembleBytes(regs, order) = [i \in 1 .. 2 * n |->
                                 IF i <= 2 * m THEN b[i + 2 * m]
                                 ELSE IF i <= 2 * (2 * m) THEN b[i - 2 * m] ELSE 0]
    BY <1>1, <1>6, <2>1 DEF ReassembleBytes
  <2>3. \A k \in 1 .. n : w[k] = regs[IF k <= m THEN k + m ELSE k - m]
    BY <1>6, <2>1 DEF InByteOrder
  <2> HIDE DEF b
  <2>4. ASSUME NEW k \in 1 .. n
        PROVE  \E j \in 1 .. n : /\ w[k] = regs[j]
                                 /\ ReassembleBytes(regs, order)[2 * k - 1] = b[2 * j - 1]
                                 /\ ReassembleBytes(regs, order)[2 * k] = b[2 * j]
    <3>1. PICK r, o, e : r = ReassembleBytes(regs, order) /\ o = 2 * k - 1 /\ e = 2 * k
      OBVIOUS
    <3>2. r = [i \in 1 .. 2 * n |-> IF i <= 2 * m THEN b[i + 2 * m]
                                   ELSE IF i <= 2 * (2 * m) THEN b[i - 2 * m] ELSE 0]
      BY <2>2, <3>1
    <3>3. o \in 1 .. 2 * n /\ e \in 1 .. 2 * n /\ k \in Int
      BY <1>1, <3>1
    <3>4. CASE k <= m
      <4>1. PICK j \in 1 .. n : j = k + m
        BY <2>1, <3>4
      <4>2. o <= 2 * m /\ e <= 2 * m /\ o + 2 * m = 2 * j - 1 /\ e + 2 * m = 2 * j
        BY <2>1, <3>1, <3>4, <4>1
      <4>3. r[o] = b[2 * j - 1] /\ r[e] = b[2 * j]
        BY <3>2, <3>3, <4>2
      <4>4. w[k] = regs[j]
        BY <2>3, <3>4, <4>1
      <4> QED
        BY <3>1, <4>3, <4>4
    <3>5. CASE k > m
      <4>1. PICK j \in 1 .. n : j = k - m
        BY <2>1, <3>5
      <4>2. /\ ~(o <= 2 * m) /\ ~(e <= 2 * m) /\ o <= 2 * (2 * m) /\ e <= 2 * (2 * m)
            /\ o - 2 * m = 2 * j - 1 /\ e - 2 * m = 2 * j
        BY <2>1, <3>1, <3>5, <4>1
      <4>3. r[o] = b[2 * j - 1] /\ r[e] = b[2 * j]
        BY <3>2, <3>3, <4>2
      <4>4. w[k] = regs[j]
        BY <2>1, <2>3, <3>5, <4>1
      <4> QED
        BY <3>1, <4>3, <4>4
    <3> QED
      BY <2>1, <3>3, <3>4, <3>5
  <2>5. ASSUME NEW k \in 1 .. n
        PROVE  /\ ReassembleBytes(regs, order)[2 * k - 1] = w[k] \div 256
               /\ ReassembleBytes(regs, order)[2 * k] = w[k] % 256
    <3>1. PICK j \in 1 .. n : /\ w[k] = regs[j]
                              /\ ReassembleBytes(regs, order)[2 * k - 1] = b[2 * j - 1]
                              /\ ReassembleBytes(regs, order)[2 * k] = b[2 * j]
      BY <2>4
    <3>2. b[2 * j - 1] = regs[j] \div 256 /\ b[2 * j] = regs[j] % 256
      BY <1>1
    <3> QED
      BY <3>1, <3>2
  <2> QED
    BY <2>5 DEF BytesOf
<1> QED
  BY <1>3, <1>4, <1>5, <1>6 DEF ByteOrder

(* A high word before the two bytes of a low one. *)
LEMMA WideIntegers ==
    ASSUME NEW s \in Int, NEW x \in Int, NEW y \in Int, NEW z, z = 256 * x + y
    PROVE  s * 65536 + 256 * x + y = s * 65536 + z
OBVIOUS

LEMMA SignedIsInteger == \A x \in Word : Signed16(x) \in Int
BY DEF Signed16, Word

(* The number the bytes of some words make. *)
LEMMA DecodedWords ==
    ASSUME NEW p, p.dataType \in {"Int16", "Uint16", "Int32", "Float64"}, NEW b, NEW w, NEW n \in {1, 2, 4},
           n = RegisterCountFor(p.dataType), \A k \in 1 .. n : w[k] \in Word, BytesOf(b, w, n)
    PROVE  DecodeToEngineering(b, p.dataType, p.scaleFactor, p.offset) = Meant(p, w)
<1>1. \A k \in 1 .. n : /\ b[2 * k - 1] = w[k] \div 256 /\ b[2 * k] = w[k] % 256
                        /\ w[k] = 256 * (w[k] \div 256) + (w[k] % 256)
                        /\ w[k] \div 256 \in 0 .. 255 /\ w[k] % 256 \in 0 .. 255
  BY BytesOfAWord DEF BytesOf
<1>0. \A k \in 1 .. n : /\ b[2 * k - 1] \in Int /\ b[2 * k] \in Int
                        /\ w[k] = 256 * b[2 * k - 1] + b[2 * k]
  BY <1>1
<1>2. 1 \in 1 .. n /\ 2 * 1 - 1 = 1 /\ 2 * 1 = 2
  OBVIOUS
<1>3. b[1] = w[1] \div 256 /\ b[2] = w[1] % 256 /\ w[1] = 256 * b[1] + b[2] /\ w[1] \in Word
      /\ b[1] \in 0 .. 255 /\ b[2] \in 0 .. 255
  BY <1>1, <1>2
<1>4. CASE p.dataType = "Uint16"
  BY <1>3, <1>4 DEF DecodeToEngineering, Meant
<1>5. CASE p.dataType = "Int16"
  BY <1>3, <1>5 DEF DecodeToEngineering, Meant
<1>6. CASE p.dataType = "Int32"
  <2>1. n = 2 /\ 2 \in 1 .. n /\ 2 * 2 - 1 = 3 /\ 2 * 2 = 4
    BY <1>6 DEF RegisterCountFor
  <2>2. b[3] \in Int /\ b[4] \in Int /\ w[2] = 256 * b[3] + b[4]
    BY <1>0, <2>1
  <2>3. Signed16(w[1]) \in Int
    BY <1>2, SignedIsInteger
  <2>4. Signed16(256 * b[1] + b[2]) * 65536 + 256 * b[3] + b[4] = Signed16(w[1]) * 65536 + w[2]
    <3>1. Signed16(w[1]) * 65536 + 256 * b[3] + b[4] = Signed16(w[1]) * 65536 + w[2]
      BY <2>2, <2>3, WideIntegers
    <3>2. w[1] = 256 * b[1] + b[2]
      BY <1>0, <1>2
    <3> QED
      BY <3>1, <3>2
  <2> QED
    BY <1>6, <2>4 DEF DecodeToEngineering, Meant
<1>7. CASE p.dataType = "Float64"
  <2>1. n = 4 /\ 2 \in 1 .. n /\ 3 \in 1 .. n /\ 4 \in 1 .. n
        /\ 2 * 2 - 1 = 3 /\ 2 * 2 = 4 /\ 2 * 3 - 1 = 5 /\ 2 * 3 = 6 /\ 2 * 4 - 1 = 7 /\ 2 * 4 = 8
    BY <1>7 DEF RegisterCountFor
  <2>2. /\ b[3] = w[2] \div 256 /\ b[4] = w[2] % 256
        /\ b[5] = w[3] \div 256 /\ b[6] = w[3] % 256
        /\ b[7] = w[4] \div 256 /\ b[8] = w[4] % 256
    BY <1>1, <2>1
  <2>3. /\ b[1] \div 128 = w[1] \div 32768
        /\ 16 * (b[1] % 128) + b[2] \div 16 = (w[1] % 32768) \div 16
        /\ b[2] % 16 = w[1] % 16
    <3>1. PICK h \in 0 .. 255, l \in 0 .. 255 : h = b[1] /\ l = b[2]
      BY <1>3
    <3>2. h \div 128 = (256 * h + l) \div 32768
      OBVIOUS
    <3>3. 16 * (h % 128) + l \div 16 = ((256 * h + l) % 32768) \div 16
      OBVIOUS
    <3>4. l % 16 = (256 * h + l) % 16
      OBVIOUS
    <3>5. w[1] = 256 * h + l
      BY <1>3, <3>1
    <3> QED
      BY <3>1, <3>2, <3>3, <3>4, <3>5
  <2> QED
    BY <1>7, <2>2, <2>3 DEF DecodeToEngineering, Meant
<1> QED
  BY <1>4, <1>5, <1>6, <1>7

LEMMA WordsInOrder ==
    ASSUME NEW p, p.byteOrder \in ByteOrder, NEW d, NEW n \in {1, 2, 4}, n = Width(p),
           Registers(d, p.registerAddr, n) \in [1 .. n -> Word], p.byteOrder = "CDAB" => n # 1
    PROVE  /\ InByteOrder(Registers(d, p.registerAddr, n), p.byteOrder, n, Words(p, d))
           /\ \A k \in 1 .. n : Words(p, d)[k] \in Word
<1> DEFINE regs == Registers(d, p.registerAddr, n)
           w == Words(p, d)
<1>1. regs \in [1 .. n -> Word] /\ Len(regs) = n /\ regs \in Seq(Word)
  OBVIOUS
<1>2. \A k \in 1 .. n : regs[k] \in Word /\ Swapped(regs[k]) \in Word
  BY <1>1, BytesOfAWord
<1>3. w = CASE p.byteOrder = "ABCD" -> regs
            [] p.byteOrder = "CDAB" -> SubSeq(regs, n \div 2 + 1, n) \o SubSeq(regs, 1, n \div 2)
            [] p.byteOrder = "BADC" -> [i \in 1 .. n |-> Swapped(regs[i])]
            [] p.byteOrder = "DCBA" -> [i \in 1 .. n |-> Swapped(regs[n + 1 - i])]
  BY <1>1 DEF Words
<1> HIDE DEF regs, w
<1>4. CASE p.byteOrder = "ABCD"
  BY <1>2, <1>3, <1>4 DEF InByteOrder, regs, w
<1>5. CASE p.byteOrder = "BADC"
  <2>1. w = [i \in 1 .. n |-> Swapped(regs[i])]
    BY <1>3, <1>5
  <2> QED
    BY <1>2, <1>5, <2>1 DEF InByteOrder, regs, w
<1>6. CASE p.byteOrder = "DCBA"
  <2>1. w = [i \in 1 .. n |-> Swapped(regs[n + 1 - i])]
    BY <1>3, <1>6
  <2>2. \A k \in 1 .. n : n + 1 - k \in 1 .. n
    OBVIOUS
  <2> QED
    BY <1>2, <1>6, <2>1, <2>2 DEF InByteOrder, regs, w
<1>7. CASE p.byteOrder = "CDAB"
  <2>1. PICK m \in {1, 2} : n = 2 * m /\ n \div 2 = m
    BY <1>7
  <2>2. w = SubSeq(regs, m + 1, n) \o SubSeq(regs, 1, m)
    BY <1>3, <1>7, <2>1
  <2>3. PICK u, v : u = SubSeq(regs, m + 1, n) /\ v = SubSeq(regs, 1, m)
    OBVIOUS
  <2>4. /\ u \in Seq(Word) /\ Len(u) = m /\ \A k \in 1 .. m : u[k] = regs[k + m]
        /\ v \in Seq(Word) /\ Len(v) = m /\ \A k \in 1 .. m : v[k] = regs[k]
    <3>1. m + 1 \in Int /\ m \in Int /\ n \in Int
      BY <2>1
    <3>2. \A k \in 1 .. m : k + (m + 1) - 1 = k + m /\ k + 1 - 1 = k
      BY <3>1
    <3>3. n - (m + 1) + 1 = m /\ m - 1 + 1 = m
      BY <2>1
    <3>4. u \in Seq(Word) /\ Len(u) = m
      BY <1>1, <2>1, <2>3
    <3>5. v \in Seq(Word) /\ Len(v) = m
      BY <1>1, <2>1, <2>3
    <3>6. \A k \in 1 .. m : u[k] = regs[k + m]
      BY <1>1, <2>1, <2>3
    <3>7. \A k \in 1 .. m : v[k] = regs[k]
      BY <1>1, <2>1, <2>3
    <3> QED
      BY <3>4, <3>5, <3>6, <3>7
  <2>5. w = u \o v
    BY <2>2, <2>3
  <2>6. ASSUME NEW k \in 1 .. n PROVE w[k] = regs[IF k <= m THEN k + m ELSE k - m]
    <3>1. w[k] = IF k <= Len(u) THEN u[k] ELSE v[k - Len(u)]
      BY <2>1, <2>4, <2>5
    <3>2. CASE k <= m
      BY <2>1, <2>4, <3>1, <3>2
    <3>3. CASE ~(k <= m)
      <4>1. k - m \in 1 .. m
        BY <2>1, <3>3
      <4> QED
        BY <2>4, <3>1, <3>3, <4>1
    <3> QED
      BY <3>2, <3>3
  <2>7. \A k \in 1 .. n : (IF k <= m THEN k + m ELSE k - m) \in 1 .. n
    BY <2>1
  <2> QED
    BY <1>2, <1>7, <2>1, <2>6, <2>7 DEF InByteOrder, regs, w
<1> QED
  BY <1>4, <1>5, <1>6, <1>7 DEF ByteOrder

LEMMA InvImpliesHeld == AcqInv => PublishedIsHeld
<1> SUFFICES ASSUME AcqInv, NEW p \in AllPoints(table),
                    ~IsBitType(p.regType), p.dataType \notin {"Float32", "Bool"},
                    p.byteOrder = "CDAB" => PointWidth(p) > 1,
                    answer # NoAnswer, p \in ToSet(answer.segment.points)
             PROVE  {v \in published : v[1] = p.pointId} =
                       IF p.registerAddr + PointWidth(p) <= answer.segment.start + answer.received
                       THEN {<<p.pointId, Meant(p, Words(p, answer.device))>>} ELSE {}
  BY DEF PublishedIsHeld
<1>1. PICK s, d, r : s = answer.segment /\ d = answer.device /\ r = answer.received
  OBVIOUS
<1>2. /\ stage = "polling" /\ IsLoaded(tableFile, table) /\ segments = BuildSegments(table)
      /\ s \in segments /\ d \in Devices /\ r \in Received(s) /\ Has(d, s, r)
      /\ published = {<<q.pointId, ValueOf(q, s, d)>> : q \in Decoded(s, r)}
  BY <1>1 DEF AcqInv
<1>3. PICK c \in Enabled(table) : GoodSegment(s, GroupOf(table, c))
  BY <1>2, SegmentsAreGood
<1>4. s.points \in Seq(GroupOf(table, c)) /\ s.points # <<>> /\ s.start \in Int /\ s.qty \in Int
  BY <1>3 DEF GoodSegment, SegmentRecords
<1>5. /\ s.points[1] \in GroupOf(table, c) /\ \A q \in ToSet(s.points) : q \in GroupOf(table, c)
      /\ p \in ToSet(s.points)
  BY <1>1, <1>4 DEF ToSet
<1>6. /\ s.points[1].regType = p.regType
      /\ \A q \in ToSet(s.points) : q \in AllPoints(table)
  BY <1>5 DEF GroupOf, Enabled
<1>7. \A q \in AllPoints(table) : q.pointId = p.pointId => q = p
  BY <1>2, LoadedPoints
<1>8. /\ p.dataType \in {"Int16", "Uint16", "Int32", "Float64"} /\ p.byteOrder \in ByteOrder
      /\ p.registerAddr \in Nat
  BY <1>2, LoadedPoints DEF Decodable, DataType, GoodPoint
<1>9. /\ Width(p) = PointWidth(p) /\ Width(p) = RegisterCountFor(p.dataType)
  BY <1>8 DEF Width, PointWidth
<1>10. Width(p) \in {1, 2, 4}
  BY <1>8, <1>9 DEF RegisterCountFor
<1>11. PICK n \in {1, 2, 4} : n = Width(p) /\ n = PointWidth(p) /\ n = RegisterCountFor(p.dataType)
  BY <1>9, <1>10
<1>12. r \in Int
  BY <1>2, <1>4, <1>6 DEF Received
<1>13. p.registerAddr >= s.start
  BY <1>3, <1>5 DEF GoodSegment, PointsOf
<1>14. PICK addr, start \in Int : addr = p.registerAddr /\ start = s.start
  BY <1>4, <1>8
<1>15. p \in Decoded(s, r) <=> addr + n <= start + r
  <2>1. p \in Decoded(s, r) <=> addr - start + n <= r
    BY <1>5, <1>11, <1>14 DEF Decoded
  <2> QED
    BY <1>8, <1>11, <1>12, <1>14, <2>1
<1>16. \A q \in Decoded(s, r) : q \in AllPoints(table)
  BY <1>6 DEF Decoded
<1>17. {v \in published : v[1] = p.pointId} =
          IF p \in Decoded(s, r) THEN {<<p.pointId, ValueOf(p, s, d)>>} ELSE {}
  <2> DEFINE val(q) == ValueOf(q, s, d)
  <2>1. published = {<<q.pointId, val(q)>> : q \in Decoded(s, r)}
    BY <1>2
  <2> HIDE DEF val
  <2>2. \A v \in published : v[1] = p.pointId => p \in Decoded(s, r) /\ v = <<p.pointId, val(p)>>
    BY <1>7, <1>16, <2>1
  <2>3. p \in Decoded(s, r) => <<p.pointId, val(p)>> \in published
    BY <2>1
  <2>4. {v \in published : v[1] = p.pointId} =
          IF p \in Decoded(s, r) THEN {<<p.pointId, val(p)>>} ELSE {}
    BY <2>2, <2>3
  <2> QED
    BY <2>4 DEF val
<1>18. ASSUME addr + n <= start + r
       PROVE  ValueOf(p, s, d) = Meant(p, Words(p, d))
  <2> DEFINE regs == Registers(d, p.registerAddr, n)
  <2>1. start .. start + r - 1 \subseteq DOMAIN d
    BY <1>2, <1>6, <1>14 DEF Has
  <2>2. \A k \in 1 .. n : addr + k - 1 \in DOMAIN d
    <3>1. \A k \in 1 .. n : addr + k - 1 \in start .. start + r - 1
      BY <1>11, <1>12, <1>13, <1>14, <1>18
    <3> QED
      BY <2>1, <3>1
  <2>3. \A a \in DOMAIN d : d[a] \in Word
    BY <1>2, DevicesAssumption DEF Word
  <2>4. regs = [k \in 1 .. n |-> d[addr + k - 1]]
    BY <1>14 DEF Registers
  <2>5. regs \in [1 .. n -> Word]
    BY <2>2, <2>3, <2>4
  <2> HIDE DEF regs
  <2>6. p.byteOrder = "CDAB" => n # 1
    BY <1>11
  <2>7. InByteOrder(regs, p.byteOrder, n, Words(p, d)) /\ \A k \in 1 .. n : Words(p, d)[k] \in Word
    BY <1>8, <1>11, <2>5, <2>6, WordsInOrder DEF regs
  <2>8. BytesOf(ReassembleBytes(regs, p.byteOrder), Words(p, d), n)
    BY <1>8, <2>5, <2>6, <2>7, ReassembledBytes
  <2>9. ValueOf(p, s, d) = DecodeToEngineering(ReassembleBytes(regs, p.byteOrder), p.dataType, p.scaleFactor, p.offset)
    BY <1>8, <1>11 DEF ValueOf, regs
  <2>10. PICK b, w : b = ReassembleBytes(regs, p.byteOrder) /\ w = Words(p, d)
    OBVIOUS
  <2>11. DecodeToEngineering(b, p.dataType, p.scaleFactor, p.offset) = Meant(p, w)
    BY <1>8, <1>11, <2>7, <2>8, <2>10, DecodedWords
  <2> QED
    BY <2>9, <2>10, <2>11
<1> QED
  BY <1>1, <1>11, <1>14, <1>15, <1>17, <1>18

(* For every table, device and length of an answer, onResponseParsed       *)
(* publishes the values the registers of the points hold, in the byte      *)
(* order of the row, and nothing for a point the answer does not reach.    *)
THEOREM PublishedValuesAreHeld == AcqSpec => []PublishedIsHeld
  BY AcqInvHolds, InvImpliesHeld, PTL

-----------------------------------------------------------------------------
(* The channel: its flags, its timer and its socket agree.                 *)

(* The delays stay natural numbers. *)
LEMMA DelayIsNatural ==
    ASSUME ChannelTypeOK, NEW d \in Nat
    PROVE  NextDelay(d) \in Nat
BY DEF ChannelTypeOK, NextDelay

(* What the slots schedule: nothing on a closed channel.                   *)
LEMMA ScheduleKeepsTypes ==
    ASSUME ChannelTypeOK, ScheduleReconnect
    PROVE  /\ timer \/ (opened /\ ~closed) => timer' = TRUE
           /\ ~timer /\ (~opened \/ closed) => timer' = FALSE
           /\ backoff' \in Nat /\ failures' \in Nat
<1>t. timer \in BOOLEAN /\ backoff \in Nat /\ failures \in Nat
    BY DEF ChannelTypeOK
<1>1. NextDelay(backoff) \in Nat
    BY <1>t, DelayIsNatural
<1>2. CASE ~opened \/ closed \/ timer
    <2>1. UNCHANGED <<timer, backoff, failures>>
        BY <1>2 DEF ScheduleReconnect
    <2> QED BY <1>2, <1>t, <2>1
<1>3. CASE ~(~opened \/ closed \/ timer)
    <2>1. /\ timer' = TRUE /\ backoff' = NextDelay(backoff)
          /\ failures' = IF failures < MaxFailures THEN failures + 1 ELSE failures
        BY <1>3 DEF ScheduleReconnect
    <2> QED BY <1>1, <1>3, <1>t, <2>1
<1> QED BY <1>2, <1>3

LEMMA ChannelInvInit == ChannelInit => ChannelInv
<1> SUFFICES ASSUME ChannelInit PROVE ChannelInv
    OBVIOUS
<1>1. base \in Nat \ {0} /\ max \in Nat \ {0} /\ backoff \in Nat /\ failures \in Nat
    BY DEF ChannelInit
<1>2. /\ opened = FALSE /\ closed = FALSE /\ aborting = FALSE /\ timer = FALSE
      /\ socket = "none" /\ refusal = "none"
      /\ connectedFlag = FALSE /\ reported = FALSE
    BY DEF ChannelInit
<1> QED BY <1>1, <1>2 DEF ChannelInv, ChannelTypeOK, Consistent, ListenersKnowTheLink, KeepsTrying

(* One step per action. *)
LEMMA ChannelInvStep == ChannelInv /\ [ChannelNext]_channelVars => ChannelInv'
<1> SUFFICES ASSUME ChannelInv, [ChannelNext]_channelVars PROVE ChannelInv'
    OBVIOUS
<1> USE DEF ChannelInv, ChannelTypeOK, Consistent, ListenersKnowTheLink, KeepsTrying
<1>1. ASSUME NEW cfg \in Configs, Open(cfg) PROVE ChannelInv'
    <2>1. cfg.base \in Nat /\ cfg.max \in Nat
        BY <1>1, ConfigsAssumption
    <2>2. base' \in Nat \ {0} /\ max' \in Nat \ {0} /\ backoff' \in Nat /\ failures' \in Nat
        BY <1>1, <2>1 DEF Open
    <2>3. /\ opened' = TRUE /\ closed' = FALSE /\ aborting' = FALSE /\ timer' = FALSE
          /\ socket' = "connecting" /\ refusal' = "none"
          /\ connectedFlag' = FALSE /\ reported' = FALSE
        BY <1>1 DEF Open
    <2> QED BY <2>2, <2>3
<1>2. CASE Close
    BY <1>2 DEF Close
<1>3. CASE Abort
    <2>1. timer' = FALSE /\ backoff' \in Nat /\ failures' \in Nat
        BY <1>3, ScheduleKeepsTypes DEF Abort
    <2>2. connectedFlag' = FALSE /\ reported' = FALSE
        BY <1>3 DEF Abort
    <2>3. /\ closed' = TRUE /\ opened' = FALSE /\ aborting' = FALSE /\ socket' = "none"
          /\ UNCHANGED <<base, max, refusal>>
        BY <1>3 DEF Abort
    <2> QED BY <2>1, <2>2, <2>3
<1>4. CASE OnConnected
    BY <1>4 DEF OnConnected, Reported
<1>5. CASE OnDisconnected
    <2>1. opened /\ ~closed /\ ~aborting /\ refusal \notin Reported
        BY <1>5 DEF OnDisconnected, Reported
    <2>2. timer' = TRUE /\ backoff' \in Nat /\ failures' \in Nat
        BY <1>5, <2>1, ScheduleKeepsTypes DEF OnDisconnected
    <2>3. /\ opened' = TRUE /\ closed' = FALSE /\ aborting' = FALSE /\ socket' = "unconnected"
          /\ connectedFlag' = FALSE /\ reported' = FALSE
          /\ UNCHANGED <<base, max, refusal>>
        BY <1>5, <2>1 DEF OnDisconnected
    <2> QED BY <2>1, <2>2, <2>3
<1>6. ASSUME NEW err \in Errors, OnErrorOccurred(err) PROVE ChannelInv'
    <2>1. (err \in Retried) <=> (err \notin Reported)
        BY ErrorsAssumption DEF Retried, Reported
    <2>2. /\ opened /\ ~closed /\ ~aborting /\ ~timer /\ socket' = "unconnected" /\ refusal' = err
          /\ UNCHANGED <<opened, closed, aborting, base, max, connectedFlag, reported>>
          /\ ~connectedFlag /\ ~reported
        BY <1>6 DEF OnErrorOccurred
    <2>3. CASE err \in Retried
        <3>1. ScheduleReconnect
            BY <1>6, <2>3 DEF OnErrorOccurred
        <3>2. timer' = TRUE /\ backoff' \in Nat /\ failures' \in Nat
            BY <2>2, <3>1, ScheduleKeepsTypes
        <3> QED BY <2>1, <2>2, <2>3, <3>2
    <2>4. CASE err \notin Retried
        <3>1. UNCHANGED <<timer, backoff, failures>>
            BY <1>6, <2>4 DEF OnErrorOccurred
        <3> QED BY <2>1, <2>2, <2>4, <3>1
    <2> QED BY <2>3, <2>4
<1>7. CASE AttemptReconnect
    BY <1>7 DEF AttemptReconnect
<1>8. CASE UNCHANGED channelVars
    BY <1>8 DEF channelVars
<1> QED BY <1>1, <1>2, <1>3, <1>4, <1>5, <1>6, <1>7, <1>8 DEF ChannelNext

(* The invariant of the channel, for every set of errors and configurations. *)
THEOREM ChannelInvariance == ChannelSpec => []ChannelInv
BY ChannelInvInit, ChannelInvStep, PTL DEF ChannelSpec

(* m_connectedFlag and the last connectionChanged are the socket's state,  *)
(* through the calls that abort() makes inside close().                    *)
THEOREM FlagIsTheSocket == ChannelSpec => []ListenersKnowTheLink
<1>1. ChannelInv => ListenersKnowTheLink
    BY DEF ChannelInv
<1> QED BY <1>1, ChannelInvariance, PTL

(* The reconnect timer never fires into a closed or a busy channel. *)
THEOREM TimerOnlyWhileWaiting == ChannelSpec => []TimerMeansWaiting
<1>1. ChannelInv => TimerMeansWaiting
    BY DEF ChannelInv, KeepsTrying, Consistent, TimerMeansWaiting
<1> QED BY <1>1, ChannelInvariance, PTL

(* Whatever way attempts fail, an open channel without a connection has an *)
(* attempt or its timer under way, but for one thing: its last attempt     *)
(* failed in a way that onErrorOccurred only reports.                      *)
THEOREM NeverGivesUp == ChannelSpec => []KeepsTrying
<1>1. ChannelInv => KeepsTrying
    BY DEF ChannelInv
<1> QED BY <1>1, ChannelInvariance, PTL

-----------------------------------------------------------------------------
(* The PollScheduler object: first the queues of a link.                   *)

(* The waits after a dispatch. *)
LEMMA RecordedWaits ==
    ASSUME QueuesTypeOK, NEW q \in {"high", "normal", "low"}, NEW t \in Nat, Record(q, t)
    PROVE  /\ last' \in Dispatched
           /\ normalWait' \in Nat /\ lowRun' \in Nat /\ lowWait' \in Nat
           /\ q = "normal" => normalWait' = 0
           /\ (q = "high" /\ normal # <<>>) => normalWait' = normalWait + 1
           /\ (q = "high" /\ normal = <<>>) => normalWait' = normalWait
           /\ q = "low" => normalWait' = normalWait /\ lowRun' = 0
           /\ q = "high" => lowRun' = 0
           /\ (q = "normal" /\ high # <<>>) => lowRun' = 0
           /\ (q = "normal" /\ low = <<>>) => lowRun' = 0
           /\ (q = "normal" /\ high = <<>> /\ low # <<>>) => lowRun' = lowRun + 1
<1>1. last' = [queue |-> q, task |-> t]
  BY DEF Record
<1>2. last' \in Dispatched
  BY <1>1 DEF Dispatched
<1>3. /\ normalWait \in Nat /\ lowRun \in Nat /\ lowWait \in Nat
  BY DEF QueuesTypeOK
<1> QED
  BY <1>2, <1>3 DEF Record

(* Taking the first task of a queue. *)
LEMMA TakenTypes ==
    ASSUME QueuesTypeOK
    PROVE  /\ high # <<>> => Head(high) \in Nat /\ Tail(high) \in Seq(Nat)
           /\ normal # <<>> => Head(normal) \in Nat /\ Tail(normal) \in Seq(Nat)
           /\ low # <<>> => Head(low) \in Nat /\ Tail(low) \in Seq(Nat)
<1>1. \A q \in Seq(Nat) : q # <<>> => Head(q) \in Nat /\ Tail(q) \in Seq(Nat)
  OBVIOUS
<1>2. high \in Seq(Nat) /\ normal \in Seq(Nat) /\ low \in Seq(Nat)
  BY DEF QueuesTypeOK
<1> QED
  BY <1>1, <1>2, Zenon

LEMMA QueuesStepPreserves == WaitsAreCounted /\ [QueuesNext]_dequeVars => WaitsAreCounted'
<1> SUFFICES ASSUME WaitsAreCounted, [QueuesNext]_dequeVars PROVE WaitsAreCounted'
  OBVIOUS
<1> USE ParamsAssumption
<1>0. /\ QueuesTypeOK
      /\ sbo \in Nat /\ preempt \in Nat /\ normalWait \in Nat /\ lowRun \in Nat
      /\ normalWait <= sbo /\ normalWait <= MaxConsecutiveSboBurst
      /\ lowRun <= preempt /\ lowRun <= MaxConsecutivePreempt
  BY DEF WaitsAreCounted, QueuesTypeOK, PollsSurviveStorm, SlowPollsSurvivePolls
<1>1. CASE Enqueue
  <2>1. /\ UNCHANGED <<preempt, sbo, busy, last, normalWait, lowRun, lowWait>>
        /\ enqueued' = enqueued + 1
    BY <1>1 DEF Enqueue, counters, history
  <2>2. enqueued \in Nat /\ enqueued' \in Nat
    BY <1>0, <2>1 DEF QueuesTypeOK
  <2>3. high' \in Seq(Nat) /\ normal' \in Seq(Nat) /\ low' \in Seq(Nat)
    <3>1. high \in Seq(Nat) /\ normal \in Seq(Nat) /\ low \in Seq(Nat)
      BY <1>0 DEF QueuesTypeOK
    <3>2. /\ <<enqueued>> \o high \in Seq(Nat)
          /\ Append(normal, enqueued) \in Seq(Nat) /\ Append(low, enqueued) \in Seq(Nat)
      BY <2>2, <3>1
    <3> QED
      BY <1>1, <3>1, <3>2 DEF Enqueue
  <2> QED
    BY <1>0, <2>1, <2>2, <2>3 DEF WaitsAreCounted, QueuesTypeOK, PollsSurviveStorm, SlowPollsSurvivePolls
<1>2. CASE DequeueYield
  <2>1. /\ Record("normal", Head(normal)) /\ Head(normal) \in Nat
        /\ high # <<>>
        /\ sbo' = 0 /\ preempt' = 0
        /\ busy' = TRUE /\ UNCHANGED enqueued
        /\ UNCHANGED <<high, low>> /\ normal' \in Seq(Nat)
    BY <1>0, <1>2, TakenTypes DEF DequeueYield, TakeNormal
  <2>2. normalWait' = 0 /\ lowRun' = 0 /\ last' \in Dispatched /\ lowWait' \in Nat
    BY <1>0, <2>1, RecordedWaits
  <2> QED
    BY <1>0, <2>1, <2>2 DEF WaitsAreCounted, QueuesTypeOK, PollsSurviveStorm, SlowPollsSurvivePolls
<1>3. CASE DequeueHigh
  <2>1. /\ Record("high", Head(high)) /\ Head(high) \in Nat
        /\ normal # <<>> => sbo < MaxConsecutiveSboBurst
        /\ sbo' = sbo + 1 /\ preempt' = preempt + 1
        /\ busy' = TRUE /\ UNCHANGED enqueued
        /\ UNCHANGED <<normal, low>> /\ high' \in Seq(Nat)
    BY <1>0, <1>3, TakenTypes DEF DequeueHigh, TakeHigh
  <2>2. /\ normal # <<>> => normalWait' = normalWait + 1
        /\ normal = <<>> => normalWait' = normalWait
        /\ lowRun' = 0 /\ last' \in Dispatched /\ lowWait' \in Nat
    BY <1>0, <2>1, RecordedWaits
  <2>3. normalWait' \in Nat /\ normalWait' <= sbo' /\ normalWait' <= MaxConsecutiveSboBurst
    BY <1>0, <2>1, <2>2
  <2> QED
    BY <1>0, <2>1, <2>2, <2>3 DEF WaitsAreCounted, QueuesTypeOK, PollsSurviveStorm, SlowPollsSurvivePolls
<1>4. CASE DequeueLowGuard \/ DequeueLow
  <2>1. /\ Record("low", Head(low)) /\ Head(low) \in Nat
        /\ sbo' = sbo /\ preempt' = 0
        /\ busy' = TRUE /\ UNCHANGED enqueued
        /\ UNCHANGED <<high, normal>> /\ low' \in Seq(Nat)
    BY <1>0, <1>4, TakenTypes DEF DequeueLowGuard, DequeueLow, TakeLow
  <2>2. normalWait' = normalWait /\ lowRun' = 0 /\ last' \in Dispatched /\ lowWait' \in Nat
    BY <1>0, <2>1, RecordedWaits
  <2> QED
    BY <1>0, <2>1, <2>2 DEF WaitsAreCounted, QueuesTypeOK, PollsSurviveStorm, SlowPollsSurvivePolls
<1>5. CASE DequeueNormal
  <2>1. /\ Record("normal", Head(normal)) /\ Head(normal) \in Nat
        /\ high = <<>>
        /\ low # <<>> => preempt < MaxConsecutivePreempt
        /\ sbo' = sbo /\ preempt' = preempt + 1
        /\ busy' = TRUE /\ UNCHANGED enqueued
        /\ UNCHANGED <<high, low>> /\ normal' \in Seq(Nat)
    BY <1>0, <1>5, TakenTypes DEF DequeueNormal, TakeNormal
  <2>2. /\ normalWait' = 0 /\ last' \in Dispatched /\ lowWait' \in Nat
        /\ low = <<>> => lowRun' = 0
        /\ low # <<>> => lowRun' = lowRun + 1
    BY <1>0, <2>1, RecordedWaits
  <2>3. lowRun' \in Nat /\ lowRun' <= preempt' /\ lowRun' <= MaxConsecutivePreempt
    BY <1>0, <2>1, <2>2
  <2> QED
    BY <1>0, <2>1, <2>2, <2>3 DEF WaitsAreCounted, QueuesTypeOK, PollsSurviveStorm, SlowPollsSurvivePolls
<1>6. CASE LinkFree
  BY <1>0, <1>6 DEF LinkFree, queues, counters, history, WaitsAreCounted, QueuesTypeOK,
                    PollsSurviveStorm, SlowPollsSurvivePolls
<1>7. CASE UNCHANGED dequeVars
  BY <1>0, <1>7 DEF dequeVars, WaitsAreCounted, QueuesTypeOK, PollsSurviveStorm, SlowPollsSurvivePolls
<1> QED
  BY <1>1, <1>2, <1>3, <1>4, <1>5, <1>6, <1>7 DEF QueuesNext, DequeueNext

(* The inductive invariant of the link queues. *)
THEOREM SchedulerInvariance == QueuesSpec => []WaitsAreCounted
<1>1. QueuesInit => WaitsAreCounted
  <2>1. ASSUME QueuesInit PROVE QueuesTypeOK
    <3>1. /\ high = <<>> /\ normal = <<>> /\ low = <<>>
          /\ last = NoTask /\ busy = FALSE
          /\ preempt = 0 /\ sbo = 0 /\ enqueued = 0
          /\ normalWait = 0 /\ lowRun = 0 /\ lowWait = 0
      BY <2>1 DEF QueuesInit
    <3>2. high \in Seq(Nat) /\ normal \in Seq(Nat) /\ low \in Seq(Nat)
      BY <3>1
    <3> QED
      BY <3>1, <3>2 DEF QueuesTypeOK
  <2>2. QueuesInit => normalWait = 0 /\ sbo = 0 /\ lowRun = 0 /\ preempt = 0
    BY DEF QueuesInit
  <2> QED
    BY <2>1, <2>2, ParamsAssumption DEF WaitsAreCounted, PollsSurviveStorm, SlowPollsSurvivePolls
<1> QED
  BY <1>1, QueuesStepPreserves, PTL DEF QueuesSpec

(* dequeueNext: at most maxConsecutiveSboBurst control writes overtake a   *)
(* waiting poll, for every value of the limits.                            *)
THEOREM StormGuard == QueuesSpec => []PollsSurviveStorm
<1>1. WaitsAreCounted => PollsSurviveStorm
  BY DEF WaitsAreCounted
<1> QED
  BY <1>1, SchedulerInvariance, PTL

(* dequeueNext: at most maxConsecutivePreempt polls in a row overtake a    *)
(* waiting slow poll, for every value of the limits.                       *)
THEOREM StarvationGuard == QueuesSpec => []SlowPollsSurvivePolls
<1>1. WaitsAreCounted => SlowPollsSurvivePolls
  BY DEF WaitsAreCounted
<1> QED
  BY <1>1, SchedulerInvariance, PTL

-----------------------------------------------------------------------------
(* The order of the polls.                                                 *)

(* What waits in a queue of polls is sorted by age.                        *)
Sorted(q) ==
    /\ \A i \in 1 .. Len(q) : q[i] < enqueued
    /\ \A i, j \in 1 .. Len(q) : i < j => q[i] < q[j]

OrderInv ==
    /\ Sorted(normal) /\ Sorted(low)
    /\ last # NoTask /\ last.queue # "high" => last.task < enqueued
    /\ PollsInOrder

(* A task that comes last is younger than those that wait.                 *)
LEMMA SortedAppend ==
    ASSUME NEW q \in Seq(Nat), NEW e \in Nat,
           \A i \in 1 .. Len(q) : q[i] < e,
           \A i, j \in 1 .. Len(q) : i < j => q[i] < q[j]
    PROVE  /\ \A i \in 1 .. Len(Append(q, e)) : Append(q, e)[i] < e + 1
           /\ \A i, j \in 1 .. Len(Append(q, e)) : i < j => Append(q, e)[i] < Append(q, e)[j]
<1>1. \A i \in 1 .. Len(q) : q[i] \in Nat /\ Append(q, e)[i] = q[i]
  OBVIOUS
<1>2. Len(Append(q, e)) = Len(q) + 1 /\ Append(q, e)[Len(q) + 1] = e /\ Len(q) \in Nat
  OBVIOUS
<1>3. \A i \in 1 .. Len(q) + 1 : i \in 1 .. Len(q) \/ i = Len(q) + 1
  BY <1>2
<1> QED
  BY <1>1, <1>2, <1>3

(* The head is older than the tail, and the tail is sorted.                *)
LEMMA SortedTail ==
    ASSUME NEW q \in Seq(Nat), q # <<>>, NEW e \in Nat,
           \A i \in 1 .. Len(q) : q[i] < e,
           \A i, j \in 1 .. Len(q) : i < j => q[i] < q[j]
    PROVE  /\ Head(q) < e
           /\ \A i \in 1 .. Len(Tail(q)) : Tail(q)[i] < e /\ Head(q) < Tail(q)[i]
           /\ \A i, j \in 1 .. Len(Tail(q)) : i < j => Tail(q)[i] < Tail(q)[j]
<1>1. Len(q) \in Nat \ {0} /\ Head(q) = q[1] /\ Len(Tail(q)) = Len(q) - 1
  OBVIOUS
<1>2. \A i \in 1 .. Len(Tail(q)) : Tail(q)[i] = q[i + 1] /\ i + 1 \in 1 .. Len(q) /\ 1 < i + 1
  BY <1>1
<1> QED
  BY <1>1, <1>2

LEMMA NextOrder == QueuesTypeOK /\ OrderInv /\ [QueuesNext]_dequeVars => OrderInv'
<1> SUFFICES ASSUME QueuesTypeOK, OrderInv, [QueuesNext]_dequeVars PROVE OrderInv'
  OBVIOUS
<1>0. /\ normal \in Seq(Nat) /\ low \in Seq(Nat) /\ enqueued \in Nat
      /\ last \in Dispatched \cup {NoTask}
  BY DEF QueuesTypeOK
<1>1. CASE Enqueue
  <2>1. enqueued' = enqueued + 1 /\ last' = last
    BY <1>1 DEF Enqueue, history
  <2>2. Sorted(normal)' /\ Sorted(low)'
    <3>1. \A q \in {normal, low} : \A i \in 1 .. Len(q) : q[i] \in Nat
      BY <1>0
    <3>5. Sorted(normal) /\ Sorted(low)
      BY DEF OrderInv
    <3>6. ASSUME NEW q \in Seq(Nat), Sorted(q)
          PROVE  /\ \A i \in 1 .. Len(Append(q, enqueued)) : Append(q, enqueued)[i] < enqueued'
                 /\ \A i, j \in 1 .. Len(Append(q, enqueued)) :
                       i < j => Append(q, enqueued)[i] < Append(q, enqueued)[j]
      BY <1>0, <2>1, <3>6, SortedAppend, Zenon DEF Sorted
    <3>7. ASSUME NEW q \in Seq(Nat), Sorted(q)
          PROVE  /\ \A i \in 1 .. Len(q) : q[i] < enqueued'
                 /\ \A i, j \in 1 .. Len(q) : i < j => q[i] < q[j]
      <4>1. \A i \in 1 .. Len(q) : q[i] \in Nat /\ q[i] < enqueued
        BY <3>7 DEF Sorted
      <4>2. \A x \in Nat : x < enqueued => x < enqueued'
        BY <1>0, <2>1
      <4> QED
        BY <3>7, <4>1, <4>2, Zenon DEF Sorted
    <3>2. CASE normal' = Append(normal, enqueued) /\ UNCHANGED low
      BY <1>0, <3>2, <3>5, <3>6, <3>7 DEF Sorted
    <3>3. CASE low' = Append(low, enqueued) /\ UNCHANGED normal
      BY <1>0, <3>3, <3>5, <3>6, <3>7 DEF Sorted
    <3>4. CASE UNCHANGED <<normal, low>>
      BY <3>1, <3>4, <2>1, <1>0 DEF OrderInv, Sorted
    <3> QED
      BY <1>1, <3>2, <3>3, <3>4 DEF Enqueue
  <2>3. last # NoTask => /\ last.task \in Nat
                         /\ last.queue # "high" => last.task < enqueued
    BY <1>0 DEF OrderInv, Dispatched
  <2>4. PollsInOrder'
    <3> SUFFICES ASSUME last # NoTask
                 PROVE  /\ last.queue = "normal" => \A i \in 1 .. Len(normal') : last.task < normal'[i]
                        /\ last.queue = "low" => \A i \in 1 .. Len(low') : last.task < low'[i]
      BY <2>1 DEF PollsInOrder
    <3>1. \A q \in {normal, low} : \A i \in 1 .. Len(q) + 1 :
             Append(q, enqueued)[i] = IF i = Len(q) + 1 THEN enqueued ELSE q[i]
      BY <1>0
    <3>2. \A q \in {normal, low} : Len(Append(q, enqueued)) = Len(q) + 1 /\ Len(q) \in Nat
      BY <1>0
    <3>3. /\ last.queue = "normal" => \A i \in 1 .. Len(normal) : last.task < normal[i]
          /\ last.queue = "low" => \A i \in 1 .. Len(low) : last.task < low[i]
      BY DEF OrderInv, PollsInOrder
    <3>4. \/ normal' = Append(normal, enqueued) /\ UNCHANGED low
          \/ low' = Append(low, enqueued) /\ UNCHANGED normal
          \/ UNCHANGED <<normal, low>>
      BY <1>1 DEF Enqueue
    <3> QED
      BY <2>3, <3>1, <3>2, <3>3, <3>4, SMTT(30)
  <2> QED
    BY <1>0, <2>1, <2>2, <2>3, <2>4 DEF OrderInv
<1>2. ASSUME normal # <<>>, TakeNormal, UNCHANGED enqueued PROVE OrderInv'
  <2>1. last' = [queue |-> "normal", task |-> Head(normal)]
    BY <1>2 DEF TakeNormal, Record
  <2>2. normal' = Tail(normal) /\ low' = low
    BY <1>2 DEF TakeNormal
  <2> QED
    BY <1>0, <1>2, <2>1, <2>2, SortedTail DEF OrderInv, Sorted, PollsInOrder
<1>3. ASSUME low # <<>>, TakeLow, UNCHANGED enqueued PROVE OrderInv'
  <2>1. last' = [queue |-> "low", task |-> Head(low)]
    BY <1>3 DEF TakeLow, Record
  <2>2. low' = Tail(low) /\ normal' = normal
    BY <1>3 DEF TakeLow
  <2> QED
    BY <1>0, <1>3, <2>1, <2>2, SortedTail DEF OrderInv, Sorted, PollsInOrder
<1>4. CASE DequeueHigh
  BY <1>0, <1>4 DEF DequeueHigh, TakeHigh, Record, OrderInv, Sorted, PollsInOrder
<1>5. CASE LinkFree \/ UNCHANGED dequeVars
  BY <1>5 DEF LinkFree, queues, history, dequeVars, OrderInv, Sorted, PollsInOrder
<1> QED
  BY <1>1, <1>2, <1>3, <1>4, <1>5
     DEF QueuesNext, DequeueNext, DequeueYield, DequeueNormal, DequeueLowGuard, DequeueLow

(* enqueue, dequeueNext: polls of one class are sent in the order in which *)
(* they were enqueued, whatever overtakes them, for every number of tasks. *)
THEOREM PollOrder == QueuesSpec => []PollsInOrder
<1>1. QueuesInit => OrderInv
  BY DEF QueuesInit, OrderInv, Sorted, PollsInOrder
<1>2. WaitsAreCounted => QueuesTypeOK
  BY DEF WaitsAreCounted
<1>3. OrderInv => PollsInOrder
  BY DEF OrderInv
<1> QED
  BY <1>1, <1>2, <1>3, SchedulerInvariance, NextOrder, PTL DEF QueuesSpec

-----------------------------------------------------------------------------
(* The whole object.                                                       *)

(* The breaker does not disturb the queues.                                *)
LEMMA ObjectRunsQueues == SchedulerSpec => QueuesSpec
<1>1. SchedulerInit => QueuesInit
  BY DEF SchedulerInit
<1>2. [SchedulerNext]_<<dequeVars, healthVars>> => [QueuesNext]_dequeVars
  BY DEF SchedulerNext
<1> QED
  BY <1>1, <1>2, PTL DEF SchedulerSpec, QueuesSpec

(* What the queues guarantee, the object guarantees: no control write      *)
(* storm starves a poll, no poll a slow poll, and polls keep their order.  *)
THEOREM ObjectKeepsQueues ==
    SchedulerSpec => [](PollsSurviveStorm /\ SlowPollsSurvivePolls /\ PollsInOrder)
  BY ObjectRunsQueues, StormGuard, StarvationGuard, PollOrder, PTL

Reports == Seq({"degraded", "isolated"})

(* The state v of a slave and the reports o made of it fit together.       *)
AtStage(v, o) ==
    /\ v.health = "HEALTHY"  <=> v.failures < 3
    /\ v.health = "DEGRADED" <=> v.failures \in 3 .. 7
    /\ v.health = "HEALTHY"  => v.interval = "original" /\ o = <<>>
    /\ v.health = "DEGRADED" => v.interval = "tripled" /\ o = <<"degraded">>
    /\ v.health \in {"ISOLATED", "PROBING"} =>
          v.interval = "30s" /\ o = <<"degraded", "isolated">>

BreakerInv ==
    /\ slave \in [SlaveIds -> SlavePollState \cup {Unregistered}]
    /\ outage \in [SlaveIds -> Reports]
    /\ \A s \in SlaveIds : Registered(s) => AtStage(slave[s], outage[s])

(* A step that changes the state and the reports of one slave: the         *)
(* invariant has to be shown for that slave only.                          *)
LEMMA OneSlave ==
    ASSUME BreakerInv, NEW s \in SlaveIds,
           NEW v \in SlavePollState \cup {Unregistered}, NEW o \in Reports,
           slave' = [slave EXCEPT ![s] = v],
           outage' = [outage EXCEPT ![s] = o],
           v # Unregistered => AtStage(v, o)
    PROVE  BreakerInv'
BY DEF BreakerInv, Registered

LEMMA ReportsMade ==
    /\ <<>> \in Reports /\ <<"degraded">> \in Reports /\ <<"degraded", "isolated">> \in Reports
    /\ Append(<<>>, "degraded") = <<"degraded">>
    /\ Append(<<"degraded">>, "isolated") = <<"degraded", "isolated">>
<1>1. <<>> \in Seq({"degraded", "isolated"})
  OBVIOUS
<1>2. <<"degraded">> \in Seq({"degraded", "isolated"})
  OBVIOUS
<1>3. <<"degraded", "isolated">> \in Seq({"degraded", "isolated"})
  OBVIOUS
<1>4. Append(<<>>, "degraded") = <<"degraded">>
  OBVIOUS
<1>5. Append(<<"degraded">>, "isolated") = <<"degraded", "isolated">>
  <2>1. Len(Append(<<"degraded">>, "isolated")) = 2 /\ Len(<<"degraded", "isolated">>) = 2
    OBVIOUS
  <2>2. /\ Append(<<"degraded">>, "isolated")[1] = "degraded"
        /\ Append(<<"degraded">>, "isolated")[2] = "isolated"
    OBVIOUS
  <2>3. \A i \in 1 .. 2 : Append(<<"degraded">>, "isolated")[i] = <<"degraded", "isolated">>[i]
    BY <2>2
  <2>4. Append(<<"degraded">>, "isolated") \in Seq({"degraded", "isolated"})
    BY <1>2
  <2> QED
    BY <2>1, <2>3, <2>4, <1>3, SeqEqual
<1> QED
  BY <1>1, <1>2, <1>3, <1>4, <1>5 DEF Reports

(* What the invariant says of a slave that is registered.                  *)
LEMMA RegisteredSlave ==
    ASSUME BreakerInv, NEW s \in SlaveIds, Registered(s)
    PROVE  slave[s] \in SlavePollState /\ AtStage(slave[s], outage[s])
  BY DEF BreakerInv, Registered

(* Every step of the breaker keeps its invariant, one slave at a time.     *)
LEMMA NextBreaker == BreakerInv /\ [SchedulerNext]_<<dequeVars, healthVars>> => BreakerInv'
<1> SUFFICES ASSUME BreakerInv, [SchedulerNext]_<<dequeVars, healthVars>> PROVE BreakerInv'
  OBVIOUS
<1>0. /\ slave \in [SlaveIds -> SlavePollState \cup {Unregistered}]
      /\ outage \in [SlaveIds -> Reports]
  BY DEF BreakerInv
<1>1. CASE UNCHANGED healthVars
  BY <1>1 DEF healthVars, BreakerInv, Registered
<1>2. ASSUME NEW s \in SlaveIds, RegisterSlave(s) PROVE BreakerInv'
  <2> DEFINE v == [failures |-> 0, health |-> "HEALTHY", interval |-> "original", due |-> FALSE]
  <2>1. v \in SlavePollState
    BY DEF SlavePollState, Health
  <2>2. AtStage(v, <<>>)
    BY DEF AtStage
  <2>3. slave' = [slave EXCEPT ![s] = v] /\ outage' = [outage EXCEPT ![s] = <<>>]
    BY <1>2 DEF RegisterSlave
  <2> HIDE DEF v
  <2> QED
    BY <2>1, <2>2, <2>3, ReportsMade, OneSlave
<1>3. ASSUME NEW s \in SlaveIds, UnregisterSlave(s) PROVE BreakerInv'
  BY <1>3, ReportsMade, OneSlave DEF UnregisterSlave
<1>5. ASSUME NEW s \in SlaveIds, ResponseOk(s) PROVE BreakerInv'
  <2> DEFINE r == slave[s]
             v == [r EXCEPT !.failures = 0, !.health = "HEALTHY", !.interval = "original"]
  <2>1. r \in SlavePollState
    BY <1>5, RegisteredSlave DEF ResponseOk
  <2>2. slave' = [slave EXCEPT ![s] = v] /\ outage' = [outage EXCEPT ![s] = <<>>]
    BY <1>5 DEF ResponseOk
  <2> HIDE DEF r
  <2>3. /\ v \in SlavePollState
        /\ v.failures = 0 /\ v.health = "HEALTHY" /\ v.interval = "original"
    BY <2>1 DEF SlavePollState, Health
  <2> HIDE DEF v
  <2>4. AtStage(v, <<>>)
    BY <2>3 DEF AtStage
  <2> QED
    BY <2>2, <2>3, <2>4, ReportsMade, OneSlave
<1>6. ASSUME NEW s \in SlaveIds, Registered(s), FailureCounted(s) PROVE BreakerInv'
  <2> DEFINE r == slave[s]
             v == [r EXCEPT !.failures = @ + 1]
  <2>1. r \in SlavePollState /\ AtStage(r, outage[s])
    BY <1>6, RegisteredSlave
  <2>2. /\ slave' = [slave EXCEPT ![s] = v] /\ outage' = [outage EXCEPT ![s] = outage[s]]
        /\ outage[s] \in Reports
    BY <1>0, <1>6 DEF FailureCounted
  <2>3. r.failures + 1 < 3 \/ (r.failures + 1 < 8 /\ r.health # "HEALTHY")
    BY <1>6 DEF FailureCounted
  <2> HIDE DEF r
  <2>4. /\ v \in SlavePollState /\ r.failures \in Nat
        /\ v.failures = r.failures + 1 /\ v.health = r.health /\ v.interval = r.interval
    BY <2>1 DEF SlavePollState, Health
  <2> HIDE DEF v
  <2>5. AtStage(v, outage[s])
    BY <2>1, <2>3, <2>4 DEF AtStage
  <2> QED
    BY <2>2, <2>4, <2>5, OneSlave
<1>7. ASSUME NEW s \in SlaveIds, Registered(s), FailureDegrades(s) PROVE BreakerInv'
  <2> DEFINE r == slave[s]
             v == [r EXCEPT !.failures = @ + 1, !.health = "DEGRADED", !.interval = "tripled"]
  <2>1. r \in SlavePollState /\ AtStage(r, outage[s])
    BY <1>7, RegisteredSlave
  <2>2. /\ slave' = [slave EXCEPT ![s] = v]
        /\ outage' = [outage EXCEPT ![s] = Append(outage[s], "degraded")]
        /\ r.failures + 1 \in 3 .. 7 /\ r.health = "HEALTHY"
    BY <1>0, <1>7 DEF FailureDegrades
  <2> HIDE DEF r
  <2>3. v \in SlavePollState
    <3>1. \A f \in Nat : [r EXCEPT !.failures = f, !.health = "DEGRADED", !.interval = "tripled"]
                           \in SlavePollState
      BY <2>1 DEF SlavePollState, Health
    <3>2. r.failures + 1 \in Nat
      BY <2>1 DEF SlavePollState
    <3> QED
      BY <3>1, <3>2
  <2>6. v.failures = r.failures + 1 /\ v.health = "DEGRADED" /\ v.interval = "tripled"
    BY <2>1 DEF SlavePollState
  <2> HIDE DEF v
  <2>4. outage[s] = <<>>
    BY <2>1, <2>2 DEF AtStage
  <2>5. AtStage(v, <<"degraded">>)
    BY <2>2, <2>6 DEF AtStage
  <2> QED
    BY <2>2, <2>3, <2>4, <2>5, ReportsMade, OneSlave
<1>8. ASSUME NEW s \in SlaveIds, Registered(s), FailureIsolates(s) PROVE BreakerInv'
  <2> DEFINE r == slave[s]
             v == [r EXCEPT !.failures = @ + 1, !.health = "ISOLATED", !.interval = "30s", !.due = FALSE]
             o == <<"degraded", "isolated">>
  <2>1. r \in SlavePollState /\ AtStage(r, outage[s])
    BY <1>8, RegisteredSlave
  <2>2. /\ slave' = [slave EXCEPT ![s] = v]
        /\ outage' = IF r.health \in {"ISOLATED", "PROBING"} THEN outage
                      ELSE [outage EXCEPT ![s] = Append(outage[s], "isolated")]
        /\ r.failures + 1 >= 8
    BY <1>0, <1>8 DEF FailureIsolates
  <2> HIDE DEF r
  <2>7. v \in SlavePollState
    <3>1. \A f \in Nat : [r EXCEPT !.failures = f, !.health = "ISOLATED", !.interval = "30s", !.due = FALSE]
                           \in SlavePollState
      BY <2>1 DEF SlavePollState, Health
    <3>2. r.failures + 1 \in Nat
      BY <2>1 DEF SlavePollState
    <3> QED
      BY <3>1, <3>2
  <2>3. /\ r.failures \in Nat /\ r.health \in Health
        /\ v.failures = r.failures + 1 /\ v.health = "ISOLATED" /\ v.interval = "30s"
    BY <2>1 DEF SlavePollState
  <2> HIDE DEF v
  <2>4. outage' = [outage EXCEPT ![s] = o]
    <3>1. CASE r.health \in {"ISOLATED", "PROBING"}
      BY <1>0, <2>1, <2>2, <3>1 DEF AtStage
    <3>2. CASE r.health \notin {"ISOLATED", "PROBING"}
      <4>1. r.health # "HEALTHY"
        BY <2>1, <2>2, <2>3 DEF AtStage
      <4>2. outage[s] = <<"degraded">>
        BY <2>1, <2>3, <3>2, <4>1 DEF AtStage, Health
      <4> QED
        BY <2>2, <3>2, <4>2, ReportsMade
    <3> QED
      BY <3>1, <3>2
  <2>5. AtStage(v, o)
    BY <2>2, <2>3 DEF AtStage
  <2> HIDE DEF o
  <2>6. o \in Reports
    BY ReportsMade DEF o
  <2> QED
    BY <2>2, <2>7, <2>4, <2>5, <2>6, OneSlave
<1>9. ASSUME NEW s \in SlaveIds, Registered(s), NEW v \in SlavePollState, slave' = [slave EXCEPT ![s] = v],
             v.failures = slave[s].failures, v.interval = slave[s].interval,
             \/ v.health = slave[s].health
             \/ v.health = "PROBING" /\ slave[s].health = "ISOLATED",
             UNCHANGED outage
      PROVE  BreakerInv'
  <2>1. AtStage(slave[s], outage[s])
    BY <1>9, RegisteredSlave
  <2>2. AtStage(v, outage[s])
    BY <1>9, <2>1 DEF AtStage
  <2>3. outage' = [outage EXCEPT ![s] = outage[s]] /\ outage[s] \in Reports
    BY <1>0, <1>9
  <2> QED
    BY <1>9, <2>2, <2>3, OneSlave
<1>10. ASSUME NEW s \in SlaveIds, EnterProbingIfDue(s) PROVE BreakerInv'
  <2> DEFINE r == slave[s]
             v == [r EXCEPT !.health = "PROBING", !.due = FALSE]
  <2>1. r \in SlavePollState /\ Registered(s)
    BY <1>10, RegisteredSlave DEF EnterProbingIfDue
  <2>2. slave' = [slave EXCEPT ![s] = v] /\ r.health = "ISOLATED" /\ UNCHANGED outage
    BY <1>10 DEF EnterProbingIfDue
  <2> HIDE DEF r
  <2>3. /\ v \in SlavePollState /\ v.health = "PROBING"
        /\ v.failures = r.failures /\ v.interval = r.interval
    BY <2>1 DEF SlavePollState, Health
  <2> HIDE DEF v
  <2> QED
    BY <1>9, <2>1, <2>2, <2>3 DEF r
<1>11. ASSUME NEW s \in SlaveIds, ThirtySecondsPass(s) PROVE BreakerInv'
  <2> DEFINE r == slave[s]
             v == [r EXCEPT !.due = TRUE]
  <2>1. r \in SlavePollState /\ Registered(s)
    BY <1>11, RegisteredSlave DEF ThirtySecondsPass
  <2>2. slave' = [slave EXCEPT ![s] = v] /\ UNCHANGED outage
    BY <1>11 DEF ThirtySecondsPass
  <2> HIDE DEF r
  <2>3. /\ v \in SlavePollState /\ v.health = r.health
        /\ v.failures = r.failures /\ v.interval = r.interval
    BY <2>1 DEF SlavePollState, Health
  <2> HIDE DEF v
  <2> QED
    BY <1>9, <2>1, <2>2, <2>3 DEF r
<1> QED
  BY <1>1, <1>2, <1>3, <1>5, <1>6, <1>7, <1>8, <1>10, <1>11
     DEF SchedulerNext, HealthNext, ResponseFailed

(* The inductive invariant of the breaker.                                 *)
THEOREM BreakerInvariance == SchedulerSpec => []BreakerInv
<1>1. SchedulerInit => BreakerInv
  BY ReportsMade DEF SchedulerInit, HealthInit, BreakerInv, Registered
<1> QED
  BY <1>1, NextBreaker, PTL DEF SchedulerSpec

(* onResponseReceived, enterProbingIfDue: the stage of every slave follows *)
(* from its failures in a row, at the thresholds 3 and 8.                  *)
THEOREM BreakerFollowsFailures == SchedulerSpec => []StageMatchesFailures
<1>1. BreakerInv => StageMatchesFailures
  <2> SUFFICES ASSUME BreakerInv, NEW s \in SlaveIds, Registered(s)
               PROVE  /\ slave[s].health = "HEALTHY"  <=> slave[s].failures < 3
                      /\ slave[s].health = "DEGRADED" <=> slave[s].failures \in 3 .. 7
                      /\ slave[s].interval = CASE slave[s].health = "HEALTHY"  -> "original"
                                               [] slave[s].health = "DEGRADED" -> "tripled"
                                               [] OTHER                        -> "30s"
    BY DEF StageMatchesFailures
  <2>1. slave[s] \in SlavePollState /\ AtStage(slave[s], outage[s])
    BY RegisteredSlave
  <2> QED
    BY <2>1 DEF AtStage, SlavePollState, Health
<1> QED
  BY <1>1, BreakerInvariance, PTL

(* onResponseReceived: one outage is one slaveDegraded and one             *)
(* slaveIsolated, however many probes fail.                                *)
THEOREM OutageReportedOnce == SchedulerSpec => []OneReportPerStage
<1>1. BreakerInv => OneReportPerStage
  <2> SUFFICES ASSUME BreakerInv, NEW s \in SlaveIds, Registered(s)
               PROVE  outage[s] = CASE slave[s].health = "HEALTHY"  -> <<>>
                                    [] slave[s].health = "DEGRADED" -> <<"degraded">>
                                    [] OTHER                        -> <<"degraded", "isolated">>
    BY DEF OneReportPerStage
  <2>1. slave[s] \in SlavePollState /\ AtStage(slave[s], outage[s])
    BY RegisteredSlave
  <2> QED
    BY <2>1 DEF AtStage, SlavePollState, Health
<1> QED
  BY <1>1, BreakerInvariance, PTL
=============================================================================
