------------------------------ MODULE PollLink ------------------------------
(***************************************************************************)
(* The acquisition path of app/EnerSentryApp: the TCP channel, the Modbus  *)
(* engine and the PollDriver in the worker thread, the application in the  *)
(* main thread, and the two event queues between them.  A handler of       *)
(* either thread is one action; the queues are the only way across.        *)
(*                                                                         *)
(* The scheduler calls of onPollTick leave nothing behind here: every      *)
(* enqueue is followed by the dequeue of the same task, the links are full *)
(* duplex and no slave is registered with the scheduler.                   *)
(***************************************************************************)
EXTENDS ModbusEngine, Sequences

CONSTANTS
    NSeg,       \* number of read segments built from the point table
    SlaveOf,    \* segment -> slave
    FcOf,       \* segment -> read function code (1..4)
    WriteSlave, \* the slave SBO commands go to
    None,       \* nothing decoded yet
    MaxFlaps,   \* bound: connections established in a run
    MaxWrites   \* bound: SBO commands dispatched in a run

Segs == 0 .. NSeg - 1

ASSUME SegAssumption ==
    /\ NSeg \in Nat \ {0}
    /\ SlaveOf \in [Segs -> Slaves]
    /\ FcOf \in [Segs -> 1 .. 4]
ASSUME WriteAssumption == WriteSlave \in Slaves
ASSUME BoundAssumption == MaxFlaps \in Nat /\ MaxWrites \in Nat

VARIABLES
    started,      \* EnerSentryApp::m_started, after a successful start()
    connected,    \* TcpChannel::m_connectedFlag, the worker's truth
    appConnected, \* EnerSentryApp::m_connected
    toMain,       \* queued connectionChanged(bool) events
    toWorker,     \* queued calls into the worker
    running,      \* PollDriver::m_running
    pending,      \* PollDriver::m_pending
    nextSeg,      \* PollDriver::m_nextSegIdx, modulo the segments
    ticks,        \* single-shot onPollTick timers under way
    wire,         \* requests on the connection not answered yet
    decoded,      \* history: last answer published, [asked, as]
    flaps, writes \* how much of the bounds is used

appVars == <<started, appConnected, flaps, writes>>
queueVars == <<toMain, toWorker>>
driverVars == <<running, pending, nextSeg, ticks, decoded>>
vars == <<used, inFlight, started, connected, appConnected, toMain, toWorker,
          running, pending, nextSeg, ticks, wire, decoded, flaps, writes>>

Calls == {"start", "stop", "reset", "write"}

(* What a request asks for: a segment, or -1 for an FC06 write. *)
Write == -1
Asks == Segs \cup {Write}

(* The table entry of a request; polls use the slave as their link id,     *)
(* SBO writes use link 1.                                                  *)
EntryOf(ask) ==
    IF ask = Write THEN [linkId |-> 1, slave |-> WriteSlave]
                   ELSE [linkId |-> SlaveOf[ask], slave |-> SlaveOf[ask]]

Pending == [active : BOOLEAN, seg : Segs]

Init ==
    /\ EngineInit
    /\ started = TRUE
    /\ connected = FALSE
    /\ appConnected = FALSE
    /\ toMain = <<>>
    /\ toWorker = <<>>
    /\ running = FALSE
    /\ pending = [active |-> FALSE, seg |-> 0]
    /\ nextSeg = 0
    /\ ticks = 0
    /\ wire = {}
    /\ decoded = None
    /\ flaps = 0
    /\ writes = 0

-----------------------------------------------------------------------------
(* Worker thread: the channel.                                             *)

(* TcpChannel::onConnected *)
LinkUp ==
    /\ started
    /\ ~connected
    /\ flaps < MaxFlaps
    /\ flaps' = flaps + 1
    /\ connected' = TRUE
    /\ EngineConnectionChanged(TRUE)
    /\ toMain' = Append(toMain, TRUE)
    /\ UNCHANGED <<started, appConnected, toWorker, writes, wire>>
    /\ UNCHANGED driverVars

(* TcpChannel::onDisconnected: the requests on the connection die with it. *)
LinkDown ==
    /\ started
    /\ connected
    /\ connected' = FALSE
    /\ EngineConnectionChanged(FALSE)
    /\ wire' = {}
    /\ toMain' = Append(toMain, FALSE)
    /\ UNCHANGED <<started, appConnected, toWorker, flaps, writes>>
    /\ UNCHANGED driverVars

-----------------------------------------------------------------------------
(* Worker thread: writeRequest and the poll driver.                        *)

(* ModbusEngine::writeRequest that returns -1 without touching anything. *)
WriteRefused == Exhausted /\ UNCHANGED <<used, inFlight, wire>>

(* writeRequest up to TcpChannel::write: the id is registered first, and   *)
(* stays registered when the channel refuses the bytes.                    *)
WriteFails(ask) ==
    /\ ~connected
    /\ \E t \in Tids : Lowest(t) /\ Register(t, EntryOf(ask))
    /\ UNCHANGED wire

WriteSent(ask) ==
    /\ connected
    /\ \E t \in Tids :
          /\ Lowest(t)
          /\ Register(t, EntryOf(ask))
          /\ wire' = wire \cup {[tid |-> t, ask |-> ask]}

(* onPollTick after stopPolling: the chain ends. *)
PollTickStopped ==
    /\ ticks > 0
    /\ ~running
    /\ ticks' = ticks - 1
    /\ UNCHANGED <<running, pending, nextSeg, decoded, connected, wire>>
    /\ UNCHANGED engineVars /\ UNCHANGED appVars /\ UNCHANGED queueVars

(* onPollTick while the previous poll is open: skip and reschedule. *)
PollTickSkips ==
    /\ ticks > 0
    /\ running
    /\ pending.active
    /\ UNCHANGED vars

(* onPollTick: take the next segment, write its read request, remember it  *)
(* as the pending poll unless the write failed, reschedule.                *)
PollTick ==
    /\ ticks > 0
    /\ running
    /\ ~pending.active
    /\ nextSeg' = (nextSeg + 1) % NSeg
    /\ \/ /\ WriteRefused \/ WriteFails(nextSeg)
          /\ UNCHANGED pending
       \/ /\ WriteSent(nextSeg)
          /\ pending' = [active |-> TRUE, seg |-> nextSeg]
    /\ UNCHANGED <<running, ticks, decoded, connected>>
    /\ UNCHANGED appVars /\ UNCHANGED queueVars

(* Mutant: the link and slave of the pending poll are not compared. *)
MatchesAnySlave(r) ==
    /\ pending.active
    /\ r.ask # Write
    /\ FcOf[r.ask] = FcOf[pending.seg]

(* onResponseParsed: only a read answer of the pending link, slave and     *)
(* function code is taken.  Link and slave come from the in-flight table,  *)
(* the function code from the frame.                                       *)
MatchesPending(r) ==
    /\ pending.active
    /\ r.ask # Write
    /\ inFlight[r.tid] = EntryOf(pending.seg)
    /\ FcOf[r.ask] = FcOf[pending.seg]

(* The answer to r arrives: the engine settles r, the driver decodes it as *)
(* the pending segment (ok), takes it as an exception, or drops it.        *)
DeviceAnswers(r, ok) ==
    /\ r \in wire
    /\ wire' = wire \ {r}
    /\ Settle(r.tid)
    /\ pending' = IF MatchesPending(r) THEN [pending EXCEPT !.active = FALSE]
                                       ELSE pending
    /\ decoded' = IF MatchesPending(r) /\ ok
                    THEN [asked |-> r.ask, as |-> pending.seg]
                    ELSE decoded
    /\ UNCHANGED <<running, nextSeg, ticks, connected>>
    /\ UNCHANGED appVars /\ UNCHANGED queueVars

(* The answer to r arrives unparseable: frameError(0, 0, Malformed), which *)
(* closes whatever poll is pending.  The engine cannot tell the id.        *)
DeviceGarbles(r) ==
    /\ r \in wire
    /\ wire' = wire \ {r}
    /\ pending' = [pending EXCEPT !.active = FALSE]
    /\ UNCHANGED <<running, nextSeg, ticks, decoded, connected>>
    /\ UNCHANGED engineVars /\ UNCHANGED appVars /\ UNCHANGED queueVars

-----------------------------------------------------------------------------
(* Worker thread: the calls queued by the application.                     *)

(* startPolling: one more timer chain. *)
StartPolling ==
    /\ running' = TRUE
    /\ ticks' = ticks + 1
    /\ UNCHANGED <<pending, used, inFlight, wire>>

(* stopPolling does not cancel the timer under way. *)
StopPolling == running' = FALSE /\ UNCHANGED <<ticks, pending, used, inFlight, wire>>

ResetPending ==
    /\ pending' = [pending EXCEPT !.active = FALSE]
    /\ UNCHANGED <<running, ticks, used, inFlight, wire>>

(* The lambda of dispatchSboCommand: FC06 through writeRequest. *)
SendCommand ==
    /\ WriteRefused \/ WriteFails(Write) \/ WriteSent(Write)
    /\ UNCHANGED <<running, ticks, pending>>

WorkerEvent ==
    /\ started
    /\ toWorker # <<>>
    /\ toWorker' = Tail(toWorker)
    /\ \/ Head(toWorker) = "start" /\ StartPolling
       \/ Head(toWorker) = "stop"  /\ StopPolling
       \/ Head(toWorker) = "reset" /\ ResetPending
       \/ Head(toWorker) = "write" /\ SendCommand
    /\ UNCHANGED <<nextSeg, decoded, connected, toMain>>
    /\ UNCHANGED appVars

-----------------------------------------------------------------------------
(* Main thread.                                                            *)

(* Mutant: a reconnect only restarts polling if it was not noticed before. *)
ConnectionChangedIfNew ==
    /\ started
    /\ toMain # <<>>
    /\ toMain' = Tail(toMain)
    /\ appConnected' = Head(toMain)
    /\ toWorker' = IF Head(toMain)
                      THEN (IF running THEN toWorker ELSE Append(toWorker, "start"))
                      ELSE Append(Append(toWorker, "stop"), "reset")
    /\ UNCHANGED <<started, flaps, writes, connected, wire>>
    /\ UNCHANGED engineVars /\ UNCHANGED driverVars

(* Mutant: resetPending is not queued. *)
ConnectionChangedKeepsPending ==
    /\ started
    /\ toMain # <<>>
    /\ toMain' = Tail(toMain)
    /\ appConnected' = Head(toMain)
    /\ toWorker' = Append(toWorker, IF Head(toMain) THEN "start" ELSE "stop")
    /\ UNCHANGED <<started, flaps, writes, connected, wire>>
    /\ UNCHANGED engineVars /\ UNCHANGED driverVars

(* onChannelConnectionChanged *)
ConnectionChanged ==
    /\ started
    /\ toMain # <<>>
    /\ toMain' = Tail(toMain)
    /\ appConnected' = Head(toMain)
    /\ toWorker' = IF Head(toMain)
                      THEN Append(toWorker, "start")
                      ELSE Append(Append(toWorker, "stop"), "reset")
    /\ UNCHANGED <<started, flaps, writes, connected, wire>>
    /\ UNCHANGED engineVars /\ UNCHANGED driverVars

(* The same slot after stop(): the driver is gone, nothing is queued. *)
ConnectionChangedLate ==
    /\ ~started
    /\ toMain # <<>>
    /\ toMain' = Tail(toMain)
    /\ appConnected' = Head(toMain)
    /\ UNCHANGED <<started, flaps, writes, connected, wire, toWorker>>
    /\ UNCHANGED engineVars /\ UNCHANGED driverVars

(* dispatchSboCommand, from SboStateMachine::commandReady.  After stop()   *)
(* the call stays in the queue of a thread that has ended.                 *)
DispatchSboCommand ==
    /\ writes < MaxWrites
    /\ writes' = writes + 1
    /\ toWorker' = Append(toWorker, "write")
    /\ UNCHANGED <<started, appConnected, flaps, toMain, connected, wire>>
    /\ UNCHANGED engineVars /\ UNCHANGED driverVars

(* stop(): two blocking calls into the worker, behind everything queued    *)
(* so far: stopPolling, then the close of the channel, whose abort() of a  *)
(* live socket is one more disconnection.  The worker thread ends and the  *)
(* driver is deleted with its timers.                                      *)
Stop ==
    /\ started
    /\ toWorker = <<>>
    /\ started' = FALSE
    /\ running' = FALSE
    /\ ticks' = 0
    /\ appConnected' = FALSE
    /\ connected' = FALSE
    /\ wire' = {}
    /\ toMain' = IF connected THEN Append(toMain, FALSE) ELSE toMain
    /\ EngineConnectionChanged(~connected)
    /\ UNCHANGED <<pending, nextSeg, decoded, toWorker, flaps, writes>>

-----------------------------------------------------------------------------
(* A silent device is one that answers some request never: nothing obliges *)
(* it to take DeviceAnswers.                                               *)
Next ==
    \/ LinkUp \/ LinkDown
    \/ PollTickStopped \/ PollTickSkips \/ PollTick
    \/ \E r \in wire, ok \in BOOLEAN : DeviceAnswers(r, ok)
    \/ \E r \in wire : DeviceGarbles(r)
    \/ WorkerEvent
    \/ ConnectionChanged \/ ConnectionChangedLate
    \/ DispatchSboCommand
    \/ Stop

Spec == Init /\ [][Next]_vars

(* Both event loops run: queued events are delivered and timers fire.      *)
EventLoops ==
    /\ WF_vars(PollTickStopped \/ PollTick)
    /\ WF_vars(WorkerEvent)
    /\ WF_vars(ConnectionChanged \/ ConnectionChangedLate)

FairSpec == Spec /\ EventLoops

-----------------------------------------------------------------------------
(* Properties.                                                             *)

(* Every variable holds a value of its type. *)
TypeOK ==
    /\ used \subseteq Tids
    /\ inFlight \in [Tids -> InFlightEntry \cup {NoEntry}]
    /\ started \in BOOLEAN
    /\ connected \in BOOLEAN
    /\ appConnected \in BOOLEAN
    /\ toMain \in Seq(BOOLEAN)
    /\ toWorker \in Seq(Calls)
    /\ running \in BOOLEAN
    /\ pending \in Pending
    /\ nextSeg \in Segs
    /\ ticks \in Nat
    /\ wire \subseteq [tid : Tids, ask : Asks]
    /\ decoded \in [asked : Segs, as : Segs] \cup {None}
    /\ flaps \in 0 .. MaxFlaps
    /\ writes \in 0 .. MaxWrites

(* The bitmap of the allocator and the in-flight table always agree: no id *)
(* is handed out twice and none is lost between the two.                   *)
TablesAgree == \A t \in Tids : t \in used <=> inFlight[t] # NoEntry

(* Every request on the connection is registered, under an id of its own,  *)
(* for the link and slave it was sent to: no genuine answer is taken for a *)
(* spurious one or routed to another slave.                                *)
AnswersFindTheirRequest ==
    /\ \A r \in wire : r.tid \in used /\ inFlight[r.tid] = EntryOf(r.ask)
    /\ \A r1, r2 \in wire : r1.tid = r2.tid => r1 = r2
    /\ wire # {} => connected

(* Whatever is published comes from the slave, and the register type, whose*)
(* points it is published as.                                              *)
DecodedFromItsSlave ==
    decoded # None =>
        /\ SlaveOf[decoded.asked] = SlaveOf[decoded.as]
        /\ FcOf[decoded.asked] = FcOf[decoded.as]

(* The timer chain never breaks: while polling is on a tick is under way,  *)
(* on every early return of onPollTick.                                    *)
ChainNeverBreaks == running => ticks > 0

(* No startPolling or stopPolling among the calls q. *)
IsSwitch(c) == c \in {"start", "stop"}
NoSwitch(q) == \A i \in 1 .. Len(q) : ~IsSwitch(q[i])

(* Once the events of both queues are delivered, polling is on exactly     *)
(* when the connection is up, whatever flaps the queues had to carry.      *)
PollingFollowsLink ==
    /\ toMain = <<>> => appConnected = connected
    /\ (started /\ NoSwitch(toWorker)) => running = appConnected

(* Why PollingFollowsLink holds: the last event queued for the main thread *)
(* is the state of the connection, and the last switch queued for the      *)
(* worker is what the main thread believes.                                *)
LastEventIsLink == toMain # <<>> => toMain[Len(toMain)] = connected

LastSwitch(q, on) ==
    \E i \in 1 .. Len(q) :
        /\ q[i] = IF on THEN "start" ELSE "stop"
        /\ \A j \in i + 1 .. Len(q) : ~IsSwitch(q[j])

LastSwitchIsBelief ==
    started => \/ NoSwitch(toWorker) /\ running = appConnected
               \/ LastSwitch(toWorker, appConnected)

(* The inductive invariant.  AnswersFindTheirRequest is what makes         *)
(* DecodedFromItsSlave inductive.                                          *)
IInv ==
    /\ TypeOK
    /\ TablesAgree
    /\ AnswersFindTheirRequest
    /\ DecodedFromItsSlave
    /\ ChainNeverBreaks
    /\ toMain = <<>> => appConnected = connected
    /\ LastEventIsLink
    /\ LastSwitchIsBelief

(* The pending poll is on the wire, waiting for its answer. *)
Awaited == pending.active /\ \E r \in wire : r.ask = pending.seg

(* While the connection stays up, the ids are not used up and the device   *)
(* does not leave a poll unanswered, every segment is polled again and     *)
(* again: no hand-over between the threads leaves the driver stuck.        *)
EverySegmentIsPolled ==
    <>[]connected =>
        \/ <>[]Exhausted
        \/ <>[]Awaited
        \/ \A s \in Segs : []<>(pending.active /\ pending.seg = s)

-----------------------------------------------------------------------------
(* Statements of the documentation that the code does not keep.            *)

(* HLD-COMM: the in-flight table lives and dies with the TCP connection.   *)
IdsDieWithTheConnection == ~connected => used = {}

(* Single poll in flight, late answers discarded: an answer is decoded as  *)
(* the segment that was asked for.                                         *)
AnswerFillsItsSegment == decoded # None => decoded.asked = decoded.as

(* HLD-SIM: a slave that stops answering is timed out and polling goes on. *)
PollingSurvivesSilence ==
    <>[]connected => []<>(~pending.active)
=============================================================================
