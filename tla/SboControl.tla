----------------------------- MODULE SboControl -----------------------------
(***************************************************************************)
(* Select-before-operate control (business/SboStateMachine) over the       *)
(* shared DeviceSboGuard.  Every public method and every timer slot of the *)
(* state machine is one action: the object lives in one thread, emits its  *)
(* signals synchronously and never yields inside a handler.  Machines is   *)
(* the set of state machines sharing one guard (the application has one).  *)
(*                                                                         *)
(* Time is abstract: a running single-shot QTimer may fire at any moment,  *)
(* which covers the 5 s / 3 s arming window, the 500 ms flapping window    *)
(* and the 2 s execution watch in every relative order.                    *)
(***************************************************************************)
EXTENDS DeviceSboGuard, Sequences

CONSTANTS Machines,   \* the state machines
          Values,     \* register values a request may preset
          NoKey,      \* m_heldKey without a value
          NoCommand,  \* m_pendingCommand before the first selection
          MaxSeq      \* bound: how many sequence numbers a run may consume

ASSUME NoKeyAssumption == NoKey \notin Keys
ASSUME MaxSeqAssumption == MaxSeq \in Nat

VARIABLES
    sm,         \* the members of each state machine
    nextSeq,    \* the static counter both id families draw from
    accepted,   \* history: granted selections, [id, cmd]
    commands,   \* history: commandReady emissions in order, [id, cmd]
    cleared,    \* history: ids whose Armed state ended in armedCleared
    succeeded,  \* history: ids reported by executingSucceeded
    failed      \* history: ids reported by executingFailed

vars == <<buckets, sm, nextSeq, accepted, commands, cleared, succeeded, failed>>

(* The transient states Timeout and Aborted are left inside the handler    *)
(* that enters them, and Selecting is never entered.                       *)
States == {"Idle", "Armed", "Executed"}

SboCommand == [key : Keys, value : Values]

SelectionIds == [kind : {"sbo"}, n : Nat]

IssuedCommand == [id : SelectionIds, cmd : SboCommand]

Machine ==
    [state : States,
     sequenceId : SelectionIds \cup {NoId},
     pendingCommand : SboCommand \cup {NoCommand},
     heldKey : Keys \cup {NoKey},
     armedTimer : BOOLEAN,
     flappingTimer : BOOLEAN,
     execTimer : BOOLEAN,
     linkConnected : BOOLEAN]

NewMachine ==
    [state |-> "Idle", sequenceId |-> NoId, pendingCommand |-> NoCommand,
     heldKey |-> NoKey, armedTimer |-> FALSE, flappingTimer |-> FALSE,
     execTimer |-> FALSE, linkConnected |-> TRUE]

Init ==
    /\ GuardInit
    /\ sm = [m \in Machines |-> NewMachine]
    /\ nextSeq = 0
    /\ accepted = {}
    /\ commands = <<>>
    /\ cleared = {}
    /\ succeeded = {}
    /\ failed = {}

-----------------------------------------------------------------------------
(* m_heldKey.reset(), m_sequenceId.clear() *)
Forget(s) == [s EXCEPT !.heldKey = NoKey, !.sequenceId = NoId]

(* The common end of a sequence: forget it and go back to Idle. *)
BackToIdle(s) == [Forget(s) EXCEPT !.state = "Idle"]

(* submitSelect while a sequence is under way: the call is refused, but    *)
(* the guard is probed with a throwaway id in the expectation that the     *)
(* key is busy.                                                            *)
SelectNotIdle(m, k) ==
    /\ sm[m].state # "Idle"
    /\ nextSeq < MaxSeq
    /\ nextSeq' = nextSeq + 1
    /\ TryAcquire(k, RejectedId(nextSeq)) \/ TryAcquireRejected(k)
    /\ UNCHANGED <<sm, accepted, commands, cleared, succeeded, failed>>

(* submitSelect from Idle while the key is occupied: the pending command   *)
(* stays overwritten, the sequence id is cleared again.                    *)
SelectBusy(m, k, v) ==
    /\ sm[m].state = "Idle"
    /\ nextSeq < MaxSeq
    /\ nextSeq' = nextSeq + 1
    /\ TryAcquireRejected(k)
    /\ sm' = [sm EXCEPT ![m] =
                  [@ EXCEPT !.sequenceId = NoId,
                            !.pendingCommand = [key |-> k, value |-> v]]]
    /\ UNCHANGED <<accepted, commands, cleared, succeeded, failed>>

(* submitSelect from Idle on a free key, with enterArmedState. *)
SelectGranted(m, k, v) ==
    LET id == SboId(nextSeq)
        cmd == [key |-> k, value |-> v]
    IN  /\ sm[m].state = "Idle"
        /\ nextSeq < MaxSeq
        /\ nextSeq' = nextSeq + 1
        /\ TryAcquire(k, id)
        /\ sm' = [sm EXCEPT ![m] =
                      [@ EXCEPT !.state = "Armed",
                                !.sequenceId = id,
                                !.pendingCommand = cmd,
                                !.heldKey = k,
                                !.armedTimer = TRUE]]
        /\ accepted' = accepted \cup {[id |-> id, cmd |-> cmd]}
        /\ UNCHANGED <<commands, cleared, succeeded, failed>>

(* Mutant: the id is compared, the state is not. *)
SubmitOperateAnyState(m, id) ==
    /\ id = sm[m].sequenceId
    /\ sm' = [sm EXCEPT ![m] =
                  [@ EXCEPT !.state = "Executed",
                            !.armedTimer = FALSE,
                            !.execTimer = TRUE]]
    /\ Release(sm[m].heldKey, id)
    /\ commands' = Append(commands, [id |-> id, cmd |-> sm[m].pendingCommand])
    /\ UNCHANGED <<nextSeq, accepted, cleared, succeeded, failed>>

(* Mutant: the execution watch is not started. *)
SubmitOperateUnwatched(m, id) ==
    /\ sm[m].state = "Armed"
    /\ id = sm[m].sequenceId
    /\ sm' = [sm EXCEPT ![m] = [@ EXCEPT !.state = "Executed", !.armedTimer = FALSE]]
    /\ Release(sm[m].heldKey, id)
    /\ commands' = Append(commands, [id |-> id, cmd |-> sm[m].pendingCommand])
    /\ UNCHANGED <<nextSeq, accepted, cleared, succeeded, failed>>

(* submitOperate with the id of the armed selection: the lock is released  *)
(* at once, the command handed out and the execution watch started.        *)
SubmitOperate(m, id) ==
    /\ sm[m].state = "Armed"
    /\ id = sm[m].sequenceId
    /\ sm' = [sm EXCEPT ![m] =
                  [@ EXCEPT !.state = "Executed",
                            !.armedTimer = FALSE,
                            !.execTimer = TRUE]]
    /\ Release(sm[m].heldKey, id)
    /\ commands' = Append(commands, [id |-> id, cmd |-> sm[m].pendingCommand])
    /\ UNCHANGED <<nextSeq, accepted, cleared, succeeded, failed>>

(* forceAbort: from Armed it ends the sequence; in any other state it only *)
(* forgets key and id, the state and the execution watch go on.            *)
ForceAbort(m, s) ==
    IF s.state = "Armed"
    THEN /\ sm' = [sm EXCEPT ![m] =
                      BackToIdle([s EXCEPT !.armedTimer = FALSE,
                                           !.execTimer = FALSE])]
         /\ Release(s.heldKey, s.sequenceId)
         /\ cleared' = cleared \cup {s.sequenceId}
    ELSE /\ sm' = [sm EXCEPT ![m] = Forget(s)]
         /\ UNCHANGED <<buckets, cleared>>

(* submitCancel *)
SubmitCancel(m, id) ==
    /\ id = sm[m].sequenceId
    /\ sm[m].state = "Armed"
    /\ ForceAbort(m, sm[m])
    /\ UNCHANGED <<nextSeq, accepted, commands, succeeded, failed>>

(* Mutant: the outcome is emitted but the sequence is not reset. *)
DeviceAckKeepsSequence(m, id, success) ==
    /\ id = sm[m].sequenceId
    /\ sm[m].state = "Executed"
    /\ IF success
       THEN succeeded' = succeeded \cup {id} /\ UNCHANGED failed
       ELSE failed' = failed \cup {id} /\ UNCHANGED succeeded
    /\ UNCHANGED <<buckets, sm, nextSeq, accepted, commands, cleared>>

(* onDeviceAck *)
DeviceAck(m, id, success) ==
    /\ id = sm[m].sequenceId
    /\ sm[m].state = "Executed"
    /\ sm' = [sm EXCEPT ![m] = BackToIdle([@ EXCEPT !.execTimer = FALSE])]
    /\ IF success
       THEN succeeded' = succeeded \cup {id} /\ UNCHANGED failed
       ELSE failed' = failed \cup {id} /\ UNCHANGED succeeded
    /\ UNCHANGED <<buckets, nextSeq, accepted, commands, cleared>>

(* onLinkStatusChanged: a drop (re)starts the flapping window, a recovery  *)
(* stops it.                                                               *)
LinkStatusChanged(m, connected) ==
    /\ sm' = [sm EXCEPT ![m] =
                  [@ EXCEPT !.linkConnected = connected,
                            !.flappingTimer = ~connected]]
    /\ UNCHANGED <<buckets, nextSeq, accepted, commands, cleared, succeeded,
                   failed>>

(* Mutant: the guard is not released. *)
ArmedTimeoutKeepsLock(m) ==
    /\ sm[m].armedTimer
    /\ sm[m].state = "Armed"
    /\ sm' = [sm EXCEPT ![m] = BackToIdle([@ EXCEPT !.armedTimer = FALSE])]
    /\ cleared' = cleared \cup {sm[m].sequenceId}
    /\ UNCHANGED <<buckets, nextSeq, accepted, commands, succeeded, failed>>

(* onArmedTimeout *)
ArmedTimeout(m) ==
    /\ sm[m].armedTimer
    /\ IF sm[m].state = "Armed"
       THEN /\ Release(sm[m].heldKey, sm[m].sequenceId)
            /\ sm' = [sm EXCEPT ![m] = BackToIdle([@ EXCEPT !.armedTimer = FALSE])]
            /\ cleared' = cleared \cup {sm[m].sequenceId}
       ELSE /\ sm' = [sm EXCEPT ![m].armedTimer = FALSE]
            /\ UNCHANGED <<buckets, cleared>>
    /\ UNCHANGED <<nextSeq, accepted, commands, succeeded, failed>>

(* onFlappingTimeout *)
FlappingTimeout(m) ==
    LET s == [sm[m] EXCEPT !.flappingTimer = FALSE]
    IN  /\ sm[m].flappingTimer
        /\ IF ~s.linkConnected
           THEN ForceAbort(m, s)
           ELSE /\ sm' = [sm EXCEPT ![m] = s]
                /\ UNCHANGED <<buckets, cleared>>
        /\ UNCHANGED <<nextSeq, accepted, commands, succeeded, failed>>

(* onExecutingTimeout: reported under whatever id is left. *)
ExecutingTimeout(m) ==
    /\ sm[m].execTimer
    /\ IF sm[m].state = "Executed"
       THEN /\ failed' = failed \cup {sm[m].sequenceId}
            /\ sm' = [sm EXCEPT ![m] = BackToIdle([@ EXCEPT !.execTimer = FALSE])]
       ELSE /\ sm' = [sm EXCEPT ![m].execTimer = FALSE]
            /\ UNCHANGED failed
    /\ UNCHANGED <<buckets, nextSeq, accepted, commands, cleared, succeeded>>

-----------------------------------------------------------------------------
(* Callers may be late: an operator may operate or cancel, and a device    *)
(* acknowledge, with the id of any selection made so far.                  *)
AcceptedIds == {a.id : a \in accepted}

MachineStep(m) ==
    \/ \E k \in Keys : SelectNotIdle(m, k)
    \/ \E k \in Keys, v \in Values : SelectBusy(m, k, v)
    \/ \E k \in Keys, v \in Values : SelectGranted(m, k, v)
    \/ \E id \in AcceptedIds : SubmitOperate(m, id)
    \/ \E id \in AcceptedIds : SubmitCancel(m, id)
    \/ \E id \in AcceptedIds, success \in BOOLEAN : DeviceAck(m, id, success)
    \/ \E connected \in BOOLEAN : LinkStatusChanged(m, connected)
    \/ ArmedTimeout(m)
    \/ FlappingTimeout(m)
    \/ ExecutingTimeout(m)

Next == \E m \in Machines : MachineStep(m)

Spec == Init /\ [][Next]_vars

(* A running QTimer of a live event loop fires unless it is stopped. *)
TimerFairness ==
    \A m \in Machines : /\ WF_vars(ArmedTimeout(m))
                        /\ WF_vars(FlappingTimeout(m))
                        /\ WF_vars(ExecutingTimeout(m))

FairSpec == Spec /\ TimerFairness

-----------------------------------------------------------------------------
(* The types of the members and of the history. *)
TypeOK ==
    /\ buckets \in [Keys -> Ids \cup {Free}]
    /\ sm \in [Machines -> Machine]
    /\ nextSeq \in Nat
    /\ accepted \subseteq IssuedCommand
    /\ commands \in Seq(IssuedCommand)
    /\ cleared \subseteq SelectionIds
    /\ succeeded \subseteq SelectionIds
    /\ failed \subseteq SelectionIds \cup {NoId}

(***************************************************************************)
(* The armed selections and the selection locks in the guard are the same  *)
(* thing: an Armed machine holds the lock of its key under its own id, and *)
(* a bucket occupied by a selection belongs to the machine armed on it.    *)
(* So every way out of Armed (Operate, cancel, timeout, link loss) gives   *)
(* the lock back and two machines are never armed on one register          *)
(* (DeviceSboGuard::tryAcquire / release, SboStateMachine).                *)
(***************************************************************************)
LockMatchesArmed ==
    /\ \A m \in Machines : sm[m].state = "Armed" =>
            /\ sm[m].heldKey \in Keys
            /\ buckets[sm[m].heldKey] = sm[m].sequenceId
    /\ \A k \in Keys : buckets[k] \in SelectionIds =>
            \E m \in Machines : /\ sm[m].state = "Armed"
                                /\ sm[m].heldKey = k
                                /\ sm[m].sequenceId = buckets[k]

(***************************************************************************)
(* No timer outlives the state it watches: the arming countdown runs       *)
(* exactly while Armed, the execution watch exactly while Executed, so a   *)
(* timeout of one sequence can never end a later one.                      *)
(***************************************************************************)
TimersMatchState ==
    \A m \in Machines :
        /\ sm[m].armedTimer <=> sm[m].state = "Armed"
        /\ sm[m].execTimer <=> sm[m].state = "Executed"

(***************************************************************************)
(* What is sent is what was selected: each commandReady carries the key    *)
(* and value granted to its id by submitSelect, although rejected          *)
(* selections overwrite m_pendingCommand.                                  *)
(***************************************************************************)
CommandsWereSelected ==
    \A i \in 1..Len(commands) : commands[i] \in accepted

(***************************************************************************)
(* A selection is sent at most once, and one that was cancelled, timed out *)
(* or aborted is never sent.                                               *)
(***************************************************************************)
SentAtMostOnce ==
    /\ \A i, j \in 1..Len(commands) :
            commands[i].id = commands[j].id => i = j
    /\ \A i \in 1..Len(commands) : commands[i].id \notin cleared

(***************************************************************************)
(* No contradictory report: an id is never reported both as succeeded and  *)
(* as failed, and only ids whose command was sent are reported.            *)
(***************************************************************************)
ReportsAreConsistent ==
    /\ succeeded \cap failed = {}
    /\ (succeeded \cup failed) \ {NoId}
            \subseteq {commands[i].id : i \in 1..Len(commands)}

(***************************************************************************)
(* Whatever the operator, the device and the link do, a sequence comes to  *)
(* its end: the machine is back in Idle (FR-CTRL-07, Armed never sticks).  *)
(***************************************************************************)
EveryMachineReturnsToIdle ==
    \A m \in Machines : (sm[m].state # "Idle") ~> (sm[m].state = "Idle")

(***************************************************************************)
(* The flapping window closes in one of two ways: the link came back, or   *)
(* the selection it hit is over.  A loss that outlasts the window never    *)
(* leaves behind the Armed state it found (FR-CTRL-07, onFlappingTimeout). *)
(***************************************************************************)
WindowEndsArmed ==
    [][\A m \in Machines :
          (sm[m].flappingTimer /\ ~sm'[m].flappingTimer) =>
              (sm'[m].linkConnected \/ sm'[m].state # "Armed")]_vars

-----------------------------------------------------------------------------
(* The strengthening that makes the safety properties inductive. *)
SentIds == {commands[i].id : i \in 1..Len(commands)}

(* Numbers are handed out once: everything on record is older than the     *)
(* counter, and only accepted selections are on record.                    *)
IdsAreOld ==
    /\ \A a \in accepted : a.id.n < nextSeq
    /\ SentIds \cup cleared \cup succeeded \cup (failed \ {NoId})
            \subseteq AcceptedIds

(* What a machine knows, in each of its states, of the sequence it is in.  *)
KnowsSequence(s) ==
    /\ s.sequenceId # NoId => s.sequenceId \in AcceptedIds
    /\ s.state = "Idle" => s.sequenceId = NoId
    /\ s.state = "Armed" =>
            /\ s.sequenceId # NoId
            /\ [id |-> s.sequenceId, cmd |-> s.pendingCommand] \in accepted
            /\ s.pendingCommand.key = s.heldKey
            /\ s.sequenceId \notin SentIds \cup cleared
    /\ (s.state = "Executed" /\ s.sequenceId # NoId) =>
            /\ s.sequenceId \in SentIds
            /\ s.sequenceId \notin succeeded \cup failed

MachinesKnowSequence == \A m \in Machines : KnowsSequence(sm[m])

(* No two machines are in the same sequence. *)
SequencesAreDistinct ==
    \A m, n \in Machines :
        (sm[m].sequenceId = sm[n].sequenceId /\ sm[m].sequenceId # NoId) => m = n

(* The inductive invariant of the select-before-operate protocol over      *)
(* SboStateMachine and DeviceSboGuard: the safety properties above and     *)
(* what they rest on.                                                      *)
IInv ==
    /\ TypeOK
    /\ LockMatchesArmed
    /\ TimersMatchState
    /\ CommandsWereSelected
    /\ SentAtMostOnce
    /\ ReportsAreConsistent
    /\ IdsAreOld
    /\ MachinesKnowSequence
    /\ SequencesAreDistinct

-----------------------------------------------------------------------------
(***************************************************************************)
(* The protocol implements the abstract select-before-operate contract: a  *)
(* register is selected by the id in its bucket (a "rejected-" probe        *)
(* selects nothing), and what is sent is what commandReady carried.        *)
(***************************************************************************)
Contract == INSTANCE SelectBeforeOperate WITH
    Registers <- Keys,
    Nobody <- NoId,
    Tickets <- {SboId(n) : n \in 0..MaxSeq},
    selected <- [k \in Keys |-> IF buckets[k] \in SelectionIds
                                THEN buckets[k] ELSE NoId],
    used <- AcceptedIds,
    sent <- {[ticket |-> commands[i].id, register |-> commands[i].cmd.key] :
                i \in 1..Len(commands)}

(* Every behaviour of the state machines and their guard is one the        *)
(* contract allows.                                                        *)
ImplementsContract == Contract!Spec

-----------------------------------------------------------------------------
(* What the repository says of the program and the code does not do. *)

(***************************************************************************)
(* With every machine Idle the guard is empty, as the unit tests require   *)
(* after a full cycle.  A selection submitted to a busy machine for a free *)
(* register breaks it: the probe with the "rejected-" id is granted and    *)
(* nobody releases it.                                                     *)
(***************************************************************************)
IdleHoldsNoLock ==
    (\A m \in Machines : sm[m].state = "Idle") => \A k \in Keys : ~Busy(k)

(***************************************************************************)
(* An Armed machine whose link is down is within the flapping window, so   *)
(* that the window will end the selection.  A selection made after the     *)
(* window has closed is armed on a dead link.                              *)
(***************************************************************************)
ArmedOnDeadLinkIsWatched ==
    \A m \in Machines :
        (sm[m].state = "Armed" /\ ~sm[m].linkConnected) => sm[m].flappingTimer

(***************************************************************************)
(* A machine that has sent a command still knows its id, so that the       *)
(* device's acknowledgement can complete it.  forceAbort in Executed wipes *)
(* the id.                                                                 *)
(***************************************************************************)
ExecutedAwaitsItsAck ==
    \A m \in Machines : sm[m].state = "Executed" => sm[m].sequenceId \in SentIds

=============================================================================
