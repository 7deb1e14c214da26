---------------------------- MODULE AlarmRecords ----------------------------
(***************************************************************************)
(* The alarm engine with business/AlarmRecordStore, which is connected to  *)
(* its signals in the same thread, and the monthly alarm databases of      *)
(* datahub/SQLiteDataAccess.  The databases survive a restart of the       *)
(* program; the engine's numbers and the store's table do not.             *)
(***************************************************************************)
EXTENDS AlarmEngine

CONSTANTS Months   \* the months of a run, 1 .. n; one database each

ASSUME MonthsAssumption == Months \in Nat \ {0}

VARIABLES
    month,     \* the month of the wall clock
    triggerOf, \* m_triggerByAlarmId: the month an alarm's record is in
    db,        \* the rows, by month and id (the primary key of a month)
    lost       \* m_dropped > 0

storeVars == <<triggerOf, db, lost>>
vars == <<engineVars, month, storeVars>>

Row == [point : Points, run : Nat, status : {"Active", "Confirmed", "Recovered"}]

Init ==
    /\ EngineInit
    /\ month = 1
    /\ triggerOf = [id \in {} |-> 0]
    /\ db = [k \in {} |-> 0]
    /\ lost = FALSE

With(f, k, v) == [x \in DOMAIN f \cup {k} |-> IF x = k THEN v ELSE f[x]]
Without(f, S) == [x \in DOMAIN f \ S |-> f[x]]

(* One transaction per call; the primary key of a month is the number. *)
InsertAlarmRecord(e) ==
    IF <<month, e.id>> \in DOMAIN db
    THEN lost' = TRUE /\ UNCHANGED db
    ELSE /\ db' = With(db, <<month, e.id>>,
                       [point |-> e.point, run |-> run, status |-> "Active"])
         /\ UNCHANGED lost

(* UPDATE ... SET status=2 WHERE id=?. *)
SetAlarmRecovered(hit) ==
    db' = [k \in DOMAIN db |->
            IF k \in hit THEN [db[k] EXCEPT !.status = "Recovered"] ELSE db[k]]

(* UPDATE ... SET status=1 WHERE id=? AND status=0. *)
SetAlarmConfirmed(hit) ==
    db' = [k \in DOMAIN db |->
            IF k \in hit /\ db[k].status = "Active"
            THEN [db[k] EXCEPT !.status = "Confirmed"] ELSE db[k]]

(* Mutant: the row is looked for in the current month. *)
RoutedNow(id) == IF id \in DOMAIN triggerOf THEN {<<month, id>>} ELSE {}

(* The database of a row is found by the month of the trigger. *)
Routed(id) == IF id \in DOMAIN triggerOf THEN {<<triggerOf[id], id>>} ELSE {}

(* The table is updated whether or not the row is inserted. *)
OnAlarmTriggered(e) ==
    /\ triggerOf' = With(triggerOf, e.id, month)
    /\ InsertAlarmRecord(e)

(* Unknown alarms are ignored.  A reload calls the slot once per alarm. *)
OnAlarmRecovered(ids) ==
    /\ triggerOf' = Without(triggerOf, ids)
    /\ SetAlarmRecovered(UNION {Routed(id) : id \in ids})
    /\ UNCHANGED lost

OnAlarmAcknowledged(id) ==
    /\ SetAlarmConfirmed(Routed(id))
    /\ UNCHANGED <<triggerOf, lost>>

(* The engine's signals are direct calls: the store is updated in its step. *)
Stored ==
    /\ UNCHANGED month
    /\ \/ \E e \in emitted'.triggered : OnAlarmTriggered(e)
       \/ emitted'.recovered # {} /\ OnAlarmRecovered(emitted'.recovered)
       \/ \E id \in emitted'.acknowledged : OnAlarmAcknowledged(id)
       \/ emitted' = NoSignals /\ UNCHANGED storeVars

NextMonth ==
    /\ month < Months
    /\ month' = month + 1
    /\ UNCHANGED <<engineVars, storeVars>>

StoreRestart(new) ==
    /\ Restart(new)
    /\ triggerOf' = [id \in {} |-> 0]
    /\ lost' = FALSE
    /\ UNCHANGED <<month, db>>

(* The alarm view acknowledges rows it has read from the databases. *)
Acknowledge == \E k \in DOMAIN db : AcknowledgeAlarm(k[2]) /\ Stored

Next ==
    \/ \E p \in Points : Evaluate(p) /\ Stored
    \/ \E new \in RuleSets : DoReloadRules(new) /\ Stored
    \/ \E p \in Maintained : DoSuppressPoint(p) /\ Stored
    \/ \E p \in Maintained : DoUnsuppressPoint(p) /\ Stored
    \/ \E t \in Thresholds : DoSetStormConfig(t) /\ Stored
    \/ Acknowledge
    \/ Tick /\ Stored
    \/ NextMonth
    \/ \E new \in RuleSets : StoreRestart(new)

Spec == Init /\ [][Next]_vars
FairSpec == Spec /\ WF_vars(Next)
-----------------------------------------------------------------------------
TypeOK ==
    /\ EngineTypeOK
    /\ month \in 1 .. Months
    /\ DOMAIN triggerOf \subseteq 1 .. seq
    /\ \A id \in DOMAIN triggerOf : triggerOf[id] \in 1 .. month
    /\ DOMAIN db \subseteq (1 .. Months) \X Nat
    /\ \A k \in DOMAIN db : db[k] \in Row
    /\ lost \in BOOLEAN

EngineInv == LatchAgrees /\ NumbersDiffer /\ StatesHaveRules

(* A record written in this run has the status the engine gives the alarm: *)
(* Active or Confirmed while it is open, Recovered from then on, whatever  *)
(* month it is recovered in (AlarmRecordStore).                            *)
RecordsFollowEngine ==
    \A k \in DOMAIN db : db[k].run = run =>
        db[k].status =
            IF \E p \in Points : OpenAlarm(p) /\ states[p].activeId = k[2]
            THEN (CHOOSE st \in {states[p] : p \in Points} :
                        st # NoState /\ st.activeId = k[2]).status
            ELSE "Recovered"

(* What the engine promises its listeners (AlarmLedger). *)
Ledger == INSTANCE AlarmLedger WITH
    open <- [p \in Points |-> IF OpenAlarm(p) THEN states[p].activeId ELSE 0],
    raised <- seq
KeepsLedger == Ledger!Spec
-----------------------------------------------------------------------------
(* Claims of the documentation that the code does not keep. *)

(* An alarm is raised only after its point was beyond the on-threshold     *)
(* without interruption for OnDelay, and recovers only after OffDelay      *)
(* beyond the off-threshold (evaluate).                                    *)
ConfirmationIsContinuous ==
    [][\A p \in Points :
        /\ raisedAt'[p] # raisedAt[p] => held'[p].span >= OnDelay
        /\ rules' = rules /\ run' = run /\ OpenAlarm(p) /\ ~OpenAlarm(p)' =>
                held'[p].span >= OffDelay]_vars

(* An alarm is dropped as a repeat only when the point has raised one      *)
(* within the window (raiseAlarm).                                         *)
OnlyRepeatsAreDropped ==
    [][\A p \in Points :
        EvaluateOnDropped(p) => raisedAt[p] # Never /\ now - raisedAt[p] < SuppressWindow]_vars

(* Alarms held back in a storm are delivered (flushStormBatch). *)
StormIsDelivered == pendingStorm # <<>> ~> pendingStorm = <<>>

(* Records of earlier runs stay as they are (AlarmRecordStore). *)
HistoryIsKept ==
    [][\A k \in DOMAIN db : db[k].run < run => db'[k] = db[k]]_vars
=============================================================================
