---------------------------- MODULE AlarmCenter ----------------------------
(***************************************************************************)
(* The alarm centre (ui/views/alarm_center_widget), the query it reads the *)
(* databases with, and the announcement of critical alarms (AlarmNotifier, *)
(* MainWindow, CriticalAlarmDialog).  All of it runs in the main thread;   *)
(* while a modal dialog is up its nested event loop still runs the timers  *)
(* and the engine's signals, and only the user's clicks wait.  Left out:   *)
(* the label of the number of active alarms, which nothing reads.          *)
(* An alarm of this run of the program is the number the engine gives it.  *)
(* The numbers begin with 1 in every run, and the rows of earlier runs are *)
(* still in the databases: a row is known by its month and its number.     *)
(* The rows are kept in the order of the trigger times; a tick is a second *)
(* or more.                                                                *)
(***************************************************************************)
EXTENDS Integers, Sequences, FiniteSets, SequencesExt

CONSTANTS
    Alarms,     \* what may be raised: records [point, level]
    EarlierRows, \* what earlier runs may have left in the databases
    Filters,    \* settings of the four boxes: [level, status, point, range]
    All,        \* the choice "all" of a box
    DefaultRange, \* the range the box begins with, a day
    QueryLimit, \* f.limit
    MaxAlarms,  \* bound: alarms raised
    MaxAge,     \* bound: ages beyond it are not told apart
    LastMonth   \* bound: months of a run

VARIABLES
    alarms,      \* the alarms of this run, by number, as the engine and the
                 \* store know them: point, month of the trigger, status
    records,     \* the rows of the databases; `run' is history, not a column
    filter,      \* the boxes
    lastRows,    \* m_lastRows and the rows of m_model: number, and run as above
    selected,    \* the selected row numbers
    meant,       \* history: the rows the user saw and selected
    unread,      \* history: rows written, in no query's time span yet
    debounce,    \* m_debounceTimer: off, running, due
    modal,       \* the modal dialog that is up
    recent,      \* a critical alarm was announced less than a second ago
    popup        \* m_criticalDlg

centerVars == <<alarms, records, filter, lastRows, selected, meant, unread,
                debounce, modal, recent, popup>>

Statuses == {"Active", "Confirmed", "Recovered"}
Rows ==
    [id : Nat, run : {"earlier", "this"}, point : {a.point : a \in Alarms},
     level : {a.level : a \in Alarms}, status : Statuses, age : Nat, month : Nat]

ASSUME EarlierAssumption == EarlierRows \subseteq Seq(Rows)

NoDialog == [kind |-> "none", of |-> 0]

-----------------------------------------------------------------------------
(* The query. *)

Matches(r, f) ==
    /\ f.range = All \/ r.age <= f.range
    /\ f.point \in {All, r.point}
    /\ f.level \in {All, r.level}
    /\ f.status \in {All, r.status}

(* ORDER BY trigger_time DESC LIMIT n. *)
Newest(S) == {i \in S : Cardinality({j \in S : j > i}) < QueryLimit}

(* A database per month, each with the limit, then the limit on the whole. *)
(* A month whose database cannot be opened is passed over; left out here.  *)
QueryAlarms(recs, f, end) ==
    LET found(m) == {i \in 1 .. end : recs[i].month = m /\ Matches(recs[i], f)}
        rows == Newest(UNION {Newest(found(m)) : m \in 1 .. LastMonth})
        order == SetToSortSeq(rows, LAMBDA i, j : i > j)
    IN  [k \in DOMAIN order |-> [id |-> recs[order[k]].id, run |-> recs[order[k]].run]]

(* trigger_time < now: an alarm of this very moment may not be in it. *)
Ends == {n \in 0 .. Len(records) : \A i \in n + 1 .. Len(records) : records[i].age = 0}

(* Mutant: the rows are replaced one by one and the selection stays. *)
ApplyRowsInPlace(rows) ==
    /\ lastRows' = rows
    /\ selected' = selected \cap DOMAIN rows

(* The model is emptied first: what was selected is no longer. *)
ApplyRows(rows) ==
    /\ lastRows' = rows
    /\ selected' = {}

Query(recs) ==
    \E end \in Ends : /\ ApplyRows(QueryAlarms(recs, filter, end))
                      /\ unread' = {i \in unread : i > end}

CenterInit ==
    /\ alarms = <<>> /\ records \in EarlierRows /\ lastRows = <<>>
    /\ filter = [level |-> All, status |-> All, point |-> All, range |-> DefaultRange]
    /\ selected = {} /\ meant = {} /\ unread = {}
    /\ debounce = "off"
    /\ modal = NoDialog /\ recent = FALSE /\ popup = NoDialog

-----------------------------------------------------------------------------
(* The engine's signals; the store writes the row in the same call.  A     *)
(* point has to recover before it raises another alarm.                    *)

(* The rows an UPDATE ... WHERE id=? reaches in the month of the alarm's   *)
(* own trigger, whichever run wrote them.                                  *)
RowsOf(n) == {i \in DOMAIN records : records[i].id = n /\ records[i].month = alarms[n].month}

(* INSERT, with the number as the primary key of the month's table: where  *)
(* an earlier run's row has it, the insert fails and that row stays.       *)
Insert(alarm) ==
    LET n == Len(alarms) + 1
        last == Len(records)
        months == IF last = 0 THEN {1} ELSE {records[last].month, records[last].month + 1} \cap 1 .. LastMonth
    IN  /\ n <= MaxAlarms
        /\ \A i \in DOMAIN alarms : alarms[i].point = alarm.point => alarms[i].status = "Recovered"
        /\ \E m \in months :
              /\ alarms' = Append(alarms, [point |-> alarm.point, month |-> m, status |-> "Active"])
              /\ IF \E i \in DOMAIN records : records[i].id = n /\ records[i].month = m
                 THEN UNCHANGED <<records, unread>>
                 ELSE /\ records' = Append(records,
                            [id |-> n, run |-> "this", point |-> alarm.point, level |-> alarm.level,
                             status |-> "Active", age |-> 0, month |-> m])
                      /\ unread' = unread \cup {last + 1}

(* A dialog that is there is given the alarm, raised and activated; it is  *)
(* shown only when it is made.                                             *)
OnCriticalAlarm(id) ==
    popup' = IF popup.kind = "none" THEN [kind |-> "shown", of |-> id]
             ELSE [popup EXCEPT !.of = id]

(* Critical alarms only, none in a storm, one a second. *)
Notify(alarm, id, storm) ==
    IF alarm.level = "Critical" /\ ~storm /\ ~recent
    THEN recent' = TRUE /\ OnCriticalAlarm(id)
    ELSE UNCHANGED <<recent, popup>>

(* In a storm the engine announces critical alarms only, and never gets to *)
(* the others (AlarmEngine.StormIsDelivered).                              *)
AlarmTriggered(alarm, storm) ==
    /\ storm => alarm.level = "Critical"
    /\ Insert(alarm)
    /\ debounce' = "running"
    /\ Notify(alarm, Len(alarms) + 1, storm)
    /\ UNCHANGED <<filter, lastRows, selected, meant, modal>>

(* UPDATE ... SET status=2 WHERE id=?, whatever the row's status was.      *)
AlarmRecovered(n) ==
    /\ alarms[n].status # "Recovered"
    /\ alarms' = [alarms EXCEPT ![n].status = "Recovered"]
    /\ records' = [i \in DOMAIN records |->
                     IF i \in RowsOf(n) THEN [records[i] EXCEPT !.status = "Recovered"] ELSE records[i]]
    /\ UNCHANGED <<filter, lastRows, selected, meant, unread, debounce,
                   modal, recent, popup>>

-----------------------------------------------------------------------------
(* Timers. *)

SecondPasses ==
    /\ records' = [i \in DOMAIN records |->
                    [records[i] EXCEPT !.age = IF @ < MaxAge THEN @ + 1 ELSE @]]
    /\ debounce' = IF debounce = "running" THEN "due" ELSE debounce
    /\ recent' = FALSE
    /\ UNCHANGED <<alarms, filter, lastRows, selected, meant, unread, modal, popup>>

DebounceTimeout ==
    /\ debounce = "due"
    /\ debounce' = "off"
    /\ Query(records)
    /\ UNCHANGED <<alarms, records, filter, meant, modal, recent, popup>>

-----------------------------------------------------------------------------
(* The user; clicks wait while a modal dialog is up. *)

(* The boxes are read by the next query; changing one starts none. *)
FilterChanged(f) ==
    /\ modal = NoDialog /\ filter' = f
    /\ UNCHANGED <<alarms, records, lastRows, selected, meant, unread, debounce,
                   modal, recent, popup>>

(* A debounce under way is left to run. *)
QueryClicked ==
    /\ modal = NoDialog
    /\ Query(records)
    /\ UNCHANGED <<alarms, records, filter, meant, debounce, modal, recent, popup>>

SelectRows(chosen) ==
    /\ modal = NoDialog
    /\ chosen # {} /\ selected' = chosen
    /\ meant' = {lastRows[k] : k \in chosen}
    /\ UNCHANGED <<alarms, records, filter, lastRows, unread, debounce, modal,
                   recent, popup>>

(* Nothing but the numbers is taken from the rows.  The engine looks each  *)
(* up among the alarms of this run; the store passes over those it has no  *)
(* trigger time of; UPDATE ... WHERE id=? AND status=0.                    *)
Acknowledged(ids) ==
    [n \in DOMAIN alarms |->
        IF n \in ids /\ alarms[n].status = "Active"
        THEN [alarms[n] EXCEPT !.status = "Confirmed"] ELSE alarms[n]]

SetConfirmed(ids) ==
    LET known == {n \in ids \cap DOMAIN alarms : alarms[n].status # "Recovered"}
    IN  [i \in DOMAIN records |->
            IF records[i].status = "Active" /\ \E n \in known : i \in RowsOf(n)
            THEN [records[i] EXCEPT !.status = "Confirmed"] ELSE records[i]]

ConfirmClicked ==
    LET ids == {lastRows[k].id : k \in selected}
    IN  /\ modal = NoDialog /\ ids # {}
        /\ alarms' = Acknowledged(ids)
        /\ records' = SetConfirmed(ids)
        /\ Query(SetConfirmed(ids))
        /\ UNCHANGED <<filter, meant, debounce, modal, recent, popup>>

(* The point and time are taken before the dialog's event loop runs. *)
ReplayClicked(k) ==
    /\ modal = NoDialog
    /\ modal' = [kind |-> "replay", of |-> lastRows[k].id]
    /\ UNCHANGED <<alarms, records, filter, lastRows, selected, meant, unread, debounce,
                   recent, popup>>

(* The rows written are those there when the name has been given; no more  *)
(* than that is left of it here.                                           *)
ExportClicked ==
    /\ modal = NoDialog /\ lastRows # <<>>
    /\ modal' = [kind |-> "export", of |-> 0]
    /\ UNCHANGED <<alarms, records, filter, lastRows, selected, meant, unread, debounce,
                   recent, popup>>

ModalClosed ==
    /\ modal # NoDialog
    /\ modal' = NoDialog
    /\ UNCHANGED <<alarms, records, filter, lastRows, selected, meant, unread, debounce,
                   recent, popup>>

(* close() hides the dialog; nothing destroys it before its parent. *)
PopupClosed ==
    /\ modal = NoDialog /\ popup.kind = "shown"
    /\ popup' = [popup EXCEPT !.kind = "hidden"]
    /\ UNCHANGED <<alarms, records, filter, lastRows, selected, meant, unread, debounce,
                   modal, recent>>

CenterNext ==
    \/ \E alarm \in Alarms, storm \in BOOLEAN : AlarmTriggered(alarm, storm)
    \/ \E n \in DOMAIN alarms : AlarmRecovered(n)
    \/ SecondPasses \/ DebounceTimeout
    \/ \E f \in Filters : FilterChanged(f)
    \/ QueryClicked
    \/ \E chosen \in SUBSET DOMAIN lastRows : SelectRows(chosen)
    \/ ConfirmClicked
    \/ \E k \in selected : ReplayClicked(k)
    \/ ExportClicked \/ ModalClosed \/ PopupClosed

CenterSpec == CenterInit /\ [][CenterNext]_centerVars

-----------------------------------------------------------------------------
(* A click on Confirm confirms no alarm and no row but those that bear the *)
(* number of a row the user saw and selected, also when the table is       *)
(* filled anew between his choice and his click (onConfirmClicked,         *)
(* applyRows, the debounce timer).  Whose number it is, of this run or of  *)
(* an earlier one, the code does not know: ConfirmsTheSelected.            *)
Becomes(x, y) == x.status = "Active" /\ y.status = "Confirmed"
OnlyTheSeenAreConfirmed ==
    [][/\ \A n \in DOMAIN alarms : Becomes(alarms[n], alarms'[n]) => \E s \in meant : s.id = n
       /\ \A i \in DOMAIN records :
             Becomes(records[i], records'[i]) => \E s \in meant : s.id = records[i].id]_centerVars

(* Every row written comes into the time span of a query, whatever the     *)
(* user does in between: the timer its alarm started still runs when a     *)
(* query of the user's came too early.  Each alarm starts the timer anew   *)
(* (onAlarmTriggered), so this is promised only until the next one: alarms *)
(* that follow each other within the second put it off without end.        *)
AlarmsCatchUp ==
    \A n \in 1 .. MaxAlarms :
        unread # {} /\ Len(alarms) = n ~> unread = {} \/ Len(alarms) > n

(* A critical alarm that is announced is on the screen: the comments on    *)
(* m_criticalDlg and its uses promise a dialog for it.                     *)
CriticalIsShown == [][~recent /\ recent' => popup'.kind = "shown"]_centerVars

-----------------------------------------------------------------------------
(* A statement the code does not keep.                                     *)

(* An alarm that is confirmed is one whose own row the user selected: the  *)
(* comment on nextAlarmId calls its numbers unique.  A row that an earlier *)
(* run left active bears the number of an alarm of this run, and the click *)
(* on it confirms that alarm.                                              *)
ConfirmsTheSelected ==
    [][\A n \in DOMAIN alarms :
          Becomes(alarms[n], alarms'[n]) => [id |-> n, run |-> "this"] \in meant]_centerVars
=============================================================================
