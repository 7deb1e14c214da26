---------------------------- MODULE AlarmEngine ----------------------------
(***************************************************************************)
(* business/AlarmEngine: hysteresis with on- and off-delays, suppression   *)
(* of repeats, and the alarm storm queue.  A sample is the zone its value  *)
(* falls into under the point's rule: beyond the on-threshold, beyond the  *)
(* off-threshold, or between them.  The engine runs in one thread; what is *)
(* hard is the order of samples, time, rule changes and restarts.          *)
(*                                                                         *)
(* m_stormFlushTimer is created and given an interval but never started,   *)
(* so the flush of the storm queue is not a step of the program.           *)
(***************************************************************************)
EXTENDS Integers, Sequences, FiniteSets

CONSTANTS
    Points,
    Rules,            \* rules a point may have: [level, thresholds]
    NoRule,           \* no enabled rule for the point
    RuleSets,         \* what loadRules and reloadRules are called with
    NoState,          \* the point is not in m_states
    OnDelay, OffDelay, SuppressWindow,  \* of every rule
    StormWindow, DefaultThreshold,      \* AlarmStormConfig
    Thresholds,       \* what setStormConfig may be given
    RingSize,         \* ALARM_TIME_RING_SIZE
    MaxPending,       \* MAX_PENDING_STORM
    Uptime,           \* steady_clock when the program starts
    Maintained,       \* points that are ever put under maintenance
    MaxTime,          \* bound: the clock
    MaxRuns           \* bound: starts of the program

ASSUME RulesAssumption ==
    /\ NoRule \notin Rules /\ Maintained \subseteq Points
    /\ \A r \in Rules : r.level \in {"Info", "Warning", "Critical"}
    /\ RuleSets \subseteq [Points -> Rules \cup {NoRule}]
ASSUME TimesAssumption ==
    /\ OnDelay \in Nat /\ OffDelay \in Nat /\ SuppressWindow \in Nat
    /\ StormWindow \in Nat \ {0} /\ DefaultThreshold \in Nat /\ Thresholds \subseteq Nat
    /\ RingSize \in Nat \ {0} /\ MaxPending \in Nat
    /\ Uptime \in Nat /\ MaxTime \in Nat /\ MaxRuns \in Nat

VARIABLES
    now,          \* MonotonicClock
    rules,        \* m_rules
    states,       \* m_states
    suppressed,   \* m_suppressedPoints
    seq,          \* m_alarmIdSeq
    ring,         \* m_alarmTimeRing, oldest first
    threshold,    \* m_stormConfig.threshold
    stormActive,  \* m_stormActive
    pendingStorm, \* m_pendingStorm
    dropped,      \* m_stormDroppedCount
    emitted,      \* the signals of the last step
    run,          \* history: starts of the program
    held,         \* history: the zone the samples stay in, since when, how long
    raisedAt      \* history: when the point last raised an alarm, or Never

storm == <<ring, threshold, stormActive, pendingStorm, dropped>>
history == <<run, held, raisedAt>>
engineVars == <<now, rules, states, suppressed, seq, ring, threshold,
                stormActive, pendingStorm, dropped, emitted, run, held, raisedAt>>

Never == -1
Zones == {"on", "off", "mid"}
Event == [id : Nat, point : Points, level : {"Info", "Warning", "Critical"}]
PointState ==
    [inAlarmBand : BOOLEAN, lastRaise : Nat,
     pendingOn : BOOLEAN, onSince : Nat, pendingOff : BOOLEAN, offSince : Nat,
     status : {"Active", "Confirmed", "Recovered"}, activeId : Nat]
ASSUME NoStateAssumption == NoState \notin PointState
FreshState ==
    [inAlarmBand |-> FALSE, lastRaise |-> 0,
     pendingOn |-> FALSE, onSince |-> 0, pendingOff |-> FALSE, offSince |-> 0,
     status |-> "Recovered", activeId |-> 0]

NoSignals == [triggered |-> {}, recovered |-> {}, acknowledged |-> {}, blackBox |-> {}]
NotHeld == [zone |-> "none", since |-> 0, span |-> 0]

StateOf(p) == IF states[p] = NoState THEN FreshState ELSE states[p]
IsOpen(st) == st.status \in {"Active", "Confirmed"}
OpenAlarm(p) == states[p] # NoState /\ IsOpen(states[p])

(* A process starts with empty tables and loads its rules. *)
Fresh(new) ==
    /\ rules' = new
    /\ states' = [p \in Points |-> NoState]
    /\ suppressed' = {}
    /\ seq' = 0
    /\ ring' = <<>> /\ stormActive' = FALSE
    /\ pendingStorm' = <<>> /\ dropped' = 0
    /\ emitted' = NoSignals
    /\ held' = [p \in Points |-> NotHeld]

EngineInit ==
    /\ now = Uptime
    /\ rules \in RuleSets
    /\ states = [p \in Points |-> NoState]
    /\ suppressed = {}
    /\ seq = 0
    /\ ring = <<>> /\ threshold = DefaultThreshold /\ stormActive = FALSE
    /\ pendingStorm = <<>> /\ dropped = 0
    /\ emitted = NoSignals
    /\ run = 1
    /\ held = [p \in Points |-> NotHeld]
    /\ raisedAt = [p \in Points |-> Never]
-----------------------------------------------------------------------------
(* History: consecutive evaluated samples in the same zone. *)
Held(p, zone) ==
    held' = [held EXCEPT ![p] =
                IF @.zone = zone THEN [@ EXCEPT !.span = now - held[p].since]
                ELSE [zone |-> zone, since |-> now, span |-> 0]]

(* No rule, or masked for maintenance: the sample is not looked at. *)
EvaluateSkipped(p) ==
    /\ rules[p] = NoRule \/ p \in suppressed
    /\ held' = [held EXCEPT ![p] = NotHeld]
    /\ emitted' = NoSignals
    /\ UNCHANGED <<now, rules, states, suppressed, seq, storm, run, raisedAt>>

Evaluated(p, zone) ==
    /\ rules[p] # NoRule
    /\ p \notin suppressed
    /\ Held(p, zone)
    /\ UNCHANGED <<now, rules, suppressed, threshold, run>>

InWindow(times) == Cardinality({i \in DOMAIN times : now - times[i] <= StormWindow})

(* The ring keeps the last RingSize samples beyond a threshold. *)
IsStormTriggered ==
    LET kept == IF Len(ring) < RingSize THEN ring ELSE Tail(ring)
    IN  /\ ring' = Append(kept, now)
        /\ stormActive' = (InWindow(Append(kept, now)) > threshold)

(* Mutant: the on-delay starts again with every sample. *)
CandidateRestarts(st) ==
    IF ~st.inAlarmBand
    THEN [st EXCEPT !.pendingOn = TRUE, !.onSince = now] ELSE st

(* A sample beyond the on-threshold makes an idle point a candidate. *)
Candidate(st) ==
    IF ~st.pendingOn /\ ~st.inAlarmBand
    THEN [st EXCEPT !.pendingOn = TRUE, !.onSince = now] ELSE st

Confirmed(st) == st.pendingOn /\ now - st.onSince >= OnDelay
SameSource(st) == SuppressWindow > 0 /\ now - st.lastRaise < SuppressWindow

EvaluateOnWaits(p) ==
    LET st == Candidate(StateOf(p)) IN
    /\ Evaluated(p, "on")
    /\ IsStormTriggered
    /\ ~Confirmed(st)
    /\ states' = [states EXCEPT ![p] = st]
    /\ emitted' = NoSignals
    /\ UNCHANGED <<seq, pendingStorm, dropped, raisedAt>>

(* The repeat is dropped, but the point is latched as if it had raised. *)
EvaluateOnDropped(p) ==
    LET st == Candidate(StateOf(p)) IN
    /\ Evaluated(p, "on")
    /\ IsStormTriggered
    /\ Confirmed(st)
    /\ SameSource(st)
    /\ states' = [states EXCEPT ![p] = [st EXCEPT !.pendingOn = FALSE, !.inAlarmBand = TRUE]]
    /\ emitted' = NoSignals
    /\ UNCHANGED <<seq, pendingStorm, dropped, raisedAt>>

Announced(e) ==
    [NoSignals EXCEPT !.triggered = {e},
                      !.blackBox = IF e.level = "Critical" THEN {e.point} ELSE {}]

(* raiseAlarm: in a storm only Critical alarms are announced at once. *)
EvaluateOnRaises(p) ==
    LET st == Candidate(StateOf(p))
        e  == [id |-> seq + 1, point |-> p, level |-> rules[p].level]
    IN
    /\ Evaluated(p, "on")
    /\ IsStormTriggered
    /\ Confirmed(st)
    /\ ~SameSource(st)
    /\ seq' = seq + 1
    /\ raisedAt' = [raisedAt EXCEPT ![p] = now]
    /\ states' = [states EXCEPT ![p] =
            [st EXCEPT !.pendingOn = FALSE, !.inAlarmBand = TRUE,
                       !.status = "Active", !.activeId = seq + 1, !.lastRaise = now]]
    /\ IF stormActive'
       THEN /\ IF Len(pendingStorm) >= MaxPending
               THEN dropped' = dropped + 1 /\ UNCHANGED pendingStorm
               ELSE pendingStorm' = Append(pendingStorm, e) /\ UNCHANGED dropped
            /\ emitted' = IF e.level = "Critical" THEN Announced(e) ELSE NoSignals
       ELSE /\ emitted' = Announced(e)
            /\ UNCHANGED <<pendingStorm, dropped>>

(* A sample beyond the off-threshold makes a latched point a candidate. *)
Recovering(st) ==
    IF st.inAlarmBand /\ ~st.pendingOff
    THEN [st EXCEPT !.pendingOff = TRUE, !.offSince = now] ELSE st

RecoveryConfirmed(st) == st.pendingOff /\ now - st.offSince >= OffDelay

(* recoverAlarm on the state of an open alarm. *)
RecoverAlarm(st) ==
    [st EXCEPT !.status = "Recovered", !.activeId = 0,
               !.inAlarmBand = FALSE, !.pendingOn = FALSE, !.pendingOff = FALSE]

EvaluateOffWaits(p) ==
    LET st == Recovering(StateOf(p)) IN
    /\ Evaluated(p, "off")
    /\ ~RecoveryConfirmed(st)
    /\ states' = [states EXCEPT ![p] = st]
    /\ emitted' = NoSignals
    /\ UNCHANGED <<seq, ring, stormActive, pendingStorm, dropped, raisedAt>>

(* recoverAlarm does nothing for a latched point whose alarm was dropped. *)
EvaluateOffRecovers(p) ==
    LET st == Recovering(StateOf(p)) IN
    /\ Evaluated(p, "off")
    /\ RecoveryConfirmed(st)
    /\ IF IsOpen(st)
       THEN /\ states' = [states EXCEPT ![p] = RecoverAlarm(st)]
            /\ emitted' = [NoSignals EXCEPT !.recovered = {st.activeId}]
       ELSE /\ states' = [states EXCEPT ![p] =
                    [st EXCEPT !.pendingOff = FALSE, !.inAlarmBand = FALSE]]
            /\ emitted' = NoSignals
    /\ UNCHANGED <<seq, ring, stormActive, pendingStorm, dropped, raisedAt>>

(* Mutant: a value between the thresholds unlatches the point. *)
EvaluateMidUnlatches(p) ==
    /\ Evaluated(p, "mid")
    /\ states' = [states EXCEPT ![p] =
            [StateOf(p) EXCEPT !.pendingOn = FALSE, !.pendingOff = FALSE,
                               !.inAlarmBand = FALSE]]
    /\ emitted' = NoSignals
    /\ UNCHANGED <<seq, ring, stormActive, pendingStorm, dropped, raisedAt>>

EvaluateMid(p) ==
    /\ Evaluated(p, "mid")
    /\ states' = [states EXCEPT ![p] =
            [StateOf(p) EXCEPT !.pendingOn = FALSE, !.pendingOff = FALSE]]
    /\ emitted' = NoSignals
    /\ UNCHANGED <<seq, ring, stormActive, pendingStorm, dropped, raisedAt>>
-----------------------------------------------------------------------------
(* Points without a rule any more; points whose rule changed. *)
Orphans(new) == {p \in Points : states[p] # NoState /\ new[p] = NoRule}
Changed(new) == {p \in Points : new[p] # NoRule /\ rules[p] # new[p]}

(* doReloadRules: orphans recover and are forgotten, changed ones start over. *)
DoReloadRules(new) ==
    /\ rules' = new
    /\ states' = [p \in Points |->
            CASE p \in Orphans(new) -> NoState
              [] p \in Changed(new) /\ states[p] # NoState ->
                    [states[p] EXCEPT !.pendingOn = FALSE, !.pendingOff = FALSE,
                        !.onSince = 0, !.offSince = 0, !.lastRaise = 0]
              [] OTHER -> states[p]]
    /\ emitted' = [NoSignals EXCEPT !.recovered =
            {states[p].activeId : p \in {q \in Orphans(new) : IsOpen(states[q])}}]
    /\ held' = [p \in Points |->
            IF p \in Orphans(new) \cup Changed(new) THEN NotHeld ELSE held[p]]
    /\ UNCHANGED <<now, suppressed, seq, storm, run, raisedAt>>

(* doSuppressPoint with an expiry in the future; an expired one unsuppresses. *)
DoSuppressPoint(p) ==
    /\ p \notin suppressed
    /\ suppressed' = suppressed \cup {p}
    /\ emitted' = NoSignals
    /\ UNCHANGED <<now, rules, states, seq, storm, history>>

DoUnsuppressPoint(p) ==
    /\ p \in suppressed
    /\ suppressed' = suppressed \ {p}
    /\ emitted' = NoSignals
    /\ UNCHANGED <<now, rules, states, seq, storm, history>>

DoSetStormConfig(t) ==
    /\ t # threshold
    /\ threshold' = t
    /\ emitted' = NoSignals
    /\ UNCHANGED <<now, rules, states, suppressed, seq, ring, stormActive,
                   pendingStorm, dropped, history>>

(* The signal is emitted whether or not the alarm is found. *)
AcknowledgeAlarm(id) ==
    /\ states' = [p \in Points |->
            IF states[p] # NoState /\ states[p].activeId = id /\ states[p].status = "Active"
            THEN [states[p] EXCEPT !.status = "Confirmed"] ELSE states[p]]
    /\ emitted' = [NoSignals EXCEPT !.acknowledged = {id}]
    /\ UNCHANGED <<now, rules, suppressed, seq, storm, history>>

Tick ==
    /\ now < MaxTime
    /\ now' = now + 1
    /\ emitted' = NoSignals
    /\ UNCHANGED <<rules, states, suppressed, seq, storm, history>>

(* The process ends, in whatever state it is, and is started again. *)
Restart(new) ==
    /\ run < MaxRuns
    /\ run' = run + 1
    /\ Fresh(new)
    /\ threshold' = DefaultThreshold
    /\ UNCHANGED <<now, raisedAt>>

Evaluate(p) ==
    \/ EvaluateSkipped(p)
    \/ EvaluateOnWaits(p) \/ EvaluateOnDropped(p) \/ EvaluateOnRaises(p)
    \/ EvaluateOffWaits(p) \/ EvaluateOffRecovers(p)
    \/ EvaluateMid(p)
-----------------------------------------------------------------------------
EngineTypeOK ==
    /\ now \in Nat
    /\ rules \in [Points -> Rules \cup {NoRule}]
    /\ states \in [Points -> PointState \cup {NoState}]
    /\ suppressed \in SUBSET Points
    /\ seq \in Nat
    /\ ring \in Seq(Nat) /\ threshold \in Nat /\ stormActive \in BOOLEAN
    /\ pendingStorm \in Seq(Event) /\ dropped \in Nat
    /\ emitted \in [triggered : SUBSET Event, recovered : SUBSET Nat,
                    acknowledged : SUBSET Nat, blackBox : SUBSET Points]
    /\ run \in Nat
    /\ held \in [Points -> [zone : Zones \cup {"none"}, since : Nat, span : Nat]]
    /\ raisedAt \in [Points -> Nat \cup {Never}]

(* An open alarm belongs to a latched point, a candidate to a point that is *)
(* not latched, and only open alarms have numbers.                          *)
LatchAgrees ==
    \A p \in Points : states[p] # NoState =>
        LET st == states[p] IN
        /\ IsOpen(st) => st.inAlarmBand
        /\ st.pendingOn => ~st.inAlarmBand
        /\ IsOpen(st) <=> st.activeId # 0
        /\ st.activeId <= seq

NumbersDiffer ==
    \A p, q \in Points :
        /\ p # q /\ states[p] # NoState /\ states[q] # NoState
        /\ states[p].activeId # 0
        => states[p].activeId # states[q].activeId

(* doReloadRules looks up the old rule of every point it has a state for: *)
(* there is one, so no empty rule slips into m_rules.                      *)
StatesHaveRules == \A p \in Points : states[p] # NoState => rules[p] # NoRule

(* A point whose samples stay beyond the on-threshold for OnDelay is       *)
(* latched, and one whose samples stay beyond the off-threshold for        *)
(* OffDelay has no open alarm, through rule changes, masking and repeats   *)
(* (evaluate).                                                             *)
SustainedIsDetected ==
    \A p \in Points :
        /\ held[p].zone = "on" /\ held[p].span >= OnDelay =>
                states[p] # NoState /\ states[p].inAlarmBand
        /\ held[p].zone = "off" /\ held[p].span >= OffDelay =>
                states[p] # NoState /\ ~states[p].inAlarmBand /\ ~IsOpen(states[p])
=============================================================================
