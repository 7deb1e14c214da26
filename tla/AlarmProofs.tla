---------------------------- MODULE AlarmProofs ----------------------------
(***************************************************************************)
(* Proofs about the alarm engine and its records, for every set of points  *)
(* and rules, every delay, window and limit, and any number of starts:     *)
(* the engine keeps its ledger, detects what lasts, and the records of a   *)
(* run follow the engine.                                                  *)
(***************************************************************************)
EXTENDS AlarmRecords, TLAPS

HeldRec == [zone : Zones \cup {"none"}, since : Nat, span : Nat]

(* The state of a point agrees with itself, at time t, when s alarms have  *)
(* been raised: an open alarm belongs to a latched point, a candidate to   *)
(* one that is not, only open alarms have numbers, and no candidate was    *)
(* made in the future.                                                     *)
StateFits(st, t, s) ==
    /\ IsOpen(st) => st.inAlarmBand
    /\ st.pendingOn => ~st.inAlarmBand
    /\ IsOpen(st) <=> st.activeId # 0
    /\ st.activeId <= s
    /\ st.pendingOn => st.onSince <= t
    /\ st.pendingOff => st.offSince <= t

(* The state of a point agrees with its samples: one that is not latched   *)
(* while its samples stay beyond the on-threshold has been a candidate for *)
(* at least as long, one that is latched while they stay beyond the        *)
(* off-threshold a candidate for recovery, and neither for the delay.      *)
HeldFits(st, h) ==
    /\ h.zone = "on" /\ ~st.inAlarmBand =>
          st.pendingOn /\ st.onSince <= h.since /\ h.span < OnDelay
    /\ h.zone = "off" /\ st.inAlarmBand =>
          st.pendingOff /\ st.offSince <= h.since /\ h.span < OffDelay

EngineIInv ==
    /\ now \in Nat /\ seq \in Nat
    /\ rules \in [Points -> Rules \cup {NoRule}]
    /\ states \in [Points -> PointState \cup {NoState}]
    /\ held \in [Points -> HeldRec]
    /\ \A p \in Points : states[p] # NoState => StateFits(states[p], now, seq) /\ rules[p] # NoRule
    /\ \A p \in Points : held[p].zone # "none" =>
          held[p].since <= now /\ states[p] # NoState /\ HeldFits(states[p], held[p])
    /\ NumbersDiffer

(* A step that changes one point, at most by raising an alarm for it.      *)
LEMMA OnePoint ==
    ASSUME EngineIInv, NEW p \in Points, NEW st \in PointState, NEW h \in HeldRec,
           states' = [states EXCEPT ![p] = st],
           held' = [held EXCEPT ![p] = h],
           UNCHANGED <<now, rules>>, rules[p] # NoRule,
           seq' \in {seq, seq + 1},
           StateFits(st, now, seq'), h.zone # "none" => HeldFits(st, h) /\ h.since <= now,
           \/ st.activeId = 0
           \/ st.activeId = seq + 1 /\ seq' = seq + 1
           \/ states[p] # NoState /\ st.activeId = states[p].activeId
    PROVE  EngineIInv'
<1>1. /\ states \in [Points -> PointState \cup {NoState}] /\ held \in [Points -> HeldRec]
      /\ now \in Nat /\ seq \in Nat /\ rules \in [Points -> Rules \cup {NoRule}]
  BY DEF EngineIInv
<1>2. /\ states'[p] = st /\ held'[p] = h /\ st # NoState
      /\ \A q \in Points \ {p} : states'[q] = states[q] /\ held'[q] = held[q]
  BY <1>1, NoStateAssumption
<1>3. /\ now' \in Nat /\ seq' \in Nat /\ seq <= seq' /\ rules' \in [Points -> Rules \cup {NoRule}]
      /\ states' \in [Points -> PointState \cup {NoState}] /\ held' \in [Points -> HeldRec]
  BY <1>1
<1>4. \A q \in Points : states[q] # NoState =>
         states[q].activeId \in Nat /\ states[q].activeId <= seq
  BY <1>1 DEF EngineIInv, StateFits, PointState
<1>5. ASSUME NEW q \in Points, states'[q] # NoState
      PROVE  StateFits(states'[q], now', seq') /\ rules'[q] # NoRule
  <2>1. CASE q = p
    BY <1>2, <2>1
  <2>2. CASE q # p
    BY <1>1, <1>2, <1>3, <1>4, <1>5, <2>2 DEF EngineIInv, StateFits
  <2> QED
    BY <2>1, <2>2
<1>6. ASSUME NEW q \in Points, held'[q].zone # "none"
      PROVE  held'[q].since <= now' /\ states'[q] # NoState /\ HeldFits(states'[q], held'[q])
  <2>1. CASE q = p
    BY <1>2, <1>6, <2>1
  <2>2. CASE q # p
    BY <1>2, <1>6, <2>2 DEF EngineIInv
  <2> QED
    BY <2>1, <2>2
<1>7. NumbersDiffer'
  <2> SUFFICES ASSUME NEW q \in Points, NEW r \in Points, q # r, states'[q] # NoState, states'[r] # NoState,
                      states'[q].activeId # 0
               PROVE  states'[q].activeId # states'[r].activeId
    BY DEF NumbersDiffer
  <2>1. CASE q # p /\ r # p
    BY <1>2, <2>1 DEF EngineIInv, NumbersDiffer
  <2>2. CASE q = p
    <3>1. r # p /\ states'[r] = states[r] /\ states[r].activeId \in Nat /\ states[r].activeId <= seq
      BY <1>2, <1>4, <2>2
    <3> QED
      BY <1>1, <1>2, <2>2, <3>1 DEF EngineIInv, NumbersDiffer
  <2>3. CASE r = p
    <3>1. q # p /\ states'[q] = states[q] /\ states[q].activeId \in Nat /\ states[q].activeId <= seq
      BY <1>2, <1>4, <2>3
    <3> QED
      BY <1>1, <1>2, <2>3, <3>1 DEF EngineIInv, NumbersDiffer
  <2> QED
    BY <2>1, <2>2, <2>3
<1> QED
  BY <1>3, <1>5, <1>6, <1>7 DEF EngineIInv

-----------------------------------------------------------------------------
(* The states that a sample leads to.                                      *)

LEMMA FreshFits == ASSUME NEW t \in Nat, NEW s \in Nat
                   PROVE FreshState \in PointState /\ StateFits(FreshState, t, s)
  BY DEF FreshState, PointState, StateFits, IsOpen

LEMMA StateOfFits ==
    ASSUME EngineIInv, NEW p \in Points
    PROVE  /\ StateOf(p) \in PointState /\ StateFits(StateOf(p), now, seq)
           /\ held[p].zone # "none" => held[p].since <= now /\ HeldFits(StateOf(p), held[p])
           /\ StateOf(p).activeId = 0 \/ (states[p] # NoState /\ StateOf(p).activeId = states[p].activeId)
<1>1. /\ now \in Nat /\ seq \in Nat /\ states \in [Points -> PointState \cup {NoState}]
      /\ states[p] # NoState => StateFits(states[p], now, seq)
      /\ held[p].zone # "none" =>
            held[p].since <= now /\ states[p] # NoState /\ HeldFits(states[p], held[p])
  BY DEF EngineIInv
<1>2. CASE states[p] = NoState
  <2>1. StateOf(p) = FreshState /\ FreshState.activeId = 0
    BY <1>2 DEF StateOf, FreshState
  <2> QED
    BY <1>1, <1>2, <2>1, FreshFits
<1>3. CASE states[p] # NoState
  BY <1>1, <1>3 DEF StateOf
<1> QED
  BY <1>2, <1>3

(* The history of a sample: how long its zone has lasted.                  *)
LEMMA HeldRecords ==
    /\ \A r \in HeldRec, d \in Nat :
          LET h == [r EXCEPT !.span = d] IN
          h \in HeldRec /\ h.zone = r.zone /\ h.since = r.since /\ h.span = d
    /\ \A z \in Zones, t \in Nat :
          LET h == [zone |-> z, since |-> t, span |-> 0] IN
          h \in HeldRec /\ h.zone = z /\ h.since = t /\ h.span = 0
  BY DEF HeldRec

LEMMA HeldLasts ==
    ASSUME EngineIInv, NEW p \in Points, NEW zone \in Zones, Held(p, zone)
    PROVE  \E h \in HeldRec :
              /\ held' = [held EXCEPT ![p] = h]
              /\ h.zone = zone /\ h.zone # "none" /\ h.since <= now /\ h.span = now - h.since
              /\ \/ held[p].zone = zone /\ h.since = held[p].since
                 \/ h.since = now
<1>1. now \in Nat /\ held \in [Points -> HeldRec] /\ held[p] \in HeldRec
  BY DEF EngineIInv
<1>2. zone # "none"
  BY DEF Zones
<1>3. held[p].since \in Nat
  BY <1>1 DEF HeldRec
<1>4. CASE held[p].zone = zone
  <2>1. held[p].since <= now
    BY <1>2, <1>4 DEF EngineIInv
  <2>2. now - held[p].since \in Nat
    BY <1>1, <1>3, <2>1
  <2>3. PICK d \in Nat : d = now - held[p].since
    BY <2>2
  <2>4. PICK h : h = [held[p] EXCEPT !.span = d]
    OBVIOUS
  <2>5. h \in HeldRec /\ h.zone = held[p].zone /\ h.since = held[p].since /\ h.span = d
    BY <1>1, <2>4, HeldRecords
  <2>6. held' = [held EXCEPT ![p] = h]
    BY <1>4, <2>3, <2>4 DEF Held
  <2> QED
    BY <1>2, <1>4, <2>1, <2>3, <2>5, <2>6
<1>5. CASE held[p].zone # zone
  <2>1. PICK h : h = [zone |-> zone, since |-> now, span |-> 0]
    OBVIOUS
  <2>2. h \in HeldRec /\ h.zone = zone /\ h.since = now /\ h.span = 0
    BY <1>1, <2>1, HeldRecords
  <2>3. held' = [held EXCEPT ![p] = h]
    BY <1>5, <2>1 DEF Held
  <2>4. h.since <= now /\ h.span = now - h.since
    BY <1>1, <2>2
  <2> QED
    BY <1>2, <2>2, <2>3, <2>4
<1> QED
  BY <1>4, <1>5

(* Beyond the on-threshold a point is latched or a candidate.              *)
LEMMA CandidateFits ==
    ASSUME NEW st \in PointState, NEW s \in Nat, now \in Nat, StateFits(st, now, s)
    PROVE  /\ Candidate(st) \in PointState /\ StateFits(Candidate(st), now, s)
           /\ Candidate(st).pendingOn \/ Candidate(st).inAlarmBand
           /\ Candidate(st).inAlarmBand = st.inAlarmBand
           /\ Candidate(st).activeId = st.activeId
           /\ \/ Candidate(st).onSince = st.onSince /\ Candidate(st).pendingOn = st.pendingOn
              \/ ~st.pendingOn /\ Candidate(st).onSince = now
<1>1. CASE ~st.pendingOn /\ ~st.inAlarmBand
  <2> DEFINE c == [st EXCEPT !.pendingOn = TRUE, !.onSince = now]
  <2>1. Candidate(st) = c
    BY <1>1 DEF Candidate
  <2>2. /\ c \in PointState
        /\ c.pendingOn = TRUE /\ c.onSince = now /\ c.inAlarmBand = st.inAlarmBand
        /\ c.pendingOff = st.pendingOff /\ c.offSince = st.offSince
        /\ c.status = st.status /\ c.activeId = st.activeId
    BY DEF PointState
  <2> HIDE DEF c
  <2> QED
    BY <1>1, <2>1, <2>2 DEF StateFits, IsOpen
<1>2. CASE ~(~st.pendingOn /\ ~st.inAlarmBand)
  <2>1. Candidate(st) = st
    BY <1>2 DEF Candidate
  <2> QED
    BY <1>2, <2>1
<1> QED
  BY <1>1, <1>2

(* Beyond the off-threshold a latched point is a candidate for recovery.   *)
LEMMA RecoveringFits ==
    ASSUME NEW st \in PointState, NEW s \in Nat, now \in Nat, StateFits(st, now, s)
    PROVE  /\ Recovering(st) \in PointState /\ StateFits(Recovering(st), now, s)
           /\ Recovering(st).inAlarmBand => Recovering(st).pendingOff
           /\ Recovering(st).inAlarmBand = st.inAlarmBand
           /\ Recovering(st).activeId = st.activeId /\ Recovering(st).status = st.status
           /\ \/ Recovering(st).offSince = st.offSince /\ Recovering(st).pendingOff = st.pendingOff
              \/ ~st.pendingOff /\ Recovering(st).offSince = now
<1>1. CASE st.inAlarmBand /\ ~st.pendingOff
  <2> DEFINE c == [st EXCEPT !.pendingOff = TRUE, !.offSince = now]
  <2>1. Recovering(st) = c
    BY <1>1 DEF Recovering
  <2>2. /\ c \in PointState
        /\ c.pendingOff = TRUE /\ c.offSince = now /\ c.inAlarmBand = st.inAlarmBand
        /\ c.pendingOn = st.pendingOn /\ c.onSince = st.onSince
        /\ c.status = st.status /\ c.activeId = st.activeId
    BY DEF PointState
  <2> HIDE DEF c
  <2> QED
    BY <1>1, <2>1, <2>2 DEF StateFits, IsOpen
<1>2. CASE ~(st.inAlarmBand /\ ~st.pendingOff)
  <2>1. Recovering(st) = st
    BY <1>2 DEF Recovering
  <2> QED
    BY <1>2, <2>1
<1> QED
  BY <1>1, <1>2

-----------------------------------------------------------------------------
(* Every step of the engine keeps its invariant.                           *)

(* A sample beyond the on-threshold: st is the point's new state.          *)
LEMMA OnSample ==
    ASSUME EngineIInv, NEW p \in Points, Evaluated(p, "on"),
           NEW st \in PointState, states' = [states EXCEPT ![p] = st],
           seq' \in {seq, seq + 1}, StateFits(st, now, seq'),
           st.inAlarmBand \/ (st = Candidate(StateOf(p)) /\ ~Confirmed(st)),
           \/ st.activeId = Candidate(StateOf(p)).activeId
           \/ st.activeId = seq + 1 /\ seq' = seq + 1
    PROVE  EngineIInv'
<1> DEFINE old == StateOf(p)
           c == Candidate(old)
<1>1. /\ now \in Nat /\ seq \in Nat /\ held[p] \in HeldRec /\ OnDelay \in Nat
      /\ rules[p] # NoRule /\ UNCHANGED <<now, rules>> /\ Held(p, "on")
  BY TimesAssumption DEF EngineIInv, Evaluated
<1>2. /\ old \in PointState /\ StateFits(old, now, seq)
      /\ held[p].zone # "none" => held[p].since <= now /\ HeldFits(old, held[p])
      /\ old.activeId = 0 \/ (states[p] # NoState /\ old.activeId = states[p].activeId)
  BY StateOfFits
<1>3. /\ c \in PointState /\ StateFits(c, now, seq) /\ (c.pendingOn \/ c.inAlarmBand)
      /\ c.inAlarmBand = old.inAlarmBand /\ c.activeId = old.activeId
      /\ \/ c.onSince = old.onSince /\ c.pendingOn = old.pendingOn
         \/ ~old.pendingOn /\ c.onSince = now
  BY <1>1, <1>2, CandidateFits
<1>4. "on" \in Zones
  BY DEF Zones
<1>5. PICK h \in HeldRec :
         /\ held' = [held EXCEPT ![p] = h]
         /\ h.zone = "on" /\ h.zone # "none" /\ h.since <= now /\ h.span = now - h.since
         /\ \/ held[p].zone = "on" /\ h.since = held[p].since
            \/ h.since = now
  BY <1>1, <1>4, HeldLasts
<1>6. h.since \in Nat /\ st.onSince \in Nat
  BY DEF HeldRec, PointState
<1> HIDE DEF old, c
<1>7. HeldFits(st, h)
  <2>1. SUFFICES ASSUME ~st.inAlarmBand
                 PROVE  st.pendingOn /\ st.onSince <= h.since /\ h.span < OnDelay
    BY <1>5 DEF HeldFits
  <2>2. st = c /\ ~Confirmed(c) /\ st.pendingOn
    BY <1>3, <2>1 DEF old, c
  <2>3. st.onSince <= h.since
    <3>1. st.onSince <= now
      BY <1>3, <2>2 DEF StateFits
    <3>2. CASE held[p].zone = "on" /\ h.since = held[p].since
      <4>1. old.pendingOn /\ old.onSince <= held[p].since
        BY <1>2, <1>3, <2>1, <2>2, <3>2 DEF HeldFits
      <4> QED
        BY <1>3, <2>2, <3>2, <4>1
    <3> QED
      BY <1>5, <3>1, <3>2
  <2>4. now - st.onSince < OnDelay
    BY <1>1, <1>6, <2>2 DEF Confirmed
  <2> QED
    BY <1>1, <1>5, <1>6, <2>2, <2>3, <2>4
<1>8. \/ st.activeId = 0
      \/ st.activeId = seq + 1 /\ seq' = seq + 1
      \/ states[p] # NoState /\ st.activeId = states[p].activeId
  BY <1>2, <1>3 DEF old, c
<1> QED
  BY <1>1, <1>5, <1>7, <1>8, OnePoint

(* A sample beyond the off-threshold.                                      *)
LEMMA OffSample ==
    ASSUME EngineIInv, NEW p \in Points, Evaluated(p, "off"),
           NEW st \in PointState, states' = [states EXCEPT ![p] = st],
           seq' = seq, StateFits(st, now, seq),
           ~st.inAlarmBand \/ (st = Recovering(StateOf(p)) /\ ~RecoveryConfirmed(st)),
           st.activeId \in {0, StateOf(p).activeId}
    PROVE  EngineIInv'
<1> DEFINE old == StateOf(p)
           r == Recovering(old)
<1>1. /\ now \in Nat /\ seq \in Nat /\ held[p] \in HeldRec /\ OffDelay \in Nat
      /\ rules[p] # NoRule /\ UNCHANGED <<now, rules>> /\ Held(p, "off")
  BY TimesAssumption DEF EngineIInv, Evaluated
<1>2. /\ old \in PointState /\ StateFits(old, now, seq)
      /\ held[p].zone # "none" => held[p].since <= now /\ HeldFits(old, held[p])
      /\ old.activeId = 0 \/ (states[p] # NoState /\ old.activeId = states[p].activeId)
  BY StateOfFits
<1>3. /\ r \in PointState /\ StateFits(r, now, seq) /\ (r.inAlarmBand => r.pendingOff)
      /\ r.inAlarmBand = old.inAlarmBand
      /\ \/ r.offSince = old.offSince /\ r.pendingOff = old.pendingOff
         \/ ~old.pendingOff /\ r.offSince = now
  BY <1>1, <1>2, RecoveringFits
<1>4. "off" \in Zones
  BY DEF Zones
<1>5. PICK h \in HeldRec :
         /\ held' = [held EXCEPT ![p] = h]
         /\ h.zone = "off" /\ h.zone # "none" /\ h.since <= now /\ h.span = now - h.since
         /\ \/ held[p].zone = "off" /\ h.since = held[p].since
            \/ h.since = now
  BY <1>1, <1>4, HeldLasts
<1>6. h.since \in Nat /\ st.offSince \in Nat
  BY DEF HeldRec, PointState
<1> HIDE DEF old, r
<1>7. HeldFits(st, h)
  <2>1. SUFFICES ASSUME st.inAlarmBand
                 PROVE  st.pendingOff /\ st.offSince <= h.since /\ h.span < OffDelay
    BY <1>5 DEF HeldFits
  <2>2. st = r /\ ~RecoveryConfirmed(r) /\ st.pendingOff
    BY <1>3, <2>1 DEF old, r
  <2>3. st.offSince <= h.since
    <3>1. st.offSince <= now
      BY <1>3, <2>2 DEF StateFits
    <3>2. CASE held[p].zone = "off" /\ h.since = held[p].since
      <4>1. old.pendingOff /\ old.offSince <= held[p].since
        BY <1>2, <1>3, <2>1, <2>2, <3>2 DEF HeldFits
      <4> QED
        BY <1>3, <2>2, <3>2, <4>1
    <3> QED
      BY <1>5, <3>1, <3>2
  <2>4. now - st.offSince < OffDelay
    BY <1>1, <1>6, <2>2 DEF RecoveryConfirmed
  <2> QED
    BY <1>1, <1>5, <1>6, <2>2, <2>3, <2>4
<1>8. \/ st.activeId = 0
      \/ states[p] # NoState /\ st.activeId = states[p].activeId
  BY <1>2 DEF old
<1> QED
  BY <1>1, <1>5, <1>7, <1>8, OnePoint

(* What the steps make of the state of a point.                            *)
Latched(st) == [st EXCEPT !.pendingOn = FALSE, !.inAlarmBand = TRUE]
Raised(st, t, id) ==
    [st EXCEPT !.pendingOn = FALSE, !.inAlarmBand = TRUE,
               !.status = "Active", !.activeId = id, !.lastRaise = t]
Unlatched(st) == [st EXCEPT !.pendingOff = FALSE, !.inAlarmBand = FALSE]
Undecided(st) == [st EXCEPT !.pendingOn = FALSE, !.pendingOff = FALSE]
StartedOver(st) ==
    [st EXCEPT !.pendingOn = FALSE, !.pendingOff = FALSE,
               !.onSince = 0, !.offSince = 0, !.lastRaise = 0]
Acknowledged(st) == [st EXCEPT !.status = "Confirmed"]

LEMMA PointRecords ==
    ASSUME NEW st \in PointState, NEW t \in Nat, NEW s \in Nat, StateFits(st, t, s)
    PROVE  /\ Latched(st) \in PointState /\ StateFits(Latched(st), t, s)
           /\ Latched(st).inAlarmBand /\ Latched(st).activeId = st.activeId
           /\ Raised(st, t, s + 1) \in PointState /\ StateFits(Raised(st, t, s + 1), t, s + 1)
           /\ Raised(st, t, s + 1).inAlarmBand /\ Raised(st, t, s + 1).activeId = s + 1
           /\ Raised(st, t, s + 1).status = "Active"
           /\ Undecided(st) \in PointState /\ StateFits(Undecided(st), t, s)
           /\ Undecided(st).activeId = st.activeId /\ Undecided(st).status = st.status
           /\ StartedOver(st) \in PointState /\ StateFits(StartedOver(st), t, s)
           /\ StartedOver(st).activeId = st.activeId /\ StartedOver(st).status = st.status
           /\ RecoverAlarm(st) \in PointState /\ StateFits(RecoverAlarm(st), t, s)
           /\ ~RecoverAlarm(st).inAlarmBand /\ RecoverAlarm(st).activeId = 0
           /\ RecoverAlarm(st).status = "Recovered"
           /\ ~IsOpen(st) =>
                 /\ Unlatched(st) \in PointState /\ StateFits(Unlatched(st), t, s)
                 /\ ~Unlatched(st).inAlarmBand /\ Unlatched(st).activeId = st.activeId
                 /\ Unlatched(st).status = st.status
           /\ st.status = "Active" =>
                 /\ Acknowledged(st) \in PointState /\ StateFits(Acknowledged(st), t, s)
                 /\ Acknowledged(st).activeId = st.activeId /\ Acknowledged(st).status = "Confirmed"
                 /\ \A h \in HeldRec : HeldFits(st, h) => HeldFits(Acknowledged(st), h)
<1>1. /\ Latched(st) \in PointState /\ Raised(st, t, s + 1) \in PointState
      /\ Undecided(st) \in PointState /\ StartedOver(st) \in PointState
      /\ RecoverAlarm(st) \in PointState /\ Unlatched(st) \in PointState
      /\ Acknowledged(st) \in PointState
  <2>1. Latched(st) \in PointState
    BY DEF PointState, Latched
  <2>2. Raised(st, t, s + 1) \in PointState
    <3>1. ASSUME NEW id \in Nat PROVE Raised(st, t, id) \in PointState
      BY DEF PointState, Raised
    <3> QED
      BY <3>1
  <2>3. Undecided(st) \in PointState
    BY DEF PointState, Undecided
  <2>4. StartedOver(st) \in PointState
    BY DEF PointState, StartedOver
  <2>5. RecoverAlarm(st) \in PointState
    BY DEF PointState, RecoverAlarm
  <2>6. Unlatched(st) \in PointState
    BY DEF PointState, Unlatched
  <2>7. Acknowledged(st) \in PointState
    BY DEF PointState, Acknowledged
  <2> QED
    BY <2>1, <2>2, <2>3, <2>4, <2>5, <2>6, <2>7
<1>2. /\ Latched(st).pendingOn = FALSE /\ Latched(st).inAlarmBand = TRUE
      /\ Latched(st).pendingOff = st.pendingOff /\ Latched(st).offSince = st.offSince
      /\ Latched(st).status = st.status /\ Latched(st).activeId = st.activeId
  BY DEF PointState, Latched
<1>3. /\ Raised(st, t, s + 1).pendingOn = FALSE /\ Raised(st, t, s + 1).inAlarmBand = TRUE
      /\ Raised(st, t, s + 1).pendingOff = st.pendingOff /\ Raised(st, t, s + 1).offSince = st.offSince
      /\ Raised(st, t, s + 1).status = "Active" /\ Raised(st, t, s + 1).activeId = s + 1
  BY DEF PointState, Raised
<1>4. /\ Undecided(st).pendingOn = FALSE /\ Undecided(st).pendingOff = FALSE
      /\ Undecided(st).inAlarmBand = st.inAlarmBand
      /\ Undecided(st).status = st.status /\ Undecided(st).activeId = st.activeId
  BY DEF PointState, Undecided
<1>5. /\ StartedOver(st).pendingOn = FALSE /\ StartedOver(st).pendingOff = FALSE
      /\ StartedOver(st).inAlarmBand = st.inAlarmBand
      /\ StartedOver(st).status = st.status /\ StartedOver(st).activeId = st.activeId
  BY DEF PointState, StartedOver
<1>6. /\ RecoverAlarm(st).pendingOn = FALSE /\ RecoverAlarm(st).pendingOff = FALSE
      /\ RecoverAlarm(st).inAlarmBand = FALSE
      /\ RecoverAlarm(st).status = "Recovered" /\ RecoverAlarm(st).activeId = 0
  BY DEF PointState, RecoverAlarm
<1>7. /\ Unlatched(st).pendingOn = st.pendingOn /\ Unlatched(st).onSince = st.onSince
      /\ Unlatched(st).pendingOff = FALSE /\ Unlatched(st).inAlarmBand = FALSE
      /\ Unlatched(st).status = st.status /\ Unlatched(st).activeId = st.activeId
  BY DEF PointState, Unlatched
<1>8. /\ Acknowledged(st).pendingOn = st.pendingOn /\ Acknowledged(st).onSince = st.onSince
      /\ Acknowledged(st).pendingOff = st.pendingOff /\ Acknowledged(st).offSince = st.offSince
      /\ Acknowledged(st).inAlarmBand = st.inAlarmBand
      /\ Acknowledged(st).status = "Confirmed" /\ Acknowledged(st).activeId = st.activeId
  BY DEF PointState, Acknowledged
<1>9. st.activeId \in Nat /\ s + 1 # 0 /\ st.activeId <= s /\ 0 <= s /\ s + 1 <= s + 1
  BY DEF PointState, StateFits
<1>10. /\ StateFits(Latched(st), t, s) /\ StateFits(Raised(st, t, s + 1), t, s + 1)
       /\ StateFits(Undecided(st), t, s) /\ StateFits(StartedOver(st), t, s)
       /\ StateFits(RecoverAlarm(st), t, s)
  BY <1>2, <1>3, <1>4, <1>5, <1>6, <1>9 DEF StateFits, IsOpen
<1>11. ~IsOpen(st) => StateFits(Unlatched(st), t, s)
  BY <1>7, <1>9 DEF StateFits, IsOpen
<1>12. st.status = "Active" =>
          /\ StateFits(Acknowledged(st), t, s)
          /\ \A h \in HeldRec : HeldFits(st, h) => HeldFits(Acknowledged(st), h)
  BY <1>8, <1>9 DEF StateFits, HeldFits, IsOpen
<1> QED
  BY <1>1, <1>2, <1>3, <1>4, <1>5, <1>6, <1>7, <1>8, <1>10, <1>11, <1>12

LEMMA SkippedKeeps ==
    ASSUME EngineIInv, NEW p \in Points, EvaluateSkipped(p) PROVE EngineIInv'
<1> USE DEF EvaluateSkipped
<1>1. NotHeld \in HeldRec /\ NotHeld.zone = "none"
  BY DEF NotHeld, HeldRec
<1>2. held' \in [Points -> HeldRec]
  BY <1>1 DEF EngineIInv
<1>3. \A q \in Points : held'[q] = held[q] \/ held'[q].zone = "none"
  BY <1>1 DEF EngineIInv
<1> QED
  BY <1>2, <1>3 DEF EngineIInv, NumbersDiffer

LEMMA SampleKeeps ==
    ASSUME EngineIInv, NEW p \in Points, Evaluate(p) PROVE EngineIInv'
<1> DEFINE old == StateOf(p)
           c == Candidate(old)
           r == Recovering(old)
<1>1. /\ now \in Nat /\ seq \in Nat /\ held[p] \in HeldRec
  BY DEF EngineIInv
<1>2. /\ old \in PointState /\ StateFits(old, now, seq)
      /\ old.activeId = 0 \/ (states[p] # NoState /\ old.activeId = states[p].activeId)
  BY StateOfFits
<1>3. /\ c \in PointState /\ StateFits(c, now, seq) /\ c.activeId = old.activeId
  BY <1>1, <1>2, CandidateFits
<1>4. /\ r \in PointState /\ StateFits(r, now, seq) /\ r.activeId = old.activeId
  BY <1>1, <1>2, RecoveringFits
<1> HIDE DEF old, c, r
<1>5. CASE EvaluateSkipped(p)
  BY <1>5, SkippedKeeps
<1>6. CASE EvaluateOnWaits(p)
  <2>1. Evaluated(p, "on") /\ states' = [states EXCEPT ![p] = c] /\ seq' = seq /\ ~Confirmed(c)
    BY <1>6 DEF EvaluateOnWaits, old, c
  <2> QED
    BY <1>3, <2>1, OnSample DEF old, c
<1>7. CASE EvaluateOnDropped(p)
  <2>1. Evaluated(p, "on") /\ states' = [states EXCEPT ![p] = Latched(c)] /\ seq' = seq
    BY <1>7 DEF EvaluateOnDropped, Latched, old, c
  <2>2. /\ Latched(c) \in PointState /\ StateFits(Latched(c), now, seq)
        /\ Latched(c).inAlarmBand /\ Latched(c).activeId = c.activeId
    BY <1>1, <1>3, PointRecords
  <2>3. PICK st : st = Latched(c)
    OBVIOUS
  <2> QED
    BY <2>1, <2>2, <2>3, OnSample DEF old, c
<1>8. CASE EvaluateOnRaises(p)
  <2>1. Evaluated(p, "on") /\ states' = [states EXCEPT ![p] = Raised(c, now, seq + 1)] /\ seq' = seq + 1
    BY <1>8 DEF EvaluateOnRaises, Raised, old, c
  <2>2. PICK st : st = Raised(c, now, seq + 1)
    OBVIOUS
  <2>3. /\ st \in PointState /\ StateFits(st, now, seq + 1)
        /\ st.inAlarmBand /\ st.activeId = seq + 1
    BY <1>1, <1>3, <2>2, PointRecords
  <2> QED
    BY <2>1, <2>2, <2>3, OnSample
<1>9. CASE EvaluateOffWaits(p)
  <2>1. Evaluated(p, "off") /\ states' = [states EXCEPT ![p] = r] /\ seq' = seq /\ ~RecoveryConfirmed(r)
    BY <1>9 DEF EvaluateOffWaits, old, r
  <2> QED
    BY <1>4, <2>1, OffSample DEF old, r
<1>10. CASE EvaluateOffRecovers(p)
  <2>1. Evaluated(p, "off") /\ seq' = seq
    BY <1>10 DEF EvaluateOffRecovers
  <2>2. PICK st : /\ states' = [states EXCEPT ![p] = st]
                  /\ st = RecoverAlarm(r) \/ (~IsOpen(r) /\ st = Unlatched(r))
    BY <1>10 DEF EvaluateOffRecovers, Unlatched, old, r
  <2>3. /\ st \in PointState /\ StateFits(st, now, seq)
        /\ ~st.inAlarmBand /\ st.activeId \in {0, r.activeId}
    BY <1>1, <1>4, <2>2, PointRecords
  <2> QED
    BY <1>4, <2>1, <2>2, <2>3, OffSample DEF old
<1>11. CASE EvaluateMid(p)
  <2>1. Evaluated(p, "mid") /\ seq' = seq
    BY <1>11 DEF EvaluateMid
  <2>2. PICK st : st = Undecided(old)
    OBVIOUS
  <2>3. states' = [states EXCEPT ![p] = st]
    BY <1>11, <2>2 DEF EvaluateMid, Undecided, old
  <2>4. st \in PointState /\ StateFits(st, now, seq) /\ st.activeId = old.activeId
    BY <1>1, <1>2, <2>2, PointRecords
  <2>5. "mid" \in Zones /\ "mid" # "on" /\ "mid" # "off"
    BY DEF Zones
  <2>6. Held(p, "mid") /\ UNCHANGED <<now, rules>> /\ rules[p] # NoRule
    BY <2>1 DEF Evaluated
  <2>7. PICK h \in HeldRec : held' = [held EXCEPT ![p] = h] /\ h.zone = "mid" /\ h.since <= now
    BY <2>5, <2>6, HeldLasts
  <2>8. HeldFits(st, h)
    BY <2>5, <2>7 DEF HeldFits
  <2>9. st.activeId = 0 \/ (states[p] # NoState /\ st.activeId = states[p].activeId)
    BY <1>2, <2>4
  <2> QED
    BY <2>1, <2>3, <2>4, <2>6, <2>7, <2>8, <2>9, OnePoint
<1> QED
  BY <1>5, <1>6, <1>7, <1>8, <1>9, <1>10, <1>11 DEF Evaluate

Reloaded(new, q) ==
    CASE q \in Orphans(new) -> NoState
      [] q \in Changed(new) /\ states[q] # NoState -> StartedOver(states[q])
      [] OTHER -> states[q]

LEMMA ReloadKeeps ==
    ASSUME EngineIInv, NEW new \in RuleSets, DoReloadRules(new) PROVE EngineIInv'
<1>1. /\ now \in Nat /\ seq \in Nat /\ now' = now /\ seq' = seq
      /\ states \in [Points -> PointState \cup {NoState}] /\ held \in [Points -> HeldRec]
      /\ new \in [Points -> Rules \cup {NoRule}] /\ rules' = new
  BY RulesAssumption DEF EngineIInv, DoReloadRules
<1>2. NotHeld \in HeldRec /\ NotHeld.zone = "none"
  BY DEF NotHeld, HeldRec
<1>3. /\ held' \in [Points -> HeldRec]
      /\ \A q \in Points : held'[q] = NotHeld \/ (held'[q] = held[q] /\ q \notin Orphans(new) \cup Changed(new))
  BY <1>1, <1>2 DEF DoReloadRules
<1>4. ASSUME NEW q \in Points
      PROVE  \/ states'[q] = NoState
             \/ /\ states'[q] \in PointState /\ states[q] # NoState /\ new[q] # NoRule
                /\ StateFits(states'[q], now, seq) /\ states'[q].activeId = states[q].activeId
                /\ q \notin Changed(new) => states'[q] = states[q]
  <2>1. states'[q] =
            CASE q \in Orphans(new) -> NoState
              [] q \in Changed(new) /\ states[q] # NoState -> StartedOver(states[q])
              [] OTHER -> states[q]
    BY DEF DoReloadRules, StartedOver
  <2>2. CASE states[q] = NoState
    BY <2>1, <2>2 DEF Orphans
  <2>3. CASE states[q] # NoState /\ new[q] = NoRule
    BY <2>1, <2>3 DEF Orphans, Changed
  <2>4. CASE states[q] # NoState /\ new[q] # NoRule
    <3>1. q \notin Orphans(new)
      BY <2>4 DEF Orphans
    <3>2. states[q] \in PointState /\ StateFits(states[q], now, seq)
      BY <1>1, <2>4 DEF EngineIInv
    <3>3. /\ StartedOver(states[q]) \in PointState /\ StateFits(StartedOver(states[q]), now, seq)
          /\ StartedOver(states[q]).activeId = states[q].activeId
      BY <1>1, <3>2, PointRecords
    <3>4. CASE q \in Changed(new)
      BY <2>1, <2>4, <3>1, <3>3, <3>4
    <3>5. CASE q \notin Changed(new)
      BY <2>1, <2>4, <3>1, <3>2, <3>5
    <3> QED
      BY <3>4, <3>5
  <2> QED
    BY <2>2, <2>3, <2>4
<1>5. states' \in [Points -> PointState \cup {NoState}]
  <2>1. states' = [q \in Points |-> Reloaded(new, q)]
    BY DEF DoReloadRules, Reloaded, StartedOver
  <2>2. \A q \in Points : Reloaded(new, q) = states'[q]
    BY <2>1
  <2>3. \A q \in Points : Reloaded(new, q) \in PointState \cup {NoState}
    BY <1>4, <2>2
  <2> QED
    BY <2>1, <2>3
<1>6. \A q \in Points : states'[q] # NoState => StateFits(states'[q], now, seq) /\ new[q] # NoRule
  BY <1>4
<1>7. ASSUME NEW q \in Points, held'[q].zone # "none"
      PROVE  held'[q].since <= now /\ states'[q] # NoState /\ HeldFits(states'[q], held'[q])
  <2>1. held'[q] = held[q] /\ q \notin Orphans(new) /\ q \notin Changed(new)
    BY <1>2, <1>3, <1>7
  <2>2. held[q].since <= now /\ states[q] # NoState /\ HeldFits(states[q], held[q])
    BY <1>7, <2>1 DEF EngineIInv
  <2>3. states'[q] = states[q]
    BY <2>1 DEF DoReloadRules
  <2> QED
    BY <2>1, <2>2, <2>3
<1>8. NumbersDiffer'
  BY <1>4 DEF EngineIInv, NumbersDiffer
<1> QED
  BY <1>1, <1>3, <1>5, <1>6, <1>7, <1>8 DEF EngineIInv

LEMMA AcknowledgeKeeps ==
    ASSUME EngineIInv, NEW id, AcknowledgeAlarm(id) PROVE EngineIInv'
<1>1. /\ now \in Nat /\ seq \in Nat /\ UNCHANGED <<now, seq, rules, held>>
      /\ states \in [Points -> PointState \cup {NoState}] /\ held \in [Points -> HeldRec]
  BY DEF EngineIInv, AcknowledgeAlarm, history
<1>2. ASSUME NEW q \in Points
      PROVE  \/ states'[q] = states[q]
             \/ /\ states[q] # NoState /\ states[q].status = "Active"
                /\ states'[q] = Acknowledged(states[q])
  BY DEF AcknowledgeAlarm, Acknowledged
<1>3. ASSUME NEW q \in Points
      PROVE  \/ states'[q] = NoState /\ states[q] = NoState
             \/ /\ states[q] \in PointState /\ states'[q] \in PointState
                /\ states[q] # NoState /\ states'[q] # NoState
                /\ StateFits(states'[q], now, seq) /\ states'[q].activeId = states[q].activeId
                /\ held[q].zone # "none" => HeldFits(states'[q], held[q])
  <2>1. CASE states[q] = NoState
    BY <1>2, <2>1
  <2>2. CASE states[q] # NoState
    <3>1. states[q] \in PointState /\ StateFits(states[q], now, seq) /\ held[q] \in HeldRec
      BY <1>1, <2>2 DEF EngineIInv
    <3>2. held[q].zone # "none" => HeldFits(states[q], held[q])
      BY DEF EngineIInv
    <3>3. CASE states'[q] = states[q]
      BY <2>2, <3>1, <3>2, <3>3
    <3>4. CASE states[q].status = "Active" /\ states'[q] = Acknowledged(states[q])
      <4>1. /\ states'[q] \in PointState /\ StateFits(states'[q], now, seq)
            /\ states'[q].activeId = states[q].activeId
            /\ \A h \in HeldRec : HeldFits(states[q], h) => HeldFits(states'[q], h)
        BY <1>1, <3>1, <3>4, PointRecords
      <4> QED
        BY <2>2, <3>1, <3>2, <4>1, NoStateAssumption
    <3> QED
      BY <1>2, <3>3, <3>4
  <2> QED
    BY <2>1, <2>2
<1>4. states' \in [Points -> PointState \cup {NoState}]
  <2>1. DOMAIN states' = Points /\ states' = [q \in Points |-> states'[q]]
    BY DEF AcknowledgeAlarm
  <2> QED
    BY <1>3, <2>1
<1>5. NumbersDiffer'
  BY <1>3 DEF EngineIInv, NumbersDiffer
<1>6. \A q \in Points : states'[q] # NoState => StateFits(states'[q], now, seq) /\ rules[q] # NoRule
  BY <1>3 DEF EngineIInv
<1>7. \A q \in Points : held[q].zone # "none" =>
         held[q].since <= now /\ states'[q] # NoState /\ HeldFits(states'[q], held[q])
  BY <1>3 DEF EngineIInv
<1> QED
  BY <1>1, <1>4, <1>5, <1>6, <1>7 DEF EngineIInv

LEMMA QuietKeeps ==
    ASSUME EngineIInv, UNCHANGED <<seq, rules, states, held>>, now' \in Nat, now <= now'
    PROVE  EngineIInv'
<1>1. /\ now \in Nat /\ seq \in Nat
      /\ states \in [Points -> PointState \cup {NoState}] /\ held \in [Points -> HeldRec]
  BY DEF EngineIInv
<1>2. ASSUME NEW p \in Points, states[p] # NoState
      PROVE  StateFits(states[p], now', seq)
  <2>1. states[p] \in PointState /\ StateFits(states[p], now, seq)
    BY <1>1, <1>2 DEF EngineIInv
  <2>2. states[p].onSince \in Nat /\ states[p].offSince \in Nat
    BY <2>1 DEF PointState
  <2> QED
    BY <1>1, <2>1, <2>2 DEF StateFits
<1>3. ASSUME NEW p \in Points, held[p].zone # "none"
      PROVE  held[p].since <= now'
  <2>1. held[p].since \in Nat
    BY <1>1 DEF HeldRec
  <2> QED
    BY <1>1, <1>3, <2>1 DEF EngineIInv
<1> QED
  BY <1>1, <1>2, <1>3 DEF EngineIInv, NumbersDiffer

LEMMA FreshKeeps ==
    ASSUME NEW new \in RuleSets, Fresh(new), now' \in Nat PROVE EngineIInv'
<1>1. /\ rules' \in [Points -> Rules \cup {NoRule}] /\ seq' = 0
      /\ states' = [p \in Points |-> NoState] /\ held' = [p \in Points |-> NotHeld]
  BY RulesAssumption DEF Fresh
<1>2. NotHeld \in HeldRec /\ NotHeld.zone = "none"
  BY DEF NotHeld, HeldRec
<1>3. states' \in [Points -> PointState \cup {NoState}] /\ held' \in [Points -> HeldRec]
  BY <1>1, <1>2
<1>4. \A p \in Points : states'[p] = NoState /\ held'[p].zone = "none"
  BY <1>1, <1>2
<1> QED
  BY <1>1, <1>3, <1>4 DEF EngineIInv, NumbersDiffer

LEMMA EngineInitially == Init => EngineIInv
<1> SUFFICES ASSUME Init PROVE EngineIInv
  OBVIOUS
<1>1. /\ rules \in [Points -> Rules \cup {NoRule}] /\ seq = 0 /\ now = Uptime
      /\ states = [p \in Points |-> NoState] /\ held = [p \in Points |-> NotHeld]
  BY RulesAssumption DEF Init, EngineInit
<1>2. NotHeld \in HeldRec /\ NotHeld.zone = "none" /\ Uptime \in Nat
  BY TimesAssumption DEF NotHeld, HeldRec
<1>3. states \in [Points -> PointState \cup {NoState}] /\ held \in [Points -> HeldRec]
  BY <1>1, <1>2
<1>4. \A p \in Points : states[p] = NoState /\ held[p].zone = "none"
  BY <1>1, <1>2
<1> QED
  BY <1>1, <1>2, <1>3, <1>4 DEF EngineIInv, NumbersDiffer

LEMMA EngineStep == EngineIInv /\ [Next]_vars => EngineIInv'
<1> SUFFICES ASSUME EngineIInv, [Next]_vars PROVE EngineIInv'
  OBVIOUS
<1>0. now \in Nat
  BY DEF EngineIInv
<1>1. ASSUME NEW p \in Points, Evaluate(p) PROVE EngineIInv'
  BY <1>1, SampleKeeps
<1>2. ASSUME NEW new \in RuleSets, DoReloadRules(new) PROVE EngineIInv'
  BY <1>2, ReloadKeeps
<1>3. ASSUME NEW p \in Maintained, DoSuppressPoint(p) \/ DoUnsuppressPoint(p) PROVE EngineIInv'
  BY <1>0, <1>3, QuietKeeps DEF DoSuppressPoint, DoUnsuppressPoint, history
<1>4. ASSUME NEW t \in Thresholds, DoSetStormConfig(t) PROVE EngineIInv'
  BY <1>0, <1>4, QuietKeeps DEF DoSetStormConfig, history
<1>5. CASE Acknowledge
  BY <1>5, AcknowledgeKeeps DEF Acknowledge
<1>6. CASE Tick
  BY <1>0, <1>6, QuietKeeps DEF Tick, history
<1>7. CASE NextMonth
  BY <1>0, <1>7, QuietKeeps DEF NextMonth, engineVars
<1>8. ASSUME NEW new \in RuleSets, StoreRestart(new) PROVE EngineIInv'
  BY <1>0, <1>8, FreshKeeps DEF StoreRestart, Restart
<1>9. CASE UNCHANGED vars
  BY <1>0, <1>9, QuietKeeps DEF vars, engineVars
<1> QED
  BY <1>1, <1>2, <1>3, <1>4, <1>5, <1>6, <1>7, <1>8, <1>9 DEF Next

(* The inductive invariant of the engine, over evaluation, reload, masking,*)
(* acknowledgement, storms and restarts.                                   *)
THEOREM EngineInvariance == Spec => []EngineIInv
  BY EngineInitially, EngineStep, PTL DEF Spec

(* A latch, an open alarm and its number agree in every point, no two open *)
(* alarms have the same number, and a point with a state has a rule        *)
(* (raiseAlarm, recoverAlarm, doReloadRules).                              *)
THEOREM AlarmsAgree == Spec => []EngineInv
<1>1. EngineIInv => EngineInv
  <2> SUFFICES ASSUME EngineIInv PROVE EngineInv
    OBVIOUS
  <2>1. LatchAgrees
    BY DEF EngineIInv, LatchAgrees, StateFits
  <2> QED
    BY <2>1 DEF EngineIInv, EngineInv, StatesHaveRules
<1> QED
  BY <1>1, EngineInvariance, PTL

(* What lasts is detected: a point whose samples stay beyond the           *)
(* on-threshold for the on-delay is latched, and one whose samples stay    *)
(* beyond the off-threshold for the off-delay has no open alarm, through   *)
(* rule changes, masking and dropped repeats (evaluate).                   *)
THEOREM WhatLastsIsDetected == Spec => []SustainedIsDetected
<1>1. EngineIInv => SustainedIsDetected
  <2> SUFFICES ASSUME EngineIInv, NEW p \in Points,
                      held[p].zone = "on" \/ held[p].zone = "off"
               PROVE  /\ held[p].zone = "on" /\ held[p].span >= OnDelay =>
                            states[p] # NoState /\ states[p].inAlarmBand
                      /\ held[p].zone = "off" /\ held[p].span >= OffDelay =>
                            states[p] # NoState /\ ~states[p].inAlarmBand /\ ~IsOpen(states[p])
    BY DEF SustainedIsDetected
  <2>1. states[p] # NoState /\ HeldFits(states[p], held[p]) /\ StateFits(states[p], now, seq)
    BY DEF EngineIInv
  <2>2. held[p].span \in Nat /\ OnDelay \in Nat /\ OffDelay \in Nat
    BY TimesAssumption DEF EngineIInv, HeldRec
  <2> QED
    BY <2>1, <2>2 DEF HeldFits, StateFits
<1> QED
  BY <1>1, EngineInvariance, PTL

-----------------------------------------------------------------------------
(* What a step does to the alarms that are open, and what it announces.    *)

NumberOf(p) == IF OpenAlarm(p) THEN states[p].activeId ELSE 0
StandingOf(p) == IF OpenAlarm(p) THEN states[p].status ELSE "Recovered"

Keeps(p) == NumberOf(p)' = NumberOf(p) /\ StandingOf(p)' = StandingOf(p)

KeepsAll == seq' = seq /\ run' = run /\ \A p \in Points : Keeps(p)

Raises(p) ==
    /\ seq' = seq + 1 /\ run' = run
    /\ NumberOf(p) = 0 /\ NumberOf(p)' = seq + 1 /\ StandingOf(p)' = "Active"
    /\ \A q \in Points \ {p} : Keeps(q)
    /\ \/ emitted' = NoSignals
       \/ \E e : /\ emitted' = Announced(e) /\ e.point = p /\ e.id = seq + 1

Closes(S) ==
    /\ seq' = seq /\ run' = run
    /\ \A p \in S : NumberOf(p) # 0 /\ NumberOf(p)' = 0
    /\ \A q \in Points \ S : Keeps(q)
    /\ emitted' = [NoSignals EXCEPT !.recovered = {NumberOf(p) : p \in S}]

Confirms(id) ==
    /\ seq' = seq /\ run' = run
    /\ \A p \in Points :
          /\ NumberOf(p)' = NumberOf(p)
          /\ StandingOf(p)' = IF NumberOf(p) = id /\ StandingOf(p) = "Active"
                              THEN "Confirmed" ELSE StandingOf(p)
    /\ emitted' = [NoSignals EXCEPT !.acknowledged = {id}]

(* An open alarm has a number, and a point without one has no status.      *)
LEMMA Standing ==
    ASSUME EngineIInv, NEW p \in Points
    PROVE  /\ NumberOf(p) \in Nat /\ NumberOf(p) <= seq
           /\ NumberOf(p) # 0 <=> OpenAlarm(p)
           /\ NumberOf(p) # 0 <=> StandingOf(p) # "Recovered"
           /\ StandingOf(p) \in {"Active", "Confirmed", "Recovered"}
           /\ \A q \in Points : q # p /\ NumberOf(p) # 0 => NumberOf(q) # NumberOf(p)
<1>1. seq \in Nat /\ states[p] # NoState => states[p] \in PointState /\ StateFits(states[p], now, seq)
  BY DEF EngineIInv
<1>2. seq \in Nat
  BY DEF EngineIInv
<1>3. states[p] # NoState => states[p].activeId \in Nat /\ states[p].activeId <= seq
                             /\ (IsOpen(states[p]) <=> states[p].activeId # 0)
  BY <1>1, <1>2 DEF PointState, StateFits
<1>4. \A q \in Points : q # p /\ NumberOf(p) # 0 => NumberOf(q) # NumberOf(p)
  BY DEF EngineIInv, NumbersDiffer, NumberOf, OpenAlarm
<1> QED
  BY <1>2, <1>3, <1>4 DEF NumberOf, StandingOf, OpenAlarm, IsOpen

(* The alarm of a point is that of the state a sample is judged by.        *)
LEMMA StandingOfState ==
    ASSUME EngineIInv, NEW p \in Points
    PROVE  /\ NumberOf(p) = IF IsOpen(StateOf(p)) THEN StateOf(p).activeId ELSE 0
           /\ StandingOf(p) = IF IsOpen(StateOf(p)) THEN StateOf(p).status ELSE "Recovered"
<1>1. ~IsOpen(FreshState)
  BY DEF FreshState, IsOpen
<1> QED
  BY <1>1 DEF StateOf, NumberOf, StandingOf, OpenAlarm

LEMMA SampleEffect ==
    ASSUME EngineIInv, NEW p \in Points, Evaluate(p)
    PROVE  (KeepsAll /\ emitted' = NoSignals) \/ Raises(p) \/ Closes({p})
<1> DEFINE old == StateOf(p)
           c == Candidate(old)
           r == Recovering(old)
<1>1. /\ now \in Nat /\ seq \in Nat /\ states \in [Points -> PointState \cup {NoState}]
  BY DEF EngineIInv
<1>2. old \in PointState /\ StateFits(old, now, seq)
  BY StateOfFits
<1>3. /\ c \in PointState /\ StateFits(c, now, seq) /\ c.activeId = old.activeId
      /\ c.inAlarmBand = old.inAlarmBand
  BY <1>1, <1>2, CandidateFits
<1>4. /\ r \in PointState /\ StateFits(r, now, seq) /\ r.activeId = old.activeId
      /\ r.status = old.status
  BY <1>1, <1>2, RecoveringFits
<1>5. c.status = old.status
  BY <1>2 DEF Candidate, PointState, c
<1>6. /\ NumberOf(p) = IF IsOpen(old) THEN old.activeId ELSE 0
      /\ StandingOf(p) = IF IsOpen(old) THEN old.status ELSE "Recovered"
  BY StandingOfState
<1> HIDE DEF old, c, r
<1>7. ASSUME NEW st \in PointState, states' = [states EXCEPT ![p] = st]
      PROVE  /\ NumberOf(p)' = IF IsOpen(st) THEN st.activeId ELSE 0
             /\ StandingOf(p)' = IF IsOpen(st) THEN st.status ELSE "Recovered"
             /\ \A q \in Points \ {p} : Keeps(q)
  <2>1. states'[p] = st /\ st # NoState /\ \A q \in Points \ {p} : states'[q] = states[q]
    BY <1>1, <1>7, NoStateAssumption
  <2>2. OpenAlarm(p)' <=> IsOpen(st)
    BY <2>1 DEF OpenAlarm, IsOpen
  <2>3. NumberOf(p)' = IF IsOpen(st) THEN st.activeId ELSE 0
    BY <2>1, <2>2 DEF NumberOf
  <2>4. StandingOf(p)' = IF IsOpen(st) THEN st.status ELSE "Recovered"
    BY <2>1, <2>2 DEF StandingOf
  <2>5. \A q \in Points \ {p} : Keeps(q)
    BY <2>1 DEF Keeps, NumberOf, StandingOf, OpenAlarm, IsOpen
  <2> QED
    BY <2>3, <2>4, <2>5
<1>8. ASSUME NEW st \in PointState, states' = [states EXCEPT ![p] = st],
             st.activeId = old.activeId, st.status = old.status,
             seq' = seq, run' = run
      PROVE  KeepsAll
  <2>1. /\ NumberOf(p)' = IF IsOpen(st) THEN st.activeId ELSE 0
        /\ StandingOf(p)' = IF IsOpen(st) THEN st.status ELSE "Recovered"
        /\ \A q \in Points \ {p} : Keeps(q)
    BY <1>7, <1>8
  <2>2. IsOpen(st) <=> IsOpen(old)
    BY <1>8 DEF IsOpen
  <2>3. Keeps(p)
    BY <1>6, <1>8, <2>1, <2>2 DEF Keeps
  <2> QED
    BY <1>8, <2>1, <2>3 DEF KeepsAll
<1>9. CASE EvaluateSkipped(p)
  BY <1>9 DEF EvaluateSkipped, KeepsAll, Keeps, NumberOf, StandingOf, OpenAlarm
<1>10. CASE EvaluateOnWaits(p)
  <2>1. states' = [states EXCEPT ![p] = c] /\ seq' = seq /\ run' = run /\ emitted' = NoSignals
    BY <1>10 DEF EvaluateOnWaits, Evaluated, old, c
  <2> QED
    BY <1>3, <1>5, <1>8, <2>1
<1>11. CASE EvaluateOnDropped(p)
  <2>1. PICK st : st = Latched(c)
    OBVIOUS
  <2>2. states' = [states EXCEPT ![p] = st] /\ seq' = seq /\ run' = run /\ emitted' = NoSignals
    BY <1>11, <2>1 DEF EvaluateOnDropped, Evaluated, Latched, old, c
  <2>3. st \in PointState /\ st.activeId = c.activeId
    BY <1>1, <1>3, <2>1, PointRecords
  <2>4. st.status = c.status
    BY <1>3, <2>1 DEF Latched, PointState
  <2> QED
    BY <1>3, <1>5, <1>8, <2>2, <2>3, <2>4
<1>12. CASE EvaluateOnRaises(p)
  <2>1. PICK st : st = Raised(c, now, seq + 1)
    OBVIOUS
  <2>2. states' = [states EXCEPT ![p] = st] /\ seq' = seq + 1 /\ run' = run
    BY <1>12, <2>1 DEF EvaluateOnRaises, Evaluated, Raised, old, c
  <2>3. st \in PointState /\ st.activeId = seq + 1 /\ st.status = "Active"
    BY <1>1, <1>3, <2>1, PointRecords
  <2>4. c.pendingOn
    BY <1>12 DEF EvaluateOnRaises, Confirmed, old, c
  <2>5. ~IsOpen(old)
    BY <1>2, <1>3, <2>4 DEF StateFits
  <2>6. NumberOf(p)' = seq + 1 /\ StandingOf(p)' = "Active" /\ \A q \in Points \ {p} : Keeps(q)
    BY <1>7, <2>2, <2>3 DEF IsOpen
  <2>7. PICK e : e = [id |-> seq + 1, point |-> p, level |-> rules[p].level]
    OBVIOUS
  <2>8. e.id = seq + 1 /\ e.point = p
    BY <2>7
  <2>9. emitted' = NoSignals \/ emitted' = Announced(e)
    BY <1>12, <2>7 DEF EvaluateOnRaises
  <2> QED
    BY <1>6, <2>2, <2>5, <2>6, <2>8, <2>9 DEF Raises
<1>13. CASE EvaluateOffWaits(p)
  <2>1. states' = [states EXCEPT ![p] = r] /\ seq' = seq /\ run' = run /\ emitted' = NoSignals
    BY <1>13 DEF EvaluateOffWaits, Evaluated, old, r
  <2> QED
    BY <1>4, <1>8, <2>1
<1>14. CASE EvaluateOffRecovers(p) /\ IsOpen(r)
  <2>1. PICK st : st = RecoverAlarm(r)
    OBVIOUS
  <2>2. /\ states' = [states EXCEPT ![p] = st] /\ seq' = seq /\ run' = run
        /\ emitted' = [NoSignals EXCEPT !.recovered = {r.activeId}]
    BY <1>14, <2>1 DEF EvaluateOffRecovers, Evaluated, old, r
  <2>3. st \in PointState /\ st.status = "Recovered"
    BY <1>1, <1>4, <2>1, PointRecords
  <2>4. NumberOf(p)' = 0 /\ \A q \in Points \ {p} : Keeps(q)
    BY <1>7, <2>2, <2>3 DEF IsOpen
  <2>5. NumberOf(p) = r.activeId /\ r.activeId # 0
    BY <1>4, <1>6, <1>14 DEF IsOpen, StateFits
  <2>6. {r.activeId} = {NumberOf(q) : q \in {p}}
    BY <2>5
  <2> QED
    BY <2>2, <2>4, <2>5, <2>6 DEF Closes
<1>15. CASE EvaluateOffRecovers(p) /\ ~IsOpen(r)
  <2>1. PICK st : st = Unlatched(r)
    OBVIOUS
  <2>2. /\ states' = [states EXCEPT ![p] = st] /\ seq' = seq /\ run' = run /\ emitted' = NoSignals
    BY <1>15, <2>1 DEF EvaluateOffRecovers, Evaluated, Unlatched, old, r
  <2>3. st \in PointState /\ st.activeId = r.activeId /\ st.status = r.status
    BY <1>1, <1>4, <1>15, <2>1, PointRecords
  <2> QED
    BY <1>4, <1>8, <2>2, <2>3
<1>16. CASE EvaluateMid(p)
  <2>1. PICK st : st = Undecided(old)
    OBVIOUS
  <2>2. /\ states' = [states EXCEPT ![p] = st] /\ seq' = seq /\ run' = run /\ emitted' = NoSignals
    BY <1>16, <2>1 DEF EvaluateMid, Evaluated, Undecided, old
  <2>3. st \in PointState /\ st.activeId = old.activeId /\ st.status = old.status
    BY <1>1, <1>2, <2>1, PointRecords
  <2> QED
    BY <1>8, <2>2, <2>3
<1> QED
  BY <1>9, <1>10, <1>11, <1>12, <1>13, <1>14, <1>15, <1>16 DEF Evaluate

LEMMA ReloadEffect ==
    ASSUME EngineIInv, NEW new \in RuleSets, DoReloadRules(new)
    PROVE  \E S \in SUBSET Points : Closes(S)
<1> DEFINE S == {q \in Orphans(new) : IsOpen(states[q])}
<1>1. S \in SUBSET Points /\ \A q \in Points : q \in S <=> OpenAlarm(q) /\ new[q] = NoRule
  BY DEF Orphans, OpenAlarm
<1>2. seq' = seq /\ run' = run /\ states' = [q \in Points |-> Reloaded(new, q)]
  BY DEF DoReloadRules, Reloaded, StartedOver
<1>3. emitted' = [NoSignals EXCEPT !.recovered = {states[q].activeId : q \in S}]
  BY DEF DoReloadRules
<1>4. \A q \in S : OpenAlarm(q)
  BY <1>1
<1> HIDE DEF S
<1>5. {states[q].activeId : q \in S} = {NumberOf(q) : q \in S}
  BY <1>4 DEF NumberOf
<1>6. ASSUME NEW q \in S
      PROVE  NumberOf(q) # 0 /\ NumberOf(q)' = 0
  <2>1. q \in Points /\ OpenAlarm(q) /\ new[q] = NoRule /\ states[q] # NoState
    BY <1>1 DEF OpenAlarm
  <2>2. NumberOf(q) # 0
    BY <2>1, Standing
  <2>3. q \in Orphans(new)
    BY <2>1 DEF Orphans
  <2>4. Reloaded(new, q) = NoState
    BY <2>1, <2>3 DEF Reloaded, Changed
  <2>5. states'[q] = NoState
    BY <1>2, <2>1, <2>4
  <2> QED
    BY <2>2, <2>5 DEF NumberOf, OpenAlarm
<1>7. ASSUME NEW q \in Points \ S
      PROVE  Keeps(q)
  <2>1. states'[q] = Reloaded(new, q)
    BY <1>2
  <2>2. CASE q \in Orphans(new)
    <3>1. ~OpenAlarm(q)
      BY <1>1, <2>2 DEF Orphans
    <3>2. Reloaded(new, q) = NoState
      BY <2>2 DEF Reloaded, Orphans, Changed
    <3> QED
      BY <2>1, <3>1, <3>2 DEF Keeps, NumberOf, StandingOf, OpenAlarm
  <2>3. CASE q \notin Orphans(new) /\ q \in Changed(new) /\ states[q] # NoState
    <3>1. states'[q] = StartedOver(states[q])
      BY <2>1, <2>3 DEF Reloaded
    <3>2. /\ now \in Nat /\ seq \in Nat
          /\ states[q] \in PointState /\ StateFits(states[q], now, seq)
      BY <2>3 DEF EngineIInv
    <3>3. PICK st : st = StartedOver(states[q])
      OBVIOUS
    <3>4. st \in PointState /\ st.activeId = states[q].activeId /\ st.status = states[q].status
      BY <3>2, <3>3, PointRecords
    <3>5. states'[q] = st /\ st # NoState
      BY <3>1, <3>3, <3>4, NoStateAssumption
    <3> QED
      BY <2>3, <3>4, <3>5 DEF Keeps, NumberOf, StandingOf, OpenAlarm, IsOpen
  <2>4. CASE q \notin Orphans(new) /\ ~(q \in Changed(new) /\ states[q] # NoState)
    <3>1. states'[q] = states[q]
      BY <2>1, <2>4 DEF Reloaded
    <3> QED
      BY <3>1 DEF Keeps, NumberOf, StandingOf, OpenAlarm, IsOpen
  <2> QED
    BY <2>2, <2>3, <2>4
<1> QED
  BY <1>1, <1>2, <1>3, <1>5, <1>6, <1>7 DEF Closes

LEMMA AcknowledgeEffect ==
    ASSUME EngineIInv, NEW id, AcknowledgeAlarm(id) PROVE Confirms(id)
<1>1. /\ seq' = seq /\ run' = run /\ states \in [Points -> PointState \cup {NoState}]
      /\ emitted' = [NoSignals EXCEPT !.acknowledged = {id}]
  BY DEF EngineIInv, AcknowledgeAlarm, history
<1>2. ASSUME NEW q \in Points
      PROVE  /\ NumberOf(q)' = NumberOf(q)
             /\ StandingOf(q)' = IF NumberOf(q) = id /\ StandingOf(q) = "Active"
                                 THEN "Confirmed" ELSE StandingOf(q)
  <2>1. states'[q] = IF states[q] # NoState /\ states[q].activeId = id /\ states[q].status = "Active"
                     THEN Acknowledged(states[q]) ELSE states[q]
    BY DEF AcknowledgeAlarm, Acknowledged
  <2>2. CASE states[q] # NoState /\ states[q].activeId = id /\ states[q].status = "Active"
    <3>1. PICK st : st = Acknowledged(states[q])
      OBVIOUS
    <3>2. now \in Nat /\ seq \in Nat /\ states[q] \in PointState /\ StateFits(states[q], now, seq)
      BY <2>2 DEF EngineIInv
    <3>3. st \in PointState /\ st.activeId = states[q].activeId /\ st.status = "Confirmed"
      BY <2>2, <3>1, <3>2, PointRecords
    <3>4. states'[q] = st /\ st # NoState
      BY <2>1, <2>2, <3>1, <3>3, NoStateAssumption
    <3> QED
      BY <2>2, <3>3, <3>4 DEF NumberOf, StandingOf, OpenAlarm, IsOpen
  <2>3. CASE ~(states[q] # NoState /\ states[q].activeId = id /\ states[q].status = "Active")
    <3>1. states'[q] = states[q]
      BY <2>1, <2>3
    <3>2. NumberOf(q)' = NumberOf(q) /\ StandingOf(q)' = StandingOf(q)
      BY <3>1 DEF NumberOf, StandingOf, OpenAlarm, IsOpen
    <3>3. ~(NumberOf(q) = id /\ StandingOf(q) = "Active")
      BY <2>3 DEF NumberOf, StandingOf, OpenAlarm
    <3> QED
      BY <3>2, <3>3
  <2> QED
    BY <2>2, <2>3
<1> QED
  BY <1>1, <1>2 DEF Confirms

(* No alarm is open in a program that has just started.                    *)
FreshAlarms == seq' = 0 /\ \A p \in Points : NumberOf(p)' = 0

LEMMA FreshEffect ==
    ASSUME NEW new \in RuleSets, Fresh(new) PROVE FreshAlarms
  BY DEF Fresh, FreshAlarms, NumberOf, OpenAlarm

(* Every step, and what the store does in it.                              *)
LEMMA StepEffect ==
    ASSUME EngineIInv, [Next]_vars
    PROVE  \/ KeepsAll /\ emitted' = NoSignals /\ Stored
           \/ KeepsAll /\ UNCHANGED storeVars
           \/ \E p \in Points : Raises(p) /\ Stored
           \/ \E S \in SUBSET Points : Closes(S) /\ Stored
           \/ \E id : Confirms(id) /\ Stored
           \/ FreshAlarms /\ \E new \in RuleSets : StoreRestart(new)
<1>1. ASSUME UNCHANGED <<states, seq, run>> PROVE KeepsAll
  BY <1>1 DEF KeepsAll, Keeps, NumberOf, StandingOf, OpenAlarm, IsOpen
<1>2. ASSUME NEW p \in Points, Evaluate(p), Stored
      PROVE  \/ KeepsAll /\ emitted' = NoSignals /\ Stored
             \/ \E q \in Points : Raises(q) /\ Stored
             \/ \E S \in SUBSET Points : Closes(S) /\ Stored
  <2>1. {p} \in SUBSET Points
    OBVIOUS
  <2> QED
    BY <1>2, <2>1, SampleEffect
<1>3. ASSUME NEW new \in RuleSets, DoReloadRules(new), Stored
      PROVE  \E S \in SUBSET Points : Closes(S) /\ Stored
  BY <1>3, ReloadEffect
<1>4. ASSUME NEW p \in Maintained, DoSuppressPoint(p) \/ DoUnsuppressPoint(p), Stored
      PROVE  KeepsAll /\ emitted' = NoSignals /\ Stored
  BY <1>1, <1>4 DEF DoSuppressPoint, DoUnsuppressPoint, history
<1>5. ASSUME NEW t \in Thresholds, DoSetStormConfig(t), Stored
      PROVE  KeepsAll /\ emitted' = NoSignals /\ Stored
  BY <1>1, <1>5 DEF DoSetStormConfig, history
<1>6. ASSUME Acknowledge PROVE \E id : Confirms(id) /\ Stored
  BY <1>6, AcknowledgeEffect DEF Acknowledge
<1>7. ASSUME Tick, Stored PROVE KeepsAll /\ emitted' = NoSignals /\ Stored
  BY <1>1, <1>7 DEF Tick, history
<1>8. ASSUME NextMonth \/ UNCHANGED vars PROVE KeepsAll /\ UNCHANGED storeVars
  BY <1>1, <1>8 DEF NextMonth, vars, engineVars
<1>9. ASSUME NEW new \in RuleSets, StoreRestart(new) PROVE FreshAlarms
  BY <1>9, FreshEffect DEF StoreRestart, Restart
<1> QED
  BY <1>2, <1>3, <1>4, <1>5, <1>6, <1>7, <1>8, <1>9 DEF Next

-----------------------------------------------------------------------------
(* The engine implements its ledger.                                       *)

Open == [p \in Points |-> IF OpenAlarm(p) THEN states[p].activeId ELSE 0]

LEMMA OpenNumbers ==
    /\ Open = [p \in Points |-> NumberOf(p)]
    /\ Open' = [p \in Points |-> NumberOf(p)']
  BY DEF Open, NumberOf

LEMMA LedgerRaise ==
    ASSUME NEW p \in Points, Raises(p) PROVE Ledger!Raise(p)
<1>1. Open[p] = 0 /\ seq' = seq + 1
  BY OpenNumbers DEF Raises
<1>2. Open' = [Open EXCEPT ![p] = seq + 1]
  BY OpenNumbers DEF Raises, Keeps
<1> QED
  BY <1>1, <1>2 DEF Ledger!Raise, Open

LEMMA LedgerClose ==
    ASSUME NEW S \in SUBSET Points, Closes(S) PROVE Ledger!Close(S)
<1>1. \A p \in S : Open[p] # 0
  BY OpenNumbers DEF Closes
<1>2. Open' = [p \in Points |-> IF p \in S THEN 0 ELSE Open[p]]
  BY OpenNumbers DEF Closes, Keeps
<1>3. seq' = seq
  BY DEF Closes
<1> QED
  BY <1>1, <1>2, <1>3 DEF Ledger!Close, Open

(* The listeners of the engine see what its ledger allows: a point has at  *)
(* most one open alarm, an alarm gets a number no alarm of the run had     *)
(* before, and only what is open is closed (raiseAlarm, recoverAlarm,      *)
(* doReloadRules, acknowledgeAlarm, the destructor and the next start).    *)
THEOREM EngineKeepsLedger == Spec => KeepsLedger
<1>1. Init => Ledger!Init
  BY DEF Init, EngineInit, Ledger!Init, OpenAlarm
<1>2. EngineIInv /\ [Next]_vars => [Ledger!Next]_<<Open, seq>>
  <2> SUFFICES ASSUME EngineIInv, [Next]_vars
               PROVE  Ledger!Next \/ (Open' = Open /\ seq' = seq)
    OBVIOUS
  <2>1. ASSUME KeepsAll PROVE Open' = Open /\ seq' = seq
    BY <2>1, OpenNumbers DEF KeepsAll, Keeps
  <2>2. ASSUME NEW p \in Points, Raises(p) PROVE Ledger!Next
    BY <2>2, LedgerRaise DEF Ledger!Next
  <2>3. ASSUME NEW S \in SUBSET Points, Closes(S) PROVE Ledger!Next
    BY <2>3, LedgerClose DEF Ledger!Next
  <2>4. ASSUME NEW id, Confirms(id) PROVE Open' = Open /\ seq' = seq
    BY <2>4, OpenNumbers DEF Confirms
  <2>5. ASSUME FreshAlarms PROVE Ledger!Next
    <3>1. Open' = [p \in Points |-> 0] /\ seq' = 0
      BY <2>5, OpenNumbers DEF FreshAlarms
    <3> QED
      BY <3>1 DEF Ledger!Next, Ledger!Restart, Open
  <2> QED
    BY <2>1, <2>2, <2>3, <2>4, <2>5, StepEffect
<1>3. EngineIInv /\ [Next]_vars => [Ledger!Next]_<<[p \in Points |-> IF OpenAlarm(p) THEN states[p].activeId ELSE 0], seq>>
  BY <1>2 DEF Open
<1> QED
  BY <1>1, <1>3, EngineInvariance, PTL DEF Spec, KeepsLedger, Ledger!Spec

-----------------------------------------------------------------------------
(* The records follow the engine.                                          *)

(* The row of an open alarm has its status and is found by its number; a   *)
(* row of this run whose alarm is not open is Recovered.                   *)
RowFits(k) ==
    /\ k[2] \in Nat /\ k[2] # 0 /\ k[2] <= seq
    /\ \A p \in Points : NumberOf(p) = k[2] =>
          db[k].status = StandingOf(p) /\ k[2] \in DOMAIN triggerOf /\ triggerOf[k[2]] = k[1]
    /\ (\A p \in Points : NumberOf(p) # k[2]) => db[k].status = "Recovered"

(* Rows of earlier runs have numbers that this run gives again, so they    *)
(* are told apart by their run.                                            *)
RecordIInv ==
    /\ run \in Nat
    /\ \A k \in DOMAIN db : k = <<k[1], k[2]>> /\ db[k] \in Row /\ db[k].run <= run
    /\ \A k \in DOMAIN db : db[k].run = run => RowFits(k)

LEMMA SignalRecords ==
    /\ NoSignals.triggered = {} /\ NoSignals.recovered = {} /\ NoSignals.acknowledged = {}
    /\ \A e : LET m == Announced(e) IN
          m.triggered = {e} /\ m.recovered = {} /\ m.acknowledged = {}
    /\ \A R : LET m == [NoSignals EXCEPT !.recovered = R] IN
          m.triggered = {} /\ m.recovered = R /\ m.acknowledged = {}
    /\ \A R : LET m == [NoSignals EXCEPT !.acknowledged = R] IN
          m.triggered = {} /\ m.recovered = {} /\ m.acknowledged = R
  BY DEF NoSignals, Announced

LEMMA StoredSignals ==
    ASSUME Stored
    PROVE  /\ UNCHANGED month
           /\ emitted' = NoSignals => UNCHANGED storeVars
           /\ \A e : emitted' = Announced(e) => OnAlarmTriggered(e)
           /\ \A R : emitted' = [NoSignals EXCEPT !.recovered = R] =>
                 OnAlarmRecovered(R) \/ (R = {} /\ UNCHANGED storeVars)
           /\ \A id : emitted' = [NoSignals EXCEPT !.acknowledged = {id}] => OnAlarmAcknowledged(id)
<1>1. emitted' = NoSignals => UNCHANGED storeVars
  BY SignalRecords DEF Stored
<1>2. ASSUME NEW e, emitted' = Announced(e) PROVE OnAlarmTriggered(e)
  <2>1. emitted'.triggered = {e} /\ emitted'.recovered = {} /\ emitted'.acknowledged = {}
    BY <1>2, SignalRecords
  <2>2. emitted' # NoSignals
    BY <2>1, SignalRecords
  <2> QED
    BY <2>1, <2>2 DEF Stored
<1>3. ASSUME NEW R, emitted' = [NoSignals EXCEPT !.recovered = R]
      PROVE  OnAlarmRecovered(R) \/ (R = {} /\ UNCHANGED storeVars)
  <2>1. emitted'.triggered = {} /\ emitted'.recovered = R /\ emitted'.acknowledged = {}
    BY <1>3, SignalRecords
  <2>2. emitted' = NoSignals => R = {}
    BY <2>1, SignalRecords
  <2> QED
    BY <2>1, <2>2 DEF Stored
<1>4. ASSUME NEW id, emitted' = [NoSignals EXCEPT !.acknowledged = {id}]
      PROVE  OnAlarmAcknowledged(id)
  <2>1. emitted'.triggered = {} /\ emitted'.recovered = {} /\ emitted'.acknowledged = {id}
    BY <1>4, SignalRecords
  <2>2. emitted' # NoSignals
    BY <2>1, SignalRecords
  <2> QED
    BY <2>1, <2>2 DEF Stored
<1> QED
  BY <1>1, <1>2, <1>3, <1>4 DEF Stored

(* The row of an alarm is where the store looks for it.                    *)
LEMMA RoutedRows ==
    ASSUME NEW k, k = <<k[1], k[2]>>, NEW id
    PROVE  k \in Routed(id) <=> id \in DOMAIN triggerOf /\ k[2] = id /\ k[1] = triggerOf[id]
<1>1. ASSUME NEW a, NEW b, k = <<a, b>> PROVE k[1] = a /\ k[2] = b
  BY <1>1
<1> QED
  BY <1>1 DEF Routed

LEMMA RowStatus ==
    ASSUME NEW r \in Row
    PROVE  /\ [r EXCEPT !.status = "Recovered"] \in Row
           /\ [r EXCEPT !.status = "Recovered"].status = "Recovered"
           /\ [r EXCEPT !.status = "Recovered"].run = r.run
           /\ [r EXCEPT !.status = "Confirmed"] \in Row
           /\ [r EXCEPT !.status = "Confirmed"].status = "Confirmed"
           /\ [r EXCEPT !.status = "Confirmed"].run = r.run
           /\ r.run \in Nat
  BY DEF Row

LEMMA QuietRecords ==
    ASSUME RecordIInv, KeepsAll, UNCHANGED storeVars PROVE RecordIInv'
<1>1. ASSUME NEW k \in DOMAIN db, RowFits(k) PROVE RowFits(k)'
  BY <1>1 DEF RowFits, KeepsAll, Keeps, storeVars
<1> QED
  BY <1>1 DEF RecordIInv, KeepsAll, storeVars

LEMMA RaisedRecords ==
    ASSUME EngineIInv, RecordIInv, NEW p \in Points, Raises(p), Stored PROVE RecordIInv'
<1>1. /\ run \in Nat /\ run' = run /\ seq \in Nat /\ seq' = seq + 1
      /\ NumberOf(p)' = seq + 1 /\ StandingOf(p)' = "Active" /\ NumberOf(p) = 0
  BY DEF EngineIInv, RecordIInv, Raises
<1>2. ASSUME NEW q \in Points \ {p}
      PROVE  NumberOf(q)' = NumberOf(q) /\ StandingOf(q)' = StandingOf(q) /\ NumberOf(q) \in Nat /\ NumberOf(q) <= seq
  BY Standing DEF Raises, Keeps
(* The rows that were there are those of other alarms. *)
<1>3. ASSUME NEW k \in DOMAIN db, db[k].run = run, k \in DOMAIN db', db'[k] = db[k],
             \A id \in DOMAIN triggerOf : id # seq + 1 =>
                id \in DOMAIN triggerOf' /\ triggerOf'[id] = triggerOf[id]
      PROVE  RowFits(k)'
  <2>1. RowFits(k)
    BY <1>3 DEF RecordIInv
  <2>2. k[2] \in Nat /\ k[2] # 0 /\ k[2] <= seq /\ k[2] # seq + 1 /\ k[2] <= seq'
    BY <1>1, <2>1 DEF RowFits
  <2>3. \A q \in Points : NumberOf(q)' = k[2] =>
           NumberOf(q) = k[2] /\ StandingOf(q)' = StandingOf(q)
    BY <1>1, <1>2, <2>2
  <2>4. (\A q \in Points : NumberOf(q)' # k[2]) => \A q \in Points : NumberOf(q) # k[2]
    BY <1>1, <1>2, <2>2
  <2> QED
    BY <1>3, <2>1, <2>2, <2>3, <2>4 DEF RowFits
<1>4. CASE emitted' = NoSignals
  <2>1. db' = db /\ triggerOf' = triggerOf
    BY <1>4, StoredSignals DEF storeVars
  <2> QED
    BY <1>1, <1>3, <2>1 DEF RecordIInv
<1>5. ASSUME NEW e, emitted' = Announced(e), e.point = p, e.id = seq + 1
      PROVE  RecordIInv'
  <2>1. OnAlarmTriggered(e)
    BY <1>5, StoredSignals
  <2>2. /\ DOMAIN triggerOf' = DOMAIN triggerOf \cup {seq + 1}
        /\ triggerOf'[seq + 1] = month
        /\ \A id \in DOMAIN triggerOf : id # seq + 1 => triggerOf'[id] = triggerOf[id]
    BY <1>5, <2>1 DEF OnAlarmTriggered, With
  <2>3. CASE <<month, seq + 1>> \in DOMAIN db
    <3>1. db' = db
      BY <1>5, <2>1, <2>3 DEF OnAlarmTriggered, InsertAlarmRecord
    <3> QED
      BY <1>1, <1>3, <2>2, <3>1 DEF RecordIInv
  <2>4. CASE <<month, seq + 1>> \notin DOMAIN db
    <3>0. PICK new : new = <<month, seq + 1>>
      OBVIOUS
    <3>1. PICK row : row = [point |-> p, run |-> run, status |-> "Active"]
      OBVIOUS
    <3>2. row \in Row /\ row.run = run /\ row.status = "Active"
      BY <1>1, <3>1 DEF Row
    <3>3. db' = With(db, new, row)
      BY <1>5, <2>1, <2>4, <3>0, <3>1 DEF OnAlarmTriggered, InsertAlarmRecord
    <3>4. new[1] = month /\ new[2] = seq + 1 /\ new = <<new[1], new[2]>>
      BY <3>0
    <3>5. /\ DOMAIN db' = DOMAIN db \cup {new} /\ db'[new] = row
          /\ \A k \in DOMAIN db : k # new => db'[k] = db[k]
      BY <3>3 DEF With
    <3>6. new \notin DOMAIN db
      BY <2>4, <3>0
    <3>7. RowFits(new)'
      <4>1. new[2] \in Nat /\ new[2] # 0 /\ new[2] <= seq'
        BY <1>1, <3>4
      <4>2. \A q \in Points : NumberOf(q)' = new[2] => q = p
        BY <1>1, <1>2, <3>4
      <4>3. NumberOf(p)' = new[2]
        BY <1>1, <3>4
      <4>4. new[2] \in DOMAIN triggerOf' /\ triggerOf'[new[2]] = new[1]
        BY <2>2, <3>4
      <4>5. db'[new].status = "Active"
        BY <3>2, <3>5
      <4>6. ASSUME NEW q \in Points, NumberOf(q)' = new[2]
            PROVE  db'[new].status = StandingOf(q)'
        <5>1. q = p
          BY <4>2, <4>6
        <5> QED
          BY <1>1, <4>5, <5>1
      <4>7. ~ \A q \in Points : NumberOf(q)' # new[2]
        BY <4>3
      <4> QED
        BY <4>1, <4>4, <4>6, <4>7 DEF RowFits
    <3>8. ASSUME NEW k \in DOMAIN db'
          PROVE  /\ k = <<k[1], k[2]>> /\ db'[k] \in Row /\ db'[k].run <= run
                 /\ db'[k].run = run => RowFits(k)'
      <4>1. CASE k = new
        <5>1. run <= run
          BY <1>1
        <5> QED
          BY <3>2, <3>4, <3>5, <3>7, <4>1, <5>1
      <4>2. CASE k # new
        <5>1. k \in DOMAIN db /\ db'[k] = db[k]
          BY <3>5, <3>8, <4>2
        <5> QED
          BY <1>3, <2>2, <5>1 DEF RecordIInv
      <4> QED
        BY <4>1, <4>2
    <3> QED
      BY <1>1, <3>8 DEF RecordIInv
  <2> QED
    BY <2>3, <2>4
<1> QED
  BY <1>4, <1>5 DEF Raises

LEMMA ClosedRecords ==
    ASSUME EngineIInv, RecordIInv, NEW S \in SUBSET Points, Closes(S), Stored PROVE RecordIInv'
<1> DEFINE ids == {NumberOf(p) : p \in S}
<1>1. run \in Nat /\ run' = run /\ seq' = seq
  BY DEF RecordIInv, Closes
<1>2. OnAlarmRecovered(ids) \/ (ids = {} /\ UNCHANGED storeVars)
  BY StoredSignals DEF Closes
<1>3. CASE ids = {} /\ UNCHANGED storeVars
  <2>1. S = {}
    BY <1>3
  <2>2. KeepsAll
    BY <1>1, <2>1 DEF Closes, KeepsAll
  <2> QED
    BY <1>3, <2>2, QuietRecords
<1>4. CASE OnAlarmRecovered(ids)
  <2>1. \A p \in S : NumberOf(p) # 0 /\ NumberOf(p) \in ids /\ NumberOf(p)' = 0
    BY DEF Closes
  <2>2. \A p \in Points \ S : NumberOf(p)' = NumberOf(p) /\ StandingOf(p)' = StandingOf(p)
    BY DEF Closes, Keeps
  <2>3. \A p \in Points \ S : NumberOf(p) # 0 => NumberOf(p) \notin ids
    BY Standing
  <2>4. \A i \in ids : \E p \in S : i = NumberOf(p)
    OBVIOUS
  <2> HIDE DEF ids
  <2>5. /\ DOMAIN triggerOf' = DOMAIN triggerOf \ ids
        /\ \A i \in DOMAIN triggerOf' : triggerOf'[i] = triggerOf[i]
    BY <1>4 DEF OnAlarmRecovered, Without
  <2>6. PICK hit : hit = UNION {Routed(id) : id \in ids}
    OBVIOUS
  <2>7. db' = [k \in DOMAIN db |-> IF k \in hit THEN [db[k] EXCEPT !.status = "Recovered"] ELSE db[k]]
    BY <1>4, <2>6 DEF OnAlarmRecovered, SetAlarmRecovered
  <2>8. ASSUME NEW k \in DOMAIN db
        PROVE  k \in hit <=> k[2] \in ids /\ k[2] \in DOMAIN triggerOf /\ k[1] = triggerOf[k[2]]
    BY <2>6, RoutedRows DEF RecordIInv
  <2>9. ASSUME NEW k \in DOMAIN db
        PROVE  /\ db'[k] \in Row /\ db'[k].run = db[k].run
               /\ k \in hit => db'[k].status = "Recovered"
               /\ k \notin hit => db'[k] = db[k]
    <3>1. db[k] \in Row
      BY DEF RecordIInv
    <3>2. db'[k] = IF k \in hit THEN [db[k] EXCEPT !.status = "Recovered"] ELSE db[k]
      BY <2>7
    <3>3. PICK r : r = [db[k] EXCEPT !.status = "Recovered"]
      OBVIOUS
    <3>4. r \in Row /\ r.run = db[k].run /\ r.status = "Recovered"
      BY <3>1, <3>3, RowStatus
    <3> QED
      BY <3>1, <3>2, <3>3, <3>4
  <2>10. ASSUME NEW k \in DOMAIN db, db[k].run = run PROVE RowFits(k)'
    <3>1. RowFits(k)
      BY <2>10 DEF RecordIInv
    <3>2. k[2] \in Nat /\ k[2] # 0 /\ k[2] <= seq'
      BY <1>1, <3>1 DEF RowFits
    <3>3. ASSUME NEW p \in Points, NumberOf(p)' = k[2]
          PROVE  db'[k].status = StandingOf(p)' /\ k[2] \in DOMAIN triggerOf' /\ triggerOf'[k[2]] = k[1]
      <4>1. p \notin S /\ NumberOf(p) = k[2] /\ StandingOf(p)' = StandingOf(p)
        BY <2>1, <2>2, <3>2, <3>3
      <4>2. k[2] \notin ids /\ k \notin hit
        BY <2>3, <2>8, <3>2, <4>1
      <4>3. db[k].status = StandingOf(p) /\ k[2] \in DOMAIN triggerOf /\ triggerOf[k[2]] = k[1]
        BY <3>1, <4>1 DEF RowFits
      <4> QED
        BY <2>5, <2>9, <4>1, <4>2, <4>3
    <3>4. ASSUME \A p \in Points : NumberOf(p)' # k[2]
          PROVE  db'[k].status = "Recovered"
      <4>1. CASE \E p \in S : NumberOf(p) = k[2]
        <5>1. k[2] \in ids /\ k[2] \in DOMAIN triggerOf /\ triggerOf[k[2]] = k[1]
          BY <2>1, <3>1, <4>1 DEF RowFits
        <5> QED
          BY <2>8, <2>9, <5>1
      <4>2. CASE \A p \in S : NumberOf(p) # k[2]
        <5>1. db[k].status = "Recovered"
          BY <2>2, <3>1, <3>4, <4>2 DEF RowFits
        <5> QED
          BY <2>9, <5>1
      <4> QED
        BY <4>1, <4>2
    <3> QED
      BY <3>2, <3>3, <3>4 DEF RowFits
  <2>11. DOMAIN db' = DOMAIN db
    BY <2>7
  <2> QED
    BY <1>1, <2>9, <2>10, <2>11 DEF RecordIInv
<1> QED
  BY <1>2, <1>3, <1>4

LEMMA ConfirmedRecords ==
    ASSUME EngineIInv, RecordIInv, NEW id, Confirms(id), Stored PROVE RecordIInv'
<1>1. run \in Nat /\ run' = run /\ seq' = seq
  BY DEF RecordIInv, Confirms
<1>2. OnAlarmAcknowledged(id)
  BY StoredSignals DEF Confirms
<1>3. triggerOf' = triggerOf
  BY <1>2 DEF OnAlarmAcknowledged
<1>4. PICK hit : hit = Routed(id)
  OBVIOUS
<1>5. db' = [k \in DOMAIN db |->
                IF k \in hit /\ db[k].status = "Active" THEN [db[k] EXCEPT !.status = "Confirmed"] ELSE db[k]]
  BY <1>2, <1>4 DEF OnAlarmAcknowledged, SetAlarmConfirmed
<1>6. ASSUME NEW k \in DOMAIN db
      PROVE  k \in hit <=> id \in DOMAIN triggerOf /\ k[2] = id /\ k[1] = triggerOf[id]
  BY <1>4, RoutedRows DEF RecordIInv
<1>7. ASSUME NEW k \in DOMAIN db
      PROVE  /\ db'[k] \in Row /\ db'[k].run = db[k].run
             /\ db'[k].status = IF k \in hit /\ db[k].status = "Active" THEN "Confirmed" ELSE db[k].status
  <2>1. db[k] \in Row
    BY DEF RecordIInv
  <2>2. db'[k] = IF k \in hit /\ db[k].status = "Active" THEN [db[k] EXCEPT !.status = "Confirmed"] ELSE db[k]
    BY <1>5
  <2>3. PICK r : r = [db[k] EXCEPT !.status = "Confirmed"]
    OBVIOUS
  <2>4. r \in Row /\ r.run = db[k].run /\ r.status = "Confirmed"
    BY <2>1, <2>3, RowStatus
  <2> QED
    BY <2>1, <2>2, <2>3, <2>4
<1>8. \A p \in Points :
         /\ NumberOf(p)' = NumberOf(p)
         /\ StandingOf(p)' = IF NumberOf(p) = id /\ StandingOf(p) = "Active"
                             THEN "Confirmed" ELSE StandingOf(p)
  BY DEF Confirms
<1>9. ASSUME NEW k \in DOMAIN db, db[k].run = run PROVE RowFits(k)'
  <2>1. RowFits(k)
    BY <1>9 DEF RecordIInv
  <2>2. k[2] \in Nat /\ k[2] # 0 /\ k[2] <= seq'
    BY <1>1, <2>1 DEF RowFits
  <2>3. ASSUME NEW p \in Points, NumberOf(p)' = k[2]
        PROVE  db'[k].status = StandingOf(p)' /\ k[2] \in DOMAIN triggerOf' /\ triggerOf'[k[2]] = k[1]
    <3>1. NumberOf(p) = k[2]
      BY <1>8, <2>3
    <3>2. db[k].status = StandingOf(p) /\ k[2] \in DOMAIN triggerOf /\ triggerOf[k[2]] = k[1]
      BY <2>1, <3>1 DEF RowFits
    <3>3. k \in hit <=> k[2] = id
      BY <1>6, <3>2
    <3>4. StandingOf(p)' = IF k[2] = id /\ StandingOf(p) = "Active" THEN "Confirmed" ELSE StandingOf(p)
      BY <1>8, <3>1
    <3> QED
      BY <1>3, <1>7, <3>2, <3>3, <3>4
  <2>4. ASSUME \A p \in Points : NumberOf(p)' # k[2]
        PROVE  db'[k].status = "Recovered"
    <3>1. db[k].status = "Recovered"
      BY <1>8, <2>1, <2>4 DEF RowFits
    <3> QED
      BY <1>7, <3>1
  <2> QED
    BY <2>2, <2>3, <2>4 DEF RowFits
<1>10. DOMAIN db' = DOMAIN db
  BY <1>5
<1> QED
  BY <1>1, <1>7, <1>9, <1>10 DEF RecordIInv

LEMMA RestartRecords ==
    ASSUME RecordIInv, NEW new \in RuleSets, StoreRestart(new) PROVE RecordIInv'
<1>1. run \in Nat /\ run' = run + 1 /\ db' = db
  BY DEF RecordIInv, StoreRestart, Restart
<1>2. ASSUME NEW k \in DOMAIN db
      PROVE  k = <<k[1], k[2]>> /\ db[k] \in Row /\ db[k].run <= run' /\ db[k].run # run'
  <2>1. k = <<k[1], k[2]>> /\ db[k] \in Row /\ db[k].run <= run
    BY DEF RecordIInv
  <2>2. db[k].run \in Nat
    BY <2>1, RowStatus
  <2> QED
    BY <1>1, <2>1, <2>2
<1> QED
  BY <1>1, <1>2 DEF RecordIInv

(* The row of an alarm raised in this run says what the engine says:       *)
(* Active or Confirmed while it is open, Recovered from then on, in        *)
(* whatever month it is recovered and however often the numbers were given *)
(* before (AlarmRecordStore).                                              *)
THEOREM RecordsFollow == Spec => []RecordsFollowEngine
<1>1. Init => RecordIInv
  BY DEF Init, EngineInit, RecordIInv
<1>2. EngineIInv /\ RecordIInv /\ [Next]_vars => RecordIInv'
  <2> SUFFICES ASSUME EngineIInv, RecordIInv, [Next]_vars PROVE RecordIInv'
    OBVIOUS
  <2>1. ASSUME KeepsAll, emitted' = NoSignals, Stored PROVE RecordIInv'
    BY <2>1, StoredSignals, QuietRecords
  <2> QED
    BY <2>1, StepEffect, QuietRecords, RaisedRecords, ClosedRecords, ConfirmedRecords, RestartRecords
<1>3. EngineIInv /\ RecordIInv => RecordsFollowEngine
  <2> SUFFICES ASSUME EngineIInv, RecordIInv, NEW k \in DOMAIN db, db[k].run = run
               PROVE  db[k].status =
                         IF \E p \in Points : OpenAlarm(p) /\ states[p].activeId = k[2]
                         THEN (CHOOSE st \in {states[p] : p \in Points} :
                                     st # NoState /\ st.activeId = k[2]).status
                         ELSE "Recovered"
    BY DEF RecordsFollowEngine
  <2>1. RowFits(k)
    BY DEF RecordIInv
  <2>2. k[2] # 0
    BY <2>1 DEF RowFits
  <2>3. CASE \E p \in Points : OpenAlarm(p) /\ states[p].activeId = k[2]
    <3>1. PICK p \in Points : OpenAlarm(p) /\ states[p].activeId = k[2]
      BY <2>3
    <3>2. db[k].status = states[p].status
      BY <2>1, <3>1 DEF RowFits, NumberOf, StandingOf
    <3>3. \A q \in Points : states[q] # NoState /\ states[q].activeId = k[2] => q = p
      BY <2>2, <3>1 DEF EngineIInv, NumbersDiffer, OpenAlarm
    <3>4. states[p] \in {states[q] : q \in Points} /\ states[p] # NoState /\ states[p].activeId = k[2]
      BY <3>1 DEF OpenAlarm
    <3>5. \A st \in {states[q] : q \in Points} :
             st # NoState /\ st.activeId = k[2] => st = states[p]
      BY <3>3
    <3>6. (CHOOSE st \in {states[q] : q \in Points} : st # NoState /\ st.activeId = k[2]) = states[p]
      BY <3>4, <3>5
    <3> QED
      BY <2>3, <3>2, <3>6
  <2>4. CASE ~ \E p \in Points : OpenAlarm(p) /\ states[p].activeId = k[2]
    <3>1. \A p \in Points : NumberOf(p) # k[2]
      BY <2>2, <2>4 DEF NumberOf
    <3> QED
      BY <2>1, <2>4, <3>1 DEF RowFits
  <2> QED
    BY <2>3, <2>4
<1> QED
  BY <1>1, <1>2, <1>3, EngineInvariance, PTL DEF Spec
=============================================================================
