---------------------------- MODULE FaultInjector ----------------------------
(***************************************************************************)
(* sim/FaultInjector of the device simulator: fault sessions, the override *)
(* table rebuilt from them, and the two questions asked of it, by the      *)
(* point generator (resolveOverride) and by the transports (linkEffect).   *)
(* Each call holds m_sessionsMtx and is one action.                        *)
(*                                                                         *)
(* Values are integers in the unit of kRecoverEpsilon or coarser, so that  *)
(* a value has arrived when it equals its target.  The clock is kept as    *)
(* the age of the state a session is in, up to MaxAge; one unit is the     *)
(* interval of a tick and a ramp rate is in values per unit.               *)
(***************************************************************************)
EXTENDS Integers, Sequences, FiniteSets, FiniteSetsExt

CONSTANTS
    Specs,        \* FaultOverride records that may be injected
    MaxSessions,  \* bound: sessions of one run of the engine
    MaxAge        \* bound: ages are counted up to here

FaultTypes == {"OverTemp", "CellVoltage", "CommLoss", "CrcError", "Timeout"}
FaultStates == {"IDLE", "ACTIVE", "RECOVERING", "ABORTED"}

ASSUME SpecAssumption ==
    \A s \in Specs : /\ s.type \in FaultTypes
                     /\ s.scope \in {"POINT", "SLAVE", "ALL"}
                     /\ s.slave \in Nat
                     /\ s.reg \in Nat /\ s.ramp \in Nat /\ s.delay \in Nat
                     /\ s.duration \in 0 .. MaxAge
                     /\ s.target \in Int
ASSUME AgeAssumption == MaxAge \in Nat \ {0} /\ MaxSessions \in Nat

VARIABLES
    sessions,   \* m_sessions; the handle of a session is its place
    table       \* *m_tablePtr

injectorVars == <<sessions, table>>

Handles == 1 .. Len(sessions)
RecoverValue == 0       \* FaultOverride::recoverValue, which no caller sets

-----------------------------------------------------------------------------
(* OverrideTable *)

AllKey == <<>>
KeyOf(spec) == IF spec.scope = "POINT" THEN <<spec.slave, spec.reg>> ELSE AllKey

Live(s) == s.state \in {"ACTIVE", "RECOVERING"}

(* rebuildTableNoLock: a later session replaces the entry of an earlier    *)
(* one with the same key.                                                  *)
Rebuilt(ss) ==
    LET live == {i \in 1 .. Len(ss) : Live(ss[i])}
        last(k) == Max({i \in live : KeyOf(ss[i].spec) = k})
    IN  [k \in {KeyOf(ss[i].spec) : i \in live} |->
            [value |-> ss[last(k)].value, type |-> ss[last(k)].spec.type]]

InjectorInit == sessions = <<>> /\ table = Rebuilt(<<>>)

-----------------------------------------------------------------------------
(* FaultSession *)

ToActive(spec) == [spec |-> spec, state |-> "ACTIVE", age |-> 0, value |-> spec.target]

(* toRecovering takes the target of the specification, whatever recover    *)
(* was called with.                                                        *)
ToRecovering(s) == [s EXCEPT !.state = "RECOVERING", !.age = 0]
ToAborted(s) == [s EXCEPT !.state = "ABORTED", !.age = 0, !.value = 0]
ToIdle(s) == [s EXCEPT !.state = "IDLE", !.age = 0, !.value = 0]

(* The value after a step of the linear return. *)
Ramped(s) ==
    LET delta == s.spec.ramp * s.age
    IN  CASE s.value > RecoverValue -> Max({RecoverValue, s.value - delta})
          [] s.value < RecoverValue -> Min({RecoverValue, s.value + delta})
          [] OTHER -> s.value

(* FaultSession::tick *)
Ticked(s) ==
    CASE s.state = "ACTIVE" /\ s.spec.duration > 0 /\ s.age >= s.spec.duration -> ToRecovering(s)
      [] s.state = "RECOVERING" /\ s.age > 0 ->
            LET r == [s EXCEPT !.value = Ramped(s)]
            IN  IF r.value = RecoverValue THEN ToIdle(r) ELSE r
      [] OTHER -> s

Covers(s, slave, reg) ==
    /\ Live(s)
    /\ CASE s.spec.scope = "POINT" -> s.spec.slave = slave /\ s.spec.reg = reg
         [] s.spec.scope = "SLAVE" -> s.spec.slave = slave
         [] s.spec.scope = "ALL" -> TRUE

-----------------------------------------------------------------------------
(* What the readers see *)

NoEffect == [active |-> FALSE, value |-> 0, type |-> "OverTemp"]

(* resolveOverride: the entry of the table, exact or for all, with the     *)
(* value of the first session that covers the register.                    *)
ResolveOverride(slave, reg) ==
    LET k == IF <<slave, reg>> \in DOMAIN table THEN <<slave, reg>> ELSE AllKey
        covering == {h \in Handles : Covers(sessions[h], slave, reg)}
    IN  IF k \notin DOMAIN table THEN NoEffect
        ELSE [active |-> TRUE, type |-> table[k].type,
              value |-> IF covering = {} THEN table[k].value
                        ELSE sessions[Min(covering)].value]

(* linkEffect: every live session that matches the slave adds its flags;   *)
(* the last Timeout gives the delay.                                       *)
LinkEffect(slave) ==
    LET on == {h \in Handles : /\ Live(sessions[h])
                               /\ \/ sessions[h].spec.scope = "ALL"
                                  \/ sessions[h].spec.slave = slave}
        of(type) == {h \in on : sessions[h].spec.type = type}
    IN  [active  |-> on # {},
         drop    |-> of("CommLoss") # {},
         corrupt |-> of("CrcError") # {},
         delay   |-> IF of("Timeout") = {} THEN 0 ELSE sessions[Max(of("Timeout"))].spec.delay]

-----------------------------------------------------------------------------
(* Operations.  The sequences of sessions they leave are operators of      *)
(* their own, for the callers that make several of them.                   *)

SetSessions(ss) == sessions' = ss /\ table' = Rebuilt(ss)

Triggered(ss, spec) == Append(ss, ToActive(spec))

CanRecover(ss, h) == h \in 1 .. Len(ss) /\ ss[h].state = "ACTIVE"
Recovered(ss, h) == IF CanRecover(ss, h) THEN [ss EXCEPT ![h] = ToRecovering(@)] ELSE ss

Trigger(spec) == Len(sessions) < MaxSessions /\ SetSessions(Triggered(sessions, spec))

(* abort, in any state. *)
Abort(h) == h \in Handles /\ SetSessions([sessions EXCEPT ![h] = ToAborted(@)])

(* tickSessions: the table is rebuilt only when a session changes state. *)
TickSessions ==
    /\ sessions' = [h \in Handles |-> Ticked(sessions[h])]
    /\ table' = IF \E h \in Handles : sessions'[h].state # sessions[h].state
                THEN Rebuilt(sessions') ELSE table

(* Time goes by. *)
Older ==
    sessions' = [h \in Handles |-> [sessions[h] EXCEPT !.age = Min({@ + 1, MaxAge})]]

-----------------------------------------------------------------------------
(* A handle keeps meaning its session, one that is over stays over, and a  *)
(* value on its way back neither passes its target nor turns round, as     *)
(* long as the rate is not negative, which a drill file may give           *)
(* (FaultSession::tick and the guard of recover).                          *)
RecoveryNeverOvershoots ==
    \A h \in Handles :
        LET s == sessions[h]
            t == sessions'[h]
        IN  /\ h \in DOMAIN sessions'
            /\ t.spec = s.spec
            /\ ~Live(s) => ~Live(t)
            /\ s.spec.ramp >= 0 /\ s.state = "RECOVERING" /\ t.state = "RECOVERING" =>
                 \/ RecoverValue =< t.value /\ t.value =< s.value
                 \/ s.value =< t.value /\ t.value =< RecoverValue

(* The override table has an entry for exactly the live sessions, of the   *)
(* type of the latest one with that key, so that no register is overridden *)
(* by a fault that is over: every path that changes a state rebuilds it.   *)
TableFollowsSessions ==
    LET now == Rebuilt(sessions)
    IN  /\ DOMAIN table = DOMAIN now
        /\ \A k \in DOMAIN now : table[k].type = now[k].type
=============================================================================
