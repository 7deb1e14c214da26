--------------------------- MODULE PointGenerator ---------------------------
(***************************************************************************)
(* sim/point_generator: the working copy of every slave's registers, in    *)
(* which a tick writes the physics, then the faults, then the alarm word,  *)
(* before it publishes the copy.                                           *)
(*                                                                         *)
(* The physical models only drift; what a point shows without a fault is a *)
(* constant, base.  A point the model of its device does not write keeps   *)
(* whatever was put in its register last.                                  *)
(***************************************************************************)
EXTENDS FaultInjector, RegisterBank

CONSTANT Points     \* enabled points: [slave, reg, table, evolved, base, alarm, name, cell]

ASSUME PointAssumption ==
    \A p \in Points : p.slave \in Slaves /\ p.table \in Tables /\ p.reg \in Addrs(p.table)

VARIABLE work       \* m_work

(* The points of one register do not overlap. *)
PointsOf(slave) == {p \in Points : p.slave = slave}

GeneratorInit == work = [s \in Slaves |-> Allocated]

(* clamp of the raw value to what a register holds. *)
ToRaw(value) == IF value < 0 THEN 0 ELSE value

(* evolveBms, evolvePcs, evolveMeter and evolveAux *)
Evolved(set, slave) ==
    [t \in Tables |-> [a \in Addrs(t) |->
        IF \E p \in PointsOf(slave) : p.evolved /\ p.table = t /\ p.reg = a
        THEN (CHOOSE p \in PointsOf(slave) : p.evolved /\ p.table = t /\ p.reg = a).base
        ELSE set[t][a]]]

(* The points of a slave whose registers a fault overrides in this tick. *)
Overridden(slave) ==
    {p \in PointsOf(slave) :
        /\ p.table \in {"holding", "input"}
        /\ ResolveOverride(slave, p.reg).active
        /\ ResolveOverride(slave, p.reg).type # "CommLoss"}

(* Mutant: input registers keep what they had. *)
WithFaultsHolding(set, slave) ==
    [t \in Tables |-> [a \in Addrs(t) |->
        IF t = "holding" /\ \E p \in Overridden(slave) : p.table = t /\ p.reg = a
        THEN ToRaw(ResolveOverride(slave, a).value) ELSE set[t][a]]]

WithFaults(set, slave) ==
    [t \in Tables |-> [a \in Addrs(t) |->
        IF \E p \in Overridden(slave) : p.table = t /\ p.reg = a
        THEN ToRaw(ResolveOverride(slave, a).value) ELSE set[t][a]]]

(* Mutant: the bits of earlier ticks are kept. *)
AlarmBitsSticky(slave) ==
    LET effects == {ResolveOverride(slave, p.reg) : p \in Overridden(slave)}
        old == {p \in PointsOf(slave) : p.alarm /\ work[slave][p.table][p.reg] # 0}
    IN  (IF old # {} \/ \E e \in effects : e.type = "OverTemp" THEN 1 ELSE 0)
        + (IF \E e \in effects : e.type = "CellVoltage" /\ e.value > 0 THEN 2 ELSE 0)
        + (IF \E e \in effects : e.type = "CellVoltage" /\ e.value =< 0 THEN 4 ELSE 0)

(* alarmWord: cleared, then a bit for each kind of active fault. *)
AlarmBits(slave) ==
    LET effects == {ResolveOverride(slave, p.reg) : p \in Overridden(slave)}
    IN  (IF \E e \in effects : e.type = "OverTemp" THEN 1 ELSE 0)
        + (IF \E e \in effects : e.type = "CellVoltage" /\ e.value > 0 THEN 2 ELSE 0)
        + (IF \E e \in effects : e.type = "CellVoltage" /\ e.value =< 0 THEN 4 ELSE 0)

WithAlarmWord(set, slave) ==
    [t \in Tables |-> [a \in Addrs(t) |->
        IF t = "holding" /\ \E p \in PointsOf(slave) : p.alarm /\ p.reg = a
        THEN AlarmBits(slave) ELSE set[t][a]]]

(* generateTick for one slave, up to the publish.  The sessions are looked *)
(* at once; resolveOverride takes the injector's lock for each point, so a *)
(* fault that begins in between may show at some points a tick earlier.    *)
GenerateSlave(slave) ==
    LET next == WithAlarmWord(WithFaults(Evolved(work[slave], slave), slave), slave)
    IN  /\ work' = [work EXCEPT ![slave] = next]
        /\ Publish(slave, next)
        /\ UNCHANGED <<sessions, table, call>>
=============================================================================
