--------------------------- MODULE ScenarioScript ---------------------------
(***************************************************************************)
(* sim/scenario_script: a drill file is loaded into steps in the order of  *)
(* their times, driven by the tick of the engine, and reported on.         *)
(*                                                                         *)
(* A file is readable or not and has steps [t, action, fault, scope,       *)
(* slave, name, count, target, ramp, duration]; slave 0 is ALL and -1 is   *)
(* not a slave, name "" is no register.  The effects of the due steps are  *)
(* folded over a record of what they change: the sessions of the injector, *)
(* the handles kept for RECOVER and whether something failed.              *)
(***************************************************************************)
EXTENDS PointGenerator, Ordering, SequencesExt

CONSTANTS
    DrillFiles,   \* drill files there are to load
    NoScript

VARIABLE script   \* m_scenario: NoScript or what load and drive leave

Steps == UNION {Range(f.steps) : f \in DrillFiles}

(* What the JSON parser makes of a file.  Numbers that are not whole are   *)
(* counted in the unit of the values.                                      *)
ASSUME DrillFilesAssumption ==
    \A f \in DrillFiles :
        /\ f.steps \in Seq(Range(f.steps))
        /\ \A s \in Range(f.steps) : /\ s.t \in Int /\ s.slave \in Int /\ s.count \in Int
                                    /\ s.target \in Int /\ s.ramp \in Int

(* handleKey *)
HandleKey(step) == <<step.fault, step.scope, step.slave, step.name>>

NoHandles == [k \in {HandleKey(s) : s \in Steps} |-> <<>>]

(* Steps with an action that is neither are dropped and count as failures. *)
KnownAction(step) == step.action \in {"INJECT", "RECOVER"}

(* load: the script, or NoScript when it returns false.  The sessions there *)
(* are at the time are remembered as history.                              *)
Loaded(file) ==
    LET kept == {i \in DOMAIN file.steps : KnownAction(file.steps[i])}
        before(i, j) == \/ file.steps[i].t < file.steps[j].t
                        \/ file.steps[i].t = file.steps[j].t /\ i < j
        order == InOrder(kept, before)
        steps == [n \in DOMAIN order |-> file.steps[order[n]]]
        bad == kept # DOMAIN file.steps
    IN  IF ~file.readable \/ (steps = <<>> /\ bad) THEN NoScript
        ELSE [steps |-> steps, fired |-> {}, handles |-> NoHandles, fail |-> bad,
              base |-> Len(sessions)]

AllFired(sc) == sc.fired = DOMAIN sc.steps

-----------------------------------------------------------------------------
(* findPointBySuffix: the register, or -1. *)
FindPoint(slave, name, cell) ==
    LET found == {p \in PointsOf(slave) : p.name = name /\ p.cell = cell}
    IN  IF found = {} THEN -1 ELSE (CHOOSE p \in found : TRUE).reg

(* The places a step injects at, in the order of the loops: all slaves or  *)
(* one; of each a whole link, one register, or a run of cells.             *)
LinkStep(step) == step.fault = "CommLoss" \/ step.scope \in {"pcs", "link"}
CellStep(step) == step.scope = "cell" /\ step.count > 1

Earlier(i, j) == i < j
SlavesOf(step) == IF step.slave = 0 THEN InOrder(Slaves, Earlier) ELSE <<step.slave>>

PlacesOfSlave(step) == IF CellStep(step) /\ ~LinkStep(step) THEN step.count ELSE 1

PlaceAt(step, slave, cell) ==
    IF LinkStep(step) THEN [slave |-> slave, reg |-> 0, scope |-> "SLAVE"]
    ELSE [slave |-> slave, scope |-> "POINT",
          reg |-> FindPoint(slave, step.name, IF CellStep(step) THEN cell ELSE -1)]

Places(step) ==
    LET n == PlacesOfSlave(step)
    IN  [i \in 1 .. n * Len(SlavesOf(step)) |->
            PlaceAt(step, SlavesOf(step)[1 + ((i - 1) \div n)], (i - 1) % n)]

(* pushReq *)
SpecOf(step, place) ==
    [type |-> step.fault, scope |-> place.scope, slave |-> place.slave, reg |-> place.reg,
     target |-> step.target, ramp |-> step.ramp, duration |-> step.duration, delay |-> 0]

Push(acc, step, place) ==
    LET ss == Triggered(acc.ss, SpecOf(step, place))
    IN  [acc EXCEPT !.ss = ss, !.handles[HandleKey(step)] = Append(@, Len(ss))]

(* Mutant: a cell that does not exist is skipped too. *)
InjectAtQuietly(acc, step, place) == IF place.reg >= 0 THEN Push(acc, step, place) ELSE acc

(* A cell that does not exist is a failure, a single register a slave does *)
(* not have is skipped.                                                    *)
InjectAt(acc, step, place) ==
    IF place.reg >= 0 THEN Push(acc, step, place)
    ELSE [acc EXCEPT !.fail = @ \/ CellStep(step)]

(* A fault code nobody knows, a slave or a register missing. *)
BadStep(step) ==
    step.fault \notin FaultTypes \/ step.slave < 0 \/ (~LinkStep(step) /\ step.name = "")

FireInject(acc, step) ==
    IF BadStep(step) THEN [acc EXCEPT !.fail = TRUE]
    ELSE FoldLeft(LAMBDA a, place : InjectAt(a, step, place), acc, Places(step))

(* Mutant: only the first handle of a RECOVER for all slaves is used. *)
FireRecoverFirst(acc, step) ==
    LET hs == acc.handles[HandleKey(step)]
    IN  IF hs = <<>> THEN acc
        ELSE [acc EXCEPT !.ss = Recovered(@, hs[1]),
                         !.handles[HandleKey(step)] = IF step.slave = 0 THEN <<>> ELSE Tail(@),
                         !.fail = @ \/ (step.slave # 0 /\ ~CanRecover(acc.ss, hs[1]))]

(* fireRecover: without a handle nothing happens; for all slaves every     *)
(* handle is recovered and no result looked at; else the oldest one.       *)
FireRecover(acc, step) ==
    LET hs == acc.handles[HandleKey(step)]
    IN  IF hs = <<>> THEN acc
        ELSE IF step.slave = 0
        THEN [acc EXCEPT !.ss = FoldLeft(Recovered, @, hs), !.handles[HandleKey(step)] = <<>>]
        ELSE [acc EXCEPT !.ss = Recovered(@, hs[1]),
                         !.handles[HandleKey(step)] = Tail(@),
                         !.fail = @ \/ ~CanRecover(acc.ss, hs[1])]

Fire(acc, step) == IF step.action = "INJECT" THEN FireInject(acc, step) ELSE FireRecover(acc, step)

(* What firing the steps of a set, in order, leaves. *)
FireAll(acc, steps, due) ==
    FoldLeft(LAMBDA a, i : Fire(a, steps[i]), acc, InOrder(due, Earlier))

(* drive: every step due and not fired yet.  The injector's lock is taken  *)
(* for each of them; the panel coming in between two is left out.          *)
Drive(now) ==
    LET due == {i \in DOMAIN script.steps : i \notin script.fired /\ script.steps[i].t =< now}
        acc == FireAll([ss |-> sessions, handles |-> script.handles, fail |-> script.fail],
                       script.steps, due)
    IN  /\ script' = [script EXCEPT !.fired = @ \cup due, !.handles = acc.handles, !.fail = acc.fail]
        /\ IF acc.ss = sessions THEN UNCHANGED <<sessions, table>> ELSE SetSessions(acc.ss)

(* finishReport, as stop calls it. *)
ResultOf(sc) ==
    CASE ~AllFired(sc) -> "INCONCLUSIVE"
      [] sc.fail -> "FAIL"
      [] OTHER -> "PASS"

ScriptInit == script = NoScript
=============================================================================
