-------------------------- MODULE SimulatorEngine --------------------------
(***************************************************************************)
(* sim/SimulatorEngine with the windows of its console: the DataTick       *)
(* thread goes through scenario, sessions and slaves in turn, while the    *)
(* console injects and recovers faults, loads drills and stops or starts   *)
(* the engine, and masters' requests are served from the register bank.    *)
(***************************************************************************)
EXTENDS ScenarioScript

CONSTANTS
    MaxAtLoad    \* bound: sessions there may be when a drill is loaded

VARIABLES
    engine,    \* "off", "on", or "stopping" while stop waits for the thread
    phase,     \* where the DataTick thread is
    turn,      \* the slave generateTick is at
    tickCount, \* m_tickCount, up to the time of the last step of a drill
    driving,   \* m_scenarioRunning
    panel,     \* FaultPanel::m_handles
    mine       \* history: handles the panel was given in this run

vars == <<sessions, table, bank, call, work, script,
          engine, phase, turn, tickCount, driving, panel, mine>>

LastTime == Max({0} \cup {s.t : s \in Steps})
SlaveSeq == InOrder(Slaves, Earlier)
Phases == {"top", "sessions", "generate", "slaves", "sleep"}

Init ==
    /\ InjectorInit /\ BankInit /\ GeneratorInit /\ ScriptInit
    /\ engine = "off" /\ phase = "top" /\ turn = 1 /\ tickCount = 0 /\ driving = FALSE
    /\ panel = {} /\ mine = {}

-----------------------------------------------------------------------------
(* dataTickLoop *)

(* The scenario, which stops being driven once every step has fired. *)
TickScenario ==
    /\ phase = "top"
    /\ engine = "on"
    /\ phase' = "sessions"
    /\ IF script # NoScript /\ driving
       THEN Drive(tickCount) /\ driving' = ~AllFired(script')
       ELSE UNCHANGED <<script, sessions, table, driving>>
    /\ UNCHANGED <<bank, call, work, engine, turn, tickCount, panel, mine>>

TickFaults ==
    /\ phase = "sessions"
    /\ phase' = "generate"
    /\ TickSessions
    /\ UNCHANGED <<bank, call, work, script, engine, turn, tickCount, driving, panel, mine>>

(* generateTick moves the sessions on once more, ... *)
GenerateBegins ==
    /\ phase = "generate"
    /\ phase' = "slaves" /\ turn' = 1
    /\ TickSessions
    /\ UNCHANGED <<bank, call, work, script, engine, tickCount, driving, panel, mine>>

(* ... then goes through the slaves. *)
Generate ==
    /\ phase = "slaves"
    /\ GenerateSlave(SlaveSeq[turn])
    /\ IF turn = Len(SlaveSeq) THEN phase' = "sleep" /\ turn' = 1
                               ELSE turn' = turn + 1 /\ UNCHANGED phase
    /\ UNCHANGED <<script, engine, tickCount, driving, panel, mine>>

Sleep ==
    /\ phase = "sleep"
    /\ phase' = "top"
    /\ tickCount' = Min({tickCount + 1, LastTime})
    /\ Older
    /\ UNCHANGED <<turn, table, bank, call, work, script, engine, driving, panel, mine>>

Tick == TickScenario \/ TickFaults \/ GenerateBegins \/ Generate \/ Sleep

-----------------------------------------------------------------------------
(* start, stop and the commands of the console *)

StartEngine ==
    /\ engine = "off"
    /\ engine' = "on" /\ phase' = "top" /\ tickCount' = 0
    /\ UNCHANGED <<turn, sessions, table, bank, call, work, script, driving, panel, mine>>

(* loadScenario, by start for the configured drill or from ScenarioRunner: *)
(* a file that does not load leaves the engine as it is.                   *)
LoadScenario(file) ==
    /\ engine = "on"
    /\ Len(sessions) =< MaxAtLoad
    /\ Loaded(file) # NoScript
    /\ script' = Loaded(file)
    /\ driving' = TRUE
    /\ UNCHANGED <<turn, sessions, table, bank, call, work, engine, phase, tickCount, panel, mine>>

(* onInjectClicked and onPeriodicTick *)
InjectFault(spec) ==
    /\ engine = "on"
    /\ Trigger(spec)
    /\ panel' = panel \cup {Len(sessions) + 1}
    /\ mine' = mine \cup {Len(sessions) + 1}
    /\ UNCHANGED <<bank, call, work, script, engine, phase, turn, tickCount, driving>>

(* onRecoverAllClicked: every handle the panel ever got and did not        *)
(* recover, those of earlier runs of the engine among them.                *)
RecoverAll ==
    /\ engine = "on"
    /\ panel # {}
    /\ SetSessions([h \in Handles |-> IF h \in panel /\ CanRecover(sessions, h)
                                      THEN ToRecovering(sessions[h]) ELSE sessions[h]])
    /\ panel' = {}
    /\ UNCHANGED <<bank, call, work, script, engine, phase, turn, tickCount, driving, mine>>

(* abortFault *)
AbortFault(h) ==
    /\ engine = "on"
    /\ Abort(h)
    /\ UNCHANGED <<bank, call, work, script, engine, phase, turn, tickCount, driving, panel, mine>>

(* stop tells the thread to end, waits for it to come to the top of its    *)
(* loop, reports ResultOf the scenario, and, once no request is in the handler,  *)
(* lets go of everything.  The panel keeps its handles.                    *)
StopEngine ==
    /\ engine = "on"
    /\ engine' = "stopping"
    /\ UNCHANGED <<sessions, table, bank, call, work, script, phase, turn, tickCount, driving,
                   panel, mine>>

EngineStopped ==
    /\ engine = "stopping" /\ phase = "top" /\ call = NoCall
    /\ engine' = "off"
    /\ script' = NoScript
    /\ sessions' = <<>> /\ table' = Rebuilt(<<>>)
    /\ bank' = [s \in Slaves |-> Allocated]
    /\ work' = [s \in Slaves |-> Allocated]
    /\ mine' = {}
    /\ UNCHANGED <<call, phase, turn, tickCount, driving, panel>>

-----------------------------------------------------------------------------
(* A master's request, from the snapshot to the answer. *)
RequestBegins(req) ==
    /\ engine # "off"
    /\ CallBegins(req)
    /\ UNCHANGED <<sessions, table, work, script, engine, phase, turn, tickCount, driving,
                   panel, mine>>

RequestEnds ==
    /\ CallEnds
    /\ UNCHANGED <<sessions, table, work, script, engine, phase, turn, tickCount, driving,
                   panel, mine>>

Next ==
    \/ Tick
    \/ StartEngine \/ StopEngine \/ EngineStopped \/ RecoverAll
    \/ \E file \in DrillFiles : LoadScenario(file)
    \/ \E spec \in Specs : InjectFault(spec)
    \/ \E h \in Handles : AbortFault(h)
    \/ \E req \in Requests : RequestBegins(req)
    \/ RequestEnds

(* The DataTick thread keeps running: weak fairness of Tick, written with  *)
(* the condition under which Tick is enabled.  Only Tick moves the phase.  *)
CanTick == phase # "top" \/ engine = "on"
TickFairness == []<>~CanTick \/ []<><<TRUE>>_<<phase, turn>>

Spec == Init /\ [][Next]_vars /\ TickFairness

-----------------------------------------------------------------------------
TypeOK ==
    /\ \A h \in Handles : /\ sessions[h].state \in FaultStates
                          /\ sessions[h].age \in 0 .. MaxAge
    /\ phase \in Phases /\ tickCount \in 0 .. LastTime /\ driving \in BOOLEAN
    /\ panel \subseteq Nat /\ mine \subseteq Handles

(* A fault a drill injected is ACTIVE only while the drill still holds its *)
(* handle, so that a RECOVER step can reach it: RECOVER for all slaves     *)
(* recovers every handle filed under its key, and nothing else drops one.  *)
(* Only the faults of the drill that is loaded are meant: those of a drill *)
(* it replaced, whose handles went with it, have numbers up to script.base *)
(* and last until their duration is over or the panel recovers them.       *)
ScriptedFaultsAreHeld ==
    script # NoScript =>
        \A h \in Handles :
            sessions[h].state = "ACTIVE" /\ h > script.base /\ h \notin mine =>
                \E k \in DOMAIN script.handles : h \in Range(script.handles[k])

(* A drill that would be reported as PASS has done what its INJECT steps   *)
(* say and has no step left: a step for a run of cells has begun a fault   *)
(* at each cell of each of its slaves, any other step at each of its       *)
(* slaves that has the register (one that lacks it is passed over, as      *)
(* fireInject intends).                                                    *)
PassMeansInjected ==
    script # NoScript /\ ResultOf(script) = "PASS" =>
        \A i \in DOMAIN script.steps :
            LET step == script.steps[i]
            IN  step.action = "INJECT" =>
                  /\ step.fault \in FaultTypes
                  /\ \A place \in Range(Places(step)) :
                        IF place.reg < 0 THEN ~CellStep(step)
                        ELSE \E h \in Handles : h > script.base /\ sessions[h].spec = SpecOf(step, place)

(* No step of a session passes its target, turns round or revives it. *)
RecoveriesAreMonotone == [][engine = engine' => RecoveryNeverOvershoots]_vars

(* Handles there may be: of the panel, then of a drill. *)
Injected == 1 .. MaxSessions + Cardinality(Slaves)

Showing(slave) ==
    \A p \in PointsOf(slave) : p.table = "holding" /\ p.evolved => bank[slave].holding[p.reg] = p.base

AlarmOf(slave) ==
    {bank[slave].holding[p.reg] : p \in {q \in PointsOf(slave) : q.alarm}}

LiveHandles == {h \in Handles : Live(sessions[h])}

(* One fault alone is ACTIVE, on registers; it shows in those it covers. *)
Alone ==
    /\ engine = "on"
    /\ \E h \in Handles : /\ LiveHandles = {h}
                          /\ sessions[h].state = "ACTIVE"
                          /\ sessions[h].spec.type # "CommLoss"
Shown ==
    \A h \in LiveHandles, p \in Points :
        p.table \in {"holding", "input"} /\ ~p.alarm /\ Covers(sessions[h], p.slave, p.reg)
        => bank[p.slave][p.table][p.reg] = ToRaw(sessions[h].spec.target)

(* A fault that stays ACTIVE alone is shown in its registers, and shown    *)
(* again whatever masters write: every tick overrides and publishes.       *)
FaultIsShown == Alone ~> (Shown \/ ~Alone)

(* Once every fault is over, the registers the physics writes show it      *)
(* again and the alarm word is clear.                                      *)
FaultsClear ==
    LET quiet == engine = "on" /\ LiveHandles = {}
    IN  \A s \in Slaves : quiet ~> ((Showing(s) /\ AlarmOf(s) \subseteq {0}) \/ ~quiet)

(* A fault with a ramp that is recovering ends, unless the engine stops. *)
RecoveriesEnd ==
    \A h \in Injected :
        (h \in Handles /\ sessions[h].state = "RECOVERING" /\ sessions[h].spec.ramp > 0)
        ~> (engine # "on" \/ h \notin Handles \/ sessions[h].state # "RECOVERING")

(* A fault comes to an end, and so do its traces in the registers. *)
FaultsEnd == RecoveriesEnd /\ FaultsClear
=============================================================================
