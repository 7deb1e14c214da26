---------------------------- MODULE SlaveHealth ----------------------------
(***************************************************************************)
(* The three-stage circuit breaker of protocol/PollScheduler: the health   *)
(* of each registered slave, driven by the outcome of its requests.  Of    *)
(* the clock only matters whether 30 s have passed since lastProbeTimeMs.  *)
(***************************************************************************)
EXTENDS Integers, Sequences

CONSTANTS SlaveIds,
          Unregistered,  \* a slave without an entry in m_slaveStates
          MaxMissed    \* bound: consecutive failures counted

ASSUME MissedAssumption == MaxMissed \in Nat

VARIABLES
    slave,   \* m_slaveStates
    outage   \* history: signals emitted for a slave since it was healthy

healthVars == <<slave, outage>>

Health == {"HEALTHY", "DEGRADED", "ISOLATED", "PROBING"}

SlavePollState ==
    [failures : Nat,
     health : Health,
     interval : {"original", "tripled", "30s"},
     due : BOOLEAN]          \* 30 s since lastProbeTimeMs

HealthInit ==
    /\ slave = [s \in SlaveIds |-> Unregistered]
    /\ outage = [s \in SlaveIds |-> <<>>]

Registered(s) == slave[s] # Unregistered

(* registerSlave: a fresh state, also for a slave already known. *)
RegisterSlave(s) ==
    /\ slave' = [slave EXCEPT ![s] =
           [failures |-> 0, health |-> "HEALTHY", interval |-> "original", due |-> FALSE]]
    /\ outage' = [outage EXCEPT ![s] = <<>>]

UnregisterSlave(s) ==
    /\ Registered(s)
    /\ slave' = [slave EXCEPT ![s] = Unregistered]
    /\ outage' = [outage EXCEPT ![s] = <<>>]

(* Mutant: the failures are not forgotten. *)
ResponseOkKeepsFailures(s) ==
    /\ Registered(s)
    /\ slave' = [slave EXCEPT ![s].health = "HEALTHY", ![s].interval = "original"]
    /\ outage' = [outage EXCEPT ![s] = <<>>]

(* onResponseReceived(true): from whatever state back to HEALTHY, with     *)
(* slaveRecovered if it was not.                                           *)
ResponseOk(s) ==
    /\ Registered(s)
    /\ slave' = [slave EXCEPT ![s].failures = 0,
                              ![s].health = "HEALTHY",
                              ![s].interval = "original"]
    /\ outage' = [outage EXCEPT ![s] = <<>>]

(* Counting the failure leaves the slave where it is. *)
FailureCounted(s) ==
    /\ slave[s].failures + 1 < 3 \/ (slave[s].failures + 1 < 8 /\ slave[s].health # "HEALTHY")
    /\ slave' = [slave EXCEPT ![s].failures = @ + 1]
    /\ UNCHANGED outage

(* The third failure in a row: DEGRADED, slaveDegraded. *)
FailureDegrades(s) ==
    /\ slave[s].failures + 1 \in 3 .. 7
    /\ slave[s].health = "HEALTHY"
    /\ slave' = [slave EXCEPT ![s].failures = @ + 1,
                              ![s].health = "DEGRADED",
                              ![s].interval = "tripled"]
    /\ outage' = [outage EXCEPT ![s] = Append(@, "degraded")]

(* The eighth failure and every later one, a failed probe included:        *)
(* ISOLATED for another 30 s; slaveIsolated only the first time.           *)
FailureIsolates(s) ==
    /\ slave[s].failures + 1 >= 8
    /\ slave' = [slave EXCEPT ![s].failures = @ + 1,
                              ![s].health = "ISOLATED",
                              ![s].interval = "30s",
                              ![s].due = FALSE]
    /\ outage' = IF slave[s].health \in {"ISOLATED", "PROBING"} THEN outage
                   ELSE [outage EXCEPT ![s] = Append(@, "isolated")]

(* onResponseReceived(false) *)
ResponseFailed(s) ==
    /\ Registered(s)
    /\ slave[s].failures < MaxMissed
    /\ FailureCounted(s) \/ FailureDegrades(s) \/ FailureIsolates(s)

(* enterProbingIfDue *)
EnterProbingIfDue(s) ==
    /\ Registered(s)
    /\ slave[s].health = "ISOLATED"
    /\ slave[s].due
    /\ slave' = [slave EXCEPT ![s].health = "PROBING", ![s].due = FALSE]
    /\ UNCHANGED outage

(* nowMs() moves past lastProbeTimeMs + 30 s. *)
ThirtySecondsPass(s) ==
    /\ Registered(s)
    /\ ~slave[s].due
    /\ slave' = [slave EXCEPT ![s].due = TRUE]
    /\ UNCHANGED outage

HealthNext ==
    \E s \in SlaveIds :
        \/ RegisterSlave(s) \/ UnregisterSlave(s)
        \/ ResponseOk(s) \/ ResponseFailed(s)
        \/ EnterProbingIfDue(s) \/ ThirtySecondsPass(s)

-----------------------------------------------------------------------------
(* Every variable holds a value of its type. *)
HealthTypeOK ==
    /\ slave \in [SlaveIds -> SlavePollState \cup {Unregistered}]
    /\ outage \in [SlaveIds -> Seq({"degraded", "isolated"})]

(* The stage of the breaker is a function of the failures in a row, and    *)
(* the polling interval a function of the stage, along every path through  *)
(* degradation, isolation, probing and recovery.                           *)
StageMatchesFailures ==
    \A s \in SlaveIds : Registered(s) =>
        LET v == slave[s] IN
        /\ v.health = "HEALTHY"  <=> v.failures < 3
        /\ v.health = "DEGRADED" <=> v.failures \in 3 .. 7
        /\ v.interval = CASE v.health = "HEALTHY"  -> "original"
                          [] v.health = "DEGRADED" -> "tripled"
                          [] OTHER                 -> "30s"

(* One outage is one slaveDegraded, then one slaveIsolated, however many   *)
(* probes fail in between.                                                 *)
OneReportPerStage ==
    \A s \in SlaveIds : Registered(s) =>
        outage[s] = CASE slave[s].health = "HEALTHY"  -> <<>>
                      [] slave[s].health = "DEGRADED" -> <<"degraded">>
                      [] OTHER                        -> <<"degraded", "isolated">>
=============================================================================
