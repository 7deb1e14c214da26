----------------------------- MODULE TcpChannel -----------------------------
(***************************************************************************)
(* channel/TcpChannel: one socket, one single-shot timer, and reconnection *)
(* with exponential backoff.  The socket is Qt's: it answers a             *)
(* connectToHost with `connected' or with an error once it is unconnected  *)
(* again, and reports `disconnected' for a connection that ends, also when *)
(* abort() ends it, inside the call.  Slots run one at a time, except that *)
(* abort() calls onDisconnected in the middle of close(); other threads    *)
(* may read the flag at any moment.  Received bytes, the text of the last  *)
(* error and asyncWrite, which nobody calls, are left out; PollLink has    *)
(* the traffic on a link.                                                  *)
(***************************************************************************)
EXTENDS Integers

CONSTANTS
    Errors,           \* how attempts to connect fail
    Configs,          \* [base, max] open is called with; 0 asks for the default
    MaxFailures       \* bound: where the history counter stops

Retried == {"ConnectionRefused", "RemoteHostClosed", "NetworkError"}
Reported == {"SocketTimeout", "HostNotFound"}

ASSUME ErrorsAssumption == Errors \subseteq Retried \cup Reported
ASSUME ConfigsAssumption == Configs \subseteq [base : Nat, max : Nat]
ASSUME MaxFailuresAssumption == MaxFailures \in Nat

VARIABLES
    opened, closed,  \* m_opened, m_closed
    aborting,        \* close() is about to call abort()
    socket,          \* m_socket and its state
    timer,           \* m_reconnectTimer is active
    base, max,       \* m_reconnectBaseMs, m_reconnectMaxMs, in seconds
    backoff,         \* m_backoffMs
    connectedFlag,   \* m_connectedFlag, read by other threads
    reported,        \* the last connectionChanged
    refusal,         \* history: how the last attempt failed, "none" until one does
    failures         \* history: delays since open or the last connection

channelVars == <<opened, closed, aborting, socket, timer, base, max, backoff,
                 connectedFlag, reported, refusal, failures>>

ChannelTypeOK ==
    /\ opened \in BOOLEAN /\ closed \in BOOLEAN /\ aborting \in BOOLEAN
    /\ socket \in {"none", "unconnected", "connecting", "connected"}
    /\ timer \in BOOLEAN
    /\ base \in Nat \ {0} /\ max \in Nat \ {0}
    /\ backoff \in Nat
    /\ connectedFlag \in BOOLEAN /\ reported \in BOOLEAN
    /\ refusal \in Errors \cup {"none"}
    /\ failures \in Nat

ChannelInit ==
    /\ opened = FALSE /\ closed = FALSE /\ aborting = FALSE
    /\ socket = "none"
    /\ timer = FALSE
    /\ base = 1 /\ max = 30
    /\ backoff = 0
    /\ connectedFlag = FALSE /\ reported = FALSE
    /\ refusal = "none" /\ failures = 0

(* A new socket, a first attempt at once.  An open channel is closed       *)
(* first: those are the steps of Close and Abort.                          *)
Open(cfg) ==
    /\ ~opened /\ ~aborting
    /\ base' = (IF cfg.base > 0 THEN cfg.base ELSE 1)
    /\ max' = (IF cfg.max > 0 THEN cfg.max ELSE 30)
    /\ opened' = TRUE /\ closed' = FALSE
    /\ socket' = "connecting"
    /\ backoff' = 0
    /\ refusal' = "none" /\ failures' = 0
    /\ UNCHANGED <<aborting, timer, connectedFlag, reported>>

(* close() up to abort(). *)
Close ==
    /\ ~closed
    /\ closed' = TRUE /\ opened' = FALSE /\ aborting' = TRUE
    /\ connectedFlag' = FALSE
    /\ timer' = FALSE
    /\ UNCHANGED <<socket, base, max, backoff, reported, refusal, failures>>

(* Doubled up to the maximum; the first delay of a sequence is the base. *)
NextDelay(delay) ==
    IF delay < max
    THEN LET doubled == IF 2 * delay < max THEN 2 * delay ELSE max
         IN  IF doubled = 0 THEN base ELSE doubled
    ELSE delay

(* Mutant: a channel being closed is not told from an open one. *)
ScheduleReconnectAlways ==
    IF timer
    THEN UNCHANGED <<timer, backoff, failures>>
    ELSE /\ timer' = TRUE
         /\ backoff' = NextDelay(backoff)
         /\ failures' = IF failures < MaxFailures THEN failures + 1 ELSE failures

(* Nothing on a closed channel, nor when the timer runs already.  The      *)
(* jitter of the timer is left out.                                        *)
ScheduleReconnect ==
    IF ~opened \/ closed \/ timer
    THEN UNCHANGED <<timer, backoff, failures>>
    ELSE /\ timer' = TRUE
         /\ backoff' = NextDelay(backoff)
         /\ failures' = IF failures < MaxFailures THEN failures + 1 ELSE failures

(* Mutant: the socket is deleted without abort(), nobody is told. *)
AbortSilently ==
    /\ aborting
    /\ aborting' = FALSE
    /\ socket' = "none"
    /\ UNCHANGED <<opened, closed, timer, base, max, backoff, connectedFlag,
                   reported, refusal, failures>>

(* abort() of a connected socket runs onDisconnected before it returns,    *)
(* with what it tells and schedules; then close() deletes the socket.      *)
Abort ==
    /\ aborting
    /\ aborting' = FALSE
    /\ socket' = "none"
    /\ IF socket = "connected"
       THEN connectedFlag' = FALSE /\ reported' = FALSE /\ ScheduleReconnect
       ELSE UNCHANGED <<connectedFlag, reported, timer, backoff, failures>>
    /\ UNCHANGED <<opened, closed, base, max, refusal>>

OnConnected ==
    /\ socket = "connecting" /\ ~aborting
    /\ socket' = "connected"
    /\ backoff' = 0
    /\ connectedFlag' = TRUE /\ reported' = TRUE
    /\ refusal' = "none" /\ failures' = 0
    /\ UNCHANGED <<opened, closed, aborting, timer, base, max>>

(* The connection ends: the peer closes it or keep-alive gives it up. *)
OnDisconnected ==
    /\ socket = "connected" /\ ~aborting
    /\ socket' = "unconnected"
    /\ connectedFlag' = FALSE /\ reported' = FALSE
    /\ ScheduleReconnect
    /\ UNCHANGED <<opened, closed, aborting, base, max, refusal>>

(* Mutant: a refused attempt is not repeated. *)
OnErrorOccurredGivesUp(err) ==
    /\ socket = "connecting" /\ ~aborting
    /\ socket' = "unconnected"
    /\ refusal' = err
    /\ UNCHANGED <<timer, backoff, failures>>
    /\ UNCHANGED <<opened, closed, aborting, base, max, connectedFlag, reported>>

(* An attempt fails; only some errors lead to another one, the others are  *)
(* no more than reported.                                                  *)
OnErrorOccurred(err) ==
    /\ socket = "connecting" /\ ~aborting
    /\ socket' = "unconnected"
    /\ refusal' = err
    /\ IF err \in Retried THEN ScheduleReconnect
       ELSE UNCHANGED <<timer, backoff, failures>>
    /\ UNCHANGED <<opened, closed, aborting, base, max, connectedFlag, reported>>

(* The timer fires; what the slot asks for holds then (TimerMeansWaiting). *)
AttemptReconnect ==
    /\ timer /\ ~aborting
    /\ opened /\ ~closed /\ socket = "unconnected"
    /\ timer' = FALSE
    /\ socket' = "connecting"
    /\ UNCHANGED <<opened, closed, aborting, base, max, backoff, connectedFlag,
                   reported, refusal, failures>>

ChannelNext ==
    \/ \E cfg \in Configs : Open(cfg)
    \/ Close \/ Abort
    \/ OnConnected \/ OnDisconnected
    \/ \E err \in Errors : OnErrorOccurred(err)
    \/ AttemptReconnect

ChannelSpec == ChannelInit /\ [][ChannelNext]_channelVars

(* Timers fire, attempts end one way or the other, and a host that is      *)
(* tried again and again is up at one of the attempts.                     *)
ChannelFairness ==
    /\ WF_channelVars(AttemptReconnect)
    /\ WF_channelVars(OnConnected \/ \E err \in Errors : OnErrorOccurred(err))
    /\ SF_channelVars(OnConnected)

FairChannelSpec == ChannelSpec /\ ChannelFairness

-----------------------------------------------------------------------------
(* Whoever reads the flag from another thread, at any moment, never sees a *)
(* connection the socket has not; between two slots the flag is the state  *)
(* of the socket, and what listeners were told last always is, also when   *)
(* close() and a re-open change both from inside abort() (m_connectedFlag, *)
(* connectionChanged).                                                     *)
ListenersKnowTheLink ==
    /\ connectedFlag => socket = "connected"
    /\ ~aborting => (connectedFlag <=> socket = "connected")
    /\ reported <=> socket = "connected"

(* The reconnect timer runs only while the channel is open and idle: no    *)
(* attempt is made on a closed channel or over another one                 *)
(* (attemptReconnect).                                                     *)
TimerMeansWaiting == timer => opened /\ ~closed /\ socket = "unconnected"

(* The n-th delay in a row is base * 2^(n-1), capped at the maximum, for   *)
(* any configuration whose base is not above its maximum                   *)
(* (scheduleReconnect).                                                    *)
BackoffDoubles ==
    base <= max /\ failures \in 1 .. MaxFailures - 1 =>
        LET uncapped == base * 2 ^ (failures - 1)
        IN  backoff = IF uncapped < max THEN uncapped ELSE max

(* The reconnect timer runs exactly while an open channel has no           *)
(* connection and no attempt under way, unless its last attempt failed in  *)
(* a way that is no more than reported: nothing else ends reconnection,    *)
(* and nothing starts it again on a closed channel (onErrorOccurred,       *)
(* onDisconnected inside close()).                                         *)
KeepsTrying ==
    timer <=> opened /\ socket = "unconnected" /\ refusal \notin Reported

(* The channel's own state is one of those it can rest in. *)
Consistent ==
    /\ opened => ~closed /\ ~aborting
    /\ aborting => closed
    /\ ~aborting => (opened <=> socket # "none")
    /\ socket = "connected" => refusal = "none"

ChannelInv == ChannelTypeOK /\ Consistent /\ ListenersKnowTheLink /\ KeepsTrying

(* An open channel connects, or is closed, or has given up after an        *)
(* attempt that failed in a way no slot handles (scheduleReconnect).       *)
Reconnects == opened ~> (socket = "connected" \/ ~opened \/ refusal \in Reported)

-----------------------------------------------------------------------------
(* A statement of the documentation that the code does not keep: a channel *)
(* that is open comes back whatever kept it from connecting.               *)
AlwaysReconnects == opened ~> (socket = "connected" \/ ~opened)
=============================================================================
