---------------------------- MODULE ModbusEngine ----------------------------
(***************************************************************************)
(* The request/response matching of protocol/ModbusEngine over TCP: the    *)
(* TransactionIdAllocator bitmap and the in-flight table.  A component:    *)
(* PollLink composes it with the channel, the poll driver and the          *)
(* application.  Everything here runs in the worker thread.                *)
(***************************************************************************)
EXTENDS Integers

CONSTANTS MaxTid,   \* the largest transaction id (65535 in the code)
          Slaves,   \* slave addresses, also the link ids of the polls
          NoEntry   \* a transaction id that is not registered

ASSUME MaxTidAssumption == MaxTid \in Nat
ASSUME SlavesAssumption == Slaves \subseteq Nat \ {0}
ASSUME NoEntryAssumption == NoEntry \notin [linkId : Slaves \cup {1}, slave : Slaves]

VARIABLES used,      \* m_txIdAllocator: the allocated ids
          inFlight   \* m_inFlight: id -> who is to get the answer

engineVars == <<used, inFlight>>

(* 0 is INVALID_ID. *)
Tids == 1 .. MaxTid

InFlightEntry == [linkId : Slaves \cup {1}, slave : Slaves]

EngineInit ==
    /\ used = {}
    /\ inFlight = [t \in Tids |-> NoEntry]

(* allocate() takes the lowest free id. *)
Lowest(t) == t \in Tids \ used /\ \A u \in Tids \ used : t <= u

(* allocate() returns INVALID_ID: writeRequest returns -1. *)
Exhausted == used = Tids

(* emplace keeps an entry that is already there. *)
Register(t, entry) ==
    /\ used' = used \cup {t}
    /\ inFlight' = [inFlight EXCEPT ![t] = IF @ = NoEntry THEN entry ELSE @]

(* An answer that hit the table: unregister it and recycle its id. *)
Settle(t) ==
    /\ used' = used \ {t}
    /\ inFlight' = [inFlight EXCEPT ![t] = NoEntry]

(* onConnectionChanged: a lost connection clears table and bitmap. *)
EngineConnectionChanged(connected) ==
    /\ used' = IF connected THEN used ELSE {}
    /\ inFlight' = IF connected THEN inFlight ELSE [t \in Tids |-> NoEntry]
=============================================================================
