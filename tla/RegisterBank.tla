---------------------------- MODULE RegisterBank ----------------------------
(***************************************************************************)
(* sim/register_bank with sim/modbus_dispatch and the request handler of   *)
(* sim/modbus_slave_emulator: a register set per slave that is only ever   *)
(* replaced as a whole, and a master's request answered from the set that  *)
(* was current when the handler looked.                                    *)
(*                                                                         *)
(* The handler runs under the emulator's mutex, one request at a time; the *)
(* tick of the point generator does not take it, so a set it publishes may *)
(* come between the handler's snapshot and its own publish.  A request is  *)
(* a record: the length of the PDU is kept as whether it fits the function *)
(* code, coil values as 0, 1 and, for a word that is neither, 2.           *)
(***************************************************************************)
EXTENDS Integers, Sequences, FiniteSets

CONSTANTS
    Slaves,      \* slaves of the configuration, with a register set each
    Strangers,   \* unit ids nobody has
    BankSize,    \* registers of a slave
    Words,       \* values of a register, 0 among them
    Requests,    \* requests masters make: [unit, pdu]
    NoCall

ASSUME BankAssumption ==
    /\ BankSize \in Nat \ {0} /\ 0 \in Words
    /\ Slaves \subseteq Nat /\ IsFiniteSet(Slaves) /\ Slaves \cap Strangers = {}
ASSUME RequestAssumption == \A r \in Requests : r.unit \in Slaves \cup Strangers

VARIABLES
    bank,    \* m_banks
    call     \* the request in the handler with its snapshot, or NoCall

bankVars == <<bank, call>>

Tables == {"coils", "discretes", "holding", "input"}

(* Coils and discretes are kept in whole bytes. *)
Size(t) == IF t \in {"coils", "discretes"} THEN 8 * ((BankSize + 7) \div 8) ELSE BankSize
Addrs(t) == 0 .. Size(t) - 1
Allocated == [t \in Tables |-> [a \in Addrs(t) |-> 0]]

ReadCodes == 1 .. 4
WriteCodes == {5, 6, 15, 16}

(* The table a function code works on. *)
TableOf(fc) ==
    CASE fc \in {1, 5, 15} -> "coils"
      [] fc = 2 -> "discretes"
      [] fc \in {3, 6, 16} -> "holding"
      [] fc = 4 -> "input"

MaxQty(fc) ==
    CASE fc \in {1, 2} -> 2000
      [] fc \in {3, 4} -> 125
      [] fc = 15 -> 1968
      [] fc = 16 -> 123
      [] OTHER -> 1

(* dispatchFull: the exception code of a request, 0 if it is carried out. *)
ExceptionOf(pdu) ==
    IF pdu.fc \notin ReadCodes \cup WriteCodes THEN 1
    ELSE IF ~pdu.sized \/ pdu.qty = 0 \/ pdu.qty > MaxQty(pdu.fc) THEN 3
    ELSE IF pdu.fc = 5 /\ pdu.vals[1] \notin {0, 1} THEN 3
    ELSE IF pdu.addr + pdu.qty > Size(TableOf(pdu.fc)) THEN 2
    ELSE 0

(* The values a read returns. *)
ReadOut(set, pdu) == [i \in 1 .. pdu.qty |-> set[TableOf(pdu.fc)][pdu.addr + i - 1]]

(* The set after a write: setHolding and writeCoil of each value. *)
Written(set, pdu) ==
    [set EXCEPT ![TableOf(pdu.fc)] =
        [a \in DOMAIN @ |-> IF a \in pdu.addr .. pdu.addr + pdu.qty - 1
                         THEN pdu.vals[a - pdu.addr + 1] ELSE @[a]]]

-----------------------------------------------------------------------------
BankInit ==
    /\ bank = [s \in Slaves |-> Allocated]
    /\ call = NoCall

Publish(s, set) == bank' = [bank EXCEPT ![s] = set]

(* The answer to a request, given from a register set. *)
AnswerFrom(set, pdu) ==
    [fc |-> pdu.fc, exc |-> ExceptionOf(pdu),
     vals |-> IF ExceptionOf(pdu) = 0 /\ pdu.fc \in ReadCodes THEN ReadOut(set, pdu) ELSE <<>>]

(* For a unit id nobody has: ILLEGAL FUNCTION. *)
AnswerOfStranger(pdu) == [fc |-> pdu.fc, exc |-> 1, vals |-> <<>>]

(* dispatchBySlaveId takes the snapshot. *)
CallBegins(req) ==
    /\ call = NoCall
    /\ req.unit \in Slaves
    /\ call' = [req |-> req, snap |-> bank[req.unit]]
    /\ UNCHANGED bank

(* The handler returns; a write that is carried out publishes its copy.    *)
CallEnds ==
    /\ call # NoCall
    /\ LET pdu == call.req.pdu
       IN  IF ExceptionOf(pdu) = 0 /\ pdu.fc \in WriteCodes
           THEN Publish(call.req.unit, Written(call.snap, pdu)) ELSE UNCHANGED bank
    /\ call' = NoCall
=============================================================================
