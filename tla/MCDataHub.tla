----------------------------- MODULE MCDataHub -----------------------------
(***************************************************************************)
(* Four parts that share no state: the ring buffer, the black box, the     *)
(* point table with what is read by it, and the history.  `part' tells     *)
(* which of them moves, so that their states add up and do not multiply.   *)
(***************************************************************************)
EXTENDS RingBuffer, BlackBox, Acquisition, HistoryPath

CONSTANT Parts

VARIABLE part

hubVars == <<part, vars, boxVars, acqVars, historyVars>>

MCPolicies == {{1, 2}, {0, 5}}

Row(i, rt, dt, order, addr, on) ==
    [pointId |-> i, slaveAddress |-> IF addr < 65536 THEN 1 ELSE 257, regType |-> rt, dataType |-> dt, byteOrder |-> order,
     registerAddr |-> addr, scaleFactor |-> 2, offset |-> 1, enabled |-> on]

File(rows) == [readable |-> TRUE, schemaVersion |-> "1.1", points |-> rows]

(* Three points of every width, order and place, also with an address and  *)
(* a slave that the loader narrows; the other register types; files that are refused.    *)
RegisterFiles ==
    {File(<<Row(3, "HoldingRegister", dt[1], order, 1, TRUE),
            Row(1, "HoldingRegister", dt[2], order, a, TRUE),
            Row(2, "HoldingRegister", dt[3], order, b, on)>>) :
        dt \in [1 .. 3 -> {"Uint16", "Int32", "Float64"}], order \in ByteOrder,
        a \in {0, 2, 3, 5}, b \in {1, 2, 65539}, on \in BOOLEAN}

OtherFiles ==
    {File(<<Row(1, "Coil", "Bool", "ABCD", a, TRUE), Row(2, "Coil", "Bool", "ABCD", b, TRUE),
            Row(3, "InputRegister", dt, "ABCD", 4, TRUE),
            Row(4, "HoldingRegister", "Int16", "BADC", 5, TRUE)>>) :
        a \in 0 .. 3, b \in 0 .. 3, dt \in {"Float32", "Int16", "Bool"}}
    \cup {File(<<>>), [File(<<>>) EXCEPT !.readable = FALSE], [File(<<>>) EXCEPT !.schemaVersion = "0.9"],
          File(<<Row(1, "?", "Int16", "ABCD", 0, TRUE)>>),
          File(<<Row(1, "Coil", "Bool", "ABCD", 0, FALSE)>>),
          File(<<Row(1, "Coil", "Bool", "ABCD", 0, TRUE), Row(9, "Coil", "Bool", "ABCD", 1, TRUE)>>)}

MCTableFiles == RegisterFiles \cup OtherFiles

(* Registers whose bytes differ and have their high bit set or not. *)
MCDevices == {[a \in 0 .. 9 |-> IF a % 2 = 0 THEN 258 + 514 * a ELSE 65277 - 514 * a]}

(* A part that does not move has one initial state. *)
MCInit ==
    /\ part \in Parts
    /\ Init /\ BoxInit /\ AcqInit /\ HistoryInit
    /\ part # "box" => l1 = InitFromPolicy({1, 2})
    /\ part # "points" => tableFile = File(<<>>)

MCNext ==
    /\ UNCHANGED part
    /\ \/ part = "ring" /\ Next /\ UNCHANGED <<boxVars, acqVars, historyVars>>
       \/ part = "box" /\ BoxNext /\ UNCHANGED <<vars, acqVars, historyVars>>
       \/ part = "points" /\ AcqNext /\ UNCHANGED <<vars, boxVars, historyVars>>
       \/ part = "history" /\ HistoryNext /\ UNCHANGED <<vars, boxVars, acqVars>>

MCSpec == MCInit /\ [][MCNext]_hubVars
=============================================================================
