----------------------------- MODULE PointTable -----------------------------
(***************************************************************************)
(* protocol/PointTable: the JSON file of the points, the three indexes     *)
(* built from it, and how registers become engineering values.  A row of   *)
(* the file has numbers for its numeric members and strings for the three  *)
(* enumerations; "?" stands for a string the loader does not know.  Link,  *)
(* poll interval, priority, name and unit, which only pass through, are    *)
(* left out.                                                               *)
(***************************************************************************)
EXTENDS Ordering, Sequences, SequencesExt

CONSTANT IdRange    \* 2^32: how many ids of points there are

ASSUME IdRangeAssumption == IdRange \in Nat \ {0}

RegisterType == {"Coil", "DiscreteInput", "HoldingRegister", "InputRegister"}
DataType == {"Bool", "Int16", "Uint16", "Int32", "Float32", "Float64"}
ByteOrder == {"ABCD", "BADC", "CDAB", "DCBA"}

(* get<uint16_t>, and the cast of what stoul returns. *)
ParseRegisterAddr(n) == n % 65536

(* A row as the loader keeps it: get<uint32_t>, get<uint8_t>. *)
RowRead(row) ==
    [row EXCEPT !.pointId = @ % IdRange, !.slaveAddress = @ % 256,
                !.registerAddr = ParseRegisterAddr(@)]

NoTable == [loaded |-> FALSE, byPointId |-> <<>>, byAddr |-> <<>>, bySlave |-> <<>>]

EmptyTable == [NoTable EXCEPT !.loaded = TRUE]

(* One row: an unknown enumeration, or an id or an address that is already *)
(* taken, throws, and nothing is left of the table.                        *)
AddRow(tbl, row) ==
    LET p   == RowRead(row)
        key == <<p.slaveAddress, p.registerAddr>>
    IN  IF \/ ~tbl.loaded
           \/ row.regType \notin RegisterType \/ row.dataType \notin DataType
           \/ row.byteOrder \notin ByteOrder
           \/ p.pointId \in DOMAIN tbl.byPointId
           \/ key \in DOMAIN tbl.byAddr
        THEN NoTable
        ELSE [loaded    |-> TRUE,
              byPointId |-> [i \in DOMAIN tbl.byPointId \cup {p.pointId} |->
                                IF i = p.pointId THEN p ELSE tbl.byPointId[i]],
              byAddr    |-> [k \in DOMAIN tbl.byAddr \cup {key} |->
                                IF k = key THEN p.pointId ELSE tbl.byAddr[k]],
              bySlave   |-> [s \in DOMAIN tbl.bySlave \cup {p.slaveAddress} |->
                                (IF s \in DOMAIN tbl.bySlave THEN tbl.bySlave[s] ELSE <<>>)
                                \o IF s = p.slaveAddress THEN <<p.pointId>> ELSE <<>>]]

(* loadFromJsonFile: a file that is not there, is not JSON, or has another *)
(* schema gives no table; the ids of a slave are sorted in the end.        *)
LoadFromJsonFile(file) ==
    IF ~file.readable \/ file.schemaVersion \notin {"1.0", "1.1"} THEN NoTable
    ELSE LET tbl == FoldLeft(AddRow, EmptyTable, file.points)
         IN  [tbl EXCEPT !.bySlave =
                 [s \in DOMAIN @ |->
                    InOrder(ToSet(@[s]), LAMBDA a, b : tbl.byPointId[a].registerAddr
                                                     < tbl.byPointId[b].registerAddr)]]

(* resolve, as a set of at most one point. *)
Resolve(tbl, slave, addr) ==
    IF <<slave, addr>> \in DOMAIN tbl.byAddr
    THEN {tbl.byPointId[tbl.byAddr[<<slave, addr>>]]} ELSE {}

(* pointIdOf, likewise. *)
PointIdOf(tbl, id) == IF id \in DOMAIN tbl.byPointId THEN {tbl.byPointId[id]} ELSE {}

AllOnSlave(tbl, slave) ==
    IF slave \in DOMAIN tbl.bySlave
    THEN [i \in DOMAIN tbl.bySlave[slave] |-> tbl.byPointId[tbl.bySlave[slave][i]]]
    ELSE <<>>

(* allPoints: the order of a hash table, so a set. *)
AllPoints(tbl) == {tbl.byPointId[i] : i \in DOMAIN tbl.byPointId}

-----------------------------------------------------------------------------
RegisterCountFor(dt) ==
    CASE dt \in {"Bool", "Int16", "Uint16"} -> 1
      [] dt \in {"Int32", "Float32"}        -> 2
      [] dt = "Float64"                     -> 4

(* The bytes of some registers, the high one of each first. *)
WireBytes(regs) ==
    [i \in 1 .. 2 * Len(regs) |->
        IF i % 2 = 1 THEN regs[(i + 1) \div 2] \div 256 ELSE regs[i \div 2] % 256]

(* Mutant: CDAB turns every pair of registers round. *)
ReassembleByPairs(regs, order) ==
    LET n == 2 * Len(regs)
        b == WireBytes(regs)
    IN  CASE order = "ABCD" -> b
          [] order = "CDAB" -> [i \in 1 .. n |-> IF n < 4 THEN 0
                                 ELSE b[IF (i - 1) % 4 < 2 THEN i + 2 ELSE i - 2]]
          [] order = "BADC" -> [i \in 1 .. n |-> b[IF i % 2 = 1 THEN i + 1 ELSE i - 1]]
          [] order = "DCBA" -> [i \in 1 .. n |-> b[n + 1 - i]]

(* reassembleBytes into a buffer of zeros; at most four registers.  CDAB   *)
(* exchanges register i with register i + regCount / 2 and writes nothing  *)
(* when there is only one register.                                        *)
ReassembleBytes(regs, order) ==
    LET n    == 2 * Len(regs)
        half == 2 * (Len(regs) \div 2)
        b    == WireBytes(regs)
    IN  CASE order = "ABCD" -> b
          [] order = "CDAB" -> [i \in 1 .. n |->
                                 IF i <= half THEN b[i + half]
                                 ELSE IF i <= 2 * half THEN b[i - half] ELSE 0]
          [] order = "BADC" -> [i \in 1 .. n |-> b[IF i % 2 = 1 THEN i + 1 ELSE i - 1]]
          [] order = "DCBA" -> [i \in 1 .. n |-> b[n + 1 - i]]

(* Two's complement of a number of 16 bits. *)
Signed16(n) == IF n >= 32768 THEN n - 65536 ELSE n

(* decodeToEngineering: big-endian bytes; sign, exponent and fraction of a *)
(* floating-point number, whose scaling is left to the reader.             *)
DecodeToEngineering(b, dt, scale, offset) ==
    CASE dt = "Int16"   -> Signed16(256 * b[1] + b[2]) * scale + offset
      [] dt = "Uint16"  -> (256 * b[1] + b[2]) * scale + offset
      [] dt = "Int32"   -> (Signed16(256 * b[1] + b[2]) * 65536 + 256 * b[3] + b[4]) * scale + offset
      [] dt = "Float32" -> <<b[1] \div 128, 2 * (b[1] % 128) + b[2] \div 128,
                             b[2] % 128, b[3], b[4], scale, offset>>
      [] dt = "Float64" -> <<b[1] \div 128, 16 * (b[1] % 128) + b[2] \div 16,
                             b[2] % 16, b[3], b[4], b[5], b[6], b[7], b[8], scale, offset>>
      [] dt = "Bool"    -> (IF b[1] # 0 THEN 1 ELSE 0) * scale + offset
=============================================================================
