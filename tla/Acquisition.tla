---------------------------- MODULE Acquisition ----------------------------
(***************************************************************************)
(* What EnerSentryApp::start and PollDriver make of a point table: the     *)
(* segments that are read and the values published from an answer.  The    *)
(* traffic itself is in PollLink and ModbusLink; here a device is asked    *)
(* for a segment and its answer may be too short.                          *)
(***************************************************************************)
EXTENDS PointTable

CONSTANTS
    TableFiles,     \* point table files the program may be started with
    Devices,        \* contents of a slave: register address -> 16 bits
    MaxRegisters,   \* kMaxRegistersPerRead
    MaxBits         \* kMaxBitsPerRead

(* One value fits a read: the longest has four registers. *)
ASSUME ReadLimitsAssumption == MaxRegisters \in Nat /\ MaxRegisters >= 4 /\ MaxBits \in Nat \ {0}

(* What the JSON parser and the wire deliver: numbers of whole type, and   *)
(* registers of 16 bits.                                                   *)
ASSUME TableFilesAssumption ==
    \A file \in TableFiles :
        /\ file.points \in Seq(ToSet(file.points))
        /\ \A row \in ToSet(file.points) :
              /\ DOMAIN row = {"pointId", "slaveAddress", "regType", "dataType", "byteOrder",
                               "registerAddr", "scaleFactor", "offset", "enabled"}
              /\ row.pointId \in Int /\ row.slaveAddress \in Int /\ row.registerAddr \in Int
              /\ row.enabled \in BOOLEAN
ASSUME DevicesAssumption == \A d \in Devices : \A a \in DOMAIN d : d[a] \in Nat /\ d[a] < 65536

VARIABLES
    tableFile,  \* the file named on the command line
    stage,      \* "off", "polling", "failed"
    table,      \* m_pt
    segments,   \* PollDriver::m_segments, which it goes round
    answer,     \* history: the last answer: segment, device, how much came
    published   \* what was pushed to the bridge for it

acqVars == <<tableFile, stage, table, segments, answer, published>>

NoAnswer == [segment |-> <<>>, device |-> <<>>, received |-> 0]

AcqInit ==
    /\ tableFile \in TableFiles
    /\ stage = "off"
    /\ table = NoTable
    /\ segments = {}
    /\ answer = NoAnswer
    /\ published = {}

IsBitType(rt) == rt \in {"Coil", "DiscreteInput"}
PointWidth(p) == IF IsBitType(p.regType) THEN 1 ELSE RegisterCountFor(p.dataType)
MaxQty(rt) == IF IsBitType(rt) THEN MaxBits ELSE MaxRegisters

-----------------------------------------------------------------------------
(* buildSegments                                                           *)

Finished(acc) ==
    IF acc.points = <<>> THEN acc.done
    ELSE Append(acc.done, [start |-> acc.start, qty |-> acc.end - acc.start, points |-> acc.points])

(* Mutant: the limit is looked at before the point is added. *)
OpensBelowLimit(acc, p) ==
    \/ acc.points = <<>>
    \/ p.registerAddr > acc.end
    \/ acc.end - acc.start >= MaxQty(p.regType)

(* A point begins a segment after a gap, or where the limit of one read    *)
(* would be passed.                                                        *)
Opens(acc, p) ==
    \/ acc.points = <<>>
    \/ p.registerAddr > acc.end
    \/ p.registerAddr + PointWidth(p) - acc.start > MaxQty(p.regType)

AddPoint(acc, p) ==
    LET end == p.registerAddr + PointWidth(p)
    IN  IF Opens(acc, p)
        THEN [done |-> Finished(acc), points |-> <<p>>, start |-> p.registerAddr, end |-> end]
        ELSE [acc EXCEPT !.points = Append(@, p), !.end = IF end > @ THEN end ELSE @]

(* The points of one slave and register type, by address and then by id. *)
Before(p, q) ==
    \/ p.registerAddr < q.registerAddr
    \/ p.registerAddr = q.registerAddr /\ p.pointId < q.pointId

SegmentsOf(points) ==
    ToSet(Finished(FoldLeft(AddPoint, [done |-> <<>>, points |-> <<>>, start |-> 0, end |-> 0],
                            InOrder(points, Before))))

BuildSegments(tbl) ==
    LET enabled == {p \in AllPoints(tbl) : p.enabled}
        groups  == {{q \in enabled : q.slaveAddress = p.slaveAddress /\ q.regType = p.regType}
                        : p \in enabled}
    IN  UNION {SegmentsOf(g) : g \in groups}

(* start: without a table, or without an enabled point to make a ring      *)
(* buffer for (initFromPolicy), the program does not run.                  *)
Usable(tbl) == tbl.loaded /\ \E p \in AllPoints(tbl) : p.enabled

Start ==
    /\ stage = "off"
    /\ table' = LoadFromJsonFile(tableFile)
    /\ stage' = IF Usable(table') THEN "polling" ELSE "failed"
    /\ segments' = IF Usable(table') THEN BuildSegments(table') ELSE {}
    /\ UNCHANGED <<tableFile, answer, published>>

-----------------------------------------------------------------------------
(* onResponseParsed, from an answer that carries `received' registers or   *)
(* whole bytes of bits                                                     *)

Registers(device, from, n) == [i \in 1 .. n |-> device[from + i - 1]]

(* A bit of the packed answer. *)
BitOf(device, addr) == device[addr] % 2

(* Points of the segment whose value is decoded; the others are counted as *)
(* dropped.  A Float32 point is taken from one register, as the simulator  *)
(* writes it.                                                              *)
Width(p) == IF p.dataType = "Float32" THEN 1 ELSE PointWidth(p)

Decoded(segment, received) ==
    {p \in ToSet(segment.points) :
        LET offset == p.registerAddr - segment.start
        IN  IF IsBitType(p.regType)
            THEN offset < segment.qty /\ offset \div 8 < received
            ELSE offset + Width(p) <= received}

ValueOf(p, segment, device) ==
    IF IsBitType(p.regType) THEN BitOf(device, p.registerAddr) * p.scaleFactor + p.offset
    ELSE IF p.dataType = "Float32" THEN device[p.registerAddr] * p.scaleFactor + p.offset
    ELSE DecodeToEngineering(
            ReassembleBytes(Registers(device, p.registerAddr, Width(p)), p.byteOrder),
            p.dataType, p.scaleFactor, p.offset)

Received(segment) ==
    IF IsBitType(segment.points[1].regType) THEN 0 .. (segment.qty + 7) \div 8 ELSE 0 .. segment.qty

(* A device answers for registers and bits it has. *)
Has(device, segment, received) ==
    LET n == IF IsBitType(segment.points[1].regType) THEN segment.qty ELSE received
    IN  segment.start .. segment.start + n - 1 \subseteq DOMAIN device

Answered(segment, device, received) ==
    /\ stage = "polling"
    /\ Has(device, segment, received)
    /\ answer' = [segment |-> segment, device |-> device, received |-> received]
    /\ published' = {<<p.pointId, ValueOf(p, segment, device)>> : p \in Decoded(segment, received)}
    /\ UNCHANGED <<tableFile, stage, table, segments>>

AcqNext ==
    \/ Start
    \/ \E segment \in segments : \E device \in Devices, received \in Received(segment) :
          Answered(segment, device, received)

AcqSpec == AcqInit /\ [][AcqNext]_acqVars

-----------------------------------------------------------------------------
(* Properties.                                                             *)

(* The three indexes give every point back, those of a slave by address. *)
IndexesAgree ==
    \A p \in AllPoints(table) :
        /\ PointIdOf(table, p.pointId) = {p}
        /\ Resolve(table, p.slaveAddress, p.registerAddr) = {p}
        /\ LET all == AllOnSlave(table, p.slaveAddress)
           IN  /\ p \in ToSet(all)
               /\ \A i \in 2 .. Len(all) : all[i - 1].registerAddr < all[i].registerAddr

(* Every row of the file is found again, and every enabled point is read   *)
(* by exactly one segment of its slave and type, all its registers         *)
(* included; no read is longer than the protocol allows or touches an      *)
(* address no point has, whatever the order of the file, gaps, overlaps    *)
(* and widths (loadFromJsonFile, buildSegments).                           *)
SegmentsCoverPoints ==
    stage = "polling" =>
        /\ Len(tableFile.points) = Cardinality(AllPoints(table)) /\ IndexesAgree
        /\ \A p \in AllPoints(table) : p.enabled =>
              Cardinality({s \in segments : p \in ToSet(s.points)}) = 1
        /\ \A s \in segments :
              /\ s.qty \in 1 .. MaxQty(s.points[1].regType)
              /\ \A p \in ToSet(s.points) :
                    /\ p.enabled
                    /\ p.slaveAddress = s.points[1].slaveAddress
                    /\ p.regType = s.points[1].regType
                    /\ p.registerAddr >= s.start
                    /\ p.registerAddr + PointWidth(p) <= s.start + s.qty
              /\ \A a \in s.start .. s.start + s.qty - 1 : \E p \in ToSet(s.points) :
                    a \in p.registerAddr .. p.registerAddr + PointWidth(p) - 1

(* The words of a value as the byte order names mean them. *)
Swapped(w) == 256 * (w % 256) + w \div 256
Words(p, device) ==
    LET regs == Registers(device, p.registerAddr, Width(p))
        n    == Len(regs)
    IN  CASE p.byteOrder = "ABCD" -> regs
          [] p.byteOrder = "CDAB" -> SubSeq(regs, n \div 2 + 1, n) \o SubSeq(regs, 1, n \div 2)
          [] p.byteOrder = "BADC" -> [i \in 1 .. n |-> Swapped(regs[i])]
          [] p.byteOrder = "DCBA" -> [i \in 1 .. n |-> Swapped(regs[n + 1 - i])]

Meant(p, w) ==
    CASE p.dataType = "Uint16" -> w[1] * p.scaleFactor + p.offset
      [] p.dataType = "Int16"  -> Signed16(w[1]) * p.scaleFactor + p.offset
      [] p.dataType = "Int32"  -> (Signed16(w[1]) * 65536 + w[2]) * p.scaleFactor + p.offset
      [] p.dataType = "Float64" ->
            <<w[1] \div 32768, (w[1] % 32768) \div 16, w[1] % 16,
              w[2] \div 256, w[2] % 256, w[3] \div 256, w[3] % 256, w[4] \div 256, w[4] % 256,
              p.scaleFactor, p.offset>>

(* What is published for a point is the value its own registers hold in    *)
(* the device, in the byte order of its row; a short answer loses the      *)
(* points it does not reach and spoils no other (onResponseParsed,         *)
(* reassembleBytes).  CDAB of a single register is left out.               *)
PublishedIsHeld ==
    \A p \in AllPoints(table) :
        /\ ~IsBitType(p.regType) /\ p.dataType \notin {"Float32", "Bool"}
        /\ p.byteOrder = "CDAB" => PointWidth(p) > 1
        /\ answer # NoAnswer /\ p \in ToSet(answer.segment.points)
        => {v \in published : v[1] = p.pointId} =
               IF p.registerAddr + PointWidth(p) <= answer.segment.start + answer.received
               THEN {<<p.pointId, Meant(p, Words(p, answer.device))>>} ELSE {}
=============================================================================
