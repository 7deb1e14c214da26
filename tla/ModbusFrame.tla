---------------------------- MODULE ModbusFrame ----------------------------
(***************************************************************************)
(* protocol/ModbusFrame: a request becomes a frame, and a frame a response *)
(* [tid, unit, fc, exc, vals].  Frames are sequences of bytes.  A request  *)
(* is a unit and the record RegisterBank has for a PDU; the values of a    *)
(* coil are 0 and 1.  What is optional in the code is a sequence here, of  *)
(* one element or none.                                                    *)
(***************************************************************************)
EXTENDS Integers, Sequences, SequencesExt

-----------------------------------------------------------------------------
(* CRC-16/MODBUS: from a table when a frame is built or parsed (Crc16.h    *)
(* and core/crc16 of the simulator), bit by bit in the accumulator.        *)

Byte == 0 .. 255

(* Exclusive or, by halves of a byte. *)
XorTable ==
    [a \in 0 .. 15, b \in 0 .. 15 |->
        LET bit(x, w) == (x \div w) % 2
            both(w) == w * ((bit(a, w) + bit(b, w)) % 2)
        IN  both(1) + both(2) + both(4) + both(8)]
Xor8(a, b) == 16 * XorTable[a \div 16, b \div 16] + XorTable[a % 16, b % 16]
Xor16(a, b) == 256 * Xor8(a \div 256, b \div 256) + Xor8(a % 256, b % 256)

(* One bit: the reflected polynomial 0xA001 has bits 15, 13 and 0. *)
FlipBit(x, w) == IF (x \div w) % 2 = 1 THEN x - w ELSE x + w
ShiftedRight(crc) ==
    IF crc % 2 = 1 THEN FlipBit(FlipBit(FlipBit(crc \div 2, 32768), 8192), 1) ELSE crc \div 2
EightTimes(crc) == FoldLeft(LAMBDA c, n : ShiftedRight(c), crc, [n \in 1 .. 8 |-> n])

kCrc16ModbusTable == [index \in Byte |-> EightTimes(index)]

(* crc16Modbus, and crc16_modbus of the simulator. *)
Crc16Modbus(bytes) ==
    FoldLeft(LAMBDA crc, b : Xor16(crc \div 256, kCrc16ModbusTable[Xor8(crc % 256, b)]),
             65535, bytes)

(* The loop of ModbusStreamAccumulator::crcValid. *)
BitwiseCrc(bytes) == FoldLeft(LAMBDA crc, b : EightTimes(Xor16(crc, b)), 65535, bytes)

(* The two bytes at the end of a frame, low byte first. *)
CrcOnWire(frame) == frame[Len(frame) - 1] + 256 * frame[Len(frame)]
WithCrc(bytes) == LET crc == Crc16Modbus(bytes) IN bytes \o <<crc % 256, crc \div 256>>

Crc16ModbusVerify(frame) ==
    Len(frame) >= 4 /\ Crc16Modbus(SubSeq(frame, 1, Len(frame) - 2)) = CrcOnWire(frame)

-----------------------------------------------------------------------------
(* Words and bits *)

U16(x) == <<x \div 256, x % 256>>
ReadU16(b, at) == 256 * b[at] + b[at + 1]
WordBytes(vals) ==
    [i \in 1 .. 2 * Len(vals) |-> IF i % 2 = 1 THEN vals[(i + 1) \div 2] \div 256
                                  ELSE vals[i \div 2] % 256]
WordsIn(b) == [i \in 1 .. Len(b) \div 2 |-> ReadU16(b, 2 * i - 1)]

(* Coils, eight to a byte, the first in the lowest bit. *)
BitWeights == <<1, 2, 4, 8, 16, 32, 64, 128>>
BitOf(bits, n, i) == IF 8 * (n - 1) + i > Len(bits) THEN 0 ELSE bits[8 * (n - 1) + i]
ByteOf(bits, n) ==
    BitOf(bits, n, 1) + 2 * BitOf(bits, n, 2) + 4 * BitOf(bits, n, 3) + 8 * BitOf(bits, n, 4)
      + 16 * BitOf(bits, n, 5) + 32 * BitOf(bits, n, 6) + 64 * BitOf(bits, n, 7)
      + 128 * BitOf(bits, n, 8)

(* Mutant: bits that fill no byte are left out. *)
CoilBytesWhole(bits) == [n \in 1 .. Len(bits) \div 8 |-> ByteOf(bits, n)]

CoilBytes(bits) == [n \in 1 .. (Len(bits) + 7) \div 8 |-> ByteOf(bits, n)]
CoilsIn(b, qty) ==
    [i \in 1 .. qty |-> (b[1 + (i - 1) \div 8] \div BitWeights[1 + ((i - 1) % 8)]) % 2]

-----------------------------------------------------------------------------
(* buildRequest *)

(* What is refused, with an empty frame. *)
Buildable(unit, pdu) ==
    /\ unit \in 1 .. 247
    /\ \/ pdu.fc \in 1 .. 4 /\ pdu.qty # 0
       \/ pdu.fc = 5 /\ Len(pdu.vals) = 1 /\ pdu.vals[1] \in {0, 1}
       \/ pdu.fc = 6 /\ Len(pdu.vals) = 1
       \/ pdu.fc \in {15, 16} /\ pdu.qty # 0 /\ Len(pdu.vals) = pdu.qty

(* What follows function code and address; the byte counts have 8 bits.   *)
RequestData(pdu) ==
    CASE pdu.fc \in 1 .. 4 -> U16(pdu.qty)
      [] pdu.fc = 5 -> U16(65280 * pdu.vals[1])
      [] pdu.fc = 6 -> U16(pdu.vals[1])
      [] pdu.fc = 15 -> U16(pdu.qty) \o <<Len(CoilBytes(pdu.vals)) % 256>> \o CoilBytes(pdu.vals)
      [] pdu.fc = 16 -> U16(pdu.qty) \o <<(2 * pdu.qty) % 256>> \o WordBytes(pdu.vals)

RequestPdu(pdu) == <<pdu.fc>> \o U16(pdu.addr) \o RequestData(pdu)

(* A PDU in a frame: appendMbap for TCP, the CRC for RTU. *)
Framed(transport, tid, unit, bytes) ==
    IF transport = "Tcp" THEN U16(tid) \o U16(0) \o U16(1 + Len(bytes)) \o <<unit>> \o bytes
    ELSE WithCrc(<<unit>> \o bytes)

BuildRequest(transport, tid, unit, pdu) ==
    IF Buildable(unit, pdu) THEN Framed(transport, tid, unit, RequestPdu(pdu)) ELSE <<>>

-----------------------------------------------------------------------------
(* Responses *)

Response(tid, unit, fc, exc, vals) ==
    <<[tid |-> tid, unit |-> unit, fc |-> fc, exc |-> exc, vals |-> vals]>>

(* The data of a read, from its place in the frame. *)
ReadData(fc, data) == IF fc \in {1, 2} THEN data ELSE WordsIn(data)

ParseTcpResponse(b) ==
    IF Len(b) < 8 \/ ReadU16(b, 3) # 0 THEN <<>>
    ELSE LET mbapLen == ReadU16(b, 5)
             fc == b[8]
             of(exc, vals) == Response(ReadU16(b, 1), b[7], fc, exc, vals)
         IN  IF mbapLen < 2 \/ 6 + mbapLen > Len(b) THEN <<>>
             ELSE IF fc >= 128 THEN IF mbapLen = 3 THEN of(b[9], <<>>) ELSE <<>>
             ELSE IF fc \in 1 .. 4 THEN
                    IF \/ mbapLen < 3 \/ 3 + b[9] # mbapLen
                       \/ fc \in {3, 4} /\ b[9] % 2 # 0
                    THEN <<>> ELSE of(0, ReadData(fc, SubSeq(b, 10, 9 + b[9])))
             ELSE IF fc \in {5, 6, 15, 16} /\ mbapLen = 6
                  THEN of(0, IF fc \in {5, 6} THEN <<ReadU16(b, 9)>> ELSE <<>>)
             ELSE <<>>

(* The echo of a single write is the value here, the address over TCP. *)
ParseRtuResponse(b) ==
    IF ~Crc16ModbusVerify(b) THEN <<>>
    ELSE LET fc == b[2]
             of(exc, vals) == Response(0, b[1], fc, exc, vals)
         IN  IF fc >= 128 THEN IF Len(b) = 5 THEN of(b[3], <<>>) ELSE <<>>
             ELSE IF fc \in 1 .. 4 THEN
                    IF \/ Len(b) < 5 \/ 5 + b[3] # Len(b)
                       \/ fc \in {3, 4} /\ b[3] % 2 # 0
                    THEN <<>> ELSE of(0, ReadData(fc, SubSeq(b, 4, 3 + b[3])))
             ELSE IF fc \in {5, 6, 15, 16} /\ Len(b) = 8
                  THEN of(0, IF fc \in {5, 6} THEN <<ReadU16(b, 5)>> ELSE <<>>)
             ELSE <<>>
=============================================================================
