------------------------- MODULE StreamAccumulator -------------------------
(***************************************************************************)
(* protocol/ModbusStreamAccumulator: bytes arrive in pieces of any size,   *)
(* frames come out.  An accumulator is [buf, slid]: the bytes from m_read  *)
(* to m_write, oldest first, and m_huntSlidBytes.                          *)
(***************************************************************************)
EXTENDS ModbusFrame

CONSTANTS
    kCapacity,       \* 4096 in the code
    kMaxHuntBytes    \* 4096 in the code

ASSUME CapacityAssumption == kCapacity \in Nat \ {0} /\ kMaxHuntBytes \in Nat \ {0}

Cleared == [buf |-> <<>>, slid |-> 0]

(* append: what does not fit pushes out the oldest bytes. *)
Appended(acc, data) ==
    LET all == acc.buf \o data
        over == IF Len(all) > kCapacity THEN Len(all) - kCapacity ELSE 0
    IN  [acc EXCEPT !.buf = SubSeq(all, over + 1, Len(all))]

PopFront(acc, n) ==
    LET left == [buf |-> SubSeq(acc.buf, n + 1, Len(acc.buf)), slid |-> acc.slid + n]
    IN  IF left.slid >= kMaxHuntBytes THEN Cleared ELSE left

(* peek: past the last byte it finds what earlier traffic left there. *)
Peek(acc, offset, stale) == IF offset < Len(acc.buf) THEN acc.buf[offset + 1] ELSE stale

CrcValid(acc, n) ==
    BitwiseCrc(SubSeq(acc.buf, 1, n - 2)) = CrcOnWire(SubSeq(acc.buf, 1, n))

(* tryExtractFrame: the accumulator afterwards and the frame, <<>> for     *)
(* false.                                                                  *)
Waiting(acc) == [acc |-> acc, frame |-> <<>>]
Sliding(acc) == [acc |-> PopFront(acc, 1), frame |-> <<>>]
(* Mutant: the frame is read and left in the buffer. *)
PoppedInPlace(acc, n) == [acc |-> acc, frame |-> SubSeq(acc.buf, 1, n)]
Popped(acc, n) == [acc |-> [buf |-> SubSeq(acc.buf, n + 1, Len(acc.buf)), slid |-> 0],
                   frame |-> SubSeq(acc.buf, 1, n)]

Taken(acc, n, isTcp) ==
    IF Len(acc.buf) < n THEN Waiting(acc)
    ELSE IF isTcp \/ CrcValid(acc, n) THEN Popped(acc, n) ELSE Sliding(acc)

(* With seven bytes of a TCP frame the function code is read one past the  *)
(* end.                                                                    *)
TryExtractFrame(acc, isTcp, stale) ==
    LET function == Peek(acc, IF isTcp THEN 7 ELSE 1, stale)
        lenField == 256 * Peek(acc, 4, stale) + Peek(acc, 5, stale)
    IN  IF Len(acc.buf) < (IF isTcp THEN 7 ELSE 4) THEN Waiting(acc)
        ELSE IF function >= 128 THEN Taken(acc, IF isTcp THEN 9 ELSE 5, isTcp)
        ELSE IF isTcp THEN IF lenField < 2 \/ 6 + lenField > kCapacity THEN Sliding(acc)
                           ELSE Taken(acc, 6 + lenField, isTcp)
        ELSE IF function \in 1 .. 4 THEN Taken(acc, 5 + Peek(acc, 2, stale), isTcp)
        ELSE IF function \in {5, 6, 15, 16} THEN Taken(acc, 8, isTcp)
        ELSE Sliding(acc)

(* Mutant: one frame for each piece of data. *)
ExtractOnce(acc, isTcp, stale) ==
    LET r == TryExtractFrame(acc, isTcp, stale)
    IN  [acc |-> r.acc, frames |-> IF r.frame = <<>> THEN <<>> ELSE <<r.frame>>, more |-> FALSE]

(* The loop of ModbusEngine::onBytesReceived: every frame there is, until  *)
(* tryExtractFrame returns false, after one slide too.                     *)
ExtractAll(acc, isTcp, stale) ==
    FoldLeft(LAMBDA st, n :
                LET r == TryExtractFrame(st.acc, isTcp, stale)
                IN  IF ~st.more THEN st
                    ELSE [acc |-> r.acc, more |-> r.frame # <<>>,
                          frames |-> IF r.frame = <<>> THEN st.frames
                                     ELSE Append(st.frames, r.frame)],
             [acc |-> acc, frames |-> <<>>, more |-> TRUE],
             [n \in 1 .. 1 + Len(acc.buf) \div 4 |-> n])
=============================================================================
