----------------------------- MODULE RingBuffer -----------------------------
(***************************************************************************)
(* RingBuffer<T>: one producer, consumers with cursors of their own, no    *)
(* lock.  The value stored at a position is the position itself, so that a *)
(* value read tells which lap of the producer it belongs to.  Every atomic *)
(* access of the code that another thread can notice is a step.            *)
(***************************************************************************)
EXTENDS Integers, Sequences, FiniteSets

CONSTANTS
    Consumers,
    Capacity,   \* slots of the buffer
    Batches,    \* lengths given to pushBatch; push is a batch of one
    Counts,     \* counts asked of readRecent
    MaxPos      \* bound: the producer stops

ASSUME CapacityAssumption == Capacity \in Nat \ {0, 1}
ASSUME BatchesAssumption == Batches \subseteq Nat \ {0} /\ Counts \subseteq Nat \ {0}
ASSUME MaxPosAssumption == MaxPos \in Nat

VARIABLES
    writePos,       \* m_writePos
    publishedPos,   \* m_publishedPos
    buffer,         \* m_buffer: the position whose value a slot holds
    stored,         \* the producer's local: next position to store
    cursors,        \* m_consumerCursors
    reader          \* locals of the readRecent in progress

vars == <<writePos, publishedPos, buffer, stored, cursors, reader>>

Empty == -1

Idle == [reading |-> FALSE, cursor |-> 0, readable |-> 0, out |-> <<>>]

Slot(pos) == pos % Capacity

Init ==
    /\ writePos = 0
    /\ publishedPos = 0
    /\ buffer = [i \in 0 .. Capacity - 1 |-> Empty]
    /\ stored = 0
    /\ cursors = [c \in Consumers |-> 0]
    /\ reader = [c \in Consumers |-> Idle]

-----------------------------------------------------------------------------
(* Producer                                                                *)

(* push, pushBatch: fetch_add reserves the positions. *)
Reserve(n) ==
    /\ writePos = publishedPos
    /\ writePos + n <= MaxPos
    /\ writePos' = writePos + n
    /\ UNCHANGED <<publishedPos, buffer, stored, cursors, reader>>

Store ==
    /\ stored < writePos
    /\ buffer' = [buffer EXCEPT ![Slot(stored)] = stored]
    /\ stored' = stored + 1
    /\ UNCHANGED <<writePos, publishedPos, cursors, reader>>

(* Mutant: the positions are published before the data is there. *)
PublishEarly ==
    /\ publishedPos < writePos
    /\ publishedPos' = writePos
    /\ UNCHANGED <<writePos, buffer, stored, cursors, reader>>

(* The release store comes after every slot of the batch. *)
Publish ==
    /\ stored = writePos
    /\ publishedPos < writePos
    /\ publishedPos' = writePos
    /\ UNCHANGED <<writePos, buffer, stored, cursors, reader>>

-----------------------------------------------------------------------------
(* Consumers                                                               *)

Least(a, b) == IF a <= b THEN a ELSE b

(* Mutant: the jump leaves one readable value out. *)
OldestReadableLate(cursor) ==
    IF publishedPos - cursor >= Capacity THEN publishedPos - Capacity + 1 ELSE cursor

(* Where a consumer that was lapped goes on. *)
OldestReadable(cursor) ==
    IF publishedPos - cursor >= Capacity THEN publishedPos - Capacity ELSE cursor

(* readRecent up to the loop; without new data it returns 0. *)
ReadBegin(c, count) ==
    /\ ~reader[c].reading
    /\ publishedPos > cursors[c]
    /\ LET from == OldestReadable(cursors[c])
       IN  reader' = [reader EXCEPT ![c] =
                        [reading |-> TRUE, cursor |-> from, out |-> <<>>,
                         readable |-> Least(publishedPos - from, Least(count, Capacity))]]
    /\ UNCHANGED <<writePos, publishedPos, buffer, stored, cursors>>

(* One load of its loop. *)
ReadOne(c) ==
    /\ reader[c].reading
    /\ Len(reader[c].out) < reader[c].readable
    /\ reader' = [reader EXCEPT ![c].out =
                    Append(@, buffer[Slot(reader[c].cursor + Len(reader[c].out))])]
    /\ UNCHANGED <<writePos, publishedPos, buffer, stored, cursors>>

ReadEnd(c) ==
    /\ reader[c].reading
    /\ Len(reader[c].out) = reader[c].readable
    /\ cursors' = [cursors EXCEPT ![c] = reader[c].cursor + reader[c].readable]
    /\ reader' = [reader EXCEPT ![c].reading = FALSE]
    /\ UNCHANGED <<writePos, publishedPos, buffer, stored>>

(* evictSlowConsumer, by the consumer itself between two reads. *)
EvictSlowConsumer(c) ==
    /\ ~reader[c].reading
    /\ publishedPos - cursors[c] >= Capacity
    /\ cursors' = [cursors EXCEPT ![c] = OldestReadable(cursors[c])]
    /\ UNCHANGED <<writePos, publishedPos, buffer, stored, reader>>

Next ==
    \/ \E n \in Batches : Reserve(n)
    \/ Store \/ Publish
    \/ \E c \in Consumers :
          \/ \E count \in Counts : ReadBegin(c, count)
          \/ ReadOne(c) \/ ReadEnd(c) \/ EvictSlowConsumer(c)

Spec == Init /\ [][Next]_vars

-----------------------------------------------------------------------------
(* Properties.                                                             *)

(* Every variable holds a value of its type. *)
TypeOK ==
    /\ writePos \in Nat /\ publishedPos \in Nat /\ stored \in Nat
    /\ buffer \in [0 .. Capacity - 1 -> Nat \cup {Empty}]
    /\ cursors \in [Consumers -> Nat]
    /\ reader \in [Consumers -> [reading : BOOLEAN, cursor : Nat, readable : Nat,
                                 out : Seq(Nat \cup {Empty})]]

(* What readRecent delivers for a position is the value pushed there or,   *)
(* if the producer lapped the reader, a later value of the same slot:      *)
(* never an empty slot, never a value of an earlier lap and never one that *)
(* was not pushed.  In particular a reader less than a lap behind gets     *)
(* exactly the values of its interval, in order.                           *)
ReadsAreCurrent ==
    \A c \in Consumers : \A i \in 1 .. Len(reader[c].out) :
        LET pos == reader[c].cursor + i - 1
            v   == reader[c].out[i]
        IN  v >= pos /\ v < writePos /\ Slot(v) = Slot(pos)

(* A consumer is never sent back: nothing is delivered twice, however the  *)
(* reads, the evictions and the laps of the producer interleave.           *)
CursorsOnlyAdvance == [][\A c \in Consumers : cursors'[c] >= cursors[c]]_vars

(* What a cursor passes was delivered or had been overwritten: between two *)
(* moves a consumer skips nothing that was still in the buffer.            *)
OnlyLostAreSkipped ==
    [][\A c \in Consumers :
          \A pos \in cursors[c] .. cursors'[c] - 1 :
              \/ pos + Capacity < publishedPos
              \/ reader[c].cursor <= pos /\ pos < reader[c].cursor + Len(reader[c].out)]_vars
=============================================================================
