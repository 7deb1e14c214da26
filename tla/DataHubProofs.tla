--------------------------- MODULE DataHubProofs ---------------------------
(***************************************************************************)
(* The ring buffer, for every capacity, every set of consumers and every   *)
(* length of batches: what a reader gets is current, no cursor moves back, *)
(* and only what was overwritten is skipped.  The black box, for every set *)
(* of points, capacity, window and number of slots: a snapshot is what the *)
(* buffer holds of its window, and what was written survives any number of *)
(* interrupted writes.  The history, for every length of windows and       *)
(* months and every capacity: nothing is counted twice, what is lost is    *)
(* reported, and a query finds the rows of its interval.                   *)
(***************************************************************************)
EXTENDS RingBuffer, BlackBox, HistoryPath, SequenceLemmas, SequenceTheorems, FiniteSetTheorems,
        FunctionTheorems, WellFoundedInduction, TLAPS

Positions == 0 .. Capacity - 1

(* Every position stored so far is still in its slot or was overwritten by *)
(* a later one.                                                            *)
SlotsAreCurrent ==
    \A pos \in Nat : pos < stored =>
        /\ buffer[Slot(pos)] \in Nat
        /\ buffer[Slot(pos)] >= pos
        /\ buffer[Slot(pos)] < stored
        /\ Slot(buffer[Slot(pos)]) = Slot(pos)

(* The producer reserves, stores and publishes in this order. *)
ProducerOrder == publishedPos <= stored /\ stored <= writePos

(* A reader works between its cursor and what was published. *)
ReaderWindow ==
    \A c \in Consumers :
        /\ Len(reader[c].out) <= reader[c].readable
        /\ reader[c].cursor + reader[c].readable <= publishedPos
        /\ cursors[c] <= publishedPos
        /\ reader[c].reading => cursors[c] <= reader[c].cursor

RingIInv ==
    /\ TypeOK
    /\ SlotsAreCurrent
    /\ ProducerOrder
    /\ ReaderWindow
    /\ ReadsAreCurrent

(* A slot is one of the buffer's. *)
LEMMA SlotInBuffer == \A pos \in Nat : Slot(pos) \in Positions
  BY CapacityAssumption DEF Slot, Positions

(* The initial state satisfies the inductive invariant. *)
LEMMA RingInitially == Init => RingIInv
<1> SUFFICES ASSUME Init PROVE RingIInv
  OBVIOUS
<1> USE CapacityAssumption DEF Init
<1>1. Idle \in [reading : BOOLEAN, cursor : Nat, readable : Nat, out : Seq(Nat \cup {Empty})]
  <2>1. <<>> \in Seq(Nat \cup {Empty})
    OBVIOUS
  <2> QED  BY <2>1 DEF Idle
<1>2. TypeOK
  BY <1>1 DEF TypeOK, Empty
<1>3. SlotsAreCurrent
  BY DEF SlotsAreCurrent
<1>4. ProducerOrder
  BY DEF ProducerOrder
<1>5. ReaderWindow /\ ReadsAreCurrent
  BY DEF ReaderWindow, ReadsAreCurrent, Idle
<1> QED  BY <1>2, <1>3, <1>4, <1>5 DEF RingIInv

(* Every step keeps it. *)
LEMMA RingStep == RingIInv /\ [Next]_vars => RingIInv'
<1> SUFFICES ASSUME RingIInv, [Next]_vars PROVE RingIInv'
  OBVIOUS
<1> USE CapacityAssumption
<1>t. /\ writePos \in Nat /\ publishedPos \in Nat /\ stored \in Nat
      /\ buffer \in [Positions -> Nat \cup {Empty}]
      /\ cursors \in [Consumers -> Nat]
      /\ reader \in [Consumers -> [reading : BOOLEAN, cursor : Nat, readable : Nat,
                                   out : Seq(Nat \cup {Empty})]]
      /\ publishedPos <= stored /\ stored <= writePos
  BY DEF RingIInv, TypeOK, ProducerOrder, Positions
<1>1. ASSUME NEW n \in Batches, Reserve(n) PROVE RingIInv'
  <2>1. n \in Nat /\ writePos' \in Nat /\ writePos <= writePos'
    BY <1>1, <1>t, BatchesAssumption DEF Reserve
  <2>2. TypeOK' /\ SlotsAreCurrent' /\ ReaderWindow'
    BY <1>1, <2>1 DEF RingIInv, TypeOK, SlotsAreCurrent, ReaderWindow, Reserve
  <2>3. ProducerOrder'
    BY <1>1, <1>t, <2>1 DEF ProducerOrder, Reserve
  <2>4. ReadsAreCurrent'
    <3> SUFFICES ASSUME NEW c \in Consumers, NEW i \in 1 .. Len(reader[c].out)
                 PROVE  /\ reader[c].out[i] >= reader[c].cursor + i - 1
                        /\ reader[c].out[i] < writePos'
                        /\ Slot(reader[c].out[i]) = Slot(reader[c].cursor + i - 1)
      BY <1>1 DEF ReadsAreCurrent, Reserve
    <3>1. reader[c].out[i] \in Nat \cup {Empty}
      BY <1>t
    <3>2. /\ reader[c].out[i] >= reader[c].cursor + i - 1
          /\ reader[c].out[i] < writePos
          /\ Slot(reader[c].out[i]) = Slot(reader[c].cursor + i - 1)
      BY DEF RingIInv, ReadsAreCurrent
    <3> QED  BY <3>1, <3>2, <2>1, <1>t DEF Empty
  <2> QED  BY <2>2, <2>3, <2>4 DEF RingIInv
<1>2. ASSUME Store PROVE RingIInv'
  <2>1. /\ stored' = stored + 1 /\ stored < writePos
        /\ buffer' = [buffer EXCEPT ![Slot(stored)] = stored]
        /\ UNCHANGED <<writePos, publishedPos, cursors, reader>>
    BY <1>2 DEF Store
  <2>2. Slot(stored) \in Positions
    BY <1>t, SlotInBuffer
  <2>3. TypeOK'
    BY <1>t, <2>1, <2>2 DEF TypeOK, Positions
  <2>4. SlotsAreCurrent'
    <3> SUFFICES ASSUME NEW pos \in Nat, pos < stored + 1
                 PROVE  /\ buffer'[Slot(pos)] \in Nat
                        /\ buffer'[Slot(pos)] >= pos
                        /\ buffer'[Slot(pos)] < stored + 1
                        /\ Slot(buffer'[Slot(pos)]) = Slot(pos)
      BY <2>1 DEF SlotsAreCurrent
    <3>1. CASE Slot(pos) = Slot(stored)
      <4>1. buffer'[Slot(pos)] = stored
        BY <3>1, <2>1, <2>2, <1>t
      <4> QED  BY <4>1, <3>1, <1>t
    <3>2. CASE Slot(pos) # Slot(stored)
      <4>1. buffer'[Slot(pos)] = buffer[Slot(pos)]
        BY <3>2, <2>1, <1>t, SlotInBuffer
      <4>2. pos < stored
        BY <3>2, <1>t
      <4>3. /\ buffer[Slot(pos)] \in Nat
            /\ buffer[Slot(pos)] >= pos
            /\ buffer[Slot(pos)] < stored
            /\ Slot(buffer[Slot(pos)]) = Slot(pos)
        BY <4>2 DEF RingIInv, SlotsAreCurrent
      <4> QED  BY <4>1, <4>3, <1>t
    <3> QED  BY <3>1, <3>2
  <2>5. ProducerOrder'
    BY <1>t, <2>1 DEF ProducerOrder
  <2>6. ReaderWindow' /\ ReadsAreCurrent'
    BY <2>1 DEF RingIInv, ReaderWindow, ReadsAreCurrent
  <2> QED  BY <2>3, <2>4, <2>5, <2>6 DEF RingIInv
<1>3. ASSUME Publish PROVE RingIInv'
  <2>1. publishedPos' \in Nat /\ publishedPos <= publishedPos' /\ publishedPos' <= stored
    BY <1>3, <1>t DEF Publish
  <2>2. TypeOK' /\ SlotsAreCurrent' /\ ReadsAreCurrent'
    BY <1>3, <2>1 DEF RingIInv, TypeOK, SlotsAreCurrent, ReadsAreCurrent, Publish
  <2>3. ProducerOrder'
    BY <1>3, <1>t, <2>1 DEF ProducerOrder, Publish
  <2>4. ReaderWindow'
    <3> SUFFICES ASSUME NEW c \in Consumers
                 PROVE  /\ Len(reader[c].out) <= reader[c].readable
                        /\ reader[c].cursor + reader[c].readable <= publishedPos'
                        /\ cursors[c] <= publishedPos'
                        /\ reader[c].reading => cursors[c] <= reader[c].cursor
      BY <1>3 DEF ReaderWindow, Publish
    <3>1. /\ Len(reader[c].out) <= reader[c].readable
          /\ reader[c].cursor + reader[c].readable <= publishedPos
          /\ cursors[c] <= publishedPos
          /\ reader[c].reading => cursors[c] <= reader[c].cursor
      BY DEF RingIInv, ReaderWindow
    <3>2. cursors[c] \in Nat /\ reader[c].cursor \in Nat /\ reader[c].readable \in Nat
      BY <1>t
    <3> QED  BY <3>1, <3>2, <2>1, <1>t
  <2> QED  BY <2>2, <2>3, <2>4 DEF RingIInv
<1>4. ASSUME NEW c \in Consumers, NEW count \in Counts, ReadBegin(c, count) PROVE RingIInv'
  <2> DEFINE from == OldestReadable(cursors[c])
             n == Least(publishedPos - from, Least(count, Capacity))
             new == [reading |-> TRUE, cursor |-> from, out |-> <<>>, readable |-> n]
  <2>1. /\ publishedPos > cursors[c]
        /\ reader' = [reader EXCEPT ![c] = new]
        /\ UNCHANGED <<writePos, publishedPos, buffer, stored, cursors>>
    BY <1>4 DEF ReadBegin
  <2>2. cursors[c] \in Nat /\ count \in Nat
    BY <1>t, BatchesAssumption
  <2>3. from \in Nat /\ cursors[c] <= from /\ from <= publishedPos
    BY <2>1, <2>2, <1>t DEF OldestReadable
  <2>4. n \in Nat /\ from + n <= publishedPos
    BY <2>2, <2>3, <1>t DEF Least
  <2>5. <<>> \in Seq(Nat \cup {Empty}) /\ Len(<<>>) = 0
    OBVIOUS
  <2> HIDE DEF from, n
  <2>6. new \in [reading : BOOLEAN, cursor : Nat, readable : Nat, out : Seq(Nat \cup {Empty})]
    BY <2>3, <2>4, <2>5
  <2>7. TypeOK'
    BY <1>t, <2>1, <2>6 DEF TypeOK, Positions
  <2>8. SlotsAreCurrent' /\ ProducerOrder'
    BY <2>1 DEF RingIInv, SlotsAreCurrent, ProducerOrder
  <2>9. ReaderWindow'
    <3> SUFFICES ASSUME NEW d \in Consumers
                 PROVE  /\ Len(reader'[d].out) <= reader'[d].readable
                        /\ reader'[d].cursor + reader'[d].readable <= publishedPos
                        /\ cursors[d] <= publishedPos
                        /\ reader'[d].reading => cursors[d] <= reader'[d].cursor
      BY <2>1 DEF ReaderWindow
    <3>1. CASE d = c
      <4>1. reader'[d] = new
        BY <3>1, <2>1, <1>t
      <4> QED  BY <4>1, <3>1, <2>1, <2>2, <2>3, <2>4, <2>5, <1>t
    <3>2. CASE d # c
      <4>1. reader'[d] = reader[d]
        BY <3>2, <2>1, <1>t
      <4> QED  BY <4>1 DEF RingIInv, ReaderWindow
    <3> QED  BY <3>1, <3>2
  <2>10. ReadsAreCurrent'
    <3> SUFFICES ASSUME NEW d \in Consumers, NEW i \in 1 .. Len(reader'[d].out)
                 PROVE  /\ reader'[d].out[i] >= reader'[d].cursor + i - 1
                        /\ reader'[d].out[i] < writePos
                        /\ Slot(reader'[d].out[i]) = Slot(reader'[d].cursor + i - 1)
      BY <2>1 DEF ReadsAreCurrent
    <3>1. d # c
      <4> SUFFICES ASSUME d = c PROVE FALSE
        OBVIOUS
      <4>1. reader'[d].out = <<>>
        BY <2>1, <1>t
      <4> QED  BY <4>1
    <3>2. reader'[d] = reader[d]
      BY <3>1, <2>1, <1>t
    <3> QED  BY <3>2 DEF RingIInv, ReadsAreCurrent
  <2> QED  BY <2>7, <2>8, <2>9, <2>10 DEF RingIInv
<1>5. ASSUME NEW c \in Consumers, ReadOne(c) PROVE RingIInv'
  <2> DEFINE r == reader[c]
             pos == r.cursor + Len(r.out)
             v == buffer[Slot(pos)]
  <2>1. /\ Len(r.out) < r.readable
        /\ reader' = [reader EXCEPT ![c] = [r EXCEPT !.out = Append(r.out, v)]]
        /\ UNCHANGED <<writePos, publishedPos, buffer, stored, cursors>>
    BY <1>5, <1>t DEF ReadOne
  <2>2. /\ r \in [reading : BOOLEAN, cursor : Nat, readable : Nat, out : Seq(Nat \cup {Empty})]
        /\ r.cursor \in Nat /\ r.readable \in Nat /\ r.out \in Seq(Nat \cup {Empty})
        /\ Len(r.out) \in Nat /\ r.reading \in BOOLEAN
    BY <1>t
  <2>3. pos \in Nat /\ pos < stored
    <3>1. r.cursor + r.readable <= publishedPos
      BY DEF RingIInv, ReaderWindow
    <3> QED  BY <3>1, <2>1, <2>2, <1>t
  <2>4. v \in Nat /\ v >= pos /\ v < stored /\ Slot(v) = Slot(pos)
    BY <2>3 DEF RingIInv, SlotsAreCurrent
  <2> DEFINE out == Append(r.out, v)
  <2>5. /\ out \in Seq(Nat \cup {Empty}) /\ Len(out) = Len(r.out) + 1
        /\ out[Len(out)] = v
        /\ \A i \in 1 .. Len(r.out) : out[i] = r.out[i]
    BY <2>2, <2>4
  <2> HIDE DEF out, v
  <2>6. /\ reader' = [reader EXCEPT ![c] = [r EXCEPT !.out = out]]
        /\ reader'[c] = [r EXCEPT !.out = out]
        /\ \A d \in Consumers : d # c => reader'[d] = reader[d]
    BY <2>1, <1>t DEF out
  <2>7. [r EXCEPT !.out = out] \in [reading : BOOLEAN, cursor : Nat, readable : Nat,
                                    out : Seq(Nat \cup {Empty})]
    BY <2>2, <2>5
  <2>8. reader'[c].out = out /\ reader'[c].cursor = r.cursor
        /\ reader'[c].readable = r.readable /\ reader'[c].reading = r.reading
    BY <2>6, <2>2
  <2>9. TypeOK'
    BY <1>t, <2>1, <2>6, <2>7 DEF TypeOK, Positions
  <2>10. SlotsAreCurrent' /\ ProducerOrder'
    BY <2>1 DEF RingIInv, SlotsAreCurrent, ProducerOrder
  <2>11. ReaderWindow'
    <3> SUFFICES ASSUME NEW d \in Consumers
                 PROVE  /\ Len(reader'[d].out) <= reader'[d].readable
                        /\ reader'[d].cursor + reader'[d].readable <= publishedPos
                        /\ cursors[d] <= publishedPos
                        /\ reader'[d].reading => cursors[d] <= reader'[d].cursor
      BY <2>1 DEF ReaderWindow
    <3>0. /\ reader[d].cursor + reader[d].readable <= publishedPos
          /\ Len(reader[d].out) <= reader[d].readable
          /\ cursors[d] <= publishedPos
          /\ reader[d].reading => cursors[d] <= reader[d].cursor
      BY DEF RingIInv, ReaderWindow
    <3>1. CASE d = c
      <4>1. Len(reader'[d].out) <= reader'[d].readable
        BY <3>1, <2>8, <2>5, <2>1, <2>2
      <4> QED  BY <4>1, <3>0, <3>1, <2>8
    <3>2. CASE d # c
      BY <3>0, <3>2, <2>6
    <3> QED  BY <3>1, <3>2
  <2>12. ReadsAreCurrent'
    <3> SUFFICES ASSUME NEW d \in Consumers, NEW i \in 1 .. Len(reader'[d].out)
                 PROVE  /\ reader'[d].out[i] >= reader'[d].cursor + i - 1
                        /\ reader'[d].out[i] < writePos
                        /\ Slot(reader'[d].out[i]) = Slot(reader'[d].cursor + i - 1)
      BY <2>1 DEF ReadsAreCurrent
    <3>1. CASE d # c
      <4>1. reader'[d] = reader[d]
        BY <3>1, <2>6
      <4> QED  BY <4>1 DEF RingIInv, ReadsAreCurrent
    <3>2. CASE d = c /\ i <= Len(r.out)
      <4>1. i \in 1 .. Len(r.out)
        BY <3>2, <2>8, <2>5, <2>2
      <4>2. reader'[d].out[i] = r.out[i]
        BY <4>1, <3>2, <2>8, <2>5
      <4>3. /\ r.out[i] >= r.cursor + i - 1
            /\ r.out[i] < writePos
            /\ Slot(r.out[i]) = Slot(r.cursor + i - 1)
        BY <4>1 DEF RingIInv, ReadsAreCurrent
      <4> QED  BY <4>2, <4>3, <3>2, <2>8
    <3>3. CASE d = c /\ i > Len(r.out)
      <4>1. i = Len(out) /\ i = Len(r.out) + 1
        BY <3>3, <2>8, <2>5, <2>2
      <4>2. reader'[d].out[i] = v /\ reader'[d].cursor + i - 1 = pos
        BY <4>1, <3>3, <2>8, <2>5, <2>2
      <4> QED  BY <4>2, <2>4, <2>3, <1>t
    <3> QED  BY <3>1, <3>2, <3>3, <2>2
  <2> QED  BY <2>9, <2>10, <2>11, <2>12 DEF RingIInv
<1>6. ASSUME NEW c \in Consumers, ReadEnd(c) PROVE RingIInv'
  <2> DEFINE r == reader[c]
             k == r.cursor + r.readable
  <2>1. /\ cursors' = [cursors EXCEPT ![c] = k]
        /\ reader' = [reader EXCEPT ![c] = [r EXCEPT !.reading = FALSE]]
        /\ UNCHANGED <<writePos, publishedPos, buffer, stored>>
    BY <1>6, <1>t DEF ReadEnd
  <2>2. /\ r \in [reading : BOOLEAN, cursor : Nat, readable : Nat, out : Seq(Nat \cup {Empty})]
        /\ k \in Nat /\ k <= publishedPos
    BY <1>t DEF RingIInv, ReaderWindow
  <2>3. [r EXCEPT !.reading = FALSE] \in [reading : BOOLEAN, cursor : Nat, readable : Nat,
                                          out : Seq(Nat \cup {Empty})]
    BY <2>2
  <2>4. TypeOK'
    BY <1>t, <2>1, <2>2, <2>3 DEF TypeOK, Positions
  <2>5. \A d \in Consumers : /\ reader'[d].out = reader[d].out
                             /\ reader'[d].cursor = reader[d].cursor
                             /\ reader'[d].readable = reader[d].readable
                             /\ d # c => reader'[d].reading = reader[d].reading /\ cursors'[d] = cursors[d]
    BY <2>1, <2>2, <1>t
  <2>6. reader'[c].reading = FALSE /\ cursors'[c] = k
    BY <2>1, <2>2, <1>t
  <2>7. SlotsAreCurrent' /\ ProducerOrder' /\ ReadsAreCurrent'
    BY <2>1, <2>5 DEF RingIInv, SlotsAreCurrent, ProducerOrder, ReadsAreCurrent
  <2>8. ReaderWindow'
    <3> SUFFICES ASSUME NEW d \in Consumers
                 PROVE  /\ Len(reader'[d].out) <= reader'[d].readable
                        /\ reader'[d].cursor + reader'[d].readable <= publishedPos
                        /\ cursors'[d] <= publishedPos
                        /\ reader'[d].reading => cursors'[d] <= reader'[d].cursor
      BY <2>1 DEF ReaderWindow
    <3>0. /\ reader[d].cursor + reader[d].readable <= publishedPos
          /\ Len(reader[d].out) <= reader[d].readable
          /\ cursors[d] <= publishedPos
          /\ reader[d].reading => cursors[d] <= reader[d].cursor
      BY DEF RingIInv, ReaderWindow
    <3> QED  BY <3>0, <2>2, <2>5, <2>6
  <2> QED  BY <2>4, <2>7, <2>8 DEF RingIInv
<1>7. ASSUME NEW c \in Consumers, EvictSlowConsumer(c) PROVE RingIInv'
  <2> DEFINE k == OldestReadable(cursors[c])
  <2>1. /\ cursors' = [cursors EXCEPT ![c] = k] /\ reader[c].reading = FALSE
        /\ UNCHANGED <<writePos, publishedPos, buffer, stored, reader>>
    BY <1>7, <1>t DEF EvictSlowConsumer
  <2>2. k \in Nat /\ k <= publishedPos
    <3>1. cursors[c] \in Nat /\ cursors[c] <= publishedPos
      BY <1>t DEF RingIInv, ReaderWindow
    <3>2. publishedPos - cursors[c] >= Capacity
      BY <1>7 DEF EvictSlowConsumer
    <3> QED  BY <3>1, <3>2, <1>t DEF OldestReadable
  <2> HIDE DEF k
  <2>3. TypeOK'
    BY <1>t, <2>1, <2>2 DEF TypeOK, Positions
  <2>4. SlotsAreCurrent' /\ ProducerOrder' /\ ReadsAreCurrent'
    BY <2>1 DEF RingIInv, SlotsAreCurrent, ProducerOrder, ReadsAreCurrent
  <2>5. ReaderWindow'
    BY <1>t, <2>1, <2>2 DEF RingIInv, ReaderWindow
  <2> QED  BY <2>3, <2>4, <2>5 DEF RingIInv
<1>8. CASE UNCHANGED vars
  BY <1>8 DEF vars, RingIInv, TypeOK, SlotsAreCurrent, ProducerOrder, ReaderWindow, ReadsAreCurrent
<1> QED  BY <1>1, <1>2, <1>3, <1>4, <1>5, <1>6, <1>7, <1>8 DEF Next

(* The inductive invariant holds in every reachable state. *)
LEMMA RingInvariance == Spec => []RingIInv
  BY RingInitially, RingStep, PTL DEF Spec

(* Type correctness of the ring buffer. *)
THEOREM RingTypeCorrect == Spec => []TypeOK
<1>1. RingIInv => TypeOK
  BY DEF RingIInv
<1> QED  BY <1>1, RingInvariance, PTL

(* readRecent never delivers an empty slot, a value of an earlier lap or   *)
(* one that was not pushed, for every capacity and every batch length.     *)
THEOREM RingReadsAreCurrent == Spec => []ReadsAreCurrent
<1>1. RingIInv => ReadsAreCurrent
  BY DEF RingIInv
<1> QED  BY <1>1, RingInvariance, PTL

(* No cursor ever moves back. *)
THEOREM RingCursorsOnlyAdvance == Spec => CursorsOnlyAdvance
<1>1. RingIInv /\ [Next]_vars => [\A c \in Consumers : cursors'[c] >= cursors[c]]_vars
  <2> SUFFICES ASSUME RingIInv, Next, NEW d \in Consumers PROVE cursors'[d] >= cursors[d]
    OBVIOUS
  <2>t. /\ cursors \in [Consumers -> Nat] /\ publishedPos \in Nat
        /\ reader \in [Consumers -> [reading : BOOLEAN, cursor : Nat, readable : Nat,
                                     out : Seq(Nat \cup {Empty})]]
    BY DEF RingIInv, TypeOK
  <2>0. cursors[d] \in Nat /\ cursors[d] >= cursors[d]
    BY <2>t
  <2>1. CASE cursors' = cursors
    BY <2>0, <2>1
  <2>2. ASSUME NEW c \in Consumers, ReadEnd(c) PROVE cursors'[d] >= cursors[d]
    <3>1. CASE d = c
      <4>1. /\ reader[c].reading
            /\ cursors'[c] = reader[c].cursor + reader[c].readable
        BY <2>2, <2>t DEF ReadEnd
      <4>2. cursors[c] <= reader[c].cursor
        BY <4>1 DEF RingIInv, ReaderWindow
      <4>3. reader[c].cursor \in Nat /\ reader[c].readable \in Nat
        BY <2>t
      <4> QED  BY <4>1, <4>2, <4>3, <3>1, <2>0
    <3>2. CASE d # c
      BY <2>2, <2>0, <2>t, <3>2 DEF ReadEnd
    <3> QED  BY <3>1, <3>2
  <2>3. ASSUME NEW c \in Consumers, EvictSlowConsumer(c) PROVE cursors'[d] >= cursors[d]
    <3>1. CASE d = c
      BY <2>3, <2>0, <2>t, <3>1, CapacityAssumption DEF EvictSlowConsumer, OldestReadable
    <3>2. CASE d # c
      BY <2>3, <2>0, <2>t, <3>2 DEF EvictSlowConsumer
    <3> QED  BY <3>1, <3>2
  <2> QED  BY <2>1, <2>2, <2>3 DEF Next, Reserve, Store, Publish, ReadBegin, ReadOne
<1> QED  BY <1>1, RingInvariance, PTL DEF Spec, CursorsOnlyAdvance

(* A reader begins at its cursor or, when it was lapped, behind what the   *)
(* producer has overwritten.                                               *)
JumpsOverLost ==
    \A c \in Consumers :
        reader[c].reading =>
            reader[c].cursor = cursors[c] \/ reader[c].cursor + Capacity <= publishedPos

LEMMA JumpsInitially == Init => JumpsOverLost
  BY DEF Init, JumpsOverLost, Idle

LEMMA JumpsStep == RingIInv /\ JumpsOverLost /\ [Next]_vars => JumpsOverLost'
<1> SUFFICES ASSUME RingIInv, JumpsOverLost, [Next]_vars PROVE JumpsOverLost'
  OBVIOUS
<1>t. /\ writePos \in Nat /\ publishedPos \in Nat /\ stored \in Nat /\ Capacity \in Nat
      /\ cursors \in [Consumers -> Nat]
      /\ reader \in [Consumers -> [reading : BOOLEAN, cursor : Nat, readable : Nat,
                                   out : Seq(Nat \cup {Empty})]]
      /\ publishedPos <= stored /\ stored <= writePos
  BY CapacityAssumption DEF RingIInv, TypeOK, ProducerOrder
<1>0. ASSUME publishedPos' \in Nat, publishedPos <= publishedPos', UNCHANGED <<cursors, reader>>
      PROVE  JumpsOverLost'
  <2> SUFFICES ASSUME NEW c \in Consumers, reader[c].reading
               PROVE  reader[c].cursor = cursors[c] \/ reader[c].cursor + Capacity <= publishedPos'
    BY <1>0 DEF JumpsOverLost
  <2>1. reader[c].cursor = cursors[c] \/ reader[c].cursor + Capacity <= publishedPos
    BY DEF JumpsOverLost
  <2>2. reader[c].cursor \in Nat
    BY <1>t
  <2> QED
    BY <1>0, <1>t, <2>1, <2>2
<1>1. CASE (\E n \in Batches : Reserve(n)) \/ Store \/ Publish \/ UNCHANGED vars
  BY <1>0, <1>1, <1>t DEF Reserve, Store, Publish, vars
<1>2. ASSUME NEW c \in Consumers, NEW count \in Counts, ReadBegin(c, count) PROVE JumpsOverLost'
  <2>1. /\ publishedPos > cursors[c] /\ UNCHANGED <<publishedPos, cursors>>
        /\ reader'[c].cursor = OldestReadable(cursors[c])
        /\ \A d \in Consumers \ {c} : reader'[d] = reader[d]
    BY <1>2, <1>t DEF ReadBegin
  <2>2. cursors[c] \in Nat
    BY <1>t
  <2>3. OldestReadable(cursors[c]) = cursors[c] \/ OldestReadable(cursors[c]) + Capacity <= publishedPos
    BY <1>t, <2>2 DEF OldestReadable
  <2> QED
    BY <2>1, <2>3 DEF JumpsOverLost
<1>3. ASSUME NEW c \in Consumers, ReadOne(c) PROVE JumpsOverLost'
  <2>1. /\ UNCHANGED <<publishedPos, cursors>>
        /\ \A d \in Consumers : reader'[d].reading = reader[d].reading /\ reader'[d].cursor = reader[d].cursor
    BY <1>3, <1>t DEF ReadOne
  <2> QED
    BY <2>1 DEF JumpsOverLost
<1>4. ASSUME NEW c \in Consumers, ReadEnd(c) PROVE JumpsOverLost'
  <2>1. /\ publishedPos' = publishedPos /\ ~reader'[c].reading
        /\ \A d \in Consumers \ {c} : reader'[d] = reader[d] /\ cursors'[d] = cursors[d]
    BY <1>4, <1>t DEF ReadEnd
  <2> QED
    BY <2>1 DEF JumpsOverLost
<1>5. ASSUME NEW c \in Consumers, EvictSlowConsumer(c) PROVE JumpsOverLost'
  <2>1. /\ UNCHANGED <<publishedPos, reader>> /\ ~reader[c].reading
        /\ \A d \in Consumers \ {c} : cursors'[d] = cursors[d]
    BY <1>5, <1>t DEF EvictSlowConsumer
  <2> QED
    BY <2>1 DEF JumpsOverLost
<1> QED
  BY <1>1, <1>2, <1>3, <1>4, <1>5 DEF Next

(* Between two moves of its cursor a consumer skips nothing that was still *)
(* in the buffer: what a cursor passes was delivered or had been           *)
(* overwritten (readRecent, evictSlowConsumer).                            *)
THEOREM RingSkipsOnlyLost == Spec => OnlyLostAreSkipped
<1>1. RingIInv /\ JumpsOverLost /\ [Next]_vars =>
        [\A c \in Consumers : \A pos \in cursors[c] .. cursors'[c] - 1 :
              \/ pos + Capacity < publishedPos
              \/ reader[c].cursor <= pos /\ pos < reader[c].cursor + Len(reader[c].out)]_vars
  <2> SUFFICES ASSUME RingIInv, JumpsOverLost, Next, NEW d \in Consumers,
                      NEW pos \in cursors[d] .. cursors'[d] - 1
               PROVE  \/ pos + Capacity < publishedPos
                      \/ reader[d].cursor <= pos /\ pos < reader[d].cursor + Len(reader[d].out)
    OBVIOUS
  <2>t. /\ cursors \in [Consumers -> Nat] /\ publishedPos \in Nat /\ Capacity \in Nat
        /\ reader \in [Consumers -> [reading : BOOLEAN, cursor : Nat, readable : Nat,
                                     out : Seq(Nat \cup {Empty})]]
    BY CapacityAssumption DEF RingIInv, TypeOK
  <2>0. cursors[d] \in Nat /\ reader[d].cursor \in Nat /\ reader[d].readable \in Nat
    BY <2>t
  <2>1. cursors'[d] # cursors[d]
    <3> SUFFICES ASSUME cursors'[d] = cursors[d] PROVE FALSE
      OBVIOUS
    <3> QED
      BY <2>0
  <2>2. ReadEnd(d) \/ EvictSlowConsumer(d)
    BY <2>1, <2>t DEF Next, Reserve, Store, Publish, ReadBegin, ReadOne, ReadEnd, EvictSlowConsumer
  <2>3. CASE ReadEnd(d)
    <3>1. /\ reader[d].reading /\ Len(reader[d].out) = reader[d].readable
          /\ cursors'[d] = reader[d].cursor + reader[d].readable
      BY <2>3, <2>t DEF ReadEnd
    <3>2. reader[d].cursor = cursors[d] \/ reader[d].cursor + Capacity <= publishedPos
      BY <3>1 DEF JumpsOverLost
    <3> QED
      BY <2>0, <2>t, <3>1, <3>2
  <2>4. CASE EvictSlowConsumer(d)
    <3>1. cursors'[d] = OldestReadable(cursors[d]) /\ publishedPos - cursors[d] >= Capacity
      BY <2>4, <2>t DEF EvictSlowConsumer
    <3> QED
      BY <2>0, <2>t, <3>1 DEF OldestReadable
  <2> QED
    BY <2>2, <2>3, <2>4
<1> QED
  BY <1>1, JumpsInitially, JumpsStep, RingInvariance, PTL DEF Spec, OnlyLostAreSkipped

-----------------------------------------------------------------------------
(* The black box.                                                          *)

(* The loop of extractRange as a function of the number of its turns; the *)
(* recursive function of the model exists, which the least number of turns *)
(* it would not exist for shows.                                           *)
Taken(scan, from, most, out, n) ==
    IF scan[n] >= from /\ Len(out) < most THEN Append(out, scan[n]) ELSE out

Loop(scan, from, most, last) ==
    LET out[n \in 0 .. last] ==
            IF n = 0 THEN <<>>
            ELSE IF scan[n] >= from /\ Len(out[n - 1]) < most
                 THEN Append(out[n - 1], scan[n]) ELSE out[n - 1]
    IN  out[last]

IsLoop(f, scan, from, most, last) ==
    f = [n \in 0 .. last |-> IF n = 0 THEN <<>> ELSE Taken(scan, from, most, f[n - 1], n)]

(* For any number of turns the loop's function exists.                     *)
LEMMA LoopExists ==
    ASSUME NEW scan, NEW from, NEW most, NEW last \in Nat
    PROVE  \E f : IsLoop(f, scan, from, most, last)
<1> DEFINE E(n) == \E f : IsLoop(f, scan, from, most, n)
           T == {n \in Nat : ~ E(n)}
<1>1. SUFFICES ASSUME T # {} PROVE FALSE
  OBVIOUS
<1>2. PICK n \in T : \A m \in T : n <= m
  BY <1>1, LeastNatural
<1>3. n \in Nat /\ ~ E(n)
  BY <1>2
<1>4. CASE n = 0
  <2> DEFINE f == [i \in 0 .. 0 |-> <<>>]
  <2>1. IsLoop(f, scan, from, most, 0)
    BY DEF IsLoop
  <2> QED
    BY <1>3, <1>4, <2>1
<1>5. CASE n # 0
  <2>1. n - 1 \in Nat /\ n - 1 < n
    BY <1>3, <1>5
  <2>2. E(n - 1)
    BY <1>2, <1>3, <2>1
  <2>3. PICK g : IsLoop(g, scan, from, most, n - 1)
    BY <2>2
  <2> DEFINE f == [i \in 0 .. n |-> IF i < n THEN g[i] ELSE Taken(scan, from, most, g[n - 1], n)]
  <2>4. \A i \in 0 .. n - 1 : f[i] = g[i]
    BY <1>3
  <2>5. \A i \in 0 .. n : f[i] = IF i = 0 THEN <<>> ELSE Taken(scan, from, most, f[i - 1], i)
    <3>1. ASSUME NEW i \in 0 .. n - 1 PROVE g[i] = IF i = 0 THEN <<>> ELSE Taken(scan, from, most, g[i - 1], i)
      BY <2>1, <2>3 DEF IsLoop
    <3>2. ASSUME NEW i \in 0 .. n - 1 PROVE f[i] = IF i = 0 THEN <<>> ELSE Taken(scan, from, most, f[i - 1], i)
      BY <1>3, <2>4, <3>1
    <3>3. f[n] = Taken(scan, from, most, f[n - 1], n)
      BY <1>3, <2>1, <2>4
    <3> QED
      BY <1>3, <1>5, <3>2, <3>3
  <2> HIDE DEF f
  <2>6. f = [i \in 0 .. n |-> f[i]]
    BY DEF f
  <2>7. IsLoop(f, scan, from, most, n)
    BY <2>5, <2>6 DEF IsLoop
  <2> QED
    BY <1>3, <2>7
<1> QED
  BY <1>4, <1>5

(* What the loop yields is the value of that function after its last turn. *)
LEMMA LoopResult ==
    ASSUME NEW scan, NEW from, NEW most, NEW last \in Nat
    PROVE  \E f : IsLoop(f, scan, from, most, last) /\ Loop(scan, from, most, last) = f[last]
<1> DEFINE out == CHOOSE f : IsLoop(f, scan, from, most, last)
<1>1. IsLoop(out, scan, from, most, last)
  BY LoopExists
<1>2. Loop(scan, from, most, last) = out[last]
  BY DEF Loop, IsLoop, Taken
<1> QED
  BY <1>1, <1>2

(* After n turns the output holds, of the first n values, those not before *)
(* `from', unless it is full.                                              *)
OutputFits(out, scan, from, most, n) ==
    /\ out \in Seq(Nat)
    /\ Len(out) < most =>
          /\ \A i \in 1 .. Len(out) : \E j \in 1 .. n : out[i] = scan[j] /\ scan[j] >= from
          /\ \A j \in 1 .. n : scan[j] >= from => \E i \in 1 .. Len(out) : out[i] = scan[j]

TurnFits(f, scan, from, most, n) == OutputFits(f[n], scan, from, most, n)

LEMMA LoopTurns ==
    ASSUME NEW f, NEW scan, NEW from \in Nat, NEW most \in Nat, NEW last \in Nat,
           IsLoop(f, scan, from, most, last), \A i \in 1 .. last : scan[i] \in Nat
    PROVE  \A n \in 0 .. last : TurnFits(f, scan, from, most, n)
<1> DEFINE T == {n \in 0 .. last : ~ TurnFits(f, scan, from, most, n)}
<1>1. SUFFICES ASSUME T # {} PROVE FALSE
  OBVIOUS
<1>0. T \subseteq Nat
  OBVIOUS
<1>2. PICK n \in T : \A m \in T : n <= m
  <2> HIDE DEF T
  <2> QED
    BY <1>0, <1>1, LeastNatural
<1>3. n \in 0 .. last /\ ~ TurnFits(f, scan, from, most, n)
  BY <1>2
<1>4. CASE n = 0
  <2>1. f[n] = <<>>
    BY <1>3, <1>4 DEF IsLoop
  <2>2. f[n] \in Seq(Nat) /\ Len(f[n]) = 0
    BY <2>1
  <2> QED
    BY <1>3, <1>4, <2>2 DEF TurnFits, OutputFits
<1>5. CASE n # 0
  <2>1. n - 1 \in 0 .. last /\ n - 1 < n /\ n \in 1 .. last
    BY <1>3, <1>5
  <2>2. TurnFits(f, scan, from, most, n - 1)
    BY <1>2, <1>3, <2>1
  <2>3. f[n] = Taken(scan, from, most, f[n - 1], n)
    BY <1>3, <1>5 DEF IsLoop
  <2>4. PICK s : s = f[n - 1]
    OBVIOUS
  <2>5. s \in Seq(Nat) /\ Len(s) \in Nat /\ scan[n] \in Nat
    BY <2>1, <2>2, <2>4 DEF TurnFits, OutputFits
  <2>6. Len(s) < most =>
          /\ \A i \in 1 .. Len(s) : \E j \in 1 .. n - 1 : s[i] = scan[j] /\ scan[j] >= from
          /\ \A j \in 1 .. n - 1 : scan[j] >= from => \E i \in 1 .. Len(s) : s[i] = scan[j]
    BY <2>2, <2>4 DEF TurnFits, OutputFits
  <2>7. CASE scan[n] >= from /\ Len(s) < most
    <3>1. PICK t : t = Append(s, scan[n])
      OBVIOUS
    <3>2. f[n] = t
      BY <2>3, <2>4, <2>7, <3>1 DEF Taken
    <3>3. /\ t \in Seq(Nat) /\ Len(t) = Len(s) + 1 /\ t[Len(s) + 1] = scan[n]
          /\ \A i \in 1 .. Len(s) : t[i] = s[i]
      BY <2>5, <3>1
    <3>4. ASSUME NEW i \in 1 .. Len(t)
          PROVE  \E j \in 1 .. n : t[i] = scan[j] /\ scan[j] >= from
      <4>1. CASE i = Len(s) + 1
        BY <2>1, <2>7, <3>3, <4>1
      <4>2. CASE i # Len(s) + 1
        <5>1. i \in 1 .. Len(s)
          BY <2>5, <3>3, <4>2
        <5>2. PICK j \in 1 .. n - 1 : s[i] = scan[j] /\ scan[j] >= from
          BY <2>6, <2>7, <5>1
        <5>3. j \in 1 .. n
          BY <2>1, <5>2
        <5> QED
          BY <3>3, <5>1, <5>2, <5>3
      <4> QED
        BY <4>1, <4>2
    <3>5. ASSUME NEW j \in 1 .. n, scan[j] >= from
          PROVE  \E i \in 1 .. Len(t) : t[i] = scan[j]
      <4>1. CASE j = n
        <5>1. Len(s) + 1 \in 1 .. Len(t)
          BY <2>5, <3>3
        <5> QED
          BY <3>3, <4>1, <5>1, Zenon
      <4>2. CASE j # n
        <5>1. j \in 1 .. n - 1
          BY <2>1, <4>2
        <5>2. PICK i \in 1 .. Len(s) : s[i] = scan[j]
          BY <2>6, <2>7, <3>5, <5>1
        <5> QED
          BY <2>5, <3>3, <5>2
      <4> QED
        BY <4>1, <4>2
    <3>6. TurnFits(f, scan, from, most, n)
      BY <3>2, <3>3, <3>4, <3>5 DEF TurnFits, OutputFits
    <3> QED
      BY <1>3, <3>6
  <2>8. CASE ~(scan[n] >= from /\ Len(s) < most)
    <3>1. f[n] = s
      BY <2>3, <2>4, <2>8 DEF Taken
    <3>2. ASSUME Len(s) < most
          PROVE  /\ \A i \in 1 .. Len(s) : \E j \in 1 .. n : s[i] = scan[j] /\ scan[j] >= from
                 /\ \A j \in 1 .. n : scan[j] >= from => \E i \in 1 .. Len(s) : s[i] = scan[j]
      <4>1. ~(scan[n] >= from) /\ \A j \in 1 .. n : j \in 1 .. n - 1 \/ j = n
        BY <2>1, <2>8, <3>2
      <4>2. \A j \in 1 .. n - 1 : j \in 1 .. n
        BY <2>1
      <4> QED
        BY <2>6, <3>2, <4>1, <4>2
    <3>3. TurnFits(f, scan, from, most, n)
      BY <2>5, <3>1, <3>2 DEF TurnFits, OutputFits
    <3> QED
      BY <1>3, <3>3
  <2> QED
    BY <2>7, <2>8
<1> QED
  BY <1>4, <1>5

(* The value in the slot of a position is one the buffer still holds.      *)
LEMMA Division ==
    ASSUME NEW x \in Nat, NEW c \in Nat \ {0}
    PROVE  /\ x \div c \in Nat
           /\ \E r \in 0 .. c - 1 : x = c * (x \div c) + r
           /\ x < c => x \div c = 0
<1>1. \E r \in 0 .. c - 1 : x = c * (x \div c) + r
  BY SMTT(30)
<1>2. x < c => x \div c = 0
  OBVIOUS
<1>3. x \div c \in Nat
  <2>1. x \div c \in Int
    OBVIOUS
  <2>2. x \div c >= 0
    OBVIOUS
  <2> QED
    BY <2>1, <2>2
<1> QED
  BY <1>1, <1>2, <1>3

LEMMA SlotHolds ==
    ASSUME NEW ring \in Seq(Nat), NEW pos \in 0 .. Len(ring) - 1
    PROVE  \E j \in 1 .. Len(ring) :
              /\ SlotValue(ring, pos) = ring[j] /\ j > Len(ring) - RingCapacity
              /\ pos + 1 > Len(ring) - RingCapacity => j = pos + 1
<1> DEFINE x == Len(ring) - 1 - pos
           q == x \div RingCapacity
           j == pos + 1 + RingCapacity * q
<1>1. Len(ring) \in Nat /\ x \in Nat /\ RingCapacity \in Nat \ {0} /\ pos \in Nat
  BY SizesAssumption
<1> HIDE DEF x
<1>2. q \in Nat /\ \E r \in 0 .. RingCapacity - 1 : x = RingCapacity * q + r
  BY <1>1, Division
<1>3. x < RingCapacity => q = 0
  BY <1>1, Division
<1> HIDE DEF q
<1>4. PICK y : y = RingCapacity * q
  OBVIOUS
<1>5. y \in Nat /\ (q = 0 => y = 0)
  BY <1>1, <1>2, <1>4
<1>6. PICK r \in 0 .. RingCapacity - 1 : x = y + r
  BY <1>2, <1>4
<1>7. j = pos + 1 + y
  BY <1>4
<1>8. x = Len(ring) - 1 - pos
  BY DEF x
<1> HIDE DEF j
<1>9. j \in 1 .. Len(ring) /\ j > Len(ring) - RingCapacity
  BY <1>1, <1>5, <1>6, <1>7, <1>8
<1>10. pos + 1 > Len(ring) - RingCapacity => j = pos + 1
  BY <1>1, <1>3, <1>5, <1>7, <1>8
<1>11. SlotValue(ring, pos) = ring[j]
  BY DEF SlotValue, j, q, x
<1> QED
  BY <1>9, <1>10, <1>11

(* extractRange is its loop over as many positions as are not behind the   *)
(* window.                                                                 *)
LEMMA Extraction ==
    ASSUME NEW ring \in Seq(Nat), NEW startTs \in Nat, NEW endTs \in Nat, NEW maxCount \in Nat
    PROVE  \E f, scan : \E last \in 0 .. Len(ring) :
              /\ scan = [i \in DOMAIN ring |-> SlotValue(ring, i - 1)]
              /\ \A i \in 1 .. Len(ring) : scan[i] \in Nat
              /\ (\A i \in 1 .. Len(ring) : scan[i] <= endTs) => last = Len(ring)
              /\ IsLoop(f, scan, startTs, maxCount, last)
              /\ ExtractRange(ring, startTs, endTs, maxCount) = f[last]
<1>1. Len(ring) \in Nat /\ DOMAIN ring = 1 .. Len(ring)
  OBVIOUS
<1>2. PICK scan : scan = [i \in DOMAIN ring |-> SlotValue(ring, i - 1)]
  OBVIOUS
<1>3. ASSUME NEW i \in 1 .. Len(ring) PROVE scan[i] \in Nat
  <2>1. i - 1 \in 0 .. Len(ring) - 1 /\ scan[i] = SlotValue(ring, i - 1)
    BY <1>1, <1>2
  <2>2. PICK j \in 1 .. Len(ring) : SlotValue(ring, i - 1) = ring[j]
    BY <2>1, SlotHolds
  <2> QED
    BY <2>1, <2>2
<1>4. PICK stop : stop = {i \in DOMAIN ring : scan[i] > endTs}
  OBVIOUS
<1>5. PICK last : last = IF stop = {} THEN Len(ring) ELSE LeastOf(stop) - 1
  OBVIOUS
<1>6. last \in 0 .. Len(ring)
  <2>1. CASE stop = {}
    BY <1>1, <1>5, <2>1
  <2>2. CASE stop # {}
    <3>1. stop \subseteq 1 .. Len(ring) /\ stop \in SUBSET Nat
      BY <1>1, <1>4
    <3>2. \E x \in stop : \A y \in stop : x <= y
      BY <2>2, <3>1, LeastNatural
    <3>3. LeastOf(stop) \in stop
      BY <3>2 DEF LeastOf
    <3>4. PICK least \in 1 .. Len(ring) : least = LeastOf(stop)
      BY <3>1, <3>3
    <3>5. last = least - 1
      BY <1>5, <2>2, <3>4
    <3> QED
      BY <1>1, <3>5
  <2> QED
    BY <2>1, <2>2
<1>7. (\A i \in 1 .. Len(ring) : scan[i] <= endTs) => last = Len(ring)
  <2> SUFFICES ASSUME \A i \in 1 .. Len(ring) : scan[i] <= endTs PROVE stop = {}
    BY <1>5
  <2> QED
    BY <1>1, <1>3, <1>4
<1>8. ExtractRange(ring, startTs, endTs, maxCount) = Loop(scan, startTs, maxCount, last)
  BY <1>2, <1>4, <1>5 DEF ExtractRange, Loop
<1>9. PICK f : IsLoop(f, scan, startTs, maxCount, last) /\ Loop(scan, startTs, maxCount, last) = f[last]
  BY <1>6, LoopResult
<1> QED
  BY <1>2, <1>3, <1>6, <1>7, <1>8, <1>9

-----------------------------------------------------------------------------
(* The tables of L1SnapshotStore.                                          *)

LEMMA Routing ==
    ASSUME NEW policy \in Policies, l1 = InitFromPolicy(policy), NEW p \in Ids
    PROVE  Lookup(p) \in {p, None}
<1> DEFINE minId == LeastOf(policy)
           maxId == GreatestOf(policy)
<1>1. policy \in SUBSET Nat /\ policy # {} /\ p \in Nat
  BY IdsAssumption
<1>2. minId \in Nat
  <2>1. \E x \in policy : \A y \in policy : x <= y
    BY <1>1, LeastNatural
  <2> QED
    BY <1>1, <2>1 DEF LeastOf
<1>3. maxId \in Nat
  <2>1. PICK greatest \in Nat : \A id \in policy : id <= greatest
    BY IdsAssumption
  <2>2. PICK bounds : bounds = {n \in Nat : \A id \in policy : id <= n}
    OBVIOUS
  <2>3. bounds \in SUBSET Nat /\ bounds # {}
    BY <2>1, <2>2
  <2>4. PICK n \in bounds : \A m \in bounds : n <= m
    BY <2>3, LeastNatural
  <2>5. n \in Nat /\ \A id \in policy : id <= n
    BY <2>2, <2>4
  <2>6. n \in policy
    <3> SUFFICES ASSUME n \notin policy PROVE FALSE
      OBVIOUS
    <3>1. \A id \in policy : id <= n - 1 /\ 0 <= id
      BY <1>1, <2>5
    <3>2. PICK id \in policy : 0 <= id /\ id <= n - 1 /\ id \in Nat
      BY <1>1, <3>1
    <3>3. n - 1 \in Nat
      BY <2>5, <3>2
    <3>4. n - 1 \in bounds
      BY <2>2, <3>1, <3>3
    <3> QED
      BY <2>4, <2>5, <3>4
  <2>7. \E x \in policy : \A y \in policy : x >= y
    BY <1>1, <2>5, <2>6
  <2> QED
    BY <1>1, <2>7 DEF GreatestOf
<1>4. PICK r : r = InitFromPolicy(policy)
  OBVIOUS
<1>5. Lookup(p) = IF r.index # <<>> /\ p >= r.minId /\ p <= r.maxId
                  THEN r.index[p - r.minId]
                  ELSE IF p \in r.sparse THEN p ELSE None
  BY <1>4 DEF Lookup
<1>6. CASE IsDense(policy)
  <2>1. r = [minId |-> minId, maxId |-> maxId, sparse |-> {},
             index |-> [i \in 0 .. maxId - minId |-> IF minId + i \in policy THEN minId + i ELSE None]]
    BY <1>4, <1>6, Zenon DEF InitFromPolicy
  <2> HIDE DEF minId, maxId
  <2>2. /\ r.minId = minId /\ r.maxId = maxId /\ r.sparse = {}
        /\ r.index = [i \in 0 .. maxId - minId |-> IF minId + i \in policy THEN minId + i ELSE None]
    BY <2>1
  <2>3. ASSUME p >= minId, p <= maxId PROVE r.index[p - minId] \in {p, None}
    <3>1. p - minId \in 0 .. maxId - minId /\ minId + (p - minId) = p
      BY <1>1, <1>2, <1>3, <2>3
    <3> QED
      BY <2>2, <3>1
  <2> QED
    BY <1>5, <2>2, <2>3
<1>7. CASE ~IsDense(policy)
  <2>1. r.index = <<>> /\ r.sparse = policy
    BY <1>4, <1>7 DEF InitFromPolicy
  <2> QED
    BY <1>5, <2>1
<1> QED
  BY <1>6, <1>7

(* A snapshot holds the samples since `from' that the buffer has, and no    *)
(* other.                                                                  *)
HoldsWindow(snap, ring, from) ==
    /\ \A i \in 1 .. Len(snap) : \E j \in 1 .. Len(ring) :
          j > Len(ring) - RingCapacity /\ snap[i] = ring[j] /\ ring[j] >= from
    /\ \A j \in 1 .. Len(ring) : j > Len(ring) - RingCapacity /\ ring[j] >= from =>
          \E i \in 1 .. Len(snap) : snap[i] = ring[j]

LEMMA ExtractedFits ==
    ASSUME NEW ring \in Seq(Nat), NEW startTs \in Nat, NEW endTs \in Nat, NEW maxCount \in Nat,
           NEW snap, snap = ExtractRange(ring, startTs, endTs, maxCount)
    PROVE  /\ snap \in Seq(Nat)
           /\ Len(snap) < maxCount /\ (\A j \in 1 .. Len(ring) : ring[j] <= endTs) =>
                HoldsWindow(snap, ring, startTs)
<1>1. PICK f, scan : \E last \in 0 .. Len(ring) :
              /\ scan = [i \in DOMAIN ring |-> SlotValue(ring, i - 1)]
              /\ \A i \in 1 .. Len(ring) : scan[i] \in Nat
              /\ (\A i \in 1 .. Len(ring) : scan[i] <= endTs) => last = Len(ring)
              /\ IsLoop(f, scan, startTs, maxCount, last)
              /\ ExtractRange(ring, startTs, endTs, maxCount) = f[last]
  BY Extraction, ZenonT(30)
<1>2. PICK last \in 0 .. Len(ring) :
              /\ scan = [i \in DOMAIN ring |-> SlotValue(ring, i - 1)]
              /\ \A i \in 1 .. Len(ring) : scan[i] \in Nat
              /\ (\A i \in 1 .. Len(ring) : scan[i] <= endTs) => last = Len(ring)
              /\ IsLoop(f, scan, startTs, maxCount, last)
              /\ ExtractRange(ring, startTs, endTs, maxCount) = f[last]
  BY <1>1
<1>3. snap = f[last]
  BY <1>2
<1>4. Len(ring) \in Nat /\ DOMAIN ring = 1 .. Len(ring) /\ last \in Nat
  OBVIOUS
<1>5. \A i \in 1 .. last : scan[i] \in Nat
  <2>1. \A i \in 1 .. last : i \in 1 .. Len(ring)
    BY <1>4
  <2>2. \A i \in 1 .. Len(ring) : scan[i] \in Nat
    BY <1>2
  <2> QED
    BY <2>1, <2>2
<1>6. TurnFits(f, scan, startTs, maxCount, last)
  <2>1. \A n \in 0 .. last : TurnFits(f, scan, startTs, maxCount, n)
    BY <1>2, <1>4, <1>5, LoopTurns
  <2> QED
    BY <1>4, <2>1
<1>7. /\ snap \in Seq(Nat)
      /\ Len(snap) < maxCount =>
            /\ \A i \in 1 .. Len(snap) : \E j \in 1 .. last : snap[i] = scan[j] /\ scan[j] >= startTs
            /\ \A j \in 1 .. last : scan[j] >= startTs => \E i \in 1 .. Len(snap) : snap[i] = scan[j]
  <2>1. OutputFits(snap, scan, startTs, maxCount, last)
    BY <1>3, <1>6 DEF TurnFits
  <2> QED
    BY <2>1 DEF OutputFits
<1>8. ASSUME NEW i \in 1 .. Len(ring)
      PROVE  \E j \in 1 .. Len(ring) :
                /\ scan[i] = ring[j] /\ j > Len(ring) - RingCapacity
                /\ i > Len(ring) - RingCapacity => j = i
  <2>1. i - 1 \in 0 .. Len(ring) - 1 /\ i - 1 + 1 = i
    BY <1>4
  <2>3. scan[i] = SlotValue(ring, i - 1)
    BY <1>2, <1>4
  <2>2. PICK j \in 1 .. Len(ring) :
              /\ SlotValue(ring, i - 1) = ring[j] /\ j > Len(ring) - RingCapacity
              /\ i - 1 + 1 > Len(ring) - RingCapacity => j = i - 1 + 1
    BY <2>1, SlotHolds
  <2> QED
    BY <2>1, <2>2, <2>3
<1>9. ASSUME Len(snap) < maxCount, \A j \in 1 .. Len(ring) : ring[j] <= endTs
      PROVE  HoldsWindow(snap, ring, startTs)
  <2>1. \A i \in 1 .. Len(ring) : scan[i] <= endTs
    BY <1>8, <1>9
  <2>2. last = Len(ring)
    BY <1>2, <2>1
  <2>3. ASSUME NEW i \in 1 .. Len(snap)
        PROVE  \E j \in 1 .. Len(ring) :
                  j > Len(ring) - RingCapacity /\ snap[i] = ring[j] /\ ring[j] >= startTs
    <3>1. PICK k \in 1 .. Len(ring) : snap[i] = scan[k] /\ scan[k] >= startTs
      BY <1>7, <1>9, <2>2
    <3>2. PICK j \in 1 .. Len(ring) : scan[k] = ring[j] /\ j > Len(ring) - RingCapacity
      BY <1>8
    <3> QED
      BY <3>1, <3>2
  <2>4. ASSUME NEW j \in 1 .. Len(ring), j > Len(ring) - RingCapacity, ring[j] >= startTs
        PROVE  \E i \in 1 .. Len(snap) : snap[i] = ring[j]
    <3>1. scan[j] = ring[j]
      BY <1>8, <2>4
    <3> QED
      BY <1>7, <1>9, <2>2, <2>4, <3>1
  <2> QED
    BY <2>3, <2>4 DEF HoldsWindow
<1> QED
  BY <1>7, <1>9

-----------------------------------------------------------------------------
(* The window of a snapshot.                                               *)

(* The buffers hold times that have passed, and only points of the policy  *)
(* have one.                                                               *)
Sampled ==
    /\ now \in Nat
    /\ rings \in [Ids -> Seq(Nat)]
    /\ \A p \in Ids : \A j \in 1 .. Len(rings[p]) : rings[p][j] <= now

Routed ==
    /\ \E policy \in Policies : l1 = InitFromPolicy(policy)
    /\ RoutedByPoint

WindowIInv == Sampled /\ Routed

(* Under it a snapshot is its window. *)
LEMMA WindowTaken == WindowIInv => SnapshotIsTheWindow
<1> SUFFICES ASSUME WindowIInv, NEW p \in Ids
             PROVE  LET ring == rings[p]
                        kept == SubSeq(ring, IF Len(ring) > RingCapacity
                                             THEN Len(ring) - RingCapacity + 1 ELSE 1, Len(ring))
                        snap == Snapshot(p).samples
                    IN  Len(snap) < MaxSamples =>
                            ToSet(snap) = {t \in ToSet(kept) : t + PreWindow >= now}
  BY DEF SnapshotIsTheWindow
<1>1. PICK ring : ring = rings[p]
  OBVIOUS
<1>2. ring \in Seq(Nat) /\ now \in Nat /\ Len(ring) \in Nat /\ \A j \in 1 .. Len(ring) : ring[j] <= now
  BY <1>1 DEF WindowIInv, Sampled
<1>3. PICK first : first = IF Len(ring) > RingCapacity THEN Len(ring) - RingCapacity + 1 ELSE 1
  OBVIOUS
<1>4. /\ first \in Nat /\ first >= 1
      /\ \A j \in 1 .. Len(ring) : j >= first <=> j > Len(ring) - RingCapacity
  BY <1>2, <1>3, SizesAssumption
<1>5. PICK kept : kept = SubSeq(ring, first, Len(ring))
  OBVIOUS
<1>6. /\ \A i \in 1 .. Len(kept) : \E j \in 1 .. Len(ring) : j >= first /\ kept[i] = ring[j]
      /\ \A j \in 1 .. Len(ring) : j >= first => \E i \in 1 .. Len(kept) : kept[i] = ring[j]
  <2>1. /\ Len(kept) = IF first <= Len(ring) THEN Len(ring) - first + 1 ELSE 0
        /\ \A i \in 1 .. Len(kept) : kept[i] = ring[first + i - 1]
    BY <1>2, <1>4, <1>5
  <2>2. ASSUME NEW i \in 1 .. Len(kept) PROVE \E j \in 1 .. Len(ring) : j >= first /\ kept[i] = ring[j]
    <3>1. first + i - 1 \in 1 .. Len(ring) /\ first + i - 1 >= first
      BY <1>2, <1>4, <2>1
    <3> QED
      BY <2>1, <3>1
  <2>3. ASSUME NEW j \in 1 .. Len(ring), j >= first PROVE \E i \in 1 .. Len(kept) : kept[i] = ring[j]
    <3>1. j - first + 1 \in 1 .. Len(kept) /\ first + (j - first + 1) - 1 = j
      BY <1>2, <1>4, <2>1, <2>3
    <3>2. kept[j - first + 1] = ring[first + (j - first + 1) - 1]
      BY <2>1, <3>1
    <3> QED
      BY <3>1, <3>2
  <2> QED
    BY <2>2, <2>3
<1>7. PICK snap : snap = Snapshot(p).samples
  OBVIOUS
<1>8. PICK from : from = IF now > PreWindow THEN now - PreWindow ELSE 0
  OBVIOUS
<1>9. from \in Nat /\ \A t \in Nat : t >= from <=> t + PreWindow >= now
  BY <1>2, <1>8, SizesAssumption
<1>10. now + PostWindow \in Nat /\ MaxSamples \in Nat /\ \A j \in 1 .. Len(ring) : ring[j] <= now + PostWindow
  BY <1>2, SizesAssumption
<1>11. CASE Lookup(p) = p
  <2>1. snap = ExtractRange(ring, from, now + PostWindow, MaxSamples)
    <3>1. p # None
      BY IdsAssumption DEF None
    <3> QED
      BY <1>1, <1>7, <1>8, <1>11, <3>1 DEF Snapshot
  <2>2. snap \in Seq(Nat)
    BY <1>2, <1>9, <1>10, <2>1, ExtractedFits
  <2>3. SUFFICES ASSUME Len(snap) < MaxSamples
                 PROVE  ToSet(snap) = {t \in ToSet(kept) : t + PreWindow >= now}
    BY <1>1, <1>3, <1>5, <1>7
  <2>4. /\ \A i \in 1 .. Len(snap) : \E j \in 1 .. Len(ring) :
              /\ j > Len(ring) - RingCapacity
              /\ snap[i] = ring[j] /\ ring[j] >= from
        /\ \A j \in 1 .. Len(ring) : j > Len(ring) - RingCapacity /\ ring[j] >= from =>
              \E i \in 1 .. Len(snap) : snap[i] = ring[j]
    <3>1. PICK endTs \in Nat : endTs = now + PostWindow
      BY <1>10
    <3>2. PICK most \in Nat : most = MaxSamples
      BY <1>10
    <3>3. snap = ExtractRange(ring, from, endTs, most)
      BY <2>1, <3>1, <3>2
    <3>4. Len(snap) < most /\ \A j \in 1 .. Len(ring) : ring[j] <= endTs
      BY <1>10, <2>3, <3>1, <3>2
    <3>5. HoldsWindow(snap, ring, from)
      BY <1>2, <1>9, <3>3, <3>4, ExtractedFits
    <3> QED
      BY <3>5 DEF HoldsWindow
  <2>5. ToSet(snap) = {snap[i] : i \in 1 .. Len(snap)} /\ ToSet(kept) = {kept[i] : i \in 1 .. Len(kept)}
    <3>1. kept \in Seq(Nat)
      BY <1>2, <1>4, <1>5
    <3>2. DOMAIN snap = 1 .. Len(snap) /\ DOMAIN kept = 1 .. Len(kept)
      BY <2>2, <3>1
    <3> QED
      BY <3>2, Zenon DEF ToSet
  <2>6. ASSUME NEW i \in 1 .. Len(snap)
        PROVE  \E k \in 1 .. Len(kept) : snap[i] = kept[k] /\ kept[k] + PreWindow >= now
    <3>1. PICK j \in 1 .. Len(ring) : j >= first /\ snap[i] = ring[j] /\ ring[j] >= from
      BY <1>4, <2>4
    <3>2. PICK k \in 1 .. Len(kept) : kept[k] = ring[j]
      BY <1>6, <3>1
    <3>3. ring[j] \in Nat
      BY <1>2
    <3> QED
      BY <1>9, <3>1, <3>2, <3>3
  <2>7. ASSUME NEW k \in 1 .. Len(kept), kept[k] + PreWindow >= now
        PROVE  \E i \in 1 .. Len(snap) : snap[i] = kept[k]
    <3>1. PICK j \in 1 .. Len(ring) : j >= first /\ kept[k] = ring[j]
      BY <1>6
    <3>2. ring[j] \in Nat
      BY <1>2
    <3>3. j > Len(ring) - RingCapacity /\ ring[j] >= from
      BY <1>4, <1>9, <2>7, <3>1, <3>2
    <3> QED
      BY <2>4, <3>1, <3>3
  <2>8. {snap[i] : i \in 1 .. Len(snap)}
           = {t \in {kept[i] : i \in 1 .. Len(kept)} : t + PreWindow >= now}
    <3>1. ASSUME NEW t, t \in {snap[i] : i \in 1 .. Len(snap)}
          PROVE  t \in {kept[i] : i \in 1 .. Len(kept)} /\ t + PreWindow >= now
      <4>1. PICK i \in 1 .. Len(snap) : t = snap[i]
        BY <3>1
      <4> QED
        BY <2>6, <4>1
    <3>2. ASSUME NEW t, t \in {kept[i] : i \in 1 .. Len(kept)}, t + PreWindow >= now
          PROVE  t \in {snap[i] : i \in 1 .. Len(snap)}
      <4>1. PICK k \in 1 .. Len(kept) : t = kept[k]
        BY <3>2
      <4> QED
        BY <2>7, <3>2, <4>1
    <3> QED
      BY <3>1, <3>2
  <2> QED
    BY <2>5, <2>8, Zenon
<1>12. CASE Lookup(p) = None /\ p # None
  <2>1. ring = <<>>
    BY <1>1, <1>12 DEF WindowIInv, Routed, RoutedByPoint
  <2>2. snap = <<>>
    BY <1>7, <1>12 DEF Snapshot
  <2>3. Len(kept) = 0 /\ DOMAIN kept = {}
    BY <1>2, <1>4, <1>5, <2>1
  <2>4. ToSet(snap) = {} /\ ToSet(kept) = {}
    BY <2>2, <2>3 DEF ToSet
  <2> QED
    BY <1>1, <1>3, <1>5, <1>7, <2>4
<1> QED
  <2>1. p # None
    BY IdsAssumption DEF None
  <2> QED
    BY <1>11, <1>12, <2>1 DEF WindowIInv, Routed, RoutedByPoint

(* A snapshot is one of a point, a moment and samples. *)
LEMMA SnapshotFits ==
    ASSUME WindowIInv, NEW p \in Ids
    PROVE  Snapshot(p) \in Snapshots
<1>1. now \in Nat /\ rings[p] \in Seq(Nat) /\ Lookup(p) \in {p, None}
  BY DEF WindowIInv, Sampled, Routed, RoutedByPoint
<1>2. PICK from \in Nat : from = IF now > PreWindow THEN now - PreWindow ELSE 0
  <2>1. (IF now > PreWindow THEN now - PreWindow ELSE 0) \in Nat
    BY <1>1, SizesAssumption
  <2> QED
    BY <2>1
<1>3. PICK until \in Nat : until = now + PostWindow
  BY <1>1, SizesAssumption
<1>4. PICK samples : samples = IF Lookup(p) = None THEN <<>>
                               ELSE ExtractRange(rings[Lookup(p)], from, until, MaxSamples)
  OBVIOUS
<1>5. samples \in Seq(Nat)
  <2>1. CASE Lookup(p) = None
    BY <1>4, <2>1
  <2>2. CASE Lookup(p) = p /\ Lookup(p) # None
    <3>1. samples = ExtractRange(rings[p], from, until, MaxSamples)
      BY <1>4, <2>2
    <3> QED
      BY <1>1, <3>1, SizesAssumption, ExtractedFits
  <2> QED
    BY <1>1, <2>1, <2>2
<1>6. Snapshot(p) = [pointId |-> p, alarmTime |-> now, samples |-> samples]
  BY <1>2, <1>3, <1>4 DEF Snapshot
<1> QED
  BY <1>1, <1>5, <1>6 DEF Snapshots

LEMMA WindowInitially == BoxInit => WindowIInv
<1> SUFFICES ASSUME BoxInit PROVE WindowIInv
  OBVIOUS
<1>1. now = 0 /\ rings = [p \in Ids |-> <<>>] /\ \E policy \in Policies : l1 = InitFromPolicy(policy)
  BY DEF BoxInit, NoSamples
<1>2. Sampled
  BY <1>1 DEF Sampled
<1>3. \A p \in Ids : Lookup(p) \in {p, None} /\ rings[p] = <<>>
  BY <1>1, Routing
<1> QED
  BY <1>1, <1>2, <1>3 DEF WindowIInv, Routed, RoutedByPoint

LEMMA WindowStep == WindowIInv /\ [BoxNext]_boxVars => WindowIInv'
<1> SUFFICES ASSUME WindowIInv, [BoxNext]_boxVars PROVE WindowIInv'
  OBVIOUS
<1>1. /\ now \in Nat /\ rings \in [Ids -> Seq(Nat)]
      /\ \A p \in Ids : \A j \in 1 .. Len(rings[p]) : rings[p][j] <= now
      /\ \E policy \in Policies : l1 = InitFromPolicy(policy)
      /\ \A p \in Ids : Lookup(p) \in {p, None} /\ (rings[p] # <<>> => Lookup(p) = p)
  BY DEF WindowIInv, Sampled, Routed, RoutedByPoint
<1>2. ASSUME l1' = l1 PROVE \A p \in Ids : Lookup(p)' = Lookup(p)
  BY <1>2 DEF Lookup
<1>3. ASSUME UNCHANGED <<now, l1, rings>> PROVE WindowIInv'
  BY <1>1, <1>2, <1>3 DEF WindowIInv, Sampled, Routed, RoutedByPoint
<1>4. ASSUME UNCHANGED <<now, l1>>, rings' = NoSamples PROVE WindowIInv'
  <2>1. \A p \in Ids : rings'[p] = <<>>
    BY <1>4 DEF NoSamples
  <2>2. Sampled'
    BY <1>1, <1>4, <2>1 DEF Sampled, NoSamples
  <2>3. Routed'
    BY <1>1, <1>2, <1>4, <2>1 DEF Routed, RoutedByPoint
  <2> QED
    BY <2>2, <2>3 DEF WindowIInv
<1>5. ASSUME NEW p \in Ids, Write(p) PROVE WindowIInv'
  <2>1. /\ now' = now + 1 /\ l1' = l1
        /\ rings' = IF Lookup(p) = None THEN rings ELSE [rings EXCEPT ![Lookup(p)] = Append(@, now')]
    BY <1>5 DEF Write
  <2>2. CASE Lookup(p) = None
    <3>1. Sampled'
      <4>1. \A q \in Ids : \A j \in 1 .. Len(rings[q]) : rings[q][j] \in Nat
        BY <1>1
      <4> QED
        BY <1>1, <2>1, <2>2, <4>1 DEF Sampled
    <3>2. Routed'
      BY <1>1, <1>2, <2>1, <2>2 DEF Routed, RoutedByPoint
    <3> QED
      BY <3>1, <3>2 DEF WindowIInv
  <2>3. CASE Lookup(p) # None
    <3>1. Lookup(p) = p /\ rings' = [rings EXCEPT ![p] = Append(rings[p], now + 1)]
      BY <1>1, <2>1, <2>3
    <3>2. rings' \in [Ids -> Seq(Nat)]
      BY <1>1, <3>1
    <3>3. ASSUME NEW q \in Ids, NEW j \in 1 .. Len(rings'[q]) PROVE rings'[q][j] <= now + 1
      <4>1. CASE q = p
        <5>1. PICK t : t = rings[p]
          OBVIOUS
        <5>2. t \in Seq(Nat) /\ rings'[q] = Append(t, now + 1) /\ \A i \in 1 .. Len(t) : t[i] <= now
          BY <1>1, <3>1, <4>1, <5>1
        <5>3. j \in 1 .. Len(t) + 1 /\ rings'[q][j] = IF j = Len(t) + 1 THEN now + 1 ELSE t[j]
          BY <1>1, <3>3, <5>2
        <5>4. \A i \in 1 .. Len(t) : t[i] \in Nat
          BY <5>2
        <5> QED
          BY <1>1, <5>2, <5>3, <5>4
      <4>2. CASE q # p
        <5>1. rings'[q] = rings[q] /\ j \in 1 .. Len(rings[q])
          BY <1>1, <3>1, <3>3, <4>2
        <5>2. rings[q][j] \in Nat /\ rings[q][j] <= now
          BY <1>1, <5>1
        <5> QED
          BY <1>1, <5>1, <5>2
      <4> QED
        BY <4>1, <4>2
    <3>4. Sampled'
      BY <1>1, <2>1, <3>2, <3>3 DEF Sampled
    <3>5. \A q \in Ids : q # p => rings'[q] = rings[q]
      BY <1>1, <3>1
    <3>6. Routed'
      BY <1>1, <1>2, <2>1, <3>1, <3>5 DEF Routed, RoutedByPoint
    <3> QED
      BY <3>4, <3>6 DEF WindowIInv
  <2> QED
    BY <2>2, <2>3
<1> QED
  BY <1>3, <1>4, <1>5 DEF BoxNext, TriggerBlackBox, Crash, CrashInAppend, NextProcess, boxVars

LEMMA WindowInvariance == BoxSpec => []WindowIInv
BY WindowInitially, WindowStep, PTL DEF BoxSpec

(* A snapshot that was not cut off is what the buffer still holds of its   *)
(* window: no sample is missing, none is older, also after the buffer was  *)
(* overwritten any number of times (triggerBlackBox, extractRange).        *)
THEOREM SnapshotsAreWindows == BoxSpec => []SnapshotIsTheWindow
BY WindowInvariance, WindowTaken, PTL

(* Every point of the policy is found, in both layouts of the table, and   *)
(* no sample goes to the buffer of another (initFromPolicy, lookup).       *)
THEOREM PointsAreRouted == BoxSpec => []RoutedByPoint
<1>1. WindowIInv => RoutedByPoint
  BY DEF WindowIInv, Routed
<1> QED
  BY <1>1, WindowInvariance, PTL

-----------------------------------------------------------------------------
(* The swap file.                                                          *)

SlotRecs == [pointId : Nat, alarmTime : Nat, count : Nat, samples : Seq(Nat)]

Places == 0 .. SlotCount - 1

Headers == [snapshotCount : Nat, writePos : Places, slots : [Places -> SlotRecs]]

(* The slot that was written d writes before the write position was w. *)
Back(w, d) == IF w >= d THEN w - d ELSE w + SlotCount - d

FileFits ==
    /\ file \in Headers
    /\ swap \in [initialized : BOOLEAN, writePos : Places, snapshotCount : Nat]
    /\ swap.initialized => swap.writePos = file.writePos

(* The newest snapshots lie one behind the other before the write position.*)
WrittenInOrder ==
    /\ appended \in Seq(Snapshots)
    /\ Len(appended) <= SlotCount - 1
    /\ \A n \in 1 .. Len(appended) :
          Whole(file.slots[Back(file.writePos, Len(appended) - n + 1)], appended[n])

BoxIInv == WindowIInv /\ FileFits /\ WrittenInOrder

(* What memcpy wrote is what a reader of that many samples gets. *)
LEMMA Overwritten ==
    ASSUME NEW old \in Seq(Nat), NEW new \in Seq(Nat), NEW both, both = Overwrite(old, new)
    PROVE  both \in Seq(Nat) /\ SubSeq(both, 1, Len(new)) = new
<1>1. PICK rest \in Seq(Nat) : rest = SubSeq(old, Len(new) + 1, Len(old))
  <2>1. SubSeq(old, Len(new) + 1, Len(old)) \in Seq(Nat)
    OBVIOUS
  <2> QED
    BY <2>1
<1>2. both = new \o rest
  BY <1>1 DEF Overwrite
<1>3. /\ both \in Seq(Nat) /\ Len(both) = Len(new) + Len(rest)
      /\ \A i \in 1 .. Len(new) : both[i] = new[i]
  BY <1>2
<1>4. PICK front : front = SubSeq(both, 1, Len(new))
  OBVIOUS
<1>5. front \in Seq(Nat) /\ Len(front) = Len(new) /\ \A i \in 1 .. Len(new) : front[i] = both[i]
  BY <1>3, <1>4
<1>6. front = new
  BY <1>3, <1>5, SeqEqual
<1> QED
  BY <1>3, <1>4, <1>6

(* What the stores of appendSnapshot do to the file. *)
LEMMA Stores ==
    ASSUME FileFits, swap.initialized, NEW snap \in Snapshots, NEW k \in 1 .. AllStores,
           NEW after, after = AfterStores(snap, k)
    PROVE  /\ after \in Headers
           /\ k < AllStores => after.writePos = file.writePos
           /\ k = AllStores => after.writePos = (file.writePos + 1) % SlotCount
           /\ \A i \in Places : i # file.writePos => after.slots[i] = file.slots[i]
           /\ k = AllStores => Whole(after.slots[file.writePos], snap)
<1>1. PICK s \in Places : s = swap.writePos /\ s = file.writePos
  BY DEF FileFits, Headers
<1>2. PICK slot : slot = file.slots[s]
  OBVIOUS
<1>3. slot \in SlotRecs
  BY <1>1, <1>2 DEF FileFits, Headers
<1>4. /\ slot.pointId \in Nat /\ slot.alarmTime \in Nat /\ slot.count \in Nat /\ slot.samples \in Seq(Nat)
  BY <1>3 DEF SlotRecs
<1>5. /\ snap.pointId \in Nat /\ snap.alarmTime \in Nat /\ snap.samples \in Seq(Nat)
      /\ Len(snap.samples) \in Nat
  <2>1. snap.pointId \in Ids /\ snap.alarmTime \in Nat /\ snap.samples \in Seq(Nat)
    BY DEF Snapshots
  <2>2. snap.pointId \in Nat
    BY <2>1, IdsAssumption
  <2> QED
    BY <2>1, <2>2
<1>6. PICK both : both = Overwrite(slot.samples, snap.samples)
  OBVIOUS
<1>7. both \in Seq(Nat) /\ SubSeq(both, 1, Len(snap.samples)) = snap.samples
  BY <1>4, <1>5, <1>6, Overwritten
<1>8. PICK new : new =
            [pointId   |-> IF k >= 1 THEN snap.pointId ELSE slot.pointId,
             alarmTime |-> IF k >= 2 THEN snap.alarmTime ELSE slot.alarmTime,
             count     |-> IF k >= 3 THEN Len(snap.samples) ELSE slot.count,
             samples   |-> IF k >= 4 THEN both ELSE slot.samples]
  OBVIOUS
<1>9. new \in SlotRecs
  BY <1>4, <1>5, <1>7, <1>8 DEF SlotRecs
<1>10. ASSUME k = AllStores PROVE Whole(new, snap)
  <2>1. /\ new.pointId = snap.pointId /\ new.alarmTime = snap.alarmTime
        /\ new.count = Len(snap.samples) /\ new.samples = both
    BY <1>8, <1>10 DEF AllStores
  <2> QED
    BY <1>7, <2>1 DEF Whole
<1>11. PICK counted, written : /\ counted = (IF k >= 5 THEN swap.snapshotCount + 1 ELSE file.snapshotCount)
                              /\ written = (IF k >= 6 THEN (s + 1) % SlotCount ELSE file.writePos)
  OBVIOUS
<1>12. counted \in Nat
  BY <1>11 DEF FileFits, Headers
<1>13. written \in Places
  <2>1. (s + 1) % SlotCount \in Places
    BY SizesAssumption DEF Places
  <2> QED
    BY <1>1, <1>11, <2>1
<1>14. after = [snapshotCount |-> counted, writePos |-> written, slots |-> [file.slots EXCEPT ![s] = new]]
  BY <1>1, <1>2, <1>6, <1>8, <1>11 DEF AfterStores
<1>15. /\ after.writePos = written /\ after.slots = [file.slots EXCEPT ![s] = new]
  BY <1>14
<1>16. file.slots \in [Places -> SlotRecs]
  BY DEF FileFits, Headers
<1>17. /\ after.slots \in [Places -> SlotRecs] /\ after.slots[s] = new
       /\ \A i \in Places : i # s => after.slots[i] = file.slots[i]
  BY <1>9, <1>15, <1>16
<1>18. after \in Headers
  BY <1>12, <1>13, <1>14, <1>15, <1>17 DEF Headers
<1> QED
  BY <1>1, <1>10, <1>11, <1>15, <1>17, <1>18 DEF AllStores

(* The file of the first process is empty. *)
LEMMA BoxInitially == BoxInit => BoxIInv
<1> SUFFICES ASSUME BoxInit PROVE BoxIInv
  OBVIOUS
<1>1. file = NewFile /\ swap = Opened(NewFile) /\ appended = <<>>
  BY DEF BoxInit
<1>2. EmptySlot \in SlotRecs
  <2>1. [i \in 1 .. MaxSamplesPerSnap |-> 0] \in Seq(Nat)
    BY SizesAssumption
  <2> QED
    BY <2>1 DEF EmptySlot, SlotRecs
<1>3. 0 \in Places /\ SlotCount - 1 \in Nat
  BY SizesAssumption DEF Places
<1>4. PICK slots : slots = [i \in Places |-> EmptySlot]
  OBVIOUS
<1>5. slots \in [Places -> SlotRecs]
  BY <1>2, <1>4
<1>6. file = [snapshotCount |-> 0, writePos |-> 0, slots |-> slots]
  BY <1>1, <1>4 DEF NewFile, Places
<1>7. file.writePos = 0 /\ file.snapshotCount = 0
  BY <1>6
<1>8. swap = [initialized |-> TRUE, writePos |-> 0, snapshotCount |-> 0]
  BY <1>1, <1>6, <1>7 DEF Opened
<1>9. FileFits
  <2>1. file \in Headers
    BY <1>3, <1>5, <1>6 DEF Headers
  <2>2. swap \in [initialized : BOOLEAN, writePos : Places, snapshotCount : Nat] /\ swap.writePos = 0
    BY <1>3, <1>8
  <2> QED
    BY <1>7, <2>1, <2>2 DEF FileFits
<1>10. WrittenInOrder
  <2>1. appended \in Seq(Snapshots) /\ Len(appended) = 0
    BY <1>1
  <2> QED
    BY <1>3, <2>1 DEF WrittenInOrder
<1> QED
  BY <1>9, <1>10, WindowInitially DEF BoxIInv

(* A slot that was written d writes ago is not the next to be written, and *)
(* after a write it is the one of d + 1 writes ago.                        *)
LEMMA EarlierPlace ==
    ASSUME NEW w \in Places, NEW d \in 1 .. SlotCount - 1
    PROVE  /\ Back(w, d) \in Places /\ Back(w, d) # w
           /\ Back((w + 1) % SlotCount, d + 1) = Back(w, d)
           /\ Back((w + 1) % SlotCount, 1) = w
<1>1. w \in Nat /\ w < SlotCount /\ SlotCount \in Nat \ {0} /\ d \in Nat /\ d >= 1 /\ d < SlotCount
  BY SizesAssumption DEF Places
<1>2. Back(w, d) \in Places /\ Back(w, d) # w
  BY <1>1 DEF Back, Places
<1>3. CASE w + 1 < SlotCount
  <2>1. (w + 1) % SlotCount = w + 1
    BY <1>1, <1>3
  <2> QED
    BY <1>1, <1>2, <2>1 DEF Back
<1>4. CASE w + 1 = SlotCount
  <2>1. (w + 1) % SlotCount = 0
    BY <1>1, <1>4
  <2> QED
    BY <1>1, <1>2, <1>4, <2>1 DEF Back
<1> QED
  BY <1>1, <1>3, <1>4

LEMMA NextPlace ==
    ASSUME NEW w \in Places
    PROVE  (w + 1) % SlotCount \in Places /\ Back((w + 1) % SlotCount, 1) = w
<1>1. w \in Nat /\ w < SlotCount /\ SlotCount \in Nat \ {0}
  BY SizesAssumption DEF Places
<1>2. CASE w + 1 < SlotCount
  <2>1. (w + 1) % SlotCount = w + 1
    BY <1>1, <1>2
  <2> QED
    BY <1>1, <1>2, <2>1 DEF Back, Places
<1>3. CASE w + 1 = SlotCount
  <2>1. (w + 1) % SlotCount = 0
    BY <1>1, <1>3
  <2> QED
    BY <1>1, <1>3, <2>1 DEF Back, Places
<1> QED
  BY <1>1, <1>2, <1>3

(* A write at the write position leaves the others in order and puts its   *)
(* snapshot behind them.                                                   *)
LEMMA WriteKeepsOrder ==
    ASSUME FileFits, WrittenInOrder, NEW snap \in Snapshots, NEW after, NEW newest,
           after \in Headers, after.writePos = (file.writePos + 1) % SlotCount,
           \A i \in Places : i # file.writePos => after.slots[i] = file.slots[i],
           Whole(after.slots[file.writePos], snap),
           newest = Newest(Append(appended, snap))
    PROVE  /\ newest \in Seq(Snapshots)
           /\ Len(newest) <= SlotCount - 1
           /\ \A n \in 1 .. Len(newest) :
                 Whole(after.slots[Back(after.writePos, Len(newest) - n + 1)], newest[n])
<1>1. PICK L \in Nat : L = Len(appended) /\ L <= SlotCount - 1
  BY DEF WrittenInOrder
<1>2. PICK all : all = Append(appended, snap)
  OBVIOUS
<1>3. /\ appended \in Seq(Snapshots) /\ all \in Seq(Snapshots) /\ Len(all) = L + 1
      /\ all[L + 1] = snap /\ \A n \in 1 .. L : all[n] = appended[n]
  BY <1>1, <1>2 DEF WrittenInOrder
<1>4. PICK w \in Places : w = file.writePos
  BY DEF FileFits, Headers
<1>5. Back(after.writePos, 1) = w
  BY <1>4, NextPlace
<1>6. SlotCount \in Nat \ {0}
  BY SizesAssumption
<1>7. ASSUME NEW n \in 1 .. L + 1, n > L + 1 - (SlotCount - 1)
      PROVE  Whole(after.slots[Back(after.writePos, L + 1 - n + 1)], all[n])
  <2>1. CASE n = L + 1
    <3>1. L + 1 - n + 1 = 1
      BY <2>1
    <3> QED
      BY <1>3, <1>4, <1>5, <2>1, <3>1
  <2>2. CASE n # L + 1
    <3>1. PICK d \in 1 .. SlotCount - 1 : d = L - n + 1
      BY <1>1, <1>6, <1>7, <2>2
    <3>2. n \in 1 .. L /\ L + 1 - n + 1 = d + 1
      BY <1>1, <2>2, <3>1
    <3>3. Whole(file.slots[Back(w, d)], appended[n])
      BY <1>1, <1>4, <3>1, <3>2 DEF WrittenInOrder
    <3>4. Back(w, d) \in Places /\ Back(w, d) # w /\ Back(after.writePos, d + 1) = Back(w, d)
      BY <1>4, EarlierPlace
    <3> QED
      BY <1>3, <1>4, <3>2, <3>3, <3>4
  <2> QED
    BY <2>1, <2>2
<1>8. CASE L + 1 <= SlotCount - 1
  <2>1. newest = all
    BY <1>1, <1>2, <1>3, <1>6, <1>8 DEF Newest
  <2>2. \A n \in 1 .. L + 1 : n > L + 1 - (SlotCount - 1)
    BY <1>1, <1>6, <1>8
  <2> QED
    BY <1>3, <1>7, <1>8, <2>1, <2>2
<1>9. CASE L + 1 > SlotCount - 1
  <2>1. newest = Tail(all) /\ L = SlotCount - 1
    BY <1>1, <1>2, <1>3, <1>6, <1>9 DEF Newest
  <2>2. newest \in Seq(Snapshots) /\ Len(newest) = L /\ \A n \in 1 .. L : newest[n] = all[n + 1]
    BY <1>1, <1>3, <2>1
  <2>3. ASSUME NEW n \in 1 .. L
        PROVE  Whole(after.slots[Back(after.writePos, L - n + 1)], newest[n])
    <3>1. n + 1 \in 1 .. L + 1 /\ n + 1 > L + 1 - (SlotCount - 1) /\ L + 1 - (n + 1) + 1 = L - n + 1
      BY <1>1, <1>6, <2>1
    <3>2. Whole(after.slots[Back(after.writePos, L + 1 - (n + 1) + 1)], all[n + 1])
      BY <1>7, <3>1
    <3> QED
      BY <2>2, <3>1, <3>2
  <2> QED
    BY <1>1, <2>1, <2>2, <2>3
<1> QED
  BY <1>1, <1>6, <1>8, <1>9

(* Interrupted stores leave the snapshots that were written before. *)
LEMMA TornKeepsOrder ==
    ASSUME FileFits, WrittenInOrder, NEW after \in Headers, after.writePos = file.writePos,
           \A i \in Places : i # file.writePos => after.slots[i] = file.slots[i]
    PROVE  \A n \in 1 .. Len(appended) :
              Whole(after.slots[Back(after.writePos, Len(appended) - n + 1)], appended[n])
<1> SUFFICES ASSUME NEW n \in 1 .. Len(appended)
             PROVE  Whole(after.slots[Back(after.writePos, Len(appended) - n + 1)], appended[n])
  OBVIOUS
<1>1. Len(appended) \in Nat /\ Len(appended) <= SlotCount - 1 /\ SlotCount \in Nat \ {0}
  BY SizesAssumption DEF WrittenInOrder
<1>2. PICK d \in 1 .. SlotCount - 1 : d = Len(appended) - n + 1
  BY <1>1
<1>3. PICK w \in Places : w = file.writePos
  BY DEF FileFits, Headers
<1>4. Back(w, d) \in Places /\ Back(w, d) # w
  BY <1>3, EarlierPlace
<1>5. Whole(file.slots[Back(w, d)], appended[n])
  BY <1>2, <1>3 DEF WrittenInOrder
<1> QED
  BY <1>2, <1>3, <1>4, <1>5

(* The next process finds the write position where it was. *)
LEMMA Reopened ==
    ASSUME NEW f \in Headers, NEW s, s = Opened(f) \/ s = Closed
    PROVE  /\ s \in [initialized : BOOLEAN, writePos : Places, snapshotCount : Nat]
           /\ s.initialized => s.writePos = f.writePos
<1>1. f.writePos \in Places /\ f.snapshotCount \in Nat /\ 0 \in Places
  BY SizesAssumption DEF Headers, Places
<1>2. CASE s = Opened(f)
  <2>1. (IF f.writePos >= SlotCount THEN 0 ELSE f.writePos) = f.writePos
    BY <1>1, SizesAssumption DEF Places
  <2>2. s = [initialized |-> TRUE, writePos |-> f.writePos, snapshotCount |-> f.snapshotCount]
    BY <1>2, <2>1 DEF Opened
  <2> QED
    BY <1>1, <2>2
<1>3. CASE s = Closed
  BY <1>1, <1>3 DEF Closed
<1> QED
  BY <1>2, <1>3

LEMMA BoxStep == BoxIInv /\ [BoxNext]_boxVars => BoxIInv'
<1> SUFFICES ASSUME BoxIInv, [BoxNext]_boxVars PROVE BoxIInv'
  OBVIOUS
<1>1. WindowIInv /\ FileFits /\ WrittenInOrder /\ WindowIInv'
  BY WindowStep DEF BoxIInv
<1>2. SUFFICES FileFits' /\ WrittenInOrder'
  BY <1>1 DEF BoxIInv
<1>3. ASSUME UNCHANGED <<file, swap, appended>> PROVE FileFits' /\ WrittenInOrder'
  BY <1>1, <1>3 DEF FileFits, WrittenInOrder
<1>4. ASSUME UNCHANGED <<file, appended>>, NextProcess PROVE FileFits' /\ WrittenInOrder'
  <2>1. file' = file /\ file \in Headers /\ swap' \in {Opened(file), Closed}
    BY <1>1, <1>4 DEF NextProcess, FileFits
  <2>2. FileFits'
    BY <2>1, Reopened DEF FileFits
  <2>3. WrittenInOrder'
    BY <1>1, <1>4 DEF WrittenInOrder
  <2> QED
    BY <2>2, <2>3
<1>5. ASSUME NEW p \in Ids, TriggerBlackBox(p) PROVE FileFits' /\ WrittenInOrder'
  <2>1. PICK snap : snap = Snapshot(p)
    OBVIOUS
  <2>2. snap \in Snapshots
    BY <1>1, <2>1, SnapshotFits
  <2>3. CASE AppendRefused(snap)
    BY <1>3, <1>5, <2>1, <2>3 DEF TriggerBlackBox
  <2>4. CASE ~AppendRefused(snap)
    <3>1. /\ file' = AfterStores(snap, AllStores)
          /\ swap' = [swap EXCEPT !.snapshotCount = @ + 1, !.writePos = (@ + 1) % SlotCount]
          /\ appended' = Newest(Append(appended, snap))
      BY <1>5, <2>1, <2>4 DEF TriggerBlackBox
    <3>2. swap.initialized
      BY <2>4 DEF AppendRefused
    <3>3. AllStores \in 1 .. AllStores
      BY DEF AllStores
    <3>4. PICK after : after = file'
      OBVIOUS
    <3>5. /\ after \in Headers
          /\ after.writePos = (file.writePos + 1) % SlotCount
          /\ \A i \in Places : i # file.writePos => after.slots[i] = file.slots[i]
          /\ Whole(after.slots[file.writePos], snap)
      BY <1>1, <2>2, <3>1, <3>2, <3>3, <3>4, Stores
    <3>6. PICK w \in Places : w = swap.writePos /\ w = file.writePos
      BY <1>1, <3>2 DEF FileFits
    <3>7. /\ swap' \in [initialized : BOOLEAN, writePos : Places, snapshotCount : Nat]
          /\ swap'.writePos = (w + 1) % SlotCount
      <4>1. (w + 1) % SlotCount \in Places
        BY <3>6, NextPlace
      <4>2. swap \in [initialized : BOOLEAN, writePos : Places, snapshotCount : Nat]
        BY <1>1 DEF FileFits
      <4>3. PICK next \in Places : next = (w + 1) % SlotCount
        BY <4>1
      <4>4. swap' = [swap EXCEPT !.snapshotCount = swap.snapshotCount + 1, !.writePos = next]
        BY <3>1, <3>6, <4>2, <4>3
      <4>5. swap.snapshotCount + 1 \in Nat
        BY <4>2
      <4>6. PICK count \in Nat : count = swap.snapshotCount + 1
        BY <4>5
      <4>7. swap' = [initialized |-> swap.initialized, writePos |-> next, snapshotCount |-> count]
        BY <4>2, <4>4, <4>6
      <4>8. swap.initialized \in BOOLEAN
        BY <4>2
      <4>9. swap'.writePos = next
        BY <4>7
      <4>10. swap' \in [initialized : BOOLEAN, writePos : Places, snapshotCount : Nat]
        BY <4>7, <4>8
      <4> QED
        BY <4>3, <4>9, <4>10
    <3>8. FileFits'
      BY <3>4, <3>5, <3>6, <3>7 DEF FileFits
    <3>9. PICK newest : newest = appended'
      OBVIOUS
    <3>10. /\ newest \in Seq(Snapshots)
           /\ Len(newest) <= SlotCount - 1
           /\ \A n \in 1 .. Len(newest) :
                 Whole(after.slots[Back(after.writePos, Len(newest) - n + 1)], newest[n])
      BY <1>1, <2>2, <3>1, <3>5, <3>9, WriteKeepsOrder
    <3>11. WrittenInOrder'
      BY <3>4, <3>9, <3>10 DEF WrittenInOrder
    <3> QED
      BY <3>8, <3>11
  <2> QED
    BY <2>3, <2>4
<1>6. ASSUME NEW p \in Ids, NEW k \in 1 .. AllStores - 1, CrashInAppend(p, k)
      PROVE  FileFits' /\ WrittenInOrder'
  <2>1. PICK snap \in Snapshots : snap = Snapshot(p)
    BY <1>1, SnapshotFits
  <2>2. /\ file' = AfterStores(snap, k) /\ ~AppendRefused(snap) /\ NextProcess
    BY <1>6, <2>1 DEF CrashInAppend
  <2>3. swap.initialized
    BY <2>2 DEF AppendRefused
  <2>4. k \in 1 .. AllStores /\ k < AllStores
    BY DEF AllStores
  <2>5. PICK after : after = file'
    OBVIOUS
  <2>6. /\ after \in Headers
        /\ after.writePos = file.writePos
        /\ \A i \in Places : i # file.writePos => after.slots[i] = file.slots[i]
    BY <1>1, <2>1, <2>2, <2>3, <2>4, <2>5, Stores
  <2>7. appended' = appended /\ (swap' = Opened(after) \/ swap' = Closed)
    BY <2>2, <2>5 DEF NextProcess
  <2>8. PICK s : s = swap'
    OBVIOUS
  <2>9. /\ s \in [initialized : BOOLEAN, writePos : Places, snapshotCount : Nat]
        /\ s.initialized => s.writePos = after.writePos
    BY <2>6, <2>7, <2>8, Reopened
  <2>10. FileFits'
    BY <2>5, <2>6, <2>8, <2>9 DEF FileFits
  <2>11. \A n \in 1 .. Len(appended) :
              Whole(after.slots[Back(after.writePos, Len(appended) - n + 1)], appended[n])
    BY <1>1, <2>6, TornKeepsOrder
  <2>12. WrittenInOrder'
    BY <1>1, <2>5, <2>7, <2>11 DEF WrittenInOrder
  <2> QED
    BY <2>10, <2>12
<1>7. ASSUME NEW p \in Ids, Write(p) PROVE FileFits' /\ WrittenInOrder'
  BY <1>3, <1>7 DEF Write
<1>8. ASSUME Crash PROVE FileFits' /\ WrittenInOrder'
  BY <1>4, <1>8 DEF Crash, NextProcess
<1>9. ASSUME UNCHANGED boxVars PROVE FileFits' /\ WrittenInOrder'
  BY <1>3, <1>9 DEF boxVars
<1> QED
  BY <1>5, <1>6, <1>7, <1>8, <1>9 DEF BoxNext

LEMMA BoxInvariance == BoxSpec => []BoxIInv
BY BoxInitially, BoxStep, PTL DEF BoxSpec

(* However often the process dies between two stores of appendSnapshot or  *)
(* between two alarms, the newest snapshots that were written, all but one *)
(* of a full round of slots, are whole in the file (CriticalSwapFile).     *)
THEOREM WrittenSnapshotsSurvive == BoxSpec => []WrittenSurvive
<1>1. BoxIInv => WrittenSurvive
  <2> SUFFICES ASSUME BoxIInv, NEW n \in 1 .. Len(appended)
               PROVE  \E i \in Places : Whole(file.slots[i], appended[n])
    BY DEF WrittenSurvive, Places
  <2>1. FileFits /\ WrittenInOrder
    BY DEF BoxIInv
  <2>2. Len(appended) \in Nat /\ Len(appended) <= SlotCount - 1 /\ SlotCount \in Nat \ {0}
    BY <2>1, SizesAssumption DEF WrittenInOrder
  <2>3. PICK d \in 1 .. SlotCount - 1 : d = Len(appended) - n + 1
    BY <2>2
  <2>4. file.writePos \in Places
    BY <2>1 DEF FileFits, Headers
  <2>5. Back(file.writePos, d) \in Places
    BY <2>4, EarlierPlace
  <2>6. Whole(file.slots[Back(file.writePos, d)], appended[n])
    BY <2>1, <2>3 DEF WrittenInOrder
  <2> QED
    BY <2>5, <2>6
<1> QED
  BY <1>1, BoxInvariance, PTL

(* The slot the next snapshot goes to is the only one that may be torn. *)
OthersAreTaken ==
    \A i \in Places : i # file.writePos /\ IsFull(file.slots[i]) => Parsed(file.slots[i]) \in taken

LEMMA TornStep == BoxIInv /\ OthersAreTaken /\ [BoxNext]_boxVars => OthersAreTaken'
<1> SUFFICES ASSUME BoxIInv, OthersAreTaken, [BoxNext]_boxVars PROVE OthersAreTaken'
  OBVIOUS
<1>1. WindowIInv /\ FileFits /\ file.writePos \in Places
  BY DEF BoxIInv, FileFits, Headers
<1>2. ASSUME file' = file, taken \subseteq taken' PROVE OthersAreTaken'
  BY <1>2 DEF OthersAreTaken
<1>3. ASSUME NEW p \in Ids, TriggerBlackBox(p) PROVE OthersAreTaken'
  <2>1. PICK snap \in Snapshots : snap = Snapshot(p)
    BY <1>1, SnapshotFits
  <2>2. taken' = taken \cup {snap}
    BY <1>3, <2>1 DEF TriggerBlackBox
  <2>3. CASE AppendRefused(snap)
    BY <1>2, <1>3, <2>1, <2>2, <2>3 DEF TriggerBlackBox
  <2>4. CASE ~AppendRefused(snap)
    <3>1. file' = AfterStores(snap, AllStores) /\ swap.initialized
      BY <1>3, <2>1, <2>4 DEF TriggerBlackBox, AppendRefused
    <3>2. AllStores \in 1 .. AllStores
      BY DEF AllStores
    <3>3. /\ \A i \in Places : i # file.writePos => file'.slots[i] = file.slots[i]
          /\ Whole(file'.slots[file.writePos], snap)
      BY <1>1, <3>1, <3>2, Stores
    <3>4. Parsed(file'.slots[file.writePos]) = snap
      BY <3>3 DEF Whole, Parsed, Snapshots
    <3> SUFFICES ASSUME NEW i \in Places, i # file'.writePos, IsFull(file'.slots[i])
                 PROVE  Parsed(file'.slots[i]) \in taken'
      BY DEF OthersAreTaken, IsFull, Parsed
    <3>5. CASE i = file.writePos
      BY <2>2, <3>4, <3>5
    <3>6. CASE i # file.writePos
      <4>1. file'.slots[i] = file.slots[i]
        BY <3>3, <3>6
      <4> QED
        BY <2>2, <3>6, <4>1 DEF OthersAreTaken
    <3> QED
      BY <3>5, <3>6
  <2> QED
    BY <2>3, <2>4
<1>4. ASSUME NEW p \in Ids, NEW k \in 1 .. AllStores - 1, CrashInAppend(p, k)
      PROVE  OthersAreTaken'
  <2>1. PICK snap \in Snapshots : snap = Snapshot(p)
    BY <1>1, SnapshotFits
  <2>2. file' = AfterStores(snap, k) /\ swap.initialized /\ taken' = taken \cup {snap}
    BY <1>4, <2>1 DEF CrashInAppend, AppendRefused
  <2>3. k \in 1 .. AllStores /\ k < AllStores
    BY DEF AllStores
  <2>4. /\ file'.writePos = file.writePos
        /\ \A i \in Places : i # file.writePos => file'.slots[i] = file.slots[i]
    BY <1>1, <2>1, <2>2, <2>3, Stores
  <2> SUFFICES ASSUME NEW i \in Places, i # file'.writePos, IsFull(file'.slots[i])
               PROVE  Parsed(file'.slots[i]) \in taken'
    BY DEF OthersAreTaken, IsFull, Parsed
  <2>5. i # file.writePos /\ file'.slots[i] = file.slots[i]
    BY <2>4
  <2> QED
    BY <2>2, <2>5 DEF OthersAreTaken
<1>5. CASE Crash \/ (\E p \in Ids : Write(p)) \/ UNCHANGED boxVars
  BY <1>2, <1>5 DEF Crash, Write, boxVars
<1> QED
  BY <1>3, <1>4, <1>5 DEF BoxNext

(* A recovery is given snapshots that were taken, in all slots but one at  *)
(* most: the tear of an earlier crash is gone with the next snapshot       *)
(* (appendSnapshot, parsePendingSnapshots).                                *)
THEOREM OneTearAtMost == BoxSpec => []AtMostOneTorn
<1>1. BoxInit => OthersAreTaken
  BY DEF BoxInit, NewFile, EmptySlot, OthersAreTaken, IsFull, Places
<1>2. BoxIInv /\ OthersAreTaken => AtMostOneTorn
  <2> SUFFICES ASSUME BoxIInv, OthersAreTaken PROVE AtMostOneTorn
    OBVIOUS
  <2> DEFINE torn == {i \in Places : IsFull(file.slots[i]) /\ Parsed(file.slots[i]) \notin taken}
  <2>1. torn \subseteq {file.writePos}
    BY DEF OthersAreTaken
  <2> HIDE DEF torn
  <2>2. IsFiniteSet({file.writePos}) /\ Cardinality({file.writePos}) = 1
    BY FS_Singleton
  <2>3. Cardinality(torn) <= 1
    BY <2>1, <2>2, FS_Subset
  <2> QED
    BY <2>3 DEF AtMostOneTorn, torn, Places
<1> QED
  BY <1>1, <1>2, TornStep, BoxInvariance, PTL DEF BoxSpec

-----------------------------------------------------------------------------
(* The history.                                                            *)

(* Sums of the counts of rows over a set of places, as MapThenSumSet takes *)
(* them: g gives the sum over every subset.                                *)
Some(s) == CHOOSE x \in s : TRUE

CountsOver(q, s, g) == IF s = {} THEN 0 ELSE q[Some(s)].count + g[s \ {Some(s)}]

IsSum(g, q, S) == g = [s \in SUBSET S |-> CountsOver(q, s, g)]

SumOf(q, S) == MapThenSumSet(LAMBDA i : q[i].count, S)

(* The same for subsets of up to n elements. *)
UpTo(S, n) == {s \in SUBSET S : Cardinality(s) <= n}

IsSumUpTo(g, q, S, n) == g = [s \in UpTo(S, n) |-> CountsOver(q, s, g)]

LEMMA OneTakenOut ==
    ASSUME NEW s, s # {}, IsFiniteSet(s)
    PROVE  /\ Some(s) \in s /\ IsFiniteSet(s \ {Some(s)})
           /\ Cardinality(s) \in Nat /\ Cardinality(s \ {Some(s)}) \in Nat
           /\ Cardinality(s \ {Some(s)}) = Cardinality(s) - 1
<1>1. Some(s) \in s
  BY DEF Some
<1>2. IsFiniteSet(s \ {Some(s)}) /\ Cardinality(s \ {Some(s)}) = Cardinality(s) - 1
  BY <1>1, FS_RemoveElement
<1> QED
  BY <1>1, <1>2, FS_CardinalityType

(* The function exists over every finite set. *)
LEMMA SumExists ==
    ASSUME NEW q, NEW S, IsFiniteSet(S)
    PROVE  \E g : IsSum(g, q, S)
<1> DEFINE E(n) == \E g : IsSumUpTo(g, q, S, n)
           T == {n \in Nat : ~ E(n)}
<1>1. ASSUME NEW s \in SUBSET S PROVE IsFiniteSet(s) /\ Cardinality(s) \in Nat
  BY FS_Subset, FS_CardinalityType
<1>2. ASSUME T # {} PROVE FALSE
  <2>1. PICK n \in T : \A m \in T : n <= m
    <3>1. T \subseteq Nat
      OBVIOUS
    <3> HIDE DEF T
    <3> QED
      BY <1>2, <3>1, LeastNatural
  <2>2. n \in Nat /\ ~ E(n)
    BY <2>1
  <2>3. CASE n = 0
    <3>1. PICK g : g = [s \in UpTo(S, 0) |-> 0]
      OBVIOUS
    <3>2. ASSUME NEW s \in UpTo(S, 0) PROVE CountsOver(q, s, g) = 0
      <4>1. Cardinality(s) = 0
        BY <1>1 DEF UpTo
      <4>2. s = {}
        BY <1>1, <4>1, FS_EmptySet DEF UpTo
      <4> QED
        BY <4>2 DEF CountsOver
    <3>3. IsSumUpTo(g, q, S, 0)
      BY <3>1, <3>2 DEF IsSumUpTo
    <3> QED
      BY <2>2, <2>3, <3>3
  <2>4. CASE n # 0
    <3>1. n - 1 \in Nat /\ n - 1 < n
      BY <2>2, <2>4
    <3>2. E(n - 1)
      BY <2>1, <2>2, <3>1
    <3>3. PICK g : IsSumUpTo(g, q, S, n - 1)
      BY <3>2
    <3>4. PICK f : f = [s \in UpTo(S, n) |-> IF s \in UpTo(S, n - 1) THEN g[s] ELSE CountsOver(q, s, g)]
      OBVIOUS
    <3>5. ASSUME NEW s \in UpTo(S, n - 1) PROVE s \in UpTo(S, n) /\ f[s] = g[s]
      <4>1. s \in UpTo(S, n)
        BY <1>1, <2>2 DEF UpTo
      <4> QED
        BY <3>4, <4>1
    <3>6. ASSUME NEW s \in UpTo(S, n), s # {} PROVE s \ {Some(s)} \in UpTo(S, n - 1)
      <4>1. IsFiniteSet(s) /\ s \in SUBSET S
        BY <1>1 DEF UpTo
      <4>2. Cardinality(s \ {Some(s)}) <= n - 1
        BY <2>2, <3>6, <4>1, OneTakenOut DEF UpTo
      <4> QED
        BY <4>1, <4>2 DEF UpTo
    <3>7. ASSUME NEW s \in UpTo(S, n) PROVE CountsOver(q, s, f) = CountsOver(q, s, g)
      BY <3>5, <3>6 DEF CountsOver
    <3>8. ASSUME NEW s \in UpTo(S, n) PROVE f[s] = CountsOver(q, s, f)
      <4>1. CASE s \in UpTo(S, n - 1)
        BY <3>3, <3>5, <3>7, <4>1 DEF IsSumUpTo
      <4>2. CASE s \notin UpTo(S, n - 1)
        BY <3>4, <3>7, <4>2
      <4> QED
        BY <4>1, <4>2
    <3>9. f = [s \in UpTo(S, n) |-> f[s]]
      BY <3>4
    <3>10. IsSumUpTo(f, q, S, n)
      BY <3>8, <3>9 DEF IsSumUpTo
    <3> QED
      BY <2>2, <3>10
  <2> QED
    BY <2>3, <2>4
<1>3. Cardinality(S) \in Nat
  BY FS_CardinalityType
<1>4. E(Cardinality(S))
  BY <1>2, <1>3
<1>5. UpTo(S, Cardinality(S)) = SUBSET S
  BY FS_Subset DEF UpTo
<1> QED
  BY <1>4, <1>5 DEF IsSumUpTo, IsSum

(* The sum is that function's value. *)
LEMMA SumIs ==
    ASSUME NEW q, NEW S, IsFiniteSet(S)
    PROVE  \E g : IsSum(g, q, S) /\ SumOf(q, S) = g[S]
<1> DEFINE g == CHOOSE f : IsSum(f, q, S)
<1>1. IsSum(g, q, S)
  BY SumExists
<1>2. SumOf(q, S) = g[S]
  BY DEF SumOf, MapThenSumSet, MapThenFoldSet, IsSum, CountsOver, Some
<1> QED
  BY <1>1, <1>2

(* Every element can be taken out first. *)
AnyFirst(g, q, S) ==
    \A s \in SUBSET S : g[s] \in Nat /\ \A x \in s : g[s] = q[x].count + g[s \ {x}]

LEMMA SumTakes ==
    ASSUME NEW q, NEW S, IsFiniteSet(S), \A i \in S : q[i].count \in Nat, NEW g, IsSum(g, q, S)
    PROVE  AnyFirst(g, q, S)
<1> DEFINE P(s) == g[s] \in Nat /\ \A x \in s : g[s] = q[x].count + g[s \ {x}]
           T == {n \in Nat : \E s \in SUBSET S : Cardinality(s) = n /\ ~ P(s)}
<1>1. ASSUME NEW s \in SUBSET S PROVE IsFiniteSet(s) /\ Cardinality(s) \in Nat
  BY FS_Subset, FS_CardinalityType
<1>2. SUFFICES ASSUME T # {} PROVE FALSE
  BY <1>1 DEF AnyFirst
<1>3. PICK n \in T : \A m \in T : n <= m
  <2>1. T \subseteq Nat
    OBVIOUS
  <2> HIDE DEF T
  <2> QED
    BY <1>2, <2>1, LeastNatural
<1>4. PICK s \in SUBSET S : Cardinality(s) = n /\ ~ P(s)
  BY <1>3
<1>5. ASSUME NEW u \in SUBSET S, Cardinality(u) = n - 1 PROVE P(u)
  <2>1. n \in Nat /\ n - 1 \in Nat
    BY <1>1, <1>3, <1>5
  <2>2. n - 1 \notin T
    BY <1>3, <2>1
  <2> QED
    BY <1>5, <2>1, <2>2
<1>6. g[s] = CountsOver(q, s, g)
  BY DEF IsSum
<1>7. CASE s = {}
  <2>1. g[s] = 0
    BY <1>6, <1>7 DEF CountsOver
  <2> QED
    BY <1>4, <1>7, <2>1
<1>8. CASE s # {}
  <2>1. PICK y \in s : y = Some(s)
    BY <1>1, <1>8, OneTakenOut
  <2>2. g[s] = q[y].count + g[s \ {y}]
    BY <1>6, <1>8, <2>1 DEF CountsOver
  <2>3. ASSUME NEW x \in s PROVE s \ {x} \in SUBSET S /\ Cardinality(s \ {x}) = n - 1
    BY <1>1, <1>4, FS_RemoveElement
  <2>4. \A x \in s : P(s \ {x})
    BY <1>5, <2>3
  <2>5. \A x \in s : q[x].count \in Nat /\ g[s \ {x}] \in Nat
    BY <2>4
  <2>6. g[s] \in Nat
    <3>1. q[y].count \in Nat /\ g[s \ {y}] \in Nat
      BY <2>5
    <3>2. \A a, b \in Nat : a + b \in Nat
      OBVIOUS
    <3> QED
      BY <2>2, <3>1, <3>2
  <2>7. ASSUME NEW x \in s PROVE g[s] = q[x].count + g[s \ {x}]
    <3>1. CASE x = y
      BY <2>2, <3>1
    <3>2. CASE x # y
      <4>1. g[s \ {y}] = q[x].count + g[(s \ {y}) \ {x}]
        BY <2>4, <3>2
      <4>2. g[s \ {x}] = q[y].count + g[(s \ {x}) \ {y}]
        BY <2>4, <3>2
      <4>3. (s \ {y}) \ {x} = (s \ {x}) \ {y}
        OBVIOUS
      <4>4. PICK rest : rest = g[(s \ {y}) \ {x}]
        OBVIOUS
      <4>5. rest \in Nat
        <5>1. Cardinality((s \ {y}) \ {x}) \in Nat /\ (s \ {y}) \ {x} \in SUBSET S
          BY <1>1
        <5>2. x \in s \ {y} /\ P(s \ {y})
          BY <2>4, <3>2
        <5>3. IsFiniteSet(s \ {y}) /\ Cardinality(s \ {y}) = n - 1
          BY <1>1, <2>3
        <5>4. Cardinality((s \ {y}) \ {x}) = n - 2
          <6>1. Cardinality((s \ {y}) \ {x}) = Cardinality(s \ {y}) - 1
            BY <5>2, <5>3, FS_RemoveElement
          <6> QED
            BY <1>3, <5>3, <6>1
        <5>5. n - 2 \in Nat /\ n - 2 \notin T
          BY <1>3, <5>1, <5>4
        <5>6. P((s \ {y}) \ {x})
          BY <5>1, <5>4, <5>5
        <5> QED
          BY <4>4, <5>6
      <4>6. PICK a, b \in Nat : a = q[x].count /\ b = q[y].count
        BY <2>5
      <4>7. g[s] = b + (a + rest) /\ g[s \ {x}] = b + rest
        BY <2>2, <4>1, <4>2, <4>3, <4>4, <4>6
      <4> QED
        BY <4>5, <4>6, <4>7
    <3> QED
      BY <3>1, <3>2
  <2>8. P(s)
    BY <2>6, <2>7
  <2> QED
    BY <1>4, <2>8
<1> QED
  BY <1>7, <1>8

(* Places of one sequence that move to places of another with the same     *)
(* counts have the same sum.                                               *)
Image(to, s) == {to[i] : i \in s}

LEMMA InImage == \A to, s : \A i \in s : to[i] \in Image(to, s)
  BY DEF Image

LEMMA SumsFollow ==
    ASSUME NEW q, NEW S, IsFiniteSet(S), NEW r, NEW R, NEW to \in [S -> R],
           \A i, j \in S : i # j => to[i] # to[j],
           \A i \in S : r[to[i]].count = q[i].count,
           NEW g, NEW h, AnyFirst(g, q, S), AnyFirst(h, r, R), g[{}] = 0, h[{}] = 0
    PROVE  \A s \in SUBSET S : g[s] = h[Image(to, s)]
<1> DEFINE T == {n \in Nat : \E s \in SUBSET S : Cardinality(s) = n /\ g[s] # h[Image(to, s)]}
<1>1. ASSUME NEW s \in SUBSET S PROVE IsFiniteSet(s) /\ Cardinality(s) \in Nat
  BY FS_Subset, FS_CardinalityType
<1>2. SUFFICES ASSUME T # {} PROVE FALSE
  BY <1>1
<1>3. T \subseteq Nat
  OBVIOUS
<1>4. PICK n \in Nat : n \in T /\ \A m \in T : n <= m
  <2> HIDE DEF T
  <2> QED
    BY <1>2, <1>3, LeastNatural
<1>5. PICK s \in SUBSET S : Cardinality(s) = n /\ g[s] # h[Image(to, s)]
  BY <1>4
<1>6. CASE s = {}
  <2>1. Image(to, {}) = {}
    BY DEF Image
  <2> QED
    BY <1>5, <1>6, <2>1
<1>7. CASE s # {}
  <2>1. PICK x \in s : TRUE
    BY <1>7
  <2>2. PICK u \in SUBSET S : u = s \ {x}
    OBVIOUS
  <2>3. Cardinality(u) = n - 1 /\ Cardinality(u) \in Nat
    <3>1. IsFiniteSet(s) /\ Cardinality(u) \in Nat
      BY <1>1
    <3>2. Cardinality(u) = Cardinality(s) - 1
      BY <2>1, <2>2, <3>1, FS_RemoveElement
    <3> QED
      BY <1>5, <3>1, <3>2
  <2>4. n - 1 \notin T
    <3> HIDE DEF T
    <3> QED
      BY <1>4, <2>3
  <2>5. g[u] = h[Image(to, u)]
    BY <2>3, <2>4
  <2>6. Image(to, u) = Image(to, s) \ {to[x]}
    <3>1. \A i \in s : i # x => to[i] # to[x]
      BY <2>1
    <3> QED
      BY <2>2, <3>1 DEF Image
  <2>7. to[x] \in Image(to, s) /\ Image(to, s) \in SUBSET R
    BY <2>1 DEF Image
  <2>8. g[s] = q[x].count + g[u]
    BY <2>1, <2>2 DEF AnyFirst
  <2>9. h[Image(to, s)] = r[to[x]].count + h[Image(to, s) \ {to[x]}]
    BY <2>7 DEF AnyFirst
  <2>10. r[to[x]].count = q[x].count
    BY <2>1
  <2> QED
    BY <1>5, <2>5, <2>6, <2>8, <2>9, <2>10
<1> QED
  BY <1>6, <1>7

(* What is known of a sum. *)
LEMMA SumKnown ==
    ASSUME NEW q, NEW S, IsFiniteSet(S), \A i \in S : q[i].count \in Nat
    PROVE  \E g : AnyFirst(g, q, S) /\ g[{}] = 0 /\ SumOf(q, S) = g[S]
<1>1. PICK g : IsSum(g, q, S) /\ SumOf(q, S) = g[S]
  BY SumIs
<1>2. AnyFirst(g, q, S)
  BY <1>1, SumTakes
<1>3. g[{}] = 0
  BY <1>1 DEF IsSum, CountsOver
<1> QED
  BY <1>1, <1>2, <1>3

Moves(q, S, r, R, to) ==
    /\ IsFiniteSet(S) /\ IsFiniteSet(R) /\ to \in [S -> R]
    /\ \A i, j \in S : i # j => to[i] # to[j]
    /\ \A i \in S : q[i].count \in Nat /\ r[to[i]].count = q[i].count
    /\ \A k \in R : \E i \in S : to[i] = k

LEMMA SumMoves ==
    ASSUME NEW q, NEW S, NEW r, NEW R, NEW to, Moves(q, S, r, R, to)
    PROVE  SumOf(q, S) = SumOf(r, R)
<1> USE DEF Moves
<1>1. PICK g : AnyFirst(g, q, S) /\ g[{}] = 0 /\ SumOf(q, S) = g[S]
  BY SumKnown
<1>2. \A k \in R : r[k].count \in Nat
  OBVIOUS
<1>3. PICK h : AnyFirst(h, r, R) /\ h[{}] = 0 /\ SumOf(r, R) = h[R]
  BY <1>2, SumKnown
<1>4. Image(to, S) = R
  BY DEF Image
<1>5. g[S] = h[Image(to, S)]
  BY <1>1, <1>3, SumsFollow
<1> QED
  BY <1>1, <1>3, <1>4, <1>5

LEMMA SumOfNone == \A q : SumOf(q, {}) = 0
<1> SUFFICES ASSUME NEW q PROVE SumOf(q, {}) = 0
  OBVIOUS
<1>1. PICK g : IsSum(g, q, {}) /\ SumOf(q, {}) = g[{}]
  BY SumIs, FS_EmptySet
<1> QED
  BY <1>1 DEF IsSum, CountsOver

(* One place more adds its count. *)
Adds(q, S, x) ==
    /\ SumOf(q, S) \in Nat /\ SumOf(q, S \ {x}) \in Nat
    /\ SumOf(q, S) = q[x].count + SumOf(q, S \ {x})

LEMMA SumAdds ==
    ASSUME NEW q, NEW S, IsFiniteSet(S), NEW x \in S, \A i \in S : q[i].count \in Nat
    PROVE  Adds(q, S, x)
<1>1. PICK g : AnyFirst(g, q, S) /\ g[{}] = 0 /\ SumOf(q, S) = g[S]
  BY SumKnown
<1>2. PICK u \in SUBSET S : u = S \ {x}
  OBVIOUS
<1>3. IsFiniteSet(u)
  BY FS_Subset
<1>4. PICK h : AnyFirst(h, q, u) /\ h[{}] = 0 /\ SumOf(q, u) = h[u]
  BY <1>3, SumKnown
<1>5. PICK to : to = [i \in u |-> i]
  OBVIOUS
<1>6. to \in [u -> S] /\ \A i \in u : to[i] = i
  BY <1>5
<1>7. h[u] = g[Image(to, u)]
  BY <1>1, <1>3, <1>4, <1>6, SumsFollow
<1>8. Image(to, u) = u
  BY <1>6 DEF Image
<1>9. g[S] \in Nat /\ g[u] \in Nat /\ g[S] = q[x].count + g[u]
  BY <1>1, <1>2 DEF AnyFirst
<1> QED
  BY <1>1, <1>2, <1>4, <1>7, <1>8, <1>9 DEF Adds

(* Fewer places have no larger sum. *)
LEMMA SumShrinks ==
    ASSUME NEW q, NEW S, IsFiniteSet(S), NEW R \in SUBSET S, \A i \in S : q[i].count \in Nat
    PROVE  SumOf(q, R) \in Nat /\ SumOf(q, S) \in Nat /\ SumOf(q, R) <= SumOf(q, S)
<1> DEFINE Bad(s) == R \subseteq s /\ ~ (SumOf(q, R) <= SumOf(q, s))
           T == {n \in Nat : \E s \in SUBSET S : Cardinality(s) = n /\ Bad(s)}
<1>1. ASSUME NEW s \in SUBSET S
      PROVE  IsFiniteSet(s) /\ Cardinality(s) \in Nat /\ SumOf(q, s) \in Nat
  <2>1. IsFiniteSet(s) /\ Cardinality(s) \in Nat
    BY FS_Subset, FS_CardinalityType
  <2>2. PICK g : AnyFirst(g, q, s) /\ SumOf(q, s) = g[s]
    BY <2>1, SumKnown
  <2> QED
    BY <2>1, <2>2 DEF AnyFirst
<1>2. ASSUME T # {} PROVE FALSE
  <2>1. T \subseteq Nat
    OBVIOUS
  <2>2. PICK n \in Nat : n \in T /\ \A m \in T : n <= m
    <3> HIDE DEF T
    <3> QED
      BY <1>2, <2>1, LeastNatural
  <2>3. PICK s \in SUBSET S : Cardinality(s) = n /\ Bad(s)
    BY <2>2
  <2>4. SumOf(q, s) # SumOf(q, R)
    BY <1>1, <2>3
  <2>5. PICK x \in s : x \notin R
    BY <2>3, <2>4
  <2>6. PICK u \in SUBSET S : u = s \ {x} /\ R \subseteq u
    BY <2>3, <2>5
  <2>7. Cardinality(u) = n - 1 /\ Cardinality(u) \in Nat
    <3>1. Cardinality(u) = Cardinality(s) - 1
      BY <1>1, <2>5, <2>6, FS_RemoveElement
    <3> QED
      BY <1>1, <2>3, <3>1
  <2>8. n - 1 \notin T
    <3> HIDE DEF T
    <3> QED
      BY <2>2, <2>7
  <2>9. SumOf(q, R) <= SumOf(q, u)
    BY <2>6, <2>7, <2>8
  <2>10. SumOf(q, s) = q[x].count + SumOf(q, u)
    <3>1. Adds(q, s, x)
      BY <1>1, <2>5, SumAdds
    <3> QED
      BY <2>6, <3>1 DEF Adds
  <2>11. q[x].count \in Nat
    BY <2>5
  <2>12. PICK a \in Nat : a = q[x].count
    BY <2>11
  <2>13. SumOf(q, R) \in Nat /\ SumOf(q, u) \in Nat /\ SumOf(q, s) \in Nat
    BY <1>1
  <2>14. ~ (SumOf(q, R) <= SumOf(q, s))
    BY <2>3
  <2> HIDE DEF Bad, T
  <2> QED
    BY <2>9, <2>10, <2>12, <2>13, <2>14
<1>3. ~ Bad(S)
  BY <1>1, <1>2
<1> QED
  BY <1>1, <1>3

-----------------------------------------------------------------------------
(* Rows in the buffer.                                                     *)

KeyPlaces(q, p, w) == {i \in DOMAIN q : q[i].point = p /\ q[i].window = w}

CountedIn(q, p, w) == SumOf(q, KeyPlaces(q, p, w))

LEMMA QueueKeys ==
    ASSUME NEW q \in Seq(DownSampledSample), NEW p, NEW w
    PROVE  /\ DOMAIN q = 1 .. Len(q) /\ Len(q) \in Nat
           /\ IsFiniteSet(KeyPlaces(q, p, w)) /\ KeyPlaces(q, p, w) \subseteq 1 .. Len(q)
           /\ \A i \in 1 .. Len(q) : q[i] \in DownSampledSample /\ q[i].count \in Nat
           /\ CountedIn(q, p, w) \in Nat
<1>1. DOMAIN q = 1 .. Len(q) /\ Len(q) \in Nat
  OBVIOUS
<1>2. IsFiniteSet(1 .. Len(q)) /\ KeyPlaces(q, p, w) \subseteq 1 .. Len(q)
  BY <1>1, FS_Interval DEF KeyPlaces
<1>3. IsFiniteSet(KeyPlaces(q, p, w))
  BY <1>2, FS_Subset
<1>4. \A i \in 1 .. Len(q) : q[i] \in DownSampledSample
  OBVIOUS
<1>5. \A r \in DownSampledSample : r.count \in Nat
  BY DEF DownSampledSample
<1>6. \A i \in KeyPlaces(q, p, w) : q[i].count \in Nat
  BY <1>2, <1>4, <1>5
<1>7. CountedIn(q, p, w) \in Nat
  BY <1>3, <1>6, SumShrinks DEF CountedIn
<1> QED
  BY <1>1, <1>2, <1>3, <1>4, <1>5, <1>7

(* Rows of other keys behind a queue change nothing. *)
LEMMA QueueIgnores ==
    ASSUME NEW q \in Seq(DownSampledSample), NEW rows \in Seq(DownSampledSample), NEW p, NEW w,
           KeyPlaces(rows, p, w) = {}
    PROVE  CountedIn(q \o rows, p, w) = CountedIn(q, p, w)
<1>1. PICK all : all = q \o rows
  OBVIOUS
<1>2. /\ all \in Seq(DownSampledSample) /\ Len(all) = Len(q) + Len(rows)
      /\ \A i \in 1 .. Len(q) : all[i] = q[i]
      /\ \A i \in 1 .. Len(rows) : all[Len(q) + i] = rows[i]
  BY <1>1
<1>3. Len(q) \in Nat /\ Len(rows) \in Nat /\ DOMAIN q = 1 .. Len(q) /\ DOMAIN rows = 1 .. Len(rows)
      /\ DOMAIN all = 1 .. Len(q) + Len(rows)
  BY <1>2
<1>4. ASSUME NEW i \in KeyPlaces(all, p, w) PROVE i \in KeyPlaces(q, p, w)
  <2>1. i \in 1 .. Len(q) + Len(rows) /\ all[i].point = p /\ all[i].window = w
    BY <1>3 DEF KeyPlaces
  <2>2. CASE i > Len(q)
    <3>1. i - Len(q) \in 1 .. Len(rows) /\ Len(q) + (i - Len(q)) = i
      BY <1>3, <2>1, <2>2
    <3>2. rows[i - Len(q)] = all[i]
      BY <1>2, <3>1
    <3>3. i - Len(q) \in KeyPlaces(rows, p, w)
      BY <1>3, <2>1, <3>1, <3>2 DEF KeyPlaces
    <3> QED
      BY <3>3
  <2>3. CASE ~(i > Len(q))
    <3>1. i \in 1 .. Len(q)
      BY <1>3, <2>1, <2>3
    <3> QED
      BY <1>2, <1>3, <2>1, <3>1 DEF KeyPlaces
  <2> QED
    BY <2>2, <2>3
<1>5. ASSUME NEW i \in KeyPlaces(q, p, w) PROVE i \in KeyPlaces(all, p, w) /\ all[i] = q[i]
  <2>1. i \in 1 .. Len(q) /\ i \in 1 .. Len(q) + Len(rows)
    BY <1>3 DEF KeyPlaces
  <2> QED
    BY <1>2, <1>3, <2>1 DEF KeyPlaces
<1>6. KeyPlaces(all, p, w) = KeyPlaces(q, p, w)
  BY <1>4, <1>5
<1>7. PICK S : S = KeyPlaces(q, p, w)
  OBVIOUS
<1>8. IsFiniteSet(S) /\ \A i \in S : q[i].count \in Nat /\ all[i].count = q[i].count
  BY <1>5, <1>7, QueueKeys
<1>9. PICK to : to = [i \in S |-> i]
  OBVIOUS
<1>10. to \in [S -> S] /\ \A i \in S : to[i] = i
  BY <1>9
<1>11. SumOf(q, S) = SumOf(all, S)
  BY <1>8, <1>10, SumMoves DEF Moves
<1> QED
  BY <1>1, <1>6, <1>7, <1>11 DEF CountedIn

(* One row of the key adds its count. *)
LEMMA QueueCounts ==
    ASSUME NEW q \in Seq(DownSampledSample), NEW rows \in Seq(DownSampledSample), NEW p, NEW w,
           NEW k \in DOMAIN rows, KeyPlaces(rows, p, w) = {k}
    PROVE  CountedIn(q \o rows, p, w) = CountedIn(q, p, w) + rows[k].count
<1>1. PICK all : all = q \o rows
  OBVIOUS
<1>2. /\ all \in Seq(DownSampledSample) /\ Len(all) = Len(q) + Len(rows)
      /\ \A i \in 1 .. Len(q) : all[i] = q[i]
      /\ \A i \in 1 .. Len(rows) : all[Len(q) + i] = rows[i]
  BY <1>1
<1>3. Len(q) \in Nat /\ Len(rows) \in Nat /\ DOMAIN q = 1 .. Len(q) /\ DOMAIN rows = 1 .. Len(rows)
      /\ DOMAIN all = 1 .. Len(q) + Len(rows)
  BY <1>2
<1>4. PICK x : x = Len(q) + k
  OBVIOUS
<1>5. /\ x \in 1 .. Len(q) + Len(rows) /\ x > Len(q) /\ all[x] = rows[k]
      /\ rows[k].point = p /\ rows[k].window = w
  <2>1. k \in 1 .. Len(rows) /\ k \in KeyPlaces(rows, p, w)
    BY <1>3
  <2> QED
    BY <1>2, <1>3, <1>4, <2>1 DEF KeyPlaces
<1>6. ASSUME NEW i \in KeyPlaces(all, p, w), i # x PROVE i \in KeyPlaces(q, p, w)
  <2>1. i \in 1 .. Len(q) + Len(rows) /\ all[i].point = p /\ all[i].window = w
    BY <1>3 DEF KeyPlaces
  <2>2. CASE i > Len(q)
    <3>1. i - Len(q) \in 1 .. Len(rows) /\ Len(q) + (i - Len(q)) = i
      BY <1>3, <2>1, <2>2
    <3>2. rows[i - Len(q)] = all[i]
      BY <1>2, <3>1
    <3>3. i - Len(q) \in KeyPlaces(rows, p, w)
      BY <1>3, <2>1, <3>1, <3>2 DEF KeyPlaces
    <3> QED
      BY <1>4, <1>6, <3>1, <3>3
  <2>3. CASE ~(i > Len(q))
    <3>1. i \in 1 .. Len(q)
      BY <1>3, <2>1, <2>3
    <3> QED
      BY <1>2, <1>3, <2>1, <3>1 DEF KeyPlaces
  <2> QED
    BY <2>2, <2>3
<1>7. ASSUME NEW i \in KeyPlaces(q, p, w) PROVE i \in KeyPlaces(all, p, w) /\ all[i] = q[i] /\ i # x
  <2>1. i \in 1 .. Len(q) /\ i \in 1 .. Len(q) + Len(rows) /\ i # x
    BY <1>3, <1>5 DEF KeyPlaces
  <2> QED
    BY <1>2, <1>3, <2>1 DEF KeyPlaces
<1>8. x \in KeyPlaces(all, p, w)
  BY <1>3, <1>5 DEF KeyPlaces
<1>9. KeyPlaces(all, p, w) \ {x} = KeyPlaces(q, p, w)
  BY <1>6, <1>7
<1>10. PICK S : S = KeyPlaces(q, p, w)
  OBVIOUS
<1>11. IsFiniteSet(S) /\ \A i \in S : q[i].count \in Nat /\ all[i].count = q[i].count
  BY <1>7, <1>10, QueueKeys
<1>12. PICK to : to = [i \in S |-> i]
  OBVIOUS
<1>13. to \in [S -> S] /\ \A i \in S : to[i] = i
  BY <1>12
<1>14. SumOf(q, S) = SumOf(all, S)
  BY <1>11, <1>13, SumMoves DEF Moves
<1>15. /\ IsFiniteSet(KeyPlaces(all, p, w)) /\ \A i \in KeyPlaces(all, p, w) : all[i].count \in Nat
  BY <1>2, QueueKeys
<1>16. SumOf(all, KeyPlaces(all, p, w)) = all[x].count + SumOf(all, S) /\ SumOf(all, S) \in Nat
  <2>1. PICK all2 : all2 = KeyPlaces(all, p, w)
    OBVIOUS
  <2>2. IsFiniteSet(all2) /\ x \in all2 /\ \A i \in all2 : all[i].count \in Nat
    BY <1>8, <1>15, <2>1
  <2>3. SumOf(all, all2) = all[x].count + SumOf(all, all2 \ {x}) /\ SumOf(all, all2 \ {x}) \in Nat
    <3>1. Adds(all, all2, x)
      BY <2>2, SumAdds
    <3> QED
      BY <3>1 DEF Adds
  <2> QED
    BY <1>9, <1>10, <2>1, <2>3
<1>17. all[x].count \in Nat
  BY <1>8, <1>15
<1> QED
  BY <1>1, <1>5, <1>10, <1>14, <1>16, <1>17 DEF CountedIn

(* Rows that make room take their counts with them, and nothing else does. *)
LEMMA QueueBounds ==
    ASSUME NEW q \in Seq(DownSampledSample), NEW b, b = Bounded(q)
    PROVE  /\ b \in Seq(DownSampledSample)
           /\ ~ Overflow(q) => b = q
           /\ \A p, w : CountedIn(b, p, w) <= CountedIn(q, p, w)
<1>1. Len(q) \in Nat /\ BufferCapacity \in Nat \ {0}
  BY LengthsAssumption
<1>2. PICK k \in Nat : /\ k = (IF Overflow(q) THEN Len(q) - BufferCapacity ELSE 0)
                       /\ k <= Len(q)
  <2>1. (IF Overflow(q) THEN Len(q) - BufferCapacity ELSE 0) \in 0 .. Len(q)
    BY <1>1 DEF Overflow
  <2> QED
    BY <1>1, <2>1
<1>3. b = SubSeq(q, k + 1, Len(q))
  BY <1>1, <1>2 DEF Bounded
<1>4. /\ b \in Seq(DownSampledSample) /\ Len(b) = Len(q) - k
      /\ \A i \in 1 .. Len(b) : b[i] = q[k + i]
  <2>1. k + 1 \in Nat /\ k + 1 >= 1 /\ Len(q) \in Nat /\ \A i \in k + 1 .. Len(q) : q[i] \in DownSampledSample
    BY <1>1, <1>2
  <2>2. /\ b \in Seq(DownSampledSample)
        /\ Len(b) = IF k + 1 <= Len(q) THEN Len(q) - (k + 1) + 1 ELSE 0
        /\ \A i \in 1 .. Len(q) - (k + 1) + 1 : b[i] = q[k + 1 + i - 1]
    BY <1>3, <2>1, SubSeqProperties
  <2>3. Len(b) = Len(q) - k
    <3>1. CASE k + 1 <= Len(q)
      BY <1>1, <1>2, <2>2, <3>1
    <3>2. CASE k = Len(q)
      BY <1>1, <2>2, <3>2
    <3> QED
      BY <1>1, <1>2, <3>1, <3>2
  <2>4. ASSUME NEW i \in 1 .. Len(b) PROVE b[i] = q[k + i]
    <3>1. i \in 1 .. Len(q) - (k + 1) + 1 /\ k + 1 + i - 1 = k + i
      BY <1>1, <2>3
    <3> QED
      BY <2>2, <3>1
  <2> QED
    BY <2>2, <2>3, <2>4
<1>5. ASSUME ~ Overflow(q) PROVE b = q
  <2>1. k = 0
    BY <1>2, <1>5
  <2>2. Len(b) = Len(q) /\ \A i \in 1 .. Len(q) : b[i] = q[i]
    BY <1>1, <1>4, <2>1
  <2> QED
    BY <1>4, <2>2, SeqEqual
<1>6. ASSUME NEW p, NEW w PROVE CountedIn(b, p, w) <= CountedIn(q, p, w)
  <2>1. PICK S : S = KeyPlaces(b, p, w)
    OBVIOUS
  <2>2. PICK R : R = {i \in KeyPlaces(q, p, w) : i > k}
    OBVIOUS
  <2>3. /\ IsFiniteSet(KeyPlaces(q, p, w)) /\ KeyPlaces(q, p, w) \subseteq 1 .. Len(q)
        /\ \A i \in KeyPlaces(q, p, w) : q[i].count \in Nat
    BY QueueKeys
  <2>4. R \in SUBSET KeyPlaces(q, p, w) /\ IsFiniteSet(R)
    BY <2>2, <2>3, FS_Subset
  <2>5. /\ IsFiniteSet(S) /\ S \subseteq 1 .. Len(b) /\ DOMAIN b = 1 .. Len(b) /\ DOMAIN q = 1 .. Len(q)
    BY <1>4, <2>1, QueueKeys
  <2>6. PICK to : to = [i \in S |-> k + i]
    OBVIOUS
  <2>7. ASSUME NEW i \in S PROVE to[i] \in R /\ q[to[i]] = b[i] /\ to[i] = k + i /\ i \in Nat
    <3>1. i \in 1 .. Len(b) /\ b[i].point = p /\ b[i].window = w /\ to[i] = k + i
      BY <2>1, <2>5, <2>6 DEF KeyPlaces
    <3>2. k + i \in 1 .. Len(q) /\ k + i > k /\ b[i] = q[k + i]
      BY <1>1, <1>2, <1>4, <3>1
    <3> QED
      BY <2>2, <2>5, <3>1, <3>2 DEF KeyPlaces
  <2>8. ASSUME NEW j \in R PROVE j \in Image(to, S)
    <3>1. j \in 1 .. Len(q) /\ j > k /\ q[j].point = p /\ q[j].window = w
      BY <2>2, <2>3 DEF KeyPlaces
    <3>2. j - k \in 1 .. Len(b) /\ k + (j - k) = j
      BY <1>1, <1>2, <1>4, <3>1
    <3>3. b[j - k] = q[j]
      BY <1>4, <3>2
    <3>4. j - k \in S
      BY <2>1, <2>5, <3>1, <3>2, <3>3 DEF KeyPlaces
    <3>5. to[j - k] = k + (j - k)
      BY <2>6, <3>4
    <3>6. to[j - k] = j
      BY <3>2, <3>5
    <3>7. PICK i : i = j - k
      OBVIOUS
    <3>8. i \in S /\ to[i] = j
      BY <3>4, <3>6, <3>7
    <3> QED
      BY <3>8, InImage
  <2>9. to \in [S -> R] /\ \A i, j \in S : i # j => to[i] # to[j]
    <3>1. to \in [S -> R]
      BY <2>6, <2>7
    <3>2. ASSUME NEW i \in S, NEW j \in S, i # j PROVE to[i] # to[j]
      BY <2>7, <3>2
    <3> QED
      BY <3>1, <3>2
  <2>10. \A i \in S : b[i].count \in Nat /\ q[to[i]].count = b[i].count
    BY <1>4, <2>5, <2>7, QueueKeys
  <2>11. SumOf(b, S) = SumOf(q, R)
    <3>1. \A j \in R : \E i \in S : to[i] = j
      BY <2>8 DEF Image
    <3>2. Moves(b, S, q, R, to)
      BY <3>1, <2>4, <2>5, <2>9, <2>10 DEF Moves
    <3> QED
      BY <3>2, SumMoves
  <2>12. SumOf(q, R) <= SumOf(q, KeyPlaces(q, p, w))
    BY <2>3, <2>4, SumShrinks
  <2> QED
    BY <2>1, <2>11, <2>12 DEF CountedIn
<1> QED
  BY <1>4, <1>5, <1>6

-----------------------------------------------------------------------------
(* Rows in the databases.                                                  *)

CountOfRows(S) == MapThenSumSet(LAMBDA r : r.count, S)

IsRowSum(g, S) == g = [s \in SUBSET S |-> IF s = {} THEN 0 ELSE Some(s).count + g[s \ {Some(s)}]]

(* The sum over no row and over one row. *)
LEMMA OneRow ==
    /\ CountOfRows({}) = 0
    /\ \A r : r.count \in Nat => CountOfRows({r}) = r.count
<1> DEFINE F(S) == CHOOSE f : IsRowSum(f, S)
<1>1. \A S : CountOfRows(S) = F(S)[S]
  BY DEF CountOfRows, MapThenSumSet, MapThenFoldSet, IsRowSum, Some
<1>2. CountOfRows({}) = 0
  <2>1. PICK g : g = [s \in SUBSET {} |-> 0]
    OBVIOUS
  <2>2. IsRowSum(g, {})
    BY <2>1 DEF IsRowSum
  <2>3. PICK f : f = F({}) /\ IsRowSum(f, {})
    BY <2>2
  <2>4. f[{}] = 0
    BY <2>3 DEF IsRowSum
  <2> HIDE DEF F
  <2> QED
    BY <1>1, <2>3, <2>4
<1>3. ASSUME NEW r, r.count \in Nat PROVE CountOfRows({r}) = r.count
  <2>1. PICK g : g = [s \in SUBSET {r} |-> IF s = {} THEN 0 ELSE r.count]
    OBVIOUS
  <2>2. Some({r}) = r /\ {r} \ {r} = {} /\ {r} # {}
    BY DEF Some
  <2>3. ASSUME NEW s \in SUBSET {r}
        PROVE  g[s] = IF s = {} THEN 0 ELSE Some(s).count + g[s \ {Some(s)}]
    <3>1. CASE s = {}
      BY <2>1, <3>1
    <3>2. CASE s = {r}
      <4>1. g[s] = r.count /\ g[{}] = 0
        BY <2>1, <2>2, <3>2
      <4>2. r.count + 0 = r.count
        BY <1>3
      <4> QED
        BY <2>2, <3>2, <4>1, <4>2
    <3> QED
      BY <3>1, <3>2
  <2>4. IsRowSum(g, {r})
    BY <2>1, <2>3 DEF IsRowSum
  <2>5. PICK f : f = F({r}) /\ IsRowSum(f, {r})
    BY <2>4
  <2>6. f[{}] = 0
    BY <2>5 DEF IsRowSum
  <2>7. f[{r}] = r.count + f[{}]
    BY <2>2, <2>5 DEF IsRowSum
  <2> HIDE DEF F
  <2> QED
    BY <1>1, <1>3, <2>5, <2>6, <2>7
<1> QED
  BY <1>2, <1>3

(* An order of a finite set has every element at one place. *)
LEMMA OrderHasAll ==
    ASSUME NEW C, IsFiniteSet(C), NEW order \in SetToSeqs(C)
    PROVE  /\ DOMAIN order = 1 .. Cardinality(C) /\ Cardinality(C) \in Nat
           /\ \A i \in DOMAIN order : order[i] \in C
           /\ \A i, j \in DOMAIN order : order[i] = order[j] => i = j
           /\ \A c \in C : \E i \in DOMAIN order : order[i] = c
<1>1. PICK D : D = 1 .. Cardinality(C)
  OBVIOUS
<1>2. Cardinality(C) \in Nat /\ IsFiniteSet(D) /\ Cardinality(D) = Cardinality(C)
  BY <1>1, FS_CardinalityType, FS_Interval
<1>3. order \in [D -> C] /\ \A i, j \in D : i # j => order[i] # order[j]
  BY <1>1 DEF SetToSeqs
<1>4. order \in Injection(D, C)
  BY <1>3, Fun_IsInj
<1>5. order \in Surjection(D, C)
  BY <1>2, <1>4, FS_Injection
<1>6. \A c \in C : \E i \in D : order[i] = c
  BY <1>5, Fun_SurjectionProperties
<1> QED
  BY <1>1, <1>2, <1>3, <1>6

(* Windows and months are numbered in the order of time. *)
LEMMA DivisionMonotone ==
    ASSUME NEW c \in Nat \ {0}, NEW x \in Nat, NEW y \in Nat, x <= y
    PROVE  x \div c \in Nat /\ y \div c \in Nat /\ x \div c <= y \div c
<1>1. PICK a \in Nat, b \in Nat : a = x \div c /\ b = y \div c
  BY Division
<1>2. PICK r \in 0 .. c - 1 : x = c * a + r
  BY <1>1, Division
<1>3. PICK s \in 0 .. c - 1 : y = c * b + s
  BY <1>1, Division
<1>4. ASSUME a >= b + 1 PROVE FALSE
  <2>1. c * a >= c * (b + 1)
    <3>1. \A u, v, k \in Nat : u >= v => k * u >= k * v
      BY SMTT(30)
    <3> QED
      BY <1>4, <3>1
  <2>2. c * (b + 1) = c * b + c
    OBVIOUS
  <2> QED
    BY <1>2, <1>3, <2>1, <2>2
<1> QED
  BY <1>1, <1>4

LEMMA WindowsInRange ==
    /\ \A ts \in 0 .. LastMoment : AlignToWindow(ts) \in Windows
    /\ \A w \in Windows : w \in Nat /\ MonthOf(w) \in Months
    /\ \A t, u \in 0 .. LastMoment : t <= u => AlignToWindow(t) <= AlignToWindow(u)
    /\ IsFiniteSet(Windows)
<1>1. LastMoment \in Nat /\ WindowMs \in Nat \ {0} /\ MonthWindows \in Nat \ {0}
  BY LengthsAssumption, HistoryBoundsAssumption
<1>2. ASSUME NEW t \in 0 .. LastMoment, NEW u \in 0 .. LastMoment, t <= u
      PROVE  AlignToWindow(t) \in Nat /\ AlignToWindow(u) \in Nat /\ AlignToWindow(t) <= AlignToWindow(u)
  BY <1>1, <1>2, DivisionMonotone DEF AlignToWindow
<1>3. AlignToWindow(LastMoment) \in Nat
  BY <1>1, <1>2
<1>4. \A ts \in 0 .. LastMoment : AlignToWindow(ts) \in Windows
  BY <1>1, <1>2, <1>3 DEF Windows
<1>5. ASSUME NEW w \in Windows PROVE w \in Nat /\ MonthOf(w) \in Months
  <2>1. w \in Nat /\ w <= AlignToWindow(LastMoment)
    BY <1>3 DEF Windows
  <2>2. w \div MonthWindows \in Nat /\ AlignToWindow(LastMoment) \div MonthWindows \in Nat
        /\ w \div MonthWindows <= AlignToWindow(LastMoment) \div MonthWindows
    BY <1>1, <1>3, <2>1, DivisionMonotone
  <2> QED
    BY <2>1, <2>2 DEF MonthOf, Months
<1>6. IsFiniteSet(Windows)
  BY <1>3, FS_Interval DEF Windows
<1> QED
  BY <1>2, <1>4, <1>5, <1>6

-----------------------------------------------------------------------------
(* Rolling up.                                                             *)

Tables == [Points -> [Windows -> Nat]]

RolledUp(b, p, order) == [i \in DOMAIN order |-> RollUpRow(b, p, order[i])]

(* What rollUp takes out of the buckets it puts into the rows. *)
LEMMA RollUpMoves ==
    ASSUME NEW b \in Tables, NEW p0 \in Points, NEW order \in SetToSeqs(ClosedWindows(b, p0)),
           NEW queue \in Seq(DownSampledSample), NEW rows, rows = RolledUp(b, p0, order)
    PROVE  /\ rows \in Seq(DownSampledSample)
           /\ BucketsLeft(b, p0) \in Tables
           /\ \A p \in Points, w \in Windows :
                /\ BucketsLeft(b, p0)[p][w] = IF p = p0 /\ w \in ClosedWindows(b, p0) THEN 0 ELSE b[p][w]
                /\ BucketsLeft(b, p0)[p][w] + CountedIn(queue \o rows, p, w) = b[p][w] + CountedIn(queue, p, w)
<1>1. PICK C \in SUBSET Windows : C = ClosedWindows(b, p0) /\ order \in SetToSeqs(C)
  BY DEF ClosedWindows
<1>2. IsFiniteSet(C)
  BY WindowsInRange, FS_Subset
<1>3. /\ DOMAIN order = 1 .. Cardinality(C) /\ Cardinality(C) \in Nat
      /\ \A i \in DOMAIN order : order[i] \in C
      /\ \A i, j \in DOMAIN order : order[i] = order[j] => i = j
      /\ \A c \in C : \E i \in DOMAIN order : order[i] = c
  BY <1>1, <1>2, OrderHasAll
<1>4. PICK n \in Nat : n = Cardinality(C) /\ DOMAIN order = 1 .. n
  BY <1>3
<1>5. ASSUME NEW p \in Points, NEW w \in Windows PROVE b[p][w] \in Nat
  BY DEF Tables
<1>6. ASSUME NEW i \in 1 .. n
      PROVE  /\ order[i] \in C /\ rows[i] \in DownSampledSample
             /\ rows[i].point = p0 /\ rows[i].window = order[i] /\ rows[i].count = b[p0][order[i]]
  <2>1. order[i] \in C
    BY <1>3, <1>4
  <2>2. rows[i] = [point |-> p0, window |-> order[i], count |-> b[p0][order[i]]]
    BY <1>4 DEF RolledUp, RollUpRow
  <2>3. b[p0][order[i]] \in Nat \ {0}
    <3>1. order[i] \in Windows /\ b[p0][order[i]] > 0
      BY <1>1, <2>1 DEF ClosedWindows
    <3> QED
      BY <1>5, <3>1
  <2> QED
    BY <1>1, <2>1, <2>2, <2>3 DEF DownSampledSample
<1>7. DOMAIN rows = 1 .. n /\ rows \in Seq(DownSampledSample)
  <2>1. rows = [i \in 1 .. n |-> rows[i]]
    BY <1>4 DEF RolledUp
  <2>2. rows \in [1 .. n -> DownSampledSample]
    BY <1>6, <2>1
  <2> QED
    BY <2>1, <2>2, SeqDef
<1>8. ASSUME NEW p \in Points, NEW w \in Windows
      PROVE  BucketsLeft(b, p0)[p][w] = IF p = p0 /\ w \in C THEN 0 ELSE b[p][w]
  <2>1. BucketsLeft(b, p0) = [b EXCEPT ![p0] = [v \in Windows |-> IF v \in C THEN 0 ELSE b[p0][v]]]
    BY <1>1 DEF BucketsLeft
  <2>2. CASE p = p0
    BY <2>1, <2>2 DEF Tables
  <2>3. CASE p # p0
    BY <2>1, <2>3 DEF Tables
  <2> QED
    BY <2>2, <2>3
<1>9. BucketsLeft(b, p0) \in Tables
  <2>1. [v \in Windows |-> IF v \in C THEN 0 ELSE b[p0][v]] \in [Windows -> Nat]
    BY <1>5
  <2> QED
    BY <1>1, <2>1 DEF BucketsLeft, Tables
<1>10. ASSUME NEW p \in Points, NEW w \in Windows
       PROVE  BucketsLeft(b, p0)[p][w] + CountedIn(queue \o rows, p, w) = b[p][w] + CountedIn(queue, p, w)
  <2>1. b[p][w] \in Nat /\ CountedIn(queue, p, w) \in Nat
    BY <1>5, QueueKeys
  <2>2. CASE ~(p = p0 /\ w \in C)
    <3>1. KeyPlaces(rows, p, w) = {}
      <4>1. ASSUME NEW i \in DOMAIN rows PROVE ~(rows[i].point = p /\ rows[i].window = w)
        BY <1>6, <1>7, <2>2
      <4> QED
        BY <4>1 DEF KeyPlaces
    <3>2. CountedIn(queue \o rows, p, w) = CountedIn(queue, p, w)
      BY <1>7, <3>1, QueueIgnores
    <3>3. BucketsLeft(b, p0)[p][w] = b[p][w]
      BY <1>8, <2>2
    <3> QED
      BY <3>2, <3>3
  <2>3. CASE p = p0 /\ w \in C
    <3>1. PICK k \in 1 .. n : order[k] = w
      BY <1>3, <1>4, <2>3
    <3>2. KeyPlaces(rows, p, w) = {k}
      <4>1. ASSUME NEW i \in 1 .. n, i # k PROVE rows[i].window # w
        <5>1. order[i] # order[k]
          BY <1>3, <1>4, <4>1
        <5> QED
          BY <1>6, <3>1, <5>1
      <4>2. rows[k].point = p /\ rows[k].window = w
        BY <1>6, <2>3, <3>1
      <4> QED
        BY <1>7, <4>1, <4>2 DEF KeyPlaces
    <3>3. rows[k].count = b[p][w]
      BY <1>6, <2>3, <3>1
    <3>4. CountedIn(queue \o rows, p, w) = CountedIn(queue, p, w) + rows[k].count
      BY <1>7, <3>2, QueueCounts
    <3>5. BucketsLeft(b, p0)[p][w] = 0
      BY <1>8, <2>3
    <3> QED
      BY <2>1, <3>3, <3>4, <3>5
  <2> QED
    BY <2>2, <2>3
<1> QED
  BY <1>1, <1>7, <1>8, <1>9, <1>10

-----------------------------------------------------------------------------
(* Inserting.                                                              *)

Databases == [Months -> SUBSET DownSampledSample]

(* Every row lies in the database of its month. *)
InPlace(d) == \A m \in Months : \A r \in d[m] : MonthOf(r.window) = m

(* The primary key holds: a point has one row for a window. *)
KeyIsUnique(d) ==
    \A m \in Months : \A r, s \in d[m] : r.point = s.point /\ r.window = s.window => r = s

RowsAt(d, p, w) == {r \in d[MonthOf(w)] : r.point = p /\ r.window = w}

StoredIn(d, p, w) == CountOfRows(RowsAt(d, p, w))

LEMMA StoredByMonth ==
    ASSUME NEW d \in Databases, InPlace(d), NEW p, NEW w \in Windows
    PROVE  {r \in UNION {d[m] : m \in Months} : r.point = p /\ r.window = w} = RowsAt(d, p, w)
<1>1. MonthOf(w) \in Months
  BY WindowsInRange
<1> QED
  BY <1>1 DEF InPlace, RowsAt

(* The rows of one key in a database. *)
LEMMA StoredKnown ==
    ASSUME NEW d \in Databases, KeyIsUnique(d), NEW p, NEW w \in Windows
    PROVE  /\ StoredIn(d, p, w) \in Nat
           /\ RowsAt(d, p, w) = {} => StoredIn(d, p, w) = 0
           /\ \A r \in RowsAt(d, p, w) : RowsAt(d, p, w) = {r} /\ StoredIn(d, p, w) = r.count
<1>1. MonthOf(w) \in Months
  BY WindowsInRange
<1>2. ASSUME NEW r \in RowsAt(d, p, w)
      PROVE  RowsAt(d, p, w) = {r} /\ StoredIn(d, p, w) = r.count /\ r.count \in Nat
  <2>1. r \in DownSampledSample
    BY <1>1 DEF RowsAt, Databases
  <2>2. r.count \in Nat
    BY <2>1 DEF DownSampledSample
  <2>3. RowsAt(d, p, w) = {r}
    BY <1>1 DEF RowsAt, KeyIsUnique
  <2> QED
    BY <2>2, <2>3, OneRow DEF StoredIn
<1>3. ASSUME RowsAt(d, p, w) = {} PROVE StoredIn(d, p, w) = 0
  BY <1>3, OneRow DEF StoredIn
<1>4. CASE RowsAt(d, p, w) = {}
  BY <1>3, <1>4
<1>5. CASE RowsAt(d, p, w) # {}
  <2>1. PICK r \in RowsAt(d, p, w) : TRUE
    BY <1>5
  <2> QED
    BY <1>2, <1>5, <2>1
<1> QED
  BY <1>4, <1>5

(* The places of one key in a queue. *)
LEMMA QueuedKnown ==
    ASSUME NEW q \in Seq(DownSampledSample), NEW p, NEW w
    PROVE  /\ KeyPlaces(q, p, w) = {} => CountedIn(q, p, w) = 0
           /\ \A k \in DOMAIN q : KeyPlaces(q, p, w) = {k} => CountedIn(q, p, w) = q[k].count
<1>1. KeyPlaces(q, p, w) = {} => CountedIn(q, p, w) = 0
  BY SumOfNone DEF CountedIn
<1>2. ASSUME NEW k \in DOMAIN q, KeyPlaces(q, p, w) = {k} PROVE CountedIn(q, p, w) = q[k].count
  <2>1. PICK S : S = {k}
    OBVIOUS
  <2>2. IsFiniteSet(S) /\ k \in S /\ \A i \in S : q[i].count \in Nat
    <3>1. IsFiniteSet(S)
      BY <1>2, <2>1, QueueKeys
    <3> QED
      BY <2>1, <3>1, QueueKeys
  <2>3. Adds(q, S, k)
    BY <2>2, SumAdds
  <2>4. SumOf(q, S \ {k}) = 0
    BY <2>1, SumOfNone
  <2>5. PICK c \in Nat : c = q[k].count
    BY <2>2
  <2>6. SumOf(q, S) = c
    BY <2>3, <2>4, <2>5 DEF Adds
  <2> QED
    BY <1>2, <2>1, <2>5, <2>6 DEF CountedIn
<1> QED
  BY <1>1, <1>2

(* A month is left alone, or takes all its rows of the batch. *)
LeftAlone(d, m) == d[m] = db[m]
TakesBatch(d, m) == ~ Conflicts(m) /\ d[m] = db[m] \cup RowsOf(m)

LEMMA BatchRows ==
    ASSUME writeBuffer \in Seq(DownSampledSample), NEW m \in Months
    PROVE  /\ RowsOf(m) \subseteq DownSampledSample
           /\ \A r \in RowsOf(m) : /\ MonthOf(r.window) = m
                                   /\ \E i \in 1 .. Len(writeBuffer) : writeBuffer[i] = r
           /\ \A i \in 1 .. Len(writeBuffer) : MonthOf(writeBuffer[i].window) = m => writeBuffer[i] \in RowsOf(m)
<1>1. DOMAIN writeBuffer = 1 .. Len(writeBuffer)
  OBVIOUS
<1>2. \A i \in 1 .. Len(writeBuffer) : writeBuffer[i] \in DownSampledSample
  OBVIOUS
<1> QED
  BY <1>1, <1>2 DEF RowsOf

(* A month that takes its batch has room for every key in it. *)
LEMMA BatchIsUnique ==
    ASSUME writeBuffer \in Seq(DownSampledSample), NEW m \in Months, ~ Conflicts(m)
    PROVE  /\ \A r, s \in RowsOf(m) : r.point = s.point /\ r.window = s.window => r = s
           /\ \A r \in RowsOf(m), old \in db[m] : ~(r.point = old.point /\ r.window = old.window)
           /\ \A i, j \in 1 .. Len(writeBuffer) :
                 /\ MonthOf(writeBuffer[i].window) = m
                 /\ writeBuffer[i].point = writeBuffer[j].point /\ writeBuffer[i].window = writeBuffer[j].window
                 => i = j
<1>1. DOMAIN writeBuffer = 1 .. Len(writeBuffer)
  OBVIOUS
<1>2. \A i, j \in 1 .. Len(writeBuffer) :
         /\ MonthOf(writeBuffer[i].window) = m
         /\ writeBuffer[i].point = writeBuffer[j].point /\ writeBuffer[i].window = writeBuffer[j].window
         => i = j
  BY <1>1 DEF Conflicts
<1>3. \A r \in RowsOf(m), old \in db[m] : ~(r.point = old.point /\ r.window = old.window)
  BY DEF Conflicts
<1>4. ASSUME NEW r \in RowsOf(m), NEW s \in RowsOf(m), r.point = s.point, r.window = s.window
      PROVE  r = s
  <2>1. PICK i \in 1 .. Len(writeBuffer) : writeBuffer[i] = r
    BY BatchRows
  <2>2. PICK j \in 1 .. Len(writeBuffer) : writeBuffer[j] = s
    BY BatchRows
  <2>3. MonthOf(writeBuffer[i].window) = m
    BY <2>1, BatchRows
  <2>4. i = j
    BY <1>2, <1>4, <2>1, <2>2, <2>3
  <2> QED
    BY <2>1, <2>2, <2>4
<1> QED
  BY <1>2, <1>3, <1>4

(* Inserting a batch moves its counts from the buffer to the databases, or *)
(* loses those of whole months.                                            *)
LEMMA InsertingMoves ==
    ASSUME writeBuffer \in Seq(DownSampledSample), db \in Databases, InPlace(db), KeyIsUnique(db),
           NEW d \in Databases, \A m \in Months : LeftAlone(d, m) \/ TakesBatch(d, m)
    PROVE  /\ InPlace(d) /\ KeyIsUnique(d)
           /\ \A p \in Points, w \in Windows :
                 /\ StoredIn(d, p, w) <= StoredIn(db, p, w) + CountedIn(writeBuffer, p, w)
                 /\ TakesBatch(d, MonthOf(w)) \/ RowsOf(MonthOf(w)) = {}
                       => StoredIn(d, p, w) = StoredIn(db, p, w) + CountedIn(writeBuffer, p, w)
<1>1. InPlace(d)
  <2>1. ASSUME NEW m \in Months, NEW r \in d[m] PROVE MonthOf(r.window) = m
    <3>1. r \in db[m] \/ r \in RowsOf(m)
      BY DEF LeftAlone, TakesBatch
    <3>2. \A s \in db[m] : MonthOf(s.window) = m
      BY DEF InPlace
    <3>3. \A s \in RowsOf(m) : MonthOf(s.window) = m
      BY BatchRows
    <3> QED
      BY <3>1, <3>2, <3>3
  <2> QED
    BY <2>1 DEF InPlace
<1>2. KeyIsUnique(d)
  <2>1. ASSUME NEW m \in Months, NEW r \in d[m], NEW s \in d[m], r.point = s.point, r.window = s.window
        PROVE  r = s
    <3>1. \A t, u \in db[m] : t.point = u.point /\ t.window = u.window => t = u
      BY DEF KeyIsUnique
    <3>2. CASE LeftAlone(d, m)
      BY <2>1, <3>1, <3>2 DEF LeftAlone
    <3>3. CASE TakesBatch(d, m)
      <4>1. ~ Conflicts(m) /\ (r \in db[m] \/ r \in RowsOf(m)) /\ (s \in db[m] \/ s \in RowsOf(m))
        BY <3>3 DEF TakesBatch
      <4>2. /\ \A t, u \in RowsOf(m) : t.point = u.point /\ t.window = u.window => t = u
            /\ \A t \in RowsOf(m), old \in db[m] : ~(t.point = old.point /\ t.window = old.window)
        BY <4>1, BatchIsUnique
      <4> QED
        BY <2>1, <3>1, <4>1, <4>2
    <3> QED
      BY <3>2, <3>3
  <2> QED
    BY <2>1 DEF KeyIsUnique
<1>3. ASSUME NEW p \in Points, NEW w \in Windows
      PROVE  /\ StoredIn(d, p, w) <= StoredIn(db, p, w) + CountedIn(writeBuffer, p, w)
             /\ TakesBatch(d, MonthOf(w)) \/ RowsOf(MonthOf(w)) = {}
                   => StoredIn(d, p, w) = StoredIn(db, p, w) + CountedIn(writeBuffer, p, w)
  <2>1. PICK m \in Months : m = MonthOf(w)
    BY WindowsInRange
  <2>2. StoredIn(db, p, w) \in Nat /\ CountedIn(writeBuffer, p, w) \in Nat /\ StoredIn(d, p, w) \in Nat
    BY <1>2, StoredKnown, QueueKeys
  <2>3. DOMAIN writeBuffer = 1 .. Len(writeBuffer)
    OBVIOUS
  <2>4. CASE KeyPlaces(writeBuffer, p, w) = {}
    <3>1. ASSUME NEW r \in RowsOf(m) PROVE ~(r.point = p /\ r.window = w)
      <4>1. PICK i \in 1 .. Len(writeBuffer) : writeBuffer[i] = r
        BY BatchRows
      <4> QED
        BY <2>3, <2>4, <4>1 DEF KeyPlaces
    <3>2. RowsAt(d, p, w) = RowsAt(db, p, w)
      BY <2>1, <3>1 DEF RowsAt, LeftAlone, TakesBatch
    <3>3. CountedIn(writeBuffer, p, w) = 0
      BY <2>4, QueuedKnown
    <3> QED
      BY <2>2, <3>2, <3>3 DEF StoredIn
  <2>5. CASE KeyPlaces(writeBuffer, p, w) # {}
    <3>1. PICK k \in 1 .. Len(writeBuffer) : writeBuffer[k].point = p /\ writeBuffer[k].window = w
      BY <2>3, <2>5 DEF KeyPlaces
    <3>2. writeBuffer[k] \in RowsOf(m)
      BY <2>1, <3>1, BatchRows
    <3>3. CASE TakesBatch(d, m)
      <4>1. ~ Conflicts(m) /\ d[m] = db[m] \cup RowsOf(m)
        BY <3>3 DEF TakesBatch
      <4>2. KeyPlaces(writeBuffer, p, w) = {k}
        <5>1. ASSUME NEW i \in 1 .. Len(writeBuffer), writeBuffer[i].point = p, writeBuffer[i].window = w
              PROVE  i = k
          BY <2>1, <3>1, <4>1, <5>1, BatchIsUnique
        <5> QED
          BY <2>3, <3>1, <5>1 DEF KeyPlaces
      <4>3. CountedIn(writeBuffer, p, w) = writeBuffer[k].count
        BY <2>3, <4>2, QueuedKnown
      <4>4. RowsAt(db, p, w) = {}
        <5>1. \A old \in db[m] : ~(writeBuffer[k].point = old.point /\ writeBuffer[k].window = old.window)
          BY <3>2, <4>1, BatchIsUnique
        <5> QED
          BY <2>1, <3>1, <5>1 DEF RowsAt
      <4>5. StoredIn(db, p, w) = 0
        BY <4>4, StoredKnown
      <4>6. writeBuffer[k] \in RowsAt(d, p, w)
        BY <2>1, <3>1, <3>2, <4>1 DEF RowsAt
      <4>7. StoredIn(d, p, w) = writeBuffer[k].count
        BY <1>2, <4>6, StoredKnown
      <4> QED
        BY <2>2, <4>3, <4>5, <4>7
    <3>4. CASE ~ TakesBatch(d, m)
      <4>1. RowsAt(d, p, w) = RowsAt(db, p, w)
        BY <2>1, <3>4 DEF RowsAt, LeftAlone
      <4> QED
        BY <2>1, <2>2, <3>2, <3>4, <4>1 DEF StoredIn
    <3> QED
      BY <3>3, <3>4
  <2> QED
    BY <2>4, <2>5
<1> QED
  BY <1>1, <1>2, <1>3

-----------------------------------------------------------------------------
(* The invariant of the history.                                           *)

HistoryTypes ==
    /\ wall \in 0 .. LastMoment
    /\ bridge \in Seq(Sample)
    /\ buckets \in Tables /\ fed \in Tables
    /\ writeBuffer \in Seq(DownSampledSample)
    /\ db \in Databases
    /\ dropped \in BOOLEAN /\ failed \in BOOLEAN
    /\ runs \in Nat \ {0}

(* What has been counted of a point and window, wherever it is now. *)
CountedSoFar(p, w) == buckets[p][w] + CountedIn(writeBuffer, p, w) + StoredIn(db, p, w)

NoneTwice == \A p \in Points, w \in Windows : CountedSoFar(p, w) <= fed[p][w]

NoneLost ==
    runs = 1 /\ ~dropped /\ ~failed =>
        \A p \in Points, w \in Windows : CountedSoFar(p, w) = fed[p][w]

(* What is on its way is not of the future. *)
OfThePast ==
    /\ \A i \in 1 .. Len(bridge) : bridge[i].timestamp <= wall
    /\ \A p \in Points, w \in Windows : buckets[p][w] > 0 => w <= AlignToWindow(wall)

OpenIsUnique ==
    \A p \in Points, v, w \in Windows : buckets[p][v] > 0 /\ buckets[p][w] > 0 => v = w

HistoryIInv ==
    /\ HistoryTypes
    /\ InPlace(db) /\ KeyIsUnique(db)
    /\ NoneTwice /\ NoneLost
    /\ OfThePast /\ OpenIsUnique

LEMMA CountsKnown ==
    ASSUME HistoryIInv, NEW p \in Points, NEW w \in Windows
    PROVE  /\ buckets[p][w] \in Nat /\ fed[p][w] \in Nat
           /\ CountedIn(writeBuffer, p, w) \in Nat /\ StoredIn(db, p, w) \in Nat
<1>1. buckets[p][w] \in Nat /\ fed[p][w] \in Nat
  BY DEF HistoryIInv, HistoryTypes, Tables
<1>2. CountedIn(writeBuffer, p, w) \in Nat
  BY QueueKeys DEF HistoryIInv, HistoryTypes
<1>3. StoredIn(db, p, w) \in Nat
  BY StoredKnown DEF HistoryIInv, HistoryTypes
<1> QED
  BY <1>1, <1>2, <1>3

LEMMA HistoryInitially == HistoryInit => HistoryIInv
<1> SUFFICES ASSUME HistoryInit PROVE HistoryIInv
  OBVIOUS
<1> USE DEF HistoryInit
<1>1. NoBuckets \in Tables /\ \A p \in Points, w \in Windows : NoBuckets[p][w] = 0
  BY DEF NoBuckets, Tables
<1>2. HistoryTypes
  <2>1. db \in Databases
    BY DEF Databases
  <2>2. wall \in 0 .. LastMoment
    BY HistoryBoundsAssumption
  <2>3. bridge \in Seq(Sample) /\ writeBuffer \in Seq(DownSampledSample)
    OBVIOUS
  <2>4. dropped \in BOOLEAN /\ failed \in BOOLEAN
    OBVIOUS
  <2>5. buckets \in Tables /\ fed \in Tables /\ runs \in Nat \ {0}
    BY <1>1
  <2> QED
    BY <2>1, <2>2, <2>3, <2>4, <2>5, Zenon DEF HistoryTypes
<1>3. InPlace(db) /\ KeyIsUnique(db)
  BY DEF InPlace, KeyIsUnique
<1>4. ASSUME NEW p \in Points, NEW w \in Windows PROVE CountedSoFar(p, w) = fed[p][w]
  <2>1. buckets[p][w] = 0 /\ fed[p][w] = 0
    BY <1>1
  <2>2. KeyPlaces(writeBuffer, p, w) = {}
    BY DEF KeyPlaces
  <2>3. CountedIn(writeBuffer, p, w) = 0
    BY <1>2, <2>2, QueuedKnown DEF HistoryTypes
  <2>4. RowsAt(db, p, w) = {}
    BY WindowsInRange DEF RowsAt
  <2>5. StoredIn(db, p, w) = 0
    BY <1>2, <1>3, <2>4, StoredKnown DEF HistoryTypes
  <2> QED
    BY <2>1, <2>3, <2>5 DEF CountedSoFar
<1>5. \A p \in Points, w \in Windows : fed[p][w] = 0
  BY <1>1
<1>6. NoneTwice /\ NoneLost
  BY <1>4, <1>5 DEF NoneTwice, NoneLost
<1>7. OfThePast /\ OpenIsUnique
  BY <1>1 DEF OfThePast, OpenIsUnique
<1> QED
  BY <1>2, <1>3, <1>6, <1>7 DEF HistoryIInv

(* A sample is given to the down-sampler. *)
LEMMA ConsumeOneStep == HistoryIInv /\ ConsumeOne => HistoryIInv'
<1> SUFFICES ASSUME HistoryIInv, ConsumeOne PROVE HistoryIInv'
  OBVIOUS
<1>1. HistoryTypes
  BY DEF HistoryIInv
<1>2. PICK s : s = Head(bridge) /\ s \in Sample /\ s.timestamp <= wall
  BY <1>1 DEF ConsumeOne, HistoryTypes, HistoryIInv, OfThePast
<1>3. PICK p0 \in Points, w0 \in Windows :
         p0 = s.point /\ w0 = AlignToWindow(s.timestamp) /\ w0 <= AlignToWindow(wall)
  <2>1. s.point \in Points /\ s.timestamp \in 0 .. LastMoment
    BY <1>2 DEF Sample
  <2>2. wall \in 0 .. LastMoment
    BY <1>1 DEF HistoryTypes
  <2> QED
    BY <1>2, <2>1, <2>2, WindowsInRange
<1>4. PICK b : b = [buckets EXCEPT ![p0][w0] = @ + 1]
  OBVIOUS
<1>5. /\ b \in Tables
      /\ \A p \in Points, w \in Windows :
            b[p][w] = IF p = p0 /\ w = w0 THEN buckets[p][w] + 1 ELSE buckets[p][w]
  BY <1>1, <1>4 DEF HistoryTypes, Tables
<1>6. /\ fed' \in Tables
      /\ \A p \in Points, w \in Windows :
            fed'[p][w] = IF p = p0 /\ w = w0 THEN fed[p][w] + 1 ELSE fed[p][w]
  <2>1. fed' = [fed EXCEPT ![p0][w0] = @ + 1]
    BY <1>2, <1>3 DEF ConsumeOne
  <2> QED
    BY <1>1, <2>1 DEF HistoryTypes, Tables
<1>7. PICK order \in SetToSeqs(ClosedWindows(b, p0)) :
         /\ writeBuffer' = Bounded(writeBuffer \o RolledUp(b, p0, order))
         /\ dropped' = (dropped \/ Overflow(writeBuffer \o RolledUp(b, p0, order)))
  BY <1>2, <1>3, <1>4 DEF ConsumeOne, Feed, RolledUp
<1>8. /\ buckets' = BucketsLeft(b, p0) /\ bridge' = Tail(bridge) /\ bridge # <<>>
      /\ UNCHANGED <<wall, db, failed, runs>>
  BY <1>2, <1>3, <1>4 DEF ConsumeOne, Feed
<1>9. PICK rows : rows = RolledUp(b, p0, order)
  OBVIOUS
<1>10. /\ rows \in Seq(DownSampledSample)
       /\ buckets' \in Tables
       /\ \A p \in Points, w \in Windows :
            /\ buckets'[p][w] = IF p = p0 /\ w \in ClosedWindows(b, p0) THEN 0 ELSE b[p][w]
            /\ buckets'[p][w] + CountedIn(writeBuffer \o rows, p, w) = b[p][w] + CountedIn(writeBuffer, p, w)
  <2>1. writeBuffer \in Seq(DownSampledSample)
    BY <1>1 DEF HistoryTypes
  <2> QED
    BY <1>5, <1>8, <1>9, <2>1, RollUpMoves
<1>11. PICK queue \in Seq(DownSampledSample) : queue = writeBuffer \o rows
  <2>1. writeBuffer \in Seq(DownSampledSample)
    BY <1>1 DEF HistoryTypes
  <2>2. rows \in Seq(DownSampledSample)
    BY <1>10
  <2>3. writeBuffer \o rows \in Seq(DownSampledSample)
    BY <2>1, <2>2, ConcatProperties
  <2> QED
    BY <2>3, Zenon
<1>12. /\ writeBuffer' \in Seq(DownSampledSample)
       /\ ~ Overflow(queue) => writeBuffer' = queue
       /\ \A p, w : CountedIn(writeBuffer', p, w) <= CountedIn(queue, p, w)
  <2>1. writeBuffer' = Bounded(queue)
    BY <1>7, <1>9, <1>11
  <2> QED
    BY <2>1, QueueBounds
<1>13. HistoryTypes'
  <2>1. bridge' \in Seq(Sample)
    BY <1>1, <1>8 DEF HistoryTypes
  <2>2. dropped' \in BOOLEAN
    BY <1>7
  <2> QED
    BY <1>1, <1>6, <1>8, <1>10, <1>12, <2>1, <2>2 DEF HistoryTypes
<1>14. InPlace(db)' /\ KeyIsUnique(db)'
  BY <1>8 DEF HistoryIInv, InPlace, KeyIsUnique
<1>15. ASSUME NEW p \in Points, NEW w \in Windows
       PROVE  /\ CountedSoFar(p, w) <= fed[p][w] => CountedSoFar(p, w)' <= fed'[p][w]
              /\ CountedSoFar(p, w) = fed[p][w] /\ writeBuffer' = queue => CountedSoFar(p, w)' = fed'[p][w]
  <2>1. PICK u \in Nat, f \in Nat, c \in Nat, st \in Nat :
           u = buckets[p][w] /\ f = fed[p][w] /\ c = CountedIn(writeBuffer, p, w) /\ st = StoredIn(db, p, w)
    BY CountsKnown
  <2>2. PICK delta \in {0, 1} : b[p][w] = u + delta /\ fed'[p][w] = f + delta
    <3>1. CASE p = p0 /\ w = w0
      BY <1>5, <1>6, <2>1, <3>1
    <3>2. CASE ~(p = p0 /\ w = w0)
      BY <1>5, <1>6, <2>1, <3>2
    <3> QED
      BY <3>1, <3>2
  <2>3. PICK u2 \in Nat, c2 \in Nat, c3 \in Nat :
           u2 = buckets'[p][w] /\ c2 = CountedIn(queue, p, w) /\ c3 = CountedIn(writeBuffer', p, w)
    <3>1. buckets'[p][w] \in Nat
      BY <1>10 DEF Tables
    <3> QED
      BY <1>12, <3>1, QueueKeys
  <2>4. u2 + c2 = b[p][w] + c
    BY <1>10, <1>11, <2>1, <2>3
  <2>5. c3 <= c2 /\ (writeBuffer' = queue => c3 = c2)
    BY <1>12, <2>3
  <2>6. CountedSoFar(p, w) = u + c + st
    BY <2>1 DEF CountedSoFar
  <2>7. CountedSoFar(p, w)' = u2 + c3 + st
    BY <1>8, <2>1, <2>3 DEF CountedSoFar
  <2>8. fed[p][w] = f /\ fed'[p][w] = f + delta /\ u2 + c2 = u + delta + c
    BY <2>1, <2>2, <2>4
  <2>9. u + c + st <= f => u2 + c3 + st <= f + delta
    <3>1. u2 + c2 = u + delta + c /\ c3 <= c2
      BY <2>5, <2>8
    <3> QED
      BY <3>1
  <2>10. u + c + st = f /\ writeBuffer' = queue => u2 + c3 + st = f + delta
    <3>1. u2 + c2 = u + delta + c /\ (writeBuffer' = queue => c3 = c2)
      BY <2>5, <2>8
    <3> QED
      BY <3>1
  <2> QED
    BY <2>6, <2>7, <2>8, <2>9, <2>10
<1>16. NoneTwice'
  BY <1>15 DEF HistoryIInv, NoneTwice
<1>17. NoneLost'
  <2> SUFFICES ASSUME runs' = 1, ~dropped', ~failed', NEW p \in Points, NEW w \in Windows
               PROVE  CountedSoFar(p, w)' = fed'[p][w]
    BY DEF NoneLost
  <2>1. runs = 1 /\ ~dropped /\ ~failed /\ ~ Overflow(queue)
    BY <1>7, <1>8, <1>9, <1>11
  <2>2. CountedSoFar(p, w) = fed[p][w]
    BY <2>1 DEF HistoryIInv, NoneLost
  <2> QED
    BY <1>12, <1>15, <2>1, <2>2
<1>18. OfThePast'
  <2>1. ASSUME NEW i \in 1 .. Len(bridge') PROVE bridge'[i].timestamp <= wall'
    <3>1. i + 1 \in 1 .. Len(bridge) /\ bridge'[i] = bridge[i + 1]
      BY <1>1, <1>8 DEF HistoryTypes
    <3> QED
      BY <1>8, <3>1 DEF HistoryIInv, OfThePast
  <2>2. ASSUME NEW p \in Points, NEW w \in Windows, buckets'[p][w] > 0 PROVE w <= AlignToWindow(wall')
    <3>1. b[p][w] > 0
      BY <1>10, <2>2
    <3>2. buckets[p][w] > 0 \/ w = w0
      BY <1>5, <3>1
    <3> QED
      BY <1>3, <1>8, <3>2 DEF HistoryIInv, OfThePast
  <2> QED
    BY <2>1, <2>2 DEF OfThePast
<1>19. OpenIsUnique'
  <2> SUFFICES ASSUME NEW p \in Points, NEW v \in Windows, NEW w \in Windows,
                      buckets'[p][v] > 0, buckets'[p][w] > 0
               PROVE  v = w
    BY DEF OpenIsUnique
  <2>1. b[p][v] > 0 /\ b[p][w] > 0
    BY <1>10
  <2>2. CASE p = p0
    <3>1. ASSUME NEW x \in Windows, buckets'[p][x] > 0, b[p][x] > 0 PROVE x = AlignToWindow(wall)
      <4>1. x \notin ClosedWindows(b, p0)
        BY <1>10, <2>2, <3>1
      <4>2. ~(x < AlignToWindow(wall))
        BY <2>2, <3>1, <4>1 DEF ClosedWindows
      <4>3. x <= AlignToWindow(wall)
        <5>1. buckets[p][x] > 0 \/ x = w0
          BY <1>5, <3>1
        <5> QED
          BY <1>3, <5>1 DEF HistoryIInv, OfThePast
      <4>4. x \in Nat /\ AlignToWindow(wall) \in Nat
        BY <1>1, WindowsInRange DEF HistoryTypes
      <4> QED
        BY <4>2, <4>3, <4>4
    <3> QED
      BY <2>1, <3>1
  <2>3. CASE p # p0
    BY <1>5, <2>1, <2>3 DEF HistoryIInv, OpenIsUnique
  <2> QED
    BY <2>2, <2>3
<1> QED
  BY <1>13, <1>14, <1>16, <1>17, <1>18, <1>19 DEF HistoryIInv

(* What a flush, complete or cut off, does to the databases. *)
LEMMA FlushStep ==
    ASSUME HistoryIInv, NEW refused, Flush(refused)
    PROVE  /\ db' \in Databases
           /\ \A m \in Months : LeftAlone(db', m) \/ TakesBatch(db', m)
           /\ failed' \in BOOLEAN
           /\ ~ failed' => ~ failed /\ \A m \in Months : TakesBatch(db', m) \/ RowsOf(m) = {}
<1>1. db \in Databases /\ writeBuffer \in Seq(DownSampledSample) /\ failed \in BOOLEAN
  BY DEF HistoryIInv, HistoryTypes
<1>2. ASSUME NEW m \in Months PROVE db'[m] = BatchInsert(m, refused)
  BY DEF Flush
<1>3. ASSUME NEW m \in Months
      PROVE  /\ LeftAlone(db', m) \/ TakesBatch(db', m)
             /\ m \in refused \/ Conflicts(m) \/ TakesBatch(db', m)
  BY <1>2 DEF BatchInsert, LeftAlone, TakesBatch
<1>4. db' \in Databases
  <2>1. ASSUME NEW m \in Months PROVE BatchInsert(m, refused) \subseteq DownSampledSample
    <3>1. db[m] \subseteq DownSampledSample
      BY <1>1 DEF Databases
    <3>2. RowsOf(m) \subseteq DownSampledSample
      BY <1>1, BatchRows
    <3> QED
      BY <3>1, <3>2 DEF BatchInsert
  <2> QED
    BY <2>1 DEF Flush, Databases
<1>5. failed' = (failed \/ \E m \in Months : RowsOf(m) # {} /\ (m \in refused \/ Conflicts(m)))
  BY DEF Flush
<1>6. failed' \in BOOLEAN
  BY <1>5
<1>7. ASSUME ~ failed' PROVE ~ failed /\ \A m \in Months : TakesBatch(db', m) \/ RowsOf(m) = {}
  <2>1. ~ failed /\ \A m \in Months : RowsOf(m) = {} \/ ~(m \in refused \/ Conflicts(m))
    BY <1>5, <1>7
  <2> QED
    BY <1>3, <2>1
<1> QED
  BY <1>3, <1>4, <1>6, <1>7

(* The buffer is empty, and what was in it is in the databases or lost. *)
LEMMA BufferEmptied ==
    ASSUME HistoryIInv, db' \in Databases, writeBuffer' = <<>>, fed' = fed,
           \A m \in Months : LeftAlone(db', m) \/ TakesBatch(db', m)
    PROVE  /\ InPlace(db)' /\ KeyIsUnique(db)'
           /\ \A p \in Points, w \in Windows :
                 /\ buckets'[p][w] = 0 \/ buckets'[p][w] = buckets[p][w] => CountedSoFar(p, w)' <= fed'[p][w]
                 /\ /\ CountedSoFar(p, w) = fed[p][w] /\ buckets'[p][w] = buckets[p][w]
                    /\ TakesBatch(db', MonthOf(w)) \/ RowsOf(MonthOf(w)) = {}
                    => CountedSoFar(p, w)' = fed'[p][w]
<1>1. db \in Databases /\ writeBuffer \in Seq(DownSampledSample) /\ InPlace(db) /\ KeyIsUnique(db)
  BY DEF HistoryIInv, HistoryTypes
<1>2. PICK d : d = db'
  OBVIOUS
<1>3. /\ InPlace(d) /\ KeyIsUnique(d)
      /\ \A p \in Points, w \in Windows :
            /\ StoredIn(d, p, w) <= StoredIn(db, p, w) + CountedIn(writeBuffer, p, w)
            /\ TakesBatch(d, MonthOf(w)) \/ RowsOf(MonthOf(w)) = {}
                  => StoredIn(d, p, w) = StoredIn(db, p, w) + CountedIn(writeBuffer, p, w)
  BY <1>1, <1>2, InsertingMoves
<1>4. InPlace(db)' /\ KeyIsUnique(db)'
  BY <1>2, <1>3 DEF InPlace, KeyIsUnique
<1>5. ASSUME NEW p \in Points, NEW w \in Windows
      PROVE  /\ buckets'[p][w] = 0 \/ buckets'[p][w] = buckets[p][w] => CountedSoFar(p, w)' <= fed'[p][w]
             /\ /\ CountedSoFar(p, w) = fed[p][w] /\ buckets'[p][w] = buckets[p][w]
                /\ TakesBatch(db', MonthOf(w)) \/ RowsOf(MonthOf(w)) = {}
                => CountedSoFar(p, w)' = fed'[p][w]
  <2>1. PICK u \in Nat, f \in Nat, c \in Nat, st \in Nat :
           u = buckets[p][w] /\ f = fed[p][w] /\ c = CountedIn(writeBuffer, p, w) /\ st = StoredIn(db, p, w)
    BY CountsKnown
  <2>2. PICK st2 \in Nat : st2 = StoredIn(d, p, w)
    BY <1>2, <1>3, StoredKnown
  <2>3. CountedIn(writeBuffer', p, w) = 0
    <3>1. KeyPlaces(writeBuffer', p, w) = {}
      BY DEF KeyPlaces
    <3>2. writeBuffer' \in Seq(DownSampledSample)
      OBVIOUS
    <3> QED
      BY <3>1, <3>2, QueuedKnown
  <2>4. CountedSoFar(p, w) = u + c + st /\ CountedSoFar(p, w)' = buckets'[p][w] + 0 + st2
    BY <1>2, <2>1, <2>2, <2>3 DEF CountedSoFar
  <2>5. u + c + st <= f
    BY <2>1, <2>4 DEF HistoryIInv, NoneTwice
  <2>6. st2 <= st + c
    BY <1>3, <2>1, <2>2
  <2>7. fed'[p][w] = f
    BY <2>1
  <2>8. ASSUME buckets'[p][w] = 0 \/ buckets'[p][w] = buckets[p][w] PROVE CountedSoFar(p, w)' <= fed'[p][w]
    <3>1. PICK u2 \in Nat : u2 = buckets'[p][w] /\ u2 <= u
      BY <2>1, <2>8
    <3>2. u2 + 0 + st2 <= f
      BY <2>5, <2>6, <3>1
    <3> QED
      BY <2>4, <2>7, <3>1, <3>2
  <2>9. ASSUME CountedSoFar(p, w) = fed[p][w], buckets'[p][w] = buckets[p][w],
               TakesBatch(db', MonthOf(w)) \/ RowsOf(MonthOf(w)) = {}
        PROVE  CountedSoFar(p, w)' = fed'[p][w]
    <3>1. st2 = st + c
      BY <1>2, <1>3, <2>1, <2>2, <2>9
    <3>2. u + c + st = f
      BY <2>1, <2>4, <2>9
    <3>3. u + 0 + st2 = f
      BY <3>1, <3>2
    <3> QED
      BY <2>1, <2>4, <2>7, <2>9, <3>3
  <2> QED
    BY <2>8, <2>9
<1> QED
  BY <1>4, <1>5

(* The memory of a new process is empty. *)
LEMMA FreshProcess ==
    ASSUME HistoryIInv, FreshMemory, db' \in Databases, failed' \in BOOLEAN, UNCHANGED <<wall, fed>>,
           \A m \in Months : LeftAlone(db', m) \/ TakesBatch(db', m)
    PROVE  HistoryIInv'
<1> USE DEF FreshMemory
<1>1. NoBuckets \in Tables /\ \A p \in Points, w \in Windows : NoBuckets[p][w] = 0
  BY DEF NoBuckets, Tables
<1>2. HistoryTypes
  BY DEF HistoryIInv
<1>3. HistoryTypes'
  <2>1. bridge' \in Seq(Sample) /\ writeBuffer' \in Seq(DownSampledSample) /\ buckets' \in Tables
    BY <1>1
  <2>2. wall' \in 0 .. LastMoment /\ fed' \in Tables
    BY <1>2 DEF HistoryTypes
  <2>3. runs' \in Nat \ {0}
    BY <1>2 DEF HistoryTypes
  <2>4. dropped' \in BOOLEAN
    OBVIOUS
  <2> QED
    BY <2>1, <2>2, <2>3, <2>4, Zenon DEF HistoryTypes
<1>4. InPlace(db)' /\ KeyIsUnique(db)'
  BY BufferEmptied
<1>5. NoneTwice'
  BY <1>1, BufferEmptied DEF NoneTwice
<1>6. NoneLost'
  <2>1. runs' # 1
    BY <1>2 DEF HistoryTypes
  <2> QED
    BY <2>1 DEF NoneLost
<1>7. OfThePast' /\ OpenIsUnique'
  BY <1>1 DEF OfThePast, OpenIsUnique
<1> QED
  BY <1>3, <1>4, <1>5, <1>6, <1>7 DEF HistoryIInv

LEMMA HistoryStep == HistoryIInv /\ [HistoryNext]_historyVars => HistoryIInv'
<1> SUFFICES ASSUME HistoryIInv, [HistoryNext]_historyVars PROVE HistoryIInv'
  OBVIOUS
<1>1. HistoryTypes
  BY DEF HistoryIInv
<1>2. CASE ClockTick
  <2>1. /\ wall' = wall + 1 /\ wall < LastMoment
        /\ UNCHANGED <<bridge, buckets, writeBuffer, db, dropped, failed, fed, runs>>
    BY <1>2 DEF ClockTick
  <2>2. wall \in 0 .. LastMoment /\ wall' \in 0 .. LastMoment /\ wall <= wall'
    BY <1>1, <2>1, HistoryBoundsAssumption DEF HistoryTypes
  <2>3. HistoryTypes'
    BY <1>1, <2>1, <2>2 DEF HistoryTypes
  <2>4. InPlace(db)' /\ KeyIsUnique(db)'
    BY <2>1 DEF HistoryIInv, InPlace, KeyIsUnique
  <2>5. NoneTwice' /\ NoneLost'
    BY <2>1 DEF HistoryIInv, NoneTwice, NoneLost, CountedSoFar
  <2>6. OfThePast'
    <3>1. ASSUME NEW i \in 1 .. Len(bridge') PROVE bridge'[i].timestamp <= wall'
      <4>1. bridge[i].timestamp <= wall /\ bridge[i] \in Sample /\ bridge' = bridge
        BY <1>1, <2>1, <3>1 DEF HistoryIInv, OfThePast, HistoryTypes
      <4>2. bridge[i].timestamp \in 0 .. LastMoment
        BY <4>1 DEF Sample
      <4> QED
        BY <2>2, <4>1, <4>2
    <3>2. AlignToWindow(wall) \in Nat /\ AlignToWindow(wall') \in Nat
          /\ AlignToWindow(wall) <= AlignToWindow(wall')
      BY <2>2, WindowsInRange
    <3>3. ASSUME NEW p \in Points, NEW w \in Windows, buckets'[p][w] > 0 PROVE w <= AlignToWindow(wall')
      <4>1. w <= AlignToWindow(wall) /\ w \in Nat
        BY <2>1, <3>3, WindowsInRange DEF HistoryIInv, OfThePast
      <4> QED
        BY <3>2, <4>1
    <3> QED
      BY <3>1, <3>3 DEF OfThePast
  <2>7. OpenIsUnique'
    BY <2>1 DEF HistoryIInv, OpenIsUnique
  <2> QED
    BY <2>3, <2>4, <2>5, <2>6, <2>7 DEF HistoryIInv
<1>3. ASSUME NEW p \in Points, Push(p) PROVE HistoryIInv'
  <2>1. UNCHANGED <<wall, buckets, writeBuffer, db, dropped, failed, fed, runs>>
    BY <1>3 DEF Push
  <2>2. PICK s : s = [point |-> p, timestamp |-> wall]
    OBVIOUS
  <2>3. s \in Sample /\ s.timestamp = wall
    BY <1>1, <2>2 DEF HistoryTypes, Sample
  <2>4. PICK old : /\ old = (IF Len(bridge) >= MaxPending THEN Tail(bridge) ELSE bridge)
                   /\ bridge' = Append(old, s)
    BY <1>3, <2>2 DEF Push
  <2>5. old \in Seq(Sample) /\ \A i \in 1 .. Len(old) : old[i].timestamp <= wall
    <3>1. bridge \in Seq(Sample) /\ \A i \in 1 .. Len(bridge) : bridge[i].timestamp <= wall
      BY <1>1 DEF HistoryTypes, HistoryIInv, OfThePast
    <3>2. CASE old = bridge
      BY <3>1, <3>2
    <3>3. CASE old = Tail(bridge) /\ Len(bridge) >= MaxPending
      <4>1. bridge # <<>>
        BY <3>1, <3>3, LengthsAssumption
      <4>2. old \in Seq(Sample) /\ Len(old) = Len(bridge) - 1
        BY <3>1, <3>3, <4>1
      <4>3. ASSUME NEW i \in 1 .. Len(old) PROVE old[i].timestamp <= wall
        <5>1. i + 1 \in 1 .. Len(bridge) /\ old[i] = bridge[i + 1]
          BY <3>1, <3>3, <4>1, <4>2
        <5> QED
          BY <3>1, <5>1
      <4> QED
        BY <4>2, <4>3
    <3> QED
      BY <2>4, <3>2, <3>3
  <2>6. bridge' \in Seq(Sample) /\ \A i \in 1 .. Len(bridge') : bridge'[i].timestamp <= wall
    <3>1. bridge' \in Seq(Sample) /\ Len(bridge') = Len(old) + 1
      BY <2>3, <2>4, <2>5
    <3>2. ASSUME NEW i \in 1 .. Len(bridge') PROVE bridge'[i].timestamp <= wall
      <4>1. CASE i <= Len(old)
        <5>1. i \in 1 .. Len(old) /\ bridge'[i] = old[i]
          BY <2>3, <2>4, <2>5, <3>1, <4>1
        <5> QED
          BY <2>5, <5>1
      <4>2. CASE i = Len(old) + 1
        <5>1. bridge'[i] = s
          BY <2>3, <2>4, <2>5, <4>2
        <5>2. wall \in Nat
          BY <1>1 DEF HistoryTypes
        <5> QED
          BY <2>3, <5>1, <5>2
      <4> QED
        BY <2>5, <3>1, <4>1, <4>2
    <3> QED
      BY <3>1, <3>2
  <2>7. HistoryTypes'
    BY <1>1, <2>1, <2>6 DEF HistoryTypes
  <2>8. InPlace(db)' /\ KeyIsUnique(db)'
    BY <2>1 DEF HistoryIInv, InPlace, KeyIsUnique
  <2>9. NoneTwice' /\ NoneLost'
    BY <2>1 DEF HistoryIInv, NoneTwice, NoneLost, CountedSoFar
  <2>10. OfThePast' /\ OpenIsUnique'
    BY <2>1, <2>6 DEF HistoryIInv, OfThePast, OpenIsUnique
  <2> QED
    BY <2>7, <2>8, <2>9, <2>10 DEF HistoryIInv
<1>4. CASE ConsumeOne
  BY <1>4, ConsumeOneStep
<1>5. CASE OnFlushTick
  <2>1. PICK refused : Flush(refused)
    BY <1>5 DEF OnFlushTick
  <2>2. writeBuffer' = <<>> /\ UNCHANGED <<wall, bridge, buckets, dropped, fed, runs>>
    BY <1>5 DEF OnFlushTick
  <2>3. /\ db' \in Databases
        /\ \A m \in Months : LeftAlone(db', m) \/ TakesBatch(db', m)
        /\ failed' \in BOOLEAN
        /\ ~ failed' => ~ failed /\ \A m \in Months : TakesBatch(db', m) \/ RowsOf(m) = {}
    BY <2>1, FlushStep
  <2>4. /\ InPlace(db)' /\ KeyIsUnique(db)'
        /\ \A p \in Points, w \in Windows :
              /\ buckets'[p][w] = 0 \/ buckets'[p][w] = buckets[p][w] => CountedSoFar(p, w)' <= fed'[p][w]
              /\ /\ CountedSoFar(p, w) = fed[p][w] /\ buckets'[p][w] = buckets[p][w]
                 /\ TakesBatch(db', MonthOf(w)) \/ RowsOf(MonthOf(w)) = {}
                 => CountedSoFar(p, w)' = fed'[p][w]
    BY <2>2, <2>3, BufferEmptied
  <2>5. HistoryTypes'
    <3>1. writeBuffer' \in Seq(DownSampledSample)
      BY <2>2
    <3> QED
      BY <1>1, <2>2, <2>3, <3>1 DEF HistoryTypes
  <2>6. NoneTwice'
    BY <2>2, <2>4 DEF NoneTwice
  <2>7. NoneLost'
    <3> SUFFICES ASSUME runs' = 1, ~dropped', ~failed', NEW p \in Points, NEW w \in Windows
                 PROVE  CountedSoFar(p, w)' = fed'[p][w]
      BY DEF NoneLost
    <3>1. MonthOf(w) \in Months
      BY WindowsInRange
    <3>2. TakesBatch(db', MonthOf(w)) \/ RowsOf(MonthOf(w)) = {}
      BY <2>3, <3>1
    <3>3. CountedSoFar(p, w) = fed[p][w]
      <4>1. runs = 1 /\ ~dropped /\ ~failed
        BY <2>2, <2>3
      <4> QED
        BY <4>1 DEF HistoryIInv, NoneLost
    <3> QED
      BY <2>2, <2>4, <3>2, <3>3
  <2>8. OfThePast' /\ OpenIsUnique'
    BY <2>2 DEF HistoryIInv, OfThePast, OpenIsUnique
  <2> QED
    BY <2>4, <2>5, <2>6, <2>7, <2>8 DEF HistoryIInv
<1>6. CASE StopAndRestart
  <2>1. PICK refused : Flush(refused)
    BY <1>6 DEF StopAndRestart
  <2>2. FreshMemory /\ UNCHANGED <<wall, fed>>
    BY <1>6 DEF StopAndRestart
  <2> QED
    BY <2>1, <2>2, FlushStep, FreshProcess
<1>7. CASE CrashAndRestart
  <2>1. FreshMemory /\ UNCHANGED <<wall, fed, failed>>
    BY <1>7 DEF CrashAndRestart
  <2>2. PICK done : db' = [m \in Months |-> IF m \in done THEN BatchInsert(m, {}) ELSE db[m]]
    BY <1>7 DEF CrashAndRestart
  <2>3. ASSUME NEW m \in Months PROVE LeftAlone(db', m) \/ TakesBatch(db', m)
    BY <2>2 DEF BatchInsert, LeftAlone, TakesBatch
  <2>4. db' \in Databases
    <3>1. ASSUME NEW m \in Months PROVE db'[m] \subseteq DownSampledSample
      <4>1. db[m] \subseteq DownSampledSample
        BY <1>1 DEF HistoryTypes, Databases
      <4>2. RowsOf(m) \subseteq DownSampledSample
        BY <1>1, BatchRows DEF HistoryTypes
      <4> QED
        BY <2>3, <4>1, <4>2 DEF LeftAlone, TakesBatch
    <3> QED
      BY <2>2, <3>1 DEF Databases
  <2>5. failed' \in BOOLEAN
    BY <1>1, <2>1 DEF HistoryTypes
  <2> QED
    BY <2>1, <2>3, <2>4, <2>5, FreshProcess
<1>8. CASE ConsumeTick \/ ConsumeDone \/ UNCHANGED historyVars
  <2>1. UNCHANGED <<wall, bridge, buckets, writeBuffer, db, dropped, failed, fed, runs>>
    BY <1>8 DEF ConsumeTick, ConsumeDone, historyVars
  <2>2. HistoryTypes'
    BY <1>1, <2>1 DEF HistoryTypes
  <2>3. InPlace(db)' /\ KeyIsUnique(db)'
    BY <2>1 DEF HistoryIInv, InPlace, KeyIsUnique
  <2>4. NoneTwice' /\ NoneLost'
    BY <2>1 DEF HistoryIInv, NoneTwice, NoneLost, CountedSoFar
  <2>5. OfThePast' /\ OpenIsUnique'
    BY <2>1 DEF HistoryIInv, OfThePast, OpenIsUnique
  <2> QED
    BY <2>2, <2>3, <2>4, <2>5 DEF HistoryIInv
<1> QED
  BY <1>2, <1>3, <1>4, <1>5, <1>6, <1>7, <1>8 DEF HistoryNext

LEMMA HistoryInvariance == HistorySpec => []HistoryIInv
  BY HistoryInitially, HistoryStep, PTL DEF HistorySpec

(* The sums of the properties are those of the invariant. *)
LEMMA SumsAgree ==
    ASSUME HistoryIInv, NEW p \in Points, NEW w \in Windows
    PROVE  Queued(p, w) = CountedIn(writeBuffer, p, w) /\ Stored(p, w) = StoredIn(db, p, w)
<1>1. Queued(p, w) = CountedIn(writeBuffer, p, w)
  BY DEF Queued, CountedIn, SumOf, KeyPlaces
<1>2. {r \in UNION {db[m] : m \in Months} : r.point = p /\ r.window = w} = RowsAt(db, p, w)
  BY StoredByMonth DEF HistoryIInv, HistoryTypes
<1>3. Stored(p, w) = StoredIn(db, p, w)
  BY <1>2 DEF Stored, StoredIn, CountOfRows
<1> QED
  BY <1>1, <1>3

(* No sample is counted twice: of a point and window there is in open      *)
(* windows, buffer and databases together at most what was fed, whatever   *)
(* batches fail, windows open again and processes end (rollUp, flush).     *)
THEOREM NothingIsCountedTwice == HistorySpec => []CountedAtMostOnce
<1>1. HistoryIInv => CountedAtMostOnce
  <2> SUFFICES ASSUME HistoryIInv, NEW p \in Points, NEW w \in Windows
               PROVE  buckets[p][w] + Queued(p, w) + Stored(p, w) <= fed[p][w]
    BY DEF CountedAtMostOnce
  <2>1. CountedSoFar(p, w) <= fed[p][w]
    BY DEF HistoryIInv, NoneTwice
  <2> QED
    BY <2>1, SumsAgree DEF CountedSoFar
<1> QED
  BY <1>1, HistoryInvariance, PTL

(* In the first run, what was fed and is nowhere has been reported: a drop *)
(* was counted by enqueueSample or flush has returned false.               *)
THEOREM LossesAreReported == HistorySpec => []LossIsReported
<1>1. HistoryIInv => LossIsReported
  <2> SUFFICES ASSUME HistoryIInv, runs = 1, ~dropped, ~failed, NEW p \in Points, NEW w \in Windows
               PROVE  buckets[p][w] + Queued(p, w) + Stored(p, w) = fed[p][w]
    BY DEF LossIsReported
  <2>1. CountedSoFar(p, w) = fed[p][w]
    BY DEF HistoryIInv, NoneLost
  <2> QED
    BY <2>1, SumsAgree DEF CountedSoFar
<1> QED
  BY <1>1, HistoryInvariance, PTL

(* A point has at most one open window: feed and rollUp of a sample leave  *)
(* only the window of the present, and no sample is of the future.         *)
THEOREM WindowsAreClosed == HistorySpec => []OneOpenWindow
<1>1. HistoryIInv => OneOpenWindow
  <2> SUFFICES ASSUME HistoryIInv, NEW p \in Points
               PROVE  Cardinality({w \in Windows : buckets[p][w] > 0}) <= 1
    BY DEF OneOpenWindow
  <2>1. PICK S : S = {w \in Windows : buckets[p][w] > 0}
    OBVIOUS
  <2>2. CASE S = {}
    BY <2>1, <2>2, FS_EmptySet
  <2>3. CASE S # {}
    <3>1. PICK x \in S : TRUE
      BY <2>3
    <3>2. S = {x}
      BY <2>1, <3>1 DEF HistoryIInv, OpenIsUnique
    <3>3. Cardinality({x}) = 1
      BY FS_Singleton
    <3> QED
      BY <2>1, <3>2, <3>3
  <2> QED
    BY <2>2, <2>3
<1> QED
  BY <1>1, HistoryInvariance, PTL

-----------------------------------------------------------------------------
(* Queries.                                                                *)

Kept == UNION {db[m] : m \in Months}

(* The rows a query should give, and those of some months among them. *)
Wanted(p, begin, end) ==
    {r \in Kept : /\ r.point = p
                  /\ r.window * WindowMs >= begin
                  /\ r.window * WindowMs < end}

WantedOf(p, begin, end, M) == {r \in Wanted(p, begin, end) : MonthOf(r.window) \in M}

WindowOrder == {rs \in DownSampledSample \X DownSampledSample : rs[1].window < rs[2].window}

(* The rows of a point have different windows, so ORDER BY ts has one      *)
(* result.                                                                 *)
LEMMA RowsOfPoint ==
    ASSUME HistoryIInv, NEW p \in Points, NEW S \in SUBSET {r \in Kept : r.point = p}
    PROVE  IsFiniteSet(S) /\ IsStrictOrder(WindowOrder, S)
<1>1. /\ db \in Databases /\ InPlace(db) /\ KeyIsUnique(db)
  BY DEF HistoryIInv, HistoryTypes
<1>2. ASSUME NEW r \in S PROVE r \in DownSampledSample /\ r.point = p /\ r.window \in Windows
                               /\ r.window \in Nat /\ MonthOf(r.window) \in Months
                               /\ r \in db[MonthOf(r.window)]
  <2>1. PICK m \in Months : r \in db[m] /\ r.point = p
    BY DEF Kept
  <2>2. r \in DownSampledSample /\ MonthOf(r.window) = m
    BY <1>1, <2>1 DEF Databases, InPlace
  <2>3. r.window \in Windows
    BY <2>2 DEF DownSampledSample
  <2> QED
    BY <2>1, <2>2, <2>3, WindowsInRange
<1>3. \A r, s \in S : r.window = s.window => r = s
  BY <1>1, <1>2 DEF KeyIsUnique
<1>4. IsFiniteSet(S)
  <2> DEFINE f == [r \in S |-> r.window]
  <2>1. f \in Injection(S, Windows)
    BY <1>2, <1>3 DEF Injection, IsInjective
  <2> HIDE DEF f
  <2> QED
    BY <2>1, WindowsInRange, FS_Injection
<1>5. IsStrictOrder(WindowOrder, S)
  <2>1. \A r, s \in S : <<r, s>> \in WindowOrder <=> r.window < s.window
    BY <1>2 DEF WindowOrder
  <2>2. \A r \in S : r.window \in Nat
    BY <1>2
  <2> QED
    BY <1>3, <2>1, <2>2 DEF IsStrictOrder
<1> QED
  BY <1>4, <1>5

LEMMA RowsInOrder ==
    ASSUME HistoryIInv, NEW p \in Points, NEW S \in SUBSET {r \in Kept : r.point = p}
    PROVE  IsInOrder(InOrder(S, ByWindow), WindowOrder, S)
<1> DEFINE q == InOrder(S, ByWindow)
           N(z) == Cardinality({y \in S : ByWindow(y, z)})
<1>1. IsFiniteSet(S) /\ IsStrictOrder(WindowOrder, S)
  BY RowsOfPoint
<1>2. S \subseteq DownSampledSample
  BY DEF HistoryIInv, HistoryTypes, Databases, Kept
<1>3. ASSUME NEW x \in S PROVE Rank(WindowOrder, S, x) = N(x)
  <2>1. Below(WindowOrder, S, x) = {y \in S : ByWindow(y, x)}
    BY <1>2 DEF Below, ByWindow, WindowOrder
  <2> QED
    BY <2>1 DEF Rank
<1>4. q = [i \in 1 .. Cardinality(S) |-> CHOOSE x \in S : N(x) = i - 1]
  BY DEF InOrder
<1> HIDE DEF q, N
<1>5. ASSUME NEW i \in 1 .. Cardinality(S), NEW x \in S, Rank(WindowOrder, S, x) = i - 1
      PROVE  q[i] \in S /\ Rank(WindowOrder, S, q[i]) = i - 1
  <2>1. N(x) = i - 1 /\ q[i] = CHOOSE z \in S : N(z) = i - 1
    BY <1>3, <1>4, <1>5
  <2>2. q[i] \in S /\ N(q[i]) = i - 1
    BY <2>1
  <2> QED
    BY <1>3, <2>2
<1>6. q = [i \in 1 .. Cardinality(S) |-> q[i]]
  <2> DEFINE c(i) == CHOOSE x \in S : N(x) = i - 1
  <2>1. q = [i \in 1 .. Cardinality(S) |-> c(i)]
    BY <1>4
  <2> HIDE DEF c
  <2> QED
    BY <2>1
<1>7. IsInOrder(q, WindowOrder, S)
  BY <1>1, <1>5, <1>6, OrderIsReached
<1> QED
  BY <1>7 DEF q

(* A window lies in the part of its month. *)
LEMMA WindowInMonth ==
    ASSUME NEW w \in Nat
    PROVE  /\ MonthOf(w) \in Nat
           /\ MonthStart(MonthOf(w)) \in Nat /\ MonthStart(MonthOf(w) + 1) \in Nat
           /\ w * WindowMs \in Nat
           /\ MonthStart(MonthOf(w)) <= w * WindowMs
           /\ w * WindowMs < MonthStart(MonthOf(w) + 1)
<1>1. WindowMs \in Nat \ {0} /\ MonthWindows \in Nat \ {0}
  BY LengthsAssumption
<1>2. PICK m \in Nat : m = w \div MonthWindows
  BY <1>1, Division
<1>3. PICK r \in 0 .. MonthWindows - 1 : w = MonthWindows * m + r
  BY <1>1, <1>2, Division
<1>4. \A a, b \in Nat : a * b \in Nat
  OBVIOUS
<1>5. PICK a \in Nat, b \in Nat : a = m * MonthWindows /\ b = (m + 1) * MonthWindows
  BY <1>1, <1>2, <1>4
<1>6. a = MonthWindows * m /\ b = a + MonthWindows
  BY <1>1, <1>2, <1>5
<1>7. a <= w /\ w < b
  BY <1>1, <1>3, <1>6
<1>8. \A x, y, k \in Nat : x <= y => x * k <= y * k
  BY SMTT(30)
<1>9. \A x, y \in Nat, k \in Nat \ {0} : x < y => x * k < y * k
  BY SMTT(30)
<1>10. a * WindowMs <= w * WindowMs /\ w * WindowMs < b * WindowMs
  BY <1>1, <1>7, <1>8, <1>9
<1>11. MonthOf(w) = m /\ MonthStart(m) = a * WindowMs /\ MonthStart(m + 1) = b * WindowMs
  BY <1>2, <1>5 DEF MonthOf, MonthStart
<1>12. a * WindowMs \in Nat /\ b * WindowMs \in Nat /\ w * WindowMs \in Nat
  BY <1>1, <1>4
<1> QED
  BY <1>10, <1>11, <1>12

(* The greater and the smaller of two numbers. *)
LEMMA OfTwo ==
    ASSUME NEW a \in Int, NEW b \in Int, NEW x \in Int
    PROVE  (x >= Max({a, b}) <=> x >= a /\ x >= b) /\ (x < Min({a, b}) <=> x < a /\ x < b)
<1>1. Max({a, b}) = IF a >= b THEN a ELSE b
  BY DEF Max
<1>2. Min({a, b}) = IF a <= b THEN a ELSE b
  BY DEF Min
<1> QED
  BY <1>1, <1>2

(* A month gives those of its rows that are wanted. *)
LEMMA MonthGives ==
    ASSUME HistoryIInv, NEW p \in Points, NEW begin \in Nat, NEW end \in Nat, NEW m \in Months
    PROVE  QueryMonth(p, m, begin, end) = InOrder(WantedOf(p, begin, end, {m}), ByWindow)
<1> DEFINE rows == {r \in db[m] : /\ r.point = p
                                  /\ r.window * WindowMs >= Max({begin, MonthStart(m)})
                                  /\ r.window * WindowMs < Min({end, MonthStart(m + 1)})}
<1>1. db \in Databases /\ InPlace(db)
  BY DEF HistoryIInv, HistoryTypes
<1>2. ASSUME NEW r \in db[m] PROVE r.window \in Nat /\ MonthOf(r.window) = m /\ r \in Kept
  <2>1. r \in DownSampledSample /\ MonthOf(r.window) = m
    BY <1>1 DEF Databases, InPlace
  <2>2. r.window \in Windows
    BY <2>1 DEF DownSampledSample
  <2> QED
    BY <2>1, <2>2, WindowsInRange DEF Kept
<1>3. ASSUME NEW r \in db[m]
      PROVE  /\ r.window * WindowMs >= Max({begin, MonthStart(m)}) <=> r.window * WindowMs >= begin
             /\ r.window * WindowMs < Min({end, MonthStart(m + 1)}) <=> r.window * WindowMs < end
  <2>1. PICK t \in Nat : t = r.window * WindowMs
    BY <1>2, WindowInMonth
  <2>2. /\ MonthStart(m) \in Nat /\ MonthStart(m + 1) \in Nat
        /\ MonthStart(m) <= t /\ t < MonthStart(m + 1)
    BY <1>2, <2>1, WindowInMonth
  <2>3. /\ t >= Max({begin, MonthStart(m)}) <=> t >= begin /\ t >= MonthStart(m)
        /\ t < Min({end, MonthStart(m + 1)}) <=> t < end /\ t < MonthStart(m + 1)
    <3>1. begin \in Int /\ end \in Int /\ t \in Int /\ MonthStart(m) \in Int /\ MonthStart(m + 1) \in Int
      BY <2>2
    <3>2. t >= Max({begin, MonthStart(m)}) <=> t >= begin /\ t >= MonthStart(m)
      BY <3>1, OfTwo
    <3>3. t < Min({end, MonthStart(m + 1)}) <=> t < end /\ t < MonthStart(m + 1)
      BY <3>1, OfTwo
    <3> QED
      BY <3>2, <3>3
  <2>4. /\ t >= Max({begin, MonthStart(m)}) <=> t >= begin
        /\ t < Min({end, MonthStart(m + 1)}) <=> t < end
    BY <2>2, <2>3
  <2> QED
    BY <2>1, <2>4
<1>4. \A r \in Kept : MonthOf(r.window) = m => r \in db[m]
  BY <1>1 DEF Kept, InPlace
<1>5. rows = WantedOf(p, begin, end, {m})
  BY <1>2, <1>3, <1>4 DEF WantedOf, Wanted
<1> QED
  BY <1>5 DEF QueryMonth

(* No month with a wanted row is left out. *)
LEMMA MonthsSuffice ==
    ASSUME HistoryIInv, NEW p \in Points, NEW begin \in Nat, NEW end \in Nat,
           NEW r \in Wanted(p, begin, end)
    PROVE  MonthOf(r.window) \in QueryMonths(begin, end)
<1>1. WindowMs \in Nat \ {0} /\ MonthWindows \in Nat \ {0}
  BY LengthsAssumption
<1>2. r.window \in Nat /\ MonthOf(r.window) \in Months
  <2>1. PICK m \in Months : r \in db[m]
    BY DEF Wanted, Kept
  <2>2. r \in DownSampledSample
    BY <2>1 DEF HistoryIInv, HistoryTypes, Databases
  <2>3. r.window \in Windows
    BY <2>2 DEF DownSampledSample
  <2> QED
    BY <2>3, WindowsInRange
<1>3. PICK w \in Nat, t \in Nat : w = r.window /\ t = w * WindowMs
  BY <1>2, WindowInMonth
<1>4. begin <= t /\ t < end
  BY <1>3 DEF Wanted
<1>5. AlignToWindow(begin) \in Nat /\ AlignToWindow(begin) <= w
  <2>1. /\ begin \div WindowMs \in Nat /\ t \div WindowMs \in Nat
        /\ begin \div WindowMs <= t \div WindowMs
    BY <1>1, <1>4, DivisionMonotone
  <2>2. t \div WindowMs = w
    BY <1>1, <1>3, SMTT(30)
  <2> QED
    BY <2>1, <2>2 DEF AlignToWindow
<1>6. MonthOf(AlignToWindow(begin)) <= MonthOf(w)
  BY <1>1, <1>5, DivisionMonotone DEF MonthOf
<1>7. MonthStart(MonthOf(w)) <= t /\ MonthStart(MonthOf(w)) \in Nat
  BY <1>3, WindowInMonth
<1>8. MonthOf(w) \in Nat /\ MonthOf(AlignToWindow(begin)) \in Nat
  BY <1>5, WindowInMonth
<1> QED
  BY <1>2, <1>3, <1>4, <1>6, <1>7, <1>8 DEF QueryMonths

(* The loop over the months goes through them in the order of time. *)
MonthOrder == {ms \in Int \X Int : ms[1] < ms[2]}

LEMMA MonthsInTurn ==
    ASSUME NEW begin \in Nat, NEW end \in Nat
    PROVE  LET M == QueryMonths(begin, end)
           IN  IsFiniteSet(M) /\ M \subseteq Nat /\ IsInOrder(InOrder(M, NextMonth), MonthOrder, M)
<1> DEFINE M == QueryMonths(begin, end)
           q == InOrder(M, NextMonth)
           N(z) == Cardinality({y \in M : NextMonth(y, z)})
<1>1. M \in SUBSET Months /\ Months \subseteq Nat /\ IsFiniteSet(Months)
  <2>1. MonthOf(AlignToWindow(LastMoment)) \in Nat
    <3>1. LastMoment \in 0 .. LastMoment
      BY HistoryBoundsAssumption
    <3>2. AlignToWindow(LastMoment) \in Nat
      BY <3>1, WindowsInRange
    <3> QED
      BY <3>2, WindowInMonth
  <2>2. IsFiniteSet(0 .. MonthOf(AlignToWindow(LastMoment)))
    BY <2>1, FS_Interval
  <2> QED
    BY <2>1, <2>2 DEF QueryMonths, Months
<1>2. IsFiniteSet(M) /\ M \subseteq Nat
  BY <1>1, FS_Subset
<1>3. IsStrictOrder(MonthOrder, M)
  <2> HIDE DEF M
  <2>1. \A x, y \in M : <<x, y>> \in MonthOrder <=> x < y
    BY <1>2 DEF MonthOrder
  <2> QED
    BY <1>2, <2>1 DEF IsStrictOrder
<1>4. ASSUME NEW x \in M PROVE Rank(MonthOrder, M, x) = N(x)
  <2>1. Below(MonthOrder, M, x) = {y \in M : NextMonth(y, x)}
    <3> HIDE DEF M
    <3>1. \A y, z \in M : <<y, z>> \in MonthOrder <=> NextMonth(y, z)
      BY <1>2 DEF MonthOrder, NextMonth
    <3> QED
      BY <3>1 DEF Below
  <2> QED
    BY <2>1 DEF Rank
<1>5. q = [i \in 1 .. Cardinality(M) |-> CHOOSE x \in M : N(x) = i - 1]
  BY DEF InOrder
<1> HIDE DEF q, N, M
<1>6. ASSUME NEW i \in 1 .. Cardinality(M), NEW x \in M, Rank(MonthOrder, M, x) = i - 1
      PROVE  q[i] \in M /\ Rank(MonthOrder, M, q[i]) = i - 1
  <2>1. N(x) = i - 1 /\ q[i] = CHOOSE z \in M : N(z) = i - 1
    BY <1>4, <1>5, <1>6
  <2>2. q[i] \in M /\ N(q[i]) = i - 1
    BY <2>1
  <2> QED
    BY <1>4, <2>2
<1>7. q = [i \in 1 .. Cardinality(M) |-> q[i]]
  <2> DEFINE c(i) == CHOOSE x \in M : N(x) = i - 1
  <2>1. q = [i \in 1 .. Cardinality(M) |-> c(i)]
    BY <1>5
  <2> HIDE DEF c
  <2> QED
    BY <2>1
<1>8. IsInOrder(q, MonthOrder, M)
  BY <1>2, <1>3, <1>6, <1>7, OrderIsReached
<1> QED
  BY <1>2, <1>8 DEF M, q

(* What the loop has put out after each month. *)
PutOut(h, p, begin, end, q) ==
    /\ h[0] = <<>>
    /\ \A i \in 1 .. Len(q) : h[i] = h[i - 1] \o QueryMonth(p, q[i], begin, end)
    /\ QueryInTurn(p, begin, end, q) = h[Len(q)]

LEMMA MonthByMonth ==
    ASSUME NEW p, NEW begin, NEW end, NEW q \in Seq(Nat),
           \A i \in 1 .. Len(q) : QueryMonth(p, q[i], begin, end) \in Seq(DownSampledSample)
    PROVE  \E h : PutOut(h, p, begin, end, q)
<1> DEFINE A == Seq(DownSampledSample)
           n == Len(q)
           Step(g, s) == IF s = {} THEN <<>>
                         ELSE g[s \ {Max(s)}] \o QueryMonth(p, q[Max(s)], begin, end)
           IsIter(g) == g = [s \in SUBSET (1 .. n) |-> Step(g, s)]
           iter == CHOOSE g : IsIter(g)
           F == [i \in 1 .. n |-> [a \in A |-> a \o QueryMonth(p, q[i], begin, end)]]
<1>1. n \in Nat /\ DOMAIN q = 1 .. n
  OBVIOUS
<1>2. \A i \in 1 .. n : F[i] \in [A -> A]
         /\ \A a \in A : F[i][a] = a \o QueryMonth(p, q[i], begin, end)
  <2>1. \A i \in 1 .. n : \A a \in A : a \o QueryMonth(p, q[i], begin, end) \in A
    OBVIOUS
  <2> HIDE DEF A, n
  <2> QED
    BY <2>1
<1>3. QueryInTurn(p, begin, end, q) = iter[1 .. n]
  BY <1>1 DEF QueryInTurn, FoldLeft, MapThenFoldSet
<1>4. <<>> \in A
  OBVIOUS
<1> HIDE DEF A, n, F
<1>5. ASSUME NEW s \in SUBSET (1 .. n), s # {} PROVE Max(s) \in 1 .. n /\ s \ {Max(s)} \in SUBSET (1 .. n)
  BY <1>1, <1>5, MaxIsGreatest
<1>6. \E g : IsIter(g)
  <2>1. PICK g : IsFold(g, F, <<>>, n) /\ \A s \in SUBSET (1 .. n) : g[s] \in A
    BY <1>1, <1>2, <1>4, FoldExists
  <2>2. \A s \in SUBSET (1 .. n) : FoldStep(g, F, <<>>, s) = Step(g, s)
    BY <1>2, <1>5, <2>1 DEF FoldStep
  <2>3. IsIter(g)
    BY <2>1, <2>2 DEF IsFold
  <2> QED
    BY <2>3
<1>7. IsIter(iter)
  BY <1>6
<1> HIDE DEF iter
<1>8. iter[{}] = <<>>
  BY <1>7
<1>9. FoldsOver(iter, F, <<>>, A, n)
  <2>1. ASSUME NEW s \in SUBSET (1 .. n), s # {}, iter[s \ {Max(s)}] \in A
        PROVE  iter[s] = F[Max(s)][iter[s \ {Max(s)}]]
    BY <1>2, <1>5, <1>7, <2>1
  <2> QED
    BY <1>8, <2>1 DEF FoldsOver
<1> HIDE DEF IsIter, Step
<1>10. PICK h : IsRun(h, F, <<>>, A, n) /\ iter[1 .. n] = h[n]
  BY <1>1, <1>2, <1>4, <1>9, FoldUnwinds
<1>11. \A i \in 1 .. n : h[i] = h[i - 1] \o QueryMonth(p, q[i], begin, end)
  <2>1. \A i \in 1 .. n : i - 1 \in 0 .. n
    BY <1>1
  <2> QED
    BY <1>2, <1>10, <2>1 DEF IsRun
<1> QED
  BY <1>3, <1>10, <1>11 DEF n, IsRun, PutOut

(* Rows of an earlier month come before those of a later one. *)
LEMMA MonthsSeparate ==
    ASSUME HistoryIInv, NEW p \in Points, NEW begin \in Nat, NEW end \in Nat,
           NEW M \in SUBSET Nat, NEW m \in Nat, \A k \in M : k < m,
           NEW r \in WantedOf(p, begin, end, M), NEW s \in WantedOf(p, begin, end, {m})
    PROVE  <<r, s>> \in WindowOrder /\ r # s
<1>1. r \in Kept /\ s \in Kept /\ MonthOf(r.window) \in M /\ MonthOf(s.window) = m
  BY DEF WantedOf, Wanted
<1>2. r \in DownSampledSample /\ s \in DownSampledSample
  BY <1>1 DEF HistoryIInv, HistoryTypes, Databases, Kept
<1>3. PICK v \in Nat, w \in Nat : v = r.window /\ w = s.window
  <2>1. r.window \in Windows /\ s.window \in Windows
    BY <1>2 DEF DownSampledSample
  <2> QED
    BY <2>1, WindowsInRange
<1>4. MonthOf(v) < MonthOf(w) /\ MonthOf(v) \in Nat /\ MonthOf(w) \in Nat
  BY <1>1, <1>3
<1>5. ~(w <= v)
  <2> SUFFICES ASSUME w <= v PROVE FALSE
    OBVIOUS
  <2>1. MonthWindows \in Nat \ {0}
    BY LengthsAssumption
  <2>2. MonthOf(w) <= MonthOf(v)
    BY <2>1, DivisionMonotone DEF MonthOf
  <2> QED
    BY <1>4, <2>2
<1>6. r.window < s.window
  BY <1>3, <1>5
<1>7. r # s
  BY <1>1, <1>4, <1>3
<1> QED
  BY <1>2, <1>6, <1>7 DEF WindowOrder

(* After some months, the wanted rows of these months are there in order. *)
LEMMA QueryFinds ==
    ASSUME HistoryIInv, NEW p \in Points, NEW begin \in Nat, NEW end \in Nat, begin < end
    PROVE  IsInOrder(QueryRange(p, begin, end), WindowOrder, Wanted(p, begin, end))
<1> DEFINE M == QueryMonths(begin, end)
           q == InOrder(M, NextMonth)
           n == Cardinality(M)
           Out(i) == WantedOf(p, begin, end, {q[j] : j \in 1 .. i})
           Of(m) == WantedOf(p, begin, end, {m})
<1>1. IsFiniteSet(M) /\ M \in SUBSET Months /\ M \in SUBSET Nat /\ IsInOrder(q, MonthOrder, M)
  BY MonthsInTurn DEF QueryMonths
<1>2. n \in Nat
  BY <1>1, FS_CardinalityType
<1>3. /\ q \in [1 .. n -> M]
      /\ \A x \in M : \E i \in 1 .. n : q[i] = x
      /\ \A i, j \in 1 .. n : i < j => <<q[i], q[j]>> \in MonthOrder
  BY <1>1 DEF IsInOrder
<1>4. q \in Seq(Nat) /\ Len(q) = n
  BY <1>1, <1>2, <1>3
<1>5. ~(begin >= end)
  OBVIOUS
<1>6. QueryRange(p, begin, end) = QueryInTurn(p, begin, end, q)
  BY <1>5 DEF QueryRange
<1> HIDE DEF M, q, n
<1>7. ASSUME NEW K PROVE WantedOf(p, begin, end, K) \in SUBSET {r \in Kept : r.point = p}
  BY DEF WantedOf, Wanted
<1>8. ASSUME NEW m \in M
      PROVE  /\ QueryMonth(p, m, begin, end) = InOrder(Of(m), ByWindow)
             /\ IsFiniteSet(Of(m)) /\ IsInOrder(QueryMonth(p, m, begin, end), WindowOrder, Of(m))
             /\ QueryMonth(p, m, begin, end) \in Seq(DownSampledSample)
  <2>1. m \in Months
    BY <1>1
  <2>2. QueryMonth(p, m, begin, end) = InOrder(Of(m), ByWindow)
    BY <2>1, MonthGives
  <2>3. Of(m) \in SUBSET {r \in Kept : r.point = p}
    BY <1>7
  <2>4. IsFiniteSet(Of(m)) /\ IsInOrder(QueryMonth(p, m, begin, end), WindowOrder, Of(m))
    <3> HIDE DEF Of
    <3> QED
      BY <2>2, <2>3, RowsOfPoint, RowsInOrder
  <2>5. Of(m) \subseteq DownSampledSample
    BY <2>3 DEF HistoryIInv, HistoryTypes, Databases, Kept
  <2>6. Cardinality(Of(m)) \in Nat
    BY <2>4, FS_CardinalityType
  <2>7. QueryMonth(p, m, begin, end) \in [1 .. Cardinality(Of(m)) -> Of(m)]
    BY <2>4 DEF IsInOrder
  <2> HIDE DEF Of
  <2>8. QueryMonth(p, m, begin, end) \in Seq(DownSampledSample)
    BY <2>5, <2>6, <2>7
  <2> QED
    BY <2>2, <2>4, <2>8
<1>9. PICK h : /\ h[0] = <<>>
               /\ \A i \in 1 .. n : h[i] = h[i - 1] \o QueryMonth(p, q[i], begin, end)
               /\ QueryRange(p, begin, end) = h[n]
  <2>1. \A i \in 1 .. Len(q) : QueryMonth(p, q[i], begin, end) \in Seq(DownSampledSample)
    BY <1>3, <1>4, <1>8
  <2>2. PICK h : PutOut(h, p, begin, end, q)
    BY <1>4, <2>1, MonthByMonth
  <2> QED
    BY <1>4, <1>6, <2>2 DEF PutOut
<1> DEFINE G == {i \in 0 .. n : IsFiniteSet(Out(i)) /\ IsInOrder(h[i], WindowOrder, Out(i))}
<1>10. 0 \in G
  <2>1. Out(0) = {}
    BY DEF WantedOf
  <2>2. IsFiniteSet({}) /\ Cardinality({}) = 0
    BY FS_EmptySet
  <2>3. IsInOrder(<<>>, WindowOrder, {})
    BY <2>2 DEF IsInOrder
  <2>4. 0 \in 0 .. n
    BY <1>2
  <2> HIDE DEF Out
  <2> QED
    BY <1>9, <2>1, <2>2, <2>3, <2>4
<1>11. ASSUME NEW i \in 0 .. n - 1, i \in G PROVE i + 1 \in G
  <2>1. i + 1 \in 1 .. n /\ (i + 1) - 1 = i /\ i + 1 \in 0 .. n /\ i \in 0 .. n
        /\ (1 .. i + 1) = (1 .. i) \cup {i + 1}
    BY <1>2
  <2> DEFINE K == {q[j] : j \in 1 .. i}
             m == q[i + 1]
  <2>2. m \in M /\ m \in Nat
    BY <1>1, <1>3, <2>1
  <2>3. K \in SUBSET Nat /\ \A k \in K : k < m
    <3>1. ASSUME NEW j \in 1 .. i PROVE q[j] \in Nat /\ q[j] < m
      <4>1. j \in 1 .. n /\ j < i + 1
        BY <1>2
      <4>2. <<q[j], q[i + 1]>> \in MonthOrder /\ q[j] \in M
        BY <1>3, <2>1, <4>1
      <4> QED
        BY <1>1, <4>2 DEF MonthOrder
    <3> QED
      BY <3>1
  <2>4. Out(i + 1) = Out(i) \cup Of(m)
    BY <2>1 DEF WantedOf
  <2> HIDE DEF K, m
  <2>5. Out(i) = WantedOf(p, begin, end, K)
    BY DEF K
  <2> HIDE DEF Out, Of
  <2>6. \A r \in Out(i), s \in Of(m) : <<r, s>> \in WindowOrder /\ r # s
    <3>1. ASSUME NEW r \in WantedOf(p, begin, end, K), NEW s \in WantedOf(p, begin, end, {m})
          PROVE  <<r, s>> \in WindowOrder /\ r # s
      BY <2>2, <2>3, MonthsSeparate
    <3> QED
      BY <2>5, <3>1 DEF Of
  <2>7. IsFiniteSet(Out(i)) /\ IsInOrder(h[i], WindowOrder, Out(i))
    BY <1>11
  <2>8. IsFiniteSet(Of(m)) /\ IsInOrder(QueryMonth(p, m, begin, end), WindowOrder, Of(m))
    BY <1>8, <2>2
  <2>9. h[i + 1] = h[i] \o QueryMonth(p, m, begin, end)
    BY <1>9, <2>1 DEF m
  <2>10. IsFiniteSet(Out(i) \cup Of(m))
         /\ IsInOrder(h[i] \o QueryMonth(p, m, begin, end), WindowOrder, Out(i) \cup Of(m))
    BY <2>6, <2>7, <2>8, OrdersJoin
  <2> QED
    BY <2>1, <2>4, <2>9, <2>10
<1>12. n \in G
  <2> HIDE DEF G
  <2> QED
    BY <1>2, <1>10, <1>11, CountUp
<1>13. Out(n) = Wanted(p, begin, end)
  <2>1. {q[j] : j \in 1 .. n} = M
    BY <1>3
  <2>2. \A r \in Wanted(p, begin, end) : MonthOf(r.window) \in M
    BY MonthsSuffice DEF M
  <2> QED
    BY <2>1, <2>2 DEF WantedOf
<1> QED
  BY <1>9, <1>12, <1>13

(* queryRange gives the rows of the interval, each once and in the order   *)
(* of time, whatever its length and wherever in a month it begins or ends. *)
THEOREM QueriesAreExact == HistorySpec => []QueryIsExact
<1>1. HistoryIInv => QueryIsExact
  <2> SUFFICES ASSUME HistoryIInv, NEW p \in Points,
                      NEW begin \in 0 .. LastMoment + 1, NEW end \in 0 .. LastMoment + 1
               PROVE  QueryRange(p, begin, end) = InOrder(Wanted(p, begin, end), ByWindow)
    BY DEF QueryIsExact, Wanted, Kept
  <2> DEFINE S == Wanted(p, begin, end)
  <2>1. begin \in Nat /\ end \in Nat
    OBVIOUS
  <2>2. S \in SUBSET {r \in Kept : r.point = p}
    BY DEF Wanted
  <2> HIDE DEF S
  <2>3. /\ IsFiniteSet(S) /\ IsStrictOrder(WindowOrder, S)
        /\ IsInOrder(InOrder(S, ByWindow), WindowOrder, S)
    BY <2>2, RowsOfPoint, RowsInOrder
  <2>4. IsInOrder(QueryRange(p, begin, end), WindowOrder, S)
    <3>1. CASE begin < end
      BY <2>1, <3>1, QueryFinds DEF S
    <3>2. CASE ~(begin < end)
      <4>0. begin >= end
        BY <2>1, <3>2
      <4>1. QueryRange(p, begin, end) = <<>>
        BY <4>0 DEF QueryRange
      <4>2. S = {}
        <5> SUFFICES ASSUME NEW r \in S PROVE FALSE
          OBVIOUS
        <5>1. r \in Kept /\ r.window * WindowMs >= begin /\ r.window * WindowMs < end
          BY DEF S, Wanted
        <5>2. r \in DownSampledSample
          BY <5>1 DEF HistoryIInv, HistoryTypes, Databases, Kept
        <5>3. r.window \in Nat
          <6>1. r.window \in Windows
            BY <5>2 DEF DownSampledSample
          <6> QED
            BY <6>1, WindowsInRange
        <5>4. PICK t \in Nat : t = r.window * WindowMs
          BY <5>3, WindowInMonth
        <5> QED
          BY <2>1, <3>2, <5>1, <5>4
      <4>3. Cardinality({}) = 0
        BY FS_EmptySet
      <4>4. IsInOrder(<<>>, WindowOrder, {})
        BY <4>3 DEF IsInOrder
      <4> QED
        BY <4>1, <4>2, <4>4
    <3> QED
      BY <3>1, <3>2
  <2>5. QueryRange(p, begin, end) = InOrder(S, ByWindow)
    BY <2>3, <2>4, OrderIsUnique
  <2> QED
    BY <2>5 DEF S
<1> QED
  BY <1>1, HistoryInvariance, PTL
=============================================================================
