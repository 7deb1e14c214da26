-------------------------- MODULE ModbusLinkProofs --------------------------
(***************************************************************************)
(* Proofs about ModbusLink over TCP, for any requests, slaves and register *)
(* values, any number of connections, pieces of any size and every effect  *)
(* of the simulator's faults on an answer.                                 *)
(***************************************************************************)
EXTENDS ModbusLink, SequenceLemmas, SequenceTheorems, FiniteSetTheorems, TLAPS

(* The number of requests has a limit. *)
LEMMA RequestsAreLimited == MaxReqs \in Nat /\ MaxReqs <= 65534
BY LinkAssumption

-----------------------------------------------------------------------------
(* Bytes and words                                                         *)

Bytes == Seq(Byte)

LEMMA BytesAreASequence ==
    ASSUME NEW b \in Bytes
    PROVE  Len(b) \in Nat /\ DOMAIN b = 1 .. Len(b) /\ \A i \in 1 .. Len(b) : b[i] \in Byte
BY DEF Bytes

LEMMA BytesAndWords ==
    /\ \A n \in Nat : n <= 255 <=> n \in Byte
    /\ \A n \in Nat : n <= 65535 <=> n \in Word
    /\ Byte \subseteq Nat /\ Word \subseteq Nat
<1> DEFINE most == 65535
<1>1. most \in Nat /\ \A n : n <= most <=> n <= 65535
  OBVIOUS
<1>2. Word = 0 .. most
  BY DEF Word
<1> HIDE DEF most
<1>3. \A n \in Nat : n <= most <=> n \in Word
  BY <1>1, <1>2
<1>4. Word \subseteq Nat
  BY <1>1, <1>2
<1> QED
  BY <1>1, <1>3, <1>4 DEF Byte

(* A word is its two bytes. *)
LEMMA WordIsItsBytes ==
    ASSUME NEW x \in Word
    PROVE  /\ x \div 256 \in Byte /\ x % 256 \in Byte
           /\ 256 * (x \div 256) + (x % 256) = x
<1>1. x \in Nat /\ x <= 65535
  BY BytesAndWords
<1>2. x \div 256 \in Nat /\ x \div 256 <= 255 /\ x % 256 \in Nat /\ x % 256 <= 255
  BY <1>1
<1> QED
  BY <1>1, <1>2, BytesAndWords

LEMMA BytesAreTheirWord ==
    ASSUME NEW a \in Byte, NEW b \in Byte
    PROVE  /\ 256 * a + b \in Word
           /\ (256 * a + b) \div 256 = a /\ (256 * a + b) % 256 = b
<1>1. a \in Nat /\ a <= 255 /\ b \in Nat /\ b <= 255
  BY BytesAndWords
<1>2. 256 * a + b \in Nat /\ 256 * a + b <= 65535
  BY <1>1
<1> QED
  BY <1>1, <1>2, BytesAndWords

(* Concatenation, hidden from the backends that rewrite it. *)
Cat(u, v) == u \o v

Joins(c, u, v) ==
    /\ c \in Bytes
    /\ Len(c) = Len(u) + Len(v)
    /\ \A i \in 1 .. Len(u) : c[i] = u[i]
    /\ \A i \in 1 .. Len(v) : c[Len(u) + i] = v[i]

LEMMA CatJoins == ASSUME NEW u \in Bytes, NEW v \in Bytes PROVE Joins(Cat(u, v), u, v)
<1>1. /\ u \o v \in Bytes
      /\ Len(u \o v) = Len(u) + Len(v)
      /\ \A i \in 1 .. Len(u) + Len(v) : (u \o v)[i] = IF i <= Len(u) THEN u[i] ELSE v[i - Len(u)]
  BY ConcatProperties DEF Bytes
<1>2. Len(u) \in Nat /\ Len(v) \in Nat
  BY BytesAreASequence
<1>3. /\ Cat(u, v) \in Bytes
      /\ Len(Cat(u, v)) = Len(u) + Len(v)
      /\ \A i \in 1 .. Len(u) + Len(v) : Cat(u, v)[i] = IF i <= Len(u) THEN u[i] ELSE v[i - Len(u)]
  BY <1>1 DEF Cat
<1>4. \A i \in 1 .. Len(u) : Cat(u, v)[i] = u[i]
  BY <1>2, <1>3
<1>5. ASSUME NEW i \in 1 .. Len(v) PROVE Cat(u, v)[Len(u) + i] = v[i]
  <2>1. Len(u) + i \in 1 .. Len(u) + Len(v) /\ ~(Len(u) + i <= Len(u)) /\ Len(u) + i - Len(u) = i
    BY <1>2
  <2> QED
    BY <1>3, <2>1
<1> QED
  BY <1>3, <1>4, <1>5 DEF Joins

(* The header of a frame and what follows it. *)
LEMMA FrameFacts ==
    ASSUME NEW tid \in Word, NEW unit \in Byte, NEW b \in Bytes, Len(b) <= 65534
    PROVE  LET f == Framed("Tcp", tid, unit, b)
           IN  /\ f \in Bytes /\ Len(f) = 7 + Len(b)
               /\ ReadU16(f, 1) = tid /\ ReadU16(f, 3) = 0 /\ ReadU16(f, 5) = 1 + Len(b)
               /\ f[7] = unit
               /\ \A i \in 1 .. Len(b) : f[7 + i] = b[i]
<1> DEFINE h == <<tid \div 256, tid % 256, 0, 0, (1 + Len(b)) \div 256, (1 + Len(b)) % 256, unit>>
           f == Framed("Tcp", tid, unit, b)
<1>1. Len(b) \in Nat /\ 1 + Len(b) \in Word
  <2>1. Len(b) \in Nat
    BY BytesAreASequence
  <2> HIDE DEF f, h
  <2> QED
    BY <2>1, BytesAndWords
<1>2. f = Cat(h, b)
  BY DEF Framed, U16, Cat
<1>3. h \in Bytes /\ Len(h) = 7
  BY <1>1, WordIsItsBytes, BytesAndWords DEF Bytes
<1>4. /\ h[1] = tid \div 256 /\ h[2] = tid % 256 /\ h[3] = 0 /\ h[4] = 0
      /\ h[5] = (1 + Len(b)) \div 256 /\ h[6] = (1 + Len(b)) % 256 /\ h[7] = unit
  OBVIOUS
<1> HIDE DEF h, f
<1>5. Joins(f, h, b)
  BY <1>2, <1>3, CatJoins
<1>6. \A i \in 1 .. 7 : f[i] = h[i]
  BY <1>3, <1>5 DEF Joins
<1>7. ReadU16(f, 1) = tid /\ ReadU16(f, 3) = 0 /\ ReadU16(f, 5) = 1 + Len(b) /\ f[7] = unit
  <2>1. \A i \in {1, 2, 3, 4, 5, 6, 7} : i \in 1 .. 7
    OBVIOUS
  <2>2. /\ f[1] = h[1] /\ f[2] = h[2] /\ f[3] = h[3] /\ f[4] = h[4] /\ f[5] = h[5]
        /\ f[6] = h[6] /\ f[7] = h[7]
    BY <1>6, <2>1
  <2>3. /\ 256 * (tid \div 256) + (tid % 256) = tid
        /\ 256 * ((1 + Len(b)) \div 256) + ((1 + Len(b)) % 256) = 1 + Len(b)
    BY <1>1, WordIsItsBytes
  <2> QED
    BY <1>4, <2>2, <2>3 DEF ReadU16
<1> QED
  BY <1>3, <1>5, <1>7 DEF f, Joins

-----------------------------------------------------------------------------
(* Requests                                                                *)

Sent == {r \in Requests : Buildable(r.unit, r.pdu)}

WellFormed(p) ==
    /\ p.sized = TRUE
    /\ p.fc \in {1, 2, 3, 4, 5, 6, 15, 16} /\ p.fc \in Byte
    /\ p.addr \in Word /\ p.qty \in Word /\ p.qty \in Nat \ {0}
    /\ \A i \in DOMAIN p.vals : p.vals[i] \in Word
    /\ p.fc \in {5, 6} => p.qty = 1 /\ Len(p.vals) = 1
    /\ p.fc = 5 => p.vals[1] \in {0, 1}
    /\ p.fc = 15 => /\ p.qty <= 2040 /\ Len(p.vals) = p.qty
                    /\ \A i \in DOMAIN p.vals : p.vals[i] \in {0, 1}
    /\ p.fc = 16 => p.qty <= 127 /\ Len(p.vals) = p.qty

LEMMA SentAreTyped ==
    ASSUME NEW r \in Sent
    PROVE  r.unit \in 1 .. 247 /\ r.unit \in Byte /\ WellFormed(r.pdu)
<1>1. r \in Requests /\ Buildable(r.unit, r.pdu)
  BY DEF Sent
<1>2. /\ r.pdu = [fc |-> r.pdu.fc, addr |-> r.pdu.addr, qty |-> r.pdu.qty,
                  vals |-> r.pdu.vals, sized |-> TRUE]
      /\ r.pdu.fc \in Nat /\ r.pdu.addr \in Word /\ r.pdu.qty \in Word
      /\ \A i \in DOMAIN r.pdu.vals : r.pdu.vals[i] \in Word
      /\ r.pdu.fc \in {5, 6} => r.pdu.qty = 1
      /\ r.pdu.fc = 15 => /\ r.pdu.qty <= 2040
                          /\ \A i \in DOMAIN r.pdu.vals : r.pdu.vals[i] \in {0, 1}
      /\ r.pdu.fc = 16 => r.pdu.qty <= 127
  BY <1>1, MasterAssumption
<1>3. r.pdu.sized = TRUE
  BY <1>2
<1>4. r.unit \in 1 .. 247 /\ r.unit \in Byte
  <2>1. r.unit \in 1 .. 247
    BY <1>1 DEF Buildable
  <2>2. r.unit \in Nat /\ r.unit <= 255
    BY <2>1
  <2> QED
    BY <2>1, <2>2, BytesAndWords
<1>5. r.pdu.fc \in {1, 2, 3, 4, 5, 6, 15, 16}
  BY <1>1 DEF Buildable
<1>6. r.pdu.fc \in Byte
  BY <1>5, BytesAndWords
<1>7. r.pdu.qty \in Nat
  <2>1. r.pdu.qty \in Word /\ Word \subseteq Nat
    BY <1>2, BytesAndWords
  <2> QED
    BY <2>1, Zenon
<1>8. r.pdu.qty # 0
  BY <1>1, <1>2 DEF Buildable
<1>9. /\ r.pdu.fc \in {5, 6} => Len(r.pdu.vals) = 1
      /\ r.pdu.fc = 5 => r.pdu.vals[1] \in {0, 1}
      /\ r.pdu.fc \in {15, 16} => Len(r.pdu.vals) = r.pdu.qty
  BY <1>1 DEF Buildable
<1> QED
  BY <1>2, <1>3, <1>4, <1>5, <1>6, <1>7, <1>8, <1>9 DEF WellFormed

LEMMA WordInTwoBytes == ASSUME NEW x \in Word PROVE U16(x) \in Bytes /\ Len(U16(x)) = 2
BY WordIsItsBytes DEF U16, Bytes

(* Words become twice as many bytes. *)
LEMMA WordsAsBytes ==
    ASSUME NEW vals, Len(vals) \in Nat, \A i \in 1 .. Len(vals) : vals[i] \in Word
    PROVE  WordBytes(vals) \in Bytes /\ Len(WordBytes(vals)) = 2 * Len(vals)
<1>1. ASSUME NEW i \in 1 .. 2 * Len(vals)
      PROVE  (IF i % 2 = 1 THEN vals[(i + 1) \div 2] \div 256 ELSE vals[i \div 2] % 256) \in Byte
  <2>1. CASE i % 2 = 1
    <3>1. (i + 1) \div 2 \in 1 .. Len(vals)
      BY <2>1
    <3> QED
      BY <2>1, <3>1, WordIsItsBytes
  <2>2. CASE i % 2 # 1
    <3>1. i \div 2 \in 1 .. Len(vals)
      BY <2>2
    <3> QED
      BY <2>2, <3>1, WordIsItsBytes
  <2> QED
    BY <2>1, <2>2
<1> QED
  BY <1>1 DEF WordBytes, Bytes

(* Eight bits make a byte. *)
LEMMA BitsAsBytes ==
    ASSUME NEW bits, Len(bits) \in Nat, \A i \in 1 .. Len(bits) : bits[i] \in {0, 1}
    PROVE  /\ CoilBytes(bits) \in Bytes
           /\ Len(CoilBytes(bits)) = (Len(bits) + 7) \div 8
<1>1. \A n \in Nat \ {0}, i \in 1 .. 8 : BitOf(bits, n, i) \in {0, 1}
  BY DEF BitOf
<1>2. ASSUME NEW n \in Nat \ {0} PROVE ByteOf(bits, n) \in Byte
  <2>1. /\ BitOf(bits, n, 1) \in {0, 1} /\ BitOf(bits, n, 2) \in {0, 1}
        /\ BitOf(bits, n, 3) \in {0, 1} /\ BitOf(bits, n, 4) \in {0, 1}
        /\ BitOf(bits, n, 5) \in {0, 1} /\ BitOf(bits, n, 6) \in {0, 1}
        /\ BitOf(bits, n, 7) \in {0, 1} /\ BitOf(bits, n, 8) \in {0, 1}
    BY <1>1
  <2>2. \A a, b, c, d, e, f, g, h \in {0, 1} :
           LET sum == a + 2 * b + 4 * c + 8 * d + 16 * e + 32 * f + 64 * g + 128 * h
           IN  sum \in Nat /\ sum <= 255
    <3>1. \A a \in {0, 1} : a \in Nat /\ a <= 1
      OBVIOUS
    <3> QED
      BY <3>1
  <2>3. ByteOf(bits, n) \in Nat /\ ByteOf(bits, n) <= 255
    <3> HIDE DEF BitOf
    <3>1. PICK a \in {0, 1}, b \in {0, 1}, c \in {0, 1}, d \in {0, 1} :
             /\ a = BitOf(bits, n, 1) /\ b = BitOf(bits, n, 2)
             /\ c = BitOf(bits, n, 3) /\ d = BitOf(bits, n, 4)
      BY <2>1, Zenon
    <3>2. PICK e \in {0, 1}, f \in {0, 1}, g \in {0, 1}, h \in {0, 1} :
             /\ e = BitOf(bits, n, 5) /\ f = BitOf(bits, n, 6)
             /\ g = BitOf(bits, n, 7) /\ h = BitOf(bits, n, 8)
      BY <2>1, Zenon
    <3>3. ByteOf(bits, n) = a + 2 * b + 4 * c + 8 * d + 16 * e + 32 * f + 64 * g + 128 * h
      BY <3>1, <3>2 DEF ByteOf
    <3> QED
      BY <2>2, <3>3
  <2> QED
    BY <2>3, BytesAndWords
<1>3. (Len(bits) + 7) \div 8 \in Nat
  OBVIOUS
<1> QED
  BY <1>2, <1>3 DEF CoilBytes, Bytes

(* The bytes of a request's PDU. *)
IsRequestOf(b, p) ==
    /\ b \in Bytes /\ Len(b) >= 5 /\ Len(b) <= 65534
    /\ b[1] = p.fc /\ ReadU16(b, 2) = p.addr
    /\ p.fc \in {1, 2, 3, 4, 5, 6} => Len(b) = 5
    /\ p.fc \in {1, 2, 3, 4, 15, 16} => ReadU16(b, 4) = p.qty
    /\ p.fc = 5 => ReadU16(b, 4) = 65280 * p.vals[1]
    /\ p.fc = 6 => ReadU16(b, 4) = p.vals[1]
    /\ p.fc = 15 => b[6] = (p.qty + 7) \div 8 /\ Len(b) = 6 + b[6]
    /\ p.fc = 16 => b[6] = 2 * p.qty /\ Len(b) = 6 + b[6]

(* A word followed by a count and so many bytes. *)
Counted(d, x, n) ==
    /\ d \in Bytes /\ Len(d) = 3 + n
    /\ d[1] = x \div 256 /\ d[2] = x % 256 /\ d[3] = n

LEMMA CountedBytes ==
    ASSUME NEW x \in Word, NEW n \in Byte, NEW v \in Bytes, Len(v) = n,
           NEW d, d = U16(x) \o <<n>> \o v
    PROVE  Counted(d, x, n)
<1> DEFINE h == <<x \div 256, x % 256, n>>
<1>1. d = Cat(h, v)
  BY DEF U16, Cat
<1>2. h \in Bytes /\ Len(h) = 3
  BY WordIsItsBytes DEF Bytes
<1>3. h[1] = x \div 256 /\ h[2] = x % 256 /\ h[3] = n
  OBVIOUS
<1>4. n \in Nat
  BY BytesAndWords
<1> HIDE DEF h
<1>5. Joins(d, h, v)
  BY <1>1, <1>2, CatJoins
<1>6. 1 \in 1 .. 3 /\ 2 \in 1 .. 3 /\ 3 \in 1 .. 3
  OBVIOUS
<1>7. d[1] = h[1] /\ d[2] = h[2] /\ d[3] = h[3]
  BY <1>2, <1>5, <1>6 DEF Joins
<1> QED
  BY <1>2, <1>3, <1>4, <1>5, <1>7 DEF Counted, Joins

(* What follows the address. *)
IsDataOf(d, p) ==
    /\ d \in Bytes /\ Len(d) >= 2 /\ Len(d) <= 65500
    /\ p.fc \in {1, 2, 3, 4, 5, 6} => Len(d) = 2
    /\ p.fc \in {1, 2, 3, 4, 15, 16} => ReadU16(d, 1) = p.qty
    /\ p.fc = 5 => ReadU16(d, 1) = 65280 * p.vals[1]
    /\ p.fc = 6 => ReadU16(d, 1) = p.vals[1]
    /\ p.fc = 15 => d[3] = (p.qty + 7) \div 8 /\ Len(d) = 3 + d[3]
    /\ p.fc = 16 => d[3] = 2 * p.qty /\ Len(d) = 3 + d[3]

LEMMA TwoBytesOfAWord ==
    ASSUME NEW x \in Word
    PROVE  U16(x) \in Bytes /\ Len(U16(x)) = 2 /\ ReadU16(U16(x), 1) = x
<1>1. 256 * (x \div 256) + (x % 256) = x
  BY WordIsItsBytes
<1>2. U16(x)[1] = x \div 256 /\ U16(x)[2] = x % 256
  BY DEF U16
<1> QED
  BY <1>1, <1>2, WordInTwoBytes DEF ReadU16

LEMMA DataOfRequest ==
    ASSUME NEW p, WellFormed(p), NEW d, d = RequestData(p)
    PROVE  IsDataOf(d, p)
<1>1. /\ p.fc \in {1, 2, 3, 4, 5, 6, 15, 16} /\ p.qty \in Word /\ p.qty \in Nat \ {0}
      /\ \A i \in DOMAIN p.vals : p.vals[i] \in Word
      /\ p.fc \in {5, 6} => p.qty = 1 /\ Len(p.vals) = 1
      /\ p.fc = 5 => p.vals[1] \in {0, 1}
      /\ p.fc = 15 => /\ p.qty <= 2040 /\ Len(p.vals) = p.qty
                      /\ \A i \in DOMAIN p.vals : p.vals[i] \in {0, 1}
      /\ p.fc = 16 => p.qty <= 127 /\ Len(p.vals) = p.qty
  BY DEF WellFormed
<1>2. ASSUME NEW x \in Word, d = U16(x), p.fc \in {1, 2, 3, 4, 5, 6},
             p.fc \in {1, 2, 3, 4} => x = p.qty,
             p.fc = 5 => x = 65280 * p.vals[1],
             p.fc = 6 => x = p.vals[1]
      PROVE  IsDataOf(d, p)
  <2>1. d \in Bytes /\ Len(d) = 2 /\ ReadU16(d, 1) = x
    BY <1>2, TwoBytesOfAWord
  <2> QED
    BY <1>2, <2>1 DEF IsDataOf
<1>3. ASSUME NEW n \in Byte, NEW v \in Bytes, Len(v) = n, d = U16(p.qty) \o <<n>> \o v,
             p.fc \in {15, 16},
             p.fc = 15 => n = (p.qty + 7) \div 8,
             p.fc = 16 => n = 2 * p.qty
      PROVE  IsDataOf(d, p)
  <2>0. Counted(d, p.qty, n)
    <3>1. p.qty \in Word
      BY <1>1
    <3> QED
      BY <1>3, <3>1, CountedBytes, Zenon
  <2>1. /\ d \in Bytes /\ Len(d) = 3 + n
        /\ d[1] = p.qty \div 256 /\ d[2] = p.qty % 256 /\ d[3] = n
    BY <2>0 DEF Counted
  <2>2. n \in Nat /\ n <= 255
    BY BytesAndWords
  <2>3. ReadU16(d, 1) = p.qty
    BY <1>1, <2>1, WordIsItsBytes DEF ReadU16
  <2> QED
    BY <1>3, <2>1, <2>2, <2>3 DEF IsDataOf
<1>4. CASE p.fc \in {1, 2, 3, 4}
  <2>1. d = U16(p.qty)
    BY <1>4 DEF RequestData
  <2> QED
    BY <1>1, <1>2, <1>4, <2>1
<1>5. CASE p.fc = 5
  <2>1. d = U16(65280 * p.vals[1])
    BY <1>5 DEF RequestData
  <2>2. 65280 * p.vals[1] \in Nat /\ 65280 * p.vals[1] <= 65535
    BY <1>1, <1>5
  <2>3. 65280 * p.vals[1] \in Word
    BY <2>2, BytesAndWords
  <2> QED
    BY <1>2, <1>5, <2>1, <2>3
<1>6. CASE p.fc = 6
  <2>1. d = U16(p.vals[1])
    BY <1>6 DEF RequestData
  <2>2. p.vals[1] \in Word
    BY <1>1, <1>6
  <2> QED
    BY <1>2, <1>6, <2>1, <2>2
<1>7. CASE p.fc = 15
  <2>1. d = U16(p.qty) \o <<Len(CoilBytes(p.vals)) % 256>> \o CoilBytes(p.vals)
    BY <1>7 DEF RequestData
  <2>2. Len(p.vals) \in Nat /\ \A i \in 1 .. Len(p.vals) : p.vals[i] \in {0, 1}
    BY <1>1, <1>7
  <2>3. CoilBytes(p.vals) \in Bytes /\ Len(CoilBytes(p.vals)) = (p.qty + 7) \div 8
    BY <1>1, <1>7, <2>2, BitsAsBytes
  <2>4. (p.qty + 7) \div 8 \in Nat /\ (p.qty + 7) \div 8 <= 255
        /\ ((p.qty + 7) \div 8) % 256 = (p.qty + 7) \div 8
    BY <1>1, <1>7
  <2>5. (p.qty + 7) \div 8 \in Byte
    BY <2>4, BytesAndWords
  <2>6. PICK n \in Byte, v \in Bytes : n = (p.qty + 7) \div 8 /\ v = CoilBytes(p.vals)
    BY <2>3, <2>5, Zenon
  <2>7. Len(v) = n /\ d = U16(p.qty) \o <<n>> \o v
    BY <2>1, <2>3, <2>4, <2>6
  <2> QED
    BY <1>3, <1>7, <2>6, <2>7
<1>8. CASE p.fc = 16
  <2>1. d = U16(p.qty) \o <<(2 * p.qty) % 256>> \o WordBytes(p.vals)
    BY <1>8 DEF RequestData
  <2>2. Len(p.vals) \in Nat /\ \A i \in 1 .. Len(p.vals) : p.vals[i] \in Word
    BY <1>1, <1>8
  <2>3. WordBytes(p.vals) \in Bytes /\ Len(WordBytes(p.vals)) = 2 * p.qty
    BY <1>1, <1>8, <2>2, WordsAsBytes
  <2>4. 2 * p.qty \in Nat /\ 2 * p.qty <= 255 /\ (2 * p.qty) % 256 = 2 * p.qty
    BY <1>1, <1>8
  <2>5. 2 * p.qty \in Byte
    BY <2>4, BytesAndWords
  <2>6. PICK n \in Byte, v \in Bytes : n = 2 * p.qty /\ v = WordBytes(p.vals)
    BY <2>3, <2>5, Zenon
  <2>7. Len(v) = n /\ d = U16(p.qty) \o <<n>> \o v
    BY <2>1, <2>3, <2>4, <2>6
  <2> QED
    <3>1. p.fc \in {15, 16} /\ p.fc # 15
      BY <1>8
    <3> QED
      BY <1>3, <2>6, <2>7, <3>1, Zenon
<1> QED
  BY <1>1, <1>4, <1>5, <1>6, <1>7, <1>8

LEMMA BytesOfRequest ==
    ASSUME NEW p, WellFormed(p), NEW b, b = RequestPdu(p)
    PROVE  IsRequestOf(b, p)
<1> DEFINE d == RequestData(p)
           h == <<p.fc, p.addr \div 256, p.addr % 256>>
<1>1. IsDataOf(d, p)
  BY DataOfRequest
<1>2. /\ p.fc \in {1, 2, 3, 4, 5, 6, 15, 16} /\ p.fc \in Byte /\ p.addr \in Word
      /\ p.qty \in Nat
  BY DEF WellFormed
<1>3. b = Cat(h, d)
  BY DEF RequestPdu, U16, Cat
<1>4. h \in Bytes /\ Len(h) = 3
  BY <1>2, WordIsItsBytes DEF Bytes
<1>5. h[1] = p.fc /\ h[2] = p.addr \div 256 /\ h[3] = p.addr % 256
  OBVIOUS
<1> HIDE DEF h, d
<1>6. Joins(b, h, d)
  BY <1>1, <1>3, <1>4, CatJoins DEF IsDataOf
<1>7. 1 \in 1 .. 3 /\ 2 \in 1 .. 3 /\ 3 \in 1 .. 3
  OBVIOUS
<1>8. b[1] = p.fc /\ b[2] = p.addr \div 256 /\ b[3] = p.addr % 256
  BY <1>4, <1>5, <1>6, <1>7 DEF Joins
<1>9. ReadU16(b, 2) = p.addr
  BY <1>2, <1>8, WordIsItsBytes DEF ReadU16
<1>10. b \in Bytes /\ Len(b) = 3 + Len(d) /\ \A i \in 1 .. Len(d) : b[3 + i] = d[i]
  BY <1>4, <1>6 DEF Joins
<1>11. Len(d) \in Nat /\ Len(d) >= 2 /\ Len(d) <= 65500
  BY <1>1, BytesAreASequence DEF IsDataOf
<1>12. ReadU16(b, 4) = ReadU16(d, 1)
  <2>1. 1 \in 1 .. Len(d) /\ 2 \in 1 .. Len(d)
    BY <1>11
  <2>2. b[4] = d[1] /\ b[5] = d[2]
    BY <1>10, <2>1
  <2> QED
    BY <2>2 DEF ReadU16
<1>13. p.fc \in {15, 16} => b[6] = d[3]
  <2> SUFFICES ASSUME p.fc \in {15, 16} PROVE b[6] = d[3]
    OBVIOUS
  <2>1. p.fc = 15 => d[3] = (p.qty + 7) \div 8 /\ Len(d) = 3 + d[3]
    BY <1>1 DEF IsDataOf
  <2>2. p.fc = 16 => d[3] = 2 * p.qty /\ Len(d) = 3 + d[3]
    BY <1>1 DEF IsDataOf
  <2>4. Len(d) >= 3
    BY <1>2, <2>1, <2>2
  <2>3. 3 \in 1 .. Len(d)
    BY <1>11, <2>4
  <2> QED
    BY <1>10, <2>3
<1>14. /\ p.fc \in {1, 2, 3, 4, 5, 6} => Len(b) = 5
       /\ p.fc \in {1, 2, 3, 4, 15, 16} => ReadU16(b, 4) = p.qty
       /\ p.fc = 5 => ReadU16(b, 4) = 65280 * p.vals[1]
       /\ p.fc = 6 => ReadU16(b, 4) = p.vals[1]
  BY <1>1, <1>10, <1>12 DEF IsDataOf
<1>15. /\ p.fc = 15 => b[6] = (p.qty + 7) \div 8 /\ Len(b) = 6 + b[6]
       /\ p.fc = 16 => b[6] = 2 * p.qty /\ Len(b) = 6 + b[6]
  <2>1. /\ p.fc = 15 => d[3] = (p.qty + 7) \div 8 /\ Len(d) = 3 + d[3]
        /\ p.fc = 16 => d[3] = 2 * p.qty /\ Len(d) = 3 + d[3]
    BY <1>1 DEF IsDataOf
  <2>2. p.fc \in {15, 16} => Len(b) = 3 + Len(d)
    BY <1>10
  <2>3. ASSUME p.fc = 15 PROVE b[6] = (p.qty + 7) \div 8 /\ Len(b) = 6 + b[6]
    <3>1. d[3] = (p.qty + 7) \div 8 /\ Len(d) = 3 + d[3]
      BY <2>1, <2>3
    <3>2. b[6] = d[3] /\ Len(b) = 3 + Len(d)
      BY <1>13, <2>2, <2>3
    <3>3. \A x \in Nat : (x + 7) \div 8 \in Nat
      OBVIOUS
    <3>4. d[3] \in Nat
      BY <1>2, <3>1, <3>3, Zenon
    <3>5. \A x, y, z \in Nat : y = 3 + x /\ z = 3 + y => z = 6 + x
      OBVIOUS
    <3>6. Len(d) \in Nat /\ Len(b) \in Nat
      BY <3>1, <3>2, <3>4
    <3> QED
      BY <3>1, <3>2, <3>4, <3>5, <3>6, Zenon
  <2>4. ASSUME p.fc = 16 PROVE b[6] = 2 * p.qty /\ Len(b) = 6 + b[6]
    <3>1. d[3] \in Nat /\ b[6] = d[3] /\ Len(d) = 3 + d[3] /\ Len(b) = 3 + Len(d)
      BY <1>2, <1>13, <2>1, <2>2, <2>4
    <3> QED
      BY <2>1, <2>4, <3>1
  <2> QED
    BY <2>3, <2>4
<1>16. Len(b) >= 5 /\ Len(b) <= 65534
  BY <1>10, <1>11
<1> QED
  BY <1>8, <1>9, <1>10, <1>14, <1>15, <1>16 DEF IsRequestOf

(* What the device reads is the request that was made. *)
ReadAs(q, p) ==
    /\ q.fc = p.fc /\ q.addr = p.addr /\ q.qty = p.qty
    /\ ExceptionOf(q) = ExceptionOf(p)
    /\ p.fc \in {5, 15} => \A i \in 1 .. p.qty : q.vals[i] \in {0, 1}
    /\ p.fc \in {6, 16} => \A i \in 1 .. p.qty : q.vals[i] \in Word

LEMMA CoilsInAreBits ==
    ASSUME NEW data, \A k \in 1 .. Len(data) : data[k] \in Nat, NEW qty \in Nat,
           Len(data) = (qty + 7) \div 8
    PROVE  \A i \in 1 .. qty : CoilsIn(data, qty)[i] \in {0, 1}
<1> SUFFICES ASSUME NEW i \in 1 .. qty PROVE CoilsIn(data, qty)[i] \in {0, 1}
  OBVIOUS
<1>1. 1 + (i - 1) \div 8 \in 1 .. Len(data)
  <2>1. i \in Nat /\ i >= 1 /\ i <= qty
    OBVIOUS
  <2> QED
    BY <2>1
<1>2. PICK k \in {1, 2, 4, 8, 16, 32, 64, 128} : k = BitWeights[1 + ((i - 1) % 8)]
  <2>1. 1 + ((i - 1) % 8) \in {1, 2, 3, 4, 5, 6, 7, 8}
    OBVIOUS
  <2> QED
    BY <2>1 DEF BitWeights
<1>3. PICK n \in Nat : n = data[1 + (i - 1) \div 8]
  BY <1>1
<1>4. CoilsIn(data, qty)[i] = (n \div k) % 2
  BY <1>2, <1>3 DEF CoilsIn
<1>5. n \div k \in Nat
  <2>1. /\ n \div 1 \in Nat /\ n \div 2 \in Nat /\ n \div 4 \in Nat /\ n \div 8 \in Nat
        /\ n \div 16 \in Nat /\ n \div 32 \in Nat /\ n \div 64 \in Nat /\ n \div 128 \in Nat
    OBVIOUS
  <2>2. \/ k = 1 \/ k = 2 \/ k = 4 \/ k = 8 \/ k = 16 \/ k = 32 \/ k = 64 \/ k = 128
    BY <1>2
  <2> HIDE <1>2, <1>3
  <2> QED
    BY <2>1, <2>2
<1> QED
  BY <1>4, <1>5

LEMMA WordsInAreWords ==
    ASSUME NEW data \in Bytes, NEW n \in Nat, Len(data) = 2 * n
    PROVE  \A i \in 1 .. n : WordsIn(data)[i] \in Word
<1> SUFFICES ASSUME NEW i \in 1 .. n PROVE WordsIn(data)[i] \in Word
  OBVIOUS
<1>1. 2 * i - 1 \in 1 .. Len(data) /\ (2 * i - 1) + 1 \in 1 .. Len(data) /\ i \in 1 .. Len(data) \div 2
  OBVIOUS
<1>2. data[2 * i - 1] \in Byte /\ data[(2 * i - 1) + 1] \in Byte
  BY <1>1, BytesAreASequence
<1>3. WordsIn(data)[i] = 256 * data[2 * i - 1] + data[(2 * i - 1) + 1]
  BY <1>1 DEF WordsIn, ReadU16
<1> QED
  BY <1>2, <1>3, BytesAreTheirWord

(* A stretch of bytes. *)
Stretch(c, b, first) ==
    /\ c \in Bytes
    /\ \A i \in 1 .. Len(c) : c[i] = b[first - 1 + i]

LEMMA PartsAreBytes ==
    ASSUME NEW b \in Bytes, NEW first \in Nat \ {0}, NEW last \in Nat,
           last <= Len(b), first <= last + 1
    PROVE  Stretch(SubSeq(b, first, last), b, first)
           /\ Len(SubSeq(b, first, last)) = last + 1 - first
<1>1. Len(b) \in Nat /\ \A i \in 1 .. Len(b) : b[i] \in Byte
  BY BytesAreASequence
<1>2. first .. last \subseteq 1 .. Len(b)
  BY <1>1
<1>3. b \in Seq(Byte)
  BY DEF Bytes
<1> HIDE DEF Bytes
<1>4. SubSeq(b, first, last) = [i \in 1 .. (IF first <= last THEN last - first + 1 ELSE 0)
                                   |-> b[i + first - 1]]
  BY <1>1, <1>3
<1>5. (IF first <= last THEN last - first + 1 ELSE 0) = last + 1 - first
  OBVIOUS
<1>6. SubSeq(b, first, last) = [i \in 1 .. last + 1 - first |-> b[i + first - 1]]
  BY <1>4, <1>5
<1>7. last + 1 - first \in Nat
  OBVIOUS
<1>8. \A i \in 1 .. last + 1 - first : i + first - 1 \in 1 .. Len(b) /\ i + first - 1 = first - 1 + i
  BY <1>1
<1>9. Len(SubSeq(b, first, last)) = last + 1 - first
  BY <1>6, <1>7
<1>10. SubSeq(b, first, last) \in Seq(Byte)
  BY <1>1, <1>6, <1>7, <1>8
<1>11. \A i \in 1 .. last + 1 - first : SubSeq(b, first, last)[i] = b[first - 1 + i]
  BY <1>6, <1>8
<1> QED
  BY <1>9, <1>10, <1>11 DEF Stretch, Bytes

LEMMA RequestIsRead ==
    ASSUME NEW p, WellFormed(p), NEW b, IsRequestOf(b, p)
    PROVE  ReadAs(PduIn(b), p)
<1> DEFINE q == PduIn(b)
<1> SUFFICES ReadAs(q, p)
  OBVIOUS
<1> HIDE DEF q
<1>1. /\ p.sized = TRUE
      /\ p.fc \in {1, 2, 3, 4, 5, 6, 15, 16} /\ p.qty \in Nat \ {0}
      /\ p.fc \in {5, 6} => p.qty = 1 /\ Len(p.vals) = 1 /\ p.vals[1] \in Word
      /\ p.fc = 5 => p.vals[1] \in {0, 1}
  <2>1. p.fc \in {5, 6} => p.vals[1] \in Word
    BY DEF WellFormed
  <2> QED
    BY <2>1 DEF WellFormed
<1>2. b \in Bytes /\ Len(b) >= 5 /\ Len(b) \in Nat /\ b[1] = p.fc /\ ReadU16(b, 2) = p.addr
  BY BytesAreASequence DEF IsRequestOf
<1> DEFINE data == SubSeq(b, 7, Len(b))
<1>3. /\ Len(b) > 2 /\ Len(b) > 4
  BY <1>2
<1>4. CASE p.fc \in {1, 2, 3, 4}
  <2>1. Len(b) = 5 /\ ReadU16(b, 4) = p.qty
    BY <1>4 DEF IsRequestOf
  <2>2. q = [fc |-> p.fc, addr |-> p.addr, qty |-> p.qty, vals |-> <<>>, sized |-> (Len(b) = 5)]
    <3>1. b[1] # 5 /\ b[1] # 6 /\ b[1] # 15 /\ b[1] # 16
      BY <1>2, <1>4
    <3> QED
      BY <1>2, <1>3, <2>1, <3>1 DEF PduIn, q
  <2>3. q.fc = p.fc /\ q.addr = p.addr /\ q.qty = p.qty /\ q.sized
    <3>1. q.fc = p.fc /\ q.addr = p.addr /\ q.qty = p.qty
      BY <2>1, <2>2
    <3>2. q.sized = (Len(b) = 5)
      BY <2>2
    <3> QED
      BY <2>1, <3>1, <3>2
  <2>4. ExceptionOf(q) = ExceptionOf(p)
    BY <1>1, <1>4, <2>3 DEF ExceptionOf
  <2> QED
    BY <1>4, <2>3, <2>4 DEF ReadAs
<1>5. CASE p.fc = 5
  <2>1. Len(b) = 5 /\ ReadU16(b, 4) = 65280 * p.vals[1]
    BY <1>5 DEF IsRequestOf
  <2>2. q = [fc |-> p.fc, addr |-> p.addr, qty |-> 1,
             vals |-> <<IF ReadU16(b, 4) = 65280 THEN 1 ELSE IF ReadU16(b, 4) = 0 THEN 0 ELSE 2>>,
             sized |-> (Len(b) = 5)]
    BY <1>2, <1>3, <1>5 DEF PduIn, q
  <2>3. q.fc = p.fc /\ q.addr = p.addr /\ q.qty = p.qty /\ q.sized
    <3>1. q.fc = p.fc /\ q.addr = p.addr /\ q.qty = p.qty
      BY <1>1, <1>5, <2>1, <2>2
    <3>2. q.sized = (Len(b) = 5)
      BY <2>2
    <3>3. Len(b) = 5
      BY <2>1
    <3> QED
      BY <3>1, <3>2, <3>3
  <2>4. (IF ReadU16(b, 4) = 65280 THEN 1 ELSE IF ReadU16(b, 4) = 0 THEN 0 ELSE 2) \in {0, 1}
    BY <1>1, <1>5, <2>1
  <2>5. q.vals[1] \in {0, 1}
    BY <2>2, <2>4
  <2>6. ExceptionOf(q) = ExceptionOf(p)
    BY <1>1, <1>5, <2>3, <2>5 DEF ExceptionOf
  <2>7. \A i \in 1 .. p.qty : q.vals[i] \in {0, 1}
    BY <1>1, <1>5, <2>5
  <2> QED
    BY <1>5, <2>3, <2>6, <2>7 DEF ReadAs
<1>6. CASE p.fc = 6
  <2>1. Len(b) = 5 /\ ReadU16(b, 4) = p.vals[1]
    BY <1>6 DEF IsRequestOf
  <2>2. q = [fc |-> p.fc, addr |-> p.addr, qty |-> 1, vals |-> <<ReadU16(b, 4)>>, sized |-> (Len(b) = 5)]
    BY <1>2, <1>3, <1>6 DEF PduIn, q
  <2>3. q.fc = p.fc /\ q.addr = p.addr /\ q.qty = p.qty /\ q.sized
    <3>1. q.fc = p.fc /\ q.addr = p.addr /\ q.qty = p.qty
      BY <1>1, <1>6, <2>1, <2>2
    <3>2. q.sized = (Len(b) = 5)
      BY <2>2
    <3> QED
      BY <2>1, <3>1, <3>2
  <2>5. q.vals[1] \in Word
    BY <1>1, <1>6, <2>1, <2>2
  <2>6. ExceptionOf(q) = ExceptionOf(p)
    BY <1>1, <1>6, <2>3 DEF ExceptionOf
  <2>7. \A i \in 1 .. p.qty : q.vals[i] \in Word
    BY <1>1, <1>6, <2>5
  <2> QED
    BY <1>6, <2>3, <2>6, <2>7 DEF ReadAs
<1>7. CASE p.fc = 15
  <2>1. ReadU16(b, 4) = p.qty /\ b[6] = (p.qty + 7) \div 8 /\ Len(b) = 6 + b[6]
    BY <1>7 DEF IsRequestOf
  <2>2. (p.qty + 7) \div 8 \in Nat /\ (p.qty + 7) \div 8 >= 1
    BY <1>1
  <2>3. Len(b) >= 7
    BY <2>1, <2>2
  <2> DEFINE n == (p.qty + 7) \div 8
             whole == Len(b) >= 7 /\ b[6] = n /\ Len(b) = 6 + n
  <2>4. whole
    BY <2>1, <2>3
  <2>5. /\ q.fc = p.fc /\ q.addr = p.addr /\ q.qty = p.qty /\ q.sized
        /\ q.vals = CoilsIn(data, p.qty)
    <3>1. q = [fc |-> p.fc, addr |-> p.addr, qty |-> p.qty, vals |-> CoilsIn(data, p.qty), sized |-> TRUE]
      <4>1. b[1] # 5 /\ b[1] # 6 /\ b[1] = 15
        BY <1>2, <1>7
      <4>2. q = IF Len(b) >= 7 /\ b[6] = (ReadU16(b, 4) + 7) \div 8 /\ Len(b) = 6 + (ReadU16(b, 4) + 7) \div 8
                THEN [fc |-> b[1], addr |-> ReadU16(b, 2), qty |-> ReadU16(b, 4),
                      vals |-> CoilsIn(data, ReadU16(b, 4)), sized |-> TRUE]
                ELSE [fc |-> b[1], addr |-> ReadU16(b, 2), qty |-> ReadU16(b, 4),
                      vals |-> <<>>, sized |-> FALSE]
        <5> DEFINE word(at) == IF Len(b) > at THEN ReadU16(b, at) ELSE 0
        <5>1. q = IF Len(b) >= 7 /\ b[6] = (word(4) + 7) \div 8 /\ Len(b) = 6 + (word(4) + 7) \div 8
                  THEN [fc |-> b[1], addr |-> word(2), qty |-> word(4),
                        vals |-> CoilsIn(data, word(4)), sized |-> TRUE]
                  ELSE [fc |-> b[1], addr |-> word(2), qty |-> word(4),
                        vals |-> <<>>, sized |-> FALSE]
          BY <4>1 DEF PduIn, q
        <5>2. word(2) = ReadU16(b, 2) /\ word(4) = ReadU16(b, 4)
          BY <1>3
        <5> HIDE DEF word
        <5> QED
          BY <5>1, <5>2
      <4> QED
        BY <1>2, <1>7, <2>1, <2>4, <4>2
    <3> QED
      BY <3>1
  <2>6. ExceptionOf(q) = ExceptionOf(p)
    BY <1>1, <1>7, <2>5 DEF ExceptionOf
  <2>7. Stretch(data, b, 7) /\ Len(data) = Len(b) + 1 - 7
    BY <1>2, <2>3, PartsAreBytes
  <2>8. Len(data) = (p.qty + 7) \div 8
    BY <2>1, <2>2, <2>7
  <2>9. \A k \in 1 .. Len(data) : data[k] \in Nat
    <3>1. \A k \in 1 .. Len(data) : data[k] \in Byte
      BY <2>7, BytesAreASequence DEF Stretch
    <3>2. Byte \subseteq Nat
      BY BytesAndWords
    <3> QED
      BY <3>1, <3>2, Zenon
  <2> HIDE DEF data
  <2>10. \A i \in 1 .. p.qty : CoilsIn(data, p.qty)[i] \in {0, 1}
    BY <1>1, <2>8, <2>9, CoilsInAreBits
  <2> QED
    BY <1>7, <2>5, <2>6, <2>10 DEF ReadAs
<1>8. CASE p.fc = 16
  <2>1. ReadU16(b, 4) = p.qty /\ b[6] = 2 * p.qty /\ Len(b) = 6 + b[6]
    BY <1>8 DEF IsRequestOf
  <2>3. Len(b) >= 7
    BY <1>1, <2>1
  <2> DEFINE n == 2 * p.qty
             whole == Len(b) >= 7 /\ b[6] = n /\ Len(b) = 6 + n
  <2>4. whole
    BY <2>1, <2>3
  <2>5. /\ q.fc = p.fc /\ q.addr = p.addr /\ q.qty = p.qty /\ q.sized
        /\ q.vals = WordsIn(data)
    <3>1. q = [fc |-> p.fc, addr |-> p.addr, qty |-> p.qty, vals |-> WordsIn(data), sized |-> whole]
      BY <1>2, <1>3, <1>8, <2>1 DEF PduIn, q
    <3> QED
      BY <2>4, <3>1
  <2>6. ExceptionOf(q) = ExceptionOf(p)
    BY <1>1, <1>8, <2>5 DEF ExceptionOf
  <2>7. Stretch(data, b, 7) /\ Len(data) = Len(b) + 1 - 7
    BY <1>2, <2>3, PartsAreBytes
  <2>8. Len(data) = 2 * p.qty /\ data \in Bytes
    BY <1>1, <2>1, <2>7 DEF Stretch
  <2> HIDE DEF data
  <2>10. \A i \in 1 .. p.qty : WordsIn(data)[i] \in Word
    BY <1>1, <2>8, WordsInAreWords
  <2> QED
    BY <1>8, <2>5, <2>6, <2>10 DEF ReadAs
<1> QED
  BY <1>1, <1>4, <1>5, <1>6, <1>7, <1>8

-----------------------------------------------------------------------------
(* The device's registers and its answers                                  *)

(* What a table holds. *)
Width(t) == IF t \in {"coils", "discretes"} THEN {0, 1} ELSE Word

SetTyped(set) ==
    /\ set = [t \in Tables |-> set[t]]
    /\ \A t \in Tables : set[t] = [a \in Addrs(t) |-> set[t][a]]
    /\ \A t \in Tables : \A a \in Addrs(t) : set[t][a] \in Width(t)
BankTyped ==
    /\ bank = [s \in Slaves |-> bank[s]]
    /\ \A s \in Slaves : SetTyped(bank[s])

LEMMA BankStartsTyped == BankInit => BankTyped
<1>1. 0 \in Nat /\ 0 <= 65535
  OBVIOUS
<1>2. 0 \in Word
  BY <1>1, BytesAndWords
<1>3. SetTyped(Allocated)
  <2> HIDE DEF Addrs
  <2> QED
    BY <1>2 DEF SetTyped, Allocated, Width
<1> QED
  BY <1>3 DEF BankInit, BankTyped

LEMMA SizesAreNumbers == \A t \in Tables : Size(t) \in Nat
<1>1. BankSize \in Nat
  BY BankAssumption
<1> QED
  BY <1>1 DEF Size

(* A write leaves every table what it was. *)
LEMMA WritesStayTyped ==
    ASSUME NEW set, SetTyped(set), NEW p, WellFormed(p), NEW q, ReadAs(q, p), p.fc \in WriteCodes
    PROVE  SetTyped(Written(set, q))
<1> DEFINE tab == TableOf(p.fc)
           new == [a \in Addrs(tab) |-> IF a \in q.addr .. q.addr + q.qty - 1
                                        THEN q.vals[a - q.addr + 1] ELSE set[tab][a]]
<1>1. q.fc = p.fc /\ q.addr = p.addr /\ q.qty = p.qty /\ p.qty \in Nat \ {0} /\ p.addr \in Nat
  <2>1. p.addr \in Word /\ Word \subseteq Nat
    BY BytesAndWords DEF WellFormed
  <2>2. p.addr \in Nat
    BY <2>1, Zenon
  <2> QED
    BY <2>2 DEF ReadAs, WellFormed
<1>2. p.fc \in {5, 6, 15, 16}
  BY DEF WriteCodes
<1>3. /\ p.fc \in {5, 15} => tab = "coils"
      /\ p.fc \in {6, 16} => tab = "holding"
      /\ tab \in Tables
  BY <1>2 DEF TableOf, Tables
<1>4. Written(set, q) = [set EXCEPT ![tab] = new]
  <2>1. DOMAIN set[tab] = Addrs(tab)
    BY <1>3 DEF SetTyped
  <2>2. Written(set, q) =
          [set EXCEPT ![tab] = [a \in DOMAIN set[tab] |->
              IF a \in q.addr .. q.addr + q.qty - 1 THEN q.vals[a - q.addr + 1] ELSE set[tab][a]]]
    BY <1>1 DEF Written
  <2> QED
    BY <2>1, <2>2
<1>5. ASSUME NEW a \in Addrs(tab) PROVE new[a] \in Width(tab)
  <2>1. CASE a \in q.addr .. q.addr + q.qty - 1
    <3>1. a - q.addr + 1 \in 1 .. p.qty
      BY <1>1, <2>1
    <3>2. q.vals[a - q.addr + 1] \in Width(tab)
      BY <1>2, <1>3, <3>1 DEF ReadAs, Width
    <3> QED
      BY <2>1, <3>2
  <2>2. CASE a \notin q.addr .. q.addr + q.qty - 1
    <3>1. set[tab][a] \in Width(tab)
      BY <1>3 DEF SetTyped
    <3> QED
      BY <2>2, <3>1
  <2> QED
    BY <2>1, <2>2
<1>6. new = [a \in Addrs(tab) |-> new[a]]
  OBVIOUS
<1> HIDE DEF new, tab
<1> DEFINE set2 == Written(set, q)
<1>7. /\ set2 = [t \in Tables |-> set2[t]]
      /\ \A t \in Tables : set2[t] = IF t = tab THEN new ELSE set[t]
  BY <1>3, <1>4 DEF SetTyped
<1> HIDE DEF set2
<1>8. ASSUME NEW t \in Tables PROVE /\ set2[t] = [a \in Addrs(t) |-> set2[t][a]]
                                    /\ \A a \in Addrs(t) : set2[t][a] \in Width(t)
  <2>1. CASE t = tab
    BY <1>5, <1>6, <1>7, <2>1
  <2>2. CASE t # tab
    <3>1. set2[t] = set[t]
      BY <1>7, <2>2
    <3> QED
      BY <3>1 DEF SetTyped
  <2> QED
    BY <2>1, <2>2
<1>9. SetTyped(set2)
  BY <1>7, <1>8 DEF SetTyped
<1> QED
  BY <1>9 DEF set2

LEMMA CarriedStaysTyped ==
    ASSUME BankTyped, NEW unit, NEW p, WellFormed(p), NEW b, IsRequestOf(b, p), Carried(unit, b)
    PROVE  BankTyped'
<1>1. ReadAs(PduIn(b), p)
  BY RequestIsRead
<1>2. b[1] = p.fc
  BY DEF IsRequestOf
<1>3. CASE UNCHANGED bank
  BY <1>3 DEF BankTyped
<1>4. CASE unit \in Slaves /\ b[1] \in WriteCodes /\ Publish(unit, Written(bank[unit], PduIn(b)))
  <2> DEFINE set == Written(bank[unit], PduIn(b))
  <2>1. SetTyped(set)
    BY <1>1, <1>2, <1>4, WritesStayTyped DEF BankTyped
  <2> HIDE DEF set
  <2>2. bank' = [bank EXCEPT ![unit] = set]
    BY <1>4 DEF Publish, set
  <2>3. bank' = [s \in Slaves |-> bank'[s]]
    BY <2>2 DEF BankTyped
  <2>4. \A s \in Slaves : bank'[s] = IF s = unit THEN set ELSE bank[s]
    BY <2>2 DEF BankTyped
  <2> QED
    BY <2>1, <2>3, <2>4 DEF BankTyped
<1> QED
  BY <1>3, <1>4 DEF Carried

(* The PDU of the answer to a request. *)
IsAnswerTo(a, r) ==
    /\ a \in Bytes /\ Len(a) >= 2 /\ 7 + Len(a) = AnswerLength(r)
    /\ IF Refused(r) THEN a[1] = 128 + r.pdu.fc
       ELSE a[1] = r.pdu.fc /\ (r.pdu.fc \in {1, 2, 3, 4} => a[2] = Len(a) - 2)

(* A count and so many bytes after a function code. *)
CodeCounted(a, c, n) == a \in Bytes /\ Len(a) = 2 + n /\ a[1] = c /\ a[2] = n

LEMMA CodeAndCount ==
    ASSUME NEW c \in Byte, NEW n \in Byte, NEW v \in Bytes, Len(v) = n,
           NEW a, a = <<c, n>> \o v
    PROVE  CodeCounted(a, c, n)
<1> DEFINE h == <<c, n>>
<1>1. h \in Bytes /\ Len(h) = 2 /\ h[1] = c /\ h[2] = n
  BY DEF Bytes
<1>2. a = Cat(h, v)
  BY DEF Cat
<1> HIDE DEF h
<1>3. Joins(a, h, v)
  BY <1>1, <1>2, CatJoins
<1>4. 1 \in 1 .. 2 /\ 2 \in 1 .. 2
  OBVIOUS
<1> QED
  BY <1>1, <1>3, <1>4 DEF Joins, CodeCounted

(* What is read from a table. *)
LEMMA ReadsAreTyped ==
    ASSUME NEW set, SetTyped(set), NEW p, WellFormed(p), NEW q, ReadAs(q, p), p.fc \in ReadCodes,
           ExceptionOf(p) = 0
    PROVE  /\ Len(ReadOut(set, q)) = p.qty
           /\ \A i \in 1 .. p.qty : ReadOut(set, q)[i] \in Width(TableOf(p.fc))
<1>1. q.fc = p.fc /\ q.addr = p.addr /\ q.qty = p.qty /\ p.qty \in Nat \ {0} /\ p.addr \in Nat
  <2>1. p.addr \in Word /\ Word \subseteq Nat
    BY BytesAndWords DEF WellFormed
  <2>2. p.addr \in Nat
    BY <2>1, Zenon
  <2> QED
    BY <2>2 DEF ReadAs, WellFormed
<1>2. TableOf(p.fc) \in Tables
  <2>1. p.fc \in {1, 2, 3, 4}
    BY DEF ReadCodes
  <2> QED
    BY <2>1 DEF TableOf, Tables
<1> DEFINE t == TableOf(p.fc)
<1>3. ReadOut(set, q) = [i \in 1 .. p.qty |-> set[t][p.addr + i - 1]]
  BY <1>1 DEF ReadOut
<1>4. p.addr + p.qty <= Size(t)
  <2>1. Size(t) \in Nat
    BY <1>2, SizesAreNumbers
  <2> HIDE DEF t
  <2>2. ~(p.addr + p.qty > Size(t))
    BY DEF ExceptionOf, t
  <2> QED
    BY <1>1, <2>1, <2>2
<1>5. ASSUME NEW i \in 1 .. p.qty PROVE p.addr + i - 1 \in Addrs(t)
  <2>1. Size(t) \in Nat
    BY <1>2, SizesAreNumbers
  <2> HIDE DEF t
  <2> QED
    BY <1>1, <1>4, <2>1 DEF Addrs
<1>6. \A a \in Addrs(t) : set[t][a] \in Width(t)
  BY <1>2 DEF SetTyped
<1> HIDE DEF t
<1>7. Len(ReadOut(set, q)) = p.qty
  BY <1>1, <1>3
<1>8. \A i \in 1 .. p.qty : ReadOut(set, q)[i] \in Width(t)
  BY <1>3, <1>5, <1>6
<1> QED
  BY <1>7, <1>8 DEF t

(* An exception is answered with its code. *)
LEMMA ExceptionsAreBytes ==
    ASSUME NEW c \in {1, 2, 3, 4, 5, 6, 15, 16}, NEW e \in {1, 2, 3}, NEW a, a = <<128 + c, e>>
    PROVE  a \in Bytes /\ Len(a) = 2 /\ a[1] = 128 + c
<1>1. 128 + c \in Nat /\ 128 + c <= 255 /\ e \in Nat /\ e <= 255
  OBVIOUS
<1>2. 128 + c \in Byte /\ e \in Byte
  BY <1>1, BytesAndWords
<1> QED
  BY <1>2 DEF Bytes

LEMMA ExceptionCodes ==
    ASSUME NEW p PROVE ExceptionOf(p) \in {0, 1, 2, 3}
BY DEF ExceptionOf

(* Every request is answered. *)
LEMMA RequestsAreAnswered ==
    ASSUME BankTyped, NEW r \in Sent, NEW b, IsRequestOf(b, r.pdu)
    PROVE  IsAnswerTo(Handled(r.unit, b), r)
<1> DEFINE p == r.pdu
           c == p.fc
           q == PduIn(b)
           a == Handled(r.unit, b)
<1>1. WellFormed(p) /\ ReadAs(q, p) /\ b[1] = c
  BY SentAreTyped, RequestIsRead DEF IsRequestOf
<1>2. c \in {1, 2, 3, 4, 5, 6, 15, 16} /\ c \in Byte /\ p.qty \in Nat \ {0}
  BY <1>1 DEF WellFormed
<1>3. q.fc = c /\ q.qty = p.qty /\ ExceptionOf(q) = ExceptionOf(p)
  BY <1>1 DEF ReadAs
<1>4. ExceptionOf(p) \in {0, 1, 2, 3}
  BY ExceptionCodes
<1>5. Refused(r) <=> r.unit \notin Slaves \/ ExceptionOf(p) # 0
  BY DEF Refused
<1> HIDE DEF q, a, c
<1>6. CASE Refused(r)
  <2>1. \E e \in {1, 2, 3} : a = <<128 + c, e>>
    <3>1. CASE r.unit \notin Slaves
      BY <1>1, <3>1 DEF a, Handled, AnswerPdu, AnswerOfStranger
    <3>2. CASE r.unit \in Slaves
      <4>1. ExceptionOf(p) \in {1, 2, 3}
        BY <1>4, <1>5, <1>6, <3>2
      <4>2. a = AnswerPdu(b, AnswerFrom(bank[r.unit], q))
        BY <3>2 DEF a, q, Handled
      <4>3. AnswerFrom(bank[r.unit], q).exc = ExceptionOf(p)
        BY <1>3 DEF AnswerFrom
      <4>4. a = <<128 + c, ExceptionOf(p)>>
        BY <1>1, <4>1, <4>2, <4>3 DEF AnswerPdu
      <4> QED
        BY <4>1, <4>4
    <3> QED
      BY <3>1, <3>2
  <2>2. a \in Bytes /\ Len(a) = 2 /\ a[1] = 128 + c
    BY <1>2, <2>1, ExceptionsAreBytes
  <2>3. AnswerLength(r) = 9
    BY <1>6 DEF AnswerLength
  <2>4. IsAnswerTo(a, r)
    BY <1>6, <2>2, <2>3 DEF IsAnswerTo, c
  <2> QED
    BY <2>4 DEF a
<1>7. CASE ~Refused(r)
  <2>1. r.unit \in Slaves /\ ExceptionOf(p) = 0
    BY <1>5, <1>7
  <2> DEFINE set == bank[r.unit]
             vals == ReadOut(set, q)
  <2>2. SetTyped(set)
    BY <2>1 DEF BankTyped
  <2>3. a = AnswerPdu(b, AnswerFrom(set, q))
    BY <2>1 DEF a, q, Handled
  <2>4. /\ AnswerFrom(set, q).exc = 0
        /\ c \in {1, 2, 3, 4} => AnswerFrom(set, q).vals = vals
    <3>1. ReadCodes = {1, 2, 3, 4}
      BY DEF ReadCodes
    <3> QED
      BY <1>3, <2>1, <3>1 DEF AnswerFrom
  <2>5. c \in {1, 2, 3, 4} =>
          /\ Len(vals) = p.qty
          /\ \A i \in 1 .. p.qty : vals[i] \in Width(TableOf(c))
    <3> SUFFICES ASSUME c \in {1, 2, 3, 4}
                 PROVE  /\ Len(vals) = p.qty
                        /\ \A i \in 1 .. p.qty : vals[i] \in Width(TableOf(c))
      OBVIOUS
    <3>1. p.fc \in ReadCodes
      BY DEF ReadCodes, c
    <3> QED
      BY <1>1, <2>1, <2>2, <3>1, ReadsAreTyped DEF c
  <2> HIDE DEF vals, set
  <2>6. p.qty <= MaxQty(c)
    <3>1. ~(p.qty > MaxQty(c)) /\ MaxQty(c) \in Nat
      BY <2>1 DEF ExceptionOf, c, MaxQty
    <3> QED
      BY <1>2, <3>1
  <2>7. CASE c \in {1, 2}
    <3>1. Len(vals) = p.qty /\ \A i \in 1 .. Len(vals) : vals[i] \in {0, 1}
      BY <2>5, <2>7 DEF TableOf, Width
    <3> DEFINE v == CoilBytes(vals)
               n == (p.qty + 7) \div 8
    <3>2. v \in Bytes /\ Len(v) = n
      BY <1>2, <3>1, BitsAsBytes
    <3>3. n \in Nat /\ n <= 255 /\ 9 + n = 7 + (2 + n)
      BY <1>2, <2>6, <2>7 DEF MaxQty
    <3>4. n \in Byte
      BY <3>3, BytesAndWords
    <3>5. a = <<c, n>> \o v
      <4>1. b[1] \in {1, 2} /\ c \in {1, 2, 3, 4}
        BY <1>1, <2>7
      <4>2. a = <<b[1], Len(CoilBytes(vals))>> \o CoilBytes(vals)
        <5>1. PICK ans : ans = AnswerFrom(set, q)
          OBVIOUS
        <5>2. a = AnswerPdu(b, ans) /\ ans.exc = 0 /\ ans.vals = vals
          BY <2>3, <2>4, <4>1, <5>1
        <5>3. a = AnswerPdu(b, ans) /\ ans.exc = 0 /\ b[1] \in {1, 2}
          BY <4>1, <5>2
        <5>4. a = <<b[1], Len(CoilBytes(ans.vals))>> \o CoilBytes(ans.vals)
          BY <5>3 DEF AnswerPdu
        <5> QED
          BY <5>2, <5>4, Zenon
      <4> QED
        BY <1>1, <3>2, <4>2
    <3>6. AnswerLength(r) = 9 + n
      BY <1>7, <2>7 DEF AnswerLength, c
    <3> HIDE DEF n, v
    <3>9. CodeCounted(a, c, n)
      BY <1>2, <3>2, <3>4, <3>5, CodeAndCount
    <3>7. a \in Bytes /\ Len(a) = 2 + n /\ a[1] = c /\ a[2] = n
      BY <3>9 DEF CodeCounted
    <3>8. IsAnswerTo(a, r)
      BY <1>7, <3>3, <3>6, <3>7 DEF IsAnswerTo, c
    <3> QED
      BY <3>8 DEF a
  <2>8. CASE c \in {3, 4}
    <3>1. Len(vals) = p.qty /\ \A i \in 1 .. Len(vals) : vals[i] \in Word
      BY <2>5, <2>8 DEF TableOf, Width
    <3> DEFINE v == WordBytes(vals)
               n == 2 * p.qty
    <3>2. v \in Bytes /\ Len(v) = n
      BY <1>2, <3>1, WordsAsBytes
    <3>3. n \in Nat /\ n <= 255 /\ 9 + n = 7 + (2 + n)
      BY <1>2, <2>6, <2>8 DEF MaxQty
    <3>4. n \in Byte
      BY <3>3, BytesAndWords
    <3>5. a = <<c, n>> \o v
      <4>1. b[1] \in {3, 4} /\ b[1] \notin {1, 2}
        BY <1>1, <2>8
      <4>2. a = <<b[1], 2 * Len(vals)>> \o WordBytes(vals)
        <5>1. PICK ans : ans = AnswerFrom(set, q)
          OBVIOUS
        <5>2. a = AnswerPdu(b, ans) /\ ans.exc = 0 /\ ans.vals = vals
          BY <2>3, <2>4, <2>8, <5>1
        <5>3. a = AnswerPdu(b, ans) /\ ans.exc = 0 /\ b[1] \in {3, 4} /\ b[1] \notin {1, 2}
          BY <4>1, <5>2
        <5>4. a = <<b[1], 2 * Len(ans.vals)>> \o WordBytes(ans.vals)
          BY <5>3 DEF AnswerPdu
        <5> QED
          BY <5>2, <5>4, Zenon
      <4> QED
        BY <1>1, <3>1, <4>2
    <3>6. AnswerLength(r) = 9 + n
      BY <1>7, <2>8 DEF AnswerLength, c
    <3> HIDE DEF n, v
    <3>9. CodeCounted(a, c, n)
      BY <1>2, <3>2, <3>4, <3>5, CodeAndCount
    <3>7. a \in Bytes /\ Len(a) = 2 + n /\ a[1] = c /\ a[2] = n
      BY <3>9 DEF CodeCounted
    <3>8. IsAnswerTo(a, r)
      BY <1>7, <3>3, <3>6, <3>7 DEF IsAnswerTo, c
    <3> QED
      BY <3>8 DEF a
  <2>9. CASE c \in {5, 6, 15, 16}
    <3>1. b \in Bytes /\ Len(b) >= 5 /\ Len(b) \in Nat
      BY BytesAreASequence DEF IsRequestOf
    <3>2. a \in Bytes /\ Len(a) = 5 /\ a[1] = c
      <4>1. CASE c \in {5, 6}
        <5>1. a = b
          BY <1>1, <2>3, <2>4, <4>1 DEF AnswerPdu
        <5>2. Len(b) = 5
          BY <4>1 DEF IsRequestOf, c
        <5> QED
          BY <1>1, <3>1, <5>1, <5>2
      <4>2. CASE c \in {15, 16}
        <5>1. a = SubSeq(b, 1, 5)
          BY <1>1, <2>3, <2>4, <4>2 DEF AnswerPdu
        <5>2. Stretch(a, b, 1) /\ Len(a) = 5
          BY <3>1, <5>1, PartsAreBytes
        <5>3. a[1] = b[1]
          BY <5>2 DEF Stretch
        <5> QED
          BY <1>1, <5>2, <5>3 DEF Stretch
      <4> QED
        BY <2>9, <4>1, <4>2
    <3>3. AnswerLength(r) = 12
      BY <1>7, <2>9 DEF AnswerLength, c
    <3>4. IsAnswerTo(a, r)
      BY <1>7, <2>9, <3>2, <3>3 DEF IsAnswerTo, c
    <3> QED
      BY <3>4 DEF a
  <2> QED
    BY <1>2, <2>7, <2>8, <2>9
<1> QED
  BY <1>6, <1>7

-----------------------------------------------------------------------------
(* The frame of an answer, on the line and taken apart                     *)

Task == [tid : Word, req : Sent]
Answers == [tid : Word, unit : Byte, pdu : Bytes]

(* An answer to the request of a task. *)
AnswerFor(s, t) ==
    s \in Answers /\ s.tid = t.tid /\ s.unit = t.req.unit /\ IsAnswerTo(s.pdu, t.req)

FrameOf(s) == Framed("Tcp", s.tid, s.unit, s.pdu)

IsFrameOf(f, s) ==
    /\ f \in Bytes /\ Len(f) = 7 + Len(s.pdu)
    /\ ReadU16(f, 1) = s.tid /\ ReadU16(f, 3) = 0 /\ ReadU16(f, 5) = 1 + Len(s.pdu)
    /\ f[7] = s.unit
    /\ \A i \in 1 .. Len(s.pdu) : f[7 + i] = s.pdu[i]

LEMMA FramesOfAnswers ==
    ASSUME NEW s \in Answers, Len(s.pdu) <= 65534
    PROVE  IsFrameOf(FrameOf(s), s)
<1>1. s.tid \in Word /\ s.unit \in Byte /\ s.pdu \in Bytes
  BY DEF Answers
<1> DEFINE f == FrameOf(s)
<1>2. f = Framed("Tcp", s.tid, s.unit, s.pdu)
  BY DEF FrameOf
<1> HIDE DEF f
<1>3. IsFrameOf(f, s)
  BY <1>1, <1>2, FrameFacts DEF IsFrameOf
<1> QED
  BY <1>3 DEF f

(* How long an answer is follows from its first two bytes. *)
Shaped(a) ==
    /\ a \in Bytes /\ Len(a) >= 2 /\ Len(a) <= 300
    /\ a[1] \in {1, 2, 3, 4, 5, 6, 15, 16} \/ (a[1] >= 128 /\ Len(a) = 2)
    /\ a[1] \in {1, 2, 3, 4} => a[2] = Len(a) - 2
    /\ a[1] \in {3, 4} => (Len(a) - 2) % 2 = 0
    /\ a[1] \in {5, 6, 15, 16} => Len(a) = 5

(* What the two first bytes say of the request. *)
Answering(a, r) ==
    /\ a[1] = r.pdu.fc + IF Refused(r) THEN 128 ELSE 0
    /\ a[1] \in {1, 2} => Len(a) - 2 = (r.pdu.qty + 7) \div 8
    /\ a[1] \in {3, 4} => Len(a) - 2 = 2 * r.pdu.qty

LEMMA AnswersAreShaped ==
    ASSUME NEW r \in Sent, NEW a, IsAnswerTo(a, r)
    PROVE  Shaped(a) /\ Answering(a, r)
<1> DEFINE c == r.pdu.fc
           n == r.pdu.qty
<1>1. c \in {1, 2, 3, 4, 5, 6, 15, 16} /\ n \in Nat \ {0}
  <2>1. WellFormed(r.pdu)
    BY SentAreTyped
  <2> QED
    BY <2>1 DEF WellFormed
<1>2. a \in Bytes /\ Len(a) \in Nat /\ Len(a) >= 2 /\ 7 + Len(a) = AnswerLength(r)
  BY BytesAreASequence DEF IsAnswerTo
<1>3. CASE Refused(r)
  <2>1. a[1] = 128 + c /\ Len(a) = 2
    <3>1. AnswerLength(r) = 9
      BY <1>3 DEF AnswerLength
    <3>2. a[1] = 128 + c
      BY <1>3 DEF IsAnswerTo
    <3>3. Len(a) = 2
      <4>1. Len(a) \in Nat /\ 7 + Len(a) = 9
        BY <1>2, <3>1
      <4>2. \A k \in Nat : 7 + k = 9 => k = 2
        OBVIOUS
      <4> QED
        BY <4>1, <4>2
    <3> QED
      BY <3>2, <3>3
  <2>2. a[1] >= 128 /\ a[1] \notin {1, 2, 3, 4, 5, 6, 15, 16}
    BY <1>1, <2>1
  <2>3. Shaped(a)
    BY <1>2, <2>1, <2>2 DEF Shaped
  <2>4. Answering(a, r)
    BY <1>1, <1>3, <2>1, <2>2 DEF Answering
  <2> QED
    BY <2>3, <2>4
<1>4. CASE ~Refused(r)
  <2>1. a[1] = c /\ (c \in {1, 2, 3, 4} => a[2] = Len(a) - 2)
    BY <1>4 DEF IsAnswerTo
  <2>2. n <= MaxQty(c)
    <3>1. ~(n > MaxQty(c)) /\ MaxQty(c) \in Nat
      BY <1>4 DEF Refused, ExceptionOf, MaxQty
    <3> QED
      BY <1>1, <3>1
  <2> HIDE DEF n, c
  <2>3. /\ c \in {1, 2} => Len(a) = 2 + ((n + 7) \div 8)
        /\ c \in {3, 4} => Len(a) = 2 + 2 * n
        /\ c \in {5, 6, 15, 16} => Len(a) = 5
    <3>1. c \in {1, 2} => AnswerLength(r) = 9 + ((n + 7) \div 8)
      BY <1>4 DEF AnswerLength, c, n
    <3>2. c \in {3, 4} => AnswerLength(r) = 9 + 2 * n
      BY <1>4 DEF AnswerLength, c, n
    <3>3. c \in {5, 6, 15, 16} => AnswerLength(r) = 12
      BY <1>4 DEF AnswerLength, c, n
    <3>4. \A k \in Nat : AnswerLength(r) = 9 + k => Len(a) = 2 + k
      BY <1>2
    <3>5. (n + 7) \div 8 \in Nat /\ 2 * n \in Nat /\ 3 \in Nat /\ 12 = 9 + 3 /\ 5 = 2 + 3
      BY <1>1
    <3>6. c \in {1, 2} => Len(a) = 2 + ((n + 7) \div 8)
      BY <3>1, <3>4, <3>5
    <3>7. c \in {3, 4} => Len(a) = 2 + 2 * n
      BY <3>2, <3>4, <3>5
    <3>8. c \in {5, 6, 15, 16} => Len(a) = 5
      BY <3>3, <3>4, <3>5
    <3> QED
      BY <3>6, <3>7, <3>8
  <2>4. /\ c \in {1, 2} => n <= 2000
        /\ c \in {3, 4} => n <= 125
    BY <2>2 DEF MaxQty
  <2>5. Len(a) <= 300
    <3>1. CASE c \in {1, 2}
      <4>1. n <= 2000 /\ Len(a) = 2 + ((n + 7) \div 8)
        BY <2>3, <2>4, <3>1
      <4>2. (n + 7) \div 8 <= 250 /\ (n + 7) \div 8 \in Nat
        BY <1>1, <4>1
      <4>3. \A k \in Nat : k <= 250 => 2 + k <= 300
        OBVIOUS
      <4> QED
        BY <4>1, <4>2, <4>3
    <3>2. CASE c \in {3, 4}
      BY <1>1, <2>3, <2>4, <3>2
    <3>3. CASE c \in {5, 6, 15, 16}
      <4>1. Len(a) = 5
        BY <2>3, <3>3
      <4> QED
        BY <4>1
    <3> QED
      BY <1>1, <3>1, <3>2, <3>3
  <2>6. c \in {3, 4} => (Len(a) - 2) % 2 = 0
    BY <1>1, <2>3
  <2>7. Shaped(a)
    BY <1>1, <1>2, <2>1, <2>3, <2>5, <2>6 DEF Shaped
  <2>8. /\ c \in {1, 2} => Len(a) - 2 = (n + 7) \div 8
        /\ c \in {3, 4} => Len(a) - 2 = 2 * n
    BY <1>1, <2>3
  <2>9. Answering(a, r)
    BY <1>1, <1>4, <2>1, <2>8 DEF Answering, c, n
  <2> QED
    BY <2>7, <2>9
<1> QED
  BY <1>3, <1>4

(* Bytes read as words and written again. *)
LEMMA WordsAndBack ==
    ASSUME NEW b \in Bytes, Len(b) % 2 = 0
    PROVE  WordBytes(WordsIn(b)) = b /\ Len(WordsIn(b)) = Len(b) \div 2
<1>1. Len(b) \in Nat /\ \A i \in 1 .. Len(b) : b[i] \in Byte
  BY BytesAreASequence
<1> DEFINE n == Len(b) \div 2
           w == WordsIn(b)
<1>2. n \in Nat /\ 2 * n = Len(b)
  BY <1>1
<1>3. w = [i \in 1 .. n |-> 256 * b[2 * i - 1] + b[(2 * i - 1) + 1]]
  BY DEF WordsIn, ReadU16
<1>4. Len(w) = n
  <2> HIDE DEF w, n
  <2> QED
    BY <1>2, <1>3
<1> HIDE DEF w, n
<1>5. ASSUME NEW i \in 1 .. Len(b)
      PROVE  (IF i % 2 = 1 THEN w[(i + 1) \div 2] \div 256 ELSE w[i \div 2] % 256) = b[i]
  <2>1. CASE i % 2 = 1
    <3> DEFINE k == (i + 1) \div 2
    <3>1. k \in 1 .. n /\ 2 * k - 1 = i /\ i + 1 \in 1 .. Len(b)
      BY <1>1, <1>2, <2>1
    <3> HIDE DEF k
    <3>2. w[k] = 256 * b[i] + b[i + 1]
      BY <1>3, <3>1
    <3>3. w[k] \div 256 = b[i]
      BY <1>1, <3>1, <3>2, BytesAreTheirWord
    <3> QED
      BY <2>1, <3>3 DEF k
  <2>2. CASE i % 2 # 1
    <3> DEFINE k == i \div 2
    <3>1. k \in 1 .. n /\ (2 * k - 1) + 1 = i /\ 2 * k - 1 \in 1 .. Len(b)
      BY <1>1, <1>2, <2>2
    <3> HIDE DEF k
    <3>2. w[k] = 256 * b[2 * k - 1] + b[i]
      BY <1>3, <3>1
    <3>3. w[k] % 256 = b[i]
      BY <1>1, <3>1, <3>2, BytesAreTheirWord
    <3> QED
      BY <2>2, <3>3 DEF k
  <2> QED
    BY <2>1, <2>2
<1>6. WordBytes(w) = [i \in 1 .. Len(b) |->
         IF i % 2 = 1 THEN w[(i + 1) \div 2] \div 256 ELSE w[i \div 2] % 256]
  BY <1>2, <1>4 DEF WordBytes
<1>7. WordBytes(w) = [i \in 1 .. Len(b) |-> b[i]]
  BY <1>5, <1>6
<1>8. b = [i \in 1 .. Len(b) |-> b[i]]
  BY DEF Bytes
<1>9. WordBytes(w) = b
  BY <1>7, <1>8
<1> QED
  BY <1>4, <1>9 DEF w, n

(* The parser takes from the frame of an answer what the answer says. *)
ParsesAs(f, s, t) ==
    \E resp : /\ ParseTcpResponse(f) = <<resp>>
              /\ resp.tid = s.tid /\ Conveys(resp, s) /\ Fits(resp, t.req)

LEMMA AnswerIsParsed ==
    ASSUME NEW t \in Task, NEW s, AnswerFor(s, t), NEW f, IsFrameOf(f, s)
    PROVE  ParsesAs(f, s, t)
<1> DEFINE a == s.pdu
           c == a[1]
           r == t.req
           m == Len(a)
<1>1. r \in Sent /\ s.unit = r.unit /\ IsAnswerTo(a, r)
  BY DEF Task, AnswerFor
<1>2. Shaped(a) /\ Answering(a, r)
  BY <1>1, AnswersAreShaped
<1>3. a \in Bytes /\ m \in Nat /\ m >= 2 /\ m <= 300
  BY <1>2, BytesAreASequence DEF Shaped
<1>4. /\ f \in Bytes /\ Len(f) = 7 + m
      /\ ReadU16(f, 1) = s.tid /\ ReadU16(f, 3) = 0 /\ ReadU16(f, 5) = 1 + m
      /\ f[7] = s.unit
      /\ \A i \in 1 .. m : f[7 + i] = a[i]
  BY DEF IsFrameOf
<1>5. f[8] = c /\ f[9] = a[2]
  <2>1. 1 \in 1 .. m /\ 2 \in 1 .. m
    BY <1>3
  <2> HIDE DEF a, m
  <2> QED
    BY <1>4, <2>1 DEF c
<1>6. /\ c \in {1, 2, 3, 4, 5, 6, 15, 16} \/ (c >= 128 /\ m = 2)
      /\ c \in {1, 2, 3, 4} => a[2] = m - 2
      /\ c \in {3, 4} => (m - 2) % 2 = 0
      /\ c \in {5, 6, 15, 16} => m = 5
  BY <1>2 DEF Shaped
<1>7. /\ c = r.pdu.fc + IF Refused(r) THEN 128 ELSE 0
      /\ c \in {1, 2} => m - 2 = (r.pdu.qty + 7) \div 8
      /\ c \in {3, 4} => m - 2 = 2 * r.pdu.qty
  BY <1>2 DEF Answering
<1>8. r.pdu.qty \in Nat
  <2>1. WellFormed(r.pdu)
    BY <1>1, SentAreTyped
  <2> QED
    BY <2>1 DEF WellFormed
<1> DEFINE p == ParseTcpResponse(f)
           Resp(exc, vals) == [tid |-> s.tid, unit |-> s.unit, fc |-> c, exc |-> exc, vals |-> vals]
<1>9. Len(f) >= 8 /\ 6 + (1 + m) = Len(f) /\ 1 + m >= 2
  BY <1>3, <1>4
<1> HIDE DEF a, c, m, p, r
<1>10. CASE c >= 128 /\ m = 2
  <2>1. p = <<Resp(f[9], <<>>)>>
    BY <1>4, <1>5, <1>9, <1>10 DEF p, ParseTcpResponse, Response
  <2> DEFINE resp == Resp(a[2], <<>>)
  <2>2. c \notin {1, 2, 3, 4}
    BY <1>10
  <2>3. resp.tid = s.tid /\ resp.unit = s.unit /\ resp.fc = c /\ resp.exc = a[2]
    OBVIOUS
  <2>4. p = <<resp>>
    BY <1>5, <2>1
  <2> HIDE DEF resp
  <2>5. Conveys(resp, s)
    BY <2>2, <2>3 DEF Conveys, a, c
  <2>6. Fits(resp, r)
    BY <1>1, <1>7, <2>2, <2>3 DEF Fits
  <2> QED
    BY <2>3, <2>4, <2>5, <2>6 DEF ParsesAs, p, r
<1>11. CASE c \in {1, 2, 3, 4}
  <2> DEFINE d == SubSeq(f, 10, 9 + f[9])
             v == ReadData(c, d)
  <2>1. f[9] = m - 2 /\ 3 + f[9] = 1 + m /\ 9 + f[9] = 7 + m /\ ~(1 + m < 3)
    BY <1>3, <1>5, <1>6, <1>11
  <2>2. ~(c >= 128) /\ c \in 1 .. 4 /\ ~(c \in {3, 4} /\ f[9] % 2 # 0)
    BY <1>6, <1>11, <2>1
  <2>3. p = <<Resp(0, v)>>
    <3>1. /\ ~(Len(f) < 8 \/ ReadU16(f, 3) # 0)
          /\ ~(ReadU16(f, 5) < 2 \/ 6 + ReadU16(f, 5) > Len(f))
          /\ ~(f[8] >= 128) /\ f[8] \in 1 .. 4
          /\ ~(ReadU16(f, 5) < 3 \/ 3 + f[9] # ReadU16(f, 5) \/ (f[8] \in {3, 4} /\ f[9] % 2 # 0))
      BY <1>3, <1>4, <1>5, <1>9, <2>1, <2>2
    <3>2. p = <<[tid |-> ReadU16(f, 1), unit |-> f[7], fc |-> f[8], exc |-> 0,
                 vals |-> ReadData(f[8], SubSeq(f, 10, 9 + f[9]))]>>
      BY <3>1, Zenon DEF p, ParseTcpResponse, Response
    <3> QED
      BY <1>4, <1>5, <3>2
  <2>4. d = SubSeq(a, 3, m) /\ d \in Bytes /\ Len(d) = m - 2
    <3>1. Stretch(d, f, 10) /\ Len(d) = (7 + m) + 1 - 10
      <4>1. d = SubSeq(f, 10, 7 + m) /\ 7 + m \in Nat /\ 7 + m <= Len(f) /\ 10 <= 7 + m + 1
            /\ 10 \in Nat \ {0}
        BY <1>3, <1>4, <2>1
      <4> QED
        BY <1>4, <4>1, PartsAreBytes
    <3>2. Stretch(SubSeq(a, 3, m), a, 3) /\ Len(SubSeq(a, 3, m)) = m + 1 - 3
      <4>1. m <= Len(a) /\ 3 <= m + 1 /\ 3 \in Nat \ {0}
        BY <1>3 DEF m
      <4> QED
        BY <1>3, <4>1, PartsAreBytes
    <3> DEFINE e == SubSeq(a, 3, m)
    <3> HIDE DEF d, e
    <3>3. Len(d) = m - 2 /\ Len(e) = m - 2 /\ d \in Bytes /\ e \in Bytes
      BY <1>3, <3>1, <3>2 DEF Stretch, e
    <3>4. ASSUME NEW i \in 1 .. m - 2 PROVE d[i] = e[i]
      <4>1. d[i] = f[10 - 1 + i] /\ e[i] = a[3 - 1 + i]
        BY <3>1, <3>2, <3>3 DEF Stretch, e
      <4>2. 10 - 1 + i = 7 + (i + 2) /\ 3 - 1 + i = i + 2 /\ i + 2 \in 1 .. m
        BY <1>3
      <4> QED
        BY <1>4, <4>1, <4>2
    <3>5. d = [i \in 1 .. m - 2 |-> d[i]] /\ e = [i \in 1 .. m - 2 |-> e[i]]
      BY <3>3 DEF Bytes
    <3>6. [i \in 1 .. m - 2 |-> d[i]] = [i \in 1 .. m - 2 |-> e[i]]
      BY <3>4
    <3> QED
      BY <3>3, <3>5, <3>6 DEF e
  <2> HIDE DEF d
  <2>5. c \in {1, 2} => v = d
    BY DEF ReadData
  <2>6. c \in {3, 4} => v = WordsIn(d)
    BY DEF ReadData
  <2>7. c \in {3, 4} => WordBytes(v) = d /\ Len(v) = r.pdu.qty
    <3> SUFFICES ASSUME c \in {3, 4} PROVE WordBytes(v) = d /\ Len(v) = r.pdu.qty
      OBVIOUS
    <3>1. Len(d) % 2 = 0
      BY <1>6, <2>4
    <3>2. WordBytes(v) = d /\ Len(v) = Len(d) \div 2
      BY <2>4, <2>6, <3>1, WordsAndBack
    <3>3. Len(d) \div 2 = r.pdu.qty
      <4>1. Len(d) = 2 * r.pdu.qty
        BY <1>7, <2>4
      <4>2. \A k \in Nat : (2 * k) \div 2 = k
        OBVIOUS
      <4> QED
        BY <1>8, <4>1, <4>2
    <3> QED
      BY <3>2, <3>3
  <2>8. c \in {1, 2} => Len(v) = (r.pdu.qty + 7) \div 8
    BY <1>7, <2>4, <2>5
  <2> DEFINE resp == Resp(0, v)
  <2>9. resp.tid = s.tid /\ resp.unit = s.unit /\ resp.fc = c /\ resp.vals = v
    OBVIOUS
  <2>10. p = <<resp>>
    BY <2>3
  <2> HIDE DEF resp, v
  <2>11. Conveys(resp, s)
    BY <2>2, <2>4, <2>5, <2>7, <2>9 DEF Conveys, a, c, m
  <2>12. Fits(resp, r)
    BY <1>1, <1>7, <2>7, <2>8, <2>9 DEF Fits
  <2> QED
    BY <2>9, <2>10, <2>11, <2>12 DEF ParsesAs, p, r
<1>12. CASE c \in {5, 6, 15, 16}
  <2> DEFINE v == IF c \in {5, 6} THEN <<ReadU16(f, 9)>> ELSE <<>>
             resp == Resp(0, v)
  <2>1. m = 5 /\ 1 + m = 6
    BY <1>6, <1>12
  <2>2. ~(c >= 128) /\ c \notin 1 .. 4 /\ c \notin {1, 2, 3, 4}
    BY <1>12
  <2>3. p = <<resp>>
    BY <1>4, <1>5, <1>9, <1>12, <2>1, <2>2 DEF p, ParseTcpResponse, Response
  <2>9. resp.tid = s.tid /\ resp.unit = s.unit /\ resp.fc = c
    OBVIOUS
  <2> HIDE DEF resp, v
  <2>11. Conveys(resp, s)
    BY <2>2, <2>9 DEF Conveys, a, c, m
  <2>12. Fits(resp, r)
    BY <1>1, <1>7, <2>2, <2>9 DEF Fits
  <2> QED
    BY <2>3, <2>9, <2>11, <2>12 DEF ParsesAs, p, r
<1> QED
  BY <1>6, <1>10, <1>11, <1>12

-----------------------------------------------------------------------------
(* The accumulator                                                         *)

(* Some bytes of a frame, or all of them and more. *)
Starts(buf, f) == \A i \in 1 .. Len(buf) : i <= Len(f) => buf[i] = f[i]

(* A frame is taken when it is there in whole; before that nothing is      *)
(* done, whatever lies past the bytes that have come.                      *)
Takes(acc0, stale, f) ==
    TryExtractFrame(acc0, TRUE, stale) =
        IF Len(acc0.buf) < Len(f) THEN Waiting(acc0) ELSE Popped(acc0, Len(f))

LEMMA FramesAreTaken ==
    ASSUME NEW s, Shaped(s.pdu), NEW f, IsFrameOf(f, s), Len(f) <= kCapacity,
           NEW acc0, acc0.buf \in Bytes, Starts(acc0.buf, f), NEW stale \in {0, 128}
    PROVE  Takes(acc0, stale, f)
<1> DEFINE a == s.pdu
           c == a[1]
           m == Len(a)
           b == acc0.buf
           n == Len(b)
           x == TryExtractFrame(acc0, TRUE, stale)
           function == Peek(acc0, 7, stale)
           lenField == 256 * Peek(acc0, 4, stale) + Peek(acc0, 5, stale)
<1>1. /\ a \in Bytes /\ m \in Nat /\ m >= 2 /\ m <= 300
      /\ c \in {1, 2, 3, 4, 5, 6, 15, 16} \/ (c >= 128 /\ m = 2)
  BY BytesAreASequence DEF Shaped
<1>2. /\ Len(f) = 7 + m /\ ReadU16(f, 5) = 1 + m
      /\ \A i \in 1 .. m : f[7 + i] = a[i]
  BY DEF IsFrameOf
<1>3. n \in Nat /\ \A i \in 1 .. n : i <= Len(f) => b[i] = f[i]
  BY BytesAreASequence DEF Starts
<1>4. kCapacity \in Nat
  BY CapacityAssumption
<1> HIDE DEF a, c, m, n, x, function, lenField
<1>5. CASE n < 7
  <2>1. x = Waiting(acc0)
    BY <1>5 DEF x, n, TryExtractFrame
  <2>2. n < Len(f)
    <3>1. \A k \in Nat : n < 7 + k
      BY <1>3, <1>5
    <3> QED
      BY <1>1, <1>2, <3>1
  <2> QED
    BY <2>1, <2>2 DEF Takes, x, n
<1>6. CASE ~(n < 7)
  <2>1. lenField = 1 + m
    <3>1. 5 \in 1 .. n /\ 6 \in 1 .. n /\ 5 <= Len(f) /\ 6 <= Len(f) /\ 4 < n /\ 5 < n
      BY <1>1, <1>2, <1>3, <1>6
    <3>2. b[5] = f[5] /\ b[6] = f[6]
      BY <1>3, <3>1
    <3>3. Peek(acc0, 4, stale) = b[5] /\ Peek(acc0, 5, stale) = b[6]
      BY <3>1 DEF Peek, n
    <3>4. ReadU16(f, 5) = 256 * f[5] + f[6]
      BY DEF ReadU16
    <3> QED
      BY <1>2, <3>2, <3>3, <3>4 DEF lenField
  <2>2. x = IF function >= 128 THEN Taken(acc0, 9, TRUE)
            ELSE IF lenField < 2 \/ 6 + lenField > kCapacity THEN Sliding(acc0)
            ELSE Taken(acc0, 6 + lenField, TRUE)
    BY <1>6 DEF x, n, function, lenField, TryExtractFrame
  <2>3. ~(lenField < 2 \/ 6 + lenField > kCapacity) /\ 6 + lenField = Len(f)
    BY <1>1, <1>2, <1>4, <2>1
  <2>4. x = IF function >= 128 THEN Taken(acc0, 9, TRUE) ELSE Taken(acc0, Len(f), TRUE)
    BY <2>2, <2>3
  <2>5. \A k : Taken(acc0, k, TRUE) = IF n < k THEN Waiting(acc0) ELSE Popped(acc0, k)
    BY DEF Taken, n
  <2>6. CASE n = 7
    <3>1. n < Len(f) /\ n < 9
      BY <1>1, <1>2, <2>6
    <3>3. Taken(acc0, 9, TRUE) = Waiting(acc0) /\ Taken(acc0, Len(f), TRUE) = Waiting(acc0)
      BY <3>1, Zenon DEF Taken, n
    <3>2. x = Waiting(acc0)
      BY <2>4, <3>3
    <3> QED
      BY <3>1, <3>2 DEF Takes, x, n
  <2>7. CASE n # 7
    <3>1. 8 \in 1 .. n /\ 8 <= Len(f) /\ 7 < n /\ 1 \in 1 .. m
      BY <1>1, <1>2, <1>3, <1>6, <2>7
    <3>2. function = b[8]
      BY <3>1 DEF function, n, Peek
    <3>3. b[8] = f[8] /\ f[8] = c
      BY <1>2, <1>3, <3>1 DEF c
    <3>4. function >= 128 => Len(f) = 9
      BY <1>1, <1>2, <3>2, <3>3
    <3>5. x = Taken(acc0, Len(f), TRUE)
      BY <2>4, <3>4
    <3> QED
      BY <2>5, <3>5 DEF Takes, x, n
  <2> QED
    BY <2>6, <2>7
<1> QED
  BY <1>5, <1>6

-----------------------------------------------------------------------------
(* A line of frames                                                        *)

(* b is g[1], g[2], ... g[n], one behind the other: g[i] ends at p[i].      *)
HoldsAt(b, g, n, p) ==
    /\ p[0] = 0 /\ p[n] = Len(b)
    /\ \A i \in 0 .. n : p[i] \in Nat
    /\ \A i \in 1 .. n : /\ p[i] = p[i - 1] + Len(g[i])
                         /\ \A j \in 1 .. Len(g[i]) : b[p[i - 1] + j] = g[i][j]
Holds(b, g, n) ==
    /\ b \in Bytes /\ n \in Nat
    /\ \A i \in 1 .. n : g[i] \in Bytes
    /\ \E p : HoldsAt(b, g, n, p)

LEMMA NothingHolds ==
    ASSUME NEW b \in Bytes, Len(b) = 0, NEW g
    PROVE  Holds(b, g, 0)
<1>1. HoldsAt(b, g, 0, [i \in 0 .. 0 |-> 0])
  <2> DEFINE p == [i \in 0 .. 0 |-> 0]
  <2>1. p[0] = 0
    OBVIOUS
  <2>2. \A i \in 0 .. 0 : i = 0
    OBVIOUS
  <2>3. \A i \in 1 .. 0 : FALSE
    OBVIOUS
  <2> HIDE DEF p
  <2>4. HoldsAt(b, g, 0, p)
    BY <2>1, <2>2, <2>3 DEF HoldsAt
  <2> QED
    BY <2>4 DEF p
<1>2. \A i \in 1 .. 0 : FALSE
  OBVIOUS
<1> QED
  BY <1>1, <1>2 DEF Holds

(* No frames, no bytes. *)
LEMMA HoldsNone ==
    ASSUME NEW b, NEW g, Holds(b, g, 0)
    PROVE  b \in Bytes /\ Len(b) = 0
BY DEF Holds, HoldsAt

(* Every frame ends within the line. *)
LEMMA EndsAreWithin ==
    ASSUME NEW b, NEW g, NEW n, Holds(b, g, n), NEW p, HoldsAt(b, g, n, p), NEW i \in 0 .. n
    PROVE  p[i] <= Len(b)
<1>1. n \in Nat /\ \A k \in 1 .. n : g[k] \in Bytes
  BY DEF Holds
<1>2. p[i] \in Nat
  BY DEF HoldsAt
<1> DEFINE G == {k \in 0 .. n - i : p[i] <= p[i + k]}
<1>3. 0 \in G
  BY <1>1, <1>2
<1>4. ASSUME NEW k \in 0 .. (n - i) - 1, k \in G PROVE k + 1 \in G
  <2>1. i + k \in 0 .. n /\ i + (k + 1) \in 1 .. n /\ (i + (k + 1)) - 1 = i + k
        /\ k + 1 \in 0 .. n - i
    BY <1>1
  <2>2. p[i + (k + 1)] = p[i + k] + Len(g[i + (k + 1)])
    BY <2>1 DEF HoldsAt
  <2>3. Len(g[i + (k + 1)]) \in Nat /\ p[i + k] \in Nat
    BY <1>1, <2>1, BytesAreASequence DEF HoldsAt
  <2>4. p[i] <= p[i + k]
    BY <1>4
  <2>5. p[i] <= p[i + (k + 1)]
    BY <1>2, <2>2, <2>3, <2>4
  <2> QED
    BY <2>1, <2>5
<1>5. n - i \in Nat /\ n - i \in 0 .. n - i /\ i + (n - i) = n
  BY <1>1
<1> HIDE DEF G
<1>6. n - i \in G
  BY <1>3, <1>4, <1>5, CountUp
<1>7. p[i] <= p[n]
  BY <1>5, <1>6 DEF G
<1> QED
  BY <1>7 DEF HoldsAt

LEMMA HoldsMore ==
    ASSUME NEW b, NEW g, NEW n, Holds(b, g, n), NEW f \in Bytes, NEW c, Joins(c, b, f),
           NEW g2, g2[n + 1] = f, \A i \in 1 .. n : g2[i] = g[i]
    PROVE  Holds(c, g2, n + 1)
<1>1. b \in Bytes /\ n \in Nat /\ \A i \in 1 .. n : g[i] \in Bytes
  BY DEF Holds
<1>2. PICK p : HoldsAt(b, g, n, p)
  BY DEF Holds
<1>3. Len(b) \in Nat /\ Len(f) \in Nat /\ Len(c) = Len(b) + Len(f) /\ c \in Bytes
  BY <1>1, BytesAreASequence DEF Joins
<1> DEFINE q == [i \in 0 .. n + 1 |-> IF i = n + 1 THEN Len(c) ELSE p[i]]
<1>4. /\ q[n + 1] = Len(c)
      /\ \A i \in 0 .. n : q[i] = p[i]
  <2>1. n + 1 \in 0 .. n + 1 /\ \A i \in 0 .. n : i \in 0 .. n + 1 /\ i # n + 1
    BY <1>1
  <2> QED
    BY <2>1
<1> HIDE DEF q
<1>5. q[0] = 0
  <2>1. 0 \in 0 .. n
    BY <1>1
  <2> QED
    BY <1>2, <1>4, <2>1 DEF HoldsAt
<1>6. \A i \in 0 .. n + 1 : q[i] \in Nat
  <2>1. \A i \in 0 .. n + 1 : i = n + 1 \/ i \in 0 .. n
    BY <1>1
  <2>2. \A i \in 0 .. n : p[i] \in Nat
    BY <1>2 DEF HoldsAt
  <2>3. Len(c) \in Nat
    BY <1>3
  <2> QED
    BY <1>4, <2>1, <2>2, <2>3
<1>7. ASSUME NEW i \in 1 .. n + 1
      PROVE  /\ q[i] = q[i - 1] + Len(g2[i])
             /\ \A j \in 1 .. Len(g2[i]) : c[q[i - 1] + j] = g2[i][j]
  <2>1. CASE i = n + 1
    <3>1. i - 1 = n /\ n \in 0 .. n
      BY <1>1, <2>1
    <3>2. q[i - 1] = Len(b)
      BY <1>2, <1>4, <3>1 DEF HoldsAt
    <3>3. q[i] = Len(b) + Len(f) /\ g2[i] = f
      BY <1>3, <1>4, <2>1
    <3>4. \A j \in 1 .. Len(f) : c[Len(b) + j] = f[j]
      BY DEF Joins
    <3> QED
      BY <3>2, <3>3, <3>4
  <2>2. CASE i # n + 1
    <3>1. i \in 1 .. n /\ i \in 0 .. n /\ i - 1 \in 0 .. n
      BY <1>1, <2>2
    <3>2. q[i] = p[i] /\ q[i - 1] = p[i - 1] /\ g2[i] = g[i]
      BY <1>4, <3>1
    <3>3. /\ p[i] = p[i - 1] + Len(g[i])
          /\ \A j \in 1 .. Len(g[i]) : b[p[i - 1] + j] = g[i][j]
      BY <1>2, <3>1 DEF HoldsAt
    <3>4. Len(g[i]) \in Nat /\ p[i - 1] \in Nat /\ p[i] \in Nat
      BY <1>1, <1>2, <3>1, BytesAreASequence DEF HoldsAt
    <3>5. p[i] <= Len(b)
      BY <1>1, <1>2, <3>1, EndsAreWithin
    <3>6. ASSUME NEW j \in 1 .. Len(g[i]) PROVE c[p[i - 1] + j] = g[i][j]
      <4>1. p[i - 1] + j \in 1 .. Len(b)
        BY <1>3, <3>3, <3>4, <3>5
      <4>2. c[p[i - 1] + j] = b[p[i - 1] + j]
        BY <4>1 DEF Joins
      <4> QED
        BY <3>3, <4>2
    <3> QED
      BY <3>2, <3>3, <3>6
  <2> QED
    BY <2>1, <2>2
<1>8. HoldsAt(c, g2, n + 1, q)
  BY <1>4, <1>5, <1>6, <1>7 DEF HoldsAt
<1>9. \A i \in 1 .. n + 1 : g2[i] \in Bytes
  <2>1. \A i \in 1 .. n + 1 : i = n + 1 \/ i \in 1 .. n
    BY <1>1
  <2> QED
    BY <1>1, <2>1
<1>10. n + 1 \in Nat
  BY <1>1
<1> QED
  BY <1>3, <1>8, <1>9, <1>10 DEF Holds

(* The first frame is where the line begins. *)
LEMMA HoldsFirst ==
    ASSUME NEW b, NEW g, NEW n, Holds(b, g, n), n # 0
    PROVE  /\ g[1] \in Bytes /\ Len(g[1]) <= Len(b)
           /\ \A j \in 1 .. Len(g[1]) : b[j] = g[1][j]
<1>1. n \in Nat /\ 1 \in 1 .. n /\ 1 \in 0 .. n /\ g[1] \in Bytes
  BY DEF Holds
<1>2. PICK p : HoldsAt(b, g, n, p)
  BY DEF Holds
<1>3. p[1] <= Len(b)
  BY <1>1, <1>2, EndsAreWithin
<1>4. Len(g[1]) \in Nat
  BY <1>1, BytesAreASequence
<1>5. p[1] = p[1 - 1] + Len(g[1]) /\ p[0] = 0 /\ \A j \in 1 .. Len(g[1]) : b[p[1 - 1] + j] = g[1][j]
  BY <1>1, <1>2 DEF HoldsAt
<1>6. 1 - 1 = 0
  OBVIOUS
<1>7. p[1] = Len(g[1]) /\ \A j \in 1 .. Len(g[1]) : b[j] = g[1][j]
  BY <1>4, <1>5, <1>6
<1> QED
  BY <1>1, <1>3, <1>7

(* And the other frames are what is left without it. *)
IsRest(g2, g, n) == \A i \in 1 .. n - 1 : g2[i] = g[i + 1]

LEMMA HoldsRest ==
    ASSUME NEW b, NEW g, NEW n, Holds(b, g, n), n # 0,
           NEW c, c = SubSeq(b, Len(g[1]) + 1, Len(b)),
           NEW g2, IsRest(g2, g, n), NEW rest, rest = n - 1
    PROVE  Holds(c, g2, rest)
<1> SUFFICES Holds(c, g2, n - 1)
  OBVIOUS
<1>15. \A i \in 1 .. n - 1 : g2[i] = g[i + 1]
  BY DEF IsRest
<1>1. n \in Nat /\ n - 1 \in Nat /\ b \in Bytes /\ \A i \in 1 .. n : g[i] \in Bytes
  BY DEF Holds
<1> DEFINE l == Len(g[1])
<1>2. l \in Nat /\ l <= Len(b) /\ Len(b) \in Nat
  BY <1>1, HoldsFirst, BytesAreASequence
<1>3. Stretch(c, b, l + 1) /\ Len(c) = Len(b) - l
  <2>1. l + 1 \in Nat \ {0} /\ Len(b) \in Nat /\ Len(b) <= Len(b) /\ l + 1 <= Len(b) + 1
        /\ Len(b) + 1 - (l + 1) = Len(b) - l
    BY <1>2
  <2> HIDE DEF l
  <2> QED
    BY <1>1, <2>1, PartsAreBytes DEF l
<1>14. ASSUME NEW k \in 1 .. Len(c) PROVE c[k] = b[l + k]
  <2>1. c[k] = b[(l + 1) - 1 + k]
    BY <1>3, Zenon DEF Stretch
  <2>2. (l + 1) - 1 + k = l + k
    BY <1>2, <1>3
  <2> QED
    BY <2>1, <2>2
<1>4. PICK p : HoldsAt(b, g, n, p)
  BY DEF Holds
<1>5. p[1] = l
  <2>1. p[1] = p[1 - 1] + Len(g[1]) /\ p[0] = 0 /\ 1 - 1 = 0
    BY <1>1, <1>4 DEF HoldsAt
  <2> HIDE DEF l
  <2> QED
    BY <1>2, <2>1 DEF l
<1> HIDE DEF l
<1> DEFINE q == [i \in 0 .. n - 1 |-> p[i + 1] - l]
<1>6. \A i \in 0 .. n - 1 : q[i] = p[i + 1] - l
  OBVIOUS
<1> HIDE DEF q
<1>7. \A i \in 1 .. n - 1 : p[i + 1] = p[i] + Len(g[i + 1]) /\ p[i] \in Nat /\ p[i + 1] \in Nat
  <2> SUFFICES ASSUME NEW i \in 1 .. n - 1
               PROVE  p[i + 1] = p[i] + Len(g[i + 1]) /\ p[i] \in Nat /\ p[i + 1] \in Nat
    OBVIOUS
  <2>1. i + 1 \in 1 .. n /\ (i + 1) - 1 = i /\ i \in 0 .. n /\ i + 1 \in 0 .. n
    BY <1>1
  <2> QED
    BY <1>4, <2>1 DEF HoldsAt
<1>8. \A i \in 0 .. n - 1 : q[i] \in Nat
  <2> DEFINE G == {i \in 0 .. n - 1 : q[i] \in Nat}
  <2>1. 0 \in G
    <3>1. 0 \in 0 .. n - 1 /\ q[0] = p[0 + 1] - l /\ 0 + 1 = 1
      BY <1>1, <1>6
    <3> QED
      BY <1>2, <1>5, <3>1
  <2>2. ASSUME NEW i \in 0 .. (n - 1) - 1, i \in G PROVE i + 1 \in G
    <3>1. i + 1 \in 1 .. n - 1 /\ i + 1 \in 0 .. n - 1 /\ i \in 0 .. n - 1
          /\ (i + 1) + 1 \in 1 .. n
      BY <1>1
    <3>2. q[i] = p[i + 1] - l /\ q[i + 1] = p[(i + 1) + 1] - l
      BY <1>6, <3>1
    <3>3. /\ p[(i + 1) + 1] = p[i + 1] + Len(g[(i + 1) + 1]) /\ p[i + 1] \in Nat
          /\ p[(i + 1) + 1] \in Nat
      BY <1>7, <3>1
    <3>4. Len(g[(i + 1) + 1]) \in Nat
      BY <1>1, <3>1, BytesAreASequence
    <3>5. q[i] \in Nat
      BY <2>2
    <3>6. q[i + 1] = q[i] + Len(g[(i + 1) + 1])
      BY <1>2, <3>2, <3>3, <3>4
    <3> QED
      BY <3>1, <3>4, <3>5, <3>6
  <2> HIDE DEF G
  <2>3. \A i \in 0 .. n - 1 : i \in G
    BY <1>1, <2>1, <2>2, CountUp
  <2> QED
    BY <2>3 DEF G
<1>9. q[0] = 0 /\ q[n - 1] = Len(c)
  <2>1. 0 \in 0 .. n - 1 /\ n - 1 \in 0 .. n - 1 /\ (n - 1) + 1 = n /\ 0 + 1 = 1
    BY <1>1
  <2>2. p[n] = Len(b)
    BY <1>4 DEF HoldsAt
  <2>3. q[0] = p[1] - l
    BY <1>6, <2>1
  <2>4. q[n - 1] = p[n] - l
    BY <1>6, <2>1
  <2> QED
    BY <1>2, <1>3, <1>5, <2>2, <2>3, <2>4
<1>10. ASSUME NEW i \in 1 .. n - 1
       PROVE  /\ q[i] = q[i - 1] + Len(g2[i])
              /\ \A j \in 1 .. Len(g2[i]) : c[q[i - 1] + j] = g2[i][j]
  <2>1. i - 1 \in 0 .. n - 1 /\ i \in 0 .. n - 1 /\ (i - 1) + 1 = i /\ i + 1 \in 1 .. n
        /\ i + 1 \in 0 .. n
    BY <1>1
  <2>2. q[i - 1] = p[i] - l /\ q[i] = p[i + 1] - l /\ g2[i] = g[i + 1] /\ q[i - 1] \in Nat
    BY <1>6, <1>8, <1>15, <2>1
  <2>3. Len(g[i + 1]) \in Nat
    BY <1>1, <2>1, BytesAreASequence
  <2>4. q[i] = q[i - 1] + Len(g2[i])
    <3>1. p[i + 1] = p[i] + Len(g[i + 1]) /\ p[i] \in Nat
      BY <1>7
    <3>2. PICK x, y, z \in Nat : x = p[i] /\ y = Len(g[i + 1]) /\ z = l
      BY <1>2, <2>3, <3>1
    <3>3. (x + y) - z = (x - z) + y
      OBVIOUS
    <3>4. /\ q[i] = p[i + 1] - z /\ p[i + 1] = x + y
          /\ q[i - 1] = x - z /\ Len(g2[i]) = y
      BY <2>2, <3>1, <3>2
    <3> QED
      BY <3>3, <3>4
  <2>5. p[i + 1] <= Len(b)
    BY <1>4, <2>1, EndsAreWithin
  <2>6. ASSUME NEW j \in 1 .. Len(g[i + 1]) PROVE c[q[i - 1] + j] = g[i + 1][j]
    <3>0. p[i + 1] = p[i] + Len(g[i + 1]) /\ p[i] \in Nat /\ p[i + 1] \in Nat
      BY <1>7
    <3>1. q[i - 1] + j \in 1 .. Len(c)
      <4>1. q[i - 1] + j \in Nat /\ q[i - 1] + j >= 1
        BY <2>2, <2>3
      <4>2. q[i - 1] + j = (p[i] + j) - l
        BY <1>2, <2>2, <2>3, <3>0
      <4>3. p[i] + j <= Len(b)
        BY <1>2, <2>3, <2>5, <3>0
      <4>4. q[i - 1] + j <= Len(b) - l
        BY <1>2, <2>3, <3>0, <4>2, <4>3
      <4>5. Len(c) = Len(b) - l /\ Len(c) \in Int
        BY <1>2, <1>3
      <4>6. \A k \in Nat, e \in Int : k >= 1 /\ k <= e => k \in 1 .. e
        OBVIOUS
      <4> QED
        BY <4>1, <4>4, <4>5, <4>6
    <3> DEFINE k == q[i - 1] + j
    <3>2. k \in 1 .. Len(c)
      BY <3>1
    <3> HIDE DEF k
    <3>3. c[k] = b[l + k]
      BY <1>14, <3>2
    <3>4. l + k = p[i] + j
      <4>1. \A x, y, z, i0 \in Int : x = y - z => z + (x + i0) = y + i0
        OBVIOUS
      <4>2. q[i - 1] = p[i] - l /\ q[i - 1] \in Int /\ p[i] \in Int /\ l \in Int /\ j \in Int
        BY <1>2, <2>2, <3>0
      <4>3. k = q[i - 1] + j
        BY DEF k
      <4>4. PICK x, y \in Int : x = q[i - 1] /\ y = p[i]
        BY <4>2
      <4>5. l + (x + j) = y + j
        BY <4>1, <4>2, <4>4
      <4> QED
        BY <4>3, <4>4, <4>5
    <3>5. b[p[i] + j] = g[i + 1][j]
      <4>1. i + 1 \in 1 .. n /\ (i + 1) - 1 = i
        BY <1>1
      <4> QED
        BY <1>4, <4>1 DEF HoldsAt
    <3> QED
      BY <3>3, <3>4, <3>5 DEF k
  <2> QED
    BY <2>2, <2>4, <2>6
<1>11. HoldsAt(c, g2, n - 1, q)
  BY <1>8, <1>9, <1>10 DEF HoldsAt
<1>12. c \in Bytes
  BY <1>3 DEF Stretch
<1>13. \A i \in 1 .. n - 1 : g2[i] \in Bytes
  <2>1. \A i \in 1 .. n - 1 : i + 1 \in 1 .. n
    BY <1>1
  <2> QED
    BY <1>1, <1>15, <2>1
<1> QED
  BY <1>1, <1>11, <1>12, <1>13 DEF Holds

(* So many frames of at most so many bytes. *)
LEMMA HoldsAtMost ==
    ASSUME NEW b, NEW g, NEW n, Holds(b, g, n), NEW most \in Nat,
           \A i \in 1 .. n : Len(g[i]) <= most
    PROVE  Len(b) <= n * most
<1>1. n \in Nat /\ \A i \in 1 .. n : g[i] \in Bytes
  BY DEF Holds
<1>2. PICK p : HoldsAt(b, g, n, p)
  BY DEF Holds
<1> DEFINE G == {i \in 0 .. n : p[i] <= i * most}
<1>3. 0 \in G
  <2>1. p[0] = 0 /\ 0 <= 0 * most /\ 0 \in 0 .. n
    BY <1>1, <1>2 DEF HoldsAt
  <2> QED
    BY <2>1
<1>4. ASSUME NEW i \in 0 .. n - 1, i \in G PROVE i + 1 \in G
  <2>1. i + 1 \in 1 .. n /\ (i + 1) - 1 = i /\ i + 1 \in 0 .. n /\ i \in 0 .. n /\ i \in Nat
    BY <1>1
  <2>2. p[i + 1] = p[i] + Len(g[i + 1]) /\ p[i] \in Nat
    BY <1>2, <2>1 DEF HoldsAt
  <2>3. Len(g[i + 1]) <= most /\ Len(g[i + 1]) \in Nat
    BY <1>1, <2>1, BytesAreASequence
  <2>4. p[i] <= i * most
    BY <1>4
  <2>5. (i + 1) * most = i * most + most /\ i * most \in Nat
    BY <2>1
  <2>6. p[i + 1] <= (i + 1) * most
    BY <2>2, <2>3, <2>4, <2>5
  <2> QED
    BY <2>1, <2>6
<1> HIDE DEF G
<1>5. n \in G
  <2>1. \A i \in 0 .. n : i \in G
    BY <1>1, <1>3, <1>4, CountUp
  <2> QED
    BY <1>1, <2>1
<1>6. p[n] <= n * most
  BY <1>5 DEF G
<1> QED
  BY <1>2, <1>6 DEF HoldsAt

-----------------------------------------------------------------------------
(* What comes out of the accumulator                                       *)

Accumulators == [buf : Bytes, slid : Nat]
Extractions == [acc : Accumulators, frames : Seq(Bytes), more : BOOLEAN]

(* One round of the loop. *)
Extracted(st, stale) ==
    LET r == TryExtractFrame(st.acc, TRUE, stale)
    IN  IF ~st.more THEN st
        ELSE [acc |-> r.acc, more |-> r.frame # <<>>,
              frames |-> IF r.frame = <<>> THEN st.frames ELSE Append(st.frames, r.frame)]

AreRounds(h, base, n, A, stale) ==
    /\ h[0] = base
    /\ \A i \in 1 .. n : h[i] = Extracted(h[i - 1], stale)
    /\ \A i \in 0 .. n : h[i] \in A

GoesOnIn(A, stale) == \A st \in A : Extracted(st, stale) \in A
StartsFrom(base, acc0) == base = [acc |-> acc0, frames |-> <<>>, more |-> TRUE]
IsNumberOfRounds(n, acc0) == n \in Nat /\ n = 1 + Len(acc0.buf) \div 4

HasRounds(acc0, base, n, A, stale) ==
    \E h : AreRounds(h, base, n, A, stale) /\ ExtractAll(acc0, TRUE, stale) = h[n]

LEMMA RoundsOneByOne ==
    ASSUME NEW acc0, NEW stale, NEW A, GoesOnIn(A, stale),
           NEW base, base \in A, StartsFrom(base, acc0), NEW n, IsNumberOfRounds(n, acc0)
    PROVE  HasRounds(acc0, base, n, A, stale)
<1> DEFINE places == [i \in 1 .. n |-> i]
           Step(g, s) == IF s = {} THEN base ELSE Extracted(g[s \ {Max(s)}], stale)
           IsIter(g) == g = [s \in SUBSET (1 .. n) |-> Step(g, s)]
           iter == CHOOSE g : IsIter(g)
           F == [i \in 1 .. n |-> [st \in A |-> Extracted(st, stale)]]
<1>1. n \in Nat /\ base \in A
  BY DEF IsNumberOfRounds
<1>3. \A st \in A : Extracted(st, stale) \in A
  BY DEF GoesOnIn
<1>2. \A i \in 1 .. n : F[i] \in [A -> A] /\ \A st \in A : F[i][st] = Extracted(st, stale)
  BY <1>3
<1>4. ExtractAll(acc0, TRUE, stale) = iter[1 .. n]
  <2>1. ExtractAll(acc0, TRUE, stale) = FoldLeft(LAMBDA st, i : Extracted(st, stale), base, places)
    BY DEF ExtractAll, Extracted, StartsFrom, IsNumberOfRounds
  <2>2. DOMAIN places = 1 .. n
    OBVIOUS
  <2> HIDE DEF places
  <2>3. FoldLeft(LAMBDA st, i : Extracted(st, stale), base, places) = iter[1 .. n]
    BY <2>2 DEF FoldLeft, MapThenFoldSet
  <2> QED
    BY <2>1, <2>3
<1> HIDE DEF places, F
<1>5. ASSUME NEW s \in SUBSET (1 .. n), s # {} PROVE Max(s) \in 1 .. n /\ s \ {Max(s)} \in SUBSET (1 .. n)
  BY <1>1, <1>5, MaxIsGreatest
<1>6. \E g : IsIter(g)
  <2>1. PICK g : IsFold(g, F, base, n) /\ \A s \in SUBSET (1 .. n) : g[s] \in A
    BY <1>1, <1>2, FoldExists
  <2>2. \A s \in SUBSET (1 .. n) : FoldStep(g, F, base, s) = Step(g, s)
    BY <1>2, <1>5, <2>1 DEF FoldStep
  <2>3. IsIter(g)
    BY <2>1, <2>2 DEF IsFold
  <2> QED
    BY <2>3
<1>7. IsIter(iter)
  BY <1>6
<1> HIDE DEF iter
<1>8. iter[{}] = base
  BY <1>7
<1>9. FoldsOver(iter, F, base, A, n)
  <2>1. ASSUME NEW s \in SUBSET (1 .. n), s # {}, iter[s \ {Max(s)}] \in A
        PROVE  iter[s] = F[Max(s)][iter[s \ {Max(s)}]]
    BY <1>2, <1>5, <1>7, <2>1
  <2> QED
    BY <1>8, <2>1 DEF FoldsOver
<1> HIDE DEF IsIter, Step
<1>10. PICK h : IsRun(h, F, base, A, n) /\ iter[1 .. n] = h[n]
  BY <1>1, <1>2, <1>9, FoldUnwinds
<1>11. \A i \in 1 .. n : h[i] = Extracted(h[i - 1], stale)
  <2>1. \A i \in 1 .. n : i - 1 \in 0 .. n
    BY <1>1
  <2> QED
    BY <1>2, <1>10, <2>1 DEF IsRun
<1> QED
  BY <1>4, <1>10, <1>11 DEF HasRounds, AreRounds, IsRun

(* The frame of an answer that the accumulator has room for. *)
Whole(f) == \E s : Shaped(s.pdu) /\ IsFrameOf(f, s) /\ Len(f) <= kCapacity

LEMMA WholeFrames ==
    ASSUME NEW f, Whole(f)
    PROVE  f \in Bytes /\ Len(f) \in Nat /\ Len(f) >= 9
<1>1. PICK s : Shaped(s.pdu) /\ IsFrameOf(f, s)
  BY DEF Whole
<1>2. f \in Bytes /\ Len(f) = 7 + Len(s.pdu)
  BY <1>1 DEF IsFrameOf
<1>3. Len(s.pdu) \in Nat /\ Len(s.pdu) >= 2
  BY <1>1, BytesAreASequence DEF Shaped
<1> QED
  BY <1>2, <1>3

(* What has come of a line is the beginning of its first frame. *)
LEMMA LineStarts ==
    ASSUME NEW s, NEW u \in Bytes, NEW v, Joins(s, u, v), NEW g, NEW n, Holds(s, g, n), n # 0
    PROVE  Starts(u, g[1])
<1>1. \A j \in 1 .. Len(g[1]) : s[j] = g[1][j]
  BY HoldsFirst
<1>2. \A i \in 1 .. Len(u) : s[i] = u[i]
  BY DEF Joins
<1>3. g[1] \in Bytes
  BY HoldsFirst
<1>4. Len(u) \in Nat /\ Len(g[1]) \in Nat
  BY <1>3, BytesAreASequence
<1> QED
  BY <1>1, <1>2, <1>4 DEF Starts

(* A frame taken off the bytes that have come is taken off the line. *)
LEMMA TakenOffTheLine ==
    ASSUME NEW s, NEW u \in Bytes, NEW v \in Bytes, Joins(s, u, v), NEW l \in Nat, l <= Len(u)
    PROVE  Joins(SubSeq(s, l + 1, Len(s)), SubSeq(u, l + 1, Len(u)), v)
<1> DEFINE s2 == SubSeq(s, l + 1, Len(s))
           u2 == SubSeq(u, l + 1, Len(u))
<1>1. /\ s \in Bytes /\ Len(s) = Len(u) + Len(v)
      /\ \A i \in 1 .. Len(u) : s[i] = u[i]
      /\ \A i \in 1 .. Len(v) : s[Len(u) + i] = v[i]
  BY DEF Joins
<1>2. Len(s) \in Nat /\ Len(u) \in Nat /\ Len(v) \in Nat
  BY <1>1, BytesAreASequence
<1>3. /\ l + 1 \in Nat \ {0} /\ l + 1 <= Len(u) + 1 /\ l + 1 <= Len(s) + 1
      /\ Len(u) <= Len(u) /\ Len(s) <= Len(s)
      /\ Len(u) + 1 - (l + 1) = Len(u) - l /\ Len(s) + 1 - (l + 1) = Len(s) - l
      /\ l + 1 - 1 = l
  BY <1>1, <1>2
<1> HIDE DEF s2, u2
<1>4. Stretch(s2, s, l + 1) /\ Len(s2) = Len(s) - l
  BY <1>1, <1>2, <1>3, PartsAreBytes DEF s2
<1>5. Stretch(u2, u, l + 1) /\ Len(u2) = Len(u) - l
  BY <1>2, <1>3, PartsAreBytes DEF u2
<1>6. s2 \in Bytes /\ \A i \in 1 .. Len(s2) : s2[i] = s[l + i]
  BY <1>3, <1>4 DEF Stretch
<1>7. u2 \in Bytes /\ \A i \in 1 .. Len(u2) : u2[i] = u[l + i]
  BY <1>3, <1>5 DEF Stretch
<1>8. Len(s2) = Len(u2) + Len(v) /\ Len(u2) \in Nat
  BY <1>1, <1>2, <1>4, <1>5
<1>9. ASSUME NEW i \in 1 .. Len(u2) PROVE s2[i] = u2[i]
  <2>1. i \in 1 .. Len(s2) /\ l + i \in 1 .. Len(u)
    BY <1>2, <1>5, <1>8
  <2> QED
    BY <1>1, <1>6, <1>7, <2>1
<1>10. ASSUME NEW i \in 1 .. Len(v) PROVE s2[Len(u2) + i] = v[i]
  <2>1. Len(u2) + i \in 1 .. Len(s2) /\ l + (Len(u2) + i) = Len(u) + i
    BY <1>2, <1>5, <1>8
  <2> QED
    BY <1>1, <1>6, <2>1
<1>11. Joins(s2, u2, v)
  BY <1>6, <1>8, <1>9, <1>10 DEF Joins
<1> QED
  BY <1>11 DEF s2, u2

(* The frames after the first j. *)
After(g, j, n) == [i \in 1 .. n - j |-> g[i + j]]

(* What is on the line when some of the n frames in g have been taken.     *)
StillThere(g, j, n, u, v) == \E s : Joins(s, u, v) /\ Holds(s, After(g, j, n), n - j)

(* Between two rounds: what has been taken, what is left, and when it ends. *)
Between(st, g, n, v, total) ==
    /\ st \in Extractions
    /\ Len(st.frames) <= n
    /\ \A i \in 1 .. Len(st.frames) : st.frames[i] = g[i]
    /\ StillThere(g, Len(st.frames), n, st.acc.buf, v)
    /\ ~st.more /\ Len(st.frames) < n => Len(st.acc.buf) < Len(g[Len(st.frames) + 1])
    /\ Len(st.acc.buf) + 9 * Len(st.frames) <= total

LEMMA FirstBytes ==
    ASSUME NEW u \in Bytes, NEW l \in Nat, l <= Len(u)
    PROVE  Stretch(SubSeq(u, 1, l), u, 1) /\ Len(SubSeq(u, 1, l)) = l
<1>1. PICK one \in Nat \ {0} : one = 1
  OBVIOUS
<1>2. one <= l + 1 /\ l + 1 - one = l
  BY <1>1
<1>3. Stretch(SubSeq(u, one, l), u, one) /\ Len(SubSeq(u, one, l)) = l + 1 - one
  BY <1>2, PartsAreBytes
<1> QED
  BY <1>1, <1>2, <1>3

LEMMA RoundTakesAFrame ==
    ASSUME NEW stale \in {0, 128}, NEW n \in Nat, NEW g, \A i \in 1 .. n : Whole(g[i]),
           NEW v \in Bytes, NEW total \in Nat, NEW st, Between(st, g, n, v, total)
    PROVE  /\ Between(Extracted(st, stale), g, n, v, total)
           /\ Extracted(st, stale).more => st.more /\ Len(Extracted(st, stale).frames) = Len(st.frames) + 1
<1> DEFINE j == Len(st.frames)
           u == st.acc.buf
           r == TryExtractFrame(st.acc, TRUE, stale)
           next == Extracted(st, stale)
<1>1. /\ st \in Extractions /\ st.acc \in Accumulators /\ u \in Bytes /\ st.acc.slid \in Nat
      /\ st.frames \in Seq(Bytes) /\ st.more \in BOOLEAN /\ j \in Nat /\ Len(u) \in Nat
      /\ st.acc = [buf |-> u, slid |-> st.acc.slid]
      /\ st = [acc |-> st.acc, frames |-> st.frames, more |-> st.more]
  <2>1. st \in Extractions
    BY DEF Between
  <2>2. st.acc \in Accumulators /\ st.frames \in Seq(Bytes) /\ st.more \in BOOLEAN
        /\ st = [acc |-> st.acc, frames |-> st.frames, more |-> st.more]
    BY <2>1 DEF Extractions
  <2>3. u \in Bytes /\ st.acc.slid \in Nat /\ st.acc = [buf |-> u, slid |-> st.acc.slid]
    BY <2>2 DEF Accumulators
  <2> QED
    BY <2>1, <2>2, <2>3, BytesAreASequence
<1>2. /\ j <= n /\ \A i \in 1 .. j : st.frames[i] = g[i]
      /\ ~st.more /\ j < n => Len(u) < Len(g[j + 1])
      /\ Len(u) + 9 * j <= total
  BY DEF Between
<1>3. PICK s : Joins(s, u, v) /\ Holds(s, After(g, j, n), n - j)
  BY DEF Between, StillThere
<1>8. /\ next = IF ~st.more THEN st
                ELSE [acc |-> r.acc, more |-> r.frame # <<>>,
                      frames |-> IF r.frame = <<>> THEN st.frames ELSE Append(st.frames, r.frame)]
      /\ j = Len(st.frames)
  BY DEF Extracted
<1> HIDE DEF u, r, next, j
<1>4. CASE ~st.more
  <2>1. next = st
    BY <1>4, <1>8
  <2> QED
    BY <1>4, <2>1 DEF next
<1>5. CASE st.more /\ r = Waiting(st.acc) /\ (j < n => Len(u) < Len(g[j + 1]))
  <2>1. next = [acc |-> st.acc, more |-> FALSE, frames |-> st.frames]
    <3>1. r.acc = st.acc /\ r.frame = <<>>
      BY <1>5 DEF Waiting
    <3> QED
      BY <1>5, <1>8, <3>1
  <2>2. next \in Extractions
    BY <1>1, <2>1 DEF Extractions
  <2>3. next.frames = st.frames /\ next.acc = st.acc /\ next.more = FALSE
    BY <2>1
  <2>4. StillThere(g, j, n, u, v)
    BY <1>3 DEF StillThere
  <2>5. Between(next, g, n, v, total)
    BY <1>2, <1>5, <1>8, <2>2, <2>3, <2>4 DEF Between, u
  <2> QED
    BY <2>3, <2>5 DEF next
<1>6. CASE st.more /\ j = n
  <2>1. n - j = 0
    BY <1>1, <1>6
  <2>2. Len(s) = 0
    BY <1>3, <2>1, HoldsNone
  <2>3. Len(u) = 0
    <3>1. Len(s) = Len(u) + Len(v)
      BY <1>3 DEF Joins
    <3>2. Len(v) \in Nat
      BY BytesAreASequence
    <3>3. \A x, y \in Nat : 0 = x + y => x = 0
      OBVIOUS
    <3>4. Len(u) \in Nat
      BY <1>1
    <3> QED
      BY <2>2, <3>1, <3>2, <3>3, <3>4
  <2>4. r = Waiting(st.acc)
    BY <2>3 DEF r, u, TryExtractFrame
  <2> QED
    BY <1>1, <1>5, <1>6, <2>4
<1>7. CASE st.more /\ j # n
  <2> DEFINE f == g[j + 1]
             h == After(g, j, n)
             l == Len(f)
  <2>1. j < n /\ j + 1 \in 1 .. n /\ n - j \in Nat /\ n - j # 0 /\ 1 \in 1 .. n - j /\ 1 + j = j + 1
    BY <1>1, <1>2, <1>7
  <2>2. h[1] = f
    BY <2>1 DEF After
  <2>3. Whole(f)
    BY <2>1
  <2> HIDE DEF f, h
  <2>4. f \in Bytes /\ l \in Nat /\ l >= 9
    BY <2>3, WholeFrames
  <2> HIDE DEF l
  <2>5. Joins(s, u, v) /\ Holds(s, h, n - j)
    BY <1>3 DEF h
  <2>6. Starts(u, f)
    BY <1>1, <2>1, <2>2, <2>5, LineStarts
  <2>7. Takes(st.acc, stale, f)
    <3>1. PICK a : Shaped(a.pdu) /\ IsFrameOf(f, a) /\ Len(f) <= kCapacity
      BY <2>3 DEF Whole
    <3> QED
      BY <1>1, <2>6, <3>1, FramesAreTaken DEF u
  <2>8. CASE Len(u) < l
    <3>1. r = Waiting(st.acc)
      BY <2>7, <2>8 DEF Takes, r, u, l
    <3> QED
      BY <1>5, <1>7, <2>8, <3>1 DEF l, f
  <2>9. CASE ~(Len(u) < l)
    <3> DEFINE first == SubSeq(u, 1, l)
               left == SubSeq(u, l + 1, Len(u))
    <3>1. r = [acc |-> [buf |-> left, slid |-> 0], frame |-> first]
      BY <2>7, <2>9 DEF Takes, r, u, l, Popped
    <3>2. /\ 1 \in Nat \ {0} /\ l <= Len(u) /\ 1 <= l + 1 /\ l + 1 - 1 = l
          /\ l + 1 \in Nat \ {0} /\ Len(u) <= Len(u) /\ l + 1 <= Len(u) + 1
          /\ Len(u) + 1 - (l + 1) = Len(u) - l
      BY <1>1, <2>4, <2>9
    <3> HIDE DEF first, left
    <3>3. Stretch(first, u, 1) /\ Len(first) = l
      <4>1. u \in Bytes
        BY <1>1
      <4> QED
        BY <2>4, <3>2, <4>1, FirstBytes DEF first
    <3>4. Stretch(left, u, l + 1) /\ Len(left) = Len(u) - l
      <4>1. PICK d \in Bytes, m \in Nat, k \in Nat \ {0} : d = u /\ m = Len(u) /\ k = l + 1
        BY <1>1, <3>2
      <4>2. k <= m + 1 /\ m <= Len(d) /\ m + 1 - k = Len(u) - l
        BY <3>2, <4>1
      <4>3. Stretch(SubSeq(d, k, m), d, k) /\ Len(SubSeq(d, k, m)) = m + 1 - k
        BY <4>2, PartsAreBytes
      <4>4. left = SubSeq(d, k, m)
        BY <4>1 DEF left
      <4> QED
        BY <4>1, <4>2, <4>3, <4>4
    <3>5. left \in Bytes /\ first \in Bytes /\ \A i \in 1 .. l : first[i] = u[1 - 1 + i]
      BY <3>3, <3>4 DEF Stretch
    <3>6. first = f
      <4>1. \A i \in 1 .. l : u[i] = f[i]
        BY <1>1, <2>4, <2>6, <2>9 DEF Starts, l
      <4>2. \A i \in 1 .. l : 1 - 1 + i = i
        BY <2>4
      <4>3. \A i \in 1 .. l : first[i] = f[i]
        BY <3>5, <4>1, <4>2
      <4> QED
        BY <2>4, <3>3, <3>5, <4>3 DEF Bytes, l
    <3>7. first # <<>>
      BY <2>4, <3>3
    <3>8. next = [acc |-> [buf |-> left, slid |-> 0], more |-> TRUE, frames |-> Append(st.frames, f)]
      BY <1>7, <1>8, <3>1, <3>6, <3>7
    <3>9. /\ next.acc.buf = left /\ next.more = TRUE /\ next.frames = Append(st.frames, f)
          /\ Len(next.frames) = j + 1
      <4>1. st.frames \in Seq(Bytes) /\ j = Len(st.frames)
        BY <1>1, <1>8
      <4>2. Len(Append(st.frames, f)) = j + 1
        BY <2>4, <4>1
      <4>3. next.acc.buf = left /\ next.more = TRUE /\ next.frames = Append(st.frames, f)
        BY <3>8
      <4> QED
        BY <4>2, <4>3
    <3>10. next \in Extractions
      <4>1. [buf |-> left, slid |-> 0] \in Accumulators
        BY <3>5 DEF Accumulators
      <4>2. Append(st.frames, f) \in Seq(Bytes)
        BY <1>1, <2>4
      <4> QED
        BY <3>8, <4>1, <4>2 DEF Extractions
    <3>11. \A i \in 1 .. j + 1 : next.frames[i] = g[i]
      <4>1. \A i \in 1 .. j + 1 : i = j + 1 \/ i \in 1 .. j
        BY <1>1
      <4>2. next.frames[j + 1] = f /\ \A i \in 1 .. j : next.frames[i] = st.frames[i]
        BY <1>1, <3>9
      <4> QED
        BY <1>2, <4>1, <4>2 DEF f
    <3>12. StillThere(g, j + 1, n, left, v)
      <4> DEFINE s2 == SubSeq(s, l + 1, Len(s))
                 h2 == After(g, j + 1, n)
      <4>1. Joins(s2, left, v)
        BY <1>1, <2>4, <2>5, <3>2, TakenOffTheLine DEF left
      <4> HIDE DEF h2
      <4>2. n - (j + 1) = (n - j) - 1
        BY <1>1
      <4>3. \A i \in 1 .. (n - j) - 1 : h2[i] = h[i + 1]
        <5>1. \A i \in 1 .. (n - j) - 1 :
                 i + 1 \in 1 .. n - j /\ (i + 1) + j = i + (j + 1) /\ i \in 1 .. n - (j + 1)
          <6>1. j \in Nat
            BY <1>1
          <6> QED
            BY <6>1
        <5> QED
          BY <5>1 DEF h, h2, After
      <4>4. s2 = SubSeq(s, Len(h[1]) + 1, Len(s))
        BY <2>2 DEF l
      <4> HIDE DEF s2
      <4>5. Holds(s2, h2, (n - j) - 1)
        <5> DEFINE N == n - j
        <5>1. Holds(s, h, N) /\ N # 0 /\ IsRest(h2, h, N)
          BY <2>1, <2>5, <4>3 DEF IsRest
        <5> HIDE DEF N
        <5>2. PICK rest : rest = N - 1
          OBVIOUS
        <5>3. Holds(s2, h2, rest)
          BY <4>4, <5>1, <5>2, HoldsRest
        <5> QED
          BY <5>2, <5>3 DEF N
      <4> QED
        BY <4>1, <4>2, <4>5 DEF StillThere, h2
    <3>13. Len(left) + 9 * (j + 1) <= total
      BY <1>1, <1>2, <2>4, <3>4
    <3>15. j + 1 <= n
      <4>1. j \in Nat /\ j < n
        BY <1>1, <2>1
      <4> QED
        BY <4>1
    <3>14. Between(next, g, n, v, total)
      BY <3>15, <3>9, <3>10, <3>11, <3>12, <3>13 DEF Between
    <3> QED
      BY <1>7, <1>8, <3>9, <3>14 DEF next
  <2> QED
    BY <1>1, <2>4, <2>8, <2>9
<1> QED
  BY <1>1, <1>4, <1>6, <1>7

(* All frames that have come in whole are taken, in their order. *)
AllTaken(r, g, n, v) == (\E total \in Nat : Between(r, g, n, v, total)) /\ r.more = FALSE

LEMMA WholeFramesAreTaken ==
    ASSUME NEW stale \in {0, 128}, NEW n \in Nat, NEW g, \A i \in 1 .. n : Whole(g[i]),
           NEW v \in Bytes, NEW acc0 \in Accumulators, StillThere(g, 0, n, acc0.buf, v)
    PROVE  AllTaken(ExtractAll(acc0, TRUE, stale), g, n, v)
<1> DEFINE total == Len(acc0.buf)
           rounds == 1 + total \div 4
           base == [acc |-> acc0, frames |-> <<>>, more |-> TRUE]
           A == {st \in Extractions : Between(st, g, n, v, total)}
           r == ExtractAll(acc0, TRUE, stale)
<1>1. acc0.buf \in Bytes /\ total \in Nat
  BY BytesAreASequence DEF Accumulators
<1> HIDE DEF r
<1>2. base \in A
  <2>1. base \in Extractions
    BY DEF Extractions
  <2>2. base.frames = <<>> /\ Len(base.frames) = 0 /\ base.acc = acc0 /\ base.more = TRUE
    OBVIOUS
  <2> HIDE DEF base
  <2>3. total + 9 * 0 <= total
    BY <1>1
  <2>4. \A i \in 1 .. 0 : FALSE
    OBVIOUS
  <2>5. Between(base, g, n, v, total)
    BY <1>1, <2>1, <2>2, <2>3, <2>4 DEF Between
  <2> QED
    BY <2>1, <2>5
<1>3. \A st \in A : Extracted(st, stale) \in A
  <2>1. SUFFICES ASSUME NEW st \in A PROVE Extracted(st, stale) \in A
    OBVIOUS
  <2>2. Between(st, g, n, v, total)
    BY <2>1
  <2> DEFINE next == Extracted(st, stale)
  <2>3. Between(next, g, n, v, total)
    BY <1>1, <2>2, RoundTakesAFrame
  <2> HIDE DEF next
  <2> QED
    BY <2>3 DEF Between, next
<1>4. rounds \in Nat
  <2>1. \A x \in Nat : 1 + x \div 4 \in Nat
    OBVIOUS
  <2> HIDE DEF total
  <2> QED
    BY <1>1, <2>1
<1>14. base = [acc |-> acc0, frames |-> <<>>, more |-> TRUE] /\ rounds = 1 + Len(acc0.buf) \div 4
  OBVIOUS
<1> HIDE DEF A, base, total, rounds
<1>5. PICK h : /\ h[0] = base
               /\ \A i \in 1 .. rounds : h[i] = Extracted(h[i - 1], stale)
               /\ \A i \in 0 .. rounds : h[i] \in A
               /\ r = h[rounds]
  <2>1. GoesOnIn(A, stale) /\ StartsFrom(base, acc0) /\ IsNumberOfRounds(rounds, acc0)
    BY <1>3, <1>4, <1>14 DEF GoesOnIn, StartsFrom, IsNumberOfRounds
  <2>2. HasRounds(acc0, base, rounds, A, stale)
    BY <1>2, <2>1, RoundsOneByOne
  <2> QED
    BY <2>2 DEF HasRounds, AreRounds, r
<1> DEFINE G == {i \in 0 .. rounds : h[i].more => Len(h[i].frames) = i}
<1>6. 0 \in G
  <2>1. Len(base.frames) = 0
    BY DEF base
  <2>2. 0 \in 0 .. rounds
    BY <1>4
  <2> QED
    BY <1>5, <2>1, <2>2
<1>7. ASSUME NEW i \in 0 .. rounds - 1, i \in G PROVE i + 1 \in G
  <2>1. i \in 0 .. rounds /\ i + 1 \in 1 .. rounds /\ (i + 1) - 1 = i /\ i + 1 \in 0 .. rounds
    BY <1>4
  <2>2. h[i + 1] = Extracted(h[i], stale) /\ h[i] \in A
    BY <1>5, <2>1
  <2>3. Between(h[i], g, n, v, total)
    BY <2>2 DEF A
  <2>4. h[i + 1].more => h[i].more /\ Len(h[i + 1].frames) = Len(h[i].frames) + 1
    <3> DEFINE st == h[i]
               next == h[i + 1]
    <3>1. next = Extracted(st, stale) /\ Between(st, g, n, v, total) /\ total \in Nat
      BY <1>1, <2>2, <2>3 DEF total
    <3> HIDE DEF st, next
    <3>2. Extracted(st, stale).more => st.more /\ Len(Extracted(st, stale).frames) = Len(st.frames) + 1
      BY <3>1, RoundTakesAFrame
    <3>3. next.more => st.more /\ Len(next.frames) = Len(st.frames) + 1
      BY <3>1, <3>2
    <3> QED
      BY <3>3 DEF st, next
  <2>5. h[i].more => Len(h[i].frames) = i
    BY <1>7
  <2>6. h[i + 1].more => Len(h[i + 1].frames) = i + 1
    BY <2>4, <2>5
  <2> QED
    BY <2>1, <2>6
<1>8. rounds \in G
  <2> HIDE DEF G
  <2>1. \A i \in 0 .. rounds : i \in G
    BY <1>4, <1>6, <1>7, CountUp
  <2> QED
    BY <1>4, <2>1
<1>9. r \in A /\ (r.more => Len(r.frames) = rounds)
  <2>1. rounds \in 0 .. rounds
    BY <1>4
  <2> QED
    BY <1>5, <1>8, <2>1
<1>10. Between(r, g, n, v, total) /\ r \in Extractions
  BY <1>9 DEF A
<1>11. r.more \in BOOLEAN /\ r.acc.buf \in Bytes
  <2>1. r.more \in BOOLEAN /\ r.acc \in Accumulators
    BY <1>10 DEF Extractions
  <2> QED
    BY <2>1 DEF Accumulators
<1>12. ~r.more
  <2>1. SUFFICES ASSUME r.more PROVE FALSE
    OBVIOUS
  <2>2. Len(r.frames) = rounds
    BY <1>9, <2>1
  <2>3. Len(r.acc.buf) + 9 * Len(r.frames) <= total
    BY <1>10 DEF Between
  <2>4. Len(r.acc.buf) \in Nat
    BY <1>11, BytesAreASequence
  <2>5. rounds = 1 + total \div 4 /\ total \in Nat
    BY <1>1 DEF rounds, total
  <2>7. total < Len(r.acc.buf) + 9 * rounds
    <3>1. \A x, y \in Nat : y + 9 * (1 + x \div 4) > x
      OBVIOUS
    <3> QED
      BY <2>4, <2>5, <3>1
  <2>8. Len(r.acc.buf) + 9 * rounds <= total
    BY <2>2, <2>3
  <2>11. Len(r.acc.buf) + 9 * rounds \in Int
    BY <1>4, <2>4
  <2>9. PICK y \in Int : y = Len(r.acc.buf) + 9 * rounds
    BY <2>11
  <2>10. total < y /\ y <= total
    BY <2>7, <2>8, <2>9
  <2> QED
    BY <2>5, <2>10
<1>13. AllTaken(r, g, n, v)
  <2>1. total \in Nat
    BY <1>1 DEF total
  <2> QED
    BY <1>10, <1>11, <1>12, <2>1 DEF AllTaken
<1> QED
  BY <1>13 DEF r

(* A piece of what is under way arrives, and nothing is pushed out.         *)
Arrives(acc1, left, s) ==
    /\ acc1 \in Accumulators /\ left \in Bytes
    /\ Joins(s, acc1.buf, left)

LEMMA PiecesArrive ==
    ASSUME NEW acc0 \in Accumulators, NEW v \in Bytes, NEW s, Joins(s, acc0.buf, v),
           Len(s) <= kCapacity, NEW n \in Nat, n <= Len(v)
    PROVE  Arrives(Appended(acc0, SubSeq(v, 1, n)), SubSeq(v, n + 1, Len(v)), s)
<1> DEFINE u == acc0.buf
           piece == SubSeq(v, 1, n)
           left == SubSeq(v, n + 1, Len(v))
           all == Cat(u, piece)
           acc1 == Appended(acc0, piece)
<1>1. u \in Bytes /\ Len(u) \in Nat /\ Len(v) \in Nat /\ acc0.slid \in Nat
      /\ acc0 = [buf |-> u, slid |-> acc0.slid]
  BY BytesAreASequence DEF Accumulators
<1>2. /\ s \in Bytes /\ Len(s) = Len(u) + Len(v)
      /\ \A i \in 1 .. Len(u) : s[i] = u[i]
      /\ \A i \in 1 .. Len(v) : s[Len(u) + i] = v[i]
  BY DEF Joins
<1> HIDE DEF u, left, acc1
<1>3. Stretch(piece, v, 1) /\ Len(piece) = n
  BY FirstBytes
<1>4. Stretch(left, v, n + 1) /\ Len(left) = Len(v) - n
  <2>1. n + 1 \in Nat \ {0} /\ Len(v) <= Len(v) /\ n + 1 <= Len(v) + 1
        /\ Len(v) + 1 - (n + 1) = Len(v) - n
    BY <1>1
  <2> QED
    BY <1>1, <2>1, PartsAreBytes DEF left
<1> HIDE DEF piece
<1>5. piece \in Bytes /\ \A i \in 1 .. n : piece[i] = v[i]
  <2>1. \A i \in 1 .. n : 1 - 1 + i = i
    OBVIOUS
  <2> QED
    BY <1>3, <2>1 DEF Stretch
<1>6. left \in Bytes /\ \A i \in 1 .. Len(v) - n : left[i] = v[n + i]
  <2>1. n + 1 - 1 = n
    OBVIOUS
  <2> QED
    BY <1>4, <2>1 DEF Stretch
<1>7. Joins(all, u, piece)
  BY <1>1, <1>5, CatJoins
<1> HIDE DEF all
<1>8. /\ all \in Bytes /\ Len(all) = Len(u) + n
      /\ \A i \in 1 .. Len(u) : all[i] = u[i]
      /\ \A i \in 1 .. n : all[Len(u) + i] = v[i]
  BY <1>3, <1>5, <1>7 DEF Joins
<1>9. acc1 = [buf |-> all, slid |-> acc0.slid]
  <2> DEFINE over == IF Len(all) > kCapacity THEN Len(all) - kCapacity ELSE 0
             whole == SubSeq(all, over + 1, Len(all))
  <2>1. acc1 = [acc0 EXCEPT !.buf = whole]
    BY DEF acc1, Appended, all, Cat, u
  <2>2. over + 1 = 1
    <3>1. kCapacity \in Nat
      BY CapacityAssumption
    <3>2. ~(Len(all) > kCapacity)
      BY <1>1, <1>2, <1>8, <3>1
    <3> QED
      BY <3>2
  <2>3. whole = SubSeq(all, 1, Len(all))
    BY <2>2
  <2> HIDE DEF over, whole
  <2>4. Len(all) \in Nat /\ Len(all) <= Len(all)
    BY <1>1, <1>8
  <2>5. Stretch(whole, all, 1) /\ Len(whole) = Len(all)
    BY <1>8, <2>3, <2>4, FirstBytes
  <2>6. whole \in Bytes /\ \A i \in 1 .. Len(all) : whole[i] = all[i]
    <3>1. \A i \in 1 .. Len(all) : 1 - 1 + i = i
      BY <2>4
    <3> QED
      BY <2>5, <3>1 DEF Stretch
  <2>7. whole = all
    BY <1>8, <2>5, <2>6 DEF Bytes
  <2> QED
    BY <1>1, <2>1, <2>7
<1>10. acc1 \in Accumulators /\ acc1.buf = all
  BY <1>1, <1>8, <1>9 DEF Accumulators
<1>11. Len(s) = Len(all) + Len(left)
  BY <1>1, <1>2, <1>4, <1>8
<1>12. ASSUME NEW i \in 1 .. Len(all) PROVE s[i] = all[i]
  <2>1. CASE i <= Len(u)
    <3>1. i \in 1 .. Len(u)
      BY <1>1, <1>8, <2>1
    <3> QED
      BY <1>2, <1>8, <3>1
  <2>2. CASE ~(i <= Len(u))
    <3>1. PICK k \in 1 .. n : i = Len(u) + k
      <4>1. i - Len(u) \in 1 .. n /\ i = Len(u) + (i - Len(u))
        BY <1>1, <1>8, <2>2
      <4> QED
        BY <4>1
    <3>2. k \in 1 .. Len(v)
      BY <1>1
    <3> QED
      BY <1>2, <1>8, <3>1, <3>2
  <2> QED
    BY <2>1, <2>2
<1>13. ASSUME NEW i \in 1 .. Len(left) PROVE s[Len(all) + i] = left[i]
  <2>1. n + i \in 1 .. Len(v) /\ Len(all) + i = Len(u) + (n + i) /\ i \in 1 .. Len(v) - n
    BY <1>1, <1>4, <1>8
  <2> QED
    BY <1>2, <1>6, <2>1
<1>14. Joins(s, all, left)
  BY <1>2, <1>11, <1>12, <1>13 DEF Joins
<1>15. Arrives(acc1, left, s)
  BY <1>6, <1>10, <1>14 DEF Arrives
<1> QED
  BY <1>15 DEF acc1, left, piece

-----------------------------------------------------------------------------
(* What is reported                                                        *)

AreReports(h, base, frames, A) ==
    /\ h[0] = base
    /\ \A i \in 1 .. Len(frames) : h[i] = ReportOf(h[i - 1], frames[i])
    /\ \A i \in 0 .. Len(frames) : h[i] \in A
HasReports(base, frames, A) == \E h : AreReports(h, base, frames, A) /\ ReportsOf(frames) = h[Len(frames)]
ReportsStayIn(A, frames) == \A st \in A, i \in 1 .. Len(frames) : ReportOf(st, frames[i]) \in A
AreFrames(frames) == Len(frames) \in Nat /\ DOMAIN frames = 1 .. Len(frames)
IsStart(base) == base = [inFlight |-> inFlight, got |-> got]

LEMMA ReportsOneByOne ==
    ASSUME Tcp, NEW frames, AreFrames(frames), NEW A, ReportsStayIn(A, frames),
           NEW base, base \in A, IsStart(base)
    PROVE  HasReports(base, frames, A)
<1> DEFINE n == Len(frames)
           Step(g, s) == IF s = {} THEN base ELSE ReportOf(g[s \ {Max(s)}], frames[Max(s)])
           IsIter(g) == g = [s \in SUBSET (1 .. n) |-> Step(g, s)]
           iter == CHOOSE g : IsIter(g)
           F == [i \in 1 .. n |-> [st \in A |-> ReportOf(st, frames[i])]]
<1>1. n \in Nat /\ DOMAIN frames = 1 .. n /\ base \in A
  BY DEF AreFrames
<1>3. \A st \in A, i \in 1 .. n : ReportOf(st, frames[i]) \in A
  BY DEF ReportsStayIn
<1>2. \A i \in 1 .. n : F[i] \in [A -> A] /\ \A st \in A : F[i][st] = ReportOf(st, frames[i])
  BY <1>3
<1>4. ReportsOf(frames) = iter[1 .. n]
  <2>1. ReportsOf(frames) = FoldLeft(LAMBDA st, f : ReportOf(st, f), base, frames)
    BY DEF ReportsOf, IsStart
  <2>2. FoldLeft(LAMBDA st, f : ReportOf(st, f), base, frames) = iter[1 .. n]
    BY <1>1 DEF FoldLeft, MapThenFoldSet
  <2> QED
    BY <2>1, <2>2
<1> HIDE DEF F, n
<1>5. ASSUME NEW s \in SUBSET (1 .. n), s # {} PROVE Max(s) \in 1 .. n /\ s \ {Max(s)} \in SUBSET (1 .. n)
  BY <1>1, <1>5, MaxIsGreatest
<1>6. \E g : IsIter(g)
  <2>1. PICK g : IsFold(g, F, base, n) /\ \A s \in SUBSET (1 .. n) : g[s] \in A
    BY <1>1, <1>2, FoldExists
  <2>2. \A s \in SUBSET (1 .. n) : FoldStep(g, F, base, s) = Step(g, s)
    BY <1>2, <1>5, <2>1 DEF FoldStep
  <2>3. IsIter(g)
    BY <2>1, <2>2 DEF IsFold
  <2> QED
    BY <2>3
<1>7. IsIter(iter)
  BY <1>6
<1> HIDE DEF iter
<1>8. iter[{}] = base
  BY <1>7
<1>9. FoldsOver(iter, F, base, A, n)
  <2>1. ASSUME NEW s \in SUBSET (1 .. n), s # {}, iter[s \ {Max(s)}] \in A
        PROVE  iter[s] = F[Max(s)][iter[s \ {Max(s)}]]
    BY <1>2, <1>5, <1>7, <2>1
  <2> QED
    BY <1>8, <2>1 DEF FoldsOver
<1> HIDE DEF IsIter, Step
<1>10. PICK h : IsRun(h, F, base, A, n) /\ iter[1 .. n] = h[n]
  BY <1>1, <1>2, <1>9, FoldUnwinds
<1>11. \A i \in 1 .. n : h[i] = ReportOf(h[i - 1], frames[i])
  <2>1. \A i \in 1 .. n : i - 1 \in 0 .. n
    BY <1>1
  <2> QED
    BY <1>2, <1>10, <2>1 DEF IsRun
<1>12. AreReports(h, base, frames, A)
  BY <1>10, <1>11 DEF IsRun, AreReports, n
<1> QED
  BY <1>4, <1>10, <1>12 DEF HasReports, n

(* Requests by transaction id, m_inFlight among them. *)
Partial == UNION {[d -> Sent] : d \in SUBSET Word}

LEMMA PartialIsATable ==
    ASSUME NEW fl \in Partial
    PROVE  DOMAIN fl \subseteq Word /\ \A t \in DOMAIN fl : fl[t] \in Sent
BY DEF Partial

LEMMA TablesArePartial ==
    ASSUME NEW fl, NEW d \in SUBSET Word, fl = [t \in d |-> fl[t]], \A t \in d : fl[t] \in Sent
    PROVE  fl \in Partial
<1>1. fl \in [d -> Sent]
  OBVIOUS
<1> QED
  BY <1>1 DEF Partial

Books(Y) == [inFlight : Partial, got : Seq(Y)]

(* A request that has been answered is out of the books. *)
LEMMA BooksStayBooks ==
    ASSUME Tcp, NEW Y, NEW st \in Books(Y), NEW f,
           \A r \in Sent : [resp |-> ParseTcpResponse(f)[1], req |-> r] \in Y
    PROVE  ReportOf(st, f) \in Books(Y)
<1> DEFINE resp == ParseTcpResponse(f)
           id == resp[1].tid
           fl == [t \in DOMAIN st.inFlight \ {id} |-> st.inFlight[t]]
           more == Append(st.got, [resp |-> resp[1], req |-> st.inFlight[id]])
<1>1. st.inFlight \in Partial /\ st.got \in Seq(Y)
  BY DEF Books
<1>2. DOMAIN st.inFlight \subseteq Word /\ \A t \in DOMAIN st.inFlight : st.inFlight[t] \in Sent
  BY <1>1, PartialIsATable
<1>3. ReportOf(st, f) = IF resp = <<>> \/ id \notin DOMAIN st.inFlight THEN st
                        ELSE [got |-> more, inFlight |-> fl]
  BY DEF ReportOf
<1> HIDE DEF resp
<1>4. CASE resp = <<>> \/ id \notin DOMAIN st.inFlight
  BY <1>3, <1>4
<1>5. CASE ~(resp = <<>> \/ id \notin DOMAIN st.inFlight)
  <2>1. fl \in Partial
    <3>1. (DOMAIN st.inFlight \ {id}) \subseteq Word
      BY <1>2
    <3>2. \A t \in DOMAIN st.inFlight \ {id} : fl[t] \in Sent
      BY <1>2
    <3>3. fl = [t \in DOMAIN st.inFlight \ {id} |-> fl[t]]
      OBVIOUS
    <3> HIDE DEF fl, id
    <3> QED
      BY <3>1, <3>2, <3>3, TablesArePartial
  <2>2. more \in Seq(Y)
    <3>1. [resp |-> resp[1], req |-> st.inFlight[id]] \in Y
      BY <1>2, <1>5 DEF resp
    <3> QED
      BY <1>1, <3>1
  <2> HIDE DEF fl, more
  <2>3. [got |-> more, inFlight |-> fl] \in Books(Y)
    BY <2>1, <2>2 DEF Books
  <2> QED
    BY <1>3, <1>5, <2>3
<1> QED
  BY <1>4, <1>5

(* Frames that answer the tasks in t. *)
Answered(frames, t) ==
    \A i \in 1 .. Len(frames) :
        /\ t[i] \in Task
        /\ \E resp : ParseTcpResponse(frames[i]) = <<resp>> /\ resp.tid = t[i].tid

(* The tasks are in the books, under an id of their own. *)
Outstanding(t, n) ==
    /\ \A i \in 1 .. n : t[i].tid \in DOMAIN inFlight /\ inFlight[t[i].tid] = t[i].req
    /\ \A i, k \in 1 .. n : t[i].tid = t[k].tid => i = k

(* The books when i frames have been reported. *)
BooksAfter(st, frames, t, i) ==
    /\ Len(st.got) = Len(got) + i
    /\ \A m \in 1 .. Len(got) : st.got[m] = got[m]
    /\ \A m \in 1 .. i : st.got[Len(got) + m] = [resp |-> ParseTcpResponse(frames[m])[1], req |-> t[m].req]
    /\ DOMAIN st.inFlight = DOMAIN inFlight \ {t[m].tid : m \in 1 .. i}
    /\ \A x \in DOMAIN st.inFlight : st.inFlight[x] = inFlight[x]

(* One more frame. *)
LEMMA OneMoreReport ==
    ASSUME Tcp, NEW frames, AreFrames(frames), NEW t, Answered(frames, t),
           Outstanding(t, Len(frames)), NEW Z, got \in Seq(Z),
           NEW i \in 0 .. Len(frames) - 1,
           NEW Y, NEW st \in Books(Y), BooksAfter(st, frames, t, i)
    PROVE  BooksAfter(ReportOf(st, frames[i + 1]), frames, t, i + 1)
<1> DEFINE n == Len(frames)
           f == frames[i + 1]
           id == t[i + 1].tid
           l == Len(got)
           entry == [resp |-> ParseTcpResponse(f)[1], req |-> t[i + 1].req]
           fl == [x \in DOMAIN st.inFlight \ {id} |-> st.inFlight[x]]
           next == ReportOf(st, f)
<1>1. n \in Nat /\ i + 1 \in 1 .. n /\ i \in Nat
  BY DEF AreFrames
<1>2. \E resp : ParseTcpResponse(f) = <<resp>> /\ resp.tid = id
  BY <1>1 DEF Answered
<1>3. l \in Nat /\ st.got \in Seq(Y)
  BY DEF Books
<1>4. /\ Len(st.got) = l + i
      /\ \A m \in 1 .. l : st.got[m] = got[m]
      /\ \A m \in 1 .. i : st.got[l + m] = [resp |-> ParseTcpResponse(frames[m])[1], req |-> t[m].req]
      /\ DOMAIN st.inFlight = DOMAIN inFlight \ {t[m].tid : m \in 1 .. i}
      /\ \A x \in DOMAIN st.inFlight : st.inFlight[x] = inFlight[x]
  BY DEF BooksAfter
<1>5. id \in DOMAIN st.inFlight /\ st.inFlight[id] = t[i + 1].req
  <2>1. id \in DOMAIN inFlight /\ inFlight[id] = t[i + 1].req
    BY <1>1 DEF Outstanding
  <2>2. ASSUME NEW m \in 1 .. i PROVE t[m].tid # id
    <3>1. m \in 1 .. n /\ m # i + 1
      BY <1>1
    <3> QED
      BY <1>1, <3>1 DEF Outstanding
  <2> QED
    BY <1>4, <2>1, <2>2
<1>6. next = [got |-> Append(st.got, entry), inFlight |-> fl]
  <2>1. PICK resp : ParseTcpResponse(f) = <<resp>> /\ resp.tid = id
    BY <1>2
  <2>2. ParseTcpResponse(f) # <<>> /\ ParseTcpResponse(f)[1] = resp
    BY <2>1
  <2>3. entry = [resp |-> resp, req |-> st.inFlight[id]]
    BY <1>5, <2>2
  <2> HIDE DEF f, id
  <2> QED
    BY <1>5, <2>1, <2>2, <2>3 DEF ReportOf
<1> HIDE DEF next, entry, f
<1>7. next.got = Append(st.got, entry) /\ next.inFlight = fl
  BY <1>6
<1>8. DOMAIN next.inFlight = DOMAIN inFlight \ {t[m].tid : m \in 1 .. i + 1}
  <2>1. \A m : m \in 1 .. i + 1 <=> m \in 1 .. i \/ m = i + 1
    BY <1>1
  <2>2. {t[m].tid : m \in 1 .. i + 1} = {t[m].tid : m \in 1 .. i} \cup {id}
    BY <2>1
  <2> QED
    BY <1>4, <1>7, <2>2
<1>9. \A x \in DOMAIN next.inFlight : next.inFlight[x] = inFlight[x]
  BY <1>4, <1>7
<1> HIDE DEF l
<1>10. /\ Len(next.got) = l + i + 1
       /\ next.got[l + i + 1] = entry
       /\ \A m \in 1 .. l + i : next.got[m] = st.got[m]
  <2>1. Len(st.got) = l + i /\ l + i \in Nat
    BY <1>1, <1>3, <1>4
  <2>2. /\ Len(next.got) = Len(st.got) + 1
        /\ next.got[Len(st.got) + 1] = entry
        /\ \A m \in 1 .. Len(st.got) : next.got[m] = st.got[m]
    BY <1>3, <1>7
  <2> QED
    BY <2>1, <2>2
<1>11. \A m \in 1 .. l : next.got[m] = got[m]
  <2>1. \A m \in 1 .. l : m \in 1 .. l + i
    BY <1>1, <1>3
  <2> QED
    BY <1>4, <1>10, <2>1
<1>12. ASSUME NEW m \in 1 .. i + 1
       PROVE  next.got[l + m] = [resp |-> ParseTcpResponse(frames[m])[1], req |-> t[m].req]
  <2>1. CASE m \in 1 .. i
    <3>1. l + m \in 1 .. l + i
      BY <1>1, <1>3, <2>1
    <3> QED
      BY <1>4, <1>10, <2>1, <3>1
  <2>2. CASE m = i + 1
    <3>1. l + m = l + i + 1
      BY <1>1, <1>3, <2>2
    <3> QED
      BY <1>10, <2>2, <3>1 DEF entry, f
  <2>3. m \in 1 .. i \/ m = i + 1
    BY <1>1
  <2> QED
    BY <2>1, <2>2, <2>3
<1>13. Len(next.got) = l + (i + 1)
  BY <1>1, <1>3, <1>10
<1>14. BooksAfter(next, frames, t, i + 1)
  BY <1>8, <1>9, <1>11, <1>12, <1>13 DEF BooksAfter, l
<1> QED
  BY <1>14 DEF next, f

Typed(rep) == rep.inFlight \in Partial /\ \E Y : rep.got \in Seq(Y)

LEMMA AnswersAreReported ==
    ASSUME Tcp, NEW frames, AreFrames(frames), NEW t, Answered(frames, t),
           Outstanding(t, Len(frames)), inFlight \in Partial, NEW Z, got \in Seq(Z)
    PROVE  Typed(ReportsOf(frames)) /\ BooksAfter(ReportsOf(frames), frames, t, Len(frames))
<1> DEFINE n == Len(frames)
           entry(i, r) == [resp |-> ParseTcpResponse(frames[i])[1], req |-> r]
           Y == Z \cup {entry(p[1], p[2]) : p \in (1 .. n) \X Sent}
           A == Books(Y)
           base == [inFlight |-> inFlight, got |-> got]
           rep == ReportsOf(frames)
<1>1. n \in Nat
  BY DEF AreFrames
<1>2. base \in A
  <2>1. got \in Seq(Y)
    BY DEF Y
  <2> HIDE DEF Y
  <2> QED
    BY <2>1 DEF Books
<1>3. ReportsStayIn(A, frames)
  <2>1. SUFFICES ASSUME NEW st \in A, NEW i \in 1 .. n PROVE ReportOf(st, frames[i]) \in A
    BY DEF ReportsStayIn
  <2> DEFINE f == frames[i]
  <2>2. \A r \in Sent : [resp |-> ParseTcpResponse(f)[1], req |-> r] \in Y
    <3>1. SUFFICES ASSUME NEW r \in Sent PROVE [resp |-> ParseTcpResponse(f)[1], req |-> r] \in Y
      OBVIOUS
    <3>2. <<i, r>> \in (1 .. n) \X Sent /\ entry(<<i, r>>[1], <<i, r>>[2]) = entry(i, r)
      OBVIOUS
    <3>3. entry(i, r) \in Y
      <4> HIDE DEF entry, n
      <4> QED
        BY <3>2
    <3> QED
      BY <3>3
  <2> HIDE DEF f, Y
  <2>3. ReportOf(st, f) \in Books(Y)
    BY <2>2, BooksStayBooks
  <2> QED
    BY <2>3 DEF f
<1> HIDE DEF Y, base, rep, entry
<1>4. IsStart(base)
  BY DEF IsStart, base
<1>5. PICK h : AreReports(h, base, frames, A) /\ rep = h[n]
  <2>1. HasReports(base, frames, A)
    <3> HIDE DEF A
    <3> QED
      BY <1>2, <1>3, <1>4, ReportsOneByOne
  <2> QED
    BY <2>1 DEF HasReports, rep
<1> HIDE DEF A
<1>6. /\ h[0] = base
      /\ \A i \in 1 .. n : h[i] = ReportOf(h[i - 1], frames[i])
      /\ \A i \in 0 .. n : h[i] \in A
  BY <1>5 DEF AreReports
<1> DEFINE G == {i \in 0 .. n : BooksAfter(h[i], frames, t, i)}
<1>7. 0 \in G
  <2>1. base.inFlight = inFlight /\ base.got = got /\ Len(got) \in Nat
    BY DEF base
  <2>2. {t[m].tid : m \in 1 .. 0} = {} /\ \A m \in 1 .. 0 : FALSE
    OBVIOUS
  <2>3. Len(got) = Len(got) + 0
    BY <2>1
  <2>4. DOMAIN inFlight = DOMAIN inFlight \ {}
    OBVIOUS
  <2>5. BooksAfter(base, frames, t, 0)
    BY <2>1, <2>2, <2>3, <2>4 DEF BooksAfter
  <2>6. 0 \in 0 .. n
    BY <1>1
  <2> QED
    BY <1>6, <2>5, <2>6
<1>8. ASSUME NEW i \in 0 .. n - 1, i \in G PROVE i + 1 \in G
  <2>1. i \in 0 .. n /\ i + 1 \in 1 .. n /\ (i + 1) - 1 = i /\ i + 1 \in 0 .. n
    BY <1>1
  <2> DEFINE st == h[i]
  <2>2. st \in Books(Y) /\ BooksAfter(st, frames, t, i)
    BY <1>6, <1>8, <2>1 DEF A
  <2>3. h[i + 1] = ReportOf(st, frames[i + 1])
    BY <1>6, <2>1
  <2> HIDE DEF st, n
  <2>4. BooksAfter(ReportOf(st, frames[i + 1]), frames, t, i + 1)
    BY <2>2, OneMoreReport DEF n
  <2> QED
    BY <2>1, <2>3, <2>4
<1> HIDE DEF G, n
<1>9. n \in G
  <2>1. \A i \in 0 .. n : i \in G
    BY <1>1, <1>7, <1>8, CountUp
  <2> QED
    BY <1>1, <2>1
<1>10. BooksAfter(rep, frames, t, n)
  BY <1>5, <1>9 DEF G
<1>11. Typed(rep)
  <2>1. rep \in Books(Y)
    <3>1. n \in 0 .. n
      BY <1>1
    <3> QED
      BY <1>5, <1>6, <3>1 DEF A
  <2> QED
    BY <2>1 DEF Books, Typed
<1> QED
  BY <1>10, <1>11 DEF rep, n

-----------------------------------------------------------------------------
(* Requests on the line                                                    *)

RequestFrame(t) == Framed("Tcp", t.tid, t.req.unit, RequestPdu(t.req.pdu))

IsRequestFrame(f, t, b) ==
    /\ IsRequestOf(b, t.req.pdu)
    /\ f \in Bytes /\ Len(f) = 7 + Len(b)
    /\ ReadU16(f, 1) = t.tid /\ ReadU16(f, 5) = 1 + Len(b)
    /\ f[7] = t.req.unit
    /\ \A i \in 1 .. Len(b) : f[7 + i] = b[i]

LEMMA RequestsAreFrames ==
    ASSUME NEW t \in Task
    PROVE  IsRequestFrame(RequestFrame(t), t, RequestPdu(t.req.pdu))
<1> DEFINE b == RequestPdu(t.req.pdu)
           unit == t.req.unit
           tid == t.tid
           f == RequestFrame(t)
<1>1. tid \in Word /\ t.req \in Sent
  BY DEF Task
<1>2. unit \in Byte /\ WellFormed(t.req.pdu)
  BY <1>1, SentAreTyped
<1>3. IsRequestOf(b, t.req.pdu)
  BY <1>2, BytesOfRequest
<1>4. f = Framed("Tcp", tid, unit, b)
  BY DEF RequestFrame
<1> HIDE DEF b, unit, tid, f
<1>5. b \in Bytes /\ Len(b) <= 65534
  BY <1>3 DEF IsRequestOf
<1>6. /\ f \in Bytes /\ Len(f) = 7 + Len(b)
      /\ ReadU16(f, 1) = tid /\ ReadU16(f, 5) = 1 + Len(b)
      /\ f[7] = unit
      /\ \A i \in 1 .. Len(b) : f[7 + i] = b[i]
  BY <1>1, <1>2, <1>4, <1>5, FrameFacts
<1> QED
  BY <1>3, <1>6 DEF IsRequestFrame, b, unit, tid, f

(* The server reads the first request on the line as it was made. *)
ReadsRequest(bytes, t, size) ==
    /\ 6 + ReadU16(bytes, 5) = size
    /\ ReadU16(bytes, 1) = t.tid /\ bytes[7] = t.req.unit
    /\ IsRequestOf(SubSeq(bytes, 8, size), t.req.pdu)

LEMMA RequestsAreRead ==
    ASSUME NEW bytes, NEW g, NEW n, Holds(bytes, g, n), n # 0,
           NEW t \in Task, g[1] = RequestFrame(t)
    PROVE  ReadsRequest(bytes, t, Len(g[1]))
<1> DEFINE b == RequestPdu(t.req.pdu)
           f == g[1]
           size == Len(f)
           pdu == SubSeq(bytes, 8, size)
<1>1. IsRequestFrame(f, t, b)
  BY RequestsAreFrames
<1>2. f \in Bytes /\ size <= Len(bytes) /\ \A j \in 1 .. size : bytes[j] = f[j]
  BY HoldsFirst
<1>3. bytes \in Bytes
  BY DEF Holds
<1> HIDE DEF b, f
<1>4. /\ IsRequestOf(b, t.req.pdu) /\ size = 7 + Len(b)
      /\ ReadU16(f, 1) = t.tid /\ ReadU16(f, 5) = 1 + Len(b)
      /\ f[7] = t.req.unit
      /\ \A i \in 1 .. Len(b) : f[7 + i] = b[i]
  BY <1>1 DEF IsRequestFrame
<1>5. b \in Bytes /\ Len(b) \in Nat
  BY <1>4, BytesAreASequence DEF IsRequestOf
<1> HIDE DEF size, pdu
<1>6. size \in Nat /\ Len(bytes) \in Nat
  BY <1>2, <1>3, BytesAreASequence DEF size
<1>7. /\ bytes[1] = f[1] /\ bytes[2] = f[2] /\ bytes[5] = f[5] /\ bytes[6] = f[6] /\ bytes[7] = f[7]
  <2>1. \A i \in {1, 2, 5, 6, 7} : i \in 1 .. size
    BY <1>4, <1>5
  <2> QED
    BY <1>2, <2>1
<1>8. ReadU16(bytes, 1) = t.tid /\ ReadU16(bytes, 5) = 1 + Len(b) /\ bytes[7] = t.req.unit
  BY <1>4, <1>7 DEF ReadU16
<1>9. pdu = b
  <2>1. PICK first \in Nat \ {0} : first = 8
    OBVIOUS
  <2>2. first <= size + 1 /\ size + 1 - first = Len(b) /\ \A i \in 1 .. Len(b) : first - 1 + i = 7 + i
    BY <1>4, <1>5, <2>1
  <2>3. Stretch(SubSeq(bytes, first, size), bytes, first)
        /\ Len(SubSeq(bytes, first, size)) = size + 1 - first
    BY <1>2, <1>3, <1>6, <2>2, PartsAreBytes
  <2>4. Stretch(pdu, bytes, first) /\ Len(pdu) = Len(b)
    BY <2>1, <2>2, <2>3 DEF pdu
  <2>5. pdu \in Bytes /\ \A i \in 1 .. Len(b) : pdu[i] = bytes[7 + i]
    BY <2>2, <2>4 DEF Stretch
  <2>6. \A i \in 1 .. Len(b) : bytes[7 + i] = f[7 + i]
    <3>1. \A i \in 1 .. Len(b) : 7 + i \in 1 .. size
      BY <1>4, <1>5
    <3> QED
      BY <1>2, <3>1 DEF size
  <2>7. \A i \in 1 .. Len(b) : pdu[i] = b[i]
    BY <1>4, <2>5, <2>6
  <2> QED
    BY <1>5, <2>4, <2>5, <2>7 DEF Bytes
<1>10. 6 + ReadU16(bytes, 5) = size
  BY <1>4, <1>5, <1>8
<1>11. ReadsRequest(bytes, t, size)
  BY <1>4, <1>8, <1>9, <1>10 DEF ReadsRequest, pdu
<1> QED
  BY <1>11 DEF size, f

(* A new request gets an id that no request in flight has. *)
LEMMA FreshIds ==
    ASSUME NEW n \in Nat, n < MaxReqs, DOMAIN inFlight \subseteq 1 .. n
    PROVE  /\ LowestFree \in 1 .. n + 1 /\ LowestFree \in Word
           /\ LowestFree \notin DOMAIN inFlight
<1> DEFINE id == LowestFree
           F(t) == t \notin DOMAIN inFlight /\ \A s \in 1 .. t - 1 : s \in DOMAIN inFlight
           T == {t \in 1 .. MaxReqs + 1 : t \notin DOMAIN inFlight}
<1>1. MaxReqs \in Nat /\ MaxReqs <= 65534
  BY RequestsAreLimited
<1>2. n + 1 \in T
  BY <1>1
<1>3. PICK t \in T : \A m \in T : t <= m
  <2>1. T \in SUBSET Nat /\ T # {}
    BY <1>1, <1>2
  <2> HIDE DEF T
  <2> QED
    BY <2>1, LeastNatural
<1>4. t \in 1 .. MaxReqs + 1 /\ F(t)
  <2>1. t \in 1 .. MaxReqs + 1 /\ t \notin DOMAIN inFlight
    BY <1>3
  <2>2. ASSUME NEW s \in 1 .. t - 1, s \notin DOMAIN inFlight PROVE FALSE
    <3>1. s \in T /\ ~(t <= s)
      BY <1>1, <2>1, <2>2
    <3> HIDE DEF T
    <3> QED
      BY <1>3, <3>1
  <2> QED
    BY <2>1, <2>2
<1>5. id = CHOOSE x \in 1 .. MaxReqs + 1 : F(x)
  BY DEF LowestFree
<1> HIDE DEF id, F
<1>6. id \in 1 .. MaxReqs + 1 /\ F(id)
  BY <1>4, <1>5
<1>7. id \notin DOMAIN inFlight /\ \A s \in 1 .. id - 1 : s \in DOMAIN inFlight
  BY <1>6 DEF F
<1>8. id \in 1 .. n + 1
  <2>1. CASE id <= n + 1
    BY <1>1, <1>6, <2>1
  <2>2. CASE ~(id <= n + 1)
    <3>1. n + 1 \in 1 .. id - 1 /\ n + 1 \notin 1 .. n
      BY <1>1, <1>6, <2>2
    <3> QED
      BY <1>7, <3>1
  <2> QED
    BY <2>1, <2>2
<1>9. id \in Nat /\ id <= 65535
  BY <1>1, <1>8
<1> QED
  BY <1>7, <1>8, <1>9, BytesAndWords DEF id

(* A fault that garbles an answer leaves its length and what it begins with. *)
LEMMA TouchedAnswers ==
    ASSUME NEW a, NEW r, IsAnswerTo(a, r), NEW effect
    PROVE  IsAnswerTo(Touched(a, effect), r)
<1> DEFINE c == Touched(a, effect)
<1>1. a \in Bytes /\ Len(a) \in Nat /\ \A i \in 1 .. Len(a) : a[i] \in Byte
  BY BytesAreASequence DEF IsAnswerTo
<1>2. CASE c = a
  BY <1>2
<1>3. CASE Len(a) > 3 /\ c = Flipped(a, 4)
  <2>1. 4 \in 1 .. Len(a) /\ 1 \in 1 .. Len(a) /\ 2 \in 1 .. Len(a) /\ 1 # 4 /\ 2 # 4
    BY <1>1, <1>3
  <2>2. 255 - a[4] \in Byte
    <3>3. a[4] \in Byte /\ Byte \subseteq Nat
      BY <1>1, <2>1, BytesAndWords
    <3>4. a[4] \in Nat
      BY <3>3, Zenon
    <3>1. a[4] \in Nat /\ a[4] <= 255
      BY <3>3, <3>4, BytesAndWords
    <3>2. 255 - a[4] \in Nat /\ 255 - a[4] <= 255
      BY <3>1
    <3> QED
      BY <3>2, BytesAndWords
  <2>3. c = [a EXCEPT ![4] = 255 - a[4]]
    BY <1>3 DEF Flipped
  <2> HIDE DEF c
  <2>4. c \in Bytes /\ Len(c) = Len(a)
    BY <1>1, <2>1, <2>2, <2>3 DEF Bytes
  <2>5. c[1] = a[1] /\ c[2] = a[2]
    BY <1>1, <2>1, <2>3
  <2>6. IsAnswerTo(c, r)
    BY <2>4, <2>5 DEF IsAnswerTo
  <2> QED
    BY <2>6 DEF c
<1>4. c = a \/ (Len(a) > 3 /\ c = Flipped(a, 4))
  BY DEF Touched
<1> QED
  BY <1>2, <1>3, <1>4

(* What is added to the line is what Says reads off it. *)
LEMMA AddedBytes ==
    ASSUME NEW v \in Bytes, NEW f \in Bytes, NEW w, Joins(w, v, f)
    PROVE  SubSeq(w, Len(v) + 1, Len(w)) = f
<1> DEFINE b == SubSeq(w, Len(v) + 1, Len(w))
<1>1. w \in Bytes /\ Len(w) = Len(v) + Len(f) /\ \A i \in 1 .. Len(f) : w[Len(v) + i] = f[i]
  BY DEF Joins
<1>2. Len(f) \in Nat /\ Len(v) \in Nat
  BY BytesAreASequence
<1>3. /\ Len(v) + 1 \in Nat \ {0} /\ Len(w) \in Nat /\ Len(w) <= Len(w)
      /\ Len(v) + 1 <= Len(w) + 1 /\ Len(w) + 1 - (Len(v) + 1) = Len(f)
      /\ Len(v) + 1 - 1 = Len(v)
  BY <1>1, <1>2
<1> HIDE DEF b
<1>4. Stretch(b, w, Len(v) + 1) /\ Len(b) = Len(f)
  <2>1. Stretch(b, w, Len(v) + 1) /\ Len(b) = Len(w) + 1 - (Len(v) + 1)
    BY <1>1, <1>3, PartsAreBytes DEF b
  <2> QED
    BY <1>3, <2>1
<1>5. b \in Bytes /\ \A i \in 1 .. Len(f) : b[i] = f[i]
  BY <1>1, <1>3, <1>4 DEF Stretch
<1>6. b = f
  BY <1>2, <1>4, <1>5 DEF Bytes
<1> QED
  BY <1>6 DEF b

SaidBy(b) == [tid |-> ReadU16(b, 1), unit |-> b[7], pdu |-> SubSeq(b, 8, Len(b))]

LEMMA FramesSay ==
    ASSUME NEW s \in Answers, NEW f, IsFrameOf(f, s)
    PROVE  f # <<>> /\ SaidBy(f) = s
<1> DEFINE a == s.pdu
           pdu == SubSeq(f, 8, Len(f))
<1>2. /\ f \in Bytes /\ Len(f) = 7 + Len(a)
      /\ ReadU16(f, 1) = s.tid /\ f[7] = s.unit
      /\ \A i \in 1 .. Len(a) : f[7 + i] = a[i]
  BY DEF IsFrameOf
<1>3. a \in Bytes /\ s = [tid |-> s.tid, unit |-> s.unit, pdu |-> a]
  BY DEF Answers
<1> HIDE DEF a, pdu
<1>4. Len(a) \in Nat /\ Len(f) \in Nat
  BY <1>2, <1>3, BytesAreASequence
<1>5. pdu = a
  <2>1. PICK first \in Nat \ {0} : first = 8
    OBVIOUS
  <2>2. /\ first <= Len(f) + 1 /\ Len(f) + 1 - first = Len(a) /\ Len(f) <= Len(f)
        /\ \A i \in 1 .. Len(a) : first - 1 + i = 7 + i
    BY <1>2, <1>4, <2>1
  <2>3. Stretch(SubSeq(f, first, Len(f)), f, first)
        /\ Len(SubSeq(f, first, Len(f))) = Len(f) + 1 - first
    BY <1>2, <1>4, <2>2, PartsAreBytes
  <2>4. Stretch(pdu, f, first) /\ Len(pdu) = Len(a)
    BY <2>1, <2>2, <2>3 DEF pdu
  <2>5. pdu \in Bytes /\ \A i \in 1 .. Len(a) : pdu[i] = f[7 + i]
    BY <2>2, <2>4 DEF Stretch
  <2>6. \A i \in 1 .. Len(a) : pdu[i] = a[i]
    BY <1>2, <2>5
  <2> QED
    BY <1>3, <2>4, <2>5, <2>6 DEF Bytes
<1>6. f # <<>>
  BY <1>2, <1>4
<1>7. SaidBy(f) = [tid |-> s.tid, unit |-> s.unit, pdu |-> pdu]
  BY <1>2 DEF SaidBy, pdu
<1> QED
  BY <1>3, <1>5, <1>6, <1>7

-----------------------------------------------------------------------------
(* The invariant                                                           *)

LinkTyped ==
    /\ BankTyped
    /\ conn \in {0} \cup Conns
    /\ loop = [c \in Conns |-> loop[c]] /\ reply = [c \in Conns |-> reply[c]]
    /\ acceptor \in Conns => loop[acceptor] = "backlog"
    /\ acc \in Accumulators /\ down \in Bytes
    /\ asked \in Seq(Requests) /\ Len(asked) <= MaxReqs
    /\ inFlight \in Partial /\ DOMAIN inFlight \subseteq 1 .. Len(asked)
    /\ said \in Seq(Answers)
    /\ \E Y : got \in Seq(Y)

(* The thread of the master's connection has a request in hand, or may     *)
(* still read one.                                                         *)
Waits == conn # 0 /\ loop[conn] = "reply"
Serving == conn # 0 /\ loop[conn] \notin {"leave", "ended", "reset"}

(* Of the requests in T, those up to the last answer said have been        *)
(* answered, and what came before the k-th is over.                        *)
Ledger(T, k) ==
    /\ T \in Seq(Task) /\ k \in Nat
    /\ k <= Len(said) /\ Len(said) <= Len(T) /\ Len(T) <= Len(asked)
    /\ \A i \in k + 1 .. Len(said) : AnswerFor(said[i], T[i])
    /\ \A i \in k + 1 .. Len(T) : T[i].tid \in DOMAIN inFlight /\ inFlight[T[i].tid] = T[i].req
    /\ \A i, j \in k + 1 .. Len(T) : T[i].tid = T[j].tid => i = j

(* On the way to the master are the answers after the k-th, and of the     *)
(* first of them a part is missing.                                        *)
AnswersLeft(k) == [i \in 1 .. Len(said) - k |-> FrameOf(said[k + i])]
LineDown(k) ==
    /\ \E s : Joins(s, acc.buf, down) /\ Holds(s, AnswersLeft(k), Len(said) - k)
    /\ k < Len(said) => Len(acc.buf) < Len(FrameOf(said[k + 1]))

(* On the way to the server are the requests it has not read.              *)
TakenOver == Len(said) + IF Waits THEN 1 ELSE 0
RequestsLeft(T, m) == [i \in 1 .. Len(T) - m |-> RequestFrame(T[m + i])]
LineUp(T) ==
    /\ Waits => Len(said) < Len(T) /\ AnswerFor(reply[conn], T[Len(said) + 1])
    /\ Serving => Holds(up, RequestsLeft(T, TakenOver), Len(T) - TakenOver)

Unconnected(T, k) ==
    conn = 0 => up = <<>> /\ down = <<>> /\ k = Len(said) /\ Len(T) = Len(said)

(* What has been reported. *)
IsMatch(f, k) ==
    \A i \in 1 .. Len(got) :
        /\ f[i] \in 1 .. k
        /\ Conveys(got[i].resp, said[f[i]])
        /\ Fits(got[i].resp, got[i].req)
        /\ \A j \in 1 .. i - 1 : f[j] < f[i]
Matched(k) ==
    /\ \E f : IsMatch(f, k)
    /\ ~spoiled => Len(got) = k

Accounted(T, k) ==
    Ledger(T, k) /\ LineDown(k) /\ LineUp(T) /\ Unconnected(T, k) /\ Matched(k)
Good == LinkTyped /\ \E T, k : Accounted(T, k)

LinkIInv == Tcp => (torn => spoiled) /\ (~torn => Good)

LEMMA MatchesAreResponses ==
    ASSUME Good
    PROVE  NothingInvented
<1>1. PICK T, k : Accounted(T, k)
  BY DEF Good
<1>2. PICK f : IsMatch(f, k)
  BY <1>1 DEF Accounted, Matched
<1>3. k \in Nat /\ k <= Len(said) /\ said \in Seq(Answers)
  BY <1>1 DEF Accounted, Ledger, Good, LinkTyped
<1>4. DOMAIN got = 1 .. Len(got) /\ Len(got) \in Nat /\ DOMAIN said = 1 .. Len(said) /\ Len(said) \in Nat
  BY <1>3 DEF Good, LinkTyped
<1> DEFINE h == [i \in 1 .. Len(got) |-> f[i]]
<1>5. \A i \in 1 .. Len(got) : h[i] = f[i] /\ f[i] \in 1 .. Len(said)
  <2>1. 1 .. k \subseteq 1 .. Len(said)
    BY <1>3, <1>4
  <2> QED
    BY <1>2, <2>1 DEF IsMatch
<1>6. h \in [DOMAIN got -> DOMAIN said]
  BY <1>4, <1>5
<1>7. \A i \in DOMAIN got : /\ Conveys(got[i].resp, said[h[i]])
                            /\ \A j \in 1 .. i - 1 : h[j] < h[i]
  <2>1. \A i \in 1 .. Len(got) : \A j \in 1 .. i - 1 : j \in 1 .. Len(got)
    BY <1>4
  <2> HIDE DEF h
  <2> QED
    BY <1>2, <1>4, <1>5, <2>1 DEF IsMatch
<1> HIDE DEF h
<1> QED
  BY <1>6, <1>7 DEF NothingInvented

LEMMA MatchesFit ==
    ASSUME Tcp, LinkIInv
    PROVE  AnswersFitRequests
<1> SUFFICES ASSUME ~torn, NEW i \in DOMAIN got PROVE Fits(got[i].resp, got[i].req)
  BY DEF AnswersFitRequests
<1>1. PICK T, k : Accounted(T, k)
  BY DEF LinkIInv, Good
<1>2. i \in 1 .. Len(got)
  BY DEF LinkIInv, Good, LinkTyped
<1> QED
  BY <1>1, <1>2 DEF Accounted, Matched, IsMatch

LEMMA NothingWaits ==
    ASSUME Tcp, LinkIInv
    PROVE  NothingHeldBack
<1> SUFFICES ASSUME ~spoiled, down = <<>> PROVE acc.buf = <<>> /\ Len(got) = Len(said)
  BY DEF NothingHeldBack
<1>1. Good
  BY DEF LinkIInv
<1>2. PICK T, k : Accounted(T, k)
  BY <1>1 DEF Good
<1>3. /\ k \in Nat /\ k <= Len(said) /\ said \in Seq(Answers) /\ acc.buf \in Bytes
      /\ Len(got) = k
  BY <1>1, <1>2 DEF Accounted, Ledger, Good, LinkTyped, Accumulators, Matched
<1>4. Len(said) \in Nat /\ Len(acc.buf) \in Nat
  BY <1>3, BytesAreASequence
<1>5. PICK s : Joins(s, acc.buf, down) /\ Holds(s, AnswersLeft(k), Len(said) - k)
  BY <1>2 DEF Accounted, LineDown
<1>6. Len(s) = Len(acc.buf)
  BY <1>4, <1>5 DEF Joins
<1>7. ASSUME k < Len(said) PROVE FALSE
  <2> DEFINE g == AnswersLeft(k)
             n == Len(said) - k
  <2>1. n # 0 /\ 1 \in 1 .. n
    BY <1>3, <1>4, <1>7
  <2>2. g[1] = FrameOf(said[k + 1])
    BY <2>1 DEF AnswersLeft
  <2> HIDE DEF g, n
  <2>3. g[1] \in Bytes /\ Len(g[1]) <= Len(s)
    BY <1>5, <2>1, HoldsFirst DEF g, n
  <2>4. Len(acc.buf) < Len(g[1])
    BY <1>2, <1>7, <2>2 DEF Accounted, LineDown
  <2>5. Len(g[1]) \in Nat
    BY <2>3, BytesAreASequence
  <2> QED
    BY <1>4, <1>6, <2>3, <2>4, <2>5
<1>8. k = Len(said)
  BY <1>3, <1>4, <1>7
<1>9. Len(said) - k = 0
  BY <1>4, <1>8
<1>10. Len(acc.buf) = 0
  BY <1>5, <1>6, <1>9, HoldsNone
<1>11. acc.buf = <<>>
  BY <1>3, <1>10 DEF Bytes
<1> QED
  BY <1>3, <1>8, <1>11

-----------------------------------------------------------------------------
(* The invariant holds at first                                            *)

LEMMA EmptyIsBytes == <<>> \in Bytes /\ Len(<<>>) = 0
BY DEF Bytes

LEMMA LinkStarts ==
    ASSUME LinkInit
    PROVE  LinkIInv
<1> SUFFICES ASSUME Tcp PROVE Good
  BY DEF LinkIInv, LinkInit
<1>1. /\ conn = 0 /\ up = <<>> /\ down = <<>> /\ acceptor = Accepting
      /\ loop = [c \in Conns |-> "none"] /\ reply = [c \in Conns |-> <<>>]
      /\ acc = Cleared /\ inFlight = NoneInFlight /\ asked = <<>>
      /\ said = <<>> /\ got = <<>> /\ BankInit
  BY DEF LinkInit, TransportInit
<1>2. LinkTyped
  <2>1. BankTyped
    BY <1>1, BankStartsTyped
  <2>2. acceptor \notin Conns
    BY <1>1 DEF Accepting, Conns
  <2>3. acc \in Accumulators /\ down \in Bytes
    BY <1>1, EmptyIsBytes DEF Cleared, Accumulators
  <2>4. inFlight \in Partial /\ DOMAIN inFlight = {}
    <3>1. DOMAIN NoneInFlight = {} /\ NoneInFlight = [t \in {} |-> NoneInFlight[t]]
      BY DEF NoneInFlight
    <3> QED
      BY <1>1, <3>1, TablesArePartial
  <2>5. asked \in Seq(Requests) /\ Len(asked) <= MaxReqs /\ said \in Seq(Answers) /\ got \in Seq({})
    <3>1. MaxReqs \in Nat
      BY RequestsAreLimited
    <3> QED
      BY <1>1, <3>1
  <2>6. loop = [c \in Conns |-> loop[c]] /\ reply = [c \in Conns |-> reply[c]] /\ conn = 0
    BY <1>1
  <2> QED
    BY <2>1, <2>2, <2>3, <2>4, <2>5, <2>6 DEF LinkTyped
<1> DEFINE T == <<>>
<1>3. T \in Seq(Task) /\ Len(T) = 0 /\ Len(said) = 0 /\ Len(asked) = 0 /\ Len(got) = 0
  BY <1>1
<1> HIDE DEF T
<1>4. \A i : i \notin 0 + 1 .. 0 /\ i \notin 1 .. 0
  OBVIOUS
<1>5. Ledger(T, 0)
  BY <1>3, <1>4 DEF Ledger
<1>6. LineDown(0)
  <2>1. Joins(<<>>, acc.buf, down)
    <3>1. acc.buf = <<>> /\ down = <<>>
      BY <1>1 DEF Cleared
    <3> QED
      BY <1>4, <3>1, EmptyIsBytes DEF Joins
  <2>2. Len(said) - 0 = 0 /\ ~(0 < Len(said))
    BY <1>3
  <2>3. Holds(<<>>, AnswersLeft(0), 0)
    BY EmptyIsBytes, NothingHolds
  <2> QED
    BY <2>1, <2>2, <2>3 DEF LineDown
<1>7. LineUp(T)
  BY <1>1 DEF LineUp, Waits, Serving
<1>8. Unconnected(T, 0)
  BY <1>1, <1>3 DEF Unconnected
<1>9. Matched(0)
  BY <1>3, <1>4 DEF Matched, IsMatch
<1>10. Accounted(T, 0)
  BY <1>5, <1>6, <1>7, <1>8, <1>9 DEF Accounted
<1> QED
  BY <1>2, <1>10 DEF Good

-----------------------------------------------------------------------------
(* Steps that leave the lines alone                                        *)

SameLines ==
    UNCHANGED <<conn, up, down, acc, inFlight, asked, said, got, torn, spoiled>>

LEMMA LinesAreKept ==
    ASSUME Good, SameLines, LinkTyped', Serving' => Serving, Waits' <=> Waits,
           Waits => reply'[conn] = reply[conn]
    PROVE  Good'
<1>1. PICK T, k : Accounted(T, k)
  BY DEF Good
<1>2. Ledger(T, k) /\ LineDown(k) /\ LineUp(T) /\ Unconnected(T, k) /\ Matched(k)
  BY <1>1 DEF Accounted
<1>3. Ledger(T, k)'
  BY <1>2 DEF Ledger, SameLines
<1>4. LineDown(k)'
  BY <1>2 DEF LineDown, AnswersLeft, SameLines
<1>5. LineUp(T)'
  <2>1. TakenOver' = TakenOver /\ conn' = conn /\ said' = said /\ up' = up
    BY DEF TakenOver, SameLines
  <2>2. Waits' => Len(said') < Len(T) /\ AnswerFor(reply'[conn'], T[Len(said') + 1])
    BY <1>2, <2>1 DEF LineUp
  <2>3. Serving' => Holds(up', RequestsLeft(T, TakenOver'), Len(T) - TakenOver')
    BY <1>2, <2>1 DEF LineUp
  <2> QED
    BY <2>2, <2>3 DEF LineUp
<1>6. Unconnected(T, k)'
  BY <1>2 DEF Unconnected, SameLines
<1>7. Matched(k)'
  BY <1>2 DEF Matched, IsMatch, SameLines
<1>8. Accounted(T, k)'
  BY <1>3, <1>4, <1>5, <1>6, <1>7 DEF Accounted
<1> QED
  BY <1>8 DEF Good

LEMMA TypesAreKept ==
    ASSUME LinkTyped, SameLines, BankTyped',
           loop' = [c \in Conns |-> loop'[c]], reply' = [c \in Conns |-> reply'[c]],
           acceptor' \in Conns => loop'[acceptor'] = "backlog"
    PROVE  LinkTyped'
<1>1. acc \in Accumulators /\ down \in Bytes /\ conn \in {0} \cup Conns
      /\ asked \in Seq(Requests) /\ Len(asked) <= MaxReqs
      /\ inFlight \in Partial /\ DOMAIN inFlight \subseteq 1 .. Len(asked)
      /\ said \in Seq(Answers)
      /\ \E Y : got \in Seq(Y)
  BY DEF LinkTyped
<1> QED
  BY <1>1 DEF LinkTyped, SameLines

LEMMA QuietStepsKeep ==
    ASSUME Tcp, Good, NEW A, ServerQuietStep(A),
           loop' = [c \in Conns |-> loop'[c]], reply' = reply,
           acceptor' \in Conns => loop'[acceptor'] = "backlog",
           conn # 0 => (loop'[conn] \notin {"leave", "ended", "reset"}
                           => loop[conn] \notin {"leave", "ended", "reset"}),
           conn # 0 => (loop'[conn] = "reply" <=> loop[conn] = "reply")
    PROVE  Good'
<1>1. SameLines /\ bank' = bank /\ conn' = conn
  BY DEF ServerQuietStep, SameLines, masterVars
<1>2. LinkTyped
  BY DEF Good
<1>3. LinkTyped'
  <2>1. BankTyped'
    BY <1>1, <1>2 DEF LinkTyped, BankTyped
  <2>2. reply' = [c \in Conns |-> reply'[c]]
    BY <1>2 DEF LinkTyped
  <2> QED
    BY <1>1, <1>2, <2>1, <2>2, TypesAreKept
<1>4. Serving' => Serving
  BY <1>1 DEF Serving
<1>5. Waits' <=> Waits
  BY <1>1 DEF Waits
<1>6. Waits => reply'[conn] = reply[conn]
  OBVIOUS
<1> QED
  BY <1>1, <1>3, <1>4, <1>5, <1>6, LinesAreKept

LEMMA ServerStepsKeep ==
    ASSUME Tcp, Good,
           Accept \/ Spawn \/ CloseServer \/ Closing \/ \E c \in Conns : Top(c) \/ Leave(c)
    PROVE  Good'
<1>1. /\ loop = [c \in Conns |-> loop[c]] /\ conn \in {0} \cup Conns
      /\ acceptor \in Conns => loop[acceptor] = "backlog"
  BY DEF Good, LinkTyped
<1>2. ASSUME NEW c \in Conns, ServerQuietStep(AcceptOne(c)) PROVE Good'
  <2>1. AcceptOne(c)
    BY <1>2 DEF ServerQuietStep
  <2>2. loop' = loop /\ reply' = reply
    BY <2>1 DEF AcceptOne
  <2>3. acceptor' \in Conns => loop'[acceptor'] = "backlog"
    <3>1. Ended \notin Conns
      BY DEF Ended, Conns
    <3> QED
      BY <2>1, <2>2, <3>1 DEF AcceptOne
  <2> DEFINE A == AcceptOne(c)
  <2>4. ServerQuietStep(A)
    BY <1>2
  <2> HIDE DEF A
  <2> QED
    BY <1>1, <2>2, <2>3, <2>4, QuietStepsKeep
<1>3. ASSUME NEW c \in Conns, ServerQuietStep(SpawnClient(c)) PROVE Good'
  <2>1. SpawnClient(c)
    BY <1>3 DEF ServerQuietStep
  <2>2. loop' = [loop EXCEPT ![c] = "top"] /\ reply' = reply /\ acceptor = c /\ loop[c] = "backlog"
    BY <1>1, <2>1 DEF SpawnClient
  <2>3. loop' = [d \in Conns |-> loop'[d]]
        /\ \A d \in Conns : loop'[d] = IF d = c THEN "top" ELSE loop[d]
    BY <1>1, <2>2
  <2>4. acceptor' \notin Conns
    BY <2>1 DEF SpawnClient, Ended, Accepting, Conns
  <2> DEFINE A == SpawnClient(c)
  <2>5. ServerQuietStep(A)
    BY <1>3
  <2> HIDE DEF A
  <2>6. conn # 0 => (loop'[conn] \notin {"leave", "ended", "reset"}
                           => loop[conn] \notin {"leave", "ended", "reset"})
    BY <1>1, <2>2, <2>3
  <2>7. conn # 0 => (loop'[conn] = "reply" <=> loop[conn] = "reply")
    BY <1>1, <2>2, <2>3
  <2> QED
    BY <2>2, <2>3, <2>4, <2>5, <2>6, <2>7, QuietStepsKeep
<1>4. ASSUME NEW c \in Conns, Top(c) PROVE Good'
  <2>1. LoopTop(c)
    BY <1>4 DEF Top, ServerQuietStep
  <2>2. /\ loop' = [loop EXCEPT ![c] = IF running THEN "read" ELSE "leave"]
        /\ reply' = reply /\ acceptor' = acceptor /\ loop[c] = "top"
    BY <2>1 DEF LoopTop
  <2>3. loop' = [d \in Conns |-> loop'[d]]
        /\ \A d \in Conns : loop'[d] = IF d = c THEN (IF running THEN "read" ELSE "leave") ELSE loop[d]
    BY <1>1, <2>2
  <2>4. acceptor' \in Conns => loop'[acceptor'] = "backlog"
    BY <1>1, <2>2, <2>3
  <2> DEFINE A == LoopTop(c)
  <2>5. ServerQuietStep(A)
    BY <1>4 DEF Top
  <2> HIDE DEF A
  <2>6. conn # 0 => (loop'[conn] \notin {"leave", "ended", "reset"}
                           => loop[conn] \notin {"leave", "ended", "reset"})
    BY <1>1, <2>2, <2>3
  <2>7. conn # 0 => (loop'[conn] = "reply" <=> loop[conn] = "reply")
    BY <1>1, <2>2, <2>3
  <2> QED
    BY <2>2, <2>3, <2>4, <2>5, <2>6, <2>7, QuietStepsKeep
<1>5. ASSUME NEW c \in Conns, Leave(c) PROVE Good'
  <2>1. LeaveClients(c)
    BY <1>5 DEF Leave, ServerQuietStep
  <2>2. /\ loop' = [loop EXCEPT ![c] = "ended"]
        /\ reply' = reply /\ acceptor' = acceptor /\ loop[c] = "leave"
    BY <2>1 DEF LeaveClients
  <2>3. loop' = [d \in Conns |-> loop'[d]]
        /\ \A d \in Conns : loop'[d] = IF d = c THEN "ended" ELSE loop[d]
    BY <1>1, <2>2
  <2>4. acceptor' \in Conns => loop'[acceptor'] = "backlog"
    BY <1>1, <2>2, <2>3
  <2> DEFINE A == LeaveClients(c)
  <2>5. ServerQuietStep(A)
    BY <1>5 DEF Leave
  <2> HIDE DEF A
  <2>6. conn # 0 => (loop'[conn] \notin {"leave", "ended", "reset"}
                           => loop[conn] \notin {"leave", "ended", "reset"})
    BY <1>1, <2>2, <2>3
  <2>7. conn # 0 => (loop'[conn] = "reply" <=> loop[conn] = "reply")
    BY <1>1, <2>2, <2>3
  <2> QED
    BY <2>2, <2>3, <2>4, <2>5, <2>6, <2>7, QuietStepsKeep
<1>6. ASSUME NEW A, ServerQuietStep(A), loop' = loop, reply' = reply, acceptor' = acceptor PROVE Good'
  BY <1>1, <1>6, QuietStepsKeep
<1>7. CASE CloseServer
  <2> DEFINE A == CloseBegins
  <2>1. ServerQuietStep(A)
    BY <1>7 DEF CloseServer
  <2>2. loop' = loop /\ reply' = reply /\ acceptor' = acceptor
    BY <2>1 DEF ServerQuietStep, CloseBegins
  <2> HIDE DEF A
  <2> QED
    BY <1>6, <2>1, <2>2
<1>8. CASE ServerQuietStep(DropAllClients)
  <2> DEFINE A == DropAllClients
  <2>1. ServerQuietStep(A)
    BY <1>8
  <2>2. loop' = loop /\ reply' = reply /\ acceptor' = acceptor
    BY <2>1 DEF ServerQuietStep, DropAllClients
  <2> HIDE DEF A
  <2> QED
    BY <1>6, <2>1, <2>2
<1>9. CASE ServerQuietStep(JoinAcceptor)
  <2> DEFINE A == JoinAcceptor
  <2>1. ServerQuietStep(A)
    BY <1>9
  <2>2. loop' = loop /\ reply' = reply /\ acceptor' = acceptor
    BY <2>1 DEF ServerQuietStep, JoinAcceptor
  <2> HIDE DEF A
  <2> QED
    BY <1>6, <2>1, <2>2
<1>10. CASE ServerQuietStep(CloseListen)
  <2>1. CloseListen
    BY <1>10 DEF ServerQuietStep
  <2>2. /\ loop' = [c \in Conns |-> IF loop[c] = "backlog" /\ acceptor # c THEN "reset" ELSE loop[c]]
        /\ reply' = reply /\ acceptor' = acceptor
    BY <2>1 DEF CloseListen
  <2>3. loop' = [d \in Conns |-> loop'[d]]
        /\ \A d \in Conns : loop'[d] = IF loop[d] = "backlog" /\ acceptor # d THEN "reset" ELSE loop[d]
    BY <2>2
  <2>4. acceptor' \in Conns => loop'[acceptor'] = "backlog"
    BY <1>1, <2>2, <2>3
  <2> DEFINE A == CloseListen
  <2>5. ServerQuietStep(A)
    BY <1>10
  <2> HIDE DEF A
  <2>6. conn # 0 => (loop'[conn] \notin {"leave", "ended", "reset"}
                           => loop[conn] \notin {"leave", "ended", "reset"})
    BY <1>1, <2>3
  <2>7. conn # 0 => (loop'[conn] = "reply" <=> loop[conn] = "reply")
    BY <1>1, <2>3
  <2> QED
    BY <2>2, <2>3, <2>4, <2>5, <2>6, <2>7, QuietStepsKeep
<1> QED
  BY <1>2, <1>3, <1>4, <1>5, <1>7, <1>8, <1>9, <1>10 DEF Accept, Spawn, Closing

-----------------------------------------------------------------------------
(* Connections                                                             *)

LEMMA ConnectKeeps ==
    ASSUME Tcp, Good, NEW c \in Conns, Connect(c)
    PROVE  Good'
<1>1. PICK T, k : Accounted(T, k)
  BY DEF Good
<1>2. Ledger(T, k) /\ LineDown(k) /\ LineUp(T) /\ Unconnected(T, k) /\ Matched(k) /\ LinkTyped
  BY <1>1 DEF Accounted, Good
<1>3. /\ conn = 0 /\ loop[c] = "none" /\ conn' = c
      /\ loop' = [loop EXCEPT ![c] = "backlog"]
      /\ UNCHANGED <<up, down, acceptor, reply, bank, acc, inFlight, asked, said, got, torn, spoiled>>
  BY DEF Connect, masterVars
<1>4. /\ loop = [d \in Conns |-> loop[d]] /\ (acceptor \in Conns => loop[acceptor] = "backlog")
      /\ reply = [d \in Conns |-> reply[d]]
  BY <1>2 DEF LinkTyped
<1>5. loop' = [d \in Conns |-> loop'[d]]
      /\ \A d \in Conns : loop'[d] = IF d = c THEN "backlog" ELSE loop[d]
  BY <1>3, <1>4
<1>6. acceptor' \in Conns => loop'[acceptor'] = "backlog"
  BY <1>3, <1>4, <1>5
<1>7. LinkTyped'
  <2>1. BankTyped'
    BY <1>2, <1>3 DEF LinkTyped, BankTyped
  <2>2. reply' = [d \in Conns |-> reply'[d]] /\ conn' \in {0} \cup Conns
    BY <1>3, <1>4
  <2>3. acc \in Accumulators /\ down \in Bytes
        /\ asked \in Seq(Requests) /\ Len(asked) <= MaxReqs
        /\ inFlight \in Partial /\ DOMAIN inFlight \subseteq 1 .. Len(asked)
        /\ said \in Seq(Answers)
        /\ \E Y : got \in Seq(Y)
    BY <1>2 DEF LinkTyped
  <2> QED
    BY <1>3, <1>5, <1>6, <2>1, <2>2, <2>3 DEF LinkTyped
<1>8. conn' # 0 /\ loop'[conn'] = "backlog"
  BY <1>3, <1>5 DEF Conns
<1>9. ~Waits' /\ TakenOver' = Len(said)
  <2>1. ~Waits'
    BY <1>8 DEF Waits
  <2>2. Len(said) + 0 = Len(said)
    BY <1>2 DEF LinkTyped
  <2> QED
    BY <1>3, <2>1, <2>2 DEF TakenOver
<1>10. Len(T) - Len(said) = 0 /\ Len(up) = 0
  <2>1. Len(said) \in Nat /\ Len(T) = Len(said) /\ up = <<>>
    BY <1>2, <1>3 DEF LinkTyped, Unconnected
  <2> QED
    BY <2>1
<1>11. LineUp(T)'
  <2> DEFINE g == RequestsLeft(T, Len(said))
  <2>1. up \in Bytes
    BY <1>2, <1>3, EmptyIsBytes DEF Unconnected
  <2> HIDE DEF g
  <2>2. Holds(up, g, 0)
    BY <1>10, <2>1, NothingHolds
  <2>3. Holds(up', RequestsLeft(T, TakenOver'), Len(T) - TakenOver')
    BY <1>3, <1>9, <1>10, <2>2 DEF g
  <2> QED
    BY <1>9, <2>3 DEF LineUp
<1>12. Ledger(T, k)'
  BY <1>2, <1>3 DEF Ledger
<1>13. LineDown(k)'
  BY <1>2, <1>3 DEF LineDown, AnswersLeft
<1>14. Unconnected(T, k)'
  BY <1>8 DEF Unconnected
<1>15. Matched(k)'
  BY <1>2, <1>3 DEF Matched, IsMatch
<1>16. Accounted(T, k)'
  BY <1>11, <1>12, <1>13, <1>14, <1>15 DEF Accounted
<1> QED
  BY <1>7, <1>16 DEF Good

(* What was under way is lost, and what has not been answered forgotten.   *)
LEMMA DisconnectKeeps ==
    ASSUME Tcp, LinkIInv, Good, Disconnect, ~torn'
    PROVE  Good'
<1>1. PICK T, k : Accounted(T, k)
  BY DEF Good
<1>2. Ledger(T, k) /\ Matched(k) /\ LinkTyped
  BY <1>1 DEF Accounted, Good
<1>3. /\ conn' = 0 /\ up' = <<>> /\ down' = <<>> /\ inFlight' = NoneInFlight
      /\ acc.buf = <<>> /\ spoiled' = (spoiled \/ acc.buf # <<>> \/ down # <<>>)
      /\ UNCHANGED <<loop, acceptor, reply, bank, acc, asked, said, got>>
  BY DEF Disconnect, ForgetRequests, tcpVars
<1>14. PICK n : n = Len(said)
  OBVIOUS
<1>4. /\ n \in Nat /\ k \in Nat /\ k <= n /\ n <= Len(T) /\ Len(T) <= Len(asked) /\ T \in Seq(Task)
      /\ n <= Len(asked)
  <2>1. n \in Nat /\ Len(asked) \in Nat /\ T \in Seq(Task) /\ k \in Nat /\ k <= n
        /\ n <= Len(T) /\ Len(T) <= Len(asked)
    BY <1>2, <1>14 DEF Ledger, LinkTyped
  <2>2. Len(T) \in Nat
    BY <2>1
  <2> QED
    BY <2>1, <2>2
<1>5. PICK U : U \in Seq(Task) /\ Len(U) = n
  <2>1. \A i \in 1 .. n : T[i] \in Task
    BY <1>4
  <2>2. [i \in 1 .. n |-> T[i]] \in Seq(Task) /\ Len([i \in 1 .. n |-> T[i]]) = n
    BY <1>4, <2>1
  <2> QED
    BY <2>2
<1>6. LinkTyped'
  <2>1. BankTyped'
    BY <1>2, <1>3 DEF LinkTyped, BankTyped
  <2>2. inFlight' \in Partial /\ DOMAIN inFlight' = {}
    <3>1. DOMAIN NoneInFlight = {} /\ NoneInFlight = [t \in {} |-> NoneInFlight[t]]
      BY DEF NoneInFlight
    <3> QED
      BY <1>3, <3>1, TablesArePartial
  <2>3. /\ loop = [c \in Conns |-> loop[c]] /\ reply = [c \in Conns |-> reply[c]]
        /\ acceptor \in Conns => loop[acceptor] = "backlog"
        /\ acc \in Accumulators
        /\ asked \in Seq(Requests) /\ Len(asked) <= MaxReqs
        /\ said \in Seq(Answers)
        /\ \E Y : got \in Seq(Y)
    BY <1>2 DEF LinkTyped
  <2>4. down' \in Bytes
    BY <1>3, EmptyIsBytes
  <2> QED
    BY <1>3, <2>1, <2>2, <2>3, <2>4 DEF LinkTyped
<1>7. \A i : i \notin n + 1 .. n
  BY <1>4
<1>8. Ledger(U, n)'
  <2>1. Len(said') = n /\ Len(asked') = Len(asked)
    BY <1>3, <1>14
  <2>2. n <= n
    BY <1>4
  <2> QED
    BY <1>4, <1>5, <1>7, <2>1, <2>2 DEF Ledger
<1>9. LineDown(n)'
  <2>1. Joins(<<>>, acc'.buf, down')
    <3>1. \A i : i \notin 1 .. 0
      OBVIOUS
    <3> QED
      BY <1>3, <3>1, EmptyIsBytes DEF Joins
  <2>2. Len(said') - n = 0 /\ ~(n < Len(said'))
    BY <1>3, <1>4, <1>14
  <2>3. Holds(<<>>, AnswersLeft(n)', 0)
    BY EmptyIsBytes, NothingHolds
  <2> QED
    BY <2>1, <2>2, <2>3 DEF LineDown
<1>10. LineUp(U)'
  BY <1>3 DEF LineUp, Waits, Serving
<1>11. Unconnected(U, n)'
  BY <1>3, <1>5, <1>14 DEF Unconnected
<1>12. Matched(n)'
  <2>1. PICK f : IsMatch(f, k)
    BY <1>2 DEF Matched
  <2>2. 1 .. k \subseteq 1 .. n
    BY <1>4
  <2>3. IsMatch(f, n)'
    BY <1>3, <2>1, <2>2 DEF IsMatch
  <2>4. ~spoiled' => Len(got') = n
    <3>1. NothingHeldBack
      BY NothingWaits
    <3> QED
      BY <1>3, <1>14, <3>1 DEF NothingHeldBack
  <2> QED
    BY <2>3, <2>4 DEF Matched
<1>13. Accounted(U, n)'
  BY <1>8, <1>9, <1>10, <1>11, <1>12 DEF Accounted
<1> QED
  BY <1>6, <1>13 DEF Good

-----------------------------------------------------------------------------
(* A request is made                                                       *)

LEMMA TakenOverIsANumber ==
    ASSUME said \in Seq(Answers)
    PROVE  TakenOver \in Nat
<1>1. Len(said) \in Nat
  OBVIOUS
<1> QED
  BY <1>1 DEF TakenOver

(* One request more on the line. *)
LEMMA OneRequestMore ==
    ASSUME NEW T \in Seq(Task), NEW m \in Nat, NEW bytes, Holds(bytes, RequestsLeft(T, m), Len(T) - m),
           NEW t \in Task, NEW U, U = Append(T, t)
    PROVE  Holds(Cat(bytes, RequestFrame(t)), RequestsLeft(U, m), Len(U) - m)
<1> DEFINE n == Len(T) - m
           g == RequestsLeft(T, m)
           g2 == RequestsLeft(U, m)
           f == RequestFrame(t)
<1>1. /\ Len(U) = Len(T) + 1 /\ U[Len(T) + 1] = t /\ \A i \in 1 .. Len(T) : U[i] = T[i]
      /\ Len(T) \in Nat /\ n \in Nat /\ bytes \in Bytes
  BY DEF Holds
<1>2. f \in Bytes
  BY RequestsAreFrames DEF IsRequestFrame
<1>3. Len(U) - m = n + 1 /\ m + (n + 1) = Len(T) + 1
  BY <1>1
<1> HIDE DEF f, g, g2, n
<1>4. g2[n + 1] = f
  <2>1. n + 1 \in 1 .. Len(U) - m
    BY <1>1, <1>3
  <2>2. g2[n + 1] = RequestFrame(U[m + (n + 1)])
    BY <2>1 DEF g2, RequestsLeft
  <2> QED
    BY <1>1, <1>3, <2>2 DEF f
<1>5. ASSUME NEW i \in 1 .. n PROVE g2[i] = g[i]
  <2>1. i \in 1 .. Len(U) - m /\ i \in 1 .. Len(T) - m /\ m + i \in 1 .. Len(T)
    BY <1>1, <1>3 DEF n
  <2>2. g2[i] = RequestFrame(U[m + i]) /\ g[i] = RequestFrame(T[m + i])
    BY <2>1 DEF g, g2, RequestsLeft
  <2> QED
    BY <1>1, <2>1, <2>2
<1> DEFINE c == Cat(bytes, f)
<1>6. Joins(c, bytes, f)
  BY <1>1, <1>2, CatJoins
<1> HIDE DEF c
<1>7. Holds(bytes, g, n)
  BY DEF g, n
<1>8. Holds(c, g2, n + 1)
  BY <1>2, <1>4, <1>5, <1>6, <1>7, HoldsMore
<1> QED
  BY <1>3, <1>8 DEF c, f, g2

(* What cannot be built is not sent. *)
LEMMA UnbuildableIsKept ==
    ASSUME Tcp, Good, NEW req, WriteRequest(req), ~Buildable(req.unit, req.pdu)
    PROVE  Good'
<1>1. PICK T, k : Accounted(T, k)
  BY DEF Good
<1>2. Ledger(T, k) /\ LineDown(k) /\ LineUp(T) /\ Unconnected(T, k) /\ Matched(k) /\ LinkTyped
  BY <1>1 DEF Accounted, Good
<1>3. BuildRequest(transport, LowestFree, req.unit, req.pdu) = <<>>
  BY DEF BuildRequest
<1>4. /\ Len(asked) < MaxReqs /\ conn # 0 /\ req \in Requests
      /\ asked' = Append(asked, req) /\ up' = up \o <<>> /\ inFlight' = inFlight
      /\ UNCHANGED <<conn, down, loop, acceptor, reply, bank, acc, said, got, torn, spoiled>>
  BY <1>3 DEF WriteRequest, tcpVars
<1>5. /\ asked' \in Seq(Requests) /\ Len(asked') = Len(asked) + 1 /\ Len(asked) \in Nat
      /\ Len(asked') <= MaxReqs
  <2>1. asked \in Seq(Requests)
    BY <1>2 DEF LinkTyped
  <2>2. asked' \in Seq(Requests) /\ Len(asked') = Len(asked) + 1 /\ Len(asked) \in Nat
    BY <1>4, <2>1
  <2>3. MaxReqs \in Nat
    BY RequestsAreLimited
  <2> QED
    BY <1>4, <2>2, <2>3
<1>6. LinkTyped'
  <2>1. BankTyped'
    BY <1>2, <1>4 DEF LinkTyped, BankTyped
  <2>2. DOMAIN inFlight' \subseteq 1 .. Len(asked')
    <3>1. DOMAIN inFlight \subseteq 1 .. Len(asked)
      BY <1>2 DEF LinkTyped
    <3>2. 1 .. Len(asked) \subseteq 1 .. Len(asked')
      BY <1>5
    <3> QED
      BY <1>4, <3>1, <3>2
  <2>3. /\ loop = [c \in Conns |-> loop[c]] /\ reply = [c \in Conns |-> reply[c]]
        /\ acceptor \in Conns => loop[acceptor] = "backlog"
        /\ acc \in Accumulators /\ down \in Bytes /\ conn \in {0} \cup Conns
        /\ inFlight \in Partial
        /\ said \in Seq(Answers)
        /\ \E Y : got \in Seq(Y)
    BY <1>2 DEF LinkTyped
  <2> QED
    BY <1>4, <1>5, <2>1, <2>2, <2>3 DEF LinkTyped
<1>7. Ledger(T, k)'
  <2>1. Len(T) <= Len(asked')
    <3>1. Len(T) <= Len(asked) /\ Len(T) \in Nat
      BY <1>2 DEF Ledger
    <3> QED
      BY <1>5, <3>1
  <2> QED
    BY <1>2, <1>4, <2>1 DEF Ledger
<1>8. LineDown(k)'
  BY <1>2, <1>4 DEF LineDown, AnswersLeft
<1>9. LineUp(T)'
  <2>1. TakenOver' = TakenOver /\ (Waits' <=> Waits) /\ (Serving' <=> Serving)
    BY <1>4 DEF TakenOver, Waits, Serving
  <2>2. Serving => up' = up
    <3>1. Serving => up \in Bytes
      BY <1>2 DEF LineUp, Holds
    <3>2. up \in Seq(Byte) => up \o <<>> = up
      OBVIOUS
    <3> QED
      BY <1>4, <3>1, <3>2 DEF Bytes
  <2>3. Waits' => Len(said') < Len(T) /\ AnswerFor(reply'[conn'], T[Len(said') + 1])
    BY <1>2, <1>4, <2>1 DEF LineUp
  <2>4. Serving' => Holds(up', RequestsLeft(T, TakenOver'), Len(T) - TakenOver')
    BY <1>2, <2>1, <2>2 DEF LineUp
  <2> QED
    BY <2>3, <2>4 DEF LineUp
<1>10. Unconnected(T, k)'
  BY <1>4 DEF Unconnected
<1>11. Matched(k)'
  BY <1>2, <1>4 DEF Matched, IsMatch
<1>12. Accounted(T, k)'
  BY <1>7, <1>8, <1>9, <1>10, <1>11 DEF Accounted
<1> QED
  BY <1>6, <1>12 DEF Good

(* What can be built is entered in the books and sent. *)
LEMMA RequestIsSent ==
    ASSUME Tcp, Good, NEW req, WriteRequest(req), Buildable(req.unit, req.pdu)
    PROVE  Good'
<1>1. PICK T, k : Accounted(T, k)
  BY DEF Good
<1>2. Ledger(T, k) /\ LineDown(k) /\ LineUp(T) /\ Unconnected(T, k) /\ Matched(k) /\ LinkTyped
  BY <1>1 DEF Accounted, Good
<1>3. PICK id : id = LowestFree
  OBVIOUS
<1>4. PICK n : n = Len(asked)
  OBVIOUS
<1>5. PICK t : t = [tid |-> id, req |-> req]
  OBVIOUS
<1>6. req \in Requests /\ req \in Sent /\ n < MaxReqs /\ conn # 0
  <2>1. req \in Requests /\ n < MaxReqs /\ conn # 0
    BY <1>4 DEF WriteRequest
  <2> QED
    BY <2>1 DEF Sent
<1>7. n \in Nat /\ DOMAIN inFlight \subseteq 1 .. n /\ asked \in Seq(Requests)
  BY <1>2, <1>4 DEF LinkTyped
<1>8. id \in 1 .. n + 1 /\ id \in Word /\ id \notin DOMAIN inFlight
  BY <1>3, <1>6, <1>7, FreshIds
<1>9. t \in Task /\ t.tid = id /\ t.req = req
  BY <1>5, <1>6, <1>8 DEF Task
<1>10. RequestFrame(t) \in Bytes /\ RequestFrame(t) # <<>>
  <2> DEFINE f == RequestFrame(t)
             b == RequestPdu(t.req.pdu)
  <2>1. IsRequestFrame(f, t, b)
    BY <1>9, RequestsAreFrames
  <2> HIDE DEF f, b
  <2>2. f \in Bytes /\ Len(f) = 7 + Len(b) /\ b \in Bytes
    BY <2>1 DEF IsRequestFrame, IsRequestOf
  <2>3. Len(b) \in Nat /\ Len(<<>>) = 0
    BY <2>2, BytesAreASequence, EmptyIsBytes
  <2>4. f # <<>>
    <3>1. Len(f) # 0
      BY <2>2, <2>3
    <3> QED
      BY <2>3, <3>1
  <2> QED
    BY <2>2, <2>4 DEF f
<1>11. BuildRequest(transport, id, req.unit, req.pdu) = RequestFrame(t)
  BY <1>9 DEF BuildRequest, RequestFrame, Tcp
<1>12. /\ asked' = Append(asked, req) /\ up' = Cat(up, RequestFrame(t)) /\ inFlight' = Registered(id, req)
       /\ UNCHANGED <<conn, down, loop, acceptor, reply, bank, acc, said, got, torn, spoiled>>
  BY <1>3, <1>10, <1>11 DEF WriteRequest, tcpVars, Cat
<1>13. /\ DOMAIN inFlight' = DOMAIN inFlight \cup {id} /\ inFlight'[id] = req
       /\ \A x \in DOMAIN inFlight : inFlight'[x] = inFlight[x]
       /\ inFlight' = [x \in DOMAIN inFlight \cup {id} |-> inFlight'[x]]
  BY <1>8, <1>12 DEF Registered
<1>14. asked' \in Seq(Requests) /\ Len(asked') = n + 1
  BY <1>4, <1>6, <1>7, <1>12
<1>15. LinkTyped'
  <2>1. BankTyped'
    BY <1>2, <1>12 DEF LinkTyped, BankTyped
  <2>2. inFlight' \in Partial
    <3>1. DOMAIN inFlight \subseteq Word /\ \A x \in DOMAIN inFlight : inFlight[x] \in Sent
      BY <1>2, PartialIsATable DEF LinkTyped
    <3>2. PICK d : d = DOMAIN inFlight \cup {id}
      OBVIOUS
    <3>3. d \in SUBSET Word
      BY <1>8, <3>1, <3>2
    <3>4. \A x \in d : inFlight'[x] \in Sent
      BY <1>6, <1>13, <3>1, <3>2
    <3>5. inFlight' = [x \in d |-> inFlight'[x]]
      BY <1>13, <3>2
    <3> QED
      BY <3>3, <3>4, <3>5, TablesArePartial
  <2>3. DOMAIN inFlight' \subseteq 1 .. Len(asked')
    <3>1. 1 .. n \subseteq 1 .. n + 1
      BY <1>7
    <3> QED
      BY <1>7, <1>8, <1>13, <1>14, <3>1
  <2>4. Len(asked') <= MaxReqs
    <3>1. MaxReqs \in Nat
      BY RequestsAreLimited
    <3> QED
      BY <1>6, <1>7, <1>14, <3>1
  <2>5. /\ loop = [c \in Conns |-> loop[c]] /\ reply = [c \in Conns |-> reply[c]]
        /\ acceptor \in Conns => loop[acceptor] = "backlog"
        /\ acc \in Accumulators /\ down \in Bytes /\ conn \in {0} \cup Conns
        /\ said \in Seq(Answers)
        /\ \E Y : got \in Seq(Y)
    BY <1>2 DEF LinkTyped
  <2> QED
    BY <1>12, <1>14, <2>1, <2>2, <2>3, <2>4, <2>5 DEF LinkTyped
<1>16. PICK U : U = Append(T, t)
  OBVIOUS
<1>17. PICK l : l = Len(said)
  OBVIOUS
<1>18. /\ T \in Seq(Task) /\ Len(T) \in Nat /\ k \in Nat /\ l \in Nat
       /\ k <= l /\ l <= Len(T) /\ Len(T) <= n
  <2>1. T \in Seq(Task) /\ k \in Nat /\ k <= l /\ l <= Len(T) /\ Len(T) <= n
    BY <1>2, <1>4, <1>17 DEF Ledger
  <2>2. l \in Nat
    BY <1>2, <1>17 DEF LinkTyped
  <2> QED
    BY <2>1, <2>2
<1>19. /\ U \in Seq(Task) /\ Len(U) = Len(T) + 1 /\ U[Len(T) + 1] = t
       /\ \A i \in 1 .. Len(T) : U[i] = T[i]
  BY <1>9, <1>16, <1>18
<1>20. Ledger(U, k)'
  <2>1. Len(said') = l /\ Len(asked') = n + 1 /\ said' = said
    BY <1>12, <1>14, <1>17
  <2>2. k <= l /\ l <= Len(U) /\ Len(U) <= n + 1
    BY <1>7, <1>18, <1>19
  <2>3. ASSUME NEW i \in k + 1 .. l PROVE AnswerFor(said[i], U[i])
    <3>1. i \in 1 .. Len(T)
      BY <1>18, <2>3
    <3>2. AnswerFor(said[i], T[i])
      BY <1>2, <1>17, <2>3 DEF Ledger
    <3> QED
      BY <1>19, <3>1, <3>2
  <2>4. ASSUME NEW i \in k + 1 .. Len(T)
        PROVE  /\ U[i] = T[i]
               /\ U[i].tid \in DOMAIN inFlight /\ inFlight[U[i].tid] = U[i].req
    <3>1. i \in 1 .. Len(T)
      BY <1>18, <2>4
    <3>2. T[i].tid \in DOMAIN inFlight /\ inFlight[T[i].tid] = T[i].req
      BY <1>2, <2>4 DEF Ledger
    <3> QED
      BY <1>19, <3>1, <3>2
  <2>5. \A i \in k + 1 .. Len(U) : i \in k + 1 .. Len(T) \/ i = Len(T) + 1
    BY <1>18, <1>19
  <2>6. ASSUME NEW i \in k + 1 .. Len(U)
        PROVE  U[i].tid \in DOMAIN inFlight' /\ inFlight'[U[i].tid] = U[i].req
    <3>1. CASE i \in k + 1 .. Len(T)
      BY <1>13, <2>4, <3>1
    <3>2. CASE i = Len(T) + 1
      BY <1>9, <1>13, <1>19, <3>2
    <3> QED
      BY <2>5, <3>1, <3>2
  <2>7. ASSUME NEW i \in k + 1 .. Len(U), NEW j \in k + 1 .. Len(U), U[i].tid = U[j].tid
        PROVE  i = j
    <3>1. CASE i \in k + 1 .. Len(T) /\ j \in k + 1 .. Len(T)
      <4>1. T[i].tid = T[j].tid
        BY <2>4, <2>7, <3>1
      <4> QED
        BY <1>2, <3>1, <4>1 DEF Ledger
    <3>2. CASE i \in k + 1 .. Len(T) /\ j = Len(T) + 1
      BY <1>8, <1>9, <1>19, <2>4, <2>7, <3>2
    <3>3. CASE j \in k + 1 .. Len(T) /\ i = Len(T) + 1
      BY <1>8, <1>9, <1>19, <2>4, <2>7, <3>3
    <3> QED
      BY <2>5, <3>1, <3>2, <3>3
  <2> QED
    BY <1>18, <1>19, <2>1, <2>2, <2>3, <2>6, <2>7 DEF Ledger
<1>21. LineDown(k)'
  BY <1>2, <1>12 DEF LineDown, AnswersLeft
<1>22. PICK m : m = TakenOver
  OBVIOUS
<1>23. LineUp(U)'
  <2>1. m \in Nat
    BY <1>2, <1>22, TakenOverIsANumber DEF LinkTyped
  <2>2. /\ TakenOver' = m /\ (Waits' <=> Waits) /\ (Serving' <=> Serving)
        /\ reply'[conn'] = reply[conn] /\ Len(said') = l
    BY <1>12, <1>17, <1>22 DEF TakenOver, Waits, Serving
  <2>3. ASSUME Waits PROVE l < Len(U) /\ AnswerFor(reply[conn], U[l + 1])
    <3>1. l < Len(T) /\ AnswerFor(reply[conn], T[l + 1])
      BY <1>2, <1>17, <2>3 DEF LineUp
    <3>2. l + 1 \in 1 .. Len(T) /\ l < Len(U)
      BY <1>18, <1>19, <3>1
    <3> QED
      BY <1>19, <3>1, <3>2
  <2>4. ASSUME Serving PROVE Holds(up', RequestsLeft(U, m), Len(U) - m)
    <3>1. Holds(up, RequestsLeft(T, m), Len(T) - m)
      BY <1>2, <1>22, <2>4 DEF LineUp
    <3> QED
      BY <1>9, <1>12, <1>16, <1>18, <2>1, <3>1, OneRequestMore
  <2> QED
    BY <2>2, <2>3, <2>4 DEF LineUp
<1>24. Unconnected(U, k)'
  BY <1>6, <1>12 DEF Unconnected
<1>25. Matched(k)'
  BY <1>2, <1>12 DEF Matched, IsMatch
<1>26. Accounted(U, k)'
  BY <1>20, <1>21, <1>23, <1>24, <1>25 DEF Accounted
<1> QED
  BY <1>15, <1>26 DEF Good

-----------------------------------------------------------------------------
(* The server reads a request and answers it                               *)

(* The connection has been lost: its thread leaves. *)
LEMMA LateServeKeeps ==
    ASSUME Tcp, Good, NEW c \in Conns, Serve(c), ~Connected(c)
    PROVE  Good'
<1>1. /\ loop[c] = "read" /\ loop' = [loop EXCEPT ![c] = "leave"]
      /\ UNCHANGED <<bank, reply, acceptor>> /\ SameLines
  BY DEF Serve, ReadRequest, SameLines, masterVars
<1>2. LinkTyped /\ conn' = conn
  BY <1>1 DEF Good, SameLines
<1>3. loop = [d \in Conns |-> loop[d]] /\ (acceptor \in Conns => loop[acceptor] = "backlog")
      /\ reply = [d \in Conns |-> reply[d]] /\ conn \in {0} \cup Conns
  BY <1>2 DEF LinkTyped
<1>4. loop' = [d \in Conns |-> loop'[d]]
      /\ \A d \in Conns : loop'[d] = IF d = c THEN "leave" ELSE loop[d]
  BY <1>1, <1>3
<1>5. acceptor' \in Conns => loop'[acceptor'] = "backlog"
  BY <1>1, <1>3, <1>4
<1>6. LinkTyped'
  <2>1. BankTyped'
    BY <1>1, <1>2 DEF LinkTyped, BankTyped
  <2>2. reply' = [d \in Conns |-> reply'[d]]
    BY <1>1, <1>3
  <2> QED
    BY <1>1, <1>2, <1>4, <1>5, <2>1, <2>2, TypesAreKept
<1>7. conn # 0 => conn \in Conns
  BY <1>3
<1>8. Serving' => Serving
  BY <1>2, <1>4, <1>7 DEF Serving
<1>9. Waits' <=> Waits
  BY <1>1, <1>2, <1>4, <1>7 DEF Waits
<1>10. Waits => reply'[conn] = reply[conn]
  BY <1>1
<1> QED
  BY <1>1, <1>6, <1>8, <1>9, <1>10, LinesAreKept

(* The first request on the line is taken over. *)
LEMMA ServeKeeps ==
    ASSUME Tcp, Good, NEW c \in Conns, Serve(c), Connected(c)
    PROVE  Good'
<1>1. PICK T, k : Accounted(T, k)
  BY DEF Good
<1>2. Ledger(T, k) /\ LineDown(k) /\ LineUp(T) /\ Unconnected(T, k) /\ Matched(k) /\ LinkTyped
  BY <1>1 DEF Accounted, Good
<1>3. /\ loop[c] = "read" /\ conn = c /\ conn # 0 /\ Len(up) >= 7
      /\ loop' = [loop EXCEPT ![c] = "reply"]
      /\ UNCHANGED <<conn, down, acceptor, acc, inFlight, asked, said, got, torn, spoiled>>
  BY DEF Serve, ReadRequest, Connected, masterVars, Conns
<1>4. PICK l : l = Len(said)
  OBVIOUS
<1>5. /\ T \in Seq(Task) /\ Len(T) \in Nat /\ l \in Nat /\ l <= Len(T)
  <2>1. T \in Seq(Task) /\ l <= Len(T)
    BY <1>2, <1>4 DEF Ledger
  <2>2. l \in Nat
    BY <1>2, <1>4 DEF LinkTyped
  <2> QED
    BY <2>1, <2>2
<1>6. ~Waits /\ Serving /\ TakenOver = l
  <2>1. l + 0 = l
    BY <1>5
  <2> QED
    BY <1>3, <1>4, <2>1 DEF Waits, Serving, TakenOver
<1>7. PICK g : g = RequestsLeft(T, l)
  OBVIOUS
<1>8. PICK n : n = Len(T) - l
  OBVIOUS
<1>9. Holds(up, g, n) /\ n \in Nat /\ n # 0
  <2>1. Holds(up, g, n)
    BY <1>2, <1>6, <1>7, <1>8 DEF LineUp
  <2>2. n \in Nat
    BY <1>5, <1>8
  <2>3. n # 0
    <3>1. CASE n = 0
      <4>1. Len(up) = 0
        BY <2>1, <3>1, HoldsNone
      <4> QED
        BY <1>3, <4>1
    <3> QED
      BY <3>1
  <2> QED
    BY <2>1, <2>2, <2>3
<1>10. PICK t : t = T[l + 1]
  OBVIOUS
<1>11. l + 1 \in 1 .. Len(T) /\ t \in Task
  <2>1. l + 1 \in 1 .. Len(T)
    BY <1>5, <1>8, <1>9
  <2> QED
    BY <1>5, <1>10, <2>1
<1>12. g[1] = RequestFrame(t)
  <2>1. 1 \in 1 .. Len(T) - l
    BY <1>8, <1>9
  <2> QED
    BY <1>7, <1>10, <2>1 DEF RequestsLeft
<1>13. PICK size : size = Len(g[1])
  OBVIOUS
<1>14. ReadsRequest(up, t, size)
  BY <1>9, <1>11, <1>12, <1>13, RequestsAreRead
<1>15. PICK b : b = SubSeq(up, 8, size)
  OBVIOUS
<1>16. /\ 6 + ReadU16(up, 5) = size /\ ReadU16(up, 1) = t.tid /\ up[7] = t.req.unit
       /\ IsRequestOf(b, t.req.pdu)
  BY <1>14, <1>15 DEF ReadsRequest
<1>17. /\ up' = SubSeq(up, size + 1, Len(up)) /\ Carried(t.req.unit, b)
       /\ reply' = [reply EXCEPT ![c] =
                       [tid |-> t.tid, unit |-> t.req.unit, pdu |-> Handled(t.req.unit, b)]]
  BY <1>15, <1>16 DEF Serve, ReadRequest
<1>18. t.req \in Sent /\ t.tid \in Word
  BY <1>11 DEF Task
<1>19. t.req.unit \in Byte /\ WellFormed(t.req.pdu)
  BY <1>18, SentAreTyped
<1>20. IsAnswerTo(Handled(t.req.unit, b), t.req)
  BY <1>2, <1>16, <1>18, RequestsAreAnswered DEF LinkTyped
<1>21. PICK s : s = [tid |-> t.tid, unit |-> t.req.unit, pdu |-> Handled(t.req.unit, b)]
  OBVIOUS
<1>22. AnswerFor(s, t)
  <2>1. s.tid = t.tid /\ s.unit = t.req.unit /\ s.pdu = Handled(t.req.unit, b)
    BY <1>21
  <2>2. s.pdu \in Bytes
    BY <1>20, <2>1 DEF IsAnswerTo
  <2>3. s = [tid |-> s.tid, unit |-> s.unit, pdu |-> s.pdu]
    BY <1>21
  <2>4. s \in Answers
    BY <1>18, <1>19, <2>1, <2>2, <2>3 DEF Answers
  <2> QED
    BY <1>20, <2>1, <2>4 DEF AnswerFor
<1>23. /\ loop = [d \in Conns |-> loop[d]] /\ (acceptor \in Conns => loop[acceptor] = "backlog")
       /\ reply = [d \in Conns |-> reply[d]]
  BY <1>2 DEF LinkTyped
<1>24. loop' = [d \in Conns |-> loop'[d]]
       /\ \A d \in Conns : loop'[d] = IF d = c THEN "reply" ELSE loop[d]
  BY <1>3, <1>23
<1>25. reply' = [d \in Conns |-> reply'[d]] /\ reply'[c] = s
  BY <1>17, <1>21, <1>23
<1>26. acceptor' \in Conns => loop'[acceptor'] = "backlog"
  BY <1>3, <1>23, <1>24
<1>27. LinkTyped'
  <2>1. BankTyped'
    BY <1>2, <1>16, <1>17, <1>19, CarriedStaysTyped DEF LinkTyped
  <2>2. /\ acc \in Accumulators /\ down \in Bytes /\ conn \in {0} \cup Conns
        /\ asked \in Seq(Requests) /\ Len(asked) <= MaxReqs
        /\ inFlight \in Partial /\ DOMAIN inFlight \subseteq 1 .. Len(asked)
        /\ said \in Seq(Answers)
        /\ \E Y : got \in Seq(Y)
    BY <1>2 DEF LinkTyped
  <2> QED
    BY <1>3, <1>24, <1>25, <1>26, <2>1, <2>2 DEF LinkTyped
<1>28. Ledger(T, k)'
  BY <1>2, <1>3 DEF Ledger
<1>29. LineDown(k)'
  BY <1>2, <1>3 DEF LineDown, AnswersLeft
<1>30. PICK g2 : g2 = RequestsLeft(T, l + 1)
  OBVIOUS
<1>31. PICK rest : rest = n - 1
  OBVIOUS
<1>32. IsRest(g2, g, n) /\ rest = Len(T) - (l + 1)
  <2>1. rest = Len(T) - (l + 1)
    BY <1>5, <1>8, <1>31
  <2>2. ASSUME NEW i \in 1 .. n - 1 PROVE g2[i] = g[i + 1]
    <3>1. i \in 1 .. Len(T) - (l + 1) /\ i + 1 \in 1 .. Len(T) - l /\ l + 1 + i = l + (i + 1)
      BY <1>5, <1>8, <1>9
    <3>2. g2[i] = RequestFrame(T[l + 1 + i])
      BY <1>30, <3>1 DEF RequestsLeft
    <3>3. g[i + 1] = RequestFrame(T[l + (i + 1)])
      BY <1>7, <3>1 DEF RequestsLeft
    <3> QED
      BY <3>1, <3>2, <3>3
  <2> QED
    BY <2>1, <2>2 DEF IsRest
<1>33. Holds(up', g2, rest)
  BY <1>9, <1>13, <1>17, <1>31, <1>32, HoldsRest
<1>34. LineUp(T)'
  <2>1. Waits' /\ conn' = c /\ Len(said') = l
    BY <1>3, <1>4, <1>24 DEF Waits
  <2>2. TakenOver' = l + 1
    BY <2>1 DEF TakenOver
  <2>3. l < Len(T)
    BY <1>5, <1>11
  <2>4. AnswerFor(reply'[conn'], T[Len(said') + 1])
    BY <1>10, <1>22, <1>25, <2>1
  <2>5. Holds(up', RequestsLeft(T, TakenOver'), Len(T) - TakenOver')
    BY <1>30, <1>32, <1>33, <2>2
  <2> QED
    BY <2>1, <2>3, <2>4, <2>5 DEF LineUp
<1>35. Unconnected(T, k)'
  BY <1>3 DEF Unconnected
<1>36. Matched(k)'
  BY <1>2, <1>3 DEF Matched, IsMatch
<1>37. Accounted(T, k)'
  BY <1>28, <1>29, <1>34, <1>35, <1>36 DEF Accounted
<1> QED
  BY <1>27, <1>37 DEF Good

(* An answer dropped, or to a connection that is gone: its thread leaves.  *)
LEMMA SilentAnswerKeeps ==
    ASSUME Tcp, Good, NEW c \in Conns, NEW effect, Answer(c, effect), effect = "drop" \/ ~Connected(c)
    PROVE  Good'
<1>1. PICK T, k : Accounted(T, k)
  BY DEF Good
<1>2. Ledger(T, k) /\ LineDown(k) /\ LineUp(T) /\ Unconnected(T, k) /\ Matched(k) /\ LinkTyped
  BY <1>1 DEF Accounted, Good
<1>3. /\ loop[c] = "reply" /\ loop' = [loop EXCEPT ![c] = "leave"]
      /\ reply' = [reply EXCEPT ![c] = <<>>] /\ Says(FALSE)
      /\ UNCHANGED <<conn, up, down, acceptor, bank, acc, inFlight, asked, got, torn, spoiled>>
  BY DEF Answer, SendReply, masterVars
<1>4. said' = said
  <2>1. SubSeq(down', Len(down) + 1, Len(down')) = <<>>
    <3>1. down \in Bytes /\ Len(down) \in Nat
      BY <1>2, BytesAreASequence DEF LinkTyped
    <3>2. SubSeq(down, Len(down) + 1, Len(down)) = <<>>
      <4>1. \A d \in Seq(Byte) : SubSeq(d, Len(d) + 1, Len(d)) = <<>>
        OBVIOUS
      <4> QED
        BY <3>1, <4>1 DEF Bytes
    <3> QED
      BY <1>3, <3>2
  <2> QED
    BY <1>3, <2>1 DEF Says
<1>5. SameLines
  BY <1>3, <1>4 DEF SameLines
<1>6. /\ loop = [d \in Conns |-> loop[d]] /\ (acceptor \in Conns => loop[acceptor] = "backlog")
      /\ reply = [d \in Conns |-> reply[d]] /\ conn \in {0} \cup Conns
  BY <1>2 DEF LinkTyped
<1>7. loop' = [d \in Conns |-> loop'[d]]
      /\ \A d \in Conns : loop'[d] = IF d = c THEN "leave" ELSE loop[d]
  BY <1>3, <1>6
<1>8. reply' = [d \in Conns |-> reply'[d]]
      /\ \A d \in Conns : d # c => reply'[d] = reply[d]
  BY <1>3, <1>6
<1>9. LinkTyped'
  <2>1. BankTyped'
    BY <1>2, <1>3 DEF LinkTyped, BankTyped
  <2>2. acceptor' \in Conns => loop'[acceptor'] = "backlog"
    BY <1>3, <1>6, <1>7
  <2> QED
    BY <1>2, <1>5, <1>7, <1>8, <2>1, <2>2, TypesAreKept
<1>10. conn' = conn /\ (conn # 0 => conn \in Conns)
  BY <1>3, <1>6
<1>11. CASE conn # c
  <2>1. Serving' => Serving
    BY <1>7, <1>10, <1>11 DEF Serving
  <2>2. Waits' <=> Waits
    BY <1>7, <1>10, <1>11 DEF Waits
  <2>3. Waits => reply'[conn] = reply[conn]
    BY <1>8, <1>10, <1>11 DEF Waits
  <2> QED
    BY <1>5, <1>9, <2>1, <2>2, <2>3, LinesAreKept
<1>12. CASE conn = c
  <2>1. ~Serving' /\ ~Waits'
    BY <1>7, <1>10, <1>12 DEF Serving, Waits
  <2>2. LineUp(T)'
    BY <2>1 DEF LineUp
  <2>3. Ledger(T, k)'
    BY <1>2, <1>5 DEF Ledger, SameLines
  <2>4. LineDown(k)'
    BY <1>2, <1>5 DEF LineDown, AnswersLeft, SameLines
  <2>5. Unconnected(T, k)'
    BY <1>2, <1>5 DEF Unconnected, SameLines
  <2>6. Matched(k)'
    BY <1>2, <1>5 DEF Matched, IsMatch, SameLines
  <2>7. Accounted(T, k)'
    BY <2>2, <2>3, <2>4, <2>5, <2>6 DEF Accounted
  <2> QED
    BY <1>9, <2>7 DEF Good
<1> QED
  BY <1>11, <1>12

(* What is put on the line comes after all that is on its way. *)
LEMMA JoinsMore ==
    ASSUME NEW u \in Bytes, NEW v \in Bytes, NEW s, Joins(s, u, v), NEW f \in Bytes,
           NEW more, Joins(more, s, f), NEW w, Joins(w, v, f)
    PROVE  Joins(more, u, w)
<1>1. /\ s \in Bytes /\ Len(s) = Len(u) + Len(v)
      /\ \A i \in 1 .. Len(u) : s[i] = u[i]
      /\ \A i \in 1 .. Len(v) : s[Len(u) + i] = v[i]
  BY DEF Joins
<1>2. /\ more \in Bytes /\ Len(more) = Len(s) + Len(f)
      /\ \A i \in 1 .. Len(s) : more[i] = s[i]
      /\ \A i \in 1 .. Len(f) : more[Len(s) + i] = f[i]
  BY DEF Joins
<1>3. /\ w \in Bytes /\ Len(w) = Len(v) + Len(f)
      /\ \A i \in 1 .. Len(v) : w[i] = v[i]
      /\ \A i \in 1 .. Len(f) : w[Len(v) + i] = f[i]
  BY DEF Joins
<1>4. Len(u) \in Nat /\ Len(v) \in Nat /\ Len(f) \in Nat
  BY BytesAreASequence
<1>5. Len(more) = Len(u) + Len(w)
  BY <1>1, <1>2, <1>3, <1>4
<1>6. ASSUME NEW i \in 1 .. Len(u) PROVE more[i] = u[i]
  <2>1. i \in 1 .. Len(s)
    BY <1>1, <1>4
  <2> QED
    BY <1>1, <1>2, <2>1
<1>7. ASSUME NEW i \in 1 .. Len(w) PROVE more[Len(u) + i] = w[i]
  <2>1. CASE i \in 1 .. Len(v)
    <3>1. Len(u) + i \in 1 .. Len(s)
      BY <1>1, <1>4, <2>1
    <3> QED
      BY <1>1, <1>2, <1>3, <2>1, <3>1
  <2>2. CASE i \notin 1 .. Len(v)
    <3>1. PICK j : j = i - Len(v)
      OBVIOUS
    <3>2. j \in 1 .. Len(f) /\ i = Len(v) + j /\ Len(u) + i = Len(s) + j
      BY <1>1, <1>3, <1>4, <2>2, <3>1
    <3>3. more[Len(s) + j] = f[j] /\ w[Len(v) + j] = f[j]
      BY <1>2, <1>3, <3>2
    <3> QED
      BY <3>2, <3>3
  <2> QED
    BY <2>1, <2>2
<1> QED
  BY <1>2, <1>5, <1>6, <1>7 DEF Joins

(* The frame of an answer put on the line. *)
LEMMA OneAnswerMore ==
    ASSUME NEW t \in Task, NEW s, AnswerFor(s, t)
    PROVE  /\ FrameOf(s) \in Bytes /\ Len(FrameOf(s)) \in Nat \ {0}
           /\ IsFrameOf(FrameOf(s), s) /\ SaidBy(FrameOf(s)) = s /\ FrameOf(s) # <<>>
<1>1. s \in Answers /\ IsAnswerTo(s.pdu, t.req) /\ t.req \in Sent
  BY DEF AnswerFor, Task
<1>2. Shaped(s.pdu)
  BY <1>1, AnswersAreShaped
<1>3. s.pdu \in Bytes /\ Len(s.pdu) \in Nat /\ Len(s.pdu) <= 65534
  <2>1. s.pdu \in Bytes /\ Len(s.pdu) <= 300
    BY <1>2 DEF Shaped
  <2>2. Len(s.pdu) \in Nat
    BY <2>1, BytesAreASequence
  <2> QED
    BY <2>1, <2>2
<1>4. IsFrameOf(FrameOf(s), s)
  BY <1>1, <1>3, FramesOfAnswers
<1>5. FrameOf(s) # <<>> /\ SaidBy(FrameOf(s)) = s
  BY <1>1, <1>4, FramesSay
<1> DEFINE f == FrameOf(s)
<1> HIDE DEF f
<1>6. f \in Bytes /\ Len(f) = 7 + Len(s.pdu)
  BY <1>4 DEF IsFrameOf, f
<1>7. Len(f) \in Nat \ {0}
  BY <1>3, <1>6
<1> QED
  BY <1>4, <1>5, <1>6, <1>7 DEF f

LEMMA AnswerKeeps ==
    ASSUME Tcp, Good, NEW c \in Conns, NEW effect, Answer(c, effect), effect # "drop", Connected(c)
    PROVE  Good'
<1>1. PICK T, k : Accounted(T, k)
  BY DEF Good
<1>2. Ledger(T, k) /\ LineDown(k) /\ LineUp(T) /\ Unconnected(T, k) /\ Matched(k) /\ LinkTyped
  BY <1>1 DEF Accounted, Good
<1>3. /\ loop[c] = "reply" /\ loop' = [loop EXCEPT ![c] = "top"] /\ conn = c /\ conn # 0
      /\ reply' = [reply EXCEPT ![c] = <<>>] /\ Says(FALSE)
      /\ down' = down \o Framed("Tcp", reply[c].tid, reply[c].unit, Touched(reply[c].pdu, effect))
      /\ UNCHANGED <<conn, up, acceptor, bank, acc, inFlight, asked, got, torn, spoiled>>
  <2>1. SendReply(c, effect) /\ Says(FALSE) /\ UNCHANGED <<conn, up, bank, masterVars, torn, spoiled>>
    BY DEF Answer
  <2>2. conn = c /\ conn # 0
    BY DEF Connected, Conns
  <2>3. /\ loop[c] = "reply" /\ loop' = [loop EXCEPT ![c] = "top"]
        /\ reply' = [reply EXCEPT ![c] = <<>>] /\ acceptor' = acceptor
        /\ down' = down \o Framed("Tcp", reply[c].tid, reply[c].unit, Touched(reply[c].pdu, effect))
    BY <2>1 DEF SendReply
  <2> QED
    BY <2>1, <2>2, <2>3 DEF masterVars
<1>4. PICK l : l = Len(said)
  OBVIOUS
<1>5. /\ T \in Seq(Task) /\ Len(T) \in Nat /\ l \in Nat /\ l <= Len(T) /\ Len(T) <= Len(asked)
      /\ k \in Nat /\ k <= l
  <2>1. T \in Seq(Task) /\ l <= Len(T) /\ Len(T) <= Len(asked) /\ k \in Nat /\ k <= l
    BY <1>2, <1>4 DEF Ledger
  <2>2. l \in Nat
    BY <1>2, <1>4 DEF LinkTyped
  <2> QED
    BY <2>1, <2>2
<1>6. Waits /\ Serving /\ TakenOver = l + 1
  BY <1>3, <1>4 DEF Waits, Serving, TakenOver
<1>7. PICK t : t = T[l + 1]
  OBVIOUS
<1>8. PICK s0 : s0 = reply[c]
  OBVIOUS
<1>9. l < Len(T) /\ AnswerFor(s0, t)
  BY <1>2, <1>3, <1>4, <1>6, <1>7, <1>8 DEF LineUp
<1>10. l + 1 \in 1 .. Len(T) /\ t \in Task
  <2>1. l + 1 \in 1 .. Len(T)
    BY <1>5, <1>9
  <2> QED
    BY <1>5, <1>7, <2>1
<1>11. PICK s : s = [tid |-> s0.tid, unit |-> s0.unit, pdu |-> Touched(s0.pdu, effect)]
  OBVIOUS
<1>12. AnswerFor(s, t)
  <2>1. s0 \in Answers /\ s0.tid = t.tid /\ s0.unit = t.req.unit /\ IsAnswerTo(s0.pdu, t.req)
    BY <1>9 DEF AnswerFor
  <2>2. IsAnswerTo(Touched(s0.pdu, effect), t.req)
    BY <2>1, TouchedAnswers
  <2>3. s.tid = s0.tid /\ s.unit = s0.unit /\ s.pdu = Touched(s0.pdu, effect)
    BY <1>11
  <2>4. s0.tid \in Word /\ s0.unit \in Byte
    BY <2>1 DEF Answers
  <2>5. s.pdu \in Bytes
    BY <2>2, <2>3 DEF IsAnswerTo
  <2>6. s \in Answers
    BY <1>11, <2>3, <2>4, <2>5 DEF Answers
  <2> QED
    BY <2>1, <2>2, <2>3, <2>6 DEF AnswerFor
<1>13. PICK f : f = FrameOf(s)
  OBVIOUS
<1>14. f \in Bytes /\ Len(f) \in Nat \ {0} /\ SaidBy(f) = s /\ f # <<>>
  BY <1>10, <1>12, <1>13, OneAnswerMore
<1>15. down' = Cat(down, f)
  <2>1. f = Framed("Tcp", s0.tid, s0.unit, Touched(s0.pdu, effect))
    BY <1>11, <1>13 DEF FrameOf
  <2> QED
    BY <1>3, <1>8, <2>1 DEF Cat
<1>16. PICK v : v = down
  OBVIOUS
<1>17. PICK w : w = Cat(v, f)
  OBVIOUS
<1>18. v \in Bytes /\ Joins(w, v, f) /\ down' = w /\ w \in Bytes
  <2>1. v \in Bytes
    BY <1>2, <1>16 DEF LinkTyped
  <2>2. Joins(w, v, f)
    BY <1>14, <1>17, <2>1, CatJoins
  <2> QED
    BY <1>15, <1>16, <1>17, <2>1, <2>2 DEF Joins
<1>19. said' = Append(said, s)
  <2>1. SubSeq(w, Len(v) + 1, Len(w)) = f
    BY <1>14, <1>18, AddedBytes
  <2>2. SubSeq(down', Len(down) + 1, Len(down')) = f
    BY <1>16, <1>18, <2>1
  <2>3. said' = Append(said, SaidBy(f))
    BY <1>3, <1>14, <2>2 DEF Says, SaidBy
  <2> QED
    BY <1>14, <2>3
<1>20. PICK said2 : said2 = Append(said, s)
  OBVIOUS
<1>21. /\ said' = said2 /\ said2 \in Seq(Answers) /\ Len(said2) = l + 1 /\ said2[l + 1] = s
       /\ \A i \in 1 .. l : said2[i] = said[i]
  <2>1. said \in Seq(Answers) /\ s \in Answers
    BY <1>2, <1>12 DEF LinkTyped, AnswerFor
  <2> QED
    BY <1>4, <1>19, <1>20, <2>1
<1>22. /\ loop = [d \in Conns |-> loop[d]] /\ (acceptor \in Conns => loop[acceptor] = "backlog")
       /\ reply = [d \in Conns |-> reply[d]]
  BY <1>2 DEF LinkTyped
<1>23. loop' = [d \in Conns |-> loop'[d]]
       /\ \A d \in Conns : loop'[d] = IF d = c THEN "top" ELSE loop[d]
  BY <1>3, <1>22
<1>24. reply' = [d \in Conns |-> reply'[d]]
  BY <1>3, <1>22
<1>25. acceptor' \in Conns => loop'[acceptor'] = "backlog"
  BY <1>3, <1>22, <1>23
<1>26. LinkTyped'
  <2>1. BankTyped'
    BY <1>2, <1>3 DEF LinkTyped, BankTyped
  <2>2. /\ acc \in Accumulators /\ conn \in {0} \cup Conns
        /\ asked \in Seq(Requests) /\ Len(asked) <= MaxReqs
        /\ inFlight \in Partial /\ DOMAIN inFlight \subseteq 1 .. Len(asked)
        /\ \E Y : got \in Seq(Y)
    BY <1>2 DEF LinkTyped
  <2> QED
    BY <1>3, <1>18, <1>21, <1>23, <1>24, <1>25, <2>1, <2>2 DEF LinkTyped
<1>27. Ledger(T, k)'
  <2>1. k <= l + 1 /\ l + 1 <= Len(T)
    BY <1>5, <1>9
  <2>2. ASSUME NEW i \in k + 1 .. l + 1 PROVE AnswerFor(said2[i], T[i])
    <3>1. CASE i = l + 1
      BY <1>7, <1>12, <1>21, <3>1
    <3>2. CASE i # l + 1
      <4>1. i \in k + 1 .. l /\ i \in 1 .. l
        BY <1>5, <3>2
      <4>2. AnswerFor(said[i], T[i])
        BY <1>2, <1>4, <4>1 DEF Ledger
      <4> QED
        BY <1>21, <4>1, <4>2
    <3> QED
      BY <3>1, <3>2
  <2>3. /\ \A i \in k + 1 .. Len(T) : T[i].tid \in DOMAIN inFlight /\ inFlight[T[i].tid] = T[i].req
        /\ \A i, j \in k + 1 .. Len(T) : T[i].tid = T[j].tid => i = j
    BY <1>2 DEF Ledger
  <2> QED
    BY <1>3, <1>5, <1>21, <2>1, <2>2, <2>3 DEF Ledger
<1>28. LineDown(k)'
  <2>1. PICK u : u = acc.buf
    OBVIOUS
  <2>2. u \in Bytes /\ Len(u) \in Nat
    BY <1>2, <2>1, BytesAreASequence DEF LinkTyped, Accumulators
  <2>3. PICK g : g = AnswersLeft(k)
    OBVIOUS
  <2>4. PICK n : n = l - k
    OBVIOUS
  <2>5. PICK line : Joins(line, u, v) /\ Holds(line, g, n)
    BY <1>2, <1>4, <1>16, <2>1, <2>3, <2>4 DEF LineDown
  <2>6. PICK g2 : g2 = [i \in 1 .. Len(said2) - k |-> FrameOf(said2[k + i])]
    OBVIOUS
  <2>7. n \in Nat /\ Len(said2) - k = n + 1 /\ k + (n + 1) = l + 1
    BY <1>5, <1>21, <2>4
  <2>8. g2[n + 1] = f
    <3>1. n + 1 \in 1 .. Len(said2) - k
      BY <2>7
    <3>2. g2[n + 1] = FrameOf(said2[k + (n + 1)])
      BY <2>6, <3>1
    <3> QED
      BY <1>13, <1>21, <2>7, <3>2
  <2>9. ASSUME NEW i \in 1 .. n PROVE g2[i] = g[i]
    <3>1. i \in 1 .. Len(said2) - k /\ i \in 1 .. Len(said) - k /\ k + i \in 1 .. l
      BY <1>4, <1>5, <2>4, <2>7
    <3>2. g2[i] = FrameOf(said2[k + i]) /\ g[i] = FrameOf(said[k + i])
      BY <2>3, <2>6, <3>1 DEF AnswersLeft
    <3> QED
      BY <1>21, <3>1, <3>2
  <2>10. PICK more : more = Cat(line, f)
    OBVIOUS
  <2>11. Joins(more, line, f)
    <3>1. line \in Bytes
      BY <2>5 DEF Joins
    <3> QED
      BY <1>14, <2>10, <3>1, CatJoins
  <2>12. Joins(more, u, w)
    BY <1>14, <1>18, <2>2, <2>5, <2>11, JoinsMore
  <2>13. Holds(more, g2, n + 1)
    BY <1>14, <2>5, <2>8, <2>9, <2>11, HoldsMore
  <2>14. k < l + 1 => Len(u) < Len(FrameOf(said2[k + 1]))
    <3>1. CASE k < l
      <4>1. Len(u) < Len(FrameOf(said[k + 1]))
        BY <1>2, <1>4, <2>1, <3>1 DEF LineDown
      <4>2. k + 1 \in 1 .. l
        BY <1>5, <3>1
      <4> QED
        BY <1>21, <4>1, <4>2
    <3>2. CASE ~(k < l)
      <4>1. k = l /\ n = 0
        BY <1>5, <2>4, <3>2
      <4>2. Len(line) = 0
        BY <2>5, <4>1, HoldsNone
      <4>3. Len(line) = Len(u) + Len(v) /\ Len(v) \in Nat
        BY <1>18, <2>5, BytesAreASequence DEF Joins
      <4>4. Len(u) = 0
        BY <2>2, <4>2, <4>3
      <4>5. Len(f) \in Nat /\ Len(f) # 0
        BY <1>14
      <4>6. Len(u) < Len(f)
        BY <4>4, <4>5
      <4> QED
        BY <1>13, <1>21, <4>1, <4>6
    <3> QED
      BY <3>1, <3>2
  <2>15. AnswersLeft(k)' = g2
    BY <1>21, <2>6 DEF AnswersLeft
  <2>16. acc'.buf = u /\ Len(said') = l + 1 /\ Len(said') - k = n + 1
    BY <1>3, <1>21, <2>1, <2>7
  <2> QED
    BY <1>18, <1>21, <2>12, <2>13, <2>14, <2>15, <2>16 DEF LineDown
<1>29. LineUp(T)'
  <2>1. ~Waits' /\ Len(said') = l + 1
    BY <1>3, <1>21, <1>23 DEF Waits
  <2>2. TakenOver' = l + 1
    <3>1. l + 1 + 0 = l + 1
      BY <1>5
    <3> QED
      BY <2>1, <3>1 DEF TakenOver
  <2>3. Holds(up, RequestsLeft(T, l + 1), Len(T) - (l + 1))
    BY <1>2, <1>6 DEF LineUp
  <2> QED
    BY <1>3, <2>1, <2>2, <2>3 DEF LineUp
<1>30. Unconnected(T, k)'
  BY <1>3 DEF Unconnected
<1>31. Matched(k)'
  <2>1. PICK h : IsMatch(h, k)
    BY <1>2 DEF Matched
  <2>2. 1 .. k \subseteq 1 .. l
    BY <1>5
  <2>3. \A i \in 1 .. k : said2[i] = said[i]
    BY <1>21, <2>2
  <2>4. IsMatch(h, k)'
    BY <1>3, <1>21, <2>1, <2>3 DEF IsMatch
  <2>5. ~spoiled => Len(got) = k
    BY <1>2 DEF Matched
  <2> QED
    BY <1>3, <2>4, <2>5 DEF Matched
<1>32. Accounted(T, k)'
  BY <1>27, <1>28, <1>29, <1>30, <1>31 DEF Accounted
<1> QED
  BY <1>26, <1>32 DEF Good

-----------------------------------------------------------------------------
(* Answers arrive                                                          *)

LEMMA SameFrames ==
    ASSUME NEW b, NEW g, NEW n, Holds(b, g, n), NEW g2, \A i \in 1 .. n : g2[i] = g[i]
    PROVE  Holds(b, g2, n)
<1>1. b \in Bytes /\ n \in Nat /\ \A i \in 1 .. n : g2[i] \in Bytes
  BY DEF Holds
<1>2. PICK p : HoldsAt(b, g, n, p)
  BY DEF Holds
<1>3. HoldsAt(b, g2, n, p)
  BY <1>2 DEF HoldsAt
<1> QED
  BY <1>1, <1>3 DEF Holds

LEMMA MoreTimes ==
    ASSUME NEW x \in Nat, NEW y \in Nat, x <= y, NEW z \in Nat
    PROVE  x * z <= y * z
<1>1. PICK d \in Nat : y = x + d
  <2>1. y - x \in Nat /\ y = x + (y - x)
    OBVIOUS
  <2> QED
    BY <2>1
<1>2. (x + d) * z = x * z + d * z /\ d * z \in Nat /\ x * z \in Nat
  OBVIOUS
<1> QED
  BY <1>1, <1>2

(* The accumulator has room for all the answers that are under way. *)
RoomFor(g, n) ==
    \E longest \in Nat : n * longest <= kCapacity /\ \A i \in 1 .. n : Len(g[i]) <= longest

LEMMA AnswersUnderWay ==
    ASSUME LinkTyped, NEW T, NEW k, Ledger(T, k), NEW g, g = AnswersLeft(k),
           NEW n, n = Len(said) - k
    PROVE  /\ \A i \in 1 .. n : /\ Whole(g[i]) /\ IsFrameOf(g[i], said[k + i])
                                /\ T[k + i] \in Task /\ AnswerFor(said[k + i], T[k + i])
           /\ RoomFor(g, n)
<1>1. PICK l : l = Len(said)
  OBVIOUS
<1>2. /\ T \in Seq(Task) /\ Len(T) \in Nat /\ l \in Nat /\ l <= Len(T) /\ Len(T) <= MaxReqs
      /\ k \in Nat /\ k <= l
  <2>1. T \in Seq(Task) /\ l <= Len(T) /\ Len(T) <= Len(asked) /\ k \in Nat /\ k <= l
    BY <1>1 DEF Ledger
  <2>2. l \in Nat /\ Len(asked) \in Nat /\ Len(asked) <= MaxReqs
    BY <1>1 DEF LinkTyped
  <2>3. MaxReqs \in Nat
    BY RequestsAreLimited
  <2>4. Len(T) \in Nat
    BY <2>1
  <2> QED
    BY <2>1, <2>2, <2>3, <2>4
<1>3. PICK longest \in 1 .. kCapacity :
          /\ MaxReqs * longest <= kCapacity
          /\ \A r \in Requests : Buildable(r.unit, r.pdu) => AnswerLength(r) <= longest
  BY RoomAssumption
<1>4. kCapacity \in Nat
  BY CapacityAssumption
<1>5. longest \in Nat /\ longest <= kCapacity
  BY <1>3, <1>4
<1>6. ASSUME NEW i \in 1 .. n
      PROVE  /\ Whole(g[i]) /\ IsFrameOf(g[i], said[k + i])
             /\ T[k + i] \in Task /\ AnswerFor(said[k + i], T[k + i])
             /\ Len(g[i]) <= longest
  <2>1. PICK x : x = k + i
    OBVIOUS
  <2>2. i \in 1 .. l - k /\ x \in k + 1 .. l /\ x \in 1 .. Len(T)
    BY <1>1, <1>2, <2>1
  <2>3. PICK s : s = said[x]
    OBVIOUS
  <2>4. PICK t : t = T[x]
    OBVIOUS
  <2>5. t \in Task /\ AnswerFor(s, t)
    BY <1>1, <1>2, <2>2, <2>3, <2>4 DEF Ledger
  <2>6. g[i] = FrameOf(s)
    BY <1>1, <2>1, <2>2, <2>3 DEF AnswersLeft
  <2>7. IsFrameOf(g[i], s)
    BY <2>5, <2>6, OneAnswerMore
  <2>8. t.req \in Sent /\ IsAnswerTo(s.pdu, t.req)
    BY <2>5 DEF AnswerFor, Task
  <2>9. Shaped(s.pdu)
    BY <2>8, AnswersAreShaped
  <2>10. Len(g[i]) = AnswerLength(t.req) /\ AnswerLength(t.req) <= longest
    BY <1>3, <2>7, <2>8 DEF IsFrameOf, IsAnswerTo, Sent
  <2>11. Len(g[i]) \in Nat
    BY <2>5, <2>6, OneAnswerMore
  <2>12. Len(g[i]) <= kCapacity
    BY <1>4, <1>5, <2>10, <2>11
  <2>13. Whole(g[i])
    BY <2>7, <2>9, <2>12 DEF Whole
  <2> QED
    BY <2>1, <2>3, <2>4, <2>5, <2>7, <2>10, <2>13
<1>7. n * longest <= kCapacity
  <2>1. n \in Nat /\ n <= MaxReqs /\ MaxReqs \in Nat
    <3>1. MaxReqs \in Nat
      BY RequestsAreLimited
    <3> QED
      BY <1>1, <1>2, <3>1
  <2>2. n * longest <= MaxReqs * longest
    BY <1>5, <2>1, MoreTimes
  <2>3. n * longest \in Nat /\ MaxReqs * longest \in Nat
    BY <1>5, <2>1
  <2> QED
    BY <1>3, <1>4, <2>2, <2>3
<1>8. RoomFor(g, n)
  BY <1>5, <1>6, <1>7 DEF RoomFor
<1> QED
  BY <1>6, <1>8

(* Whatever the piece, the answers that are complete with it are taken out. *)
LEMMA AnswersAreTaken ==
    ASSUME Tcp, LinkTyped, NEW T, NEW k, Ledger(T, k), LineDown(k),
           NEW g, g = AnswersLeft(k), NEW n, n = Len(said) - k,
           NEW stale \in {0, 128}, NEW size \in Nat, size <= Len(down),
           NEW r, r = ExtractAll(Appended(acc, SubSeq(down, 1, size)), Tcp, stale),
           NEW left, left = SubSeq(down, size + 1, Len(down))
    PROVE  AllTaken(r, g, n, left) /\ left \in Bytes
<1>1. PICK v : v = down
  OBVIOUS
<1>2. PICK acc0 : acc0 = acc
  OBVIOUS
<1>3. v \in Bytes /\ Len(v) \in Nat /\ acc0 \in Accumulators
  BY <1>1, <1>2, BytesAreASequence DEF LinkTyped
<1>4. PICK s : Joins(s, acc0.buf, v) /\ Holds(s, g, n)
  BY <1>1, <1>2 DEF LineDown
<1>5. (\A i \in 1 .. n : Whole(g[i])) /\ RoomFor(g, n)
  BY AnswersUnderWay
<1>6. n \in Nat
  BY <1>4 DEF Holds
<1>7. Len(s) <= kCapacity
  <2>1. PICK longest \in Nat : n * longest <= kCapacity /\ \A i \in 1 .. n : Len(g[i]) <= longest
    BY <1>5 DEF RoomFor
  <2>2. Len(s) <= n * longest
    BY <1>4, <2>1, HoldsAtMost
  <2>3. Len(s) \in Nat /\ n * longest \in Nat /\ kCapacity \in Nat
    <3>1. s \in Bytes
      BY <1>4 DEF Joins
    <3>2. Len(s) \in Nat
      BY <3>1, BytesAreASequence
    <3> QED
      BY <1>6, <2>1, <3>2, CapacityAssumption
  <2> QED
    BY <2>1, <2>2, <2>3
<1>8. PICK acc1 : acc1 = Appended(acc0, SubSeq(v, 1, size))
  OBVIOUS
<1>9. left = SubSeq(v, size + 1, Len(v)) /\ size <= Len(v)
  BY <1>1
<1>10. Arrives(acc1, left, s)
  BY <1>3, <1>4, <1>7, <1>8, <1>9, PiecesArrive
<1>11. acc1 \in Accumulators /\ left \in Bytes /\ Joins(s, acc1.buf, left)
  BY <1>10 DEF Arrives
<1>12. StillThere(g, 0, n, acc1.buf, left)
  <2>1. PICK g2 : g2 = After(g, 0, n)
    OBVIOUS
  <2>2. PICK rest : rest = n - 0
    OBVIOUS
  <2>3. rest = n
    BY <1>6, <2>2
  <2>4. \A i \in 1 .. n : g2[i] = g[i]
    <3>1. \A i \in 1 .. n : i \in 1 .. n - 0 /\ i + 0 = i
      BY <1>6
    <3> QED
      BY <2>1, <3>1 DEF After
  <2>5. Holds(s, g2, rest)
    BY <1>4, <2>3, <2>4, SameFrames
  <2> QED
    BY <1>11, <2>1, <2>2, <2>5 DEF StillThere
<1>13. r = ExtractAll(acc1, TRUE, stale)
  <2>1. Tcp = TRUE
    BY DEF Tcp
  <2> QED
    BY <1>1, <1>2, <1>8, <2>1
<1>14. AllTaken(ExtractAll(acc1, TRUE, stale), g, n, left)
  BY <1>5, <1>6, <1>11, <1>12, WholeFramesAreTaken
<1> QED
  BY <1>11, <1>13, <1>14

(* And what each says is reported with the request it answers. *)
ParseAs(frames, t, k) == \A i \in 1 .. Len(frames) : ParsesAs(frames[i], said[k + i], t[i])

LEMMA TakenAnswersAreReported ==
    ASSUME Tcp, LinkTyped, NEW T, NEW k, Ledger(T, k),
           NEW g, g = AnswersLeft(k), NEW n, n = Len(said) - k,
           NEW frames \in Seq(Bytes), NEW j, j = Len(frames), j <= n,
           \A i \in 1 .. j : frames[i] = g[i],
           NEW t, t = [i \in 1 .. j |-> T[k + i]]
    PROVE  /\ Typed(ReportsOf(frames)) /\ BooksAfter(ReportsOf(frames), frames, t, j)
           /\ ParseAs(frames, t, k)
<1>1. \A i \in 1 .. n : /\ IsFrameOf(g[i], said[k + i])
                        /\ T[k + i] \in Task /\ AnswerFor(said[k + i], T[k + i])
  BY AnswersUnderWay
<1>2. PICK l : l = Len(said)
  OBVIOUS
<1>3. /\ T \in Seq(Task) /\ Len(T) \in Nat /\ l \in Nat /\ l <= Len(T)
      /\ k \in Nat /\ k <= l
  <2>1. T \in Seq(Task) /\ l <= Len(T) /\ k \in Nat /\ k <= l
    BY <1>2 DEF Ledger
  <2>2. l \in Nat
    BY <1>2 DEF LinkTyped
  <2> QED
    BY <2>1, <2>2
<1>4. j \in Nat /\ AreFrames(frames)
  BY DEF AreFrames
<1>5. \A i \in 1 .. j : i \in 1 .. n /\ k + i \in k + 1 .. Len(T)
  BY <1>2, <1>3, <1>4
<1>6. ASSUME NEW i \in 1 .. j
      PROVE  t[i] = T[k + i] /\ t[i] \in Task /\ ParsesAs(frames[i], said[k + i], t[i])
  <2>1. PICK s : s = said[k + i]
    OBVIOUS
  <2>2. PICK f : f = frames[i]
    OBVIOUS
  <2>3. t[i] = T[k + i] /\ t[i] \in Task /\ AnswerFor(s, t[i]) /\ IsFrameOf(f, s)
    BY <1>1, <1>5, <2>1, <2>2
  <2>4. ParsesAs(f, s, t[i])
    BY <2>3, AnswerIsParsed
  <2> QED
    BY <2>1, <2>2, <2>3, <2>4
<1>7. Answered(frames, t)
  <2>1. ASSUME NEW i \in 1 .. j PROVE \E resp : ParseTcpResponse(frames[i]) = <<resp>> /\ resp.tid = t[i].tid
    <3>1. PICK resp : ParseTcpResponse(frames[i]) = <<resp>> /\ resp.tid = said[k + i].tid
      BY <1>6 DEF ParsesAs
    <3>2. said[k + i].tid = t[i].tid
      BY <1>1, <1>5, <1>6 DEF AnswerFor
    <3> QED
      BY <3>1, <3>2
  <2> QED
    BY <1>6, <2>1 DEF Answered
<1>8. Outstanding(t, j)
  <2>1. ASSUME NEW i \in 1 .. j PROVE t[i].tid \in DOMAIN inFlight /\ inFlight[t[i].tid] = t[i].req
    <3>1. T[k + i].tid \in DOMAIN inFlight /\ inFlight[T[k + i].tid] = T[k + i].req
      BY <1>5 DEF Ledger
    <3> QED
      BY <1>6, <3>1
  <2>2. ASSUME NEW i \in 1 .. j, NEW m \in 1 .. j, t[i].tid = t[m].tid PROVE i = m
    <3>1. T[k + i].tid = T[k + m].tid
      BY <1>6, <2>2
    <3>2. k + i = k + m
      BY <1>5, <3>1 DEF Ledger
    <3> QED
      BY <1>3, <3>2
  <2> QED
    BY <2>1, <2>2 DEF Outstanding
<1>9. PICK Z : got \in Seq(Z)
  BY DEF LinkTyped
<1>10. inFlight \in Partial
  BY DEF LinkTyped
<1>11. Outstanding(t, Len(frames))
  BY <1>8
<1>12. Typed(ReportsOf(frames)) /\ BooksAfter(ReportsOf(frames), frames, t, Len(frames))
  BY <1>4, <1>7, <1>9, <1>10, <1>11, AnswersAreReported
<1>13. ParseAs(frames, t, k)
  BY <1>6 DEF ParseAs
<1> QED
  BY <1>12, <1>13

LEMMA ReceiveKeeps ==
    ASSUME Tcp, Good, NEW size \in Nat \ {0}, size <= Len(down), NEW stale \in {0, 128},
           Receive(size, stale)
    PROVE  Good'
<1>1. PICK T, k : Accounted(T, k)
  BY DEF Good
<1>2. Ledger(T, k) /\ LineDown(k) /\ LineUp(T) /\ Unconnected(T, k) /\ Matched(k) /\ LinkTyped
  BY <1>1 DEF Accounted, Good
<1>3. PICK l : l = Len(said)
  OBVIOUS
<1>4. PICK r : r = ExtractAll(Appended(acc, SubSeq(down, 1, size)), Tcp, stale)
  OBVIOUS
<1>5. PICK left : left = SubSeq(down, size + 1, Len(down))
  OBVIOUS
<1>6. PICK frames : frames = r.frames
  OBVIOUS
<1>7. PICK rep : rep = ReportsOf(frames)
  OBVIOUS
<1>8. /\ acc' = r.acc /\ inFlight' = rep.inFlight /\ got' = rep.got /\ down' = left
      /\ UNCHANGED <<conn, up, loop, acceptor, reply, bank, asked, said, torn, spoiled>>
  BY <1>4, <1>5, <1>6, <1>7 DEF Receive, tcpVars
<1>9. PICK g : g = AnswersLeft(k)
  OBVIOUS
<1>10. PICK n : n = l - k
  OBVIOUS
<1>11. AllTaken(r, g, n, left) /\ left \in Bytes
  BY <1>2, <1>3, <1>4, <1>5, <1>9, <1>10, AnswersAreTaken
<1>12. PICK total \in Nat : Between(r, g, n, left, total) /\ r.more = FALSE
  BY <1>11 DEF AllTaken
<1>13. PICK j : j = Len(frames)
  OBVIOUS
<1>14. /\ r.acc \in Accumulators /\ frames \in Seq(Bytes) /\ j <= n
       /\ \A i \in 1 .. j : frames[i] = g[i]
       /\ StillThere(g, j, n, r.acc.buf, left)
       /\ j < n => Len(r.acc.buf) < Len(g[j + 1])
  BY <1>6, <1>12, <1>13 DEF Between, Extractions
<1>15. PICK t : t = [i \in 1 .. j |-> T[k + i]]
  OBVIOUS
<1>16. Typed(rep) /\ BooksAfter(rep, frames, t, j) /\ ParseAs(frames, t, k)
  BY <1>2, <1>3, <1>7, <1>9, <1>10, <1>13, <1>14, <1>15, TakenAnswersAreReported
<1>17. /\ T \in Seq(Task) /\ Len(T) \in Nat /\ l \in Nat /\ l <= Len(T) /\ Len(T) <= Len(asked)
       /\ k \in Nat /\ k <= l /\ j \in Nat
  <2>1. T \in Seq(Task) /\ l <= Len(T) /\ Len(T) <= Len(asked) /\ k \in Nat /\ k <= l
    BY <1>2, <1>3 DEF Ledger
  <2>2. l \in Nat
    BY <1>2, <1>3 DEF LinkTyped
  <2>3. j \in Nat
    BY <1>13, <1>14
  <2> QED
    BY <2>1, <2>2, <2>3
<1>18. PICK k2 : k2 = k + j
  OBVIOUS
<1>19. k2 \in Nat /\ k <= k2 /\ k2 <= l /\ n - j = l - k2 /\ n \in Nat
  BY <1>10, <1>14, <1>17, <1>18
<1>20. /\ DOMAIN inFlight' = DOMAIN inFlight \ {t[m].tid : m \in 1 .. j}
       /\ \A x \in DOMAIN inFlight' : inFlight'[x] = inFlight[x]
  BY <1>8, <1>16 DEF BooksAfter
<1>21. PICK e : e = Len(got)
  OBVIOUS
<1>22. /\ e \in Nat /\ Len(got') = e + j
       /\ \A m \in 1 .. e : got'[m] = got[m]
       /\ \A m \in 1 .. j : got'[e + m] = [resp |-> ParseTcpResponse(frames[m])[1], req |-> t[m].req]
  <2>1. e \in Nat
    BY <1>2, <1>21 DEF LinkTyped
  <2> QED
    BY <1>8, <1>16, <1>21, <2>1 DEF BooksAfter
<1>23. LinkTyped'
  <2>1. BankTyped'
    BY <1>2, <1>8 DEF LinkTyped, BankTyped
  <2>2. inFlight' \in Partial /\ \E Y : got' \in Seq(Y)
    BY <1>8, <1>16 DEF Typed
  <2>3. /\ loop = [c \in Conns |-> loop[c]] /\ reply = [c \in Conns |-> reply[c]]
        /\ acceptor \in Conns => loop[acceptor] = "backlog"
        /\ conn \in {0} \cup Conns
        /\ asked \in Seq(Requests) /\ Len(asked) <= MaxReqs
        /\ DOMAIN inFlight \subseteq 1 .. Len(asked)
        /\ said \in Seq(Answers)
    BY <1>2 DEF LinkTyped
  <2>4. DOMAIN inFlight' \subseteq 1 .. Len(asked)
    BY <1>20, <2>3
  <2> QED
    BY <1>8, <1>11, <1>14, <2>1, <2>2, <2>3, <2>4 DEF LinkTyped
<1>24. Ledger(T, k2)'
  <2>1. ASSUME NEW i \in k2 + 1 .. l PROVE AnswerFor(said[i], T[i])
    <3>1. i \in k + 1 .. l
      BY <1>17, <1>19
    <3> QED
      BY <1>2, <1>3, <3>1 DEF Ledger
  <2>2. \A i \in k2 + 1 .. Len(T) : i \in k + 1 .. Len(T)
    BY <1>17, <1>19
  <2>3. ASSUME NEW i \in k2 + 1 .. Len(T)
        PROVE  T[i].tid \in DOMAIN inFlight' /\ inFlight'[T[i].tid] = T[i].req
    <3>1. T[i].tid \in DOMAIN inFlight /\ inFlight[T[i].tid] = T[i].req
      BY <1>2, <2>2 DEF Ledger
    <3>2. ASSUME NEW m \in 1 .. j, T[i].tid = t[m].tid PROVE FALSE
      <4>1. k + m \in k + 1 .. Len(T) /\ k + m # i
        BY <1>17, <1>18, <1>19
      <4>2. T[i].tid = T[k + m].tid
        BY <1>15, <3>2
      <4> QED
        BY <1>2, <2>2, <4>1, <4>2 DEF Ledger
    <3>3. T[i].tid \in DOMAIN inFlight'
      BY <1>20, <3>1, <3>2
    <3> QED
      BY <1>20, <3>1, <3>3
  <2>4. \A i, m \in k2 + 1 .. Len(T) : T[i].tid = T[m].tid => i = m
    BY <1>2, <2>2 DEF Ledger
  <2> QED
    BY <1>3, <1>8, <1>17, <1>19, <2>1, <2>3, <2>4 DEF Ledger
<1>25. LineDown(k2)'
  <2>1. PICK g1 : g1 = After(g, j, n)
    OBVIOUS
  <2>2. PICK rest : rest = n - j
    OBVIOUS
  <2>3. PICK s : Joins(s, r.acc.buf, left) /\ Holds(s, g1, rest)
    BY <1>14, <2>1, <2>2 DEF StillThere
  <2>4. PICK g2 : g2 = AnswersLeft(k2)
    OBVIOUS
  <2>5. ASSUME NEW i \in 1 .. rest PROVE g2[i] = g1[i]
    <3>1. /\ i \in 1 .. n - j /\ i \in 1 .. Len(said) - k2 /\ i + j \in 1 .. Len(said) - k
          /\ k + (i + j) = k2 + i
      BY <1>3, <1>10, <1>17, <1>18, <1>19, <2>2
    <3>2. g1[i] = g[i + j]
      BY <2>1, <3>1 DEF After
    <3>3. g[i + j] = FrameOf(said[k + (i + j)])
      BY <1>9, <3>1 DEF AnswersLeft
    <3>4. g2[i] = FrameOf(said[k2 + i])
      BY <2>4, <3>1 DEF AnswersLeft
    <3> QED
      BY <3>1, <3>2, <3>3, <3>4
  <2>6. Holds(s, g2, rest)
    BY <2>3, <2>5, SameFrames
  <2>7. ASSUME k2 < l PROVE Len(r.acc.buf) < Len(FrameOf(said[k2 + 1]))
    <3>1. j < n /\ j + 1 \in 1 .. Len(said) - k /\ k + (j + 1) = k2 + 1
      BY <1>3, <1>10, <1>17, <1>18, <1>19, <2>7
    <3>2. g[j + 1] = FrameOf(said[k + (j + 1)])
      BY <1>9, <3>1 DEF AnswersLeft
    <3> QED
      BY <1>14, <3>1, <3>2
  <2>8. AnswersLeft(k2)' = g2
    BY <1>8, <2>4 DEF AnswersLeft
  <2>9. acc'.buf = r.acc.buf /\ down' = left /\ said' = said /\ Len(said') - k2 = rest
    BY <1>3, <1>8, <1>19, <2>2
  <2> QED
    BY <1>3, <2>3, <2>6, <2>7, <2>8, <2>9 DEF LineDown
<1>26. LineUp(T)'
  <2>1. TakenOver' = TakenOver /\ (Waits' <=> Waits) /\ (Serving' <=> Serving)
    BY <1>8 DEF TakenOver, Waits, Serving
  <2>2. Waits' => Len(said') < Len(T) /\ AnswerFor(reply'[conn'], T[Len(said') + 1])
    BY <1>2, <1>8, <2>1 DEF LineUp
  <2>3. Serving' => Holds(up', RequestsLeft(T, TakenOver'), Len(T) - TakenOver')
    BY <1>2, <1>8, <2>1 DEF LineUp
  <2> QED
    BY <2>2, <2>3 DEF LineUp
<1>27. Unconnected(T, k2)'
  <2>1. conn # 0
    <3>1. ASSUME conn = 0 PROVE FALSE
      <4>1. down = <<>>
        BY <1>2, <3>1 DEF Unconnected
      <4>2. Len(down) = 0
        BY <4>1, EmptyIsBytes
      <4> QED
        BY <4>2
    <3> QED
      BY <3>1
  <2> QED
    BY <1>8, <2>1 DEF Unconnected
<1>28. Matched(k2)'
  <2>1. PICK h : IsMatch(h, k)
    BY <1>2 DEF Matched
  <2>2. PICK h2 : h2 = [i \in 1 .. e + j |-> IF i <= e THEN h[i] ELSE k + (i - e)]
    OBVIOUS
  <2>3. ASSUME NEW i \in 1 .. e
        PROVE  /\ h2[i] = h[i] /\ h[i] \in 1 .. k
               /\ Conveys(got[i].resp, said[h[i]]) /\ Fits(got[i].resp, got[i].req)
               /\ \A m \in 1 .. i - 1 : h[m] < h[i]
    <3>1. i \in 1 .. e + j /\ i <= e
      BY <1>17, <1>22
    <3> QED
      BY <1>21, <2>1, <2>2, <3>1 DEF IsMatch
  <2>4. ASSUME NEW i \in 1 .. e + j, i \notin 1 .. e
        PROVE  h2[i] = k + (i - e) /\ i - e \in 1 .. j
    <3>1. ~(i <= e) /\ i - e \in 1 .. j
      BY <1>17, <1>22, <2>4
    <3> QED
      BY <2>2, <3>1
  <2>5. ASSUME NEW i \in 1 .. e
        PROVE  /\ h2[i] \in 1 .. k2
               /\ Conveys(got'[i].resp, said[h2[i]]) /\ Fits(got'[i].resp, got'[i].req)
               /\ \A m \in 1 .. i - 1 : h2[m] < h2[i]
    <3>1. h2[i] \in 1 .. k2
      BY <1>17, <1>19, <2>3
    <3>2. \A m \in 1 .. i - 1 : m \in 1 .. e
      BY <1>22
    <3>3. \A m \in 1 .. i - 1 : h2[m] < h2[i]
      BY <2>3, <3>2
    <3> QED
      BY <1>22, <2>3, <3>1, <3>3
  <2>6. ASSUME NEW i \in 1 .. e + j, i \notin 1 .. e
        PROVE  /\ h2[i] \in 1 .. k2
               /\ Conveys(got'[i].resp, said[h2[i]]) /\ Fits(got'[i].resp, got'[i].req)
               /\ \A m \in 1 .. i - 1 : h2[m] < h2[i]
    <3>1. PICK m : m = i - e
      OBVIOUS
    <3>2. m \in 1 .. j /\ h2[i] = k + m /\ k + m \in 1 .. k2 /\ e + m = i
      BY <1>17, <1>18, <1>22, <2>4, <2>6, <3>1
    <3>3. PICK resp : /\ ParseTcpResponse(frames[m]) = <<resp>>
                      /\ Conveys(resp, said[k + m]) /\ Fits(resp, t[m].req)
      BY <1>13, <1>16, <3>2 DEF ParseAs, ParsesAs
    <3>4. got'[i].resp = resp /\ got'[i].req = t[m].req
      <4>1. got'[i] = [resp |-> ParseTcpResponse(frames[m])[1], req |-> t[m].req]
        BY <1>22, <3>2
      <4>2. ParseTcpResponse(frames[m])[1] = resp
        BY <3>3
      <4> QED
        BY <4>1, <4>2
    <3>5. ASSUME NEW q \in 1 .. i - 1 PROVE h2[q] < k + m
      <4>1. CASE q \in 1 .. e
        <5>1. h2[q] \in 1 .. k
          BY <2>3, <4>1
        <5> QED
          BY <1>17, <3>2, <5>1
      <4>2. CASE q \notin 1 .. e
        <5>1. q \in 1 .. e + j /\ q - e < m
          BY <1>17, <1>22, <3>1
        <5>2. h2[q] = k + (q - e) /\ q - e \in 1 .. j
          BY <2>4, <4>2, <5>1
        <5> QED
          BY <1>17, <3>2, <5>1, <5>2
      <4> QED
        BY <4>1, <4>2
    <3> QED
      BY <3>2, <3>3, <3>4, <3>5
  <2>7. ASSUME NEW i \in 1 .. e + j
        PROVE  /\ h2[i] \in 1 .. k2
               /\ Conveys(got'[i].resp, said[h2[i]]) /\ Fits(got'[i].resp, got'[i].req)
               /\ \A m \in 1 .. i - 1 : h2[m] < h2[i]
    <3>1. CASE i \in 1 .. e
      BY <2>5, <3>1
    <3>2. CASE i \notin 1 .. e
      BY <2>6, <3>2
    <3> QED
      BY <3>1, <3>2
  <2>8. IsMatch(h2, k2)'
    BY <1>8, <1>22, <2>7 DEF IsMatch
  <2>9. ~spoiled' => Len(got') = k2
    <3>1. ~spoiled => e = k
      BY <1>2, <1>21 DEF Matched
    <3> QED
      BY <1>8, <1>18, <1>22, <3>1
  <2> QED
    BY <2>8, <2>9 DEF Matched
<1>29. Accounted(T, k2)'
  BY <1>24, <1>25, <1>26, <1>27, <1>28 DEF Accounted
<1> QED
  BY <1>23, <1>29 DEF Good

-----------------------------------------------------------------------------
(* The invariant                                                           *)

LEMMA StutteringKeeps ==
    ASSUME Good, UNCHANGED linkVars
    PROVE  Good'
<1>1. SameLines /\ UNCHANGED <<loop, reply, acceptor, bank>>
  BY DEF linkVars, tcpVars, SameLines
<1>2. LinkTyped
  BY DEF Good
<1>3. LinkTyped'
  <2>1. BankTyped'
    BY <1>1, <1>2 DEF LinkTyped, BankTyped
  <2>2. /\ loop' = [c \in Conns |-> loop'[c]] /\ reply' = [c \in Conns |-> reply'[c]]
        /\ acceptor' \in Conns => loop'[acceptor'] = "backlog"
    BY <1>1, <1>2 DEF LinkTyped
  <2> QED
    BY <1>1, <1>2, <2>1, <2>2, TypesAreKept
<1>4. (Serving' => Serving) /\ (Waits' <=> Waits) /\ (Waits => reply'[conn] = reply[conn])
  BY <1>1 DEF SameLines, Serving, Waits
<1> QED
  BY <1>1, <1>3, <1>4, LinesAreKept

(* Nothing but the loss of a connection tears an answer over TCP. *)
LEMMA LinkSteps ==
    ASSUME Tcp, Good, LinkNext, ~Disconnect
    PROVE  Good' /\ torn' = torn /\ spoiled' = spoiled
<1>1. ASSUME NEW req \in Requests \cup RtuRequests, WriteRequest(req)
      PROVE  Good' /\ torn' = torn /\ spoiled' = spoiled
  <2>1. torn' = torn /\ spoiled' = spoiled
    BY <1>1 DEF WriteRequest
  <2>2. CASE Buildable(req.unit, req.pdu)
    BY <1>1, <2>1, <2>2, RequestIsSent
  <2>3. CASE ~Buildable(req.unit, req.pdu)
    BY <1>1, <2>1, <2>3, UnbuildableIsKept
  <2> QED
    BY <2>2, <2>3
<1>2. ASSUME NEW n \in PiecesOf(down, Pieces), NEW stale \in {0, 128}, Receive(n, stale)
      PROVE  Good' /\ torn' = torn /\ spoiled' = spoiled
  <2>1. torn' = torn /\ spoiled' = spoiled
    BY <1>2 DEF Receive
  <2>2. down \in Bytes
    BY DEF Good, LinkTyped
  <2>3. Len(down) \in Nat /\ n \in 1 .. Len(down)
    BY <2>2, BytesAreASequence DEF PiecesOf
  <2>4. n \in Nat \ {0} /\ n <= Len(down)
    BY <2>3
  <2> QED
    BY <1>2, <2>1, <2>4, ReceiveKeeps
<1>3. ASSUME NEW c \in Conns, Connect(c)
      PROVE  Good' /\ torn' = torn /\ spoiled' = spoiled
  <2>1. torn' = torn /\ spoiled' = spoiled
    BY <1>3 DEF Connect
  <2> QED
    BY <1>3, <2>1, ConnectKeeps
<1>4. ASSUME Accept \/ Spawn \/ CloseServer \/ Closing \/ \E c \in Conns : Top(c) \/ Leave(c)
      PROVE  Good' /\ torn' = torn /\ spoiled' = spoiled
  <2>1. \E A : ServerQuietStep(A)
    BY <1>4 DEF Accept, Spawn, CloseServer, Closing, Top, Leave
  <2>2. torn' = torn /\ spoiled' = spoiled
    BY <2>1 DEF ServerQuietStep
  <2> QED
    BY <1>4, <2>2, ServerStepsKeep
<1>5. ASSUME NEW c \in Conns, Serve(c)
      PROVE  Good' /\ torn' = torn /\ spoiled' = spoiled
  <2>1. torn' = torn /\ spoiled' = spoiled
    BY <1>5 DEF Serve
  <2>2. CASE Connected(c)
    BY <1>5, <2>1, <2>2, ServeKeeps
  <2>3. CASE ~Connected(c)
    BY <1>5, <2>1, <2>3, LateServeKeeps
  <2> QED
    BY <2>2, <2>3
<1>6. ASSUME NEW c \in Conns, NEW effect \in Effects, Answer(c, effect)
      PROVE  Good' /\ torn' = torn /\ spoiled' = spoiled
  <2>1. torn' = torn /\ spoiled' = spoiled
    BY <1>6 DEF Answer
  <2>2. CASE effect = "drop" \/ ~Connected(c)
    BY <1>6, <2>1, <2>2, SilentAnswerKeeps
  <2>3. CASE effect # "drop" /\ Connected(c)
    BY <1>6, <2>1, <2>3, AnswerKeeps
  <2> QED
    BY <2>2, <2>3
<1>7. \A n : ~PortRead(n)
  BY DEF PortRead
<1>8. \A effect : ~PortAnswer(effect)
  BY DEF PortAnswer
<1>9. ~PortLate
  BY DEF PortLate
<1> QED
  BY <1>1, <1>2, <1>3, <1>4, <1>5, <1>6, <1>7, <1>8, <1>9 DEF LinkNext

LEMMA TransportStays ==
    ASSUME [LinkNext]_linkVars
    PROVE  transport' = transport
<1>1. CASE UNCHANGED linkVars
  BY <1>1 DEF linkVars
<1>2. CASE LinkNext
  <2>1. ASSUME NEW A, ServerQuietStep(A) PROVE transport' = transport
    BY <2>1 DEF ServerQuietStep
  <2>2. CASE Accept \/ Spawn \/ CloseServer \/ Closing \/ \E c \in Conns : Top(c) \/ Leave(c)
    <3>1. \E A : ServerQuietStep(A)
      BY <2>2 DEF Accept, Spawn, CloseServer, Closing, Top, Leave
    <3> QED
      BY <2>1, <3>1
  <2>3. ASSUME NEW req, WriteRequest(req) PROVE transport' = transport
    BY <2>3 DEF WriteRequest
  <2>4. ASSUME NEW n, NEW stale, Receive(n, stale) PROVE transport' = transport
    BY <2>4 DEF Receive
  <2>5. ASSUME NEW c, Connect(c) PROVE transport' = transport
    BY <2>5 DEF Connect
  <2>6. ASSUME Disconnect PROVE transport' = transport
    BY <2>6 DEF Disconnect
  <2>7. ASSUME NEW c, Serve(c) PROVE transport' = transport
    BY <2>7 DEF Serve
  <2>8. ASSUME NEW c, NEW effect, Answer(c, effect) PROVE transport' = transport
    BY <2>8 DEF Answer
  <2>9. ASSUME NEW n, PortRead(n) PROVE transport' = transport
    BY <2>9 DEF PortRead
  <2>10. ASSUME NEW effect, PortAnswer(effect) PROVE transport' = transport
    BY <2>10 DEF PortAnswer
  <2>11. ASSUME PortLate PROVE transport' = transport
    BY <2>11 DEF PortLate
  <2> QED
    BY <1>2, <2>2, <2>3, <2>4, <2>5, <2>6, <2>7, <2>8, <2>9, <2>10, <2>11 DEF LinkNext
<1> QED
  BY <1>1, <1>2

LEMMA MarksStay ==
    ASSUME Tcp, LinkNext, ~Disconnect
    PROVE  torn' = torn /\ spoiled' = spoiled
<1>1. ASSUME NEW A, ServerQuietStep(A) PROVE torn' = torn /\ spoiled' = spoiled
  BY <1>1 DEF ServerQuietStep
<1>2. CASE Accept \/ Spawn \/ CloseServer \/ Closing \/ \E c \in Conns : Top(c) \/ Leave(c)
  <2>1. \E A : ServerQuietStep(A)
    BY <1>2 DEF Accept, Spawn, CloseServer, Closing, Top, Leave
  <2> QED
    BY <1>1, <2>1
<1>3. ASSUME NEW req \in Requests \cup RtuRequests, WriteRequest(req) PROVE torn' = torn /\ spoiled' = spoiled
  BY <1>3 DEF WriteRequest
<1>4. ASSUME NEW n \in PiecesOf(down, Pieces), NEW stale \in {0, 128}, Receive(n, stale) PROVE torn' = torn /\ spoiled' = spoiled
  BY <1>4 DEF Receive
<1>5. ASSUME NEW c \in Conns, Connect(c) PROVE torn' = torn /\ spoiled' = spoiled
  BY <1>5 DEF Connect
<1>6. ASSUME NEW c \in Conns, Serve(c) PROVE torn' = torn /\ spoiled' = spoiled
  BY <1>6 DEF Serve
<1>7. ASSUME NEW c \in Conns, NEW effect \in Effects, Answer(c, effect) PROVE torn' = torn /\ spoiled' = spoiled
  BY <1>7 DEF Answer
<1>8. \A n : ~PortRead(n)
  BY DEF PortRead
<1>9. \A effect : ~PortAnswer(effect)
  BY DEF PortAnswer
<1>10. ~PortLate
  BY DEF PortLate
<1> QED
  BY <1>2, <1>3, <1>4, <1>5, <1>6, <1>7, <1>8, <1>9, <1>10 DEF LinkNext

(* A connection lost in the middle of an answer stays so, and spoils.      *)
LEMMA TornStaysTorn ==
    ASSUME Tcp, torn => spoiled, [LinkNext]_linkVars
    PROVE  (torn' => spoiled') /\ (torn => torn')
<1>1. CASE UNCHANGED linkVars
  BY <1>1 DEF linkVars
<1>2. CASE Disconnect
  BY <1>2 DEF Disconnect
<1>3. CASE LinkNext /\ ~Disconnect
  BY <1>3, MarksStay
<1> QED
  BY <1>1, <1>2, <1>3

LEMMA LinkStepKeeps ==
    ASSUME LinkIInv, [LinkNext]_linkVars
    PROVE  LinkIInv'
<1> SUFFICES ASSUME Tcp' PROVE (torn' => spoiled') /\ (~torn' => Good')
  BY DEF LinkIInv
<1>1. Tcp
  BY TransportStays DEF Tcp
<1>2. (torn => spoiled) /\ (~torn => Good)
  BY <1>1 DEF LinkIInv
<1>3. (torn' => spoiled') /\ (torn => torn')
  BY <1>1, <1>2, TornStaysTorn
<1> SUFFICES ASSUME ~torn' PROVE Good'
  BY <1>3
<1>4. Good
  BY <1>2, <1>3
<1>5. CASE UNCHANGED linkVars
  BY <1>4, <1>5, StutteringKeeps
<1>6. CASE Disconnect
  BY <1>1, <1>4, <1>6, DisconnectKeeps
<1>7. CASE LinkNext /\ ~Disconnect
  BY <1>1, <1>4, <1>7, LinkSteps
<1> QED
  BY <1>5, <1>6, <1>7

(* Over TCP, while no connection was lost in the middle of an answer, what *)
(* is under way is accounted for byte by byte: requests on the line and in *)
(* the server's hand, answers on the line and in the accumulator, and the  *)
(* responses reported (writeRequest, clientLoop, onBytesReceived).         *)
THEOREM LinkInvariance == LinkSpec => []LinkIInv
<1>1. LinkInit => LinkIInv
  BY LinkStarts
<1>2. LinkIInv /\ [LinkNext]_linkVars => LinkIInv'
  BY LinkStepKeeps
<1> QED
  BY <1>1, <1>2, PTL DEF LinkSpec

(* However the bytes are cut and whatever ids a fault leaves behind, every *)
(* TCP response is an answer the device sent, once and in order, with its  *)
(* data: MbapAccumulator, parseTcpResponse.                                *)
THEOREM TcpResponsesAreAnswers == LinkSpec => [](Tcp => ResponsesAreAnswers)
<1>1. LinkIInv => (Tcp => ResponsesAreAnswers)
  BY MatchesAreResponses DEF LinkIInv, ResponsesAreAnswers
<1> QED
  BY <1>1, LinkInvariance, PTL

(* No complete answer waits in the accumulator for bytes to come, whatever *)
(* the pieces it came in: appendAndExtract loops until nothing is left.    *)
THEOREM TcpHoldsNothingBack == LinkSpec => [](Tcp => NothingHeldBack)
<1>1. LinkIInv => (Tcp => NothingHeldBack)
  BY NothingWaits
<1> QED
  BY <1>1, LinkInvariance, PTL

(* A response is matched to the request it answers, though ids are used    *)
(* again as soon as they are free: TransactionIdAllocator, m_inFlight.     *)
THEOREM TcpAnswersFitRequests == LinkSpec => [](Tcp => AnswersFitRequests)
<1>1. LinkIInv => (Tcp => AnswersFitRequests)
  BY MatchesFit
<1> QED
  BY <1>1, LinkInvariance, PTL
=============================================================================
