-------------------------- MODULE SimulatorProofs --------------------------
(***************************************************************************)
(* Proofs about the simulator's engine, its fault injector and its drills, *)
(* for any slaves, points and drill files, any number of sessions and      *)
(* every interleaving of the tick thread with the console and the masters. *)
(***************************************************************************)
EXTENDS SimulatorEngine, SequenceLemmas, SequenceTheorems, FiniteSetTheorems,
        FunctionTheorems, TLAPS

Keys == {HandleKey(s) : s \in Steps}

(* The specifications a session may have been given. *)
AllSpecs == Specs \cup UNION {{SpecOf(step, place) : place \in Range(Places(step))} : step \in Steps}

SessionRecords == [spec : AllSpecs, state : FaultStates, age : Nat, value : Int]

(* What the steps of a drill are folded over. *)
Outcomes == [ss : Seq(SessionRecords), handles : [Keys -> Seq(Int)], fail : BOOLEAN]

(* A fault of the drill that is ACTIVE is in reach of a RECOVER. *)
Held(acc, base, exempt) ==
    \A h \in 1 .. Len(acc.ss) :
        acc.ss[h].state = "ACTIVE" /\ h > base /\ h \notin exempt =>
            \E k \in Keys : h \in Range(acc.handles[k])

(* From a value on its way back to another. *)
Nearer(v, w) == (RecoverValue =< w /\ w =< v) \/ (v =< w /\ w =< RecoverValue)

(* A session goes on, from ACTIVE to RECOVERING to its end, and its value  *)
(* back to where it was.                                                   *)
Onward(s, t) ==
    /\ t.spec = s.spec
    /\ t.state = "ACTIVE" => s.state = "ACTIVE"
    /\ ~Live(s) => ~Live(t)
    /\ s.spec.ramp >= 0 /\ s.state = "RECOVERING" /\ t.state = "RECOVERING" => Nearer(s.value, t.value)

(* Sessions are added and those there were go on, and a failure is not     *)
(* forgotten.                                                              *)
GoOn(ss, tt) == Len(ss) <= Len(tt) /\ \A h \in 1 .. Len(ss) : Onward(ss[h], tt[h])
Follows(a, b) == GoOn(a.ss, b.ss) /\ (a.fail => b.fail)

PlaceDone(step, place, ss, base) ==
    IF place.reg < 0 THEN ~CellStep(step)
    ELSE \E h \in 1 .. Len(ss) : h > base /\ ss[h].spec = SpecOf(step, place)

StepDone(step, ss, base) ==
    step.action = "INJECT" =>
        /\ step.fault \in FaultTypes
        /\ \A place \in Range(Places(step)) : PlaceDone(step, place, ss, base)

-----------------------------------------------------------------------------
(* Types *)

LEMMA StepsAreTyped ==
    ASSUME NEW step \in Steps
    PROVE  /\ step.t \in Int /\ step.slave \in Int /\ step.count \in Int
           /\ step.target \in Int /\ step.ramp \in Int
           /\ HandleKey(step) \in Keys
<1>1. PICK f \in DrillFiles : step \in Range(f.steps)
  BY DEF Steps
<1> QED
  BY <1>1, DrillFilesAssumption DEF Keys

LEMMA SpecsAreTyped ==
    ASSUME NEW spec \in AllSpecs
    PROVE  spec.target \in Int /\ spec.ramp \in Int
<1>1. CASE spec \in Specs
  BY <1>1, SpecAssumption
<1>2. CASE spec \notin Specs
  <2>1. PICK step \in Steps : \E place \in Range(Places(step)) : spec = SpecOf(step, place)
    BY <1>2 DEF AllSpecs
  <2>2. PICK place : spec = SpecOf(step, place)
    BY <2>1
  <2> QED
    BY <2>2, StepsAreTyped DEF SpecOf
<1> QED
  BY <1>1, <1>2

(* A step injects at finitely many places, each at a register or nowhere. *)
LEMMA PlacesAreTyped ==
    ASSUME NEW step \in Steps
    PROVE  /\ Places(step) \in Seq(Range(Places(step)))
           /\ \A place \in Range(Places(step)) : place.reg \in Int
<1> DEFINE q == SlavesOf(step)
           n == PlacesOfSlave(step)
           at(i) == PlaceAt(step, q[1 + ((i - 1) \div n)], (i - 1) % n)
<1>1. n \in Nat
  BY StepsAreTyped DEF PlacesOfSlave, CellStep
<1>2. Len(q) \in Nat
  <2>1. CASE step.slave = 0
    <3>1. Cardinality(Slaves) \in Nat
      BY BankAssumption, FS_CardinalityType
    <3> DEFINE c(i) == CHOOSE x \in Slaves : Cardinality({y \in Slaves : Earlier(y, x)}) = i - 1
    <3>2. q = [i \in 1 .. Cardinality(Slaves) |-> c(i)]
      BY <2>1 DEF SlavesOf, InOrder
    <3> HIDE DEF c, q
    <3> QED
      BY <3>1, <3>2
  <2>2. CASE step.slave # 0
    BY <2>2 DEF SlavesOf
  <2> QED
    BY <2>1, <2>2
<1>3. Places(step) = [i \in 1 .. n * Len(q) |-> at(i)]
  BY DEF Places
<1>4. \A slave, name, cell : FindPoint(slave, name, cell) \in Int
  <2> SUFFICES ASSUME NEW slave, NEW name, NEW cell PROVE FindPoint(slave, name, cell) \in Int
    OBVIOUS
  <2> DEFINE found == {p \in PointsOf(slave) : p.name = name /\ p.cell = cell}
  <2>1. \A p \in found : p.reg \in Int
    BY PointAssumption DEF PointsOf, Addrs
  <2>2. FindPoint(slave, name, cell) = IF found = {} THEN -1 ELSE (CHOOSE p \in found : TRUE).reg
    BY DEF FindPoint
  <2> HIDE DEF found
  <2> QED
    BY <2>1, <2>2
<1>5. \A i \in 1 .. n * Len(q) : at(i).reg \in Int
  BY <1>4 DEF PlaceAt
<1> HIDE DEF n, q, at
<1>6. n * Len(q) \in Nat
  BY <1>1, <1>2
<1>7. \A place \in Range(Places(step)) : \E i \in 1 .. n * Len(q) : place = at(i)
  BY <1>3 DEF Range
<1>8. Places(step) \in Seq(Range(Places(step)))
  <2>1. \A i \in 1 .. n * Len(q) : at(i) \in Range(Places(step))
    BY <1>3 DEF Range
  <2> QED
    BY <1>3, <1>6, <2>1
<1> QED
  BY <1>5, <1>7, <1>8

(* The states of a session and what they leave of it. *)
LEMMA SessionsChange ==
    ASSUME NEW s \in SessionRecords
    PROVE  /\ /\ ToRecovering(s) \in SessionRecords
              /\ ToRecovering(s).spec = s.spec /\ ToRecovering(s).state = "RECOVERING"
              /\ ToRecovering(s).value = s.value
           /\ /\ ToAborted(s) \in SessionRecords
              /\ ToAborted(s).spec = s.spec /\ ToAborted(s).state = "ABORTED"
           /\ /\ ToIdle(s) \in SessionRecords
              /\ ToIdle(s).spec = s.spec /\ ToIdle(s).state = "IDLE"
           /\ \A v \in Int : LET t == [s EXCEPT !.value = v]
                             IN  t \in SessionRecords /\ t.spec = s.spec /\ t.state = s.state /\ t.value = v
           /\ \A a \in Nat : LET t == [s EXCEPT !.age = a]
                             IN  t \in SessionRecords /\ t.spec = s.spec /\ t.state = s.state /\ t.value = s.value
<1>1. PICK sp \in AllSpecs, st \in FaultStates, ag \in Nat, va \in Int :
         s = [spec |-> sp, state |-> st, age |-> ag, value |-> va]
  BY DEF SessionRecords
<1>2. ToRecovering(s) = [spec |-> sp, state |-> "RECOVERING", age |-> 0, value |-> va]
  <2>1. PICK u : u = [s EXCEPT !.state = "RECOVERING"]
    OBVIOUS
  <2>2. u = [spec |-> sp, state |-> "RECOVERING", age |-> ag, value |-> va]
    BY <1>1, <2>1
  <2>3. PICK v : v = [u EXCEPT !.age = 0]
    OBVIOUS
  <2>4. v = [spec |-> sp, state |-> "RECOVERING", age |-> 0, value |-> va]
    BY <2>2, <2>3
  <2> QED
    BY <2>1, <2>3, <2>4 DEF ToRecovering
<1>3. ToAborted(s) = [spec |-> sp, state |-> "ABORTED", age |-> 0, value |-> 0]
  <2>1. PICK u : u = [s EXCEPT !.state = "ABORTED"]
    OBVIOUS
  <2>2. u = [spec |-> sp, state |-> "ABORTED", age |-> ag, value |-> va]
    BY <1>1, <2>1
  <2>3. PICK v : v = [u EXCEPT !.age = 0]
    OBVIOUS
  <2>4. v = [spec |-> sp, state |-> "ABORTED", age |-> 0, value |-> va]
    BY <2>2, <2>3
  <2>5. ToAborted(s) = [v EXCEPT !.value = 0]
    BY <2>1, <2>3 DEF ToAborted
  <2> QED
    BY <2>4, <2>5
<1>4. ToIdle(s) = [spec |-> sp, state |-> "IDLE", age |-> 0, value |-> 0]
  <2>1. PICK u : u = [s EXCEPT !.state = "IDLE"]
    OBVIOUS
  <2>2. u = [spec |-> sp, state |-> "IDLE", age |-> ag, value |-> va]
    BY <1>1, <2>1
  <2>3. PICK v : v = [u EXCEPT !.age = 0]
    OBVIOUS
  <2>4. v = [spec |-> sp, state |-> "IDLE", age |-> 0, value |-> va]
    BY <2>2, <2>3
  <2>5. ToIdle(s) = [v EXCEPT !.value = 0]
    BY <2>1, <2>3 DEF ToIdle
  <2> QED
    BY <2>4, <2>5
<1>5. \A v \in Int : [s EXCEPT !.value = v] = [spec |-> sp, state |-> st, age |-> ag, value |-> v]
  BY <1>1
<1>6. \A a \in Nat : [s EXCEPT !.age = a] = [spec |-> sp, state |-> st, age |-> a, value |-> va]
  BY <1>1
<1> QED
  BY <1>1, <1>2, <1>3, <1>4, <1>5, <1>6 DEF SessionRecords, FaultStates

LEMMA OnwardIsAnOrder ==
    /\ \A s \in SessionRecords : Onward(s, s)
    /\ \A s, t, u \in SessionRecords : Onward(s, t) /\ Onward(t, u) => Onward(s, u)
<1>1. \A v \in Int : Nearer(v, v)
  BY DEF Nearer, RecoverValue
<1>2. \A v, w, x \in Int : Nearer(v, w) /\ Nearer(w, x) => Nearer(v, x)
  BY DEF Nearer, RecoverValue
<1>3. \A s \in SessionRecords : s.value \in Int /\ s.state \in FaultStates
  BY DEF SessionRecords
<1>4. ASSUME NEW s \in SessionRecords, NEW t \in SessionRecords, NEW u \in SessionRecords,
             Onward(s, t), Onward(t, u)
      PROVE  Onward(s, u)
  <2>1. u.spec = s.spec /\ (u.state = "ACTIVE" => s.state = "ACTIVE") /\ (~Live(s) => ~Live(u))
    BY <1>4 DEF Onward
  <2>2. ASSUME s.spec.ramp >= 0, s.state = "RECOVERING", u.state = "RECOVERING"
        PROVE  Nearer(s.value, u.value)
    <3>1. t.state = "RECOVERING"
      <4>1. t.state # "ACTIVE" /\ Live(t)
        BY <1>4, <2>2 DEF Onward, Live
      <4> QED
        BY <4>1 DEF Live
    <3>2. Nearer(s.value, t.value) /\ Nearer(t.value, u.value)
      BY <1>4, <2>2, <3>1 DEF Onward
    <3> QED
      BY <1>2, <1>3, <3>2
  <2> QED
    BY <2>1, <2>2 DEF Onward
<1> QED
  BY <1>1, <1>3, <1>4 DEF Onward

LEMMA GoOnIsAnOrder ==
    /\ \A ss \in Seq(SessionRecords) : GoOn(ss, ss)
    /\ \A ss, tt, uu \in Seq(SessionRecords) : GoOn(ss, tt) /\ GoOn(tt, uu) => GoOn(ss, uu)
<1>1. \A ss \in Seq(SessionRecords) :
         Len(ss) \in Nat /\ \A h \in 1 .. Len(ss) : ss[h] \in SessionRecords
  OBVIOUS
<1>2. ASSUME NEW ss \in Seq(SessionRecords), NEW tt \in Seq(SessionRecords),
             NEW uu \in Seq(SessionRecords), GoOn(ss, tt), GoOn(tt, uu)
      PROVE  GoOn(ss, uu)
  <2>1. Len(ss) <= Len(tt) /\ Len(tt) <= Len(uu) /\ Len(ss) <= Len(uu)
    BY <1>1, <1>2 DEF GoOn
  <2>2. ASSUME NEW h \in 1 .. Len(ss) PROVE Onward(ss[h], uu[h])
    <3>1. h \in 1 .. Len(tt) /\ h \in 1 .. Len(uu)
      BY <1>1, <2>1
    <3>2. Onward(ss[h], tt[h]) /\ Onward(tt[h], uu[h])
      BY <1>2, <3>1 DEF GoOn
    <3> QED
      BY <1>1, <3>1, <3>2, OnwardIsAnOrder
  <2> QED
    BY <2>1, <2>2 DEF GoOn
<1> QED
  BY <1>1, <1>2, OnwardIsAnOrder DEF GoOn

LEMMA FollowsIsTransitive ==
    ASSUME NEW a \in Outcomes, NEW b \in Outcomes, NEW c \in Outcomes, Follows(a, b), Follows(b, c)
    PROVE  Follows(a, c)
<1>1. a.ss \in Seq(SessionRecords) /\ b.ss \in Seq(SessionRecords) /\ c.ss \in Seq(SessionRecords)
  BY DEF Outcomes
<1> QED
  BY <1>1, GoOnIsAnOrder DEF Follows

(* What an INJECT has done stays done. *)
LEMMA DoneStaysDone ==
    ASSUME NEW a \in Outcomes, NEW b \in Outcomes, Follows(a, b), NEW base \in Nat, NEW step
    PROVE  /\ \A place : PlaceDone(step, place, a.ss, base) => PlaceDone(step, place, b.ss, base)
           /\ StepDone(step, a.ss, base) => StepDone(step, b.ss, base)
<1>1. Len(a.ss) \in Nat /\ Len(b.ss) \in Nat
  BY DEF Outcomes
<1>2. \A place : PlaceDone(step, place, a.ss, base) => PlaceDone(step, place, b.ss, base)
  BY <1>1 DEF Follows, GoOn, Onward, PlaceDone
<1> QED
  BY <1>2 DEF StepDone

-----------------------------------------------------------------------------
(* INJECT *)

LEMMA PushIsAnOutcome ==
    ASSUME NEW acc \in Outcomes, NEW step \in Steps, NEW place \in Range(Places(step))
    PROVE  /\ Push(acc, step, place) \in Outcomes
           /\ Push(acc, step, place).ss = Append(acc.ss, ToActive(SpecOf(step, place)))
           /\ Push(acc, step, place).fail = acc.fail
           /\ Push(acc, step, place).handles =
                  [acc.handles EXCEPT ![HandleKey(step)] = Append(@, Len(acc.ss) + 1)]
<1>1. SpecOf(step, place) \in AllSpecs
  BY DEF AllSpecs
<1>2. ToActive(SpecOf(step, place)) \in SessionRecords
  BY <1>1, SpecsAreTyped DEF ToActive, SessionRecords, FaultStates
<1>3. HandleKey(step) \in Keys
  BY DEF Keys
<1> DEFINE s == ToActive(SpecOf(step, place))
           k == HandleKey(step)
<1>4. Push(acc, step, place) =
         [acc EXCEPT !.ss = Append(acc.ss, s), !.handles[k] = Append(@, Len(Append(acc.ss, s)))]
  BY DEF Push, Triggered
<1> HIDE DEF s, k
<1>5. /\ acc.ss \in Seq(SessionRecords) /\ acc.handles \in [Keys -> Seq(Int)] /\ acc.fail \in BOOLEAN
  BY DEF Outcomes
<1>6. Len(Append(acc.ss, s)) = Len(acc.ss) + 1 /\ Append(acc.ss, s) \in Seq(SessionRecords)
      /\ Len(acc.ss) + 1 \in Int
  BY <1>2, <1>5 DEF s
<1>7. [acc.handles EXCEPT ![k] = Append(@, Len(acc.ss) + 1)] \in [Keys -> Seq(Int)]
  BY <1>3, <1>5, <1>6 DEF k
<1>8. Push(acc, step, place) =
         [ss |-> Append(acc.ss, s), fail |-> acc.fail,
          handles |-> [acc.handles EXCEPT ![k] = Append(@, Len(acc.ss) + 1)]]
  BY <1>4, <1>6 DEF Outcomes
<1> QED
  BY <1>5, <1>6, <1>7, <1>8 DEF Outcomes, s, k

LEMMA InjectAtIsAnOutcome ==
    ASSUME NEW acc \in Outcomes, NEW step \in Steps, NEW place \in Range(Places(step))
    PROVE  InjectAt(acc, step, place) \in Outcomes
<1>1. CASE place.reg >= 0
  BY <1>1, PushIsAnOutcome DEF InjectAt
<1>2. CASE ~(place.reg >= 0)
  BY <1>2 DEF InjectAt, Outcomes, CellStep
<1> QED
  BY <1>1, <1>2

(* A session that is added is filed under the key of its step. *)
LEMMA InjectAtKeeps ==
    ASSUME NEW acc \in Outcomes, NEW step \in Steps, NEW place \in Range(Places(step)),
           NEW base \in Nat, base <= Len(acc.ss), NEW exempt, Held(acc, base, exempt)
    PROVE  LET to == InjectAt(acc, step, place)
           IN  /\ Follows(acc, to) /\ Held(to, base, exempt)
               /\ ~to.fail => PlaceDone(step, place, to.ss, base)
<1> DEFINE to == InjectAt(acc, step, place)
           k == HandleKey(step)
           s == ToActive(SpecOf(step, place))
<1>1. CASE place.reg >= 0
  <2>1. /\ to.ss = Append(acc.ss, s) /\ to.fail = acc.fail
        /\ to.handles = [acc.handles EXCEPT ![k] = Append(@, Len(acc.ss) + 1)]
    BY <1>1, PushIsAnOutcome DEF InjectAt
  <2>2. /\ acc.ss \in Seq(SessionRecords) /\ acc.handles \in [Keys -> Seq(Int)]
        /\ k \in Keys /\ s.spec = SpecOf(step, place)
    BY DEF Outcomes, Keys, ToActive
  <2> HIDE DEF to, k, s
  <2> DEFINE n == Len(acc.ss)
  <2>3. /\ n \in Nat /\ Len(to.ss) = n + 1 /\ to.ss[n + 1] = s
        /\ \A h \in 1 .. n : to.ss[h] = acc.ss[h]
    BY <2>1, <2>2
  <2>4. Follows(acc, to)
    <3>1. \A h \in 1 .. n : acc.ss[h] \in SessionRecords
      BY <2>2
    <3>2. GoOn(acc.ss, to.ss)
      BY <2>3, <3>1, OnwardIsAnOrder DEF GoOn
    <3> QED
      BY <2>1, <3>2 DEF Follows
  <2>5. PlaceDone(step, place, to.ss, base)
    <3>1. n + 1 \in 1 .. Len(to.ss) /\ n + 1 > base /\ to.ss[n + 1].spec = SpecOf(step, place)
      BY <2>2, <2>3
    <3>2. ~(place.reg < 0)
      BY <1>1, PlacesAreTyped
    <3> QED
      BY <3>1, <3>2 DEF PlaceDone
  <2>6. Held(to, base, exempt)
    <3> SUFFICES ASSUME NEW h \in 1 .. Len(to.ss), to.ss[h].state = "ACTIVE", h > base, h \notin exempt
                 PROVE  \E key \in Keys : h \in Range(to.handles[key])
      BY DEF Held
    <3>1. acc.handles[k] \in Seq(Int)
      BY <2>2
    <3>2. CASE h = n + 1
      <4>1. to.handles[k] = Append(acc.handles[k], n + 1)
        BY <2>1, <2>2
      <4>2. /\ Len(acc.handles[k]) + 1 \in DOMAIN to.handles[k]
            /\ to.handles[k][Len(acc.handles[k]) + 1] = n + 1
        BY <3>1, <4>1
      <4> QED
        BY <2>2, <3>2, <4>2 DEF Range
    <3>3. CASE h # n + 1
      <4>1. h \in 1 .. n
        BY <2>3, <3>3
      <4>2. acc.ss[h].state = "ACTIVE"
        BY <2>3, <4>1
      <4>3. PICK key \in Keys : h \in Range(acc.handles[key])
        BY <4>1, <4>2 DEF Held
      <4>4. PICK i \in DOMAIN acc.handles[key] : acc.handles[key][i] = h
        BY <4>3 DEF Range
      <4>5. i \in DOMAIN to.handles[key] /\ to.handles[key][i] = h
        <5>1. CASE key = k
          <6>1. to.handles[key] = Append(acc.handles[key], n + 1)
            BY <2>1, <2>2, <5>1
          <6> QED
            BY <3>1, <4>4, <5>1, <6>1
        <5>2. CASE key # k
          BY <2>1, <2>2, <4>4, <5>2
        <5> QED
          BY <5>1, <5>2
      <4> QED
        BY <4>5 DEF Range
    <3> QED
      BY <3>2, <3>3
  <2> QED
    BY <2>4, <2>5, <2>6 DEF to
<1>2. CASE ~(place.reg >= 0)
  <2>1. to = [acc EXCEPT !.fail = @ \/ CellStep(step)]
    BY <1>2 DEF InjectAt
  <2> HIDE DEF to
  <2>2. to.ss = acc.ss /\ to.handles = acc.handles /\ to.fail = (acc.fail \/ CellStep(step))
    BY <2>1 DEF Outcomes
  <2>3. acc.ss \in Seq(SessionRecords)
    BY DEF Outcomes
  <2>4. Follows(acc, to)
    <3>1. acc.fail => to.fail
      BY <2>2
    <3>2. GoOn(acc.ss, to.ss)
      BY <2>2, <2>3, GoOnIsAnOrder
    <3> QED
      BY <3>1, <3>2 DEF Follows
  <2>5. Held(to, base, exempt)
    BY <2>2 DEF Held
  <2>6. ~to.fail => PlaceDone(step, place, to.ss, base)
    <3>1. CellStep(step) => to.fail
      BY <2>2
    <3>2. place.reg < 0
      BY <1>2, PlacesAreTyped
    <3> QED
      BY <3>1, <3>2 DEF PlaceDone
  <2> QED
    BY <2>4, <2>5, <2>6 DEF to
<1> QED
  BY <1>1, <1>2

(* fireInject goes through the places one after the other. *)
LEMMA PlacesOneByOne ==
    ASSUME NEW acc \in Outcomes, NEW step \in Steps
    PROVE  \E h : /\ h[0] = acc
                  /\ \A i \in 1 .. Len(Places(step)) : h[i] = InjectAt(h[i - 1], step, Places(step)[i])
                  /\ \A i \in 0 .. Len(Places(step)) : h[i] \in Outcomes
                  /\ FoldLeft(LAMBDA a, place : InjectAt(a, step, place), acc, Places(step))
                        = h[Len(Places(step))]
<1> DEFINE A == Outcomes
           places == Places(step)
           n == Len(places)
           Step(g, s) == IF s = {} THEN acc ELSE InjectAt(g[s \ {Max(s)}], step, places[Max(s)])
           IsIter(g) == g = [s \in SUBSET (1 .. n) |-> Step(g, s)]
           iter == CHOOSE g : IsIter(g)
           F == [i \in 1 .. n |-> [a \in A |-> InjectAt(a, step, places[i])]]
<1>1. n \in Nat /\ DOMAIN places = 1 .. n /\ \A i \in 1 .. n : places[i] \in Range(places)
  BY PlacesAreTyped
<1>2. \A i \in 1 .. n : F[i] \in [A -> A] /\ \A a \in A : F[i][a] = InjectAt(a, step, places[i])
  BY <1>1, InjectAtIsAnOutcome
<1>4. FoldLeft(LAMBDA a, place : InjectAt(a, step, place), acc, places) = iter[1 .. n]
  BY <1>1 DEF FoldLeft, MapThenFoldSet
<1> HIDE DEF A, places, n, F
<1>5. ASSUME NEW s \in SUBSET (1 .. n), s # {} PROVE Max(s) \in 1 .. n /\ s \ {Max(s)} \in SUBSET (1 .. n)
  BY <1>1, <1>5, MaxIsGreatest
<1>3. acc \in A
  BY DEF A
<1>6. \E g : IsIter(g)
  <2>1. PICK g : IsFold(g, F, acc, n) /\ \A s \in SUBSET (1 .. n) : g[s] \in A
    BY <1>1, <1>2, <1>3, FoldExists
  <2>2. \A s \in SUBSET (1 .. n) : FoldStep(g, F, acc, s) = Step(g, s)
    BY <1>2, <1>5, <2>1 DEF FoldStep
  <2>3. IsIter(g)
    BY <2>1, <2>2 DEF IsFold
  <2> QED
    BY <2>3
<1>7. IsIter(iter)
  BY <1>6
<1> HIDE DEF iter
<1>8. iter[{}] = acc
  BY <1>7
<1>9. FoldsOver(iter, F, acc, A, n)
  <2>1. ASSUME NEW s \in SUBSET (1 .. n), s # {}, iter[s \ {Max(s)}] \in A
        PROVE  iter[s] = F[Max(s)][iter[s \ {Max(s)}]]
    BY <1>2, <1>5, <1>7, <2>1
  <2> QED
    BY <1>8, <2>1 DEF FoldsOver
<1> HIDE DEF IsIter, Step
<1>10. PICK h : IsRun(h, F, acc, A, n) /\ iter[1 .. n] = h[n]
  BY <1>1, <1>2, <1>3, <1>9, FoldUnwinds
<1>11. \A i \in 1 .. n : h[i] = InjectAt(h[i - 1], step, places[i])
  <2>1. \A i \in 1 .. n : i - 1 \in 0 .. n
    BY <1>1
  <2> QED
    BY <1>2, <1>10, <2>1 DEF IsRun
<1> QED
  BY <1>4, <1>10, <1>11 DEF A, places, n, IsRun

LEMMA FireInjectIsAnOutcome ==
    ASSUME NEW acc \in Outcomes, NEW step \in Steps
    PROVE  FireInject(acc, step) \in Outcomes
<1>1. CASE BadStep(step)
  BY <1>1 DEF FireInject, Outcomes
<1>2. CASE ~BadStep(step)
  <2>1. Len(Places(step)) \in 0 .. Len(Places(step))
    BY PlacesAreTyped
  <2> QED
    BY <1>2, <2>1, PlacesOneByOne DEF FireInject
<1> QED
  BY <1>1, <1>2

LEMMA FireInjectKeeps ==
    ASSUME NEW acc \in Outcomes, NEW step \in Steps, step.action = "INJECT",
           NEW base \in Nat, base <= Len(acc.ss), NEW exempt, Held(acc, base, exempt)
    PROVE  LET to == FireInject(acc, step)
           IN  /\ Follows(acc, to) /\ Held(to, base, exempt)
               /\ ~to.fail => StepDone(step, to.ss, base)
<1> DEFINE to == FireInject(acc, step)
<1>1. CASE BadStep(step)
  <2>1. to = [acc EXCEPT !.fail = TRUE]
    BY <1>1 DEF FireInject
  <2> HIDE DEF to
  <2>2. to.ss = acc.ss /\ to.handles = acc.handles /\ to.fail /\ acc.ss \in Seq(SessionRecords)
    BY <2>1 DEF Outcomes
  <2>3. Follows(acc, to)
    BY <2>2, GoOnIsAnOrder DEF Follows
  <2>4. Held(to, base, exempt)
    BY <2>2 DEF Held
  <2> QED
    BY <2>2, <2>3, <2>4 DEF to
<1>2. CASE ~BadStep(step)
  <2> DEFINE places == Places(step)
             n == Len(places)
             Done(a, i) == ~a.fail => \A j \in 1 .. i : PlaceDone(step, places[j], a.ss, base)
  <2>1. PICK h : /\ h[0] = acc
                 /\ \A i \in 1 .. n : h[i] = InjectAt(h[i - 1], step, places[i])
                 /\ \A i \in 0 .. n : h[i] \in Outcomes
                 /\ to = h[n]
    <3> DEFINE r == FoldLeft(LAMBDA a, place : InjectAt(a, step, place), acc, places)
    <3>1. to = r
      BY <1>2 DEF FireInject
    <3>2. \E h : /\ h[0] = acc
                 /\ \A i \in 1 .. n : h[i] = InjectAt(h[i - 1], step, places[i])
                 /\ \A i \in 0 .. n : h[i] \in Outcomes
                 /\ r = h[n]
      BY PlacesOneByOne
    <3> HIDE DEF r, to, n
    <3> QED
      BY <3>1, <3>2
  <2>2. n \in Nat /\ DOMAIN places = 1 .. n /\ \A i \in 1 .. n : places[i] \in Range(places)
    BY PlacesAreTyped
  <2> HIDE DEF to, n
  <2> DEFINE G == {i \in 0 .. n : Follows(acc, h[i]) /\ Held(h[i], base, exempt) /\ Done(h[i], i)}
  <2>3. 0 \in G
    <3>1. 0 \in 0 .. n
      BY <2>2
    <3>2. Follows(acc, h[0])
      BY <2>1, GoOnIsAnOrder DEF Follows, Outcomes
    <3>3. Held(h[0], base, exempt) /\ Done(h[0], 0)
      BY <2>1
    <3> QED
      BY <3>1, <3>2, <3>3
  <2>4. ASSUME NEW i \in 0 .. n - 1, i \in G PROVE i + 1 \in G
    <3> DEFINE b == h[i]
               c == h[i + 1]
    <3>1. /\ i \in 0 .. n /\ i + 1 \in 1 .. n /\ i + 1 \in 0 .. n
          /\ \A j \in 1 .. i + 1 : j \in 1 .. i \/ j = i + 1
      BY <2>2
    <3>2. /\ b \in Outcomes /\ c \in Outcomes /\ c = InjectAt(b, step, places[i + 1])
          /\ places[i + 1] \in Range(places)
      <4>1. h[i + 1] = InjectAt(h[(i + 1) - 1], step, places[i + 1])
        BY <2>1, <3>1
      <4>2. (i + 1) - 1 = i
        BY <2>2
      <4> QED
        BY <2>1, <2>2, <3>1, <4>1, <4>2
    <3>3. Follows(acc, b) /\ Held(b, base, exempt) /\ Done(b, i)
      BY <2>4
    <3> HIDE DEF b, c, G
    <3>4. base <= Len(b.ss)
      <4>1. Len(acc.ss) \in Nat /\ Len(b.ss) \in Nat
        BY <3>2 DEF Outcomes
      <4> QED
        BY <3>3, <4>1 DEF Follows, GoOn
    <3>5. /\ Follows(b, c) /\ Held(c, base, exempt)
          /\ ~c.fail => PlaceDone(step, places[i + 1], c.ss, base)
      BY <3>2, <3>3, <3>4, InjectAtKeeps
    <3>6. Follows(acc, c)
      BY <3>2, <3>3, <3>5, FollowsIsTransitive
    <3>7. Done(c, i + 1)
      <4> SUFFICES ASSUME ~c.fail, NEW j \in 1 .. i + 1 PROVE PlaceDone(step, places[j], c.ss, base)
        OBVIOUS
      <4>1. CASE j = i + 1
        BY <3>5, <4>1
      <4>2. CASE j \in 1 .. i
        <5>1. ~b.fail
          BY <3>5 DEF Follows
        <5>2. PlaceDone(step, places[j], b.ss, base)
          BY <3>3, <4>2, <5>1
        <5> QED
          BY <3>2, <3>5, <5>2, DoneStaysDone
      <4> QED
        BY <3>1, <4>1, <4>2
    <3> QED
      BY <3>1, <3>5, <3>6, <3>7 DEF G, c
  <2> HIDE DEF G
  <2>5. n \in G
    <3>1. n \in 0 .. n
      BY <2>2
    <3> QED
      BY <2>2, <2>3, <2>4, <3>1, CountUp
  <2>6. Follows(acc, to) /\ Held(to, base, exempt) /\ Done(to, n)
    BY <2>1, <2>5 DEF G
  <2>7. ~to.fail => StepDone(step, to.ss, base)
    <3>1. \A place \in Range(places) : \E j \in 1 .. n : place = places[j]
      BY <2>2 DEF Range
    <3>2. step.fault \in FaultTypes
      BY <1>2 DEF BadStep
    <3> QED
      BY <2>6, <3>1, <3>2 DEF StepDone
  <2> QED
    BY <2>6, <2>7 DEF to
<1> QED
  BY <1>1, <1>2

-----------------------------------------------------------------------------
(* RECOVER *)

(* No session is added, and those there are go on. *)
Calmer(ss, tt) == Len(tt) = Len(ss) /\ \A h \in 1 .. Len(ss) : Onward(ss[h], tt[h])

LEMMA CalmerIsTransitive ==
    ASSUME NEW ss \in Seq(SessionRecords), NEW tt \in Seq(SessionRecords),
           NEW uu \in Seq(SessionRecords), Calmer(ss, tt), Calmer(tt, uu)
    PROVE  Calmer(ss, uu)
<1>1. GoOn(ss, tt) /\ GoOn(tt, uu) /\ Len(uu) = Len(ss)
  BY DEF Calmer, GoOn
<1> QED
  BY <1>1, GoOnIsAnOrder DEF Calmer, GoOn

LEMMA RecoveredIsCalmer ==
    ASSUME NEW ss \in Seq(SessionRecords), NEW h
    PROVE  /\ Recovered(ss, h) \in Seq(SessionRecords)
           /\ Calmer(ss, Recovered(ss, h))
           /\ h \in 1 .. Len(ss) => Recovered(ss, h)[h].state # "ACTIVE"
<1>1. CASE CanRecover(ss, h)
  <2> DEFINE r == ToRecovering(ss[h])
             tt == [ss EXCEPT ![h] = r]
  <2>1. h \in 1 .. Len(ss) /\ Recovered(ss, h) = tt
    BY <1>1 DEF Recovered, CanRecover
  <2>2. ss[h] \in SessionRecords
    BY <2>1
  <2>3. r \in SessionRecords /\ r.spec = ss[h].spec /\ r.state = "RECOVERING"
    BY <2>2, SessionsChange
  <2> HIDE DEF r
  <2>4. tt \in Seq(SessionRecords) /\ Len(tt) = Len(ss)
        /\ \A g \in 1 .. Len(ss) : tt[g] = IF g = h THEN r ELSE ss[g]
    BY <2>1, <2>3
  <2>5. Calmer(ss, tt)
    <3>1. Onward(ss[h], r)
      BY <1>1, <2>3 DEF CanRecover, Onward, Live
    <3>2. \A g \in 1 .. Len(ss) : Onward(ss[g], ss[g])
      BY OnwardIsAnOrder
    <3> QED
      BY <2>4, <3>1, <3>2 DEF Calmer
  <2> QED
    BY <2>1, <2>3, <2>4, <2>5
<1>2. CASE ~CanRecover(ss, h)
  <2>1. Recovered(ss, h) = ss /\ (h \in 1 .. Len(ss) => ss[h].state # "ACTIVE")
    BY <1>2 DEF Recovered, CanRecover
  <2>2. \A g \in 1 .. Len(ss) : Onward(ss[g], ss[g])
    BY OnwardIsAnOrder
  <2> QED
    BY <2>1, <2>2 DEF Calmer
<1> QED
  BY <1>1, <1>2

(* RECOVER for all slaves takes the handles one after the other. *)
LEMMA HandlesOneByOne ==
    ASSUME NEW ss \in Seq(SessionRecords), NEW hs \in Seq(Int)
    PROVE  \E h : /\ h[0] = ss
                  /\ \A i \in 1 .. Len(hs) : h[i] = Recovered(h[i - 1], hs[i])
                  /\ \A i \in 0 .. Len(hs) : h[i] \in Seq(SessionRecords)
                  /\ FoldLeft(Recovered, ss, hs) = h[Len(hs)]
<1> DEFINE A == Seq(SessionRecords)
           n == Len(hs)
           Step(g, s) == IF s = {} THEN ss ELSE Recovered(g[s \ {Max(s)}], hs[Max(s)])
           IsIter(g) == g = [s \in SUBSET (1 .. n) |-> Step(g, s)]
           iter == CHOOSE g : IsIter(g)
           F == [i \in 1 .. n |-> [a \in A |-> Recovered(a, hs[i])]]
<1>1. n \in Nat /\ DOMAIN hs = 1 .. n
  OBVIOUS
<1>2. \A i \in 1 .. n : F[i] \in [A -> A] /\ \A a \in A : F[i][a] = Recovered(a, hs[i])
  BY <1>1, RecoveredIsCalmer
<1>3. FoldLeft(Recovered, ss, hs) = iter[1 .. n]
  BY <1>1 DEF FoldLeft, MapThenFoldSet
<1>4. ss \in A
  OBVIOUS
<1> HIDE DEF A, n, F
<1>5. ASSUME NEW s \in SUBSET (1 .. n), s # {} PROVE Max(s) \in 1 .. n /\ s \ {Max(s)} \in SUBSET (1 .. n)
  BY <1>1, <1>5, MaxIsGreatest
<1>6. \E g : IsIter(g)
  <2>1. PICK g : IsFold(g, F, ss, n) /\ \A s \in SUBSET (1 .. n) : g[s] \in A
    BY <1>1, <1>2, <1>4, FoldExists
  <2>2. \A s \in SUBSET (1 .. n) : FoldStep(g, F, ss, s) = Step(g, s)
    BY <1>2, <1>5, <2>1 DEF FoldStep
  <2>3. IsIter(g)
    BY <2>1, <2>2 DEF IsFold
  <2> QED
    BY <2>3
<1>7. IsIter(iter)
  BY <1>6
<1> HIDE DEF iter
<1>8. iter[{}] = ss
  BY <1>7
<1>9. FoldsOver(iter, F, ss, A, n)
  <2>1. ASSUME NEW s \in SUBSET (1 .. n), s # {}, iter[s \ {Max(s)}] \in A
        PROVE  iter[s] = F[Max(s)][iter[s \ {Max(s)}]]
    BY <1>2, <1>5, <1>7, <2>1
  <2> QED
    BY <1>8, <2>1 DEF FoldsOver
<1> HIDE DEF IsIter, Step
<1>10. PICK h : IsRun(h, F, ss, A, n) /\ iter[1 .. n] = h[n]
  BY <1>1, <1>2, <1>4, <1>9, FoldUnwinds
<1>11. \A i \in 1 .. n : h[i] = Recovered(h[i - 1], hs[i])
  <2>1. \A i \in 1 .. n : i - 1 \in 0 .. n
    BY <1>1
  <2> QED
    BY <1>2, <1>10, <2>1 DEF IsRun
<1> QED
  BY <1>3, <1>10, <1>11 DEF A, n, IsRun

(* ... and leaves none of them ACTIVE. *)
LEMMA AllAreRecovered ==
    ASSUME NEW ss \in Seq(SessionRecords), NEW hs \in Seq(Int)
    PROVE  LET tt == FoldLeft(Recovered, ss, hs)
           IN  /\ tt \in Seq(SessionRecords) /\ Calmer(ss, tt)
               /\ \A h \in Range(hs) : h \in 1 .. Len(ss) => tt[h].state # "ACTIVE"
<1> DEFINE tt == FoldLeft(Recovered, ss, hs)
           n == Len(hs)
<1>1. PICK h : /\ h[0] = ss
               /\ \A i \in 1 .. n : h[i] = Recovered(h[i - 1], hs[i])
               /\ \A i \in 0 .. n : h[i] \in Seq(SessionRecords)
               /\ tt = h[n]
  BY HandlesOneByOne
<1>2. n \in Nat /\ DOMAIN hs = 1 .. n
  OBVIOUS
<1> HIDE DEF tt, n
<1> DEFINE Quiet(q, i) == \A j \in 1 .. i : hs[j] \in 1 .. Len(ss) => q[hs[j]].state # "ACTIVE"
           G == {i \in 0 .. n : Calmer(ss, h[i]) /\ Quiet(h[i], i)}
<1>3. 0 \in G
  <2>1. 0 \in 0 .. n
    BY <1>2
  <2>2. Calmer(ss, h[0]) /\ Quiet(h[0], 0)
    <3>1. \A g \in 1 .. Len(ss) : Onward(ss[g], ss[g])
      BY OnwardIsAnOrder
    <3> QED
      BY <1>1, <3>1 DEF Calmer
  <2> QED
    BY <2>1, <2>2
<1>4. ASSUME NEW i \in 0 .. n - 1, i \in G PROVE i + 1 \in G
  <2> DEFINE b == h[i]
             c == h[i + 1]
  <2>1. /\ i \in 0 .. n /\ i + 1 \in 1 .. n /\ i + 1 \in 0 .. n /\ (i + 1) - 1 = i
        /\ \A j \in 1 .. i + 1 : j \in 1 .. i \/ j = i + 1
    BY <1>2
  <2>2. b \in Seq(SessionRecords) /\ c \in Seq(SessionRecords) /\ c = Recovered(b, hs[i + 1])
    BY <1>1, <2>1
  <2>3. Calmer(ss, b) /\ Quiet(b, i)
    BY <1>4
  <2> HIDE DEF b, c, G
  <2>4. Calmer(b, c) /\ (hs[i + 1] \in 1 .. Len(b) => c[hs[i + 1]].state # "ACTIVE")
    BY <2>2, RecoveredIsCalmer
  <2>5. Calmer(ss, c)
    BY <2>2, <2>3, <2>4, CalmerIsTransitive
  <2>6. Quiet(c, i + 1)
    <3> SUFFICES ASSUME NEW j \in 1 .. i + 1, hs[j] \in 1 .. Len(ss) PROVE c[hs[j]].state # "ACTIVE"
      OBVIOUS
    <3>1. CASE j = i + 1
      BY <2>3, <2>4, <3>1 DEF Calmer
    <3>2. CASE j \in 1 .. i
      BY <2>3, <2>4, <3>2 DEF Calmer, Onward
    <3> QED
      BY <2>1, <3>1, <3>2
  <2> QED
    BY <2>1, <2>5, <2>6 DEF G, c
<1> HIDE DEF G
<1>5. n \in G
  <2>1. n \in 0 .. n
    BY <1>2
  <2> QED
    BY <1>2, <1>3, <1>4, <2>1, CountUp
<1>6. Calmer(ss, tt) /\ Quiet(tt, n)
  BY <1>1, <1>5 DEF G
<1>7. \A g \in Range(hs) : \E j \in 1 .. n : g = hs[j]
  BY <1>2 DEF Range
<1>8. tt \in Seq(SessionRecords)
  <2>1. n \in 0 .. n
    BY <1>2
  <2> QED
    BY <1>1, <2>1
<1> QED
  BY <1>6, <1>7, <1>8 DEF tt

LEMMA FireRecoverKeeps ==
    ASSUME NEW acc \in Outcomes, NEW step \in Steps
    PROVE  LET to == FireRecover(acc, step)
           IN  /\ to \in Outcomes /\ Follows(acc, to)
               /\ \A base, exempt : Held(acc, base, exempt) => Held(to, base, exempt)
<1> DEFINE to == FireRecover(acc, step)
           k == HandleKey(step)
           hs == acc.handles[k]
<1>1. /\ acc.ss \in Seq(SessionRecords) /\ acc.handles \in [Keys -> Seq(Int)] /\ acc.fail \in BOOLEAN
      /\ k \in Keys /\ hs \in Seq(Int)
  BY DEF Outcomes, Keys
<1>2. PICK a \in Seq(SessionRecords), b \in [Keys -> Seq(Int)], f \in BOOLEAN :
         acc = [ss |-> a, handles |-> b, fail |-> f]
  BY DEF Outcomes
(* What is enough: the sessions are calmer, and a handle that is let go of *)
(* is not ACTIVE.                                                          *)
<1>3. ASSUME NEW tt \in Seq(SessionRecords), Calmer(acc.ss, tt), NEW rest \in Seq(Int), NEW bad \in BOOLEAN,
             \A h \in Range(hs) : h \in Range(rest) \/ (h \in 1 .. Len(acc.ss) => tt[h].state # "ACTIVE"),
             acc.fail => bad,
             to = [ss |-> tt, handles |-> [acc.handles EXCEPT ![k] = rest], fail |-> bad]
      PROVE  /\ to \in Outcomes /\ Follows(acc, to)
             /\ \A base, exempt : Held(acc, base, exempt) => Held(to, base, exempt)
  <2> HIDE DEF to, hs, k
  <2>1. /\ to.ss = tt /\ to.handles = [acc.handles EXCEPT ![k] = rest] /\ to.fail = bad
        /\ to.handles \in [Keys -> Seq(Int)] /\ to.handles[k] = rest
        /\ \A key \in Keys : key # k => to.handles[key] = acc.handles[key]
    BY <1>1, <1>3
  <2>2. to \in Outcomes
    BY <1>1, <1>3, <2>1 DEF Outcomes
  <2>3. Follows(acc, to)
    <3>1. GoOn(acc.ss, tt)
      BY <1>1, <1>3 DEF GoOn, Calmer
    <3> QED
      BY <1>3, <2>1, <3>1 DEF Follows
  <2>4. ASSUME NEW base, NEW exempt, Held(acc, base, exempt) PROVE Held(to, base, exempt)
    <3> SUFFICES ASSUME NEW h \in 1 .. Len(tt), tt[h].state = "ACTIVE", h > base, h \notin exempt
                 PROVE  \E key \in Keys : h \in Range(to.handles[key])
      BY <2>1 DEF Held
    <3>1. h \in 1 .. Len(acc.ss) /\ acc.ss[h].state = "ACTIVE"
      BY <1>3 DEF Calmer, Onward
    <3>2. PICK key \in Keys : h \in Range(acc.handles[key])
      BY <2>4, <3>1 DEF Held
    <3>3. CASE key = k
      <4>1. h \in Range(rest)
        BY <1>3, <3>1, <3>2, <3>3 DEF hs
      <4> QED
        BY <1>1, <2>1, <4>1
    <3>4. CASE key # k
      BY <2>1, <3>2, <3>4
    <3> QED
      BY <3>3, <3>4
  <2> QED
    BY <2>2, <2>3, <2>4
<1>4. CASE hs = <<>>
  <2>1. to = acc
    BY <1>4 DEF FireRecover
  <2> QED
    BY <1>1, <2>1, GoOnIsAnOrder DEF Follows
<1>5. CASE hs # <<>> /\ step.slave = 0
  <2> DEFINE tt == FoldLeft(Recovered, acc.ss, hs)
  <2>1. to = [acc EXCEPT !.ss = tt, !.handles[k] = <<>>]
    BY <1>5, <1>2 DEF FireRecover
  <2>2. /\ tt \in Seq(SessionRecords) /\ Calmer(acc.ss, tt)
        /\ \A h \in Range(hs) : h \in 1 .. Len(acc.ss) => tt[h].state # "ACTIVE"
    BY <1>1, AllAreRecovered
  <2> HIDE DEF tt, to, hs, k
  <2>3. to = [ss |-> tt, handles |-> [acc.handles EXCEPT ![k] = <<>>], fail |-> acc.fail]
    BY <1>2, <2>1
  <2>4. <<>> \in Seq(Int)
    OBVIOUS
  <2> QED
    BY <1>1, <1>3, <2>2, <2>3, <2>4 DEF to
<1>6. CASE hs # <<>> /\ step.slave # 0
  <2> DEFINE tt == Recovered(acc.ss, hs[1])
             bad == acc.fail \/ ~CanRecover(acc.ss, hs[1])
  <2>1. to = [acc EXCEPT !.ss = tt, !.handles[k] = Tail(@), !.fail = @ \/ ~CanRecover(acc.ss, hs[1])]
    BY <1>6, <1>2 DEF FireRecover
  <2>2. /\ tt \in Seq(SessionRecords) /\ Calmer(acc.ss, tt)
        /\ hs[1] \in 1 .. Len(acc.ss) => tt[hs[1]].state # "ACTIVE"
    BY <1>1, RecoveredIsCalmer
  <2>3. bad \in BOOLEAN /\ (acc.fail => bad)
    OBVIOUS
  <2> HIDE DEF tt
  <2>4. to = [ss |-> tt, handles |-> [acc.handles EXCEPT ![k] = Tail(hs)], fail |-> bad]
    BY <1>2, <2>1
  <2> HIDE DEF to, hs, k, bad
  <2>5. Tail(hs) \in Seq(Int)
    BY <1>1, <1>6
  <2>6. ASSUME NEW h \in Range(hs) PROVE h \in Range(Tail(hs)) \/ h = hs[1]
    <3>1. PICK j \in DOMAIN hs : h = hs[j]
      BY DEF Range
    <3>2. CASE j = 1
      BY <3>1, <3>2
    <3>3. CASE j # 1
      <4>1. j - 1 \in DOMAIN Tail(hs) /\ Tail(hs)[j - 1] = hs[j]
        BY <1>1, <1>6, <3>1, <3>3
      <4> QED
        BY <3>1, <4>1 DEF Range
    <3> QED
      BY <3>2, <3>3
  <2> QED
    BY <1>1, <1>3, <2>2, <2>3, <2>4, <2>5, <2>6 DEF to
<1> QED
  BY <1>4, <1>5, <1>6

-----------------------------------------------------------------------------
(* The steps of a drill *)

LEMMA FireIsAnOutcome ==
    ASSUME NEW acc \in Outcomes, NEW step \in Steps
    PROVE  Fire(acc, step) \in Outcomes
BY FireInjectIsAnOutcome, FireRecoverKeeps DEF Fire

LEMMA FireKeeps ==
    ASSUME NEW acc \in Outcomes, NEW step \in Steps,
           NEW base \in Nat, base <= Len(acc.ss), NEW exempt, Held(acc, base, exempt)
    PROVE  LET to == Fire(acc, step)
           IN  /\ Follows(acc, to) /\ Held(to, base, exempt)
               /\ ~to.fail => StepDone(step, to.ss, base)
<1>1. CASE step.action = "INJECT"
  BY <1>1, FireInjectKeeps DEF Fire
<1>2. CASE step.action # "INJECT"
  <2>1. Follows(acc, FireRecover(acc, step)) /\ Held(FireRecover(acc, step), base, exempt)
    BY FireRecoverKeeps
  <2> QED
    BY <1>2, <2>1 DEF Fire, StepDone
<1> QED
  BY <1>1, <1>2

(* Places of a script are numbers, and their order is the usual one. *)
LEMMA DueInOrder ==
    ASSUME NEW n \in Nat, NEW due \in SUBSET (1 .. n)
    PROVE  LET q == InOrder(due, Earlier)
           IN  /\ Len(q) \in Nat /\ DOMAIN q = 1 .. Len(q)
               /\ \A i \in 1 .. Len(q) : q[i] \in due
               /\ \A x \in due : \E i \in 1 .. Len(q) : q[i] = x
<1> DEFINE R == {r \in due \X due : r[1] < r[2]}
           q == InOrder(due, Earlier)
           N(z) == Cardinality({y \in due : Earlier(y, z)})
<1>1. IsFiniteSet(due)
  <2>1. IsFiniteSet(1 .. n)
    BY FS_Interval
  <2> QED
    BY <2>1, FS_Subset
<1>2. \A x, y \in due : <<x, y>> \in R <=> x < y
  OBVIOUS
<1>3. IsStrictOrder(R, due)
  <2>1. due \subseteq Int
    OBVIOUS
  <2> HIDE DEF R
  <2> QED
    BY <1>2, <2>1 DEF IsStrictOrder
<1>4. ASSUME NEW x \in due PROVE Rank(R, due, x) = N(x)
  <2>1. Below(R, due, x) = {y \in due : Earlier(y, x)}
    BY <1>2 DEF Below, Earlier
  <2> QED
    BY <2>1 DEF Rank
<1>5. q = [i \in 1 .. Cardinality(due) |-> CHOOSE x \in due : N(x) = i - 1]
  BY DEF InOrder
<1> HIDE DEF q, R, N
<1>6. ASSUME NEW i \in 1 .. Cardinality(due), NEW x \in due, Rank(R, due, x) = i - 1
      PROVE  q[i] \in due /\ Rank(R, due, q[i]) = i - 1
  <2>1. N(x) = i - 1 /\ q[i] = CHOOSE z \in due : N(z) = i - 1
    BY <1>4, <1>5, <1>6
  <2>2. q[i] \in due /\ N(q[i]) = i - 1
    BY <2>1
  <2> QED
    BY <1>4, <2>2
<1>7. q = [i \in 1 .. Cardinality(due) |-> q[i]]
  <2> DEFINE c(i) == CHOOSE x \in due : N(x) = i - 1
  <2>1. q = [i \in 1 .. Cardinality(due) |-> c(i)]
    BY <1>5
  <2> HIDE DEF c
  <2> QED
    BY <2>1
<1>8. IsInOrder(q, R, due)
  BY <1>1, <1>3, <1>6, <1>7, OrderIsReached
<1>9. Cardinality(due) \in Nat
  BY <1>1, FS_CardinalityType
<1>10. Len(q) = Cardinality(due) /\ DOMAIN q = 1 .. Len(q)
  BY <1>8, <1>9 DEF IsInOrder
<1>11. /\ \A i \in 1 .. Len(q) : q[i] \in due
       /\ \A x \in due : \E i \in 1 .. Len(q) : q[i] = x
  BY <1>8, <1>10 DEF IsInOrder
<1> QED
  BY <1>9, <1>10, <1>11 DEF q

(* drive fires the due steps one after the other. *)
LEMMA StepsOneByOne ==
    ASSUME NEW acc \in Outcomes, NEW steps \in Seq(Steps), NEW due \in SUBSET (1 .. Len(steps))
    PROVE  LET q == InOrder(due, Earlier)
           IN  \E h : /\ h[0] = acc
                      /\ \A i \in 1 .. Len(q) : h[i] = Fire(h[i - 1], steps[q[i]])
                      /\ \A i \in 0 .. Len(q) : h[i] \in Outcomes
                      /\ FireAll(acc, steps, due) = h[Len(q)]
<1> DEFINE A == Outcomes
           q == InOrder(due, Earlier)
           n == Len(q)
           Step(g, s) == IF s = {} THEN acc ELSE Fire(g[s \ {Max(s)}], steps[q[Max(s)]])
           IsIter(g) == g = [s \in SUBSET (1 .. n) |-> Step(g, s)]
           iter == CHOOSE g : IsIter(g)
           F == [i \in 1 .. n |-> [a \in A |-> Fire(a, steps[q[i]])]]
<1>1. n \in Nat /\ DOMAIN q = 1 .. n /\ \A i \in 1 .. n : q[i] \in due /\ steps[q[i]] \in Steps
  <2>1. Len(steps) \in Nat
    OBVIOUS
  <2>2. n \in Nat /\ DOMAIN q = 1 .. n /\ \A i \in 1 .. n : q[i] \in due
    BY <2>1, DueInOrder
  <2>3. \A x \in due : steps[x] \in Steps
    OBVIOUS
  <2> HIDE DEF q, n
  <2> QED
    BY <2>2, <2>3
<1>2. \A i \in 1 .. n : F[i] \in [A -> A] /\ \A a \in A : F[i][a] = Fire(a, steps[q[i]])
  BY <1>1, FireIsAnOutcome
<1>3. FireAll(acc, steps, due) = iter[1 .. n]
  BY <1>1 DEF FireAll, FoldLeft, MapThenFoldSet
<1>4. acc \in A
  OBVIOUS
<1> HIDE DEF A, q, n, F
<1>5. ASSUME NEW s \in SUBSET (1 .. n), s # {} PROVE Max(s) \in 1 .. n /\ s \ {Max(s)} \in SUBSET (1 .. n)
  BY <1>1, <1>5, MaxIsGreatest
<1>6. \E g : IsIter(g)
  <2>1. PICK g : IsFold(g, F, acc, n) /\ \A s \in SUBSET (1 .. n) : g[s] \in A
    BY <1>1, <1>2, <1>4, FoldExists
  <2>2. \A s \in SUBSET (1 .. n) : FoldStep(g, F, acc, s) = Step(g, s)
    BY <1>2, <1>5, <2>1 DEF FoldStep
  <2>3. IsIter(g)
    BY <2>1, <2>2 DEF IsFold
  <2> QED
    BY <2>3
<1>7. IsIter(iter)
  BY <1>6
<1> HIDE DEF iter
<1>8. iter[{}] = acc
  BY <1>7
<1>9. FoldsOver(iter, F, acc, A, n)
  <2>1. ASSUME NEW s \in SUBSET (1 .. n), s # {}, iter[s \ {Max(s)}] \in A
        PROVE  iter[s] = F[Max(s)][iter[s \ {Max(s)}]]
    BY <1>2, <1>5, <1>7, <2>1
  <2> QED
    BY <1>8, <2>1 DEF FoldsOver
<1> HIDE DEF IsIter, Step
<1>10. PICK h : IsRun(h, F, acc, A, n) /\ iter[1 .. n] = h[n]
  BY <1>1, <1>2, <1>4, <1>9, FoldUnwinds
<1>11. \A i \in 1 .. n : h[i] = Fire(h[i - 1], steps[q[i]])
  <2>1. \A i \in 1 .. n : i - 1 \in 0 .. n
    BY <1>1
  <2> QED
    BY <1>2, <1>10, <2>1 DEF IsRun
<1> QED
  BY <1>3, <1>10, <1>11 DEF A, q, n, IsRun

(* What a tick's worth of steps does to the sessions and the handles. *)
LEMMA FireAllKeeps ==
    ASSUME NEW acc \in Outcomes, NEW steps \in Seq(Steps), NEW due \in SUBSET (1 .. Len(steps)),
           NEW base \in Nat, base <= Len(acc.ss), NEW exempt, Held(acc, base, exempt)
    PROVE  LET to == FireAll(acc, steps, due)
           IN  /\ to \in Outcomes /\ Follows(acc, to) /\ Held(to, base, exempt)
               /\ ~to.fail => \A x \in due : StepDone(steps[x], to.ss, base)
<1> DEFINE to == FireAll(acc, steps, due)
           q == InOrder(due, Earlier)
           n == Len(q)
           Done(a, i) == ~a.fail => \A j \in 1 .. i : StepDone(steps[q[j]], a.ss, base)
<1>1. PICK h : /\ h[0] = acc
               /\ \A i \in 1 .. n : h[i] = Fire(h[i - 1], steps[q[i]])
               /\ \A i \in 0 .. n : h[i] \in Outcomes
               /\ to = h[n]
  BY StepsOneByOne
<1>2. /\ n \in Nat /\ \A i \in 1 .. n : q[i] \in due /\ steps[q[i]] \in Steps
      /\ \A x \in due : \E i \in 1 .. n : q[i] = x
  <2>1. Len(steps) \in Nat
    OBVIOUS
  <2>2. /\ n \in Nat /\ \A i \in 1 .. n : q[i] \in due
        /\ \A x \in due : \E i \in 1 .. n : q[i] = x
    BY <2>1, DueInOrder
  <2>3. \A x \in due : steps[x] \in Steps
    OBVIOUS
  <2> HIDE DEF q, n
  <2> QED
    BY <2>2, <2>3
<1> HIDE DEF to, n, q
<1> DEFINE G == {i \in 0 .. n : Follows(acc, h[i]) /\ Held(h[i], base, exempt) /\ Done(h[i], i)}
<1>3. 0 \in G
  <2>1. 0 \in 0 .. n
    BY <1>2
  <2>2. Follows(acc, h[0])
    BY <1>1, GoOnIsAnOrder DEF Follows, Outcomes
  <2>3. Held(h[0], base, exempt) /\ Done(h[0], 0)
    BY <1>1
  <2> QED
    BY <2>1, <2>2, <2>3
<1>4. ASSUME NEW i \in 0 .. n - 1, i \in G PROVE i + 1 \in G
  <2> DEFINE b == h[i]
             c == h[i + 1]
             step == steps[q[i + 1]]
  <2>1. /\ i \in 0 .. n /\ i + 1 \in 1 .. n /\ i + 1 \in 0 .. n /\ (i + 1) - 1 = i
        /\ \A j \in 1 .. i + 1 : j \in 1 .. i \/ j = i + 1
    BY <1>2
  <2>2. b \in Outcomes /\ c \in Outcomes /\ c = Fire(b, step) /\ step \in Steps
    <3>1. h[i + 1] = Fire(h[(i + 1) - 1], steps[q[i + 1]])
      BY <1>1, <2>1
    <3> QED
      BY <1>1, <1>2, <2>1, <3>1
  <2>3. Follows(acc, b) /\ Held(b, base, exempt) /\ Done(b, i)
    BY <1>4
  <2> HIDE DEF b, c, G
  <2>4. base <= Len(b.ss)
    <3>1. Len(acc.ss) \in Nat /\ Len(b.ss) \in Nat
      BY <2>2 DEF Outcomes
    <3> QED
      BY <2>3, <3>1 DEF Follows, GoOn
  <2>5. /\ Follows(b, c) /\ Held(c, base, exempt)
        /\ ~c.fail => StepDone(step, c.ss, base)
    <3> HIDE DEF step
    <3> QED
      BY <2>2, <2>3, <2>4, FireKeeps
  <2>6. Follows(acc, c)
    BY <2>2, <2>3, <2>5, FollowsIsTransitive
  <2>7. Done(c, i + 1)
    <3> SUFFICES ASSUME ~c.fail, NEW j \in 1 .. i + 1 PROVE StepDone(steps[q[j]], c.ss, base)
      OBVIOUS
    <3>1. CASE j = i + 1
      BY <2>5, <3>1
    <3>2. CASE j \in 1 .. i
      <4>1. ~b.fail
        BY <2>5 DEF Follows
      <4>2. StepDone(steps[q[j]], b.ss, base)
        BY <2>3, <3>2, <4>1
      <4> QED
        BY <2>2, <2>5, <4>2, DoneStaysDone
    <3> QED
      BY <2>1, <3>1, <3>2
  <2> QED
    BY <2>1, <2>5, <2>6, <2>7 DEF G, c
<1> HIDE DEF G
<1>5. n \in 0 .. n
  BY <1>2
<1>6. n \in G
  BY <1>2, <1>3, <1>4, <1>5, CountUp
<1>7. Follows(acc, to) /\ Held(to, base, exempt) /\ Done(to, n) /\ to \in Outcomes
  BY <1>1, <1>5, <1>6 DEF G
<1>8. ASSUME ~to.fail, NEW x \in due PROVE StepDone(steps[x], to.ss, base)
  <2>1. PICK i \in 1 .. n : q[i] = x
    BY <1>2
  <2>2. StepDone(steps[q[i]], to.ss, base)
    BY <1>7, <1>8
  <2> QED
    BY <2>1, <2>2
<1> QED
  BY <1>7, <1>8 DEF to

-----------------------------------------------------------------------------
(* The invariant: while a drill is loaded, its handles reach what it left  *)
(* ACTIVE, and unless it has failed, the steps it fired are done.          *)

Scripts ==
    [steps : Seq(Steps), fired : SUBSET Nat, handles : [Keys -> Seq(Int)], fail : BOOLEAN, base : Nat]

OutcomeOf(sc, ss) == [ss |-> ss, handles |-> sc.handles, fail |-> sc.fail]

ScriptInv(sc, ss, exempt) ==
    /\ sc \in Scripts
    /\ sc.fired \subseteq DOMAIN sc.steps
    /\ sc.base <= Len(ss)
    /\ Held(OutcomeOf(sc, ss), sc.base, exempt)
    /\ ~sc.fail => \A i \in sc.fired : StepDone(sc.steps[i], ss, sc.base)

EngineInv ==
    /\ sessions \in Seq(SessionRecords)
    /\ script # NoScript => ScriptInv(script, sessions, mine)

LEMMA OutcomesOfScripts ==
    ASSUME NEW sc \in Scripts, NEW ss \in Seq(SessionRecords)
    PROVE  /\ OutcomeOf(sc, ss) \in Outcomes /\ OutcomeOf(sc, ss).ss = ss
           /\ OutcomeOf(sc, ss).handles = sc.handles /\ OutcomeOf(sc, ss).fail = sc.fail
BY DEF OutcomeOf, Outcomes, Scripts

(* Sessions may become calmer, and others be added that are exempt. *)
LEMMA ScriptInvStays ==
    ASSUME NEW sc, NEW ss \in Seq(SessionRecords), NEW tt \in Seq(SessionRecords), NEW exempt, NEW more,
           ScriptInv(sc, ss, exempt), GoOn(ss, tt), exempt \subseteq more,
           \A h \in 1 .. Len(tt) : tt[h].state = "ACTIVE" =>
               (h \in 1 .. Len(ss) /\ ss[h].state = "ACTIVE") \/ h \in more
    PROVE  ScriptInv(sc, tt, more)
<1> DEFINE a == OutcomeOf(sc, ss)
           b == OutcomeOf(sc, tt)
<1>1. sc \in Scripts /\ sc.base \in Nat
  BY DEF ScriptInv, Scripts
<1>2. /\ a \in Outcomes /\ a.ss = ss /\ a.handles = sc.handles /\ a.fail = sc.fail
      /\ b \in Outcomes /\ b.ss = tt /\ b.handles = sc.handles /\ b.fail = sc.fail
  BY <1>1, OutcomesOfScripts
<1>3. Held(a, sc.base, exempt)
  BY DEF ScriptInv
<1> HIDE DEF a, b
<1>4. Follows(a, b)
  BY <1>2 DEF Follows
<1>5. Held(b, sc.base, more)
  BY <1>2, <1>3 DEF Held
<1>6. ASSUME ~sc.fail, NEW i \in sc.fired PROVE StepDone(sc.steps[i], tt, sc.base)
  <2>1. StepDone(sc.steps[i], a.ss, sc.base)
    BY <1>2, <1>6 DEF ScriptInv
  <2> QED
    BY <1>1, <1>2, <1>4, <2>1, DoneStaysDone
<1>7. sc.base <= Len(tt)
  <2>1. Len(ss) \in Nat /\ Len(tt) \in Nat
    OBVIOUS
  <2> QED
    BY <1>1, <2>1 DEF ScriptInv, GoOn
<1> QED
  BY <1>1, <1>5, <1>6, <1>7 DEF ScriptInv, b

LEMMA CalmerKeepsScripts ==
    ASSUME NEW sc, NEW ss \in Seq(SessionRecords), NEW tt \in Seq(SessionRecords), NEW exempt,
           ScriptInv(sc, ss, exempt), Calmer(ss, tt)
    PROVE  ScriptInv(sc, tt, exempt)
<1>1. Len(ss) \in Nat /\ GoOn(ss, tt)
  BY DEF Calmer, GoOn
<1>2. \A h \in 1 .. Len(tt) : tt[h].state = "ACTIVE" => h \in 1 .. Len(ss) /\ ss[h].state = "ACTIVE"
  BY DEF Calmer, Onward
<1> QED
  BY <1>1, <1>2, ScriptInvStays

(* Every session on its own may become calmer. *)
LEMMA EachCalmer ==
    ASSUME NEW ss \in Seq(SessionRecords), NEW tt \in [1 .. Len(ss) -> SessionRecords],
           \A h \in 1 .. Len(ss) : Onward(ss[h], tt[h])
    PROVE  tt \in Seq(SessionRecords) /\ Calmer(ss, tt)
<1>1. PICK n \in Nat : n = Len(ss)
  OBVIOUS
<1>2. tt \in [1 .. n -> SessionRecords]
  BY <1>1
<1>3. tt \in Seq(SessionRecords) /\ Len(tt) = n
  BY <1>2
<1> QED
  BY <1>1, <1>3 DEF Calmer

LEMMA RampedIsNearer ==
    ASSUME NEW s \in SessionRecords
    PROVE  Ramped(s) \in Int /\ (s.spec.ramp >= 0 => Nearer(s.value, Ramped(s)))
<1>1. s.value \in Int /\ s.age \in Nat /\ s.spec \in AllSpecs
  BY DEF SessionRecords
<1>2. s.spec.ramp \in Int
  BY <1>1, SpecsAreTyped
<1>3. PICK d \in Int : d = s.spec.ramp * s.age
  BY <1>1, <1>2
<1>4. \A v \in Int : /\ Max({RecoverValue, v}) = IF v >= 0 THEN v ELSE 0
                     /\ Min({RecoverValue, v}) = IF v >= 0 THEN 0 ELSE v
  <2> SUFFICES ASSUME NEW v \in Int
               PROVE  /\ Max({RecoverValue, v}) = IF v >= 0 THEN v ELSE 0
                      /\ Min({RecoverValue, v}) = IF v >= 0 THEN 0 ELSE v
    OBVIOUS
  <2>1. CASE v >= 0
    <3>1. \E x \in {0, v} : \A y \in {0, v} : x >= y
      BY <2>1
    <3>2. \E x \in {0, v} : \A y \in {0, v} : x =< y
      BY <2>1
    <3> QED
      BY <2>1, <3>1, <3>2 DEF Max, Min, RecoverValue
  <2>2. CASE ~(v >= 0)
    <3>1. \E x \in {0, v} : \A y \in {0, v} : x >= y
      BY <2>2
    <3>2. \E x \in {0, v} : \A y \in {0, v} : x =< y
      BY <2>2
    <3> QED
      BY <2>2, <3>1, <3>2 DEF Max, Min, RecoverValue
  <2> QED
    BY <2>1, <2>2
<1>5. s.value - d \in Int /\ s.value + d \in Int
  BY <1>1, <1>3
<1>6. Ramped(s) = IF s.value > 0 THEN (IF s.value - d >= 0 THEN s.value - d ELSE 0)
                  ELSE IF s.value < 0 THEN (IF s.value + d >= 0 THEN 0 ELSE s.value + d)
                  ELSE s.value
  <2>1. CASE s.value > 0
    <3>1. Ramped(s) = Max({RecoverValue, s.value - d})
      BY <1>1, <1>3, <2>1 DEF Ramped, RecoverValue
    <3> QED
      BY <1>1, <1>4, <1>5, <2>1, <3>1
  <2>2. CASE s.value < 0
    <3>1. Ramped(s) = Min({RecoverValue, s.value + d})
      BY <1>1, <1>3, <2>2 DEF Ramped, RecoverValue
    <3>2. ~(s.value > 0)
      BY <1>1, <2>2
    <3> QED
      BY <1>4, <1>5, <2>2, <3>1, <3>2
  <2>3. CASE s.value = 0
    BY <1>1, <2>3 DEF Ramped, RecoverValue
  <2> QED
    BY <1>1, <2>1, <2>2, <2>3
<1>7. s.spec.ramp >= 0 => d >= 0
  BY <1>1, <1>2, <1>3
<1> QED
  BY <1>1, <1>5, <1>6, <1>7 DEF Nearer, RecoverValue

(* FaultSession::tick *)
LEMMA TickedIsCalmer ==
    ASSUME NEW s \in SessionRecords
    PROVE  Ticked(s) \in SessionRecords /\ Onward(s, Ticked(s))
<1>1. CASE s.state = "ACTIVE" /\ s.spec.duration > 0 /\ s.age >= s.spec.duration
  <2>1. Ticked(s) = ToRecovering(s)
    BY <1>1 DEF Ticked
  <2>2. /\ ToRecovering(s) \in SessionRecords
        /\ ToRecovering(s).spec = s.spec /\ ToRecovering(s).state = "RECOVERING"
    BY SessionsChange
  <2> QED
    BY <1>1, <2>1, <2>2 DEF Onward, Live
<1>2. CASE s.state = "RECOVERING" /\ s.age > 0
  <2> DEFINE r == [s EXCEPT !.value = Ramped(s)]
  <2>1. r \in SessionRecords /\ r.spec = s.spec /\ r.state = s.state /\ r.value = Ramped(s)
    BY RampedIsNearer, SessionsChange
  <2>2. Ticked(s) = IF r.value = RecoverValue THEN ToIdle(r) ELSE r
    BY <1>2 DEF Ticked
  <2> HIDE DEF r
  <2>3. ToIdle(r) \in SessionRecords /\ ToIdle(r).spec = r.spec /\ ToIdle(r).state = "IDLE"
    BY <2>1, SessionsChange
  <2>4. Onward(s, ToIdle(r))
    BY <2>1, <2>3 DEF Onward, Live
  <2>5. Onward(s, r)
    BY <1>2, <2>1, RampedIsNearer DEF Onward, Live
  <2> QED
    BY <2>1, <2>2, <2>3, <2>4, <2>5
<1>3. CASE /\ ~(s.state = "ACTIVE" /\ s.spec.duration > 0 /\ s.age >= s.spec.duration)
           /\ ~(s.state = "RECOVERING" /\ s.age > 0)
  <2>1. Ticked(s) = s
    BY <1>3 DEF Ticked
  <2> QED
    BY <2>1, OnwardIsAnOrder
<1> QED
  BY <1>1, <1>2, <1>3

-----------------------------------------------------------------------------
(* Every step of the engine *)

LEMMA EngineInvInit == Init => EngineInv
BY DEF Init, InjectorInit, ScriptInit, EngineInv

(* A drill that is loaded has fired nothing yet. *)
LEMMA LoadedIsGood ==
    ASSUME NEW file \in DrillFiles, Loaded(file) # NoScript, sessions \in Seq(SessionRecords), NEW exempt
    PROVE  ScriptInv(Loaded(file), sessions, exempt)
<1> DEFINE kept == {i \in DOMAIN file.steps : KnownAction(file.steps[i])}
           before(i, j) == \/ file.steps[i].t < file.steps[j].t
                           \/ file.steps[i].t = file.steps[j].t /\ i < j
           q == InOrder(kept, before)
           steps == [n \in DOMAIN q |-> file.steps[q[n]]]
           bad == kept # DOMAIN file.steps
           R == {r \in kept \X kept : before(r[1], r[2])}
           N(z) == Cardinality({y \in kept : before(y, z)})
<1>1. Loaded(file) = [steps |-> steps, fired |-> {}, handles |-> NoHandles, fail |-> bad,
                      base |-> Len(sessions)]
  BY DEF Loaded
<1>2. /\ file.steps \in Seq(Range(file.steps)) /\ Len(file.steps) \in Nat
      /\ \A i \in DOMAIN file.steps : /\ file.steps[i] \in Steps /\ file.steps[i].t \in Int
  <2>1. file.steps \in Seq(Range(file.steps))
    BY DrillFilesAssumption
  <2>2. \A i \in DOMAIN file.steps : file.steps[i] \in Range(file.steps)
    BY DEF Range
  <2> QED
    BY <2>1, <2>2, DrillFilesAssumption DEF Steps
<1>3. kept \subseteq 1 .. Len(file.steps) /\ kept \subseteq DOMAIN file.steps
  BY <1>2
<1>4. IsFiniteSet(kept)
  <2>1. IsFiniteSet(1 .. Len(file.steps))
    BY <1>2, FS_Interval
  <2> QED
    BY <1>3, <2>1, FS_Subset
<1>5. q = [i \in 1 .. Cardinality(kept) |-> CHOOSE x \in kept : N(x) = i - 1]
  BY DEF InOrder
<1>6. \A x, y \in kept : <<x, y>> \in R <=> before(x, y)
  OBVIOUS
<1>7. \A x \in kept : x \in Int /\ file.steps[x].t \in Int
  BY <1>2, <1>3
<1> HIDE DEF q, kept, R, steps
<1>8. IsStrictOrder(R, kept)
  <2> DEFINE t(x) == file.steps[x].t
  <2>1. \A x \in kept : x \in Int /\ t(x) \in Int
    BY <1>7
  <2>2. \A x, y \in kept : <<x, y>> \in R <=> (t(x) < t(y) \/ (t(x) = t(y) /\ x < y))
    BY <1>6
  <2> HIDE DEF t
  <2> QED
    BY <2>1, <2>2 DEF IsStrictOrder
<1>9. \A x \in kept : Rank(R, kept, x) = N(x)
  <2> SUFFICES ASSUME NEW x \in kept PROVE Rank(R, kept, x) = N(x)
    OBVIOUS
  <2>1. Below(R, kept, x) = {y \in kept : before(y, x)}
    BY <1>6 DEF Below
  <2> QED
    BY <2>1 DEF Rank
<1> HIDE DEF N, before
<1>10. \A i \in 1 .. Cardinality(kept) : q[i] \in kept
  <2> SUFFICES ASSUME NEW i \in 1 .. Cardinality(kept) PROVE q[i] \in kept
    OBVIOUS
  <2>1. PICK x \in kept : Rank(R, kept, x) = i - 1
    BY <1>4, <1>8, RanksAreTaken
  <2>2. N(x) = i - 1 /\ q[i] = CHOOSE z \in kept : N(z) = i - 1
    BY <1>5, <1>9, <2>1
  <2> QED
    BY <2>2
<1>11. steps \in Seq(Steps)
  <2>1. PICK n \in Nat : n = Cardinality(kept)
    BY <1>4, FS_CardinalityType
  <2>2. DOMAIN q = 1 .. n
    BY <1>5, <2>1
  <2>3. \A i \in 1 .. n : file.steps[q[i]] \in Steps
    BY <1>2, <1>3, <1>10, <2>1
  <2>4. steps \in [1 .. n -> Steps]
    BY <2>2, <2>3 DEF steps
  <2> QED
    BY <2>4
<1>12. NoHandles \in [Keys -> Seq(Int)]
  BY DEF NoHandles, Keys
<1> HIDE DEF bad
<1>13. bad \in BOOLEAN
  BY DEF bad
<1>14. Len(sessions) \in Nat
  OBVIOUS
<1>15. /\ Loaded(file) \in Scripts /\ Loaded(file).fired = {} /\ Loaded(file).base = Len(sessions)
  BY <1>1, <1>11, <1>12, <1>13, <1>14 DEF Scripts
<1>16. Held(OutcomeOf(Loaded(file), sessions), Len(sessions), exempt)
  <2>1. OutcomeOf(Loaded(file), sessions).ss = sessions
    BY DEF OutcomeOf
  <2> QED
    BY <1>14, <2>1 DEF Held
<1>17. PICK sc : sc = Loaded(file)
  OBVIOUS
<1>18. /\ sc \in Scripts /\ sc.fired \subseteq DOMAIN sc.steps /\ sc.base <= Len(sessions)
       /\ \A i \in sc.fired : StepDone(sc.steps[i], sessions, sc.base)
       /\ Held(OutcomeOf(sc, sessions), sc.base, exempt)
  BY <1>14, <1>15, <1>16, <1>17
<1>19. ScriptInv(sc, sessions, exempt)
  BY <1>18 DEF ScriptInv
<1> QED
  BY <1>17, <1>19

(* A tick of a drill *)
LEMMA DriveKeeps ==
    ASSUME EngineInv, script # NoScript, NEW now, Drive(now)
    PROVE  /\ sessions' \in Seq(SessionRecords) /\ ScriptInv(script', sessions', mine)
           /\ GoOn(sessions, sessions')
<1> DEFINE due == {i \in DOMAIN script.steps : i \notin script.fired /\ script.steps[i].t =< now}
           a == OutcomeOf(script, sessions)
           b == FireAll(a, script.steps, due)
<1>1. ScriptInv(script, sessions, mine) /\ sessions \in Seq(SessionRecords)
  BY DEF EngineInv
<1>2. PICK steps \in Seq(Steps), fired \in SUBSET Nat, handles \in [Keys -> Seq(Int)], fail \in BOOLEAN, base \in Nat :
         script = [steps |-> steps, fired |-> fired, handles |-> handles, fail |-> fail, base |-> base]
  BY <1>1 DEF ScriptInv, Scripts
<1>3. script' = [script EXCEPT !.fired = @ \cup due, !.handles = b.handles, !.fail = b.fail]
      /\ sessions' = b.ss
  BY DEF Drive, OutcomeOf, SetSessions
<1>4. /\ a \in Outcomes /\ a.ss = sessions /\ a.fail = fail /\ a.handles = handles
  BY <1>1, <1>2, OutcomesOfScripts DEF ScriptInv
<1>5. due \in SUBSET (1 .. Len(steps)) /\ steps \in Seq(Steps) /\ script.steps = steps
  BY <1>2
<1> HIDE DEF a, due, b
<1>6. base <= Len(a.ss) /\ Held(a, base, mine)
  BY <1>1, <1>2, <1>4 DEF ScriptInv, a
<1>7. /\ b \in Outcomes /\ Follows(a, b) /\ Held(b, base, mine)
      /\ ~b.fail => \A x \in due : StepDone(steps[x], b.ss, base)
  BY <1>2, <1>4, <1>5, <1>6, FireAllKeeps DEF b
<1>8. script' = [steps |-> steps, fired |-> fired \cup due, handles |-> b.handles, fail |-> b.fail,
                 base |-> base]
  BY <1>2, <1>3
<1>9. PICK ss \in Seq(SessionRecords), hs \in [Keys -> Seq(Int)], f \in BOOLEAN :
         b = [ss |-> ss, handles |-> hs, fail |-> f]
  BY <1>7 DEF Outcomes
<1>10. script' \in Scripts /\ fired \cup due \subseteq DOMAIN steps
  <2>1. fired \subseteq DOMAIN steps
    BY <1>1, <1>2 DEF ScriptInv
  <2>2. fired \cup due \in SUBSET Nat /\ fired \cup due \subseteq DOMAIN steps
    BY <1>5, <2>1
  <2> QED
    BY <1>2, <1>8, <1>9, <2>2 DEF Scripts
<1>11. OutcomeOf(script', sessions') = b
  BY <1>3, <1>8, <1>9 DEF OutcomeOf
<1>12. base <= Len(b.ss)
  <2>1. Len(a.ss) \in Nat /\ Len(b.ss) \in Nat
    BY <1>4, <1>7 DEF Outcomes
  <2> QED
    BY <1>2, <1>6, <1>7, <2>1 DEF Follows, GoOn
<1>13. ASSUME ~b.fail, NEW i \in fired \cup due PROVE StepDone(steps[i], b.ss, base)
  <2>1. CASE i \in due
    BY <1>7, <1>13, <2>1
  <2>2. CASE i \in fired
    <3>1. ~fail
      BY <1>4, <1>7, <1>13 DEF Follows
    <3>2. StepDone(steps[i], a.ss, base)
      BY <1>1, <1>2, <1>4, <2>2, <3>1 DEF ScriptInv
    <3> QED
      BY <1>2, <1>4, <1>7, <3>2, DoneStaysDone
  <2> QED
    BY <2>1, <2>2
<1>14. sessions' \in Seq(SessionRecords)
  BY <1>3, <1>9
<1>15. /\ script'.fired = fired \cup due /\ script'.steps = steps /\ script'.base = base
       /\ script'.fail = b.fail
  BY <1>8
<1>16. GoOn(sessions, sessions')
  BY <1>3, <1>4, <1>7 DEF Follows
<1> QED
  BY <1>16, <1>3, <1>7, <1>10, <1>11, <1>12, <1>13, <1>14, <1>15 DEF ScriptInv

(* A step that leaves drill and panel alone and the sessions calmer. *)
LEMMA CalmerKeepsInv ==
    ASSUME EngineInv, sessions' \in Seq(SessionRecords), Calmer(sessions, sessions'),
           script' = script, mine' = mine
    PROVE  EngineInv' /\ GoOn(sessions, sessions')
<1>1. sessions \in Seq(SessionRecords)
  BY DEF EngineInv
<1>2. ASSUME script' # NoScript PROVE ScriptInv(script', sessions', mine')
  <2>1. ScriptInv(script, sessions, mine)
    BY <1>2 DEF EngineInv
  <2>2. ScriptInv(script, sessions', mine)
    BY <1>1, <2>1, CalmerKeepsScripts
  <2> QED
    BY <2>2
<1>3. GoOn(sessions, sessions')
  BY <1>1 DEF Calmer, GoOn
<1> QED
  BY <1>2, <1>3 DEF EngineInv

LEMMA TickSessionsKeeps ==
    ASSUME EngineInv, TickSessions, script' = script, mine' = mine
    PROVE  EngineInv' /\ GoOn(sessions, sessions')
<1> DEFINE tt == [h \in 1 .. Len(sessions) |-> Ticked(sessions[h])]
<1>1. sessions \in Seq(SessionRecords)
  BY DEF EngineInv
<1>2. sessions' = tt
  BY DEF TickSessions, Handles
<1>3. \A h \in 1 .. Len(sessions) : sessions[h] \in SessionRecords
  BY <1>1
<1>4. tt \in [1 .. Len(sessions) -> SessionRecords]
  BY <1>3, TickedIsCalmer
<1>5. \A h \in 1 .. Len(sessions) :
         Onward(sessions[h], tt[h])
  BY <1>3, TickedIsCalmer
<1> HIDE DEF tt
<1>6. tt \in Seq(SessionRecords) /\ Calmer(sessions, tt)
  BY <1>1, <1>4, <1>5, EachCalmer
<1> QED
  BY <1>2, <1>6, CalmerKeepsInv

LEMMA OlderKeeps ==
    ASSUME EngineInv, Older, script' = script, mine' = mine
    PROVE  EngineInv' /\ GoOn(sessions, sessions')
<1> DEFINE older(s) == [s EXCEPT !.age = Min({s.age + 1, MaxAge})]
           tt == [h \in 1 .. Len(sessions) |-> older(sessions[h])]
<1>1. sessions \in Seq(SessionRecords)
  BY DEF EngineInv
<1>2. sessions' = tt
  BY DEF Older, Handles
<1>3. \A h \in 1 .. Len(sessions) : sessions[h] \in SessionRecords
  BY <1>1
<1>4. \A s \in SessionRecords : older(s) \in SessionRecords /\ Onward(s, older(s))
  <2> SUFFICES ASSUME NEW s \in SessionRecords
               PROVE  older(s) \in SessionRecords /\ Onward(s, older(s))
    OBVIOUS
  <2>1. PICK a \in Nat : a = s.age + 1
    BY DEF SessionRecords
  <2>2. MaxAge \in Nat
    BY AgeAssumption
  <2>3. \E x \in {a, MaxAge} : \A y \in {a, MaxAge} : x =< y
    BY <2>1, <2>2
  <2>4. Min({a, MaxAge}) \in Nat
    BY <2>1, <2>2, <2>3 DEF Min
  <2>5. /\ older(s) \in SessionRecords /\ older(s).spec = s.spec
        /\ older(s).state = s.state /\ older(s).value = s.value
    BY <2>1, <2>4, SessionsChange
  <2>6. Nearer(s.value, s.value)
    BY DEF SessionRecords, Nearer, RecoverValue
  <2> HIDE DEF older
  <2> QED
    BY <2>5, <2>6 DEF Onward, Live
<1>5. tt \in [1 .. Len(sessions) -> SessionRecords]
  BY <1>3, <1>4
<1>6. \A h \in 1 .. Len(sessions) :
         Onward(sessions[h], tt[h])
  BY <1>3, <1>4
<1> HIDE DEF tt
<1>7. tt \in Seq(SessionRecords) /\ Calmer(sessions, tt)
  BY <1>1, <1>5, <1>6, EachCalmer
<1> QED
  BY <1>2, <1>7, CalmerKeepsInv

LEMMA RecoverAllKeeps ==
    ASSUME EngineInv, RecoverAll
    PROVE  EngineInv' /\ GoOn(sessions, sessions')
<1> DEFINE tt == [h \in 1 .. Len(sessions) |->
                     IF h \in panel /\ CanRecover(sessions, h) THEN ToRecovering(sessions[h])
                     ELSE sessions[h]]
<1>1. sessions \in Seq(SessionRecords)
  BY DEF EngineInv
<1>2. sessions' = tt /\ script' = script /\ mine' = mine
  BY DEF RecoverAll, SetSessions, Handles
<1>3. \A h \in 1 .. Len(sessions) : sessions[h] \in SessionRecords
  BY <1>1
<1>4. tt \in [1 .. Len(sessions) -> SessionRecords]
  BY <1>3, SessionsChange
<1>5. \A h \in 1 .. Len(sessions) :
         Onward(sessions[h], tt[h])
  <2> SUFFICES ASSUME NEW h \in 1 .. Len(sessions) PROVE Onward(sessions[h], tt[h])
    OBVIOUS
  <2>1. CASE h \in panel /\ CanRecover(sessions, h)
    <3>1. tt[h] = ToRecovering(sessions[h])
      BY <2>1
    <3>2. /\ ToRecovering(sessions[h]).spec = sessions[h].spec
          /\ ToRecovering(sessions[h]).state = "RECOVERING"
      BY <1>3, SessionsChange
    <3> HIDE DEF tt
    <3> QED
      BY <2>1, <3>1, <3>2 DEF CanRecover, Onward, Live
  <2>2. CASE ~(h \in panel /\ CanRecover(sessions, h))
    <3>1. tt[h] = sessions[h]
      BY <2>2
    <3> HIDE DEF tt
    <3> QED
      BY <1>3, <3>1, OnwardIsAnOrder
  <2> QED
    BY <2>1, <2>2
<1> HIDE DEF tt
<1>6. tt \in Seq(SessionRecords) /\ Calmer(sessions, tt)
  BY <1>1, <1>4, <1>5, EachCalmer
<1> QED
  BY <1>2, <1>6, CalmerKeepsInv

LEMMA AbortKeeps ==
    ASSUME EngineInv, NEW h \in 1 .. Len(sessions), AbortFault(h)
    PROVE  EngineInv' /\ GoOn(sessions, sessions')
<1> DEFINE r == ToAborted(sessions[h])
           tt == [sessions EXCEPT ![h] = r]
<1>1. sessions \in Seq(SessionRecords) /\ sessions[h] \in SessionRecords
  BY DEF EngineInv
<1>2. sessions' = tt /\ script' = script /\ mine' = mine
  BY DEF AbortFault, Abort, SetSessions
<1>3. r \in SessionRecords /\ r.spec = sessions[h].spec /\ r.state = "ABORTED"
  BY <1>1, SessionsChange
<1> HIDE DEF r
<1>4. tt \in Seq(SessionRecords) /\ Len(tt) = Len(sessions)
      /\ \A g \in 1 .. Len(sessions) : tt[g] = IF g = h THEN r ELSE sessions[g]
  BY <1>1, <1>3
<1>5. Calmer(sessions, tt)
  <2>1. Onward(sessions[h], r)
    BY <1>3 DEF Onward, Live
  <2>2. \A g \in 1 .. Len(sessions) : Onward(sessions[g], sessions[g])
    BY <1>1, OnwardIsAnOrder
  <2> HIDE DEF tt
  <2> QED
    BY <1>4, <2>1, <2>2 DEF Calmer
<1> QED
  BY <1>2, <1>4, <1>5, CalmerKeepsInv

(* A fault of the panel is exempt from the drill. *)
LEMMA InjectFaultKeeps ==
    ASSUME EngineInv, NEW spec \in Specs, InjectFault(spec)
    PROVE  EngineInv' /\ GoOn(sessions, sessions')
<1> DEFINE s == ToActive(spec)
           n == Len(sessions)
<1>1. sessions \in Seq(SessionRecords) /\ n \in Nat
  BY DEF EngineInv
<1>2. sessions' = Append(sessions, s) /\ script' = script /\ mine' = mine \cup {n + 1}
  BY DEF InjectFault, Trigger, SetSessions, Triggered
<1>3. s \in SessionRecords
  <2>1. spec \in AllSpecs
    BY DEF AllSpecs
  <2> QED
    BY <2>1, SpecsAreTyped DEF ToActive, SessionRecords, FaultStates
<1> HIDE DEF s
<1>4. sessions' \in Seq(SessionRecords) /\ Len(sessions') = n + 1
      /\ \A h \in 1 .. n : sessions'[h] = sessions[h]
  BY <1>1, <1>2, <1>3
<1>5. GoOn(sessions, sessions')
  <2>1. \A h \in 1 .. n : Onward(sessions[h], sessions[h])
    BY <1>1, OnwardIsAnOrder
  <2> QED
    BY <1>1, <1>4, <2>1 DEF GoOn
<1>6. ASSUME script' # NoScript PROVE ScriptInv(script', sessions', mine')
  <2>1. ScriptInv(script, sessions, mine)
    BY <1>2, <1>6 DEF EngineInv
  <2>2. GoOn(sessions, sessions') /\ mine \subseteq mine'
    BY <1>2, <1>5
  <2>3. \A h \in 1 .. Len(sessions') : sessions'[h].state = "ACTIVE" =>
            (h \in 1 .. Len(sessions) /\ sessions[h].state = "ACTIVE") \/ h \in mine'
    BY <1>1, <1>2, <1>4
  <2>4. ScriptInv(script, sessions', mine')
    BY <1>1, <1>4, <2>1, <2>2, <2>3, ScriptInvStays
  <2> QED
    BY <1>2, <2>4
<1> QED
  BY <1>4, <1>6, <1>5 DEF EngineInv

(* One step per action. *)
LEMMA EngineInvStep == EngineInv /\ [Next]_vars => EngineInv'
<1> SUFFICES ASSUME EngineInv, [Next]_vars PROVE EngineInv'
  OBVIOUS
<1>1. CASE TickScenario
  <2>1. CASE script # NoScript /\ driving
    <3>1. Drive(tickCount) /\ mine' = mine
      BY <1>1, <2>1 DEF TickScenario
    <3> QED
      BY <2>1, <3>1, DriveKeeps DEF EngineInv
  <2>2. CASE ~(script # NoScript /\ driving)
    <3>1. script' = script /\ sessions' = sessions /\ mine' = mine
      BY <1>1, <2>2 DEF TickScenario
    <3> QED
      BY <3>1 DEF EngineInv
  <2> QED
    BY <2>1, <2>2
<1>2. CASE TickFaults \/ GenerateBegins
  BY <1>2, TickSessionsKeeps DEF TickFaults, GenerateBegins
<1>3. CASE Sleep
  BY <1>3, OlderKeeps DEF Sleep
<1>4. CASE EngineStopped
  BY <1>4 DEF EngineStopped, EngineInv
<1>5. ASSUME NEW file \in DrillFiles, LoadScenario(file) PROVE EngineInv'
  <2>1. Loaded(file) # NoScript /\ script' = Loaded(file) /\ sessions' = sessions /\ mine' = mine
    BY <1>5 DEF LoadScenario
  <2>2. sessions \in Seq(SessionRecords)
    BY DEF EngineInv
  <2>3. ScriptInv(Loaded(file), sessions, mine)
    BY <2>1, <2>2, LoadedIsGood
  <2> QED
    BY <2>1, <2>2, <2>3 DEF EngineInv
<1>6. CASE Generate \/ StartEngine \/ StopEngine \/ RequestEnds \/ UNCHANGED vars
  <2>1. script' = script /\ sessions' = sessions /\ mine' = mine
    BY <1>6 DEF Generate, GenerateSlave, StartEngine, StopEngine, RequestEnds, vars
  <2> QED
    BY <2>1 DEF EngineInv
<1>7. ASSUME NEW req \in Requests, RequestBegins(req) PROVE EngineInv'
  <2>1. script' = script /\ sessions' = sessions /\ mine' = mine
    BY <1>7 DEF RequestBegins
  <2> QED
    BY <2>1 DEF EngineInv
<1> QED
  BY <1>1, <1>2, <1>3, <1>4, <1>5, <1>6, <1>7, RecoverAllKeeps, InjectFaultKeeps, AbortKeeps
     DEF Next, Tick, Handles

(* The invariant of the engine and its drills, for any files, slaves and   *)
(* faults (drive, fireInject, fireRecover, loadScenario).                  *)
THEOREM EngineInvariance == Spec => []EngineInv
  BY EngineInvInit, EngineInvStep, PTL DEF Spec

(* RECOVER reaches every fault a drill has left ACTIVE: no handle is lost  *)
(* between the places of an INJECT, the slaves of a RECOVER and the        *)
(* console's own faults.                                                   *)
THEOREM DrillsCanRecover == Spec => []ScriptedFaultsAreHeld
<1>1. EngineInv => ScriptedFaultsAreHeld
  <2> SUFFICES ASSUME EngineInv, script # NoScript, NEW h \in Handles,
                      sessions[h].state = "ACTIVE", h > script.base, h \notin mine
               PROVE  \E k \in DOMAIN script.handles : h \in Range(script.handles[k])
    BY DEF ScriptedFaultsAreHeld
  <2>1. ScriptInv(script, sessions, mine) /\ sessions \in Seq(SessionRecords)
    BY DEF EngineInv
  <2>2. PICK a : a = OutcomeOf(script, sessions)
    OBVIOUS
  <2>3. a.ss = sessions /\ a.handles = script.handles /\ Held(a, script.base, mine)
    BY <2>1, <2>2, OutcomesOfScripts DEF ScriptInv
  <2>4. h \in 1 .. Len(a.ss)
    BY <2>3 DEF Handles
  <2>5. PICK k \in Keys : h \in Range(a.handles[k])
    BY <2>3, <2>4 DEF Held
  <2>6. DOMAIN script.handles = Keys
    BY <2>1 DEF ScriptInv, Scripts
  <2> QED
    BY <2>3, <2>5, <2>6
<1> QED
  BY <1>1, EngineInvariance, PTL

(* A drill that finishReport would call PASS has injected at every slave   *)
(* and cell its steps name, whatever else went on meanwhile.               *)
THEOREM PassIsEarned == Spec => []PassMeansInjected
<1>1. EngineInv => PassMeansInjected
  <2> SUFFICES ASSUME EngineInv, script # NoScript, ResultOf(script) = "PASS",
                      NEW i \in DOMAIN script.steps, script.steps[i].action = "INJECT"
               PROVE  /\ script.steps[i].fault \in FaultTypes
                      /\ \A place \in Range(Places(script.steps[i])) :
                            IF place.reg < 0 THEN ~CellStep(script.steps[i])
                            ELSE \E h \in Handles : h > script.base
                                    /\ sessions[h].spec = SpecOf(script.steps[i], place)
    BY DEF PassMeansInjected
  <2>1. ScriptInv(script, sessions, mine)
    BY DEF EngineInv
  <2>2. AllFired(script) /\ ~script.fail
    BY DEF ResultOf
  <2>3. StepDone(script.steps[i], sessions, script.base)
    BY <2>1, <2>2 DEF ScriptInv, AllFired
  <2> QED
    BY <2>3 DEF StepDone, PlaceDone, Handles
<1> QED
  BY <1>1, EngineInvariance, PTL

-----------------------------------------------------------------------------
(* The override table *)

(* Whose overrides a table has, and of which type, depends on the states   *)
(* of the sessions alone.                                                  *)
LEMMA RebuiltByStates ==
    ASSUME NEW ss \in Seq(SessionRecords), NEW tt \in Seq(SessionRecords), Len(tt) = Len(ss),
           \A h \in 1 .. Len(ss) : tt[h].spec = ss[h].spec /\ tt[h].state = ss[h].state
    PROVE  /\ DOMAIN Rebuilt(tt) = DOMAIN Rebuilt(ss)
           /\ \A k \in DOMAIN Rebuilt(ss) : Rebuilt(tt)[k].type = Rebuilt(ss)[k].type
<1> DEFINE live(qq) == {i \in 1 .. Len(qq) : Live(qq[i])}
           keyed(qq, k) == {i \in live(qq) : KeyOf(qq[i].spec) = k}
           keys(qq) == {KeyOf(qq[i].spec) : i \in live(qq)}
<1>1. /\ Rebuilt(ss) = [k \in keys(ss) |-> [value |-> ss[Max(keyed(ss, k))].value,
                                            type |-> ss[Max(keyed(ss, k))].spec.type]]
      /\ Rebuilt(tt) = [k \in keys(tt) |-> [value |-> tt[Max(keyed(tt, k))].value,
                                            type |-> tt[Max(keyed(tt, k))].spec.type]]
  BY DEF Rebuilt
<1>2. live(tt) = live(ss)
  BY DEF Live
<1>3. \A i \in live(ss) : i \in 1 .. Len(ss) /\ tt[i].spec = ss[i].spec
  OBVIOUS
<1> HIDE DEF live
<1>4. keys(tt) = keys(ss) /\ \A k : keyed(tt, k) = keyed(ss, k)
  BY <1>2, <1>3
<1>5. \A k \in keys(ss) : Max(keyed(ss, k)) \in 1 .. Len(ss)
  <2> SUFFICES ASSUME NEW k \in keys(ss) PROVE Max(keyed(ss, k)) \in 1 .. Len(ss)
    OBVIOUS
  <2>1. keyed(ss, k) # {} /\ keyed(ss, k) \in SUBSET (1 .. Len(ss))
    BY <1>3
  <2>2. Len(ss) \in Nat
    OBVIOUS
  <2> HIDE DEF keyed
  <2> QED
    BY <2>1, <2>2, MaxIsGreatest
<1> HIDE DEF keys, keyed
<1> QED
  BY <1>1, <1>4, <1>5

LEMMA SameDomain ==
    ASSUME NEW S, NEW q \in Seq(S), NEW n \in Nat, DOMAIN q = 1 .. n
    PROVE  Len(q) = n
OBVIOUS

(* After each call that changes a state the table is that of the sessions; *)
(* between them no state changes.                                          *)
LEMMA TableStep == EngineInv /\ TableFollowsSessions /\ [Next]_vars => TableFollowsSessions'
<1> SUFFICES ASSUME EngineInv, TableFollowsSessions, [Next]_vars PROVE TableFollowsSessions'
  OBVIOUS
<1>1. sessions \in Seq(SessionRecords)
  BY DEF EngineInv
<1>2. sessions' \in Seq(SessionRecords)
  BY EngineInvStep DEF EngineInv
<1>3. ASSUME table' = Rebuilt(sessions') PROVE TableFollowsSessions'
  BY <1>3 DEF TableFollowsSessions
<1>4. ASSUME table' = table, Len(sessions') = Len(sessions),
             \A h \in 1 .. Len(sessions) : /\ sessions'[h].spec = sessions[h].spec
                                           /\ sessions'[h].state = sessions[h].state
      PROVE  TableFollowsSessions'
  <2>1. /\ DOMAIN Rebuilt(sessions') = DOMAIN Rebuilt(sessions)
        /\ \A k \in DOMAIN Rebuilt(sessions) : Rebuilt(sessions')[k].type = Rebuilt(sessions)[k].type
    BY <1>1, <1>2, <1>4, RebuiltByStates
  <2>2. TableFollowsSessions' <=>
            /\ DOMAIN table' = DOMAIN Rebuilt(sessions')
            /\ \A k \in DOMAIN Rebuilt(sessions') : table'[k].type = Rebuilt(sessions')[k].type
    BY DEF TableFollowsSessions
  <2> QED
    BY <1>4, <2>1, <2>2 DEF TableFollowsSessions
<1>5. ASSUME sessions' = sessions, table' = table PROVE TableFollowsSessions'
  BY <1>5 DEF TableFollowsSessions
<1>6. \A h \in 1 .. Len(sessions) : sessions[h] \in SessionRecords
  BY <1>1
<1>7. CASE TickSessions
  <2>1. CASE \E h \in Handles : sessions'[h].state # sessions[h].state
    BY <1>3, <1>7, <2>1 DEF TickSessions
  <2>2. CASE ~ \E h \in Handles : sessions'[h].state # sessions[h].state
    <3>1. table' = table /\ sessions' = [h \in 1 .. Len(sessions) |-> Ticked(sessions[h])]
      BY <1>7, <2>2 DEF TickSessions, Handles
    <3>2. \A h \in 1 .. Len(sessions) : Ticked(sessions[h]).spec = sessions[h].spec
      BY <1>6, TickedIsCalmer DEF Onward
    <3>3. Len(sessions') = Len(sessions)
      BY <1>2, <3>1, SameDomain
    <3> QED
      BY <1>4, <2>2, <3>1, <3>2, <3>3 DEF Handles
  <2> QED
    BY <2>1, <2>2
<1>8. CASE Sleep
  <2> DEFINE older(s) == [s EXCEPT !.age = Min({s.age + 1, MaxAge})]
  <2>1. table' = table /\ sessions' = [h \in 1 .. Len(sessions) |-> older(sessions[h])]
    BY <1>8 DEF Sleep, Older, Handles
  <2>2. \A s \in SessionRecords : older(s).spec = s.spec /\ older(s).state = s.state
    BY DEF SessionRecords
  <2> HIDE DEF older
  <2>3. Len(sessions') = Len(sessions)
    BY <1>2, <2>1, SameDomain
  <2> QED
    BY <1>4, <1>6, <2>1, <2>2, <2>3
<1>9. CASE TickScenario
  BY <1>3, <1>5, <1>9 DEF TickScenario, Drive, SetSessions
<1>10. CASE TickFaults \/ GenerateBegins
  BY <1>7, <1>10 DEF TickFaults, GenerateBegins
<1>11. CASE EngineStopped
  BY <1>3, <1>11 DEF EngineStopped
<1>12. CASE RecoverAll \/ (\E spec \in Specs : InjectFault(spec)) \/ (\E h \in Handles : AbortFault(h))
  BY <1>3, <1>12 DEF RecoverAll, InjectFault, Trigger, AbortFault, Abort, SetSessions
<1>13. CASE Generate \/ StartEngine \/ StopEngine \/ RequestEnds \/ UNCHANGED vars
  BY <1>5, <1>13 DEF Generate, GenerateSlave, StartEngine, StopEngine, RequestEnds, vars
<1>14. CASE \/ \E file \in DrillFiles : LoadScenario(file)
            \/ \E req \in Requests : RequestBegins(req)
  BY <1>5, <1>14 DEF LoadScenario, RequestBegins
<1> QED
  BY <1>8, <1>9, <1>10, <1>11, <1>12, <1>13, <1>14 DEF Next, Tick

(* No register is overridden by a fault that is over, and each fault that  *)
(* is on has its entry in the table readers look at, although tick leaves  *)
(* the table alone in most of its calls (rebuildTableNoLock).              *)
THEOREM NoOverrideOutlivesItsFault == Spec => []TableFollowsSessions
<1>1. Init => TableFollowsSessions
  BY DEF Init, InjectorInit, TableFollowsSessions
<1> QED
  BY <1>1, TableStep, EngineInvariance, PTL DEF Spec

-----------------------------------------------------------------------------
(* The sessions of one run of the engine *)

LEMMA SessionsGoOn == EngineInv /\ [Next]_vars /\ engine' = engine => GoOn(sessions, sessions')
<1> SUFFICES ASSUME EngineInv, [Next]_vars, engine' = engine PROVE GoOn(sessions, sessions')
  OBVIOUS
<1>1. ASSUME sessions' = sessions PROVE GoOn(sessions, sessions')
  BY <1>1, GoOnIsAnOrder DEF EngineInv
<1>2. CASE TickScenario
  <2>1. CASE script # NoScript /\ driving
    <3>1. Drive(tickCount)
      BY <1>2, <2>1 DEF TickScenario
    <3> QED
      BY <2>1, <3>1, DriveKeeps
  <2>2. CASE ~(script # NoScript /\ driving)
    BY <1>1, <1>2, <2>2 DEF TickScenario
  <2> QED
    BY <2>1, <2>2
<1>3. CASE TickFaults \/ GenerateBegins
  BY <1>3, TickSessionsKeeps DEF TickFaults, GenerateBegins
<1>4. CASE Sleep
  BY <1>4, OlderKeeps DEF Sleep
<1>5. CASE \/ Generate \/ RequestEnds \/ UNCHANGED vars
           \/ \E file \in DrillFiles : LoadScenario(file)
           \/ \E req \in Requests : RequestBegins(req)
  BY <1>1, <1>5 DEF Generate, GenerateSlave, RequestEnds, LoadScenario, RequestBegins, vars
<1>6. ~(StartEngine \/ StopEngine \/ EngineStopped)
  BY DEF StartEngine, StopEngine, EngineStopped
<1> QED
  BY <1>2, <1>3, <1>4, <1>5, <1>6, RecoverAllKeeps, InjectFaultKeeps, AbortKeeps
     DEF Next, Tick, Handles

(* While the engine runs a handle keeps its session, a fault that is over  *)
(* is not revived, and a value on its way back comes nearer at each step,  *)
(* whichever of the tick, the drill and the console acts                   *)
(* (FaultSession::tick, recover, fireRecover).                             *)
THEOREM RecoveriesComeNearer == Spec => RecoveriesAreMonotone
<1>1. EngineInv /\ [Next]_vars => [engine = engine' => RecoveryNeverOvershoots]_vars
  <2> SUFFICES ASSUME EngineInv, [Next]_vars, engine' = engine PROVE RecoveryNeverOvershoots
    OBVIOUS
  <2>1. GoOn(sessions, sessions')
    BY SessionsGoOn
  <2>2. sessions \in Seq(SessionRecords) /\ sessions' \in Seq(SessionRecords)
    BY EngineInvStep DEF EngineInv
  <2> SUFFICES ASSUME NEW h \in 1 .. Len(sessions)
               PROVE  LET s == sessions[h]
                          t == sessions'[h]
                      IN  /\ h \in DOMAIN sessions'
                          /\ t.spec = s.spec
                          /\ ~Live(s) => ~Live(t)
                          /\ s.spec.ramp >= 0 /\ s.state = "RECOVERING" /\ t.state = "RECOVERING" =>
                               \/ RecoverValue =< t.value /\ t.value =< s.value
                               \/ s.value =< t.value /\ t.value =< RecoverValue
    BY DEF RecoveryNeverOvershoots, Handles
  <2>3. h \in DOMAIN sessions'
    BY <2>1, <2>2 DEF GoOn
  <2>4. Onward(sessions[h], sessions'[h])
    BY <2>1 DEF GoOn
  <2> QED
    BY <2>3, <2>4 DEF Onward, Nearer
<1> QED
  BY <1>1, EngineInvariance, PTL DEF Spec, RecoveriesAreMonotone
=============================================================================
