-------------------------- MODULE SboControlProofs --------------------------
(***************************************************************************)
(* Proofs about SboControl, for any set of machines, registers and values  *)
(* and any bound on the sequence counter.                                  *)
(***************************************************************************)
EXTENDS SboControl, TLAPS

-----------------------------------------------------------------------------
(* Sequence ids: the two families and the empty id are told apart, and a   *)
(* number identifies the id of its family.                                 *)
LEMMA IdFacts ==
    /\ \A n \in Nat : SboId(n) \in SelectionIds /\ SboId(n).n = n
    /\ \A n \in Nat : RejectedId(n) \in Ids /\ RejectedId(n) \notin SelectionIds
    /\ SelectionIds \subseteq Ids
    /\ NoId \notin Ids
    /\ \A i \in SelectionIds : i.n \in Nat /\ i = SboId(i.n)
    /\ Free \notin Ids /\ Free # NoId
BY FreeIsNoId DEF SboId, RejectedId, NoId, Ids, SelectionIds

(* Replacing the members of one machine by well-typed ones keeps the type. *)
LEMMA OneMachine ==
    ASSUME sm \in [Machines -> Machine], NEW m \in Machines, NEW s \in Machine
    PROVE  [sm EXCEPT ![m] = s] \in [Machines -> Machine]
OBVIOUS

(* release writes Free or what was there. *)
LEMMA ReleaseType ==
    ASSUME buckets \in [Keys -> Ids \cup {Free}], NEW k, NEW id, Release(k, id)
    PROVE  buckets' \in [Keys -> Ids \cup {Free}]
BY DEF Release

-----------------------------------------------------------------------------
(* A step of machine m replaces its members by s and no others. *)
StepsTo(m, s) == sm' = [sm EXCEPT ![m] = s]

(* The members after such a step. *)
LEMMA MembersAfter ==
    ASSUME TypeOK, NEW m \in Machines, NEW s \in Machine, StepsTo(m, s)
    PROVE  /\ sm' \in [Machines -> Machine]
           /\ sm'[m] = s
           /\ \A n \in Machines : n # m => sm'[n] = sm[n]
BY OneMachine DEF StepsTo, TypeOK

(* A machine that keeps its id or drops it creates no shared sequence. *)
LEMMA DistinctKept ==
    ASSUME TypeOK, SequencesAreDistinct,
           NEW m \in Machines, NEW s \in Machine, StepsTo(m, s),
           s.sequenceId = sm[m].sequenceId \/ s.sequenceId = NoId
    PROVE  SequencesAreDistinct'
BY MembersAfter DEF SequencesAreDistinct

(* A step that keeps the guard and neither arms nor disarms its machine    *)
(* keeps locks and armed machines matched.                                 *)
LEMMA LocksKept ==
    ASSUME TypeOK, LockMatchesArmed, UNCHANGED buckets,
           NEW m \in Machines, NEW s \in Machine, StepsTo(m, s),
           \/ s.state # "Armed" /\ sm[m].state # "Armed"
           \/ /\ s.state = sm[m].state
              /\ s.heldKey = sm[m].heldKey
              /\ s.sequenceId = sm[m].sequenceId
    PROVE  LockMatchesArmed'
<1>1. /\ sm'[m] = s
      /\ \A n \in Machines : n # m => sm'[n] = sm[n]
  BY MembersAfter
<1>2. ASSUME NEW n \in Machines, sm'[n].state = "Armed"
      PROVE  /\ sm[n].state = "Armed"
             /\ sm[n].heldKey = sm'[n].heldKey
             /\ sm[n].sequenceId = sm'[n].sequenceId
  BY <1>1, <1>2
<1>3. ASSUME NEW n \in Machines, sm[n].state = "Armed"
      PROVE  /\ sm'[n].state = "Armed"
             /\ sm[n].heldKey = sm'[n].heldKey
             /\ sm[n].sequenceId = sm'[n].sequenceId
  BY <1>1, <1>3
<1> QED
  BY <1>2, <1>3 DEF LockMatchesArmed

(* An Armed machine that releases its lock and leaves Armed keeps locks    *)
(* and armed machines matched: nobody else is armed on its key.            *)
LEMMA LockReturned ==
    ASSUME TypeOK, LockMatchesArmed, SequencesAreDistinct,
           NEW m \in Machines, NEW s \in Machine, StepsTo(m, s),
           sm[m].state = "Armed", s.state # "Armed", sm[m].sequenceId # NoId,
           Release(sm[m].heldKey, sm[m].sequenceId)
    PROVE  LockMatchesArmed'
<1> DEFINE key == sm[m].heldKey
<1>1. /\ sm'[m] = s
      /\ \A n \in Machines : n # m => sm'[n] = sm[n]
  BY MembersAfter
<1>2. key \in Keys /\ buckets[key] = sm[m].sequenceId
  BY DEF LockMatchesArmed
<1>3. buckets'[key] = Free /\ \A k \in Keys : k # key => buckets'[k] = buckets[k]
  BY <1>2 DEF Release, TypeOK
<1>4. ASSUME NEW n \in Machines, sm'[n].state = "Armed"
      PROVE  sm'[n].heldKey \in Keys /\ buckets'[sm'[n].heldKey] = sm'[n].sequenceId
  <2>1. n # m /\ sm'[n] = sm[n]
    BY <1>1, <1>4
  <2>2. sm[n].heldKey \in Keys /\ buckets[sm[n].heldKey] = sm[n].sequenceId
    BY <1>4, <2>1 DEF LockMatchesArmed
  <2>3. sm[n].heldKey # key
    BY <1>2, <2>1, <2>2 DEF SequencesAreDistinct
  <2> QED
    BY <1>3, <2>1, <2>2, <2>3
<1>5. ASSUME NEW k \in Keys, buckets'[k] \in SelectionIds
      PROVE  \E n \in Machines : /\ sm'[n].state = "Armed"
                                 /\ sm'[n].heldKey = k
                                 /\ sm'[n].sequenceId = buckets'[k]
  <2>1. k # key /\ buckets'[k] = buckets[k]
    BY <1>3, <1>5, IdFacts
  <2>2. PICK n \in Machines : /\ sm[n].state = "Armed"
                              /\ sm[n].heldKey = k
                              /\ sm[n].sequenceId = buckets[k]
    BY <1>5, <2>1 DEF LockMatchesArmed
  <2>3. n # m
    BY <2>1, <2>2
  <2> QED
    BY <1>1, <2>1, <2>2, <2>3
<1> QED
  BY <1>4, <1>5 DEF LockMatchesArmed
-----------------------------------------------------------------------------
(* The part of the invariant that is about the history alone. *)
HistoryInv ==
    /\ CommandsWereSelected
    /\ SentAtMostOnce
    /\ ReportsAreConsistent
    /\ IdsAreOld

(* A step that records nothing keeps the history invariant. *)
LEMMA HistoryKept ==
    ASSUME TypeOK, HistoryInv, nextSeq' = nextSeq \/ nextSeq' = nextSeq + 1,
           UNCHANGED <<accepted, commands, cleared, succeeded, failed>>
    PROVE  HistoryInv' /\ SentIds' = SentIds /\ AcceptedIds' = AcceptedIds
<1>1. SentIds' = SentIds /\ AcceptedIds' = AcceptedIds
  BY DEF SentIds, AcceptedIds
<1>2. CommandsWereSelected' /\ SentAtMostOnce' /\ ReportsAreConsistent'
  BY DEF HistoryInv, CommandsWereSelected, SentAtMostOnce, ReportsAreConsistent
<1>3. \A a \in accepted : a.id.n \in Nat
  BY IdFacts DEF TypeOK, IssuedCommand
<1>4. IdsAreOld'
  BY <1>1, <1>3 DEF HistoryInv, IdsAreOld, TypeOK
<1> QED
  BY <1>1, <1>2, <1>4 DEF HistoryInv

(* Recording a granted selection under the next number. *)
LEMMA HistoryAccepts ==
    ASSUME TypeOK, HistoryInv, NEW a \in IssuedCommand, a.id.n = nextSeq,
           nextSeq' = nextSeq + 1, accepted' = accepted \cup {a},
           UNCHANGED <<commands, cleared, succeeded, failed>>
    PROVE  /\ HistoryInv'
           /\ SentIds' = SentIds
           /\ AcceptedIds' = AcceptedIds \cup {a.id}
           /\ a.id \notin AcceptedIds
<1>1. SentIds' = SentIds /\ AcceptedIds' = AcceptedIds \cup {a.id}
  BY DEF SentIds, AcceptedIds
<1>2. CommandsWereSelected' /\ SentAtMostOnce' /\ ReportsAreConsistent'
  BY DEF HistoryInv, CommandsWereSelected, SentAtMostOnce, ReportsAreConsistent
<1>3. \A b \in accepted : b.id.n \in Nat
  BY IdFacts DEF TypeOK, IssuedCommand
<1>4. IdsAreOld'
  BY <1>1, <1>3 DEF HistoryInv, IdsAreOld, TypeOK
<1>5. a.id \notin AcceptedIds
  BY <1>3 DEF HistoryInv, IdsAreOld, TypeOK, AcceptedIds
<1> QED
  BY <1>1, <1>2, <1>4, <1>5 DEF HistoryInv

(* Recording a command that was selected, not cleared and not sent yet. *)
LEMMA HistorySends ==
    ASSUME TypeOK, HistoryInv, NEW c \in accepted,
           c.id \notin SentIds \cup cleared,
           commands' = Append(commands, c),
           UNCHANGED <<nextSeq, accepted, cleared, succeeded, failed>>
    PROVE  /\ HistoryInv'
           /\ SentIds' = SentIds \cup {c.id}
           /\ AcceptedIds' = AcceptedIds
           /\ commands' \in Seq(IssuedCommand)
<1> DEFINE n == Len(commands)
<1>1. /\ n \in Nat
      /\ Len(commands') = n + 1
      /\ commands'[n + 1] = c
      /\ \A i \in 1..n : commands'[i] = commands[i]
      /\ commands' \in Seq(IssuedCommand)
  BY DEF TypeOK
<1> HIDE DEF n
<1>2. 1..Len(commands') = (1..n) \cup {n + 1} /\ n + 1 \notin 1..n
  BY <1>1
<1>3. SentIds' = SentIds \cup {c.id}
  BY <1>1, <1>2 DEF SentIds, n
<1>4. AcceptedIds' = AcceptedIds /\ c.id \in AcceptedIds
  BY DEF AcceptedIds
<1>5. CommandsWereSelected'
  BY <1>1, <1>2 DEF HistoryInv, CommandsWereSelected, n
<1>6. \A i \in 1..n : commands[i].id # c.id
  BY DEF SentIds, n
<1>7. SentAtMostOnce'
  BY <1>1, <1>2, <1>6 DEF HistoryInv, SentAtMostOnce, n
<1>8. ReportsAreConsistent'
  BY <1>3 DEF HistoryInv, ReportsAreConsistent, SentIds
<1>9. IdsAreOld'
  BY <1>3, <1>4 DEF HistoryInv, IdsAreOld
<1> QED
  BY <1>1, <1>3, <1>4, <1>5, <1>7, <1>8, <1>9 DEF HistoryInv

(* Recording the end of a selection that was not sent. *)
LEMMA HistoryClears ==
    ASSUME TypeOK, HistoryInv, NEW id \in AcceptedIds, id \notin SentIds,
           cleared' = cleared \cup {id},
           UNCHANGED <<nextSeq, accepted, commands, succeeded, failed>>
    PROVE  HistoryInv' /\ SentIds' = SentIds /\ AcceptedIds' = AcceptedIds
<1>1. SentIds' = SentIds /\ AcceptedIds' = AcceptedIds
  BY DEF SentIds, AcceptedIds
<1>2. CommandsWereSelected' /\ SentAtMostOnce' /\ ReportsAreConsistent'
  BY DEF HistoryInv, CommandsWereSelected, SentAtMostOnce, ReportsAreConsistent,
         SentIds
<1>3. IdsAreOld'
  BY <1>1 DEF HistoryInv, IdsAreOld
<1> QED
  BY <1>1, <1>2, <1>3 DEF HistoryInv

(* Reporting the outcome of a command that has none yet, or an outcome     *)
(* without an id.                                                          *)
LEMMA HistoryReports ==
    ASSUME TypeOK, HistoryInv, NEW id,
           id = NoId \/ id \in SentIds \ (succeeded \cup failed),
           \/ succeeded' = succeeded /\ failed' = failed \cup {id}
           \/ id # NoId /\ succeeded' = succeeded \cup {id} /\ failed' = failed,
           UNCHANGED <<nextSeq, accepted, commands, cleared>>
    PROVE  HistoryInv' /\ SentIds' = SentIds /\ AcceptedIds' = AcceptedIds
<1>1. SentIds' = SentIds /\ AcceptedIds' = AcceptedIds
  BY DEF SentIds, AcceptedIds
<1>2. CommandsWereSelected' /\ SentAtMostOnce'
  BY DEF HistoryInv, CommandsWereSelected, SentAtMostOnce
<1>3. NoId \notin succeeded
  BY IdFacts DEF TypeOK
<1>4. ReportsAreConsistent'
  BY <1>1, <1>3 DEF HistoryInv, ReportsAreConsistent, SentIds
<1>5. IdsAreOld'
  BY <1>1 DEF HistoryInv, IdsAreOld
<1> QED
  BY <1>1, <1>2, <1>4, <1>5 DEF HistoryInv
-----------------------------------------------------------------------------
(* What a step records about its own machine's id leaves the other         *)
(* machines' knowledge of their sequences alone.                           *)
LEMMA KnowledgeKept ==
    ASSUME IInv, NEW m \in Machines, NEW s \in Machine, StepsTo(m, s),
           accepted \subseteq accepted', SentIds \subseteq SentIds',
           \A i \in SelectionIds : i # sm[m].sequenceId =>
                /\ i \in SentIds' => i \in SentIds
                /\ i \in cleared' => i \in cleared
                /\ i \in succeeded' => i \in succeeded
                /\ i \in failed' => i \in failed,
           KnowsSequence(sm[m])'
    PROVE  MachinesKnowSequence'
<1>1. /\ sm'[m] = s
      /\ \A n \in Machines : n # m => sm'[n] = sm[n]
  BY MembersAfter DEF IInv
<1>2. ASSUME NEW n \in Machines, n # m
      PROVE  KnowsSequence(sm[n])'
  <2> DEFINE t == sm[n]
  <2>1. KnowsSequence(t)
    BY DEF IInv, MachinesKnowSequence
  <2>2. t.sequenceId \in SelectionIds \cup {NoId} /\ t.state \in States
    BY DEF IInv, TypeOK, Machine
  <2>3. t.sequenceId # NoId => t.sequenceId # sm[m].sequenceId
    BY <1>2 DEF IInv, SequencesAreDistinct
  <2>4. sm'[n] = t
    BY <1>1, <1>2
  <2>5. AcceptedIds \subseteq AcceptedIds'
    BY DEF AcceptedIds
  <2> HIDE DEF t
  <2> QED
    BY <2>1, <2>2, <2>3, <2>4, <2>5 DEF KnowsSequence
<1> QED
  BY <1>1, <1>2 DEF MachinesKnowSequence

(* The invariant after a step, put together from its parts. *)
LEMMA Assemble ==
    ASSUME TypeOK', LockMatchesArmed', TimersMatchState', HistoryInv',
           MachinesKnowSequence', SequencesAreDistinct'
    PROVE  IInv'
BY DEF IInv, HistoryInv

(* What the invariant says of an Armed machine. *)
LEMMA ArmedFacts ==
    ASSUME IInv, NEW m \in Machines, sm[m].state = "Armed"
    PROVE  /\ sm[m].sequenceId \in SelectionIds
           /\ sm[m].sequenceId # NoId
           /\ sm[m].sequenceId \in AcceptedIds
           /\ sm[m].sequenceId \notin SentIds \cup cleared
           /\ sm[m].heldKey \in Keys
           /\ buckets[sm[m].heldKey] = sm[m].sequenceId
           /\ [id |-> sm[m].sequenceId, cmd |-> sm[m].pendingCommand] \in accepted
           /\ sm[m].pendingCommand.key = sm[m].heldKey
           /\ sm[m].armedTimer /\ ~sm[m].execTimer
BY DEF IInv, TypeOK, Machine, MachinesKnowSequence, KnowsSequence,
       LockMatchesArmed, TimersMatchState

(* A machine's timers after a step that leaves the other machines alone. *)
LEMMA TimersKept ==
    ASSUME TypeOK, TimersMatchState,
           NEW m \in Machines, NEW s \in Machine, StepsTo(m, s),
           s.armedTimer <=> s.state = "Armed",
           s.execTimer <=> s.state = "Executed"
    PROVE  TimersMatchState'
BY MembersAfter DEF TimersMatchState

-----------------------------------------------------------------------------
(* One lemma per action: it keeps the invariant. *)

(* submitSelect on a machine that is not Idle. *)
LEMMA SelectNotIdleStep ==
    ASSUME IInv, NEW m \in Machines, NEW k \in Keys, SelectNotIdle(m, k)
    PROVE  IInv'
<1> USE DEF SelectNotIdle
<1>1. TypeOK'
  BY IdFacts DEF IInv, TypeOK, TryAcquire, TryAcquireRejected
<1>2. LockMatchesArmed'
  <2>1. CASE TryAcquireRejected(k)
    BY <2>1 DEF IInv, LockMatchesArmed, TryAcquireRejected
  <2>2. CASE TryAcquire(k, RejectedId(nextSeq))
    <3>1. /\ buckets[k] = Free
          /\ buckets'[k] = RejectedId(nextSeq)
          /\ \A j \in Keys : j # k => buckets'[j] = buckets[j]
          /\ RejectedId(nextSeq) \notin SelectionIds
      BY <2>2, IdFacts DEF IInv, TypeOK, TryAcquire, Busy
    <3>2. \A n \in Machines : sm[n].state = "Armed" => sm[n].heldKey # k
      BY <3>1, ArmedFacts, IdFacts
    <3> QED
      BY <3>1, <3>2 DEF IInv, LockMatchesArmed
  <2> QED
    BY <2>1, <2>2
<1>3. HistoryInv' /\ SentIds' = SentIds /\ AcceptedIds' = AcceptedIds
  BY HistoryKept DEF IInv, HistoryInv
<1>4. MachinesKnowSequence'
  BY <1>3 DEF IInv, MachinesKnowSequence, KnowsSequence
<1>5. TimersMatchState' /\ SequencesAreDistinct'
  BY DEF IInv, TimersMatchState, SequencesAreDistinct
<1> QED
  BY <1>1, <1>2, <1>3, <1>4, <1>5, Assemble

(* submitSelect from Idle on a busy register. *)
LEMMA SelectBusyStep ==
    ASSUME IInv, NEW m \in Machines, NEW k \in Keys, NEW v \in Values,
           SelectBusy(m, k, v)
    PROVE  IInv'
<1> DEFINE s == [sm[m] EXCEPT !.sequenceId = NoId,
                              !.pendingCommand = [key |-> k, value |-> v]]
<1>1. /\ s \in Machine
      /\ s.state = "Idle" /\ s.sequenceId = NoId
      /\ s.armedTimer = sm[m].armedTimer /\ s.execTimer = sm[m].execTimer
  BY DEF IInv, TypeOK, Machine, SboCommand, SelectBusy
<1>2. StepsTo(m, s) /\ UNCHANGED buckets /\ sm[m].state = "Idle"
  BY DEF StepsTo, SelectBusy, TryAcquireRejected
<1> HIDE DEF s
<1>3. TypeOK'
  BY <1>1, <1>2, MembersAfter DEF IInv, TypeOK, SelectBusy
<1>4. LockMatchesArmed'
  BY <1>1, <1>2, LocksKept DEF IInv
<1>5. TimersMatchState'
  <2>1. ~sm[m].armedTimer /\ ~sm[m].execTimer
    BY <1>2 DEF IInv, TimersMatchState
  <2> QED
    BY <1>1, <1>2, <2>1, TimersKept DEF IInv
<1>6. HistoryInv' /\ SentIds' = SentIds /\ AcceptedIds' = AcceptedIds
  BY HistoryKept DEF IInv, HistoryInv, SelectBusy
<1>7. MachinesKnowSequence'
  <2>1. KnowsSequence(sm[m])'
    BY <1>1, <1>2, MembersAfter DEF IInv, KnowsSequence
  <2> QED
    BY <1>1, <1>2, <1>6, <2>1, KnowledgeKept DEF SelectBusy
<1>8. SequencesAreDistinct'
  BY <1>1, <1>2, DistinctKept DEF IInv
<1> QED
  BY <1>3, <1>4, <1>5, <1>6, <1>7, <1>8, Assemble
(* submitSelect from Idle on a free register. *)
LEMMA SelectGrantedStep ==
    ASSUME IInv, NEW m \in Machines, NEW k \in Keys, NEW v \in Values,
           SelectGranted(m, k, v)
    PROVE  IInv'
<1> DEFINE id == SboId(nextSeq)
           cmd == [key |-> k, value |-> v]
           a == [id |-> id, cmd |-> cmd]
           s == [sm[m] EXCEPT !.state = "Armed", !.sequenceId = id,
                              !.pendingCommand = cmd, !.heldKey = k,
                              !.armedTimer = TRUE]
<1>1. /\ id \in SelectionIds /\ id \in Ids /\ id # NoId /\ id # Free
      /\ id.n = nextSeq
      /\ cmd \in SboCommand /\ cmd.key = k
      /\ a.id = id
  BY IdFacts DEF IInv, TypeOK, SboCommand
<1>2. a \in IssuedCommand
  BY <1>1 DEF IssuedCommand
<1>3. /\ sm[m].state = "Idle"
      /\ TryAcquire(k, id)
      /\ StepsTo(m, s)
      /\ nextSeq' = nextSeq + 1
      /\ accepted' = accepted \cup {a}
      /\ UNCHANGED <<commands, cleared, succeeded, failed>>
  BY DEF SelectGranted, StepsTo
<1> HIDE DEF id, cmd
<1>4. /\ s \in Machine
      /\ s.state = "Armed" /\ s.sequenceId = id /\ s.pendingCommand = cmd
      /\ s.heldKey = k /\ s.armedTimer /\ s.execTimer = sm[m].execTimer
      /\ [id |-> s.sequenceId, cmd |-> s.pendingCommand] = a
  BY <1>1 DEF IInv, TypeOK, Machine, States
<1> HIDE DEF s, a
<1>5. /\ sm' \in [Machines -> Machine]
      /\ sm'[m] = s
      /\ \A n \in Machines : n # m => sm'[n] = sm[n]
  BY <1>3, <1>4, MembersAfter DEF IInv
<1>6. /\ buckets[k] = Free
      /\ buckets' \in [Keys -> Ids \cup {Free}]
      /\ buckets'[k] = id
      /\ \A j \in Keys : j # k => buckets'[j] = buckets[j]
  BY <1>1, <1>3 DEF IInv, TypeOK, TryAcquire, Busy
<1>7. /\ HistoryInv'
      /\ SentIds' = SentIds
      /\ AcceptedIds' = AcceptedIds \cup {id}
      /\ id \notin AcceptedIds
  BY <1>1, <1>2, <1>3, HistoryAccepts DEF IInv, HistoryInv
<1>8. TypeOK'
  BY <1>2, <1>3, <1>5, <1>6 DEF IInv, TypeOK
<1>9. LockMatchesArmed'
  <2>1. ASSUME NEW n \in Machines, sm'[n].state = "Armed"
        PROVE  /\ sm'[n].heldKey \in Keys
               /\ buckets'[sm'[n].heldKey] = sm'[n].sequenceId
    <3>1. CASE n = m
      BY <1>4, <1>5, <1>6, <3>1
    <3>2. CASE n # m
      <4>1. sm'[n] = sm[n]
        BY <1>5, <3>2
      <4>2. /\ sm[n].heldKey \in Keys
            /\ buckets[sm[n].heldKey] = sm[n].sequenceId
            /\ sm[n].sequenceId \in SelectionIds
        BY <2>1, <4>1, ArmedFacts
      <4>3. sm[n].heldKey # k
        BY <1>6, <4>2, IdFacts
      <4> QED
        BY <1>6, <4>1, <4>2, <4>3
    <3> QED
      BY <3>1, <3>2
  <2>2. ASSUME NEW j \in Keys, buckets'[j] \in SelectionIds
        PROVE  \E n \in Machines : /\ sm'[n].state = "Armed"
                                   /\ sm'[n].heldKey = j
                                   /\ sm'[n].sequenceId = buckets'[j]
    <3>1. CASE j = k
      BY <1>4, <1>5, <1>6, <3>1
    <3>2. CASE j # k
      <4>1. PICK n \in Machines : /\ sm[n].state = "Armed"
                                  /\ sm[n].heldKey = j
                                  /\ sm[n].sequenceId = buckets[j]
        BY <1>6, <2>2, <3>2 DEF IInv, LockMatchesArmed
      <4> QED
        BY <1>3, <1>5, <1>6, <3>2, <4>1
    <3> QED
      BY <3>1, <3>2
  <2> QED
    BY <2>1, <2>2 DEF LockMatchesArmed
<1>10. TimersMatchState'
  <2>1. ~sm[m].execTimer
    BY <1>3 DEF IInv, TimersMatchState
  <2> QED
    BY <1>3, <1>4, <2>1, TimersKept DEF IInv
<1>11. MachinesKnowSequence'
  <2>1. id \notin SentIds \cup cleared
    BY <1>7 DEF IInv, IdsAreOld
  <2>2. KnowsSequence(sm[m])'
    BY <1>1, <1>3, <1>4, <1>5, <1>7, <2>1 DEF KnowsSequence
  <2> QED
    BY <1>3, <1>4, <1>7, <2>2, KnowledgeKept
<1>12. SequencesAreDistinct'
  <2>1. \A n \in Machines : sm[n].sequenceId # id
    BY <1>1, <1>7 DEF IInv, MachinesKnowSequence, KnowsSequence
  <2> QED
    BY <1>4, <1>5, <2>1 DEF IInv, SequencesAreDistinct
<1> QED
  BY <1>7, <1>8, <1>9, <1>10, <1>11, <1>12, Assemble

(* submitOperate. *)
LEMMA SubmitOperateStep ==
    ASSUME IInv, NEW m \in Machines, NEW id, SubmitOperate(m, id)
    PROVE  IInv'
<1> DEFINE s == [sm[m] EXCEPT !.state = "Executed", !.armedTimer = FALSE,
                              !.execTimer = TRUE]
           c == [id |-> sm[m].sequenceId, cmd |-> sm[m].pendingCommand]
<1>1. /\ sm[m].state = "Armed" /\ id = sm[m].sequenceId
      /\ StepsTo(m, s)
      /\ Release(sm[m].heldKey, sm[m].sequenceId)
      /\ commands' = Append(commands, c)
      /\ UNCHANGED <<nextSeq, accepted, cleared, succeeded, failed>>
  BY DEF SubmitOperate, StepsTo
<1>2. /\ s \in Machine
      /\ s.state = "Executed" /\ s.sequenceId = sm[m].sequenceId
      /\ ~s.armedTimer /\ s.execTimer
  BY DEF IInv, TypeOK, Machine, States
<1>3. c \in accepted /\ c.id = sm[m].sequenceId /\ c.id \notin SentIds \cup cleared
  BY <1>1, ArmedFacts
<1> HIDE DEF s, c
<1>4. /\ HistoryInv'
      /\ SentIds' = SentIds \cup {sm[m].sequenceId}
      /\ AcceptedIds' = AcceptedIds
      /\ commands' \in Seq(IssuedCommand)
  BY <1>1, <1>3, HistorySends DEF IInv, HistoryInv
<1>5. sm' \in [Machines -> Machine] /\ sm'[m] = s
  BY <1>1, <1>2, MembersAfter DEF IInv
<1>6. TypeOK'
  BY <1>1, <1>4, <1>5, ReleaseType DEF IInv, TypeOK
<1>7. LockMatchesArmed'
  BY <1>1, <1>2, LockReturned, ArmedFacts DEF IInv
<1>8. TimersMatchState'
  BY <1>1, <1>2, TimersKept DEF IInv
<1>9. MachinesKnowSequence'
  <2>1. sm[m].sequenceId \notin succeeded \cup failed
    BY <1>1, ArmedFacts DEF IInv, ReportsAreConsistent, SentIds
  <2>2. KnowsSequence(sm[m])'
    BY <1>1, <1>2, <1>4, <1>5, <2>1, ArmedFacts DEF KnowsSequence
  <2> QED
    BY <1>1, <1>2, <1>4, <2>2, KnowledgeKept
<1>10. SequencesAreDistinct'
  BY <1>1, <1>2, DistinctKept DEF IInv
<1> QED
  BY <1>4, <1>6, <1>7, <1>8, <1>9, <1>10, Assemble
(* The ways out of Armed without sending (cancel, timeout, link loss): the *)
(* lock goes back, the id is recorded as cleared, the machine is Idle.     *)
LEMMA ArmedEnds ==
    ASSUME IInv, NEW m \in Machines, sm[m].state = "Armed",
           NEW s \in Machine, StepsTo(m, s),
           s.state = "Idle", s.sequenceId = NoId, ~s.armedTimer, ~s.execTimer,
           Release(sm[m].heldKey, sm[m].sequenceId),
           cleared' = cleared \cup {sm[m].sequenceId},
           UNCHANGED <<nextSeq, accepted, commands, succeeded, failed>>
    PROVE  IInv'
<1>1. sm' \in [Machines -> Machine] /\ sm'[m] = s
  BY MembersAfter DEF IInv
<1>2. TypeOK'
  BY <1>1, ReleaseType, ArmedFacts DEF IInv, TypeOK
<1>3. LockMatchesArmed'
  BY LockReturned, ArmedFacts DEF IInv
<1>4. TimersMatchState'
  BY TimersKept DEF IInv
<1>5. HistoryInv' /\ SentIds' = SentIds /\ AcceptedIds' = AcceptedIds
  BY HistoryClears, ArmedFacts DEF IInv, HistoryInv
<1>6. MachinesKnowSequence'
  <2>1. KnowsSequence(sm[m])'
    BY <1>1 DEF KnowsSequence
  <2> QED
    BY <1>5, <2>1, KnowledgeKept
<1>7. SequencesAreDistinct'
  BY DistinctKept DEF IInv
<1> QED
  BY <1>2, <1>3, <1>4, <1>5, <1>6, <1>7, Assemble

(* The ways out of Executed (acknowledgement, execution timeout): one      *)
(* outcome is reported under the id that is left, the machine is Idle.     *)
LEMMA ExecutedEnds ==
    ASSUME IInv, NEW m \in Machines, sm[m].state = "Executed",
           NEW s \in Machine, StepsTo(m, s),
           s.state = "Idle", s.sequenceId = NoId, ~s.armedTimer, ~s.execTimer,
           \/ /\ succeeded' = succeeded
              /\ failed' = failed \cup {sm[m].sequenceId}
           \/ /\ sm[m].sequenceId # NoId
              /\ succeeded' = succeeded \cup {sm[m].sequenceId}
              /\ failed' = failed,
           UNCHANGED <<buckets, nextSeq, accepted, commands, cleared>>
    PROVE  IInv'
<1> DEFINE id == sm[m].sequenceId
<1>1. sm' \in [Machines -> Machine] /\ sm'[m] = s
  BY MembersAfter DEF IInv
<1>2. id \in SelectionIds \cup {NoId}
  BY DEF IInv, TypeOK, Machine
<1>3. id # NoId => id \in SentIds \ (succeeded \cup failed)
  BY DEF IInv, MachinesKnowSequence, KnowsSequence
<1>4. TypeOK'
  BY <1>1, <1>2 DEF IInv, TypeOK
<1>5. LockMatchesArmed'
  BY LocksKept DEF IInv
<1>6. TimersMatchState'
  BY TimersKept DEF IInv
<1>7. HistoryInv' /\ SentIds' = SentIds /\ AcceptedIds' = AcceptedIds
  BY <1>3, HistoryReports DEF IInv, HistoryInv
<1>8. MachinesKnowSequence'
  <2>1. KnowsSequence(sm[m])'
    BY <1>1 DEF KnowsSequence
  <2> QED
    BY <1>7, <2>1, KnowledgeKept
<1>9. SequencesAreDistinct'
  BY DistinctKept DEF IInv
<1> QED
  BY <1>4, <1>5, <1>6, <1>7, <1>8, <1>9, Assemble

(* Steps that record nothing and leave state and timers of the sequence    *)
(* alone: link events, and forceAbort outside Armed, which drops the id.   *)
LEMMA QuietStep ==
    ASSUME IInv, NEW m \in Machines, NEW s \in Machine, StepsTo(m, s),
           s.state = sm[m].state, s.pendingCommand = sm[m].pendingCommand,
           s.armedTimer = sm[m].armedTimer, s.execTimer = sm[m].execTimer,
           \/ s.sequenceId = sm[m].sequenceId /\ s.heldKey = sm[m].heldKey
           \/ s.sequenceId = NoId /\ s.state # "Armed",
           UNCHANGED <<buckets, nextSeq, accepted, commands, cleared,
                       succeeded, failed>>
    PROVE  IInv'
<1>1. sm' \in [Machines -> Machine] /\ sm'[m] = s
  BY MembersAfter DEF IInv
<1>2. TypeOK'
  BY <1>1 DEF IInv, TypeOK
<1>3. LockMatchesArmed'
  BY LocksKept DEF IInv
<1>4. TimersMatchState'
  <2>1. /\ s.armedTimer <=> s.state = "Armed"
        /\ s.execTimer <=> s.state = "Executed"
    BY DEF IInv, TimersMatchState
  <2> QED
    BY <2>1, TimersKept DEF IInv
<1>5. HistoryInv' /\ SentIds' = SentIds /\ AcceptedIds' = AcceptedIds
  BY HistoryKept DEF IInv, HistoryInv
<1>6. MachinesKnowSequence'
  <2>1. KnowsSequence(sm[m])
    BY DEF IInv, MachinesKnowSequence
  <2>2. KnowsSequence(sm[m])'
    BY <1>1, <1>5, <2>1 DEF KnowsSequence
  <2> QED
    BY <1>5, <2>2, KnowledgeKept
<1>7. SequencesAreDistinct'
  BY DistinctKept DEF IInv
<1> QED
  BY <1>2, <1>3, <1>4, <1>5, <1>6, <1>7, Assemble

(* submitCancel, through forceAbort. *)
LEMMA SubmitCancelStep ==
    ASSUME IInv, NEW m \in Machines, NEW id, SubmitCancel(m, id)
    PROVE  IInv'
<1> DEFINE s == BackToIdle([sm[m] EXCEPT !.armedTimer = FALSE,
                                         !.execTimer = FALSE])
<1>1. /\ s \in Machine /\ s.state = "Idle" /\ s.sequenceId = NoId
      /\ ~s.armedTimer /\ ~s.execTimer
  BY DEF IInv, TypeOK, Machine, States, BackToIdle, Forget
<1>2. /\ sm[m].state = "Armed"
      /\ StepsTo(m, s)
      /\ Release(sm[m].heldKey, sm[m].sequenceId)
      /\ cleared' = cleared \cup {sm[m].sequenceId}
      /\ UNCHANGED <<nextSeq, accepted, commands, succeeded, failed>>
  BY DEF SubmitCancel, ForceAbort, StepsTo
<1> HIDE DEF s
<1> QED
  BY <1>1, <1>2, ArmedEnds

(* onArmedTimeout. *)
LEMMA ArmedTimeoutStep ==
    ASSUME IInv, NEW m \in Machines, ArmedTimeout(m)
    PROVE  IInv'
<1> DEFINE s == BackToIdle([sm[m] EXCEPT !.armedTimer = FALSE])
<1>1. sm[m].state = "Armed" /\ ~sm[m].execTimer
  BY ArmedFacts DEF ArmedTimeout, IInv, TimersMatchState
<1>2. /\ s \in Machine /\ s.state = "Idle" /\ s.sequenceId = NoId
      /\ ~s.armedTimer /\ s.execTimer = sm[m].execTimer
  BY DEF IInv, TypeOK, Machine, States, BackToIdle, Forget
<1>3. /\ StepsTo(m, s)
      /\ Release(sm[m].heldKey, sm[m].sequenceId)
      /\ cleared' = cleared \cup {sm[m].sequenceId}
      /\ UNCHANGED <<nextSeq, accepted, commands, succeeded, failed>>
  BY <1>1 DEF ArmedTimeout, StepsTo
<1> HIDE DEF s
<1> QED
  BY <1>1, <1>2, <1>3, ArmedEnds

(* onFlappingTimeout, through forceAbort. *)
LEMMA FlappingTimeoutStep ==
    ASSUME IInv, NEW m \in Machines, FlappingTimeout(m)
    PROVE  IInv'
<1> DEFINE t == [sm[m] EXCEPT !.flappingTimer = FALSE]
           stopped == [t EXCEPT !.armedTimer = FALSE, !.execTimer = FALSE]
<1>1. /\ t \in Machine
      /\ t.state = sm[m].state /\ t.sequenceId = sm[m].sequenceId
      /\ t.heldKey = sm[m].heldKey /\ t.pendingCommand = sm[m].pendingCommand
      /\ t.armedTimer = sm[m].armedTimer /\ t.execTimer = sm[m].execTimer
  BY DEF IInv, TypeOK, Machine
<1>2. UNCHANGED <<nextSeq, accepted, commands, succeeded, failed>>
  BY DEF FlappingTimeout
<1>3. ForceAbort(m, t) \/ (StepsTo(m, t) /\ UNCHANGED <<buckets, cleared>>)
  BY DEF FlappingTimeout, StepsTo
<1> HIDE DEF t
<1>4. CASE StepsTo(m, t) /\ UNCHANGED <<buckets, cleared>>
  BY <1>1, <1>2, <1>4, QuietStep
<1>5. CASE ForceAbort(m, t) /\ sm[m].state = "Armed"
  <2>1. /\ BackToIdle(stopped) \in Machine
        /\ BackToIdle(stopped).state = "Idle"
        /\ BackToIdle(stopped).sequenceId = NoId
        /\ ~BackToIdle(stopped).armedTimer /\ ~BackToIdle(stopped).execTimer
    BY <1>1 DEF Machine, States, BackToIdle, Forget
  <2>2. /\ StepsTo(m, BackToIdle(stopped))
        /\ Release(sm[m].heldKey, sm[m].sequenceId)
        /\ cleared' = cleared \cup {sm[m].sequenceId}
    BY <1>1, <1>5 DEF ForceAbort, StepsTo
  <2> HIDE DEF stopped
  <2> QED
    BY <1>2, <1>5, <2>1, <2>2, ArmedEnds
<1>6. CASE ForceAbort(m, t) /\ sm[m].state # "Armed"
  <2>1. /\ Forget(t) \in Machine
        /\ Forget(t).state = t.state /\ Forget(t).sequenceId = NoId
        /\ Forget(t).pendingCommand = t.pendingCommand
        /\ Forget(t).armedTimer = t.armedTimer
        /\ Forget(t).execTimer = t.execTimer
    BY <1>1 DEF Machine, Forget
  <2>2. StepsTo(m, Forget(t)) /\ UNCHANGED <<buckets, cleared>>
    BY <1>1, <1>6 DEF ForceAbort, StepsTo
  <2> QED
    BY <1>1, <1>2, <1>6, <2>1, <2>2, QuietStep
<1> QED
  BY <1>3, <1>4, <1>5, <1>6

(* onLinkStatusChanged. *)
LEMMA LinkStatusChangedStep ==
    ASSUME IInv, NEW m \in Machines, NEW connected \in BOOLEAN,
           LinkStatusChanged(m, connected)
    PROVE  IInv'
<1> DEFINE s == [sm[m] EXCEPT !.linkConnected = connected,
                              !.flappingTimer = ~connected]
<1>1. /\ s \in Machine
      /\ s.state = sm[m].state /\ s.sequenceId = sm[m].sequenceId
      /\ s.heldKey = sm[m].heldKey /\ s.pendingCommand = sm[m].pendingCommand
      /\ s.armedTimer = sm[m].armedTimer /\ s.execTimer = sm[m].execTimer
  BY DEF IInv, TypeOK, Machine
<1>2. StepsTo(m, s)
  BY DEF LinkStatusChanged, StepsTo
<1> HIDE DEF s
<1> QED
  BY <1>1, <1>2, QuietStep DEF LinkStatusChanged

(* onDeviceAck. *)
LEMMA DeviceAckStep ==
    ASSUME IInv, NEW m \in Machines, NEW id \in AcceptedIds,
           NEW success \in BOOLEAN, DeviceAck(m, id, success)
    PROVE  IInv'
<1> DEFINE s == BackToIdle([sm[m] EXCEPT !.execTimer = FALSE])
<1>1. sm[m].state = "Executed" /\ sm[m].sequenceId = id /\ ~sm[m].armedTimer
  BY DEF DeviceAck, IInv, TimersMatchState
<1>2. id # NoId
  BY IdFacts DEF IInv, TypeOK, AcceptedIds, IssuedCommand
<1>3. /\ s \in Machine /\ s.state = "Idle" /\ s.sequenceId = NoId
      /\ s.armedTimer = sm[m].armedTimer /\ ~s.execTimer
  BY DEF IInv, TypeOK, Machine, States, BackToIdle, Forget
<1>4. StepsTo(m, s) /\ UNCHANGED <<buckets, nextSeq, accepted, commands, cleared>>
  BY DEF DeviceAck, StepsTo
<1>5. \/ succeeded' = succeeded /\ failed' = failed \cup {id}
      \/ succeeded' = succeeded \cup {id} /\ failed' = failed
  BY DEF DeviceAck
<1> HIDE DEF s
<1> QED
  BY <1>1, <1>2, <1>3, <1>4, <1>5, ExecutedEnds

(* onExecutingTimeout. *)
LEMMA ExecutingTimeoutStep ==
    ASSUME IInv, NEW m \in Machines, ExecutingTimeout(m)
    PROVE  IInv'
<1> DEFINE s == BackToIdle([sm[m] EXCEPT !.execTimer = FALSE])
<1>1. sm[m].state = "Executed" /\ ~sm[m].armedTimer
  BY DEF ExecutingTimeout, IInv, TimersMatchState
<1>2. /\ s \in Machine /\ s.state = "Idle" /\ s.sequenceId = NoId
      /\ s.armedTimer = sm[m].armedTimer /\ ~s.execTimer
  BY DEF IInv, TypeOK, Machine, States, BackToIdle, Forget
<1>3. /\ StepsTo(m, s)
      /\ failed' = failed \cup {sm[m].sequenceId}
      /\ UNCHANGED <<buckets, nextSeq, accepted, commands, cleared, succeeded>>
  BY <1>1 DEF ExecutingTimeout, StepsTo
<1> HIDE DEF s
<1> QED
  BY <1>1, <1>2, <1>3, ExecutedEnds

-----------------------------------------------------------------------------
(* The invariant holds initially. *)
LEMMA InitInvariant == Init => IInv
<1> SUFFICES ASSUME Init PROVE IInv
  OBVIOUS
<1>1. TypeOK
  BY DEF Init, GuardInit, TypeOK, NewMachine, Machine, States
<1>2. LockMatchesArmed /\ TimersMatchState
  BY IdFacts DEF Init, GuardInit, NewMachine, LockMatchesArmed, TimersMatchState
<1>3. CommandsWereSelected /\ SentAtMostOnce /\ ReportsAreConsistent /\ IdsAreOld
  BY DEF Init, CommandsWereSelected, SentAtMostOnce, ReportsAreConsistent,
         IdsAreOld, SentIds
<1>4. MachinesKnowSequence /\ SequencesAreDistinct
  BY DEF Init, NewMachine, MachinesKnowSequence, KnowsSequence,
         SequencesAreDistinct
<1> QED
  BY <1>1, <1>2, <1>3, <1>4 DEF IInv

(* Every step keeps the invariant. *)
LEMMA NextInvariant == IInv /\ [Next]_vars => IInv'
<1> SUFFICES ASSUME IInv, [Next]_vars PROVE IInv'
  OBVIOUS
<1>1. CASE UNCHANGED vars
  BY <1>1 DEF vars, IInv, TypeOK, LockMatchesArmed, TimersMatchState,
     CommandsWereSelected, SentAtMostOnce, ReportsAreConsistent, IdsAreOld,
     MachinesKnowSequence, KnowsSequence, SequencesAreDistinct, SentIds,
     AcceptedIds
<1>2. CASE Next
  <2>1. PICK m \in Machines : MachineStep(m)
    BY <1>2 DEF Next
  <2> QED
    BY <2>1, SelectNotIdleStep, SelectBusyStep, SelectGrantedStep,
       SubmitOperateStep, SubmitCancelStep, DeviceAckStep,
       LinkStatusChangedStep, ArmedTimeoutStep, FlappingTimeoutStep,
       ExecutingTimeoutStep DEF MachineStep
<1> QED
  BY <1>1, <1>2

(* SboStateMachine and DeviceSboGuard keep the inductive invariant in      *)
(* every reachable state.                                                  *)
THEOREM Invariance == Spec => []IInv
BY InitInvariant, NextInvariant, PTL DEF Spec

(* Members, guard buckets and history keep their types. *)
THEOREM TypeCorrect == Spec => []TypeOK
BY Invariance, PTL DEF IInv

(* The selection locks in DeviceSboGuard are exactly those of the Armed    *)
(* machines, so a register has one Armed machine at most and every exit    *)
(* from Armed returns the lock.                                            *)
THEOREM LocksAreExact == Spec => []LockMatchesArmed
BY Invariance, PTL DEF IInv

(* A selection is sent at most once and never after it was cleared by      *)
(* cancel, arming timeout or link loss.                                    *)
THEOREM NoStaleOrDoubleCommand == Spec => []SentAtMostOnce
BY Invariance, PTL DEF IInv

(* What commandReady carries is what submitSelect granted under that id,   *)
(* for all that refused selections do to m_pendingCommand.                 *)
THEOREM CommandsAreSelected == Spec => []CommandsWereSelected
BY Invariance, PTL DEF IInv

(* No id is reported both as succeeded and as failed, and every report is  *)
(* about a command that was sent.                                          *)
THEOREM ReportsNeverContradict == Spec => []ReportsAreConsistent
BY Invariance, PTL DEF IInv

(* A timer never outlives the state it watches: no timeout of an old       *)
(* sequence can end a new one.                                             *)
THEOREM NoStaleTimer == Spec => []TimersMatchState
BY Invariance, PTL DEF IInv
-----------------------------------------------------------------------------
(* The contract's variables, as SboControl provides them. *)
Selected == [k \in Keys |-> IF buckets[k] \in SelectionIds
                            THEN buckets[k] ELSE NoId]
Sent == {[ticket |-> commands[i].id, register |-> commands[i].cmd.key] :
            i \in 1..Len(commands)}

(* Steps that change neither the selection locks nor the selections and    *)
(* commands on record change nothing the contract speaks of.               *)
LEMMA ContractStutters ==
    ASSUME UNCHANGED <<Selected, accepted, commands>>
    PROVE  UNCHANGED Contract!vars
BY DEF Contract!vars, Selected, AcceptedIds

(* Releasing the lock of an Armed machine deselects its register. *)
LEMMA ReleaseDeselects ==
    ASSUME IInv, NEW m \in Machines, sm[m].state = "Armed",
           Release(sm[m].heldKey, sm[m].sequenceId)
    PROVE  /\ sm[m].heldKey \in Keys
           /\ Selected[sm[m].heldKey] = sm[m].sequenceId
           /\ sm[m].sequenceId # NoId
           /\ Selected' = [Selected EXCEPT ![sm[m].heldKey] = NoId]
<1>1. /\ sm[m].heldKey \in Keys
      /\ buckets[sm[m].heldKey] = sm[m].sequenceId
      /\ sm[m].sequenceId \in SelectionIds
      /\ sm[m].sequenceId # NoId
  BY ArmedFacts
<1>2. buckets' = [buckets EXCEPT ![sm[m].heldKey] = Free]
  BY <1>1 DEF Release
<1>3. Free \notin SelectionIds
  BY IdFacts
<1> QED
  BY <1>1, <1>2, <1>3 DEF Selected, IInv, TypeOK

(* A selection that ends without a command is a Deselect. *)
LEMMA ClearingDeselects ==
    ASSUME IInv, NEW m \in Machines, sm[m].state = "Armed",
           Release(sm[m].heldKey, sm[m].sequenceId),
           UNCHANGED <<accepted, commands>>
    PROVE  Contract!Next
<1>1. PICK key \in Keys : key = sm[m].heldKey
  BY ArmedFacts
<1>2. Contract!Deselect(key)
  BY <1>1, ReleaseDeselects DEF Contract!Deselect, Selected, AcceptedIds
<1> QED
  BY <1>2 DEF Contract!Next

(* Every step of the machines is a step of the contract or a stutter. *)
LEMMA ContractStep ==
    ASSUME IInv, NEW m \in Machines, MachineStep(m)
    PROVE  Contract!Next \/ UNCHANGED Contract!vars
<1>1. ASSUME NEW k \in Keys, SelectNotIdle(m, k)
      PROVE  UNCHANGED Contract!vars
  <2>1. CASE TryAcquireRejected(k)
    BY <1>1, <2>1, ContractStutters DEF SelectNotIdle, TryAcquireRejected, Selected
  <2>2. CASE TryAcquire(k, RejectedId(nextSeq))
    <3>1. buckets[k] \notin SelectionIds /\ RejectedId(nextSeq) \notin SelectionIds
      BY <2>2, IdFacts DEF TryAcquire, Busy, IInv, TypeOK
    <3>2. buckets' = [buckets EXCEPT ![k] = RejectedId(nextSeq)]
      BY <2>2 DEF TryAcquire
    <3>3. Selected' = Selected
      BY <3>1, <3>2 DEF Selected, IInv, TypeOK
    <3> QED
      BY <1>1, <3>3, ContractStutters DEF SelectNotIdle
  <2> QED
    BY <1>1, <2>1, <2>2 DEF SelectNotIdle
<1>2. ASSUME NEW k \in Keys, NEW v \in Values, SelectBusy(m, k, v)
      PROVE  UNCHANGED Contract!vars
  BY <1>2, ContractStutters DEF SelectBusy, TryAcquireRejected, Selected
<1>3. ASSUME NEW k \in Keys, NEW v \in Values, SelectGranted(m, k, v)
      PROVE  Contract!Next
  <2> DEFINE id == SboId(nextSeq)
             a == [id |-> id, cmd |-> [key |-> k, value |-> v]]
  <2>1. /\ id \in SelectionIds /\ id.n = nextSeq /\ a.id = id
        /\ nextSeq \in 0..MaxSeq
    BY <1>3, IdFacts, MaxSeqAssumption DEF IInv, TypeOK, SelectGranted
  <2>2. /\ buckets[k] = Free
        /\ buckets' = [buckets EXCEPT ![k] = id]
        /\ accepted' = accepted \cup {a}
        /\ commands' = commands
    BY <1>3 DEF SelectGranted, TryAcquire, Busy
  <2>3. id \notin AcceptedIds
    <3>1. \A b \in accepted : b.id.n # nextSeq
      BY IdFacts DEF IInv, IdsAreOld, TypeOK, IssuedCommand
    <3> QED
      BY <2>1, <3>1 DEF AcceptedIds
  <2>4. id \in {SboId(n) : n \in 0..MaxSeq}
    BY <2>1
  <2> HIDE DEF id
  <2>5. AcceptedIds' = AcceptedIds \cup {id}
    BY <2>1, <2>2 DEF AcceptedIds
  <2>6. Selected[k] = NoId /\ Selected' = [Selected EXCEPT ![k] = id]
    BY <2>1, <2>2, IdFacts DEF Selected, IInv, TypeOK
  <2>7. PICK t \in {SboId(n) : n \in 0..MaxSeq} : t = id
    BY <2>4
  <2>8. Contract!Select(k, t)
    BY <2>2, <2>3, <2>5, <2>6, <2>7 DEF Contract!Select, Selected
  <2> QED
    BY <2>8 DEF Contract!Next
<1>4. ASSUME NEW id, SubmitOperate(m, id)
      PROVE  Contract!Next
  <2> DEFINE c == [id |-> id, cmd |-> sm[m].pendingCommand]
             n == Len(commands)
  <2>1. /\ sm[m].state = "Armed" /\ id = sm[m].sequenceId
        /\ Release(sm[m].heldKey, sm[m].sequenceId)
        /\ commands' = Append(commands, c)
        /\ accepted' = accepted
    BY <1>4 DEF SubmitOperate
  <2>2. /\ c \in IssuedCommand
        /\ c.id = sm[m].sequenceId
        /\ c.cmd.key = sm[m].heldKey
    BY <2>1, ArmedFacts DEF IInv, TypeOK
  <2> HIDE DEF c
  <2>3. /\ n \in Nat
        /\ Len(commands') = n + 1
        /\ commands'[n + 1] = c
        /\ \A i \in 1..n : commands'[i] = commands[i]
    BY <2>1, <2>2 DEF IInv, TypeOK
  <2>4. 1..Len(commands') = (1..n) \cup {n + 1}
    BY <2>3
  <2>5. Sent' = Sent \cup {[ticket |-> c.id, register |-> c.cmd.key]}
    BY <2>3, <2>4 DEF Sent
  <2>6. PICK key \in Keys : key = sm[m].heldKey
    BY <2>1, ArmedFacts
  <2>7. Contract!Operate(key)
    BY <2>1, <2>2, <2>5, <2>6, ReleaseDeselects
       DEF Contract!Operate, Selected, Sent, AcceptedIds
  <2> QED
    BY <2>7 DEF Contract!Next
<1>5. ASSUME NEW id, SubmitCancel(m, id)
      PROVE  Contract!Next
  BY <1>5, ClearingDeselects DEF SubmitCancel, ForceAbort
<1>6. ASSUME NEW id, NEW success, DeviceAck(m, id, success)
      PROVE  UNCHANGED Contract!vars
  BY <1>6, ContractStutters DEF DeviceAck, Selected
<1>7. ASSUME NEW connected, LinkStatusChanged(m, connected)
      PROVE  UNCHANGED Contract!vars
  BY <1>7, ContractStutters DEF LinkStatusChanged, Selected
<1>8. ASSUME ArmedTimeout(m)
      PROVE  Contract!Next
  <2>1. sm[m].state = "Armed"
    BY <1>8 DEF ArmedTimeout, IInv, TimersMatchState
  <2> QED
    BY <1>8, <2>1, ClearingDeselects DEF ArmedTimeout
<1>9. ASSUME FlappingTimeout(m)
      PROVE  Contract!Next \/ UNCHANGED Contract!vars
  <2> DEFINE t == [sm[m] EXCEPT !.flappingTimer = FALSE]
  <2>1. /\ t.state = sm[m].state /\ t.sequenceId = sm[m].sequenceId
        /\ t.heldKey = sm[m].heldKey
    BY DEF IInv, TypeOK, Machine
  <2>2. UNCHANGED <<accepted, commands>>
    BY <1>9 DEF FlappingTimeout
  <2>3. ForceAbort(m, t) \/ UNCHANGED <<buckets, cleared>>
    BY <1>9 DEF FlappingTimeout
  <2> HIDE DEF t
  <2>4. UNCHANGED buckets \/ (sm[m].state = "Armed"
                              /\ Release(sm[m].heldKey, sm[m].sequenceId))
    BY <2>1, <2>3 DEF ForceAbort
  <2> QED
    BY <2>2, <2>4, ClearingDeselects, ContractStutters DEF Selected
<1>10. ASSUME ExecutingTimeout(m)
       PROVE  UNCHANGED Contract!vars
  BY <1>10, ContractStutters DEF ExecutingTimeout, Selected
<1> QED
  BY <1>1, <1>2, <1>3, <1>4, <1>5, <1>6, <1>7, <1>8, <1>9, <1>10
     DEF MachineStep

(* The state machines and the guard implement the select-before-operate    *)
(* contract: one ticket per register, each ticket granted once, and a      *)
(* command only by consuming the ticket that selects its register.         *)
THEOREM Refinement == Spec => ImplementsContract
<1>1. Init => Contract!Init
  BY IdFacts DEF Init, GuardInit, Contract!Init, AcceptedIds
<1>2. IInv /\ [Next]_vars => [Contract!Next]_(Contract!vars)
  <2> SUFFICES ASSUME IInv, [Next]_vars
               PROVE  Contract!Next \/ UNCHANGED Contract!vars
    OBVIOUS
  <2>1. CASE Next
    BY <2>1, ContractStep DEF Next
  <2>2. CASE UNCHANGED vars
    BY <2>2, ContractStutters DEF vars, Selected
  <2> QED
    BY <2>1, <2>2
<1> QED
  BY <1>1, <1>2, Invariance, PTL DEF Spec, ImplementsContract, Contract!Spec

-----------------------------------------------------------------------------
(* A step closes the flapping window only with the link back or the        *)
(* selection over.  Only onLinkStatusChanged(true) and onFlappingTimeout   *)
(* stop it, and the latter, on a link that is down, leaves Armed through   *)
(* forceAbort.                                                             *)
LEMMA WindowStep ==
    ASSUME IInv, NEW m \in Machines, MachineStep(m)
    PROVE  \A n \in Machines :
              (sm[n].flappingTimer /\ ~sm'[n].flappingTimer) =>
                  (sm'[n].linkConnected \/ sm'[n].state # "Armed")
<1>1. sm \in [Machines -> Machine] /\ sm[m] \in Machine
  BY DEF IInv, TypeOK
<1> DEFINE Others == \A n \in Machines \ {m} : sm'[n] = sm[n]
           Kept == sm'[m].flappingTimer = sm[m].flappingTimer
<1>w. ASSUME NEW s, sm' = [sm EXCEPT ![m] = s]
      PROVE  Others /\ sm'[m] = s
  BY <1>1, <1>w
<1>2. ASSUME NEW k \in Keys, SelectNotIdle(m, k)
      PROVE  sm' = sm
  BY <1>2 DEF SelectNotIdle
<1>3. ASSUME NEW k \in Keys, NEW v \in Values, SelectBusy(m, k, v)
      PROVE  Others /\ Kept
  BY <1>1, <1>3 DEF SelectBusy, Machine, SboCommand
<1>4. ASSUME NEW k \in Keys, NEW v \in Values, SelectGranted(m, k, v)
      PROVE  Others /\ Kept
  <2>1. SboId(nextSeq) \in SelectionIds
    BY IdFacts DEF IInv, TypeOK
  <2> QED
    BY <1>1, <1>4, <2>1 DEF SelectGranted, Machine, SboCommand, States
<1>5. ASSUME NEW id \in AcceptedIds, SubmitOperate(m, id)
      PROVE  Others /\ Kept
  BY <1>1, <1>5 DEF SubmitOperate, Machine, States
<1>6. ASSUME NEW id \in AcceptedIds, SubmitCancel(m, id)
      PROVE  Others /\ Kept
  <2> DEFINE s == BackToIdle([sm[m] EXCEPT !.armedTimer = FALSE,
                                           !.execTimer = FALSE])
  <2>1. s.flappingTimer = sm[m].flappingTimer
    BY <1>1 DEF BackToIdle, Forget, Machine
  <2>2. sm' = [sm EXCEPT ![m] = s]
    BY <1>6 DEF SubmitCancel, ForceAbort
  <2> HIDE DEF s
  <2> QED
    BY <2>1, <2>2, <1>w
<1>7. ASSUME NEW id \in AcceptedIds, NEW success \in BOOLEAN,
             DeviceAck(m, id, success)
      PROVE  Others /\ Kept
  BY <1>1, <1>7 DEF DeviceAck, BackToIdle, Forget, Machine, States
<1>8. ASSUME NEW connected \in BOOLEAN, LinkStatusChanged(m, connected)
      PROVE  Others /\ (sm'[m].linkConnected \/ sm'[m].flappingTimer)
  BY <1>1, <1>8 DEF LinkStatusChanged, Machine
<1>9. ASSUME ArmedTimeout(m)
      PROVE  Others /\ Kept
  <2> DEFINE s == [sm[m] EXCEPT !.armedTimer = FALSE]
  <2>1. /\ s.flappingTimer = sm[m].flappingTimer
        /\ BackToIdle(s).flappingTimer = sm[m].flappingTimer
    BY <1>1 DEF BackToIdle, Forget, Machine
  <2>2. \/ sm' = [sm EXCEPT ![m] = s]
        \/ sm' = [sm EXCEPT ![m] = BackToIdle(s)]
    BY <1>9 DEF ArmedTimeout
  <2> HIDE DEF s
  <2> QED
    BY <2>1, <2>2, <1>w
<1>10. ASSUME FlappingTimeout(m)
       PROVE  Others /\ (sm'[m].linkConnected \/ sm'[m].state # "Armed")
  <2> DEFINE t == [sm[m] EXCEPT !.flappingTimer = FALSE]
  <2>1. t \in Machine /\ t.state = sm[m].state
    BY <1>1 DEF Machine
  <2>2. CASE t.linkConnected
    <3>1. sm' = [sm EXCEPT ![m] = t]
      BY <1>10, <2>2 DEF FlappingTimeout
    <3> HIDE DEF t
    <3> QED
      BY <2>2, <3>1, <1>w
  <2>3. CASE ~t.linkConnected /\ t.state = "Armed"
    <3> DEFINE s == BackToIdle([t EXCEPT !.armedTimer = FALSE, !.execTimer = FALSE])
    <3>1. s \in Machine /\ s.state = "Idle"
      BY <2>1 DEF BackToIdle, Forget, Machine, States
    <3>2. sm' = [sm EXCEPT ![m] = s]
      BY <1>10, <2>3 DEF FlappingTimeout, ForceAbort
    <3> HIDE DEF s
    <3> QED
      BY <3>1, <3>2, <1>w
  <2>4. CASE ~t.linkConnected /\ t.state # "Armed"
    <3>1. Forget(t) \in Machine /\ Forget(t).state = t.state
      BY <2>1 DEF Forget, Machine
    <3>2. sm' = [sm EXCEPT ![m] = Forget(t)]
      BY <1>10, <2>4 DEF FlappingTimeout, ForceAbort
    <3> HIDE DEF t
    <3> QED
      BY <2>4, <3>1, <3>2, <1>w
  <2> QED
    BY <2>2, <2>3, <2>4
<1>11. ASSUME ExecutingTimeout(m)
       PROVE  Others /\ Kept
  <2> DEFINE s == [sm[m] EXCEPT !.execTimer = FALSE]
  <2>1. /\ s.flappingTimer = sm[m].flappingTimer
        /\ BackToIdle(s).flappingTimer = sm[m].flappingTimer
    BY <1>1 DEF BackToIdle, Forget, Machine
  <2>2. \/ sm' = [sm EXCEPT ![m] = s]
        \/ sm' = [sm EXCEPT ![m] = BackToIdle(s)]
    BY <1>11 DEF ExecutingTimeout
  <2> HIDE DEF s
  <2> QED
    BY <2>1, <2>2, <1>w
<1>12. /\ Others
       /\ \/ Kept
          \/ sm'[m].linkConnected
          \/ sm'[m].flappingTimer
          \/ sm'[m].state # "Armed"
  <2>1. sm' = sm => Others /\ Kept
    OBVIOUS
  <2> HIDE DEF Others, Kept
  <2> QED
    BY <2>1, <1>2, <1>3, <1>4, <1>5, <1>6, <1>7, <1>8, <1>9, <1>10, <1>11
       DEF MachineStep
<1> QED
  BY <1>12

(* A loss of the link that outlasts the flapping window never leaves the   *)
(* Armed state it found behind (onFlappingTimeout through forceAbort).     *)
THEOREM NoArmedOutlivesTheWindow == Spec => WindowEndsArmed
<1>1. IInv /\ [Next]_vars =>
          [\A m \in Machines :
              (sm[m].flappingTimer /\ ~sm'[m].flappingTimer) =>
                  (sm'[m].linkConnected \/ sm'[m].state # "Armed")]_vars
  BY WindowStep DEF Next
<1> QED
  BY <1>1, Invariance, PTL DEF Spec, WindowEndsArmed
=============================================================================
