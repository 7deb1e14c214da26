------------------------------ MODULE BlackBox ------------------------------
(***************************************************************************)
(* The way of a critical alarm into the swap file: L1SnapshotStore with    *)
(* its buffers, BlackBoxManager and CriticalSwapFile.  All of it runs on   *)
(* the main thread; what interrupts it is the end of the process, which    *)
(* may come between any two stores into the mapped file.  The file         *)
(* survives it.  A sample is the time it was taken at.                     *)
(***************************************************************************)
EXTENDS Integers, Sequences, FiniteSets, SequencesExt

CONSTANTS
    Ids,            \* point ids, numbers
    Policies,       \* sets of ids initFromPolicy may be given
    RingCapacity,       \* slots of a buffer (capacityForPolicy)
    PreWindow,      \* kPreWindowMs
    PostWindow,     \* kPostWindowMs
    MaxSamples,     \* BlackBoxManager::kMaxSamples
    MaxSamplesPerSnap,
    SlotCount,
    MaxTime,        \* bound: the clock stops
    MaxSnapshots,   \* bound: critical alarms
    MaxCrashes      \* bound: ends of the process

ASSUME IdsAssumption ==
    /\ Ids \subseteq Nat /\ \E greatest \in Ids : \A id \in Ids : id <= greatest
    /\ Policies \subseteq (SUBSET Ids) \ {{}}
ASSUME SizesAssumption ==
    /\ RingCapacity \in Nat \ {0} /\ SlotCount \in Nat \ {0}
    /\ MaxSamples \in Nat /\ MaxSamplesPerSnap \in Nat
    /\ PreWindow \in Nat /\ PostWindow \in Nat
ASSUME BoxBoundsAssumption == MaxTime \in Nat /\ MaxSnapshots \in Nat /\ MaxCrashes \in Nat

VARIABLES
    now,
    l1,         \* L1SnapshotStore: tables of buffers
    rings,      \* times written into each buffer of this run, oldest first
    file,       \* the mapped file: header and slots
    swap,       \* members of the CriticalSwapFile object
    taken,      \* history: the snapshots taken
    appended,   \* history: the newest SlotCount - 1 that appendSnapshot returned true for
    crashes

boxVars == <<now, l1, rings, file, swap, taken, appended, crashes>>

None == -1

-----------------------------------------------------------------------------
(* L1SnapshotStore                                                         *)

LeastOf(S) == CHOOSE x \in S : \A y \in S : x <= y
GreatestOf(S) == CHOOSE x \in S : \A y \in S : x >= y

(* initFromPolicy: a table by index when the ids lie close together, by    *)
(* key otherwise.  A buffer is named by the id it was made for.            *)
IsDense(policy) == GreatestOf(policy) - LeastOf(policy) + 1 <= 2 * Cardinality(policy)

InitFromPolicy(policy) ==
    IF IsDense(policy)
    THEN LET minId == LeastOf(policy)
         IN  [minId |-> minId, maxId |-> GreatestOf(policy), sparse |-> {},
              index |-> [i \in 0 .. GreatestOf(policy) - minId |->
                            IF minId + i \in policy THEN minId + i ELSE None]]
    ELSE [minId |-> 0, maxId |-> 0, sparse |-> policy, index |-> <<>>]

(* lookup: the buffer of a point, or none. *)
Lookup(p) ==
    IF l1.index # <<>> /\ p >= l1.minId /\ p <= l1.maxId
    THEN l1.index[p - l1.minId]
    ELSE IF p \in l1.sparse THEN p ELSE None

(* What the slot of a position holds: the last value that went there. *)
SlotValue(ring, pos) ==
    ring[pos + 1 + RingCapacity * ((Len(ring) - 1 - pos) \div RingCapacity)]

(* Mutant: the first moment of the window is left out. *)
ExtractRangeOpen(ring, startTs, endTs, maxCount) ==
    SelectSeq(SubSeq([i \in DOMAIN ring |-> SlotValue(ring, i - 1)], 1, Len(ring)),
              LAMBDA t : t > startTs /\ t <= endTs)

(* extractRange: every published position in turn, also those that were    *)
(* overwritten, up to the first value behind the window or maxCount hits.  *)
ExtractRange(ring, startTs, endTs, maxCount) ==
    LET scan == [i \in DOMAIN ring |-> SlotValue(ring, i - 1)]
        stop == {i \in DOMAIN ring : scan[i] > endTs}
        last == IF stop = {} THEN Len(ring) ELSE LeastOf(stop) - 1
        out[n \in 0 .. last] ==
            IF n = 0 THEN <<>>
            ELSE IF scan[n] >= startTs /\ Len(out[n - 1]) < maxCount
                 THEN Append(out[n - 1], scan[n]) ELSE out[n - 1]
    IN  out[last]

-----------------------------------------------------------------------------
(* CriticalSwapFile                                                        *)

(* A slot of a new file is zero. *)
EmptySlot ==
    [pointId |-> 0, alarmTime |-> 0, count |-> 0, samples |-> [i \in 1 .. MaxSamplesPerSnap |-> 0]]

NewFile == [snapshotCount |-> 0, writePos |-> 0, slots |-> [i \in 0 .. SlotCount - 1 |-> EmptySlot]]

Closed == [initialized |-> FALSE, writePos |-> 0, snapshotCount |-> 0]

(* open: the members are read from the header. *)
Opened(f) ==
    [initialized |-> TRUE,
     writePos |-> IF f.writePos >= SlotCount THEN 0 ELSE f.writePos,
     snapshotCount |-> f.snapshotCount]

AppendRefused(snap) == ~swap.initialized \/ Len(snap.samples) > MaxSamplesPerSnap

(* memcpy replaces the samples it writes and leaves what lies behind. *)
Overwrite(old, new) == new \o SubSeq(old, Len(new) + 1, Len(old))

(* Mutant: the header is advanced before the slot is written. *)
AfterStoresHeaderFirst(snap, k) ==
    LET s == swap.writePos
        slot == file.slots[s]
    IN  [snapshotCount |-> IF k >= 1 THEN swap.snapshotCount + 1 ELSE file.snapshotCount,
         writePos |-> IF k >= 2 THEN (s + 1) % SlotCount ELSE file.writePos,
         slots |-> [file.slots EXCEPT ![s] =
            [pointId   |-> IF k >= 3 THEN snap.pointId ELSE slot.pointId,
             alarmTime |-> IF k >= 4 THEN snap.alarmTime ELSE slot.alarmTime,
             count     |-> IF k >= 5 THEN Len(snap.samples) ELSE slot.count,
             samples   |-> IF k >= 6 THEN Overwrite(slot.samples, snap.samples) ELSE slot.samples]]]

(* The file after the first k stores of appendSnapshot: point, time, count,*)
(* samples, then the counter and the position in the header.               *)
AfterStores(snap, k) ==
    LET s == swap.writePos
        slot == file.slots[s]
    IN  [snapshotCount |-> IF k >= 5 THEN swap.snapshotCount + 1 ELSE file.snapshotCount,
         writePos |-> IF k >= 6 THEN (s + 1) % SlotCount ELSE file.writePos,
         slots |-> [file.slots EXCEPT ![s] =
            [pointId   |-> IF k >= 1 THEN snap.pointId ELSE slot.pointId,
             alarmTime |-> IF k >= 2 THEN snap.alarmTime ELSE slot.alarmTime,
             count     |-> IF k >= 3 THEN Len(snap.samples) ELSE slot.count,
             samples   |-> IF k >= 4 THEN Overwrite(slot.samples, snap.samples) ELSE slot.samples]]]

AllStores == 6

IsFull(slot) == slot.count # 0 /\ slot.count <= MaxSamplesPerSnap

Parsed(slot) ==
    [pointId |-> slot.pointId, alarmTime |-> slot.alarmTime,
     samples |-> SubSeq(slot.samples, 1, slot.count)]

(* parsePendingSnapshots: slots in their order from 0, empty ones skipped, *)
(* not more than were counted.                                             *)
ParsePendingSnapshots(limit) ==
    LET full == SelectSeq([i \in 1 .. SlotCount |-> file.slots[i - 1]], IsFull)
        count == IF file.snapshotCount < limit THEN file.snapshotCount ELSE limit
        n == IF Len(full) < count THEN Len(full) ELSE count
    IN  [i \in 1 .. n |-> Parsed(full[i])]

-----------------------------------------------------------------------------
(* Steps                                                                   *)

NoSamples == [p \in Ids |-> <<>>]

BoxInit ==
    /\ now = 0
    /\ \E policy \in Policies : l1 = InitFromPolicy(policy)
    /\ rings = NoSamples
    /\ file = NewFile
    /\ swap = Opened(NewFile)
    /\ taken = {}
    /\ appended = <<>>
    /\ crashes = 0

(* onConsumeTick: write; a point without a buffer is dropped silently. *)
Write(p) ==
    /\ now < MaxTime
    /\ now' = now + 1
    /\ rings' = IF Lookup(p) = None THEN rings
                ELSE [rings EXCEPT ![Lookup(p)] = Append(@, now')]
    /\ UNCHANGED <<l1, file, swap, taken, appended, crashes>>

(* The snapshot triggerBlackBox takes for an alarm that is raised now. *)
Snapshot(p) ==
    [pointId |-> p, alarmTime |-> now,
     samples |-> IF Lookup(p) = None THEN <<>>
                 ELSE ExtractRange(rings[Lookup(p)],
                                   IF now > PreWindow THEN now - PreWindow ELSE 0,
                                   now + PostWindow, MaxSamples)]

Newest(s) == IF Len(s) > SlotCount - 1 THEN Tail(s) ELSE s

(* triggerBlackBox of a critical alarm of a point that has samples. *)
TriggerBlackBox(p) ==
    /\ file.snapshotCount < MaxSnapshots
    /\ Lookup(p) # None /\ rings[Lookup(p)] # <<>>
    /\ LET snap == Snapshot(p)
       IN  /\ taken' = taken \cup {snap}
           /\ IF AppendRefused(snap)
              THEN UNCHANGED <<file, swap, appended>>
              ELSE /\ file' = AfterStores(snap, AllStores)
                   /\ swap' = [swap EXCEPT !.snapshotCount = @ + 1,
                                           !.writePos = (@ + 1) % SlotCount]
                   /\ appended' = Newest(Append(appended, snap))
    /\ UNCHANGED <<now, l1, rings, crashes>>

(* The process that starts next: empty buffers, and the file if it can be  *)
(* opened; otherwise the black box only counts.                            *)
NextProcess ==
    /\ crashes < MaxCrashes
    /\ crashes' = crashes + 1
    /\ rings' = NoSamples
    /\ \/ swap' = Opened(file')
       \/ swap' = Closed
    /\ UNCHANGED <<now, l1, appended>>

(* The process ends between two alarms. *)
Crash == UNCHANGED <<file, taken>> /\ NextProcess

(* The process ends in the middle of appendSnapshot, after k stores. *)
CrashInAppend(p, k) ==
    /\ file.snapshotCount < MaxSnapshots
    /\ Lookup(p) # None /\ rings[Lookup(p)] # <<>>
    /\ ~AppendRefused(Snapshot(p))
    /\ taken' = taken \cup {Snapshot(p)}
    /\ file' = AfterStores(Snapshot(p), k)
    /\ NextProcess

BoxNext ==
    \/ \E p \in Ids : Write(p) \/ TriggerBlackBox(p)
    \/ Crash
    \/ \E p \in Ids, k \in 1 .. AllStores - 1 : CrashInAppend(p, k)

BoxSpec == BoxInit /\ [][BoxNext]_boxVars

-----------------------------------------------------------------------------
(* Properties.                                                             *)

Snapshots == [pointId : Ids, alarmTime : Nat, samples : Seq(Nat)]

(* Every variable holds a value of its type; the members of an open swap   *)
(* file are those of its header.                                           *)
BoxTypeOK ==
    /\ now \in 0 .. MaxTime
    /\ rings \in [Ids -> Seq(Nat)]
    /\ file.writePos \in 0 .. SlotCount - 1
    /\ swap.initialized => swap.writePos = file.writePos /\ swap.snapshotCount = file.snapshotCount
    /\ taken \subseteq Snapshots /\ appended \in Seq(Snapshots)

Whole(slot, snap) ==
    /\ slot.pointId = snap.pointId /\ slot.alarmTime = snap.alarmTime
    /\ slot.count = Len(snap.samples)
    /\ SubSeq(slot.samples, 1, slot.count) = snap.samples

(* However often the process dies in the middle of appendSnapshot, the     *)
(* newest snapshots that were written, all but one of a full round of      *)
(* slots, are whole in the file.                                           *)
WrittenSurvive ==
    \A n \in 1 .. Len(appended) : \E i \in 0 .. SlotCount - 1 : Whole(file.slots[i], appended[n])

(* What a recovery is given was taken by a trigger, with the exception of  *)
(* at most one slot torn by a crash, however many slots the file has and   *)
(* however often appendSnapshot was cut off (parsePendingSnapshots).       *)
AtMostOneTorn ==
    Cardinality({i \in 0 .. SlotCount - 1 : /\ IsFull(file.slots[i])
                                            /\ Parsed(file.slots[i]) \notin taken}) <= 1

(* A snapshot that was not cut off has every sample of its window that the *)
(* buffer still held, and no other (triggerBlackBox, extractRange), also   *)
(* after the buffer was overwritten; checked for an alarm raised now.      *)
SnapshotIsTheWindow ==
    \A p \in Ids :
        LET ring == rings[p]
            kept == SubSeq(ring, IF Len(ring) > RingCapacity THEN Len(ring) - RingCapacity + 1 ELSE 1, Len(ring))
            snap == Snapshot(p).samples
        IN  Len(snap) < MaxSamples =>
                ToSet(snap) = {t \in ToSet(kept) : t + PreWindow >= now}

(* Every point of the policy has a buffer of its own, and no other point   *)
(* has one: lookup finds what initFromPolicy made, in both layouts.        *)
RoutedByPoint == \A p \in Ids : Lookup(p) \in {p, None} /\ (rings[p] # <<>> => Lookup(p) = p)

-----------------------------------------------------------------------------
(* Statement of the code's comment that the code does not keep.            *)

(* BlackBoxManager: a critical snapshot is written to the file at once.    *)
(* But extractRange finds a sample again for every lap of the buffer, and  *)
(* appendSnapshot refuses what is too long.                                *)
CriticalIsPersisted ==
    [][(swap.initialized /\ taken' # taken /\ crashes' = crashes) => appended' # appended]_boxVars
=============================================================================
