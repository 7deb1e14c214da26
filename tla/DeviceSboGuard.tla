--------------------------- MODULE DeviceSboGuard ---------------------------
(***************************************************************************)
(* The device-level SBO lock table (business/DeviceSboGuard).  A bucket    *)
(* maps a key (linkId, slaveId, registerAddr) to the sequence id that      *)
(* occupies it; operator name, arming time and timeout are display data    *)
(* and are left out.  Each operation runs under m_mutex, so it is one      *)
(* step; it is written as an action on buckets that its caller conjoins.   *)
(***************************************************************************)
EXTENDS Naturals

CONSTANTS Keys,     \* SboDeviceKey values
          Free      \* the value of a bucket that m_buckets does not contain

VARIABLE buckets    \* m_buckets: key -> occupying sequence id, or Free

(***************************************************************************)
(* Sequence ids.  One process-wide counter (QCoreApplication_getPidSafe)   *)
(* feeds two families: "sbo-<n*1000>" for a selection and "rejected-<n>"   *)
(* for the probe a busy state machine makes.  NoId is the empty string.    *)
(***************************************************************************)
SboId(n) == [kind |-> "sbo", n |-> n]
RejectedId(n) == [kind |-> "rejected", n |-> n]
NoId == [kind |-> "none", n |-> 0]
Ids == [kind : {"sbo", "rejected"}, n : Nat]

ASSUME FreeIsNoId == Free \notin Ids \cup {NoId}

GuardInit == buckets = [k \in Keys |-> Free]

Busy(k) == buckets[k] # Free

(* Mutant: an occupied bucket is overwritten. *)
TryAcquireOverwrites(k, id) ==
    buckets' = [buckets EXCEPT ![k] = id]

(* tryAcquire returning true: the bucket was absent and is inserted.       *)
TryAcquire(k, id) ==
    /\ ~Busy(k)
    /\ buckets' = [buckets EXCEPT ![k] = id]

(* tryAcquire returning false: armedRejected is emitted, nothing changes.  *)
TryAcquireRejected(k) ==
    /\ Busy(k)
    /\ UNCHANGED buckets

(* release: a no-op unless the bucket is occupied by this sequence id.     *)
Release(k, id) ==
    buckets' = [buckets EXCEPT ![k] = IF @ = id THEN Free ELSE @]
=============================================================================
