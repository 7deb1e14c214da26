------------------------------ MODULE Ordering ------------------------------
(***************************************************************************)
(* std::sort, std::map and std::set of the repository: the elements of a   *)
(* finite set in the order of a comparison that tells any two of them      *)
(* apart.                                                                  *)
(***************************************************************************)
EXTENDS Integers, FiniteSets

(* The element at place i has i - 1 elements before it. *)
InOrder(S, before(_, _)) ==
    [i \in 1 .. Cardinality(S) |->
        CHOOSE x \in S : Cardinality({y \in S : before(y, x)}) = i - 1]
=============================================================================
