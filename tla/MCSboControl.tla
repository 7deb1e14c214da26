--------------------------- MODULE MCSboControl ---------------------------
(* SboControl for TLC: two state machines sharing the guard, two registers. *)
EXTENDS SboControl

CONSTANTS m1, m2, k1, k2, v1
=============================================================================
