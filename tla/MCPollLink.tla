----------------------------- MODULE MCPollLink -----------------------------
(* Three segments: two of slave 1 with one function code, one of slave 2.  *)
EXTENDS PollLink, TLC

MCSlaveOf == (0 :> 1) @@ (1 :> 1) @@ (2 :> 2)
MCFcOf == (0 :> 3) @@ (1 :> 3) @@ (2 :> 3)
=============================================================================
