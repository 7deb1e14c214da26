---------------------------- MODULE AlarmLedger ----------------------------
(***************************************************************************)
(* What the alarm engine promises its listeners: a point has at most one   *)
(* open alarm, every alarm gets a number no other alarm of the same run    *)
(* has, and only an open alarm is closed.                                  *)
(***************************************************************************)
EXTENDS Naturals

CONSTANTS Points

VARIABLES
    open,    \* the number of the point's open alarm, 0 when there is none
    raised   \* alarms raised since the program started

Init == open = [p \in Points |-> 0] /\ raised = 0

Raise(p) ==
    /\ open[p] = 0
    /\ raised' = raised + 1
    /\ open' = [open EXCEPT ![p] = raised + 1]

(* Recovery closes one alarm; removing rules closes several at once. *)
Close(S) ==
    /\ \A p \in S : open[p] # 0
    /\ open' = [p \in Points |-> IF p \in S THEN 0 ELSE open[p]]
    /\ UNCHANGED raised

Restart == open' = [p \in Points |-> 0] /\ raised' = 0

Next ==
    \/ \E p \in Points : Raise(p)
    \/ \E S \in SUBSET Points : Close(S)
    \/ Restart

Spec == Init /\ [][Next]_<<open, raised>>
=============================================================================
