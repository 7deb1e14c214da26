------------------------ MODULE SelectBeforeOperate ------------------------
(***************************************************************************)
(* What select-before-operate promises the plant, without state machines,  *)
(* timers or links: a register is selected by at most one ticket, a ticket *)
(* is granted once, and a command reaches the device only by consuming the *)
(* ticket that selects its register.  The contract DeviceSboGuard and      *)
(* SboStateMachine have to implement together.                             *)
(***************************************************************************)
CONSTANTS Registers,   \* controllable registers
          Tickets,     \* selection tickets
          Nobody       \* the selector of an unselected register

VARIABLES selected,    \* which ticket selects a register, or Nobody
          used,        \* tickets granted so far
          sent         \* commands sent: [ticket, register]

vars == <<selected, used, sent>>

Init ==
    /\ selected = [r \in Registers |-> Nobody]
    /\ used = {}
    /\ sent = {}

(* A fresh ticket selects an unselected register. *)
Select(r, t) ==
    /\ selected[r] = Nobody
    /\ t \notin used
    /\ selected' = [selected EXCEPT ![r] = t]
    /\ used' = used \cup {t}
    /\ UNCHANGED sent

(* Cancel, timeout or link loss: the selection is gone without effect. *)
Deselect(r) ==
    /\ selected[r] # Nobody
    /\ selected' = [selected EXCEPT ![r] = Nobody]
    /\ UNCHANGED <<used, sent>>

(* The second confirmation consumes the ticket and sends the command. *)
Operate(r) ==
    /\ selected[r] # Nobody
    /\ sent' = sent \cup {[ticket |-> selected[r], register |-> r]}
    /\ selected' = [selected EXCEPT ![r] = Nobody]
    /\ UNCHANGED used

Next ==
    \E r \in Registers :
        \/ \E t \in Tickets : Select(r, t)
        \/ Deselect(r)
        \/ Operate(r)

Spec == Init /\ [][Next]_vars
=============================================================================
