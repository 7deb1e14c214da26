----------------------------- MODULE Scheduler -----------------------------
(***************************************************************************)
(* A PollScheduler object: the queues of a link and the health of the      *)
(* slaves behind it.  The callers of enqueue and dequeueNext and those of  *)
(* onResponseReceived are independent of each other, and so are the two    *)
(* halves of the object: dequeueNext does not look at the health.          *)
(***************************************************************************)
EXTENDS PollScheduler, SlaveHealth

SchedulerInit == QueuesInit /\ HealthInit

SchedulerNext ==
    \/ QueuesNext /\ UNCHANGED healthVars
    \/ HealthNext /\ UNCHANGED dequeVars

SchedulerSpec == SchedulerInit /\ [][SchedulerNext]_<<dequeVars, healthVars>>
=============================================================================
