-------------------------- MODULE MCSchedulerDrain --------------------------
(* One scheduler host and the driver, a job for each, one operator.        *)
EXTENDS SchedulerDrain

Two == {"to host", "local"}
Where == [j \in Two |-> IF j = "local" THEN "driver" ELSE "cluster"]
=============================================================================
