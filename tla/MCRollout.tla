----------------------------- MODULE MCRollout ------------------------------
(* The instance of Rollout that TLC checks.                                *)
EXTENDS Rollout

TwoSteps == <<10, 100>>
AnyError(w) == w.errors > 0
Always(w) == TRUE

AllFaults == [loss |-> 1, move |-> 1, restart |-> 1, reset |-> 1]
OneLoss == [loss |-> 1, move |-> 0, restart |-> 0, reset |-> 0]
=============================================================================
