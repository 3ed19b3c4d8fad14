------------------------------ MODULE Control -------------------------------
(***************************************************************************)
(* Three loops of the control plane that share nothing but the leader they *)
(* ask for: alerts, autoscaling, and the rate limiter, which asks nobody.  *)
(* A behaviour is one of the three.                                        *)
(***************************************************************************)
EXTENDS Alerting, Autoscale, RateLimiter

CONSTANT Loops      \* the loops to look at

VARIABLE focus      \* the one that runs

vars == <<focus, alertVars, scaleVars, limitVars>>

Init ==
    /\ focus \in Loops
    /\ AlertInit /\ ScaleInit /\ LimitInit

InAlerts == focus = "alerts" /\ UNCHANGED <<focus, scaleVars, limitVars>>
InScaling == focus = "scaling" /\ UNCHANGED <<focus, alertVars, limitVars>>
InLimits == focus = "limits" /\ UNCHANGED <<focus, alertVars, scaleVars>>

Next ==
    \/ AlertNext /\ InAlerts
    \/ ScaleNext /\ InScaling
    \/ LimitNext /\ InLimits

Spec == Init /\ [][Next]_vars

\* Tickers tick and time passes.  A delivery ends, and so does a call to Redis; requests
\* keep asking the limiter.  The world need not change.
FairSpec ==
    /\ Spec
    /\ WF_vars(Elapse /\ InAlerts)
    /\ \A g \in Gateways :
         /\ WF_vars(Evaluate(g) /\ InAlerts)
         /\ WF_vars(ResetStates(g) /\ InAlerts)
         /\ WF_vars(Deliver(g) /\ InAlerts)
    /\ \A g \in Scalers : WF_vars(ZeroStaleDesired(g) /\ InScaling)
    /\ \A g \in Limiters :
         /\ WF_vars(WindowOver(g) /\ InLimits)
         /\ \A c \in Calls : WF_vars((Allow(g, c) \/ Answer(g, c) \/ Settle(g, c)) /\ InLimits)
=============================================================================
