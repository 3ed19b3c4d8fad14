----------------------------- MODULE Autoscale ------------------------------
(***************************************************************************)
(* The autoscaler (internal/alerting/autoscale.go) on every gateway of a   *)
(* cluster, for one policy.  Only the leader evaluates.  The expressions   *)
(* and the size of the pool may be anything.  Times are ages, capped at    *)
(* the cooldowns.                                                          *)
(***************************************************************************)
EXTENDS Naturals, FiniteSets

CONSTANTS
    Scalers,                        \* the gateways
    MinReplicas, MaxReplicas,       \* MaxReplicas = 0 stands for no limit
    ScaleUpStep, ScaleDownStep,
    UpCooldown, DownCooldown,
    MaxPool,                        \* bound on the size of the pool
    MaxMoves                        \* bound on changes of the pool and of the lead

ASSUME ScaleAssumption ==
    {MinReplicas, MaxReplicas, ScaleUpStep, ScaleDownStep, MaxPool} \subseteq Nat

VARIABLES
    chief,          \* the gateway for which IsLeader is true
    size,           \* len(rt.Pool())
    desired,        \* gateway |-> the gauge onDesired sets
    produced,       \* gateway |-> whether the model is in `produced'
    upAge, downAge, \* gateway |-> time since lastUp and lastDown
    advice,         \* gateway |-> the advice it sent last
    moves

scaleVars == <<chief, size, desired, produced, upAge, downAge, advice, moves>>

NoAdvice == [dir |-> "hold", from |-> 0, to |-> 0]
Least(a, b) == IF a < b THEN a ELSE b
Most(a, b) == IF a > b THEN a ELSE b

ScaleInit ==
    /\ chief = CHOOSE g \in Scalers : TRUE
    /\ size = MinReplicas
    /\ desired = [g \in Scalers |-> 0]
    /\ produced = [g \in Scalers |-> FALSE]
    /\ upAge = [g \in Scalers |-> UpCooldown]
    /\ downAge = [g \in Scalers |-> DownCooldown]
    /\ advice = [g \in Scalers |-> NoAdvice]
    /\ moves = 0

\* Mutant of ScaledUp: without the clamp.
ScaledUpUnclamped == size + ScaleUpStep

ScaledUp == IF MaxReplicas > 0 THEN Least(size + ScaleUpStep, MaxReplicas) ELSE size + ScaleUpStep

\* The recommendation of evalPolicy: scaling up goes before scaling down, each is
\* clamped on its own side only, and no change is a hold.
Recommend(up, down) ==
    LET less == IF size > ScaleDownStep THEN Most(size - ScaleDownStep, MinReplicas) ELSE MinReplicas
        to   == CASE up -> ScaledUp [] ~ up /\ down -> less [] OTHER -> size
        dir  == IF to = size THEN "hold" ELSE IF up THEN "up" ELSE "down"
    IN  [dir |-> dir, from |-> size, to |-> to]

\* Mutant of Shown: the gauge follows a recommendation that is held back.
ShownAlways(g, rec, goes) == IF rec.dir = "hold" THEN desired[g] ELSE rec.to

Shown(g, rec, goes) == IF goes THEN rec.to ELSE desired[g]

\* Mutant of Produces: an advice to scale up is forgotten.
ProducesDown(rec) == rec.dir = "down"

Produces(rec) == rec.dir # "hold"

\* evalPolicy: advice goes out, to the gauge and to the webhook, unless that direction
\* is cooling down.
EvalPolicy(g, up, down) ==
    LET rec  == Recommend(up, down)
        goes == \/ rec.dir = "up" /\ upAge[g] >= UpCooldown
                \/ rec.dir = "down" /\ downAge[g] >= DownCooldown
    IN  /\ g = chief
        /\ produced' = [produced EXCEPT ![g] = @ \/ Produces(rec)]
        /\ upAge' = [upAge EXCEPT ![g] = IF goes /\ rec.dir = "up" THEN 0 ELSE @]
        /\ downAge' = [downAge EXCEPT ![g] = IF goes /\ rec.dir = "down" THEN 0 ELSE @]
        /\ desired' = [desired EXCEPT ![g] = Shown(g, rec, goes)]
        /\ advice' = [advice EXCEPT ![g] = IF goes THEN rec ELSE @]
        /\ UNCHANGED <<chief, size, moves>>

\* zeroStaleDesired, on a gateway that does not lead.
ZeroStaleDesired(g) ==
    /\ g # chief
    /\ produced[g]
    /\ produced' = [produced EXCEPT ![g] = FALSE]
    /\ desired' = [desired EXCEPT ![g] = 0]
    /\ UNCHANGED <<chief, size, upAge, downAge, advice, moves>>

PoolResized(n) ==
    /\ moves < MaxMoves /\ moves' = moves + 1
    /\ n # size /\ size' = n
    /\ UNCHANGED <<chief, desired, produced, upAge, downAge, advice>>

ChiefMoves(g) ==
    /\ moves < MaxMoves /\ moves' = moves + 1
    /\ g # chief /\ chief' = g
    /\ UNCHANGED <<size, desired, produced, upAge, downAge, advice>>

Cools ==
    /\ upAge' = [g \in Scalers |-> Least(upAge[g] + 1, UpCooldown)]
    /\ downAge' = [g \in Scalers |-> Least(downAge[g] + 1, DownCooldown)]
    /\ UNCHANGED <<chief, size, desired, produced, advice, moves>>

ScaleNext ==
    \/ \E g \in Scalers :
         \/ \E up, down \in BOOLEAN : EvalPolicy(g, up, down)
         \/ ZeroStaleDesired(g)
         \/ ChiefMoves(g)
    \/ \E n \in 0 .. MaxPool : PoolResized(n)
    \/ Cools

-----------------------------------------------------------------------------
(* Properties. *)

\* "The gauge and the webhook agree" (evalPolicy): the gauge of a gateway shows the advice
\* it sent last, or nothing, and then it has nothing left to take back.
GaugeIsAdvice ==
    \A g \in Scalers : desired[g] # 0 => desired[g] = advice[g].to /\ produced[g]

\* As long as the pool's size is within the clamps, advice to scale up asks for more
\* and advice to scale down for less, within the clamps.  (Outside them evalPolicy may
\* advise "down" to a larger number, or "up" to a smaller one.)
AdvicePointsItsWay ==
    \A g \in Scalers :
        LET a == advice[g]
        IN  a.from >= MinReplicas /\ (MaxReplicas > 0 => a.from <= MaxReplicas) =>
                /\ a.dir = "up" => a.to > a.from /\ (MaxReplicas > 0 => a.to <= MaxReplicas)
                /\ a.dir = "down" => a.to < a.from /\ a.to >= MinReplicas

\* "So that the HPA does not scale by stale advice" (zeroStaleDesired): the gauge of a
\* gateway that lost the lead for good goes to zero.
StaleAdviceZeroed == <>[](\A g \in Scalers \ {chief} : desired[g] = 0)
=============================================================================
