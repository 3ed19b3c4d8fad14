--------------------------- MODULE ControlProofs ----------------------------
(***************************************************************************)
(* What is proved of the control loops, for any gateways.                  *)
(*                                                                         *)
(* The autoscaler, for every clamp, step and cooldown: what it advises and *)
(* what it shows.  The rate limiter, for every burst and threshold of its  *)
(* breaker: what it lets through.  The alerts, for every window and queue: *)
(* no start and no end of a firing is swallowed.  The broadcast state, for *)
(* any instances and deployments: what an instance may come to have, and   *)
(* that its snapshot does not go back.                                     *)
(***************************************************************************)
EXTENDS Control, StateSync, WellFoundedInduction, TLAPS

\* The time the provers have for a leaf, in seconds.
USE SMTT(30), ZenonT(30)

-----------------------------------------------------------------------------
(* The autoscaler. *)

Advices == [dir : {"hold", "up", "down"}, from : Nat, to : Nat]

\* Advice to scale up asks for more and to scale down for less, within the clamps, if
\* the pool was within them.
Sound(a) ==
    a.from >= MinReplicas /\ (MaxReplicas > 0 => a.from <= MaxReplicas) =>
        /\ a.dir = "up" => a.to > a.from /\ (MaxReplicas > 0 => a.to <= MaxReplicas)
        /\ a.dir = "down" => a.to < a.from /\ a.to >= MinReplicas

ScaleTypeOK ==
    /\ size \in Nat
    /\ desired \in [Scalers -> Nat]
    /\ produced \in [Scalers -> BOOLEAN]
    /\ advice \in [Scalers -> Advices]

ScaleInv ==
    /\ ScaleTypeOK
    /\ \A g \in Scalers : Sound(advice[g])
    /\ GaugeIsAdvice

\* What evalPolicy recommends is well formed and sound, for any size of the pool.
LEMMA RecommendIsSound ==
    ASSUME size \in Nat, NEW up \in BOOLEAN, NEW down \in BOOLEAN
    PROVE  Recommend(up, down) \in Advices /\ Sound(Recommend(up, down))
<1> DEFINE less == IF size > ScaleDownStep THEN Most(size - ScaleDownStep, MinReplicas) ELSE MinReplicas
           to   == CASE up -> ScaledUp [] ~ up /\ down -> less [] OTHER -> size
           dir  == IF to = size THEN "hold" ELSE IF up THEN "up" ELSE "down"
           rec  == [dir |-> dir, from |-> size, to |-> to]
<1>1. Recommend(up, down) = rec
  BY DEF Recommend
<1>2. /\ MinReplicas \in Nat /\ MaxReplicas \in Nat
      /\ ScaleUpStep \in Nat /\ ScaleDownStep \in Nat
  BY ScaleAssumption
<1>3. ScaledUp \in Nat /\ (MaxReplicas > 0 => ScaledUp <= MaxReplicas)
      /\ ((MaxReplicas > 0 => size <= MaxReplicas) => ScaledUp >= size)
  BY <1>2 DEF ScaledUp, Least
<1>4. less \in Nat /\ less >= MinReplicas /\ (size >= MinReplicas => less <= size)
  BY <1>2 DEF Most
<1> HIDE DEF less
<1>5. to \in Nat /\ (up => to = ScaledUp) /\ (~ up => to \in {less, size})
  BY <1>3, <1>4
<1> HIDE DEF to
<1>6. /\ dir \in {"hold", "up", "down"} /\ (dir = "up" => up /\ to # size)
      /\ (dir = "down" => ~ up /\ to # size)
  BY <1>5
<1> HIDE DEF dir
<1>7. rec \in Advices /\ rec.dir = dir /\ rec.from = size /\ rec.to = to
  BY <1>5, <1>6 DEF Advices
<1> HIDE DEF rec
<1>8. Sound(rec)
  BY <1>2, <1>3, <1>4, <1>5, <1>6, <1>7 DEF Sound
<1> QED
  BY <1>1, <1>7, <1>8

\* evalPolicy changes the gauge and the advice of one gateway together.
LEMMA EvalPolicyKeeps ==
    ASSUME ScaleInv, NEW g \in Scalers, NEW up \in BOOLEAN, NEW down \in BOOLEAN,
           EvalPolicy(g, up, down)
    PROVE  ScaleInv'
<1> DEFINE rec == Recommend(up, down)
           goes == \/ rec.dir = "up" /\ upAge[g] >= UpCooldown
                   \/ rec.dir = "down" /\ downAge[g] >= DownCooldown
<1>1. rec \in Advices /\ Sound(rec) /\ rec.to \in Nat
  BY RecommendIsSound DEF ScaleInv, ScaleTypeOK, Advices
<1>2. /\ produced' = [produced EXCEPT ![g] = produced[g] \/ rec.dir # "hold"]
      /\ desired' = [desired EXCEPT ![g] = IF goes THEN rec.to ELSE desired[g]]
      /\ advice' = [advice EXCEPT ![g] = IF goes THEN rec ELSE advice[g]]
      /\ size' = size
  BY DEF EvalPolicy, Shown, Produces
<1>3. goes => rec.dir # "hold"
  OBVIOUS
<1> HIDE DEF rec, goes
<1>4. produced' \in [Scalers -> BOOLEAN]
  BY <1>2 DEF ScaleInv, ScaleTypeOK
<1>5. desired' \in [Scalers -> Nat]
  BY <1>1, <1>2 DEF ScaleInv, ScaleTypeOK
<1>6. advice' \in [Scalers -> Advices]
  BY <1>1, <1>2 DEF ScaleInv, ScaleTypeOK
<1>7. ScaleTypeOK'
  BY <1>2, <1>4, <1>5, <1>6 DEF ScaleInv, ScaleTypeOK
<1>8. ASSUME NEW h \in Scalers PROVE Sound(advice[h])'
  <2>1. advice'[h] \in {advice[h], rec}
    BY <1>2 DEF ScaleInv, ScaleTypeOK
  <2>2. Sound(advice'[h])
    BY <1>1, <2>1 DEF ScaleInv
  <2> QED
    BY <2>2 DEF Sound
<1>9. ASSUME NEW h \in Scalers, desired'[h] # 0
      PROVE  desired'[h] = advice'[h].to /\ produced'[h]
  <2>1. CASE h = g /\ goes
    BY <1>2, <1>3, <2>1, ZenonT(30) DEF ScaleInv, ScaleTypeOK
  <2>2. CASE h = g /\ ~ goes
    <3>1. desired'[h] = desired[h] /\ advice'[h] = advice[h] /\ (produced[h] => produced'[h])
      BY <1>2, <2>2 DEF ScaleInv, ScaleTypeOK
    <3> QED
      BY <1>9, <3>1 DEF ScaleInv, GaugeIsAdvice
  <2>3. CASE h # g
    <3>1. desired'[h] = desired[h] /\ advice'[h] = advice[h] /\ produced'[h] = produced[h]
      BY <1>2, <2>3 DEF ScaleInv, ScaleTypeOK
    <3> QED
      BY <1>9, <3>1 DEF ScaleInv, GaugeIsAdvice
  <2> QED
    BY <2>1, <2>2, <2>3
<1> QED
  BY <1>7, <1>8, <1>9 DEF ScaleInv, GaugeIsAdvice

\* zeroStaleDesired takes back the gauge and its mark together.
LEMMA ZeroKeeps ==
    ASSUME ScaleInv, NEW g \in Scalers, ZeroStaleDesired(g)
    PROVE  ScaleInv'
<1>1. /\ produced' = [produced EXCEPT ![g] = FALSE]
      /\ desired' = [desired EXCEPT ![g] = 0]
      /\ size' = size /\ advice' = advice
  BY DEF ZeroStaleDesired
<1>2. ScaleTypeOK'
  BY <1>1 DEF ScaleInv, ScaleTypeOK
<1>3. (\A h \in Scalers : Sound(advice[h]))'
  BY <1>1 DEF ScaleInv, Sound
<1>4. ASSUME NEW h \in Scalers, desired'[h] # 0
      PROVE  desired'[h] = advice'[h].to /\ produced'[h]
  <2>1. h # g
    BY <1>1, <1>4 DEF ScaleInv, ScaleTypeOK
  <2>2. desired'[h] = desired[h] /\ advice'[h] = advice[h] /\ produced'[h] = produced[h]
    BY <1>1, <2>1 DEF ScaleInv, ScaleTypeOK
  <2> QED
    BY <1>4, <2>2 DEF ScaleInv, GaugeIsAdvice
<1> QED
  BY <1>2, <1>3, <1>4 DEF ScaleInv, GaugeIsAdvice

\* Steps that change none of the gauge, its mark and the advice.
LEMMA AdviceKept ==
    ASSUME ScaleInv, size' \in Nat, desired' = desired, produced' = produced, advice' = advice
    PROVE  ScaleInv'
  BY DEF ScaleInv, ScaleTypeOK, Sound, GaugeIsAdvice

\* A step of the autoscaler keeps its invariant.
LEMMA ScaleStepKeeps ==
    ASSUME ScaleInv, ScaleNext
    PROVE  ScaleInv'
<1>1. size \in Nat
  BY DEF ScaleInv, ScaleTypeOK
<1>2. ASSUME NEW g \in Scalers, ChiefMoves(g) PROVE ScaleInv'
  BY <1>1, <1>2, AdviceKept DEF ChiefMoves
<1>3. ASSUME NEW n \in 0 .. MaxPool, PoolResized(n) PROVE ScaleInv'
  BY <1>3, AdviceKept, ScaleAssumption DEF PoolResized
<1>4. CASE Cools
  BY <1>1, <1>4, AdviceKept DEF Cools
<1> QED
  BY <1>2, <1>3, <1>4, EvalPolicyKeeps, ZeroKeeps DEF ScaleNext

\* The inductive invariant of the autoscaler: advice is sound and the gauge shows it.
THEOREM ScaleInvariance == Spec => []ScaleInv
<1>1. Init => ScaleInv
  BY ScaleAssumption DEF Init, ScaleInit, ScaleInv, ScaleTypeOK, Sound, GaugeIsAdvice,
    NoAdvice, Advices
<1>2. ScaleInv /\ [Next]_vars => ScaleInv'
  <2> SUFFICES ASSUME ScaleInv, [Next]_vars PROVE ScaleInv'
    OBVIOUS
  <2>1. CASE ScaleNext
    BY <2>1, ScaleStepKeeps
  <2>2. CASE UNCHANGED scaleVars
    BY <2>2, AdviceKept DEF scaleVars, ScaleInv, ScaleTypeOK
  <2> QED
    BY <2>1, <2>2 DEF Next, InAlerts, InLimits, vars
<1> QED
  BY <1>1, <1>2, PTL DEF Spec

\* The gauge of a gateway shows the advice it sent last or nothing, whatever leads come
\* and go (evalPolicy, zeroStaleDesired).
THEOREM GaugeShowsAdvice == Spec => []GaugeIsAdvice
<1>1. ScaleInv => GaugeIsAdvice
  BY DEF ScaleInv
<1> QED
  BY <1>1, ScaleInvariance, PTL

\* For any clamps and steps, advice for a pool within the clamps points the way it says
\* and stays within them (evalPolicy).
THEOREM AdviceIsSound == Spec => []AdvicePointsItsWay
<1>1. ScaleInv => AdvicePointsItsWay
  BY DEF ScaleInv, Sound, AdvicePointsItsWay
<1> QED
  BY <1>1, ScaleInvariance, PTL

-----------------------------------------------------------------------------
(* The rate limiter. *)

LimitTypeOK ==
    /\ call \in [Limiters \X Calls -> {"idle", "asked", "answered", "failed"}]
    /\ consecErr \in [Limiters -> Nat]
    /\ open \in [Limiters -> BOOLEAN]
    /\ shared \in Nat /\ bucket \in [Limiters -> Nat]
    /\ errors \in Nat /\ refills \in Nat
    /\ passed \in [redis : Nat, own : [Limiters -> Nat]]

\* What a bucket has let through and what it still holds are no more than it was given.
Balanced ==
    /\ passed.redis + shared <= Burst + refills
    /\ \A g \in Limiters : passed.own[g] + bucket[g] <= Burst + refills

\* As long as no call has failed nothing of a breaker has moved.
Untroubled ==
    errors = 0 => \A g \in Limiters :
        /\ ~ open[g] /\ consecErr[g] = 0 /\ passed.own[g] = 0
        /\ \A c \in Calls : call[<<g, c>>] # "failed"

LimitInv ==
    /\ LimitTypeOK /\ Balanced /\ Untroubled
    /\ \A g \in Limiters \ FailOpen : passed.own[g] = 0

\* A call moves from one point to another and the rest stay.
LEMMA CallMoves ==
    ASSUME LimitTypeOK, NEW g \in Limiters, NEW c \in Calls, NEW here,
           NEW there \in {"idle", "asked", "answered", "failed"}, At(g, c, here, there)
    PROVE  /\ call[<<g, c>>] = here
           /\ call' \in [Limiters \X Calls -> {"idle", "asked", "answered", "failed"}]
           /\ there # "failed" =>
                \A h \in Limiters, d \in Calls : call'[<<h, d>>] = "failed" => call[<<h, d>>] = "failed"
<1>1. call[<<g, c>>] = here /\ call' = [call EXCEPT ![<<g, c>>] = there]
  BY DEF At
<1>2. call \in [Limiters \X Calls -> {"idle", "asked", "answered", "failed"}]
  BY DEF LimitTypeOK
<1> QED
  BY <1>1, <1>2

\* degraded takes from the local bucket what it lets through, and only where it may.
LEMMA DegradedEffect ==
    ASSUME LimitTypeOK, NEW g \in Limiters, Degraded(g)
    PROVE  /\ bucket' \in [Limiters -> Nat] /\ passed' \in [redis : Nat, own : [Limiters -> Nat]]
           /\ passed'.redis = passed.redis
           /\ \A h \in Limiters : passed'.own[h] + bucket'[h] = passed.own[h] + bucket[h]
           /\ \A h \in Limiters \ FailOpen : passed'.own[h] = passed.own[h]
<1>1. bucket \in [Limiters -> Nat] /\ passed \in [redis : Nat, own : [Limiters -> Nat]]
  BY DEF LimitTypeOK
<1>2. CASE bucket' = bucket /\ passed' = passed
  BY <1>1, <1>2
<1>3. CASE /\ g \in FailOpen /\ bucket[g] > 0
           /\ bucket' = [bucket EXCEPT ![g] = @ - 1]
           /\ passed' = [passed EXCEPT !.own[g] = @ + 1]
  <2>1. bucket' \in [Limiters -> Nat] /\ bucket'[g] = bucket[g] - 1
        /\ \A h \in Limiters : h # g => bucket'[h] = bucket[h]
    BY <1>1, <1>3
  <2>2. passed'.redis = passed.redis /\ passed'.own = [passed.own EXCEPT ![g] = @ + 1]
        /\ passed' \in [redis : Nat, own : [Limiters -> Nat]]
    BY <1>1, <1>3
  <2>3. passed'.own[g] = passed.own[g] + 1
        /\ \A h \in Limiters : h # g => passed'.own[h] = passed.own[h]
    BY <1>1, <2>2
  <2> QED
    BY <1>1, <1>3, <2>1, <2>2, <2>3
<1> QED
  BY <1>2, <1>3 DEF Degraded, Opens

\* Allow keeps the invariant of the limiter.
LEMMA AllowKeeps ==
    ASSUME LimitInv, NEW g \in Limiters, NEW c \in Calls, Allow(g, c)
    PROVE  LimitInv'
<1> USE DEF LimitInv
<1>1. CASE /\ open[g] /\ At(g, c, "idle", "idle") /\ Degraded(g)
           /\ UNCHANGED <<consecErr, open, shared, errors, refills>>
  <2>1. LimitTypeOK'
    BY <1>1, CallMoves, DegradedEffect, ZenonT(30) DEF LimitTypeOK
  <2>2. Balanced'
    BY <1>1, DegradedEffect DEF Balanced
  <2>3. Untroubled'
    BY <1>1 DEF Untroubled
  <2> QED
    BY <1>1, <2>1, <2>2, <2>3, DegradedEffect
<1>2. CASE /\ At(g, c, "idle", "asked")
           /\ UNCHANGED <<consecErr, open, shared, bucket, errors, refills, passed>>
  <2>1. LimitTypeOK'
    BY <1>2, CallMoves, ZenonT(30) DEF LimitTypeOK
  <2>2. Balanced' /\ Untroubled'
    BY <1>2, CallMoves, ZenonT(30) DEF Balanced, Untroubled
  <2> QED
    BY <1>2, <2>1, <2>2
<1> QED
  BY <1>1, <1>2, ZenonT(30) DEF Allow

\* The answer of the shared store, or its failure, keeps the invariant of the limiter.
LEMMA AnswerKeeps ==
    ASSUME LimitInv, NEW g \in Limiters, NEW c \in Calls, Answer(g, c)
    PROVE  LimitInv'
<1> USE DEF LimitInv
<1>1. UNCHANGED <<consecErr, open, bucket, refills>>
  BY DEF Answer
<1>2. CASE /\ shared > 0 /\ At(g, c, "asked", "answered") /\ shared' = shared - 1
           /\ passed' = [passed EXCEPT !.redis = @ + 1] /\ UNCHANGED errors
  <2>1. /\ passed'.own = passed.own /\ passed'.redis = passed.redis + 1
        /\ passed' \in [redis : Nat, own : [Limiters -> Nat]] /\ shared' \in Nat
    BY <1>2 DEF LimitTypeOK
  <2>2. LimitTypeOK'
    BY <1>1, <1>2, <2>1, CallMoves, ZenonT(30) DEF LimitTypeOK
  <2>3. Balanced'
    BY <1>1, <1>2, <2>1, LimitAssumption DEF Balanced, LimitTypeOK
  <2>4. Untroubled'
    BY <1>1, <1>2, <2>1, CallMoves, ZenonT(30) DEF Untroubled
  <2> QED
    BY <2>1, <2>2, <2>3, <2>4
<1>3. CASE At(g, c, "asked", "answered") /\ UNCHANGED <<shared, passed, errors>>
  <2>1. LimitTypeOK'
    BY <1>1, <1>3, CallMoves, ZenonT(30) DEF LimitTypeOK
  <2>2. Balanced' /\ Untroubled'
    BY <1>1, <1>3, CallMoves, ZenonT(30) DEF Balanced, Untroubled
  <2> QED
    BY <1>3, <2>1, <2>2
<1>4. CASE errors' = errors + 1 /\ At(g, c, "asked", "failed") /\ UNCHANGED <<shared, passed>>
  <2>1. call' = [call EXCEPT ![<<g, c>>] = "failed"]
    BY <1>4 DEF At
  <2>2. LimitTypeOK'
    BY <1>1, <1>4, <2>1 DEF LimitTypeOK
  <2>3. Balanced' /\ Untroubled'
    BY <1>1, <1>4 DEF Balanced, Untroubled, LimitTypeOK
  <2> QED
    BY <1>4, <2>2, <2>3
<1> QED
  BY <1>2, <1>3, <1>4 DEF Answer

\* What Allow does with the answer keeps the invariant of the limiter.
LEMMA SettleKeeps ==
    ASSUME LimitInv, NEW g \in Limiters, NEW c \in Calls, Settle(g, c)
    PROVE  LimitInv'
<1> USE DEF LimitInv
<1>1. CASE /\ At(g, c, "answered", "idle")
           /\ consecErr' = [consecErr EXCEPT ![g] = 0] /\ open' = [open EXCEPT ![g] = FALSE]
           /\ UNCHANGED <<shared, bucket, errors, refills, passed>>
  <2>1. LimitTypeOK'
    BY <1>1, CallMoves, ZenonT(30) DEF LimitTypeOK
  <2>2. Balanced'
    BY <1>1 DEF Balanced
  <2>3. Untroubled'
    BY <1>1, CallMoves, ZenonT(30) DEF Untroubled, LimitTypeOK
  <2> QED
    BY <1>1, <2>1, <2>2, <2>3
<1>2. CASE /\ At(g, c, "failed", "idle")
           /\ consecErr' = [consecErr EXCEPT ![g] = @ + 1]
           /\ open' = [open EXCEPT ![g] = @ \/ consecErr[g] + 1 >= Threshold]
           /\ Degraded(g)
           /\ UNCHANGED <<shared, errors, refills>>
  <2>1. consecErr' \in [Limiters -> Nat] /\ open' \in [Limiters -> BOOLEAN]
    BY <1>2 DEF LimitTypeOK
  <2>2. LimitTypeOK'
    BY <1>2, <2>1, CallMoves, DegradedEffect, ZenonT(30) DEF LimitTypeOK
  <2>3. Balanced'
    BY <1>2, DegradedEffect DEF Balanced
  <2>4. errors # 0
    BY <1>2 DEF At, Untroubled
  <2> QED
    BY <1>2, <2>2, <2>3, <2>4, DegradedEffect, ZenonT(30) DEF Untroubled
<1> QED
  BY <1>1, <1>2 DEF Settle

\* The end of the circuit breaker's window keeps the invariant of the limiter.
LEMMA WindowOverKeeps ==
    ASSUME LimitInv, NEW g \in Limiters, WindowOver(g)
    PROVE  LimitInv'
<1>1. /\ open' = [open EXCEPT ![g] = FALSE]
      /\ UNCHANGED <<call, consecErr, shared, bucket, errors, refills, passed>>
  BY DEF WindowOver
<1>2. LimitTypeOK'
  BY <1>1 DEF LimitInv, LimitTypeOK
<1>3. Balanced' /\ Untroubled'
  BY <1>1 DEF LimitInv, LimitTypeOK, Balanced, Untroubled
<1> QED
  BY <1>1, <1>2, <1>3 DEF LimitInv

\* Refilling a bucket keeps the invariant of the limiter.
LEMMA RefillKeeps ==
    ASSUME LimitInv, Refill
    PROVE  LimitInv'
<1>1. /\ refills' = refills + 1
      /\ shared' = IF shared < Burst THEN shared + 1 ELSE shared
      /\ bucket' = [g \in Limiters |-> IF bucket[g] < Burst THEN bucket[g] + 1 ELSE bucket[g]]
      /\ UNCHANGED <<call, consecErr, open, errors, passed>>
  BY DEF Refill
<1>2. LimitTypeOK'
  BY <1>1 DEF LimitInv, LimitTypeOK
<1>3. Balanced'
  BY <1>1, LimitAssumption DEF LimitInv, LimitTypeOK, Balanced
<1>4. Untroubled'
  BY <1>1 DEF LimitInv, Untroubled
<1> QED
  BY <1>1, <1>2, <1>3, <1>4 DEF LimitInv

\* The inductive invariant of the rate limiter: every bucket balances, and the local ones
\* stay untouched until a call to Redis fails.
THEOREM LimitInvariance == Spec => []LimitInv
<1>1. Init => LimitInv
  BY LimitAssumption DEF Init, LimitInit, LimitInv, LimitTypeOK, Balanced, Untroubled
<1>2. LimitInv /\ [Next]_vars => LimitInv'
  <2> SUFFICES ASSUME LimitInv, [Next]_vars PROVE LimitInv'
    OBVIOUS
  <2>1. CASE LimitNext
    BY <2>1, AllowKeeps, AnswerKeeps, SettleKeeps, WindowOverKeeps, RefillKeeps DEF LimitNext
  <2>2. CASE UNCHANGED limitVars
    BY <2>2 DEF limitVars, LimitInv, LimitTypeOK, Balanced, Untroubled
  <2> QED
    BY <2>1, <2>2 DEF Next, InAlerts, InScaling, vars
<1> QED
  BY <1>1, <1>2, PTL DEF Spec

\* However calls overlap and breakers open and close, Redis lets through no more than its
\* quota and a gateway no more than its local bucket, and that only if it fails open and
\* a call to Redis has failed (Allow, degraded).
THEOREM QuotaIsKept == Spec => []QuotaKept
<1>1. LimitInv => QuotaKept
  BY LimitAssumption DEF LimitInv, LimitTypeOK, Balanced, Untroubled, QuotaKept
<1> QED
  BY <1>1, LimitInvariance, PTL

-----------------------------------------------------------------------------
(* The alerts. *)

Alerts == [what : {"none", "pending", "firing"}, age : Nat, noted : Nat]
Statuses == {"firing", "resolved"}

AlertTypeOK ==
    /\ alert \in [Gateways -> Alerts]
    /\ dedupe \in [Gateways -> Nat]
    /\ queue \in [Gateways -> Seq(Statuses)]
    /\ lost \in BOOLEAN

\* The dedupe window is open only during a firing.
WindowIsOfFiring(g) == ~ lost /\ alert[g].what # "firing" => dedupe[g] = Window

AlertInv == AlertTypeOK /\ NewestIsTrue /\ \A g \in Gateways : WindowIsOfFiring(g)

\* A queue after an event was added to it.
LEMMA Queued ==
    ASSUME NEW q \in Seq(Statuses), NEW status \in Statuses
    PROVE  /\ Append(q, status) \in Seq(Statuses) /\ Append(q, status) # << >>
           /\ Append(q, status)[Len(Append(q, status))] = status
  OBVIOUS

\* What is left of a queue has the same newest event.
LEMMA Dequeued ==
    ASSUME NEW q \in Seq(Statuses), q # << >>
    PROVE  /\ Tail(q) \in Seq(Statuses)
           /\ Tail(q) # << >> => Tail(q)[Len(Tail(q))] = q[Len(q)]
  OBVIOUS

\* A step that leaves the state machines as they are, or only moves them among states
\* that do not fire, and sends nothing.
LEMMA SilentKeeps ==
    ASSUME AlertInv, UNCHANGED <<dedupe, queue, lost>>, alert' \in [Gateways -> Alerts],
           \A g \in Gateways : alert'[g].what = "firing" <=> alert[g].what = "firing"
    PROVE  AlertInv' /\ Announced
<1>1. AlertTypeOK'
  BY DEF AlertInv, AlertTypeOK
<1>2. NewestIsTrue'
  BY DEF AlertInv, NewestIsTrue
<1>3. \A g \in Gateways : WindowIsOfFiring(g)'
  BY DEF AlertInv, WindowIsOfFiring
<1>4. Announced
  BY DEF Announced
<1> QED
  BY <1>1, <1>2, <1>3, <1>4 DEF AlertInv

\* Send, of what the state machine now says: a firing that has just begun finds the window
\* closed, so it is queued or the loss is noted.
LEMMA SendKeeps ==
    ASSUME AlertInv, NEW g \in Gateways, NEW status \in Statuses, Send(g, status),
           NEW v \in Alerts, alert' = [alert EXCEPT ![g] = v],
           v.what = "firing" <=> status = "firing",
           status = "resolved" => alert[g].what = "firing"
    PROVE  AlertInv' /\ Announced
<1> DEFINE skip == Window > 0 /\ status = "firing" /\ dedupe[g] < Window
           q == queue[g]
<1>1. /\ alert \in [Gateways -> Alerts] /\ dedupe \in [Gateways -> Nat]
      /\ queue \in [Gateways -> Seq(Statuses)] /\ q \in Seq(Statuses) /\ lost \in BOOLEAN
  BY DEF AlertInv, AlertTypeOK
<1>2. /\ dedupe' = [dedupe EXCEPT ![g] = Dedupe(g, status, skip)]
      /\ queue' = [queue EXCEPT ![g] = IF ~ skip /\ Room(g) THEN Append(@, status) ELSE @]
      /\ lost' = (lost \/ (~ skip /\ ~ Room(g)))
  BY DEF Send
<1>3. Dedupe(g, status, skip) \in Nat /\ (status = "resolved" => Dedupe(g, status, skip) = Window)
  BY <1>1, AlertAssumption DEF Dedupe, Statuses
<1>4. /\ Append(q, status) \in Seq(Statuses) /\ Append(q, status) # << >>
      /\ Append(q, status)[Len(Append(q, status))] = status
  BY <1>1, Queued
<1>5. /\ alert'[g] = v /\ dedupe'[g] = Dedupe(g, status, skip)
      /\ queue'[g] = IF ~ skip /\ Room(g) THEN Append(q, status) ELSE q
      /\ \A h \in Gateways \ {g} :
            alert'[h] = alert[h] /\ dedupe'[h] = dedupe[h] /\ queue'[h] = queue[h]
  BY <1>1, <1>2, ZenonT(30)
<1>6. AlertTypeOK'
  BY <1>1, <1>2, <1>3, <1>4 DEF AlertTypeOK
<1>7. ~ lost' => ~ lost /\ (skip \/ Room(g))
  BY <1>1, <1>2, ZenonT(30)
<1>8. ~ lost /\ skip => alert[g].what = "firing" /\ status = "firing"
  BY <1>1, AlertAssumption DEF AlertInv, WindowIsOfFiring
<1> HIDE DEF skip
<1>9. NewestIsTrue'
  <2> SUFFICES ASSUME NEW h \in Gateways, ~ lost', queue'[h] # << >>
               PROVE  queue'[h][Len(queue'[h])] = "firing" <=> alert'[h].what = "firing"
    BY ZenonT(30) DEF NewestIsTrue
  <2>1. CASE h # g
    BY <1>5, <1>7, <2>1, ZenonT(30) DEF AlertInv, NewestIsTrue
  <2>2. CASE h = g /\ skip
    <3>1. queue'[g] = q /\ alert[g].what = "firing" /\ v.what = "firing" /\ q # << >>
      BY <1>5, <1>7, <1>8, <2>2, ZenonT(30)
    <3>2. q[Len(q)] = "firing"
      BY <1>7, <3>1 DEF AlertInv, NewestIsTrue
    <3> QED
      BY <1>5, <2>2, <3>1, <3>2, ZenonT(30)
  <2>3. CASE h = g /\ ~ skip
    BY <1>4, <1>5, <1>7, <2>3, ZenonT(30)
  <2> QED
    BY <2>1, <2>2, <2>3
<1>10. ASSUME NEW h \in Gateways PROVE WindowIsOfFiring(h)'
  <2>1. CASE h # g
    BY <1>5, <1>7, <2>1, ZenonT(30) DEF AlertInv, WindowIsOfFiring
  <2>2. CASE h = g
    BY <1>3, <1>5, <2>2 DEF WindowIsOfFiring, Statuses
  <2> QED
    BY <2>1, <2>2, ZenonT(30)
<1>11. Announced
  <2> SUFFICES ASSUME NEW h \in Gateways, ~ lost',
                      (alert[h].what = "firing") # (alert'[h].what = "firing")
               PROVE  queue'[h] = Append(queue[h], IF alert'[h].what = "firing" THEN "firing" ELSE "resolved")
    BY ZenonT(30) DEF Announced
  <2>1. h = g /\ ~ skip
    BY <1>5, <1>7, <1>8
  <2> QED
    BY <1>5, <1>7, <2>1, ZenonT(30) DEF Statuses
<1> QED
  BY <1>6, <1>9, <1>10, <1>11 DEF AlertInv

\* evalInstance, whichever way the expression turns out.
LEMMA EvalInstanceKeeps ==
    ASSUME AlertInv, NEW g \in Gateways, EvalInstance(g)
    PROVE  AlertInv' /\ Announced
<1> DEFINE st == alert[g]
           begun == IF st = None THEN [None EXCEPT !.what = "pending"] ELSE st
           fires == [begun EXCEPT !.what = "firing", !.noted = 0]
<1>1. alert \in [Gateways -> Alerts] /\ st \in Alerts
  BY DEF AlertInv, AlertTypeOK
<1>2. None \in Alerts /\ None.what = "none"
  BY DEF None, Alerts
<1>3. begun \in Alerts /\ (begun.what = "firing" <=> st.what = "firing")
  BY <1>1 DEF None, Alerts
<1>4. fires \in Alerts /\ fires.what = "firing"
  <2> HIDE DEF begun
  <2> QED
    BY <1>3, ZenonT(30) DEF Alerts
<1>5. \/ alert' = [alert EXCEPT ![g] = None] /\ Resolve(g)
      \/ alert' = [alert EXCEPT ![g] = fires] /\ Send(g, "firing")
      \/ alert' = [alert EXCEPT ![g] = begun] /\ Silent
  BY DEF EvalInstance
<1> HIDE DEF begun, fires
<1>6. ASSUME NEW v \in Alerts, alert' = [alert EXCEPT ![g] = v],
             v.what = "firing" <=> st.what = "firing", Silent
      PROVE  AlertInv' /\ Announced
  <2>1. alert' \in [Gateways -> Alerts]
    BY <1>1, <1>6
  <2>2. \A h \in Gateways : alert'[h].what = "firing" <=> alert[h].what = "firing"
    BY <1>1, <1>6
  <2> QED
    BY <1>6, <2>1, <2>2, SilentKeeps DEF Silent
<1>7. CASE alert' = [alert EXCEPT ![g] = None] /\ Resolve(g)
  <2>1. CASE st.what = "firing"
    <3>1. Send(g, "resolved")
      BY <1>7, <2>1 DEF Resolve
    <3> QED
      BY <1>2, <1>7, <2>1, <3>1, SendKeeps, ZenonT(30) DEF Statuses
  <2>2. CASE st.what # "firing"
    <3>1. Silent
      BY <1>7, <2>2 DEF Resolve
    <3> QED
      BY <1>2, <1>6, <1>7, <2>2, <3>1, ZenonT(30)
  <2> QED
    BY <2>1, <2>2
<1>8. CASE alert' = [alert EXCEPT ![g] = fires] /\ Send(g, "firing")
  BY <1>4, <1>8, SendKeeps, ZenonT(30) DEF Statuses
<1>9. CASE alert' = [alert EXCEPT ![g] = begun] /\ Silent
  BY <1>3, <1>6, <1>9, ZenonT(30)
<1> QED
  BY <1>5, <1>7, <1>8, <1>9

\* A turn of Run on the leader.
LEMMA EvaluateKeeps ==
    ASSUME AlertInv, NEW g \in Gateways, Evaluate(g)
    PROVE  AlertInv' /\ Announced
<1>1. CASE EvalInstance(g)
  BY <1>1, EvalInstanceKeeps
<1>2. CASE Silent /\ UNCHANGED alert
  BY <1>2, SilentKeeps DEF Silent, AlertInv, AlertTypeOK
<1> QED
  BY <1>1, <1>2 DEF Evaluate

\* A turn of Run on any other gateway: the state of a firing that is given up is noted as
\* a loss.
LEMMA ResetStatesKeeps ==
    ASSUME AlertInv, NEW g \in Gateways, ResetStates(g)
    PROVE  AlertInv' /\ Announced
<1>1. /\ alert \in [Gateways -> Alerts] /\ lost \in BOOLEAN
      /\ None \in Alerts /\ None.what = "none"
  BY DEF AlertInv, AlertTypeOK, None, Alerts
<1>2. /\ alert' = [alert EXCEPT ![g] = None] /\ UNCHANGED <<dedupe, queue>>
      /\ lost' = (lost \/ alert[g].what = "firing")
  BY DEF ResetStates
<1>3. alert' \in [Gateways -> Alerts] /\ lost' \in BOOLEAN
  BY <1>1, <1>2
<1>4. CASE alert[g].what # "firing" /\ ~ lost
  <2>1. \A h \in Gateways : alert'[h].what = "firing" <=> alert[h].what = "firing"
    BY <1>1, <1>2, <1>4
  <2>2. lost' = lost
    BY <1>1, <1>2, <1>4
  <2> QED
    BY <1>2, <1>3, <2>1, <2>2, SilentKeeps
<1>5. CASE lost'
  BY <1>2, <1>3, <1>5 DEF AlertInv, AlertTypeOK, NewestIsTrue, WindowIsOfFiring, Announced
<1> QED
  BY <1>1, <1>2, <1>4, <1>5, ZenonT(30)

\* The endpoint takes the oldest event, or the worker gives it up.
LEMMA QueueShrinks ==
    ASSUME AlertInv, NEW g \in Gateways, UNCHANGED <<alert, dedupe>>, queue[g] # << >>,
           queue' = queue \/ queue' = [queue EXCEPT ![g] = Tail(@)],
           lost' \in BOOLEAN, lost => lost'
    PROVE  AlertInv' /\ Announced
<1>1. queue \in [Gateways -> Seq(Statuses)] /\ queue[g] \in Seq(Statuses)
  BY DEF AlertInv, AlertTypeOK
<1>2. /\ Tail(queue[g]) \in Seq(Statuses)
      /\ Tail(queue[g]) # << >> => Tail(queue[g])[Len(Tail(queue[g]))] = queue[g][Len(queue[g])]
  BY <1>1, Dequeued
<1>3. /\ queue' \in [Gateways -> Seq(Statuses)]
      /\ \A h \in Gateways : queue'[h] = queue[h] \/ (h = g /\ queue'[h] = Tail(queue[g]))
  BY <1>1, <1>2
<1>4. AlertTypeOK'
  BY <1>3 DEF AlertInv, AlertTypeOK
<1>5. NewestIsTrue'
  BY <1>2, <1>3 DEF AlertInv, NewestIsTrue
<1>6. (\A h \in Gateways : WindowIsOfFiring(h)') /\ Announced
  BY ZenonT(30) DEF AlertInv, WindowIsOfFiring, Announced
<1> QED
  BY <1>4, <1>5, <1>6 DEF AlertInv

\* What time does to an age that is capped.
LEMMA LaterIs ==
    ASSUME NEW n \in Nat, NEW cap \in Nat
    PROVE  Later(n, cap) \in Nat /\ (n = cap => Later(n, cap) = cap)
  BY DEF Later

\* Time: an open window may close and a closed one stays closed.
LEMMA ElapseKeeps ==
    ASSUME AlertInv, Elapse
    PROVE  AlertInv' /\ Announced
<1>1. /\ alert \in [Gateways -> Alerts] /\ dedupe \in [Gateways -> Nat]
      /\ For \in Nat /\ Repeat \in Nat /\ Window \in Nat
  BY AlertAssumption DEF AlertInv, AlertTypeOK
<1>2. UNCHANGED <<queue, lost>>
  BY ZenonT(30) DEF Elapse
<1>3. \A g \in Gateways :
          alert'[g] = IF alert[g] = None THEN None
                      ELSE [alert[g] EXCEPT !.age = Later(alert[g].age, For),
                                            !.noted = Later(alert[g].noted, Repeat)]
  BY ZenonT(30) DEF Elapse
<1>4. ASSUME NEW g \in Gateways
      PROVE  alert'[g] \in Alerts /\ alert'[g].what = alert[g].what
  <2>1. alert[g] \in Alerts /\ alert[g].age \in Nat /\ alert[g].noted \in Nat
    BY <1>1 DEF Alerts
  <2>2. Later(alert[g].age, For) \in Nat /\ Later(alert[g].noted, Repeat) \in Nat
    BY <1>1, <2>1, LaterIs, ZenonT(30)
  <2>3. CASE alert[g] = None
    BY <1>3, <2>1, <2>3, ZenonT(30)
  <2>4. CASE alert[g] # None
    <3>1. alert'[g] = [alert[g] EXCEPT !.age = Later(alert[g].age, For),
                                       !.noted = Later(alert[g].noted, Repeat)]
      BY <1>3, <2>4, ZenonT(30)
    <3> QED
      BY <2>1, <2>2, <3>1, ZenonT(30) DEF Alerts
  <2> QED
    BY <2>3, <2>4, ZenonT(30)
<1>5. alert' \in [Gateways -> Alerts]
  <2>1. alert' = [g \in Gateways |-> alert'[g]]
    BY ZenonT(30) DEF Elapse
  <2> QED
    BY <1>4, <2>1, ZenonT(30)
<1>6. dedupe' = [g \in Gateways |-> Later(dedupe[g], Window)]
  BY ZenonT(30) DEF Elapse
<1>7. /\ dedupe' \in [Gateways -> Nat]
      /\ \A g \in Gateways : dedupe[g] = Window => dedupe'[g] = Window
  BY <1>1, <1>6, LaterIs, ZenonT(30)
<1>8. AlertTypeOK'
  BY <1>2, <1>5, <1>7, ZenonT(30) DEF AlertInv, AlertTypeOK
<1>9. NewestIsTrue' /\ Announced
  BY <1>2, <1>4, ZenonT(30) DEF AlertInv, NewestIsTrue, Announced
<1>10. \A g \in Gateways : WindowIsOfFiring(g)'
  BY <1>2, <1>4, <1>7, ZenonT(30) DEF AlertInv, WindowIsOfFiring
<1> QED
  BY <1>8, <1>9, <1>10 DEF AlertInv

\* A step of the alerts keeps their invariant and announces what it changes.
LEMMA AlertStepKeeps ==
    ASSUME AlertInv, AlertNext
    PROVE  AlertInv' /\ Announced
<1>1. lost \in BOOLEAN /\ alert \in [Gateways -> Alerts]
  BY DEF AlertInv, AlertTypeOK
<1>2. ASSUME NEW g \in Gateways, Deliver(g) PROVE AlertInv' /\ Announced
  BY <1>1, <1>2, QueueShrinks, ZenonT(30) DEF Deliver
<1>3. ASSUME NEW g \in Gateways, DeliverFails(g) PROVE AlertInv' /\ Announced
  <2>1. /\ queue[g] # << >> /\ UNCHANGED <<alert, dedupe>>
        /\ queue' = [queue EXCEPT ![g] = IF tries[g] >= Retries THEN Tail(@) ELSE @]
        /\ lost' = (lost \/ tries[g] >= Retries)
    BY <1>3 DEF DeliverFails
  <2>2. queue' = queue \/ queue' = [queue EXCEPT ![g] = Tail(@)]
    BY <2>1, ZenonT(30) DEF AlertInv, AlertTypeOK
  <2>3. lost' \in BOOLEAN /\ (lost => lost')
    BY <2>1, ZenonT(30)
  <2> QED
    BY <2>1, <2>2, <2>3, QueueShrinks, ZenonT(30)
<1>4. ASSUME UNCHANGED <<alert, dedupe, queue, lost>> PROVE AlertInv' /\ Announced
  BY <1>1, <1>4, SilentKeeps
<1>5. ASSUME NEW g \in Gateways, LeadMoves(g) PROVE AlertInv' /\ Announced
  BY <1>4, <1>5 DEF LeadMoves
<1>6. CASE Turn \/ Registers
  BY <1>4, <1>6 DEF Turn, Registers
<1> QED
  BY <1>2, <1>3, <1>5, <1>6, EvaluateKeeps, ResetStatesKeeps, ElapseKeeps DEF AlertNext

\* What every step of the control loops does to the alerts.
LEMMA AlertsKept ==
    ASSUME AlertInv, [Next]_vars
    PROVE  AlertInv' /\ [Announced]_alertVars
<1>1. CASE AlertNext
  BY <1>1, AlertStepKeeps
<1>2. CASE UNCHANGED alertVars
  <2>1. AlertInv'
    BY <1>2 DEF alertVars, AlertInv, AlertTypeOK, NewestIsTrue, WindowIsOfFiring
  <2> QED
    BY <1>2, <2>1
<1> QED
  BY <1>1, <1>2 DEF Next, InScaling, InLimits, vars

\* The inductive invariant of the alerts: as long as no event was lost, the newest event
\* of a queue is the state, and the dedupe window of an alert that does not fire is closed.
THEOREM AlertInvariance == Spec => []AlertInv
<1>1. Init => AlertInv
  <2> SUFFICES ASSUME AlertInit PROVE AlertInv
    BY ZenonT(30) DEF Init
  <2>1. None \in Alerts /\ None.what = "none" /\ Window \in Nat /\ << >> \in Seq(Statuses)
    BY AlertAssumption DEF None, Alerts
  <2>2. /\ alert = [g \in Gateways |-> None] /\ dedupe = [g \in Gateways |-> Window]
        /\ queue = [g \in Gateways |-> << >>] /\ lost = FALSE
    BY DEF AlertInit
  <2>3. AlertTypeOK
    BY <2>1, <2>2, ZenonT(30) DEF AlertTypeOK
  <2> QED
    BY <2>1, <2>2, <2>3 DEF AlertInv, NewestIsTrue, WindowIsOfFiring
<1>2. AlertInv /\ [Next]_vars => AlertInv'
  BY AlertsKept
<1> QED
  BY <1>1, <1>2, PTL DEF Spec

\* For any durations of a rule and of the dedupe window, any size of the queue and any
\* number of retries, a worker that empties its queue ends with the state of the alert
\* (Send, runTarget).
THEOREM QueuesEndTrue == Spec => []NewestIsTrue
<1>1. AlertInv => NewestIsTrue
  BY DEF AlertInv
<1> QED
  BY <1>1, AlertInvariance, PTL

\* For any window the dedupe holds back repetitions only: no start and no end of a firing
\* is missing from the queue without being counted as lost (evalInstance, dedupeSkip).
THEOREM NoIncidentSwallowed == Spec => IncidentsAnnounced
<1>1. AlertInv /\ [Next]_vars => [Announced]_alertVars
  BY AlertsKept
<1> QED
  BY <1>1, AlertInvariance, PTL DEF Spec, IncidentsAnnounced

-----------------------------------------------------------------------------
(* The broadcast state. *)

\* Most of what follows is about sets and functions, which Zenon does.
USE ZenonT(30)

\* Versions are in order.
LEMMA VersionOrder ==
    /\ \A m \in Nat : m <= m /\ m + 1 \in Nat /\ m <= m + 1
    /\ \A l, m, n \in Nat : l <= m /\ m <= n => l <= n
    /\ 0 \in Nat /\ ~ (0 > 0)
  BY SMTT(30)

\* Messages are added to a queue at its end and taken from its front.
LEMMA QueueOf ==
    ASSUME NEW S
    PROVE  /\ << >> \in Seq(S)
           /\ \A q \in Seq(S) : \A m \in S : Append(q, m) \in Seq(S)
           /\ \A q \in Seq(S) : q # << >> => Head(q) \in S /\ Tail(q) \in Seq(S)
  BY SMTT(30)

\* Among entries whose versions are bounded one has the highest.
LEMMA HighestVersion ==
    ASSUME NEW E, E # {}, NEW top \in Nat, \A e \in E : e.ver \in Nat /\ e.ver <= top
    PROVE  \E e \in E : \A f \in E : f.ver <= e.ver
<1> DEFINE T == {top - e.ver : e \in E}
<1> DEFINE R == OpToRel(<, Nat)
<1>1. T \subseteq Nat /\ T # {}
  BY SMTT(30)
<1>2. PICK x \in T : \A y \in T : ~ (<<y, x>> \in R)
  <2> HIDE DEF T, R
  <2>1. IsWellFoundedOn(R, Nat)
    BY NatLessThanWellFounded DEF R
  <2> QED
    BY <1>1, <2>1, WFMin
<1>3. \A y \in T : ~ (y < x)
  BY <1>1, <1>2 DEF OpToRel
<1>4. PICK e \in E : x = top - e.ver
  OBVIOUS
<1>5. ASSUME NEW f \in E PROVE f.ver <= e.ver
  <2>1. ~ (top - f.ver < top - e.ver)
    BY <1>3, <1>4
  <2> QED
    BY <2>1, SMTT(30)
<1> QED
  BY <1>5

\* What a row may hold, what a handler may broadcast, and what an instance may have.
Stored == dep.values \cup {Absent}
Broadcast == IF kind = "policy" THEN dep.values ELSE Stored
Contents == dep.values \cup {IF kind = "policy" THEN Original ELSE Absent}

Messages == [origin : Instances, val : Broadcast, again : BOOLEAN]
Entries == {NoEntry} \cup [val : Broadcast, origin : Instances, ver : Nat]

Tasks == [at : {"idle", "write", "remove", "publish"}, val : Stored]

\* Only a change of the item's content is broadcast, and only a backend is removed.
HandlerIsTrue(h) ==
    /\ h.at \in {"write", "publish"} => h.val \in Broadcast
    /\ h.at = "remove" => kind = "backend"

\* The instances, their handlers and reconcilers, and the database.
Configured ==
    /\ cfg \in [Instances -> Contents] /\ db \in Stored
    /\ op \in [Instances -> Tasks]
    /\ \A i \in Instances : HandlerIsTrue(op[i])
    /\ rows \in [Instances -> [val : Stored, read : BOOLEAN]]

\* The broadcasts on their way.
Carried == inbox \in [Instances -> Seq(Messages)] /\ mbox \in [Instances -> Seq(Messages)]

\* The mirrors and the snapshots: a snapshot is never ahead of the mirror it is taken
\* from, and a mirror not ahead of the clock.
Mirrored ==
    /\ mirror \in [Instances -> Entries] /\ snap \in [Instances -> Entries]
    /\ plan \in [Instances -> Entries] /\ now \in Nat
    /\ \A i \in Instances : snap[i].ver <= mirror[i].ver /\ mirror[i].ver <= now

SyncInv == dep \in Deployments /\ Configured /\ Carried /\ Mirrored

\* What a step keeps: the invariant, and every snapshot at its version or a later one.
Advances == \A i \in Instances : snap[i].ver <= snap'[i].ver
SyncKept == SyncInv' /\ Advances

\* What is broadcast may be stored, and an instance may have it.
LEMMA BroadcastIs ==
    ASSUME dep \in Deployments
    PROVE  /\ kind \in {"policy", "backend"} /\ Absent \in Stored /\ dep.values \subseteq Broadcast
           /\ Broadcast \subseteq Stored /\ Broadcast \subseteq Contents
           /\ kind = "backend" => Stored = Contents /\ Stored = Broadcast
           /\ kind = "policy" => Broadcast = dep.values
  BY DeploymentsAssumption DEF kind, Stored, Broadcast, Contents

\* The deployment does not change, and so neither does what may be stored or broadcast.
LEMMA SameDeployment ==
    ASSUME dep' = dep
    PROVE  /\ Stored' = Stored /\ Broadcast' = Broadcast /\ Contents' = Contents
           /\ Messages' = Messages /\ Entries' = Entries /\ Tasks' = Tasks /\ kind' = kind
           /\ \A h : HandlerIsTrue(h)' <=> HandlerIsTrue(h)
<1>1. Stored' = Stored /\ kind' = kind
  BY DEF Stored, kind
<1>2. Broadcast' = Broadcast /\ Contents' = Contents
  BY <1>1 DEF Broadcast, Contents
<1> QED
  BY <1>1, <1>2 DEF Messages, Entries, Tasks, HandlerIsTrue

\* An entry has a version; one that has a positive version has been broadcast.
LEMMA EntryIs ==
    ASSUME NEW e \in Entries
    PROVE  e.ver \in Nat /\ (e.ver > 0 => e.val \in Broadcast /\ e.origin \in Instances)
  BY SMTT(30) DEF Entries, NoEntry

\* A step that leaves the instances, the handlers, the rows and the database alone.
LEMMA ConfiguredStays ==
    ASSUME Configured, UNCHANGED <<dep, cfg, db, op, rows>>
    PROVE  Configured'
  BY SameDeployment DEF Configured

\* A step that leaves the messages alone.
LEMMA CarriedStays ==
    ASSUME Carried, UNCHANGED <<dep, inbox, mbox>>
    PROVE  Carried'
  BY SameDeployment DEF Carried

\* A step that leaves the mirrors, the snapshots and the plans alone.
LEMMA MirroredStays ==
    ASSUME Mirrored, UNCHANGED <<dep, mirror, snap, plan, now>>
    PROVE  Mirrored' /\ Advances
<1>1. Mirrored'
  BY SameDeployment DEF Mirrored
<1>2. Advances
  BY EntryIs, VersionOrder DEF Mirrored, Advances
<1> QED
  BY <1>1, <1>2

\* mergeState finds an entry.
LEMMA MergedIs ==
    ASSUME Mirrored, NEW i \in Instances
    PROVE  Merged(i) \in Entries
<1> DEFINE E == {mirror[i]} \cup ReadSnapshots
<1>1. E \in SUBSET Entries /\ E # {}
  BY DEF Mirrored, ReadSnapshots
<1>2. \A e \in E : e.ver \in Nat /\ e.ver <= now
  <2>1. \A j \in Instances : snap[j].ver \in Nat /\ mirror[j].ver \in Nat
    BY EntryIs DEF Mirrored
  <2> QED
    BY <2>1, VersionOrder DEF Mirrored, ReadSnapshots
<1>3. \E e \in E : \A f \in E : f.ver <= e.ver
  <2> HIDE DEF E
  <2> QED
    BY <1>1, <1>2, HighestVersion DEF Mirrored
<1>4. Merged(i) \in E
  BY <1>3 DEF Merged
<1> QED
  BY <1>1, <1>4

\* A handler goes on to another task.
LEMMA HandlerMoves ==
    ASSUME Configured, dep' = dep, NEW i \in Instances, NEW h \in Tasks, HandlerIsTrue(h),
           op' = [op EXCEPT ![i] = h]
    PROVE  op' \in [Instances -> Tasks'] /\ \A j \in Instances : HandlerIsTrue(op[j])'
<1>1. op' \in [Instances -> Tasks] /\ \A j \in Instances : op'[j] = IF j = i THEN h ELSE op[j]
  BY DEF Configured
<1>2. \A j \in Instances : HandlerIsTrue(op'[j])
  BY <1>1 DEF Configured
<1>3. \A j \in Instances : HandlerIsTrue(op[j])'
  BY <1>2, SameDeployment DEF HandlerIsTrue
<1> QED
  BY <1>1, <1>3, SameDeployment

\* Idle is a task.
LEMMA IdleIs == Idle \in Tasks /\ HandlerIsTrue(Idle)
  BY DEF Idle, Tasks, Stored, HandlerIsTrue

\* Delivered: a queue of messages stays one.
LEMMA DeliveredTo ==
    ASSUME NEW box \in [Instances -> Seq(Messages)], NEW missed, NEW msg \in Messages
    PROVE  Delivered(box, missed, msg) \in [Instances -> Seq(Messages)]
  BY QueueOf DEF Delivered

\* Publish, with any message and whoever misses it.
LEMMA PublishKeeps ==
    ASSUME Carried, dep' = dep, NEW msg \in Messages, Publish(msg)
    PROVE  Carried'
<1>1. PICK a, b : inbox' = Delivered(inbox, a, msg) /\ mbox' = Delivered(mbox, b, msg)
  BY DEF Publish
<1>2. inbox' \in [Instances -> Seq(Messages)] /\ mbox' \in [Instances -> Seq(Messages)]
  BY <1>1, DeliveredTo DEF Carried
<1> QED
  BY <1>2, SameDeployment DEF Carried

\* Apply, of a policy or of a backend.
LEMMA ApplyKeeps ==
    ASSUME SyncInv, NEW i \in Instances, Apply(i)
    PROVE  SyncKept
<1>1. inbox[i] \in Seq(Messages) /\ inbox[i] # << >> /\ dep' = dep
  BY DEF SyncInv, Carried, Apply
<1>2. Head(inbox[i]) \in Messages /\ Tail(inbox[i]) \in Seq(Messages)
  BY <1>1, QueueOf
<1>3. Head(inbox[i]).val \in Contents
  BY <1>2, BroadcastIs DEF Messages, SyncInv
<1>4. Configured'
  <2>1. cfg' \in [Instances -> Contents]
    BY <1>3 DEF SyncInv, Configured, Apply
  <2> QED
    BY <1>1, <2>1, SameDeployment DEF SyncInv, Configured, Apply
<1>5. Carried'
  BY <1>1, <1>2, SameDeployment DEF SyncInv, Carried, Apply
<1>6. Mirrored' /\ Advances
  BY MirroredStays DEF SyncInv, Apply, sync
<1> QED
  BY <1>1, <1>4, <1>5, <1>6 DEF SyncInv, SyncKept

\* Change: PutPolicy or PostBackend.
LEMMA ChangeKeeps ==
    ASSUME SyncInv, NEW i \in Instances, NEW v \in dep.values, Change(i, v)
    PROVE  SyncKept
<1>1. dep' = dep /\ v \in Broadcast /\ v \in Stored /\ v \in Contents
  BY BroadcastIs DEF SyncInv, Change
<1> DEFINE h == [at |-> AfterMemory, val |-> v]
<1>2. h \in Tasks /\ HandlerIsTrue(h)
  BY <1>1 DEF AfterMemory, Tasks, HandlerIsTrue
<1>3. op' \in [Instances -> Tasks'] /\ \A j \in Instances : HandlerIsTrue(op[j])'
  BY <1>1, <1>2, HandlerMoves DEF SyncInv, Change, Then
<1>4. cfg' \in [Instances -> Contents]
  BY <1>1 DEF SyncInv, Configured, Change
<1>5. Configured'
  BY <1>1, <1>3, <1>4, SameDeployment DEF SyncInv, Configured, Change
<1>6. Carried'
  BY CarriedStays DEF SyncInv, Change
<1>7. Mirrored' /\ Advances
  BY MirroredStays DEF SyncInv, Change, sync
<1> QED
  BY <1>1, <1>5, <1>6, <1>7 DEF SyncInv, SyncKept

\* UpsertPolicy and UpsertBackend, done or failed.
LEMMA UpsertKeeps ==
    ASSUME SyncInv, NEW i \in Instances, UpsertPolicy(i) \/ UpsertBackend(i)
    PROVE  SyncKept
<1> DEFINE h == [at |-> "publish", val |-> op[i].val]
<1>1. dep' = dep /\ rows' = rows
  BY DEF UpsertPolicy, UpsertBackend
<1>2. op[i].val \in Broadcast /\ op[i].val \in Stored
  BY BroadcastIs DEF SyncInv, Configured, HandlerIsTrue, UpsertPolicy, UpsertBackend
<1>3. h \in Tasks /\ HandlerIsTrue(h)
  BY <1>2 DEF Tasks, HandlerIsTrue
<1>4. op' = [op EXCEPT ![i] = h] \/ op' = [op EXCEPT ![i] = Idle]
  BY DEF UpsertPolicy, UpsertBackend, Then, Done
<1>5. op' \in [Instances -> Tasks'] /\ \A j \in Instances : HandlerIsTrue(op[j])'
  <2> HIDE DEF h
  <2> QED
    BY <1>1, <1>3, <1>4, IdleIs, HandlerMoves DEF SyncInv
<1>6. cfg' \in [Instances -> Contents]
  <2>1. kind = "backend" => Absent \in Contents
    BY BroadcastIs DEF SyncInv
  <2> QED
    BY <2>1 DEF SyncInv, Configured, UpsertPolicy, UpsertBackend
<1>7. db' \in Stored
  BY <1>2 DEF SyncInv, Configured, UpsertPolicy, UpsertBackend
<1>8. Configured'
  BY <1>1, <1>5, <1>6, <1>7, SameDeployment DEF SyncInv, Configured
<1>9. Carried'
  BY CarriedStays DEF SyncInv, UpsertPolicy, UpsertBackend
<1>10. Mirrored' /\ Advances
  BY MirroredStays DEF SyncInv, UpsertPolicy, UpsertBackend, sync
<1> QED
  BY <1>1, <1>8, <1>9, <1>10 DEF SyncInv, SyncKept

\* Delete: the row is gone, or nothing has changed.
LEMMA DeleteKeeps ==
    ASSUME SyncInv, NEW i \in Instances, Delete(i)
    PROVE  SyncKept
<1> DEFINE h == [at |-> "remove", val |-> Absent]
<1>1. dep' = dep /\ rows' = rows /\ cfg' = cfg /\ kind = "backend"
  BY DEF Delete
<1>2. h \in Tasks /\ HandlerIsTrue(h)
  BY <1>1 DEF Tasks, Stored, HandlerIsTrue
<1>3. op' = [op EXCEPT ![i] = h] \/ op' = op
  BY DEF Delete, Then
<1>4. op' \in [Instances -> Tasks'] /\ \A j \in Instances : HandlerIsTrue(op[j])'
  <2>1. CASE op' = op
    BY <1>1, <2>1, SameDeployment DEF SyncInv, Configured
  <2>2. CASE op' = [op EXCEPT ![i] = h]
    <3> HIDE DEF h
    <3> QED
      BY <1>1, <1>2, <2>2, HandlerMoves DEF SyncInv
  <2> QED
    BY <1>3, <2>1, <2>2
<1>5. db' \in Stored
  BY DEF SyncInv, Configured, Delete, DeleteBackend, Stored
<1>6. Configured'
  BY <1>1, <1>4, <1>5, SameDeployment DEF SyncInv, Configured
<1>7. Carried'
  BY CarriedStays DEF SyncInv, Delete
<1>8. Mirrored' /\ Advances
  BY MirroredStays DEF SyncInv, Delete, sync
<1> QED
  BY <1>1, <1>6, <1>7, <1>8 DEF SyncInv, SyncKept

\* Remove: only a backend is.
LEMMA RemoveKeeps ==
    ASSUME SyncInv, NEW i \in Instances, Remove(i)
    PROVE  SyncKept
<1> DEFINE h == [at |-> "publish", val |-> Absent]
<1>1. dep' = dep /\ rows' = rows /\ db' = db /\ kind = "backend"
  BY DEF SyncInv, Configured, HandlerIsTrue, Remove
<1>2. Absent \in Broadcast /\ Absent \in Stored /\ Absent \in Contents
  BY <1>1, BroadcastIs DEF SyncInv
<1>3. h \in Tasks /\ HandlerIsTrue(h)
  BY <1>2 DEF Tasks, HandlerIsTrue
<1>4. op' = [op EXCEPT ![i] = h] \/ op' = [op EXCEPT ![i] = Idle]
  BY DEF Remove, Then, Done
<1>5. op' \in [Instances -> Tasks'] /\ \A j \in Instances : HandlerIsTrue(op[j])'
  <2> HIDE DEF h
  <2> QED
    BY <1>1, <1>3, <1>4, IdleIs, HandlerMoves DEF SyncInv
<1>6. cfg' \in [Instances -> Contents]
  BY <1>2 DEF SyncInv, Configured, Remove
<1>7. Configured'
  BY <1>1, <1>5, <1>6, SameDeployment DEF SyncInv, Configured
<1>8. Carried'
  BY CarriedStays DEF SyncInv, Remove
<1>9. Mirrored' /\ Advances
  BY MirroredStays DEF SyncInv, Remove, sync
<1> QED
  BY <1>1, <1>7, <1>8, <1>9 DEF SyncInv, SyncKept

\* PublishChange: the broadcast of a handler.
LEMMA PublishChangeKeeps ==
    ASSUME SyncInv, NEW i \in Instances, PublishChange(i)
    PROVE  SyncKept
<1>1. dep' = dep /\ op' = [op EXCEPT ![i] = Idle] /\ UNCHANGED <<cfg, db, rows>>
  BY DEF PublishChange, Done
<1>2. Msg(i, op[i].val, FALSE) \in Messages
  BY DEF SyncInv, Configured, HandlerIsTrue, PublishChange, Msg, Messages
<1>3. op' \in [Instances -> Tasks'] /\ \A j \in Instances : HandlerIsTrue(op[j])'
  BY <1>1, IdleIs, HandlerMoves DEF SyncInv
<1>4. Configured'
  BY <1>1, <1>3, SameDeployment DEF SyncInv, Configured
<1>5. Carried'
  BY <1>1, <1>2, PublishKeeps DEF SyncInv, PublishChange
<1>6. Mirrored' /\ Advances
  BY MirroredStays DEF SyncInv, PublishChange, sync
<1> QED
  BY <1>1, <1>4, <1>5, <1>6 DEF SyncInv, SyncKept

\* The reconciler: reading, and replacing what differs.
LEMMA ReconcilerKeeps ==
    ASSUME SyncInv, NEW i \in Instances, ReadRows(i) \/ Reconcile(i)
    PROVE  SyncKept
<1>1. dep' = dep /\ UNCHANGED <<db, op, inbox, mbox, sync>>
  BY DEF ReadRows, Reconcile
<1>2. rows' \in [Instances -> [val : Stored, read : BOOLEAN]]
  <2>1. [val |-> db, read |-> TRUE] \in [val : Stored, read : BOOLEAN]
    BY DEF SyncInv, Configured
  <2>2. Nothing \in [val : Stored, read : BOOLEAN]
    BY DEF Nothing, Stored
  <2> QED
    BY <2>1, <2>2 DEF SyncInv, Configured, ReadRows, Reconcile
<1>3. cfg' \in [Instances -> Contents]
  <2>1. CASE ReadRows(i)
    BY <2>1 DEF SyncInv, Configured, ReadRows
  <2>2. CASE Reconcile(i)
    <3>1. rows[i].val \in Stored
      BY DEF SyncInv, Configured
    <3>2. ~ LeftAlone(rows[i].val) => rows[i].val \in Contents
      BY <3>1, BroadcastIs DEF SyncInv, LeftAlone, Stored, Contents
    <3> QED
      BY <2>2, <3>2 DEF SyncInv, Configured, Reconcile
  <2> QED
    BY <2>1, <2>2
<1>4. Configured'
  BY <1>1, <1>2, <1>3, SameDeployment DEF SyncInv, Configured
<1>5. Carried'
  BY <1>1, CarriedStays DEF SyncInv
<1>6. Mirrored' /\ Advances
  BY <1>1, MirroredStays DEF SyncInv, sync
<1> QED
  BY <1>1, <1>4, <1>5, <1>6 DEF SyncInv, SyncKept

\* WriteSnapshot of an entry that is not older than the snapshot.
LEMMA SnapshotWritten ==
    ASSUME Mirrored, NEW i \in Instances, NEW e \in Entries, snap[i].ver <= e.ver,
           WriteSnapshot(i, e)
    PROVE  /\ snap' \in [Instances -> Entries] /\ Advances
           /\ \A j \in Instances : snap'[j] = snap[j] \/ (j = i /\ snap'[j] = e)
<1>1. snap' \in [Instances -> Entries]
  BY DEF Mirrored, WriteSnapshot
<1>2. \A j \in Instances : snap'[j] = snap[j] \/ (j = i /\ snap'[j] = e)
  BY DEF Mirrored, WriteSnapshot
<1>3. \A j \in Instances : snap[j].ver \in Nat
  BY EntryIs DEF Mirrored
<1>4. Advances
  BY <1>2, <1>3, VersionOrder DEF Advances
<1> QED
  BY <1>1, <1>2, <1>4

\* Observed: the entry stays, or is made of the message with the next version.
LEMMA ObservedIs ==
    ASSUME NEW msg \in Messages, NEW e \in Entries, now \in Nat
    PROVE  \/ Observed(e, msg) = e
           \/ Observed(e, msg) \in Entries /\ Observed(e, msg).ver = now + 1
<1>1. [val |-> msg.val, origin |-> msg.origin, ver |-> now + 1] \in Entries
  BY VersionOrder DEF Messages, Entries
<1> QED
  BY <1>1 DEF Observed

\* Observe: the mirror has its entry still, or a newer one.
LEMMA ObserveKeeps ==
    ASSUME SyncInv, NEW i \in Instances, Observe(i)
    PROVE  SyncKept
<1> DEFINE e == Observed(mirror[i], Head(mbox[i]))
<1>1. dep' = dep /\ UNCHANGED <<cfg, db, op, rows, inbox, plan>>
  BY DEF Observe
<1>2. mbox[i] \in Seq(Messages) /\ mbox[i] # << >>
  BY DEF SyncInv, Carried, Observe
<1>3. Head(mbox[i]) \in Messages /\ Tail(mbox[i]) \in Seq(Messages)
  BY <1>2, QueueOf
<1>4. Carried'
  BY <1>1, <1>3, SameDeployment DEF SyncInv, Carried, Observe
<1>5. /\ mirror \in [Instances -> Entries] /\ snap \in [Instances -> Entries] /\ now \in Nat
      /\ \A j \in Instances : /\ snap[j].ver \in Nat /\ mirror[j].ver \in Nat
                              /\ snap[j].ver <= mirror[j].ver /\ mirror[j].ver <= now
  BY EntryIs DEF SyncInv, Mirrored
<1>6. e = mirror[i] \/ (e \in Entries /\ e.ver = now + 1)
  BY <1>3, <1>5, ObservedIs
<1>7. mirror' = [mirror EXCEPT ![i] = e] /\ now' = IF e # mirror[i] THEN now + 1 ELSE now
  BY DEF Observe
<1>8. WriteSnapshot(i, e)
  BY DEF Observe
<1>9. /\ e \in Entries /\ e.ver \in Nat /\ mirror[i].ver <= e.ver
      /\ e.ver <= now' /\ now' \in Nat /\ now <= now'
  <2> HIDE DEF e
  <2>1. mirror[i] \in Entries /\ mirror[i].ver \in Nat /\ mirror[i].ver <= now /\ now \in Nat
    BY <1>5
  <2>2. CASE e = mirror[i]
    BY <1>7, <2>1, <2>2, VersionOrder
  <2>3. CASE e # mirror[i]
    <3>1. e \in Entries /\ e.ver = now + 1 /\ now' = now + 1
      BY <1>6, <1>7, <2>3
    <3>2. mirror[i].ver <= now + 1
      BY <2>1, VersionOrder
    <3> QED
      BY <2>1, <3>1, <3>2, VersionOrder
  <2> QED
    BY <2>2, <2>3
<1> HIDE DEF e
<1>10. /\ snap' \in [Instances -> Entries] /\ Advances
       /\ \A j \in Instances : snap'[j] = snap[j] \/ (j = i /\ snap'[j] = e)
  <2>1. snap[i].ver <= e.ver
    <3>1. snap[i].ver \in Nat /\ mirror[i].ver \in Nat /\ snap[i].ver <= mirror[i].ver
      BY <1>5
    <3>2. e.ver \in Nat /\ mirror[i].ver <= e.ver
      BY <1>9
    <3> QED
      BY <3>1, <3>2, VersionOrder
  <2> QED
    BY <1>8, <1>9, <2>1, SnapshotWritten DEF SyncInv
<1>11. mirror' \in [Instances -> Entries]
  BY <1>5, <1>7, <1>9
<1>12. \A j \in Instances : snap'[j].ver <= mirror'[j].ver /\ mirror'[j].ver <= now'
  BY <1>5, <1>7, <1>9, <1>10, VersionOrder
<1>13. Mirrored'
  BY <1>1, <1>9, <1>10, <1>11, <1>12, SameDeployment DEF SyncInv, Mirrored
<1>14. Configured'
  BY <1>1, ConfiguredStays DEF SyncInv
<1> QED
  BY <1>1, <1>4, <1>10, <1>13, <1>14 DEF SyncInv, SyncKept

\* Refresh: the snapshot catches up with the mirror.
LEMMA RefreshKeeps ==
    ASSUME SyncInv, NEW i \in Instances, Refresh(i)
    PROVE  SyncKept
<1>1. dep' = dep /\ UNCHANGED <<cfg, db, op, rows, inbox, mbox, mirror, plan, now>>
  BY DEF Refresh
<1>2. \A j \in Instances : snap[j].ver \in Nat /\ mirror[j].ver \in Nat /\ snap[j].ver <= mirror[j].ver
  BY EntryIs DEF SyncInv, Mirrored
<1>3. snap' = [snap EXCEPT ![i] = mirror[i]]
  BY DEF Refresh
<1>4. Advances
  BY <1>2, <1>3, VersionOrder DEF SyncInv, Mirrored, Advances
<1>5. Mirrored'
  BY <1>1, <1>2, <1>3, SameDeployment, VersionOrder DEF SyncInv, Mirrored
<1>6. Configured' /\ Carried'
  BY <1>1, ConfiguredStays, CarriedStays DEF SyncInv
<1> QED
  BY <1>1, <1>4, <1>5, <1>6 DEF SyncInv, SyncKept

\* ReplayRead: a leader writes its snapshot and merges.
LEMMA ReplayReadKeeps ==
    ASSUME SyncInv, NEW i \in Instances, ReplayRead(i)
    PROVE  SyncKept
<1>1. dep' = dep /\ UNCHANGED <<cfg, db, op, rows, inbox, mbox, mirror, now>>
  BY DEF ReplayRead
<1>2. Merged(i) \in Entries
  BY MergedIs DEF SyncInv
<1>3. plan' \in [Instances -> Entries]
  BY <1>2 DEF SyncInv, Mirrored, ReplayRead
<1>4. /\ snap' \in [Instances -> Entries] /\ Advances
      /\ \A j \in Instances : snap'[j] = snap[j] \/ (j = i /\ snap'[j] = mirror[i])
  <2>1. mirror[i] \in Entries /\ snap[i].ver <= mirror[i].ver
    BY DEF SyncInv, Mirrored
  <2>2. WriteSnapshot(i, mirror[i])
    BY DEF ReplayRead
  <2> QED
    BY <2>1, <2>2, SnapshotWritten DEF SyncInv
<1>5. \A j \in Instances : mirror[j].ver \in Nat
  BY EntryIs DEF SyncInv, Mirrored
<1>6. \A j \in Instances : snap'[j].ver <= mirror[j].ver
  BY <1>4, <1>5, VersionOrder DEF SyncInv, Mirrored
<1>7. Mirrored'
  BY <1>1, <1>3, <1>4, <1>6, SameDeployment DEF SyncInv, Mirrored
<1>8. Configured' /\ Carried'
  BY <1>1, ConfiguredStays, CarriedStays DEF SyncInv
<1> QED
  BY <1>1, <1>4, <1>7, <1>8 DEF SyncInv, SyncKept

\* The mirrors when the plan of a leader is dropped or carried out.
LEMMA PlanDropped ==
    ASSUME Mirrored, NEW i \in Instances, plan' = [plan EXCEPT ![i] = NoEntry],
           UNCHANGED <<dep, mirror, snap, now>>
    PROVE  Mirrored' /\ Advances
<1>1. plan' \in [Instances -> Entries]
  BY DEF Mirrored, Entries
<1>2. Mirrored'
  BY <1>1, SameDeployment DEF Mirrored
<1>3. Advances
  BY EntryIs, VersionOrder DEF Mirrored, Advances
<1> QED
  BY <1>2, <1>3

\* ReplayPublish: only what was broadcast before is broadcast again.
LEMMA ReplayPublishKeeps ==
    ASSUME SyncInv, NEW i \in Instances, ReplayPublish(i)
    PROVE  SyncKept
<1>1. dep' = dep /\ UNCHANGED <<cfg, db, op, rows, mirror, snap, now>>
  BY DEF ReplayPublish
<1>2. plan[i] \in Entries /\ plan[i].ver > 0
  BY DEF SyncInv, Mirrored, ReplayPublish
<1>3. Resync(plan[i]) \in Messages
  <2>1. plan[i].val \in Broadcast /\ plan[i].origin \in Instances
    BY <1>2, EntryIs
  <2> QED
    BY <2>1 DEF Resync, Msg, Messages
<1>4. Carried'
  <2>1. CASE Publish(Resync(plan[i]))
    BY <1>1, <1>3, <2>1, PublishKeeps DEF SyncInv
  <2>2. CASE UNCHANGED <<inbox, mbox>>
    BY <1>1, <2>2, CarriedStays DEF SyncInv
  <2> QED
    BY <2>1, <2>2 DEF ReplayPublish
<1>5. Mirrored' /\ Advances
  BY <1>1, PlanDropped DEF SyncInv, ReplayPublish
<1>6. Configured'
  BY <1>1, ConfiguredStays DEF SyncInv
<1> QED
  BY <1>1, <1>4, <1>5, <1>6 DEF SyncInv, SyncKept

\* Restart: the mirror goes back to what the snapshot holds, the snapshot stays.
LEMMA RestartKeeps ==
    ASSUME SyncInv, NEW i \in Instances, Restart(i)
    PROVE  SyncKept
<1>1. dep' = dep /\ UNCHANGED <<db, snap, now>>
  BY DEF Restart
<1>2. Configured'
  <2>1. op' \in [Instances -> Tasks'] /\ \A j \in Instances : HandlerIsTrue(op[j])'
    BY <1>1, IdleIs, HandlerMoves DEF SyncInv, Restart
  <2>2. cfg' \in [Instances -> Contents]
    <3> DEFINE c == IF store /\ db # Absent THEN db
                    ELSE IF kind = "policy" THEN Original ELSE Absent
    <3>1. c \in Contents
      BY DEF SyncInv, Configured, Contents, Stored
    <3>2. cfg' = [cfg EXCEPT ![i] = c]
      BY DEF Restart
    <3> HIDE DEF c
    <3> QED
      BY <3>1, <3>2 DEF SyncInv, Configured
  <2>3. rows' \in [Instances -> [val : Stored, read : BOOLEAN]]
    <3>1. Nothing \in [val : Stored, read : BOOLEAN]
      BY DEF Nothing, Stored
    <3> QED
      BY <3>1 DEF SyncInv, Configured, Restart
  <2> QED
    BY <1>1, <2>1, <2>2, <2>3, SameDeployment DEF SyncInv, Configured
<1>3. Carried'
  BY <1>1, SameDeployment, QueueOf DEF SyncInv, Carried, Restart
<1>4. Mirrored'
  <2>1. \A j \in Instances : snap[j].ver \in Nat /\ mirror[j].ver \in Nat
    BY EntryIs DEF SyncInv, Mirrored
  <2>2. plan' \in [Instances -> Entries]
    BY DEF SyncInv, Mirrored, Entries, Restart
  <2>3. mirror' \in [Instances -> Entries]
    BY DEF SyncInv, Mirrored, Restart, Bootstrapped
  <2>4. \A j \in Instances : snap[j].ver <= mirror'[j].ver /\ mirror'[j].ver <= now
    BY <2>1, VersionOrder DEF SyncInv, Mirrored, Restart, Bootstrapped
  <2> QED
    BY <1>1, <2>2, <2>3, <2>4, SameDeployment DEF SyncInv, Mirrored
<1>5. Advances
  BY <1>1, EntryIs, VersionOrder DEF SyncInv, Mirrored, Advances
<1> QED
  BY <1>1, <1>2, <1>3, <1>4, <1>5 DEF SyncInv, SyncKept

\* A step that leaves the items, the messages and the mirrors alone.
LEMMA SyncStays ==
    ASSUME SyncInv, UNCHANGED <<dep, cfg, db, op, rows, inbox, mbox, mirror, snap, plan, now>>
    PROVE  SyncKept
  BY ConfiguredStays, CarriedStays, MirroredStays DEF SyncInv, SyncKept

\* Every step of SyncNext.
LEMMA SyncStepKeeps ==
    ASSUME SyncInv, [SyncNext]_syncVars
    PROVE  SyncKept
<1>1. CASE UNCHANGED syncVars
  BY <1>1, SyncStays DEF syncVars, sync
<1>2. CASE WindowEnds
  BY <1>2, SyncStays DEF WindowEnds
<1>3. ASSUME NEW i \in Instances, NEW v \in dep.values, PutPolicy(i, v) \/ PostBackend(i, v)
      PROVE  SyncKept
  BY <1>3, ChangeKeeps DEF PutPolicy, PostBackend
<1>4. ASSUME NEW i \in Instances, Handler(i)
      PROVE  SyncKept
  BY <1>4, UpsertKeeps, RemoveKeeps, PublishChangeKeeps
     DEF Handler, PublishPolicy, PublishBackendChange
<1>5. ASSUME NEW i \in Instances, Subscriber(i)
      PROVE  SyncKept
  BY <1>5, ApplyKeeps DEF Subscriber, ApplyPolicy, ApplyBackend
<1>6. ASSUME NEW i \in Instances, Reconciler(i)
      PROVE  SyncKept
  BY <1>6, ReconcilerKeeps
     DEF Reconciler, ListBackends, ListPolicies, ReconcileBackends, ReconcilePolicies
<1> QED
  BY <1>1, <1>2, <1>3, <1>4, <1>5, <1>6, DeleteKeeps, ObserveKeeps, RefreshKeeps,
     ReplayReadKeeps, ReplayPublishKeeps, RestartKeeps DEF SyncNext

\* Whatever is lost, delayed or done twice, the queues, mirrors and snapshots hold only
\* what some operator gave the item, and a snapshot is never ahead of its mirror, nor a
\* mirror ahead of the clock (observePolicy, observeBackend, writeSnapshot, bootstrapMirror).
THEOREM SyncInvariance == SyncSpec => []SyncInv
<1>1. SyncInit => SyncInv
  <2> SUFFICES ASSUME SyncInit PROVE SyncInv
    OBVIOUS
  <2>1. dep \in Deployments
    BY DEF SyncInit
  <2>2. PICK c \in IF kind = "policy" THEN {Original} ELSE dep.values \cup {Absent} :
            /\ cfg = [i \in Instances |-> c]
            /\ db = IF store /\ kind = "backend" THEN c ELSE Absent
    BY DEF SyncInit
  <2>3. c \in Contents /\ db \in Stored
    BY <2>1, <2>2, BroadcastIs DEF Contents, Stored
  <2>4. cfg \in [Instances -> Contents]
    BY <2>2, <2>3
  <2>5. op = [i \in Instances |-> Idle] /\ rows = [i \in Instances |-> Nothing]
    BY DEF SyncInit
  <2>6. Nothing \in [val : Stored, read : BOOLEAN]
    BY DEF Nothing, Stored
  <2>7. Configured
    BY <2>3, <2>4, <2>5, <2>6, IdleIs DEF Configured
  <2>8. Carried
    <3>1. inbox = [i \in Instances |-> << >>] /\ mbox = inbox
      BY DEF SyncInit
    <3> QED
      BY <3>1, QueueOf DEF Carried
  <2>9. Mirrored
    <3>1. mirror = [i \in Instances |-> NoEntry] /\ snap = mirror /\ plan = mirror /\ now = 0
      BY DEF SyncInit
    <3>2. NoEntry \in Entries /\ NoEntry.ver = 0
      BY DEF Entries, NoEntry
    <3> QED
      BY <3>1, <3>2, VersionOrder DEF Mirrored
  <2> QED
    BY <2>1, <2>7, <2>8, <2>9 DEF SyncInv
<1>2. SyncInv /\ [SyncNext]_syncVars => SyncInv'
  BY SyncStepKeeps DEF SyncKept
<1> QED
  BY <1>1, <1>2, PTL DEF SyncSpec

\* In every deployment an instance has the content of its configuration file or one that
\* an operator gave; neither the reconciler nor the replay takes a policy away
\* (reconcilePolicies, replayOnce).
THEOREM OnlyConfiguredHolds == SyncSpec => []OnlyConfigured
<1>1. SyncInv => OnlyConfigured
  BY DEF SyncInv, Configured, Contents, OnlyConfigured
<1> QED
  BY <1>1, SyncInvariance, PTL

\* In every deployment the snapshot of an instance never goes back to an older version, whatever
\* writes fail and however often the instance restarts from it (writeSnapshot,
\* bootstrapMirror, runResyncLoop).
THEOREM SnapshotsOnlyAdvance == SyncSpec => SnapshotsAdvance
<1>1. SyncInv /\ [SyncNext]_syncVars => [Advances]_syncVars
  BY SyncStepKeeps DEF SyncKept
<1>2. SyncSpec => [][Advances]_syncVars
  BY <1>1, SyncInvariance, PTL DEF SyncSpec
<1>3. SnapshotsAdvance <=> [][Advances]_syncVars
  BY PTL DEF SnapshotsAdvance, Advances
<1> QED
  BY <1>2, <1>3, PTL

=============================================================================
