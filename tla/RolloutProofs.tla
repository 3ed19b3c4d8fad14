--------------------------- MODULE RolloutProofs ----------------------------
(***************************************************************************)
(* The canary rollout, for every list of steps, every interval, any        *)
(* expressions and any budget of losses, moves of the lead, restarts and   *)
(* resets: no step is skipped or cut short.                                *)
(***************************************************************************)
EXTENDS Rollout, TLAPS

\* The time the provers have for a leaf, in seconds.
USE SMTT(30), ZenonT(30)

\* An event on its way opens nothing that no instance has opened before.
Allowed(ev) ==
    /\ ev.state = "running" => ev.step < peak
    /\ ev.state = "completed" => peak = Len(Steps) + 1

\* What an instance knows of the cluster: it is not ahead of the furthest step, and
\* the clock of one that is in the furthest step is not ahead of that step's.
Known(i) ==
    /\ state[i] = "running" =>
          /\ step[i] < Len(Steps) /\ step[i] < peak
          /\ weight[i] = Steps[step[i] + 1]
          /\ step[i] + 1 = peak => age[i] <= peakAge
    /\ state[i] = "completed" => peak = Len(Steps) + 1 /\ weight[i] = Steps[Len(Steps)]
    /\ state[i] = "failed" => weight[i] = 0
    /\ \A n \in 1 .. Len(inbox[i]) : Allowed(inbox[i][n])

RolloutInv == TypeOK /\ \A i \in Instances : Known(i)

-----------------------------------------------------------------------------
\* An item of a sequence is of the sequence's type.
LEMMA ItemTyped ==
    ASSUME NEW S, NEW q \in Seq(S), NEW n \in 1 .. Len(q)
    PROVE  q[n] \in S
  OBVIOUS

\* The weights of the steps are percentages.
LEMMA StepWeight ==
    ASSUME NEW k \in 0 .. Len(Steps) - 1
    PROVE  Steps[k + 1] \in 0 .. 100
<1>1. Steps \in Seq(0 .. 100) /\ Len(Steps) \in Nat
  BY StepsAssumption
<1>2. k + 1 \in 1 .. Len(Steps)
  BY <1>1
<1> QED
  BY <1>1, <1>2, ItemTyped, ZenonT(30)

\* A function on the instances that is changed at one of them.
LEMMA ChangedAt ==
    ASSUME NEW S, NEW f \in [Instances -> S], NEW i \in Instances, NEW v \in S,
           NEW g, g = [f EXCEPT ![i] = v]
    PROVE  /\ g \in [Instances -> S] /\ g[i] = v
           /\ \A j \in Instances \ {i} : g[j] = f[j]
  OBVIOUS

\* The steps of the instances.
LEMMA StepTyped ==
    ASSUME RolloutInv
    PROVE  step \in [Instances -> 0 .. Len(Steps)]
  BY DEF RolloutInv, TypeOK

\* An instance is never further than the furthest step.
LEMMA ReachIsKnown ==
    ASSUME RolloutInv, NEW i \in Instances
    PROVE  Reach(i) \in 0 .. peak
  BY StepsAssumption DEF RolloutInv, TypeOK, Known, Reach

\* Instance i enters a step that is not beyond the furthest.
LEMMA Entering ==
    ASSUME RolloutInv, NEW i \in Instances, NEW k \in 0 .. Len(Steps) - 1, EnterStep(i, k)
    PROVE  /\ state' \in [Instances -> {"idle", "running", "completed", "failed"}]
           /\ step' \in [Instances -> 0 .. Len(Steps)]
           /\ age' \in [Instances -> 0 .. Interval]
           /\ weight' \in [Instances -> 0 .. 100]
           /\ window' \in [Instances -> [results : Nat, errors : Nat]]
           /\ state'[i] = "running" /\ step'[i] = k /\ age'[i] = 0
           /\ weight'[i] = Steps[k + 1]
           /\ \A j \in Instances \ {i} :
                 /\ state'[j] = state[j] /\ step'[j] = step[j] /\ age'[j] = age[j]
                 /\ weight'[j] = weight[j]
           /\ Reach(i)' = k + 1
           /\ \A j \in Instances \ {i} : Reach(j)' = Reach(j)
<1>1. Steps[k + 1] \in 0 .. 100 /\ Len(Steps) \in Nat
  BY StepWeight, StepsAssumption
<1>2. /\ state' \in [Instances -> {"idle", "running", "completed", "failed"}]
      /\ state'[i] = "running" /\ \A j \in Instances \ {i} : state'[j] = state[j]
  BY DEF EnterStep, RolloutInv, TypeOK
<1>3. /\ step' \in [Instances -> 0 .. Len(Steps)]
      /\ step'[i] = k /\ \A j \in Instances \ {i} : step'[j] = step[j]
  BY <1>1 DEF EnterStep, RolloutInv, TypeOK
<1>4. /\ age' \in [Instances -> 0 .. Interval]
      /\ age'[i] = 0 /\ \A j \in Instances \ {i} : age'[j] = age[j]
  BY IntervalAssumption DEF EnterStep, StartClock, RolloutInv, TypeOK
<1>5. /\ weight' \in [Instances -> 0 .. 100]
      /\ weight'[i] = Steps[k + 1] /\ \A j \in Instances \ {i} : weight'[j] = weight[j]
  BY <1>1 DEF EnterStep, RolloutInv, TypeOK
<1>6. window' \in [Instances -> [results : Nat, errors : Nat]]
  BY DEF EnterStep, EmptyWindow, RolloutInv, TypeOK
<1>7. Reach(i)' = k + 1 /\ \A j \in Instances \ {i} : Reach(j)' = Reach(j)
  BY <1>2, <1>3 DEF Reach
<1> QED
  BY <1>2, <1>3, <1>4, <1>5, <1>6, <1>7

\* A fault is paid for from the budget.
LEMMA Spending ==
    ASSUME RolloutInv, NEW f \in DOMAIN FaultBudget, UseBudget(f)
    PROVE  spent' \in [DOMAIN FaultBudget -> Nat]
<1> DEFINE D == DOMAIN FaultBudget
<1>1. spent \in [D -> Nat] /\ f \in D /\ spent' = [spent EXCEPT ![f] = spent[f] + 1]
  BY DEF UseBudget, RolloutInv, TypeOK
<1> HIDE DEF D
<1>2. spent' \in [D -> Nat]
  BY <1>1
<1> QED
  BY <1>2 DEF D

\* A broadcast adds the event at the end of some inboxes.
LEMMA Publishing ==
    ASSUME RolloutInv, NEW i \in Instances, NEW ev \in Events, Publish(i, ev)
    PROVE  /\ inbox' \in [Instances -> Seq(Events)]
           /\ spent' \in [DOMAIN FaultBudget -> Nat]
           /\ \A j \in Instances : inbox'[j] \in {inbox[j], Append(inbox[j], ev)}
<1>1. PICK missed \in SUBSET Recipients(i) :
        /\ IF missed = {} THEN UNCHANGED spent ELSE UseBudget("loss")
        /\ inbox' = [j \in Instances |->
               IF j \in Recipients(i) \ missed THEN Append(inbox[j], ev) ELSE inbox[j]]
  BY DEF Publish
<1>2. spent' \in [DOMAIN FaultBudget -> Nat]
  BY <1>1, Spending, BudgetAssumption, ZenonT(30) DEF RolloutInv, TypeOK
<1>3. \A j \in Instances : inbox'[j] \in {inbox[j], Append(inbox[j], ev)}
  BY <1>1
<1>4. \A j \in Instances : inbox[j] \in Seq(Events) /\ Append(inbox[j], ev) \in Seq(Events)
  BY DEF RolloutInv, TypeOK
<1>5. inbox' \in [Instances -> Seq(Events)]
  BY <1>1, <1>4
<1> QED
  BY <1>2, <1>3, <1>5

\* The events in an inbox after a broadcast were there before, or are the new one.
LEMMA Received ==
    ASSUME NEW q \in Seq(Events), NEW ev \in Events, NEW s \in {q, Append(q, ev)},
           NEW n \in 1 .. Len(s)
    PROVE  s[n] = ev \/ (n \in 1 .. Len(q) /\ s[n] = q[n])
  BY DEF Events

\* How the furthest step may move.
Grown ==
    /\ peak' \in peak .. Len(Steps) + 1
    /\ peak' = peak => peakAge' = peakAge
    /\ peakAge' \in 0 .. Interval

\* What was allowed stays allowed.
LEMMA StillAllowed ==
    ASSUME RolloutInv, Grown, NEW ev \in Events, Allowed(ev)
    PROVE  /\ ev.state = "running" => ev.step < peak'
           /\ ev.state = "completed" => peak' = Len(Steps) + 1
  BY StepsAssumption DEF RolloutInv, TypeOK, Grown, Allowed, Events

\* Nothing that is not allowed comes into an inbox by the broadcast of what is.
LEMMA MailIsAllowed ==
    ASSUME RolloutInv, Grown, NEW ev \in Events, NEW j \in Instances,
           inbox'[j] \in {inbox[j], Append(inbox[j], ev)},
           ev.state = "running" => ev.step < peak',
           ev.state = "completed" => peak' = Len(Steps) + 1
    PROVE  (\A n \in 1 .. Len(inbox[j]) : Allowed(inbox[j][n]))'
<1> SUFFICES ASSUME NEW n \in 1 .. Len(inbox'[j]) PROVE Allowed(inbox[j][n])'
  OBVIOUS
<1>1. inbox[j] \in Seq(Events)
  BY DEF RolloutInv, TypeOK
<1>2. CASE inbox'[j][n] = ev
  BY <1>2 DEF Allowed
<1>3. CASE n \in 1 .. Len(inbox[j]) /\ inbox'[j][n] = inbox[j][n]
  <2>1. inbox[j][n] \in Events /\ Allowed(inbox[j][n])
    BY <1>1, <1>3, ItemTyped DEF RolloutInv, Known
  <2> QED
    BY <1>3, <2>1, StillAllowed DEF Allowed
<1> QED
  BY <1>1, <1>2, <1>3, Received

\* An instance that a step leaves alone knows what it knew.
LEMMA Bystander ==
    ASSUME RolloutInv, Grown, NEW j \in Instances,
           state'[j] = state[j], step'[j] = step[j], age'[j] = age[j],
           weight'[j] = weight[j],
           (\A n \in 1 .. Len(inbox[j]) : Allowed(inbox[j][n]))'
    PROVE  Known(j)'
  BY StepsAssumption DEF RolloutInv, TypeOK, Known, Grown

\* An instance that has just entered a step that is not beyond the furthest.
LEMMA Newcomer ==
    ASSUME RolloutInv, Grown, NEW i \in Instances, NEW k \in 0 .. Len(Steps) - 1, k < peak',
           state'[i] = "running", step'[i] = k, age'[i] = 0, weight'[i] = Steps[k + 1],
           (\A n \in 1 .. Len(inbox[i]) : Allowed(inbox[i][n]))'
    PROVE  Known(i)'
  BY StepsAssumption DEF RolloutInv, TypeOK, Known, Grown

\* Mail that was there before is allowed, whatever was taken out of the inbox.
LEMMA MailKept ==
    ASSUME RolloutInv, Grown, NEW j \in Instances,
           \A n \in 1 .. Len(inbox'[j]) :
              \E m \in 1 .. Len(inbox[j]) : inbox'[j][n] = inbox[j][m]
    PROVE  (\A n \in 1 .. Len(inbox[j]) : Allowed(inbox[j][n]))'
<1> SUFFICES ASSUME NEW n \in 1 .. Len(inbox'[j]) PROVE Allowed(inbox[j][n])'
  OBVIOUS
<1>1. PICK m \in 1 .. Len(inbox[j]) : inbox'[j][n] = inbox[j][m]
  OBVIOUS
<1>2. inbox[j] \in Seq(Events)
  BY DEF RolloutInv, TypeOK
<1>3. inbox[j][m] \in Events /\ Allowed(inbox[j][m])
  BY <1>2, ItemTyped DEF RolloutInv, Known
<1> QED
  BY <1>1, <1>3, StillAllowed DEF Allowed

\* While nobody goes beyond the furthest step, it stays.
LEMMA Quiet ==
    ASSUME RolloutInv, Watch, \A j \in Instances : Reach(j)' \in 0 .. peak
    PROVE  Grown /\ peak' = peak /\ peakAge' = peakAge
<1>1. peak' = peak /\ peakAge' = peakAge
  BY DEF Watch, RolloutInv, TypeOK
<1> QED
  BY <1>1, StepsAssumption DEF Grown, RolloutInv, TypeOK

\* The bounds of the furthest step.
LEMMA PeakBounds ==
    ASSUME RolloutInv
    PROVE  /\ Len(Steps) \in Nat /\ Len(Steps) >= 1
           /\ peak \in Nat /\ peak >= 1 /\ peak <= Len(Steps) + 1
           /\ peakAge \in 0 .. Interval
  BY StepsAssumption DEF RolloutInv, TypeOK

\* Instance i enters a step that was reached before: nobody goes further.
LEMMA EnteringReached ==
    ASSUME RolloutInv, NEW i \in Instances, NEW k \in 0 .. Len(Steps) - 1, k < peak,
           EnterStep(i, k), Watch
    PROVE  /\ \A j \in Instances : Reach(j)' \in 0 .. peak
           /\ Grown /\ peak' = peak /\ peakAge' = peakAge
<1>1. Reach(i)' \in 0 .. peak
  BY Entering, PeakBounds
<1>2. \A j \in Instances \ {i} : Reach(j)' \in 0 .. peak
  BY Entering, ReachIsKnown
<1> QED
  BY <1>1, <1>2, Quiet

\* The instances after instance i has entered a step.
LEMMA EnteringKnown ==
    ASSUME RolloutInv, NEW i \in Instances, NEW k \in 0 .. Len(Steps) - 1,
           EnterStep(i, k), Grown, k < peak',
           \A j \in Instances : (\A n \in 1 .. Len(inbox[j]) : Allowed(inbox[j][n]))'
    PROVE  \A j \in Instances : Known(j)'
<1>1. Known(i)'
  BY Entering, Newcomer
<1>2. ASSUME NEW j \in Instances \ {i} PROVE Known(j)'
  BY Entering, Bystander, ZenonT(30)
<1> QED
  BY <1>1, <1>2

-----------------------------------------------------------------------------
(* One lemma for each action: it preserves the invariant, and takes the    *)
(* canary no further than BakeTime allows.                                 *)

\* A step of BakeTime.
Baked == \A i \in Instances : Reach(i)' > peak => Reach(i)' = peak + 1 /\ peakAge >= Interval

\* Nothing is opened further while no instance goes beyond the furthest step.
LEMMA NothingOpened ==
    ASSUME RolloutInv, \A i \in Instances : Reach(i)' \in 0 .. peak
    PROVE  Baked
  BY PeakBounds DEF Baked

\* The furthest step keeps its type.
LEMMA PeakTyped ==
    ASSUME RolloutInv, Grown
    PROVE  peak' \in 1 .. Len(Steps) + 1 /\ peakAge' \in 0 .. Interval
  BY PeakBounds DEF Grown

\* Reset puts one instance back into the first step, which some instance has reached.
LEMMA ResetKeeps ==
    ASSUME RolloutInv, NEW i \in Instances, Reset(i)
    PROVE  RolloutInv' /\ Baked
<1>1. spent' \in [DOMAIN FaultBudget -> Nat]
  BY Spending, BudgetAssumption DEF Reset
<1>2. /\ unsent' \in [Instances -> Nat] /\ leaders' \subseteq Instances
      /\ inbox' = inbox /\ inbox' \in [Instances -> Seq(Events)]
  BY DEF Reset, RolloutInv, TypeOK
<1>3. 0 \in 0 .. Len(Steps) - 1 /\ 0 < peak /\ Watch /\ EnterStep(i, 0)
  BY PeakBounds DEF Reset
<1>4. /\ \A j \in Instances : Reach(j)' \in 0 .. peak
      /\ Grown /\ 0 < peak'
  BY <1>3, EnteringReached
<1>5. TypeOK'
  BY <1>1, <1>2, <1>3, <1>4, Entering, PeakTyped DEF TypeOK
<1>6. ASSUME NEW j \in Instances PROVE (\A n \in 1 .. Len(inbox[j]) : Allowed(inbox[j][n]))'
  BY <1>2, <1>4, MailKept
<1>7. \A j \in Instances : Known(j)'
  BY <1>3, <1>4, <1>6, EnteringKnown
<1> QED
  BY <1>4, <1>5, <1>7, NothingOpened DEF RolloutInv

\* A restarted instance is in the first step or idle, and its inbox is lost.
LEMMA RestartKeeps ==
    ASSUME RolloutInv, NEW i \in Instances, Restart(i)
    PROVE  RolloutInv' /\ Baked
<1>1. spent' \in [DOMAIN FaultBudget -> Nat]
  BY Spending, BudgetAssumption DEF Restart
<1>2. /\ unsent' \in [Instances -> Nat] /\ leaders' \subseteq Instances
      /\ inbox' \in [Instances -> Seq(Events)]
      /\ inbox'[i] = << >> /\ \A j \in Instances \ {i} : inbox'[j] = inbox[j]
  BY DEF Restart, RolloutInv, TypeOK
<1>3. ASSUME Grown, NEW j \in Instances
      PROVE (\A n \in 1 .. Len(inbox[j]) : Allowed(inbox[j][n]))'
  <2>1. \A n \in 1 .. Len(inbox'[j]) : \E m \in 1 .. Len(inbox[j]) : inbox'[j][n] = inbox[j][m]
    BY <1>2
  <2> QED
    BY <1>3, <2>1, MailKept
<1>4. CASE AutoStart
  <2>1. 0 \in 0 .. Len(Steps) - 1 /\ 0 < peak /\ Watch /\ EnterStep(i, 0)
    BY <1>4, PeakBounds DEF Restart
  <2>2. /\ \A j \in Instances : Reach(j)' \in 0 .. peak
        /\ Grown /\ 0 < peak'
    BY <2>1, EnteringReached
  <2>3. TypeOK'
    BY <1>1, <1>2, <2>1, <2>2, Entering, PeakTyped DEF TypeOK
  <2>4. \A j \in Instances : Known(j)'
    BY <1>3, <2>1, <2>2, EnteringKnown
  <2> QED
    BY <2>2, <2>3, <2>4, NothingOpened DEF RolloutInv
<1>5. CASE ~ AutoStart
  <2>1. /\ state' = [state EXCEPT ![i] = "idle"]
        /\ step' = [step EXCEPT ![i] = 0]
        /\ age' = [age EXCEPT ![i] = 0]
        /\ window' = [window EXCEPT ![i] = EmptyWindow]
        /\ weight' = [weight EXCEPT ![i] = Baseline]
        /\ Watch
    BY <1>5 DEF Restart
  <2>2. /\ state' \in [Instances -> {"idle", "running", "completed", "failed"}]
        /\ state'[i] = "idle" /\ \A j \in Instances \ {i} : state'[j] = state[j]
    BY <2>1 DEF RolloutInv, TypeOK
  <2>3. /\ step' \in [Instances -> 0 .. Len(Steps)]
        /\ \A j \in Instances \ {i} : step'[j] = step[j]
    <3>1. 0 \in 0 .. Len(Steps)
      BY PeakBounds
    <3> QED
      BY <2>1, <3>1, StepTyped, ChangedAt
  <2>4. /\ age' \in [Instances -> 0 .. Interval]
        /\ \A j \in Instances \ {i} : age'[j] = age[j]
    BY <2>1, IntervalAssumption DEF RolloutInv, TypeOK
  <2>5. /\ weight' \in [Instances -> 0 .. 100]
         /\ \A j \in Instances \ {i} : weight'[j] = weight[j]
    BY <2>1, BaselineAssumption DEF RolloutInv, TypeOK
  <2>6. window' \in [Instances -> [results : Nat, errors : Nat]]
    BY <2>1 DEF EmptyWindow, RolloutInv, TypeOK
  <2>7. Reach(i)' = 0 /\ \A j \in Instances \ {i} : Reach(j)' = Reach(j)
    BY <2>2, <2>3 DEF Reach
  <2>8. \A j \in Instances : Reach(j)' \in 0 .. peak
    BY <2>7, ReachIsKnown, PeakBounds
  <2>9. Grown
    BY <2>1, <2>8, Quiet
  <2>10. TypeOK'
    BY <1>1, <1>2, <2>2, <2>3, <2>4, <2>5, <2>6, <2>9, PeakTyped DEF TypeOK
  <2>11. Known(i)'
    BY <1>3, <2>2, <2>9 DEF Known
  <2>12. ASSUME NEW j \in Instances \ {i} PROVE Known(j)'
    BY <1>3, <2>2, <2>3, <2>4, <2>5, <2>9, Bystander
  <2> QED
    BY <2>8, <2>10, <2>11, <2>12, NothingOpened DEF RolloutInv
<1> QED
  BY <1>4, <1>5

\* A step that touches neither the state, the clocks nor the weights of any instance.
LEMMA LocalKept ==
    ASSUME RolloutInv, state' = state, step' = step, age' = age, weight' = weight, Watch,
           Grown => \A j \in Instances : (\A n \in 1 .. Len(inbox[j]) : Allowed(inbox[j][n]))'
    PROVE  /\ \A j \in Instances : Known(j)'
           /\ Grown /\ Baked /\ peak' = peak
<1>1. \A j \in Instances : Reach(j)' \in 0 .. peak
  <2>1. \A j \in Instances : Reach(j)' = Reach(j)
    BY DEF Reach
  <2> QED
    BY <2>1, ReachIsKnown
<1>2. Grown /\ peak' = peak
  BY <1>1, Quiet
<1>3. ASSUME NEW j \in Instances PROVE Known(j)'
  BY <1>2, Bystander
<1> QED
  BY <1>1, <1>2, <1>3, NothingOpened

\* The broadcast of start concerns the first step only.
LEMMA BroadcastStartKeeps ==
    ASSUME RolloutInv, NEW i \in Instances, BroadcastStart(i)
    PROVE  RolloutInv' /\ Baked
<1> DEFINE ev == Event("running", 0)
<1>1. ev \in Events /\ ev.state = "running" /\ ev.step = 0
  BY PeakBounds DEF Event, Events
<1>2. /\ state' = state /\ step' = step /\ age' = age /\ weight' = weight
      /\ window' = window /\ leaders' = leaders /\ Watch /\ Publish(i, ev)
  BY DEF BroadcastStart, local
<1>3. unsent' \in [Instances -> Nat]
  BY DEF BroadcastStart, RolloutInv, TypeOK
<1> HIDE DEF ev
<1>4. /\ inbox' \in [Instances -> Seq(Events)]
      /\ spent' \in [DOMAIN FaultBudget -> Nat]
      /\ \A j \in Instances : inbox'[j] \in {inbox[j], Append(inbox[j], ev)}
  BY <1>1, <1>2, Publishing
<1>5. ASSUME Grown, NEW j \in Instances
      PROVE (\A n \in 1 .. Len(inbox[j]) : Allowed(inbox[j][n]))'
  <2>1. 0 < peak'
    BY <1>5, PeakBounds DEF Grown
  <2> QED
    BY <1>1, <1>4, <1>5, <2>1, MailIsAllowed
<1>6. (\A j \in Instances : Known(j)') /\ Grown /\ Baked
  BY <1>2, <1>5, LocalKept
<1>7. TypeOK'
  BY <1>2, <1>3, <1>4, <1>6, PeakTyped, ZenonT(30) DEF TypeOK, RolloutInv
<1> QED
  BY <1>6, <1>7 DEF RolloutInv

\* Results change the window and nothing else.
LEMMA ObserveKeeps ==
    ASSUME RolloutInv, NEW i \in Instances, NEW isError \in BOOLEAN, Observe(i, isError)
    PROVE  RolloutInv' /\ Baked
<1>1. /\ state' = state /\ step' = step /\ age' = age /\ weight' = weight
      /\ unsent' = unsent /\ inbox' = inbox /\ leaders' = leaders /\ spent' = spent /\ Watch
  BY DEF Observe
<1>2. window' \in [Instances -> [results : Nat, errors : Nat]]
  <2>1. window \in [Instances -> [results : Nat, errors : Nat]]
    BY DEF RolloutInv, TypeOK
  <2>2. window[i].results + 1 \in Nat /\ window[i].errors \in Nat /\ window[i].errors + 1 \in Nat
    BY <2>1
  <2>3. (IF isError THEN window[i].errors + 1 ELSE window[i].errors) \in Nat
    BY <2>2
  <2> QED
    BY <2>1, <2>2, <2>3 DEF Observe
<1>3. Grown => \A j \in Instances : (\A n \in 1 .. Len(inbox[j]) : Allowed(inbox[j][n]))'
  BY <1>1, MailKept
<1>4. (\A j \in Instances : Known(j)') /\ Grown /\ Baked
  BY <1>1, <1>3, LocalKept
<1>5. TypeOK'
  BY <1>1, <1>2, <1>4, PeakTyped, ZenonT(30) DEF TypeOK, RolloutInv
<1> QED
  BY <1>4, <1>5 DEF RolloutInv

\* Who leads is no part of the argument.
LEMMA LeadMovesKeeps ==
    ASSUME RolloutInv, LeadershipMoves
    PROVE  RolloutInv' /\ Baked
<1>1. /\ state' = state /\ step' = step /\ age' = age /\ weight' = weight
      /\ window' = window /\ unsent' = unsent /\ inbox' = inbox
      /\ leaders' \subseteq Instances /\ Watch
  BY DEF LeadershipMoves, local
<1>2. spent' \in [DOMAIN FaultBudget -> Nat]
  BY Spending, BudgetAssumption DEF LeadershipMoves
<1>3. Grown => \A j \in Instances : (\A n \in 1 .. Len(inbox[j]) : Allowed(inbox[j][n]))'
  BY <1>1, MailKept
<1>4. (\A j \in Instances : Known(j)') /\ Grown /\ Baked
  BY <1>1, <1>3, LocalKept
<1>5. TypeOK'
  BY <1>1, <1>2, <1>4, PeakTyped, ZenonT(30) DEF TypeOK, RolloutInv
<1> QED
  BY <1>4, <1>5 DEF RolloutInv

\* A rollback closes the canary on one instance and tells the others.
LEMMA TickRollbackKeeps ==
    ASSUME RolloutInv, NEW i \in Instances, TickRollback(i)
    PROVE  RolloutInv' /\ Baked
<1> DEFINE ev == Event("failed", step[i])
<1>1. step[i] \in 0 .. Len(Steps) - 1
  BY PeakBounds DEF TickRollback, RolloutInv, TypeOK, Known
<1>2. ev \in Events /\ ev.state = "failed"
  BY <1>1 DEF Event, Events
<1>3. /\ state' = [state EXCEPT ![i] = "failed"] /\ weight' = [weight EXCEPT ![i] = 0]
      /\ step' = step /\ age' = age /\ window' = window /\ unsent' = unsent
      /\ leaders' = leaders /\ Watch /\ Publish(i, ev)
  BY DEF TickRollback
<1> HIDE DEF ev
<1>4. /\ state' \in [Instances -> {"idle", "running", "completed", "failed"}]
      /\ state'[i] = "failed" /\ \A j \in Instances \ {i} : state'[j] = state[j]
  BY <1>3 DEF RolloutInv, TypeOK
<1>5. /\ weight' \in [Instances -> 0 .. 100]
      /\ weight'[i] = 0 /\ \A j \in Instances \ {i} : weight'[j] = weight[j]
  BY <1>3 DEF RolloutInv, TypeOK
<1>6. /\ inbox' \in [Instances -> Seq(Events)]
      /\ spent' \in [DOMAIN FaultBudget -> Nat]
      /\ \A j \in Instances : inbox'[j] \in {inbox[j], Append(inbox[j], ev)}
  BY <1>2, <1>3, Publishing
<1>7. \A j \in Instances : Reach(j)' \in 0 .. peak
  <2>1. Reach(i)' = 0 /\ \A j \in Instances \ {i} : Reach(j)' = Reach(j)
    BY <1>3, <1>4 DEF Reach
  <2> QED
    BY <2>1, ReachIsKnown, PeakBounds
<1>8. Grown
  BY <1>3, <1>7, Quiet
<1>9. ASSUME NEW j \in Instances PROVE (\A n \in 1 .. Len(inbox[j]) : Allowed(inbox[j][n]))'
  BY <1>2, <1>6, <1>8, MailIsAllowed
<1>10. Known(i)'
  BY <1>4, <1>5, <1>9 DEF Known
<1>11. ASSUME NEW j \in Instances \ {i} PROVE Known(j)'
  BY <1>3, <1>4, <1>5, <1>8, <1>9, Bystander
<1>12. TypeOK'
  BY <1>3, <1>4, <1>5, <1>6, <1>8, PeakTyped, ZenonT(30) DEF TypeOK, RolloutInv
<1> QED
  BY <1>7, <1>10, <1>11, <1>12, NothingOpened DEF RolloutInv

\* An event takes an instance no further than the furthest step, with a new clock.
LEMMA ApplyStepKeeps ==
    ASSUME RolloutInv, NEW i \in Instances, ApplyStep(i)
    PROVE  RolloutInv' /\ Baked
<1> DEFINE ev == Head(inbox[i])
<1>1. inbox[i] \in Seq(Events) /\ inbox[i] # << >>
  BY DEF ApplyStep, RolloutInv, TypeOK
<1>2. ev \in Events /\ Allowed(ev)
  <2>1. ev = inbox[i][1] /\ 1 \in 1 .. Len(inbox[i])
    BY <1>1
  <2> QED
    BY <1>1, <2>1, ItemTyped DEF RolloutInv, Known
<1>3. ev.step \in 0 .. Len(Steps) - 1 /\ ev.state \in {"running", "completed", "failed"}
  BY <1>2 DEF Events
<1>4. /\ unsent' = unsent /\ leaders' = leaders /\ spent' = spent /\ Watch
      /\ inbox' = [inbox EXCEPT ![i] = Tail(inbox[i])]
  BY DEF ApplyStep
<1>5. Tail(inbox[i]) \in Seq(Events)
      /\ \A n \in 1 .. Len(Tail(inbox[i])) :
            n + 1 \in 1 .. Len(inbox[i]) /\ Tail(inbox[i])[n] = inbox[i][n + 1]
  BY <1>1
<1>6. inbox' \in [Instances -> Seq(Events)]
  BY <1>4, <1>5 DEF RolloutInv, TypeOK
<1>7. ASSUME Grown, NEW j \in Instances
      PROVE (\A n \in 1 .. Len(inbox[j]) : Allowed(inbox[j][n]))'
  <2>1. inbox'[j] = IF j = i THEN Tail(inbox[i]) ELSE inbox[j]
    BY <1>4 DEF RolloutInv, TypeOK
  <2>2. \A n \in 1 .. Len(inbox'[j]) : \E m \in 1 .. Len(inbox[j]) : inbox'[j][n] = inbox[j][m]
    BY <1>5, <2>1
  <2> QED
    BY <1>7, <2>2, MailKept
<1>8. CASE ev.state = "running"
  <2>1. EnterStep(i, ev.step)
    BY <1>8 DEF ApplyStep
  <2>2. ev.step < peak
    BY <1>2, <1>8 DEF Allowed
  <2> HIDE DEF ev
  <2>3. /\ \A j \in Instances : Reach(j)' \in 0 .. peak
        /\ Grown /\ ev.step < peak'
    BY <1>3, <1>4, <2>1, <2>2, EnteringReached
  <2>4. TypeOK'
    BY <1>3, <1>4, <1>6, <2>1, <2>3, Entering, PeakTyped, ZenonT(30) DEF TypeOK, RolloutInv
  <2>5. \A j \in Instances : Known(j)'
    BY <1>3, <1>7, <2>1, <2>3, EnteringKnown
  <2> QED
    BY <2>3, <2>4, <2>5, NothingOpened DEF RolloutInv
<1>9. CASE ev.state \in {"completed", "failed"}
  <2>1. /\ state' = [state EXCEPT ![i] = ev.state]
        /\ step' = [step EXCEPT ![i] = ev.step]
        /\ weight' = [weight EXCEPT ![i] = EndWeight(ev.state)]
        /\ age' = age /\ window' = window
    BY <1>9 DEF ApplyStep
  <2>2. ev.state = "completed" => peak = Len(Steps) + 1
    BY <1>2 DEF Allowed
  <2> HIDE DEF ev
  <2>3. /\ state' \in [Instances -> {"idle", "running", "completed", "failed"}]
        /\ state'[i] = ev.state /\ \A j \in Instances \ {i} : state'[j] = state[j]
    BY <1>3, <2>1 DEF RolloutInv, TypeOK
  <2>4. /\ step' \in [Instances -> 0 .. Len(Steps)]
        /\ \A j \in Instances \ {i} : step'[j] = step[j]
    BY <1>3, <2>1, PeakBounds DEF RolloutInv, TypeOK
  <2>5. /\ EndWeight(ev.state) \in 0 .. 100
        /\ ev.state = "failed" => EndWeight(ev.state) = 0
        /\ ev.state = "completed" => EndWeight(ev.state) = Steps[Len(Steps)]
    <3>1. Len(Steps) - 1 \in 0 .. Len(Steps) - 1 /\ Len(Steps) - 1 + 1 = Len(Steps)
      BY PeakBounds
    <3>2. Steps[Len(Steps)] \in 0 .. 100
      BY <3>1, StepWeight, ZenonT(30)
    <3> QED
      BY <3>2 DEF EndWeight
  <2>6. /\ weight' \in [Instances -> 0 .. 100]
        /\ weight'[i] = EndWeight(ev.state)
        /\ \A j \in Instances \ {i} : weight'[j] = weight[j]
    BY <2>1, <2>5 DEF RolloutInv, TypeOK
  <2>7. Reach(i)' \in 0 .. peak /\ \A j \in Instances \ {i} : Reach(j)' = Reach(j)
    BY <1>9, <2>2, <2>3, <2>4, PeakBounds DEF Reach
  <2>8. \A j \in Instances : Reach(j)' \in 0 .. peak
    BY <2>7, ReachIsKnown
  <2>9. Grown /\ peak' = peak
    BY <1>4, <2>8, Quiet
  <2>10. Known(i)'
    BY <1>7, <1>9, <2>2, <2>3, <2>5, <2>6, <2>9 DEF Known
  <2>11. ASSUME NEW j \in Instances \ {i} PROVE Known(j)'
    BY <1>7, <2>1, <2>3, <2>4, <2>6, <2>9, Bystander
  <2>12. TypeOK'
    BY <1>4, <1>6, <2>1, <2>3, <2>4, <2>6, <2>9, PeakTyped, ZenonT(30) DEF TypeOK, RolloutInv
  <2> QED
    BY <2>8, <2>10, <2>11, <2>12, NothingOpened DEF RolloutInv
<1> QED
  BY <1>3, <1>8, <1>9

\* The furthest step follows an instance that goes one step beyond it.
LEMMA Raising ==
    ASSUME RolloutInv, Watch, NEW i \in Instances,
           Reach(i)' \in 0 .. Len(Steps) + 1, Reach(i)' <= peak + 1,
           \A j \in Instances \ {i} : Reach(j)' \in 0 .. peak
    PROVE  Grown /\ Reach(i)' <= peak'
<1>1. CASE Reach(i)' > peak
  <2>1. peak' = peak + 1 /\ peakAge' = 0
    BY <1>1 DEF Watch
  <2> QED
    BY <1>1, <2>1, PeakBounds, IntervalAssumption DEF Grown
<1>2. CASE ~ (Reach(i)' > peak)
  <2>1. \A j \in Instances : Reach(j)' \in 0 .. peak
    BY <1>2, PeakBounds
  <2> QED
    BY <2>1, Quiet
<1> QED
  BY <1>1, <1>2

\* A promotion is the one step that can go beyond the furthest step: only an instance
\* that is in it does, and its clock is no older than the step.
LEMMA TickPromoteKeeps ==
    ASSUME RolloutInv, NEW i \in Instances, TickPromote(i)
    PROVE  RolloutInv' /\ Baked
<1> DEFINE k == step[i]
<1>1. /\ k \in 0 .. Len(Steps) - 1 /\ k < peak /\ weight[i] = Steps[k + 1]
      /\ k + 1 = peak => age[i] <= peakAge
  BY PeakBounds DEF TickPromote, RolloutInv, TypeOK, Known
<1>2. age[i] >= Interval /\ age[i] \in Nat /\ peakAge \in Nat /\ Interval \in Nat
  BY PeakBounds, IntervalAssumption DEF TickPromote, RolloutInv, TypeOK
<1>3. unsent' = unsent /\ leaders' = leaders /\ Watch
  BY DEF TickPromote
<1>4. ASSUME Reach(i)' = k + 2, \A j \in Instances \ {i} : Reach(j)' = Reach(j)
      PROVE  Grown /\ Reach(i)' <= peak' /\ Baked
  <2>1. \A j \in Instances \ {i} : Reach(j)' \in 0 .. peak
    BY <1>4, ReachIsKnown
  <2>2. Grown /\ Reach(i)' <= peak'
    BY <1>1, <1>3, <1>4, <2>1, PeakBounds, Raising
  <2>3. Reach(i)' > peak => Reach(i)' = peak + 1 /\ peakAge >= Interval
    BY <1>1, <1>2, <1>4, PeakBounds
  <2> QED
    BY <2>1, <2>2, <2>3, PeakBounds DEF Baked
<1>5. CASE k + 1 < Len(Steps)
  <2> DEFINE ev == Event("running", k + 1)
  <2>1. k + 1 \in 0 .. Len(Steps) - 1 /\ EnterStep(i, k + 1) /\ Publish(i, ev)
    BY <1>1, <1>5, PeakBounds DEF TickPromote
  <2>2. ev \in Events /\ ev.state = "running" /\ ev.step = k + 1
    BY <2>1 DEF Event, Events
  <2> HIDE DEF ev
  <2>3. Reach(i)' = k + 2 /\ \A j \in Instances \ {i} : Reach(j)' = Reach(j)
    <3>1. Reach(i)' = (k + 1) + 1 /\ \A j \in Instances \ {i} : Reach(j)' = Reach(j)
      BY <2>1, Entering
    <3> QED
      BY <1>1, <3>1
  <2>4. Grown /\ Reach(i)' <= peak' /\ Baked
    BY <1>4, <2>3
  <2>5. k + 1 < peak'
    BY <1>1, <2>3, <2>4, PeakBounds DEF Grown
  <2>6. /\ inbox' \in [Instances -> Seq(Events)]
        /\ spent' \in [DOMAIN FaultBudget -> Nat]
        /\ \A j \in Instances : inbox'[j] \in {inbox[j], Append(inbox[j], ev)}
    BY <2>1, <2>2, Publishing
  <2>7. ASSUME NEW j \in Instances PROVE (\A n \in 1 .. Len(inbox[j]) : Allowed(inbox[j][n]))'
    BY <2>2, <2>4, <2>5, <2>6, MailIsAllowed, ZenonT(30)
  <2>8. \A j \in Instances : Known(j)'
    BY <2>1, <2>4, <2>5, <2>7, EnteringKnown
  <2>9. TypeOK'
    BY <1>3, <2>1, <2>4, <2>6, Entering, PeakTyped, ZenonT(30) DEF TypeOK, RolloutInv
  <2> QED
    BY <2>4, <2>8, <2>9 DEF RolloutInv
<1>6. CASE ~ (k + 1 < Len(Steps))
  <2> DEFINE ev == Event("completed", LastStep)
  <2>1. /\ state' = [state EXCEPT ![i] = "completed"]
        /\ step' = [step EXCEPT ![i] = k + 1]
        /\ age' = age /\ weight' = weight /\ window' = window /\ Publish(i, ev)
    BY <1>6 DEF TickPromote
  <2>2. ev \in Events /\ ev.state = "completed"
    BY PeakBounds DEF Event, Events, LastStep
  <2> HIDE DEF ev
  <2>3. k + 1 = Len(Steps) /\ weight[i] = Steps[Len(Steps)]
    BY <1>1, <1>6, PeakBounds
  <2>4. /\ state' \in [Instances -> {"idle", "running", "completed", "failed"}]
        /\ state'[i] = "completed" /\ \A j \in Instances \ {i} : state'[j] = state[j]
    BY <2>1 DEF RolloutInv, TypeOK
  <2>5. /\ step' \in [Instances -> 0 .. Len(Steps)]
        /\ \A j \in Instances \ {i} : step'[j] = step[j]
    <3>1. k + 1 \in 0 .. Len(Steps)
      BY <2>3, PeakBounds
    <3> QED
      BY <2>1, <3>1, StepTyped, ChangedAt
  <2>6. Reach(i)' = Len(Steps) + 1 /\ \A j \in Instances \ {i} : Reach(j)' = Reach(j)
    BY <2>4, <2>5 DEF Reach
  <2>7. Reach(i)' = k + 2
    BY <1>1, <2>3, <2>6
  <2>8. Grown /\ Baked /\ peak' = Len(Steps) + 1
    BY <1>4, <2>6, <2>7, PeakBounds DEF Grown
  <2>9. /\ inbox' \in [Instances -> Seq(Events)]
        /\ spent' \in [DOMAIN FaultBudget -> Nat]
        /\ \A j \in Instances : inbox'[j] \in {inbox[j], Append(inbox[j], ev)}
    BY <2>1, <2>2, Publishing
  <2>10. ASSUME NEW j \in Instances PROVE (\A n \in 1 .. Len(inbox[j]) : Allowed(inbox[j][n]))'
    BY <2>2, <2>8, <2>9, MailIsAllowed
  <2>11. Known(i)'
    BY <2>1, <2>3, <2>4, <2>8, <2>10 DEF Known
  <2>12. ASSUME NEW j \in Instances \ {i} PROVE Known(j)'
    BY <2>1, <2>4, <2>5, <2>8, <2>10, Bystander
  <2>13. TypeOK'
    BY <1>3, <2>1, <2>4, <2>5, <2>8, <2>9, PeakTyped, ZenonT(30) DEF TypeOK, RolloutInv
  <2> QED
    BY <2>8, <2>11, <2>12, <2>13 DEF RolloutInv
<1> QED
  BY <1>5, <1>6

\* Time passes for every clock alike.
LEMMA ElapseKeeps ==
    ASSUME RolloutInv, TimePasses
    PROVE  RolloutInv' /\ Baked
<1>1. /\ state' = state /\ step' = step /\ weight' = weight /\ window' = window
      /\ unsent' = unsent /\ inbox' = inbox /\ leaders' = leaders /\ spent' = spent
      /\ peak' = peak /\ peakAge' = Count(peakAge)
      /\ age' = [j \in Instances |-> Count(age[j])]
  BY DEF TimePasses
<1>2. \A t \in 0 .. Interval : Count(t) \in 0 .. Interval
  BY IntervalAssumption DEF Count
<1>3. \A t, u \in 0 .. Interval : t <= u => Count(t) <= Count(u)
  BY IntervalAssumption DEF Count
<1>4. age \in [Instances -> 0 .. Interval] /\ peakAge \in 0 .. Interval
  BY DEF RolloutInv, TypeOK
<1>5. age' \in [Instances -> 0 .. Interval] /\ peakAge' \in 0 .. Interval
  BY <1>1, <1>2, <1>4
<1>6. TypeOK'
  BY <1>1, <1>5 DEF TypeOK, RolloutInv
<1>7. ASSUME NEW j \in Instances PROVE Known(j)'
  <2>1. age[j] <= peakAge => age'[j] <= peakAge'
    BY <1>1, <1>3, <1>4
  <2>2. (\A n \in 1 .. Len(inbox[j]) : Allowed(inbox[j][n]))'
    BY <1>1 DEF RolloutInv, Known, Allowed
  <2> QED
    BY <1>1, <2>1, <2>2 DEF RolloutInv, Known
<1>8. \A j \in Instances : Reach(j)' \in 0 .. peak
  <2>1. \A j \in Instances : Reach(j)' = Reach(j)
    BY <1>1 DEF Reach
  <2> QED
    BY <2>1, ReachIsKnown
<1> QED
  BY <1>6, <1>7, <1>8, NothingOpened DEF RolloutInv

-----------------------------------------------------------------------------
\* Every instance starts idle or in the first step.
LEMMA InitEstablishes ==
    ASSUME RolloutInit
    PROVE  RolloutInv
<1>1. Len(Steps) \in Nat /\ Len(Steps) >= 1 /\ 0 \in 0 .. Len(Steps) - 1
  BY StepsAssumption
<1>2. Steps[0 + 1] \in 0 .. 100
  BY <1>1, StepWeight, ZenonT(30)
<1>3. Steps[1] \in 0 .. 100
  BY <1>2
<1>4. TypeOK
  BY <1>1, <1>3, IntervalAssumption, BaselineAssumption, BudgetAssumption
  DEF RolloutInit, TypeOK, EmptyWindow
<1>5. ASSUME NEW i \in Instances PROVE Known(i)
  BY <1>1 DEF RolloutInit, Known
<1> QED
  BY <1>4, <1>5 DEF RolloutInv

\* Every step preserves the invariant and opens the canary only as BakeTime allows.
LEMMA NextKeeps ==
    ASSUME RolloutInv, [RolloutNext]_rolloutVars
    PROVE  RolloutInv' /\ (RolloutNext => Baked)
<1>1. CASE RolloutNext
  BY <1>1, RestartKeeps, ResetKeeps, BroadcastStartKeeps, TickRollbackKeeps,
     TickPromoteKeeps, ApplyStepKeeps, ObserveKeeps, LeadMovesKeeps, ElapseKeeps
  DEF RolloutNext, Work
<1>2. CASE UNCHANGED rolloutVars
  <2>1. RolloutInv'
    BY <1>2 DEF rolloutVars, local, RolloutInv, TypeOK, Known, Allowed
  <2>2. Baked
    <3>1. \A j \in Instances : Reach(j)' = Reach(j)
      BY <1>2 DEF rolloutVars, local, Reach
    <3> QED
      BY <3>1, ReachIsKnown, NothingOpened
  <2> QED
    BY <2>1, <2>2
<1> QED
  BY <1>1, <1>2

\* The inductive invariant of the rollout: no instance and no event under way is ahead
\* of the furthest step, and no clock in that step is ahead of the step's
\* (tickOne, ApplyStep, start).
THEOREM RolloutInvariance == RolloutSpec => []RolloutInv
<1>1. RolloutInit => RolloutInv
  BY InitEstablishes
<1>2. RolloutInv /\ [RolloutNext]_rolloutVars => RolloutInv'
  BY NextKeeps
<1> QED
  BY <1>1, <1>2, PTL DEF RolloutSpec

\* On every instance the canary's weight is the one its state stands for, whatever
\* broadcasts, resets, restarts and ticks came before (tickOne, ApplyStep, start).
THEOREM WeightsFollow == RolloutSpec => []WeightFollowsState
<1>1. RolloutInv => WeightFollowsState
  BY ZenonT(30) DEF RolloutInv, Known, WeightFollowsState
<1> QED
  BY <1>1, RolloutInvariance, PTL

\* No step of the rollout is skipped or cut short on the cluster, although every
\* instance has a clock of its own, the lead moves and broadcasts are lost (tickOne).
THEOREM StepsAreBaked == RolloutSpec => BakeTime
<1>1. RolloutInv /\ [RolloutNext]_rolloutVars =>
        [\A i \in Instances : Reach(i)' > peak => Reach(i)' = peak + 1 /\ peakAge >= Interval]_rolloutVars
  BY NextKeeps DEF Baked
<1> QED
  BY <1>1, RolloutInvariance, PTL DEF RolloutSpec, BakeTime
=============================================================================
