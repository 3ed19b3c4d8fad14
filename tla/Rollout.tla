------------------------------ MODULE Rollout -------------------------------
(***************************************************************************)
(* The canary rollout of one model across the instances of a cluster       *)
(* (internal/rollout, internal/cluster/rollout.go): an instance that leads  *)
(* judges the canary by its own observation window, moves to the next step *)
(* or rolls back, and broadcasts the step; the others rebuild state and    *)
(* weights from the broadcast.  Broadcasts may be lost, instances restart, *)
(* the lead moves (two instances may hold it for a while, see LeaderLease) *)
(* and operators reset the rollout on any instance.                        *)
(*                                                                         *)
(* A weight is the canary's share in percent; the other pools divide the   *)
(* rest by their configured proportions.  A window holds the results of    *)
(* the canary in the current step, which is what the two expressions of    *)
(* the configuration judge.  Time since a step began is counted up to      *)
(* Interval, beyond which the code does not tell values apart.             *)
(***************************************************************************)
EXTENDS Naturals, Sequences

CONSTANTS
    Instances,      \* gateway instances
    Steps,          \* cfg.Steps: the canary's weight in each step
    Interval,       \* cfg.Interval, in clock ticks
    Baseline,       \* the canary's weight in the configuration file
    AutoStart,      \* cfg.AutoStart
    Promote(_),     \* promote_expr and rollback_expr, as predicates of a window
    Rollback(_),
    MaxResults,     \* bound on the results a window counts
    FaultBudget,    \* bounds on losses, moves of the lead, restarts and resets
    MaxFaults       \* bound on all of these together

ASSUME StepsAssumption == Steps \in Seq(0 .. 100) /\ Len(Steps) >= 1
ASSUME IntervalAssumption == Interval \in Nat \ {0}
ASSUME BaselineAssumption == Baseline \in 0 .. 100
ASSUME AutoStartAssumption == AutoStart \in BOOLEAN
ASSUME ResultsAssumption == MaxResults \in Nat
ASSUME BudgetAssumption == FaultBudget \in [{"loss", "move", "restart", "reset"} -> Nat]
ASSUME FaultsAssumption == MaxFaults \in Nat

VARIABLES
    state,          \* Rollout.state of every instance
    step,           \* Rollout.stepIdx
    age,            \* time since stepStart
    weight,         \* the weight of the canary's Split
    window,         \* canaryWin: results and errors of the step
    unsent,         \* calls of start between unlocking and their broadcast
    inbox,          \* events on their way to the subscriber of an instance
    leaders,        \* the instances whose IsLeader is true
    spent,          \* how much of FaultBudget is spent
    peak, peakAge   \* history: the furthest step any instance reached (the first counts
                    \* as reached), and since when

local == <<state, step, age, weight, window>>
rolloutVars == <<local, unsent, inbox, leaders, spent, peak, peakAge>>

\* How far an instance has opened the canary: 0, the number of its step, or past all.
Reach(i) ==
    CASE state[i] = "running"   -> step[i] + 1
      [] state[i] = "completed" -> Len(Steps) + 1
      [] OTHER                  -> 0

\* The history variables, in every step of the program.
Watch ==
    LET raised == \E i \in Instances : Reach(i)' > peak
    IN  /\ peak' = IF raised THEN peak + 1 ELSE peak
        /\ peakAge' = IF raised THEN 0 ELSE peakAge

EmptyWindow == [results |-> 0, errors |-> 0]

UseBudget(fault) ==
    /\ spent[fault] < FaultBudget[fault]
    /\ spent["loss"] + spent["move"] + spent["restart"] + spent["reset"] < MaxFaults
    /\ spent' = [spent EXCEPT ![fault] = @ + 1]

-----------------------------------------------------------------------------
\* Mutant of StartClock: a new step inherits the clock of the last one.
KeepClock(i) == UNCHANGED age

StartClock(i) == age' = [age EXCEPT ![i] = 0]

\* Instance i enters step k: a fresh clock, fresh windows, the weights of k.
EnterStep(i, k) ==
    /\ state' = [state EXCEPT ![i] = "running"]
    /\ step' = [step EXCEPT ![i] = k]
    /\ StartClock(i)
    /\ window' = [window EXCEPT ![i] = EmptyWindow]
    /\ weight' = [weight EXCEPT ![i] = Steps[k + 1]]

\* Mutant of Recipients: only a leader broadcasts.
RecipientsOfLeader(i) == IF i \in leaders THEN Instances \ {i} ELSE {}

Recipients(i) == Instances \ {i}

\* PublishRolloutStep: the event goes to the subscribers of the other instances
\* (the own one ignores it).  A subscriber that is not connected misses it, and
\* a failed Publish reaches nobody; both are losses.
Publish(i, event) ==
    \E missed \in SUBSET Recipients(i) :
        /\ IF missed = {} THEN UNCHANGED spent ELSE UseBudget("loss")
        /\ inbox' = [j \in Instances |->
               IF j \in Recipients(i) \ missed THEN Append(inbox[j], event) ELSE inbox[j]]

Event(s, k) == [state |-> s, step |-> k]

LastStep == Len(Steps) - 1

\* Mutant of EndWeight: a follower does not close the canary.
EndWeightOpen(s) == Steps[Len(Steps)]

EndWeight(s) == IF s = "failed" THEN 0 ELSE Steps[Len(Steps)]

-----------------------------------------------------------------------------
\* New: instance i comes up (again) with the weights of the configuration file,
\* and starts the rollout at once if it is auto_start; SetCluster comes later, so
\* that nothing is broadcast.
Restart(i) ==
    /\ UseBudget("restart")
    /\ IF AutoStart
       THEN EnterStep(i, 0)
       ELSE /\ state' = [state EXCEPT ![i] = "idle"]
            /\ step' = [step EXCEPT ![i] = 0]
            /\ age' = [age EXCEPT ![i] = 0]
            /\ window' = [window EXCEPT ![i] = EmptyWindow]
            /\ weight' = [weight EXCEPT ![i] = Baseline]
    /\ unsent' = [unsent EXCEPT ![i] = 0]
    /\ inbox' = [inbox EXCEPT ![i] = << >>]
    /\ leaders' = leaders \ {i}
    /\ Watch

\* Reset, an operator's request to any instance in any state: start up to its
\* unlock.  The broadcast follows outside the lock.
Reset(i) ==
    /\ UseBudget("reset")
    /\ EnterStep(i, 0)
    /\ unsent' = [unsent EXCEPT ![i] = @ + 1]
    /\ UNCHANGED <<inbox, leaders>>
    /\ Watch

BroadcastStart(i) ==
    /\ unsent[i] > 0
    /\ unsent' = [unsent EXCEPT ![i] = @ - 1]
    /\ Publish(i, Event("running", 0))
    /\ UNCHANGED <<local, leaders>>
    /\ Watch

\* tickOne finds the rollback expression true: at once, without waiting for the
\* interval.  The broadcast is inside the lock.
TickRollback(i) ==
    /\ i \in leaders /\ state[i] = "running"
    /\ Rollback(window[i])
    /\ state' = [state EXCEPT ![i] = "failed"]
    /\ weight' = [weight EXCEPT ![i] = 0]
    /\ Publish(i, Event("failed", step[i]))
    /\ UNCHANGED <<step, age, window, unsent, leaders>>
    /\ Watch

\* tickOne after the interval, with the promote expression true: the next step,
\* or the end of the rollout, which leaves stepIdx behind the last step.
TickPromote(i) ==
    /\ i \in leaders /\ state[i] = "running"
    /\ ~ Rollback(window[i])
    /\ age[i] >= Interval
    /\ Promote(window[i])
    /\ IF step[i] + 1 < Len(Steps)
       THEN /\ EnterStep(i, step[i] + 1)
            /\ Publish(i, Event("running", step[i] + 1))
       ELSE /\ state' = [state EXCEPT ![i] = "completed"]
            /\ step' = [step EXCEPT ![i] = @ + 1]
            /\ Publish(i, Event("completed", LastStep))
            /\ UNCHANGED <<age, weight, window>>
    /\ UNCHANGED <<unsent, leaders>>
    /\ Watch

\* RunRolloutSubscriber and ApplyStep: instance i rebuilds its state from the
\* next event, whoever sent it and whatever i has decided meanwhile.  The time of
\* the step runs from the reception.
ApplyStep(i) ==
    /\ inbox[i] # << >>
    /\ inbox' = [inbox EXCEPT ![i] = Tail(@)]
    /\ LET ev == Head(inbox[i]) IN
          \/ /\ ev.state = "running"
             /\ EnterStep(i, ev.step)
          \/ /\ ev.state \in {"completed", "failed"}
             /\ state' = [state EXCEPT ![i] = ev.state]
             /\ step' = [step EXCEPT ![i] = ev.step]
             /\ weight' = [weight EXCEPT ![i] = EndWeight(ev.state)]
             /\ UNCHANGED <<age, window>>
    /\ UNCHANGED <<unsent, leaders, spent>>
    /\ Watch

\* ObserveResult: a request to the canary ends on instance i; only a status of 500
\* and more counts as an error.  Requests of an earlier step may end in this one.
Observe(i, isError) ==
    /\ window[i].results < MaxResults
    /\ window' = [window EXCEPT ![i] = [results |-> @.results + 1,
                   errors |-> IF isError THEN @.errors + 1 ELSE @.errors]]
    /\ UNCHANGED <<state, step, age, weight, unsent, inbox, leaders, spent>>
    /\ Watch

\* The lease: any instance may gain or lose the lead.
LeadershipMoves ==
    /\ UseBudget("move")
    /\ \E now \in SUBSET Instances : leaders' = now
    /\ UNCHANGED <<local, unsent, inbox>>
    /\ Watch

Count(t) == IF t < Interval THEN t + 1 ELSE t

TimePasses ==
    /\ age' = [i \in Instances |-> Count(age[i])]
    /\ peakAge' = Count(peakAge)
    /\ UNCHANGED <<state, step, weight, window, unsent, inbox, leaders, spent, peak>>

RolloutInit ==
    /\ state = [i \in Instances |-> IF AutoStart THEN "running" ELSE "idle"]
    /\ step = [i \in Instances |-> 0]
    /\ age = [i \in Instances |-> 0]
    /\ weight = [i \in Instances |-> IF AutoStart THEN Steps[1] ELSE Baseline]
    /\ window = [i \in Instances |-> EmptyWindow]
    /\ unsent = [i \in Instances |-> 0]
    /\ inbox = [i \in Instances |-> << >>]
    /\ \E i \in Instances : leaders = {i}
    /\ spent = [f \in DOMAIN FaultBudget |-> 0]
    /\ peak = 1 /\ peakAge = 0

Work(i) ==
    \/ BroadcastStart(i) \/ TickRollback(i) \/ TickPromote(i) \/ ApplyStep(i)

RolloutNext ==
    \/ \E i \in Instances :
          \/ Work(i) \/ Reset(i) \/ Restart(i)
          \/ \E isError \in BOOLEAN : Observe(i, isError)
    \/ LeadershipMoves
    \/ TimePasses

RolloutSpec == RolloutInit /\ [][RolloutNext]_rolloutVars

\* The one-second ticker, the subscriber and the handler of Reset keep running;
\* no traffic, reset or restart is assumed.
RolloutFairSpec ==
    /\ RolloutSpec
    /\ WF_rolloutVars(TimePasses)
    /\ \A i \in Instances :
          /\ WF_rolloutVars(TickRollback(i) \/ TickPromote(i))
          /\ WF_rolloutVars(ApplyStep(i))
          /\ WF_rolloutVars(BroadcastStart(i))

-----------------------------------------------------------------------------
(* Properties.                                                             *)

Events == [state : {"running", "completed", "failed"}, step : 0 .. Len(Steps) - 1]

\* The variables have the types of the fields they stand for, and an event names a step
\* that exists, which ApplyStep refuses otherwise.
TypeOK ==
    /\ state \in [Instances -> {"idle", "running", "completed", "failed"}]
    /\ step \in [Instances -> 0 .. Len(Steps)]
    /\ age \in [Instances -> 0 .. Interval]
    /\ weight \in [Instances -> 0 .. 100]
    /\ window \in [Instances -> [results : Nat, errors : Nat]]
    /\ unsent \in [Instances -> Nat]
    /\ inbox \in [Instances -> Seq(Events)]
    /\ leaders \subseteq Instances
    /\ spent \in [DOMAIN FaultBudget -> Nat]
    /\ peak \in 1 .. Len(Steps) + 1 /\ peakAge \in 0 .. Interval

\* The weight of the canary is the one its state stands for, on every instance:
\* nothing after a rollback, whatever broadcasts, resets and ticks came before.
WeightFollowsState ==
    \A i \in Instances :
        /\ state[i] = "failed" => weight[i] = 0
        /\ state[i] = "running" => step[i] < Len(Steps) /\ weight[i] = Steps[step[i] + 1]
        /\ state[i] = "completed" => weight[i] = Steps[Len(Steps)]

\* No instance opens the canary further than any has before, or completes the rollout
\* before any has, unless the furthest step so far is Interval old, and then by one
\* step (tickOne, ApplyStep): however the lead moves,
\* broadcasts get lost, and instances restart or are reset, no step of the cluster
\* is skipped or cut short.  It rests on ApplyStep starting the clock again.
BakeTime ==
    [][\A i \in Instances :
          Reach(i)' > peak => Reach(i)' = peak + 1 /\ peakAge >= Interval]_rolloutVars

Agree == \A i, j \in Instances : state[i] = state[j] /\ weight[i] = weight[j]

Faulty == \E kind \in {"loss", "move", "restart"} : spent[kind] > 0

\* A leader has ended the rollout between the unlock and the broadcast of a start.
Overtaken ==
    \E i \in leaders : unsent[i] > 0 /\ state[i] \in {"completed", "failed"}

\* All instances come to the same state and weights, also when the rollout is reset
\* on a follower while the leader moves on and their broadcasts cross: unless a
\* broadcast is lost, an instance restarts, the lead moves, or a broadcast of start
\* is overtaken by the end of the rollout it started.
Converges == <>Faulty \/ <>Overtaken \/ <>[]Agree

\* The claim of cluster/rollout.go:4 that an instance which misses a broadcast is
\* brought to the same state and weights by the next one, so that the instances
\* agree in the end although broadcasts get lost.
ConvergesDespiteLoss == <>[]Agree

=============================================================================
