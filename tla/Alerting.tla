------------------------------ MODULE Alerting ------------------------------
(***************************************************************************)
(* The alert rules and the webhook notifier on every gateway of a cluster  *)
(* (internal/alerting/rules.go and notifier.go): one rule, one instance it *)
(* is evaluated for, one webhook.  Only the leader evaluates (SetGate).    *)
(*                                                                         *)
(* Times are ages in units of Elapse, each capped where the code only asks *)
(* whether it has been reached: `For' of the rule since it became active,  *)
(* `Repeat' since the last notification, `Window' since the last firing    *)
(* event that passed the dedupe.                                           *)
(***************************************************************************)
EXTENDS Naturals, Sequences, FiniteSets

CONSTANTS
    Gateways,
    For, Repeat,    \* of the rule; Repeat = 0 stands for no repetition
    Window,         \* dedupeWindow, 0 if it is off
    QueueSize,      \* targetQueueSize
    Retries,        \* of the webhook
    Budget          \* how often each thing may happen that nothing makes happen

ASSUME AlertAssumption == {For, Repeat, Window, QueueSize, Retries} \subseteq Nat

VARIABLES
    leader,         \* the gateway for which IsLeader is true
    hot,            \* whether the expression holds
    present,        \* whether the instance is in the registry
    alert,          \* gateway |-> its alertState: what, age, noted
    gauge,          \* gateway |-> what onFiring was last called with
    dedupe,         \* gateway |-> age of its dedupe entry, Window if there is none
    queue,          \* gateway |-> the webhook's queue; its head is in delivery
    tries,          \* gateway |-> failed attempts on the head
    told,           \* the last event the webhook's endpoint accepted
    used,           \* how much of the budget is spent
    lost            \* history: an event was dropped or given up, or a leader that
                    \* was firing gave up its state

alertVars == <<leader, hot, present, alert, gauge, dedupe, queue, tries, told, used, lost>>

None == [what |-> "none", age |-> 0, noted |-> 0]

AlertInit ==
    /\ leader = CHOOSE g \in Gateways : TRUE
    /\ hot = FALSE /\ present = TRUE
    /\ alert = [g \in Gateways |-> None]
    /\ gauge = [g \in Gateways |-> 0]
    /\ dedupe = [g \in Gateways |-> Window]
    /\ queue = [g \in Gateways |-> << >>]
    /\ tries = [g \in Gateways |-> 0]
    /\ told = "resolved"
    /\ used = [k \in DOMAIN Budget |-> 0]
    /\ lost = FALSE

Spend(k) ==
    /\ used[k] < Budget[k]
    /\ used' = [used EXCEPT ![k] = @ + 1]

Room(g) == Len(queue[g]) < QueueSize

Dedupe(g, status, skip) ==
    CASE status = "resolved" -> Window [] skip -> dedupe[g] [] OTHER -> 0

\* Send, with dedupeSkip: a firing event within the window of the last one is skipped, a
\* resolved event ends the window; a full queue drops the event.
Send(g, status) ==
    LET skip == Window > 0 /\ status = "firing" /\ dedupe[g] < Window
    IN  /\ dedupe' = [dedupe EXCEPT ![g] = Dedupe(g, status, skip)]
        /\ queue' = [queue EXCEPT ![g] = IF ~ skip /\ Room(g) THEN Append(@, status) ELSE @]
        /\ lost' = (lost \/ (~ skip /\ ~ Room(g)))

Silent == UNCHANGED <<dedupe, queue, lost>>

\* Mutant of Resolve: nobody is told that the alert is over.
ResolveSilently(g) == Silent

Resolve(g) == IF alert[g].what = "firing" THEN Send(g, "resolved") ELSE Silent

\* evalInstance without an error.
EvalInstance(g) ==
    LET st    == alert[g]
        begun == IF st = None THEN [None EXCEPT !.what = "pending"] ELSE st
        Set(v) == alert' = [alert EXCEPT ![g] = v]
        fires == [begun EXCEPT !.what = "firing", !.noted = 0]
    IN  \/ /\ ~ hot
           /\ Set(None)
           /\ Resolve(g)
        \/ /\ hot /\ begun.what = "pending" /\ begun.age >= For
           /\ Set(fires) /\ Send(g, "firing")
        \/ /\ hot /\ begun.what = "pending" /\ begun.age < For
           /\ Set(begun) /\ Silent
        \/ /\ hot /\ begun.what = "firing" /\ Repeat > 0 /\ begun.noted >= Repeat
           /\ Set(fires) /\ Send(g, "firing")
        \/ /\ hot /\ begun.what = "firing" /\ (Repeat = 0 \/ begun.noted < Repeat)
           /\ Set(begun) /\ Silent

\* A turn of Run on the leader: Evaluate.  An instance that is not in the registry is
\* not evaluated and not counted; an expression that fails changes nothing.
Evaluate(g) ==
    /\ g = leader
    /\ \/ present /\ EvalInstance(g) /\ UNCHANGED used
       \/ present /\ Spend("error") /\ Silent /\ UNCHANGED alert
       \/ ~ present /\ Silent /\ UNCHANGED <<alert, used>>
    /\ gauge' = [gauge EXCEPT ![g] = IF present /\ alert'[g].what = "firing" THEN 1 ELSE 0]
    /\ UNCHANGED <<leader, hot, present, tries, told>>

\* Mutant of GaugeAfterReset: the gauge is frozen.
GaugeFrozen(g) == gauge[g]

GaugeAfterReset(g) == IF alert[g] = None THEN gauge[g] ELSE 0

\* A turn of Run on any other gateway: resetStates.
ResetStates(g) ==
    /\ g # leader
    /\ alert' = [alert EXCEPT ![g] = None]
    /\ gauge' = [gauge EXCEPT ![g] = GaugeAfterReset(g)]
    /\ lost' = (lost \/ alert[g].what = "firing")
    /\ UNCHANGED <<leader, hot, present, dedupe, queue, tries, told, used>>

\* deliver: the endpoint accepts the event, or the attempt fails and is repeated
\* until the retries are used up.
Deliver(g) ==
    /\ queue[g] # << >>
    /\ told' = Head(queue[g])
    /\ queue' = [queue EXCEPT ![g] = Tail(@)]
    /\ tries' = [tries EXCEPT ![g] = 0]
    /\ UNCHANGED <<leader, hot, present, alert, gauge, dedupe, used, lost>>

DeliverFails(g) ==
    LET over == tries[g] >= Retries
    IN  /\ queue[g] # << >>
        /\ Spend("fail")
        /\ queue' = [queue EXCEPT ![g] = IF over THEN Tail(@) ELSE @]
        /\ tries' = [tries EXCEPT ![g] = IF over THEN 0 ELSE @ + 1]
        /\ lost' = (lost \/ over)
        /\ UNCHANGED <<leader, hot, present, alert, gauge, dedupe, told>>

-----------------------------------------------------------------------------
(* The world. *)

Turn ==
    /\ Spend("turn")
    /\ hot' = ~ hot
    /\ UNCHANGED <<leader, present, alert, gauge, dedupe, queue, tries, told, lost>>

LeadMoves(g) ==
    /\ g # leader
    /\ Spend("move")
    /\ leader' = g
    /\ UNCHANGED <<hot, present, alert, gauge, dedupe, queue, tries, told, lost>>

Registers ==
    /\ Spend("gone")
    /\ present' = ~ present
    /\ UNCHANGED <<leader, hot, alert, gauge, dedupe, queue, tries, told, lost>>

Later(n, cap) == IF n < cap THEN n + 1 ELSE n

Elapse ==
    /\ alert' = [g \in Gateways |->
          IF alert[g] = None THEN None
          ELSE [alert[g] EXCEPT !.age = Later(@, For), !.noted = Later(@, Repeat)]]
    /\ dedupe' = [g \in Gateways |-> Later(dedupe[g], Window)]
    /\ UNCHANGED <<leader, hot, present, gauge, queue, tries, told, used, lost>>

AlertNext ==
    \/ \E g \in Gateways :
         Evaluate(g) \/ ResetStates(g) \/ Deliver(g) \/ DeliverFails(g) \/ LeadMoves(g)
    \/ Turn \/ Registers \/ Elapse

-----------------------------------------------------------------------------
(* Properties. *)

Announced ==
    \A g \in Gateways :
        (alert[g].what = "firing") # (alert'[g].what = "firing") =>
            \/ lost'
            \/ queue'[g] = Append(queue[g], IF alert'[g].what = "firing" THEN "firing" ELSE "resolved")

\* "The next firing counts as a new event" (dedupeSkip): the start and the end of every
\* firing are queued for the webhook, or are known to be lost.  The dedupe window only
\* ever holds back repetitions, however the alert comes and goes within it.
IncidentsAnnounced == [][Announced]_alertVars

\* The newest event in the queue of a gateway is what its state machine says: a worker
\* that empties the queue leaves the endpoint with the state, not with an earlier one.
NewestIsTrue ==
    \A g \in Gateways :
        ~ lost /\ queue[g] # << >> =>
            (queue[g][Len(queue[g])] = "firing" <=> alert[g].what = "firing")

\* The endpoint learns the truth: as long as no event is dropped or given up and no
\* firing leader is deposed, what it was told last comes to be whether the alert
\* is on, whatever errors, repeated and skipped events and failed attempts there were.
EndpointLearns == <>[](lost \/ (present => (hot <=> told = "firing")))

\* "A former leader that kept its firing state would be frozen for ever" (Run): the
\* state and the gauge of a gateway that lost the lead are reset.
DeposedForgets == <>[](\A g \in Gateways \ {leader} : alert[g] = None /\ gauge[g] = 0)

\* "The resolved notification is up to the state machine of the new leader" (Run): once the
\* alert is over, the endpoint is told so.
NewLeaderResolves == <>[](present /\ ~ hot => told # "firing")
=============================================================================
