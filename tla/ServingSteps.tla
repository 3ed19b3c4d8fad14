---------------------------- MODULE ServingSteps ----------------------------
(***************************************************************************)
(* The inductive invariant of serving is types, what the local variables   *)
(* of the goroutines hold, and the two sets of counters.  Here it is shown *)
(* what each group of steps does to the variables it relates, and the part *)
(* of the invariant that follows from this without counting.               *)
(***************************************************************************)
EXTENDS Serving, TLAPS

\* The time the provers have for a leaf, in seconds.
USE SMTT(30), ZenonT(30)

-----------------------------------------------------------------------------
(* The inductive invariant.                                                *)

\* The steps at which a request has a backend in hand.
Chosen == Counted \cup {"acquire", "signal", "broadcast"}

\* What the local variables of a goroutine hold at each of its steps.
Locals ==
    /\ \A r \in Requests :
          /\ pc[r] \in Chosen => cur[r] \in Backends
          /\ pc[r] \in {"deregister", "leave"} /\ result[r] = "pending" => cur[r] \in Backends
          /\ pc[r] \in {"unbind", "bind"} => SessionOf[r] \in Sessions
          /\ pc[r] # "done" => attempt[r] < Attempts
    /\ \A p \in Probes : ppc[p] # "idle" => target[p] \in Backends

\* The requests of model m that its class counts.
InClass(m) == {r \in At(Registered \cup {"leave"}) : ModelOf[r] = m}

\* The counters of the queue agree with the requests in it.
CountersExact ==
    /\ depth = Cardinality(At(InDepth))
    /\ waiters = Cardinality(At(Registered))
    /\ \A m \in Models : classes[m] = Cardinality(InClass(m))

IInv == TypeOK /\ Locals /\ InflightExact /\ CountersExact

-----------------------------------------------------------------------------
(* What the steps do, seen from the variables the invariants relate.       *)

\* Of all goroutines only request r moves.
Alone(r) ==
    /\ UNCHANGED <<ppc, target>>
    /\ \A q \in Requests \ {r} :
          /\ pc'[q] = pc[q] /\ cur'[q] = cur[q] /\ attempt'[q] = attempt[q]
          /\ exclude'[q] = exclude[q] /\ result'[q] = result[q] /\ sent'[q] = sent[q]

\* The counters of the queue, and its channels.
QueueCounters == <<depth, classes, waiters>>
Channels == <<listening, woken>>

ChannelClosed == woken' = woken \cup listening /\ listening' = {}

\* Signal returns having broadcast, or because it may skip that.
Reached == ChannelClosed \/ (SignalSkips /\ UNCHANGED Channels)

Chooses(r) ==
    /\ Alone(r) /\ UNCHANGED <<inflight, fails, QueueCounters, Channels>>
    /\ attempt'[r] = attempt[r] /\ exclude'[r] = exclude[r] /\ sent'[r] = sent[r]
    /\ \/ /\ pc[r] \in {"lookup", "unbind", "pick"}
          /\ pc'[r] \in {"unbind", "pick", "acquire", "enter", "done"}
       \/ pc[r] = "retry" /\ pc'[r] \in {"listen", "deregister"}
    /\ pc'[r] = "unbind" => pc[r] = "lookup" /\ SessionOf[r] \in Sessions
    /\ pc'[r] \in {"acquire", "deregister"} =>
          cur'[r] \in Backends /\ (pc[r] = "lookup" \/ cur'[r] \notin exclude[r])
    /\ pc'[r] # "done" => result'[r] = result[r]

Queues(r) ==
    /\ Alone(r) /\ UNCHANGED <<inflight, fails>>
    /\ attempt'[r] = attempt[r] /\ exclude'[r] = exclude[r]
    /\ sent'[r] = sent[r] /\ cur'[r] = cur[r]
    /\ pc[r] \in {"enter", "refuse", "register", "listen", "deregister", "leave"}
    /\ pc'[r] \in {"register", "refuse", "done", "listen", "wait", "leave", "acquire"}
    /\ pc[r] = "deregister" <=> pc'[r] = "leave"
    /\ pc[r] = "leave" => pc'[r] \in {"acquire", "done"}
    /\ pc'[r] = "acquire" => pc[r] = "leave" /\ result[r] = "pending"
    /\ result'[r] = result[r] \/ (pc[r] = "refuse" /\ pc'[r] = "done")

Counts(r) ==
    /\ Alone(r) /\ UNCHANGED <<fails, QueueCounters, Channels>>
    /\ exclude'[r] = exclude[r] /\ cur[r] \in Backends
    /\ \/ /\ pc[r] = "acquire" /\ pc'[r] \in {"forward", "undo"}
          /\ inflight' = [inflight EXCEPT ![cur[r]] = inflight[cur[r]] + 1]
          /\ cur'[r] = cur[r] /\ attempt'[r] = attempt[r] /\ result'[r] = result[r]
          /\ pc'[r] = "forward" => /\ WithinLimit(cur[r], inflight[cur[r]] + 1)
                                   /\ sent'[r] = sent[r] \cup {cur[r]}
          /\ pc'[r] = "undo" => sent'[r] = sent[r]
       \/ /\ pc[r] = "undo" /\ pc'[r] \in {"pick", "done"}
          /\ inflight' = [inflight EXCEPT ![cur[r]] = inflight[cur[r]] - 1]
          /\ sent'[r] = sent[r]
          /\ pc'[r] = "pick" => attempt'[r] < Attempts /\ result'[r] = result[r]
       \/ /\ pc[r] = "release" /\ pc'[r] = "signal"
          /\ inflight' = [inflight EXCEPT ![cur[r]] = inflight[cur[r]] - 1]
          /\ cur'[r] = cur[r] /\ attempt'[r] = attempt[r]
          /\ sent'[r] = sent[r] /\ result'[r] = result[r]

Works(r) ==
    /\ Alone(r) /\ UNCHANGED <<inflight, QueueCounters, Channels>>
    /\ attempt'[r] = attempt[r] /\ exclude'[r] = exclude[r]
    /\ sent'[r] = sent[r] /\ cur'[r] = cur[r]
    /\ pc[r] \in Holding \ {"release"} /\ pc'[r] \in Holding \ {"forward"}
    /\ pc'[r] = "bind" => SessionOf[r] \in Sessions
    /\ \/ result'[r] = result[r]
       \/ pc[r] = "forward" /\ pc'[r] \in {"succeed", "release"}
    /\ pc[r] \in {"succeed", "bind"} => pc'[r] \in {"bind", "release"}
    /\ \/ UNCHANGED fails /\ (pc[r] \in {"eject", "clear"} => pc'[r] = "clear")
       \/ fails' = [fails EXCEPT ![cur[r]] = 0]
       \/ /\ pc[r] = "fail"
          /\ fails' = [fails EXCEPT ![cur[r]] = fails[cur[r]] + 1]
          /\ fails[cur[r]] + 1 >= FailureThreshold => pc'[r] = "eject"

Signals(r) ==
    /\ Alone(r) /\ UNCHANGED <<inflight, fails, QueueCounters>>
    /\ UNCHANGED Channels \/ ChannelClosed
    /\ sent'[r] = sent[r]
    /\ pc[r] \in {"signal", "broadcast"} /\ pc'[r] \in {"broadcast", "done", "pick"}
    /\ pc'[r] = "broadcast" => /\ cur'[r] = cur[r] /\ attempt'[r] = attempt[r]
                               /\ exclude'[r] = exclude[r]
    /\ pc'[r] = "pick" => /\ exclude'[r] = exclude[r] \cup {cur[r]}
                          /\ attempt'[r] < Attempts /\ result[r] = "pending"
    /\ pc'[r] # "broadcast" => Reached
    /\ result'[r] = result[r] \/ (result[r] = "pending" /\ pc'[r] = "done")

Waits(r) ==
    /\ Alone(r) /\ UNCHANGED <<inflight, fails, QueueCounters>>
    /\ listening' = listening \ {r} /\ woken' = woken \ {r}
    /\ attempt'[r] = attempt[r] /\ exclude'[r] = exclude[r]
    /\ sent'[r] = sent[r] /\ cur'[r] = cur[r]
    /\ pc[r] = "wait" /\ pc'[r] \in {"retry", "deregister"}
    /\ pc'[r] = "retry" => result'[r] = result[r]
    /\ pc'[r] = "deregister" => result'[r] # "pending"

Background ==
    /\ UNCHANGED <<pc, cur, attempt, exclude, result, sent, inflight, fails, QueueCounters>>
    /\ UNCHANGED Channels \/ ChannelClosed
    /\ \A p \in Probes :
          /\ ppc'[p] # "idle" => target'[p] \in Backends
          /\ ppc[p] \in {"signal", "broadcast"} /\ ppc'[p] = "flip" => Reached

Effect ==
    \/ \E r \in Requests :
          \/ Chooses(r) \/ Counts(r) \/ Works(r) \/ Signals(r) \/ Waits(r)
          \/ QueueStep(r) /\ Queues(r)
    \/ Background

\* Every step of the gateway has one of these effects.
LEMMA StepEffect == IInv /\ [Next]_vars => Effect
<1> SUFFICES ASSUME IInv, [Next]_vars
             PROVE  Effect
  OBVIOUS
<1> USE AttemptsAssumption, RoutesAssumption, SessionsAssumption, SwitchesAssumption
    DEF IInv, TypeOK, BackendTypeOK, Locals, GoTo, backendVars, queueVars,
        requestVars, probeVars, QueueCounters, Channels, ChannelClosed, Reached, Alone
<1>1. ASSUME NEW r \in Requests, ChooseStep(r) PROVE Chooses(r)
  <2>1. CASE Lookup(r)
    BY <2>1 DEF Lookup, PoolOf, Available, Chooses
  <2>2. CASE Unbind(r)
    BY <2>2 DEF Unbind, Chooses
  <2>3. CASE PickFails(r)
    BY <2>3 DEF PickFails, Answer, Chooses
  <2>4. CASE RetryFails(r)
    BY <2>4 DEF RetryFails, Chooses
  <2>5. ASSUME NEW b \in Backends, Pick(r, b) PROVE Chooses(r)
    BY <2>5 DEF Pick, Candidates, PoolOf, Chooses
  <2>6. ASSUME NEW b \in Backends, Retry(r, b) PROVE Chooses(r)
    BY <2>6 DEF Retry, Candidates, PoolOf, Chooses
  <2> QED
    BY <1>1, <2>1, <2>2, <2>3, <2>4, <2>5, <2>6 DEF ChooseStep
<1>2. ASSUME NEW r \in Requests, QueueStep(r) PROVE Queues(r)
  <2>1. CASE Enter(r)
    BY <2>1 DEF Enter, AddDepth, Queues
  <2>2. CASE Refuse(r)
    BY <2>2 DEF Refuse, SubDepth, Answer, Queues
  <2>3. CASE RegisterWaiter(r)
    BY <2>3 DEF RegisterWaiter, Register, Queues
  <2>4. CASE Block(r)
    BY <2>4 DEF Block, Listen, Queues
  <2>5. CASE DeregisterWaiter(r)
    BY <2>5 DEF DeregisterWaiter, Deregister, Queues
  <2>6. CASE LeaveQueue(r)
    BY <2>6 DEF LeaveQueue, Leave, Queues
  <2> QED
    BY <1>2, <2>1, <2>2, <2>3, <2>4, <2>5, <2>6 DEF QueueStep
<1>3. ASSUME NEW r \in Requests, SlotStep(r) PROVE Counts(r)
  <2>1. CASE Acquire(r)
    BY <2>1 DEF Acquire, AddInflight, Counts, Chosen, Counted, Holding
  <2>2. CASE Undo(r)
    BY <2>2 DEF Undo, SubInflight, NextAttempt, Answer, Counts, Chosen, Counted,
      Holding
  <2>3. CASE Release(r)
    BY <2>3 DEF Release, SubInflight, Counts, Chosen, Counted, Holding
  <2> QED
    BY <1>3, <2>1, <2>2, <2>3 DEF SlotStep
<1>4. ASSUME NEW r \in Requests, ForwardStep(r) PROVE Works(r)
  <2>1. CASE ForwardOk(r)
    BY <2>1 DEF ForwardOk, Works, Holding
  <2>2. CASE ForwardUnrecorded(r)
    BY <2>2 DEF ForwardUnrecorded, Works, Holding
  <2>3. CASE ForwardFails(r)
    BY <2>3 DEF ForwardFails, Works, Holding
  <2> QED
    BY <1>4, <2>1, <2>2, <2>3 DEF ForwardStep
<1>5. ASSUME NEW r \in Requests, RecordStep(r) PROVE Works(r)
  <2>1. CASE MarkSuccess(r)
    BY <2>1 DEF MarkSuccess, ClearFailures, Works, Holding
  <2>2. CASE Bind(r)
    BY <2>2 DEF Bind, Works, Holding
  <2>3. CASE MarkFailure(r)
    BY <2>3 DEF MarkFailure, AddFailure, Works, Holding
  <2>4. CASE EjectBackend(r)
    BY <2>4 DEF EjectBackend, Eject, Works, Holding
  <2>5. CASE ClearAfterEject(r)
    BY <2>5 DEF ClearAfterEject, ClearFailures, Works, Holding
  <2> QED
    BY <1>5, <2>1, <2>2, <2>3, <2>4, <2>5 DEF RecordStep
<1>6. ASSUME NEW r \in Requests, SignalStep(r) PROVE Signals(r)
  <2>1. CASE Signal(r)
    BY <2>1 DEF Signal, AfterForward, NextAttempt, Answer, Signals
  <2>2. CASE SignalBroadcast(r)
    BY <2>2 DEF SignalBroadcast, Broadcast, AfterForward, NextAttempt, Answer,
      Signals
  <2> QED
    BY <1>6, <2>1, <2>2 DEF SignalStep
<1>7. ASSUME NEW r \in Requests, WaitEnds(r) PROVE Waits(r)
  <2>1. CASE Wake(r)
    BY <2>1 DEF Wake, StopListening, Waits
  <2>2. CASE Poll(r)
    BY <2>2 DEF Poll, StopListening, Waits
  <2>3. CASE Expire(r)
    BY <2>3 DEF Expire, StopListening, Waits
  <2>4. CASE Disconnect(r)
    BY <2>4 DEF Disconnect, StopListening, Waits
  <2> QED
    BY <1>7, <2>1, <2>2, <2>3, <2>4 DEF WaitEnds
<1>8. ASSUME NEW p \in Probes, ProbeStep(p) PROVE Background
  <2>1. CASE ProbeInvalidate(p)
    BY <2>1 DEF ProbeInvalidate, Background
  <2>2. CASE ProbeSignal(p)
    BY <2>2 DEF ProbeSignal, Background
  <2>3. CASE ProbeBroadcast(p)
    BY <2>3 DEF ProbeBroadcast, Broadcast, Background
  <2>4. CASE ProbeSet(p)
    BY <2>4 DEF ProbeSet, SetHealthy, Background
  <2> QED
    BY <1>8, <2>1, <2>2, <2>3, <2>4 DEF ProbeStep
<1>9. ASSUME Environment PROVE Background
  <2>1. ASSUME NEW p \in Probes, NEW b \in Probed, NEW ok \in BOOLEAN,
    ProbeReturns(p, b, ok) PROVE Background
    BY <2>1 DEF ProbeReturns, Background
  <2>2. ASSUME NEW b \in Backends, EndCooldown(b) PROVE Background
    BY <2>2 DEF EndCooldown, CooldownEnds, Background
  <2>3. ASSUME NEW b \in Backends, NEW on \in BOOLEAN, SetCordon(b, on) PROVE
    Background
    BY <2>3 DEF SetCordon, Cordon, Background
  <2>4. ASSUME NEW s \in Sessions, Forget(s) PROVE Background
    BY <2>4 DEF Forget, Background
  <2>5. CASE Idle
    BY <2>5 DEF Idle, vars, Background
  <2> QED
    BY <1>9, <2>1, <2>2, <2>3, <2>4, <2>5 DEF Environment
<1>10. ASSUME UNCHANGED vars PROVE Background
  BY <1>10 DEF vars, Background
<1> HIDE DEF IInv, TypeOK, BackendTypeOK, Locals, GoTo, backendVars, queueVars,
  requestVars, probeVars, QueueCounters, Channels, ChannelClosed, Reached, Alone
<1> QED
  BY <1>1, <1>2, <1>3, <1>4, <1>5, <1>6, <1>7, <1>8, <1>9, <1>10 DEF Next,
    RequestStep, Effect

-----------------------------------------------------------------------------
(* The invariant: what does not need counting.                             *)

\* Every step leaves the locals of the goroutines as their next steps expect them.
LEMMA LocalsStep == IInv /\ [Next]_vars => Locals'
<1> SUFFICES ASSUME IInv, [Next]_vars
             PROVE  Locals'
  OBVIOUS
<1> USE DEF IInv, Locals, Alone, QueueCounters, Channels, ChannelClosed, Chosen,
  Counted, Holding
<1>1. ASSUME NEW r \in Requests, Chooses(r) PROVE Locals'
  BY <1>1 DEF Chooses
<1>2. ASSUME NEW r \in Requests, QueueStep(r), Queues(r) PROVE Locals'
  BY <1>2 DEF Queues
<1>3. ASSUME NEW r \in Requests, Counts(r) PROVE Locals'
  BY <1>3 DEF Counts
<1>4. ASSUME NEW r \in Requests, Works(r) PROVE Locals'
  BY <1>4 DEF Works
<1>5. ASSUME NEW r \in Requests, Signals(r) PROVE Locals'
  <2>1. cur[r] \in Backends /\ attempt[r] < Attempts
    BY <1>5 DEF Signals
  <2>2. /\ pc'[r] \in {"broadcast", "done", "pick"}
        /\ pc'[r] = "broadcast" => cur'[r] \in Backends /\ attempt'[r] < Attempts
        /\ pc'[r] = "pick" => attempt'[r] < Attempts
    BY <1>5, <2>1 DEF Signals
  <2>3. Alone(r)
    BY <1>5 DEF Signals
  <2> QED
    BY <2>2, <2>3
<1>6. ASSUME NEW r \in Requests, Waits(r) PROVE Locals'
  BY <1>6 DEF Waits
<1>7. CASE Background
  BY <1>7 DEF Background
<1> HIDE DEF IInv, Locals, Alone, QueueCounters, Channels, ChannelClosed, Chosen,
  Counted, Holding
<1> QED
  BY <1>1, <1>2, <1>3, <1>4, <1>5, <1>6, <1>7, StepEffect DEF Effect

\* A counter that a request is about to decrement counts that request.
Positive ==
    \A r \in Requests :
        /\ pc[r] \in Counted => inflight[cur[r]] >= 1
        /\ pc[r] \in InDepth => depth >= 1
        /\ pc[r] \in Registered => waiters >= 1
        /\ pc[r] = "leave" => classes[ModelOf[r]] >= 1

\* The end of an attempt keeps the request's variables in their types.
LEMMA AfterForwardTypes ==
    ASSUME IInv, NEW r \in Requests, pc[r] \in {"signal", "broadcast"}, AfterForward(r)
    PROVE  /\ pc' \in [Requests -> Steps]
           /\ attempt' \in [Requests -> 0..Attempts]
           /\ exclude' \in [Requests -> SUBSET Backends]
           /\ cur' \in [Requests -> Backends \cup {NoBackend}]
           /\ result' \in [Requests -> Results]
<1>1. /\ cur[r] \in Backends
      /\ attempt[r] \in 0..Attempts /\ attempt[r] < Attempts
  BY DEF IInv, Locals, Chosen, TypeOK
<1>2. CASE result[r] # "pending"
  BY <1>2 DEF AfterForward, GoTo, IInv, TypeOK, Steps
<1>3. CASE result[r] = "pending"
  <2>1. attempt[r] + 1 \in 0..Attempts
    BY <1>1, AttemptsAssumption
  <2>2. NextAttempt(r) /\ exclude' = [exclude EXCEPT ![r] = @ \cup {cur[r]}]
    BY <1>3 DEF AfterForward
  <2>3. exclude' \in [Requests -> SUBSET Backends]
    BY <1>1, <2>2 DEF IInv, TypeOK
  <2>4. /\ attempt' \in [Requests -> 0..Attempts]
        /\ cur' \in [Requests -> Backends \cup {NoBackend}]
    BY <2>1, <2>2 DEF NextAttempt, IInv, TypeOK
  <2>5. pc' \in [Requests -> Steps] /\ result' \in [Requests -> Results]
    BY <2>2 DEF NextAttempt, GoTo, Answer, IInv, TypeOK, Steps, Results
  <2> QED
    BY <2>3, <2>4, <2>5
<1> QED
  BY <1>2, <1>3

\* A request or a probe at work on a backend has it in its local variable.
LEMMA BackendInHand ==
    ASSUME IInv
    PROVE  /\ \A r \in Requests :
                 pc[r] \in {"acquire", "undo", "succeed", "bind", "fail", "eject", "clear", "release"}
                     => cur[r] \in Backends /\ attempt[r] < Attempts
           /\ \A p \in Probes : ppc[p] # "idle" => target[p] \in Backends
  BY DEF IInv, Locals, Chosen, Counted, Holding

\* Every step preserves the types; the counters stay natural numbers.
LEMMA TypeStep == IInv /\ Positive /\ [Next]_vars => TypeOK'
<1> SUFFICES ASSUME IInv, TypeOK, Positive, [Next]_vars
             PROVE  TypeOK'
  BY DEF IInv
<1> USE RoutesAssumption, SessionsAssumption, SwitchesAssumption DEF TypeOK,
  BackendTypeOK, QueueTypeOK, GoTo, backendVars, queueVars, requestVars, probeVars,
  Steps, Results, ProbeSteps
<1>1. ASSUME NEW r \in Requests, Lookup(r) PROVE TypeOK'
  BY <1>1 DEF Lookup, PoolOf, Available
<1>2. ASSUME NEW r \in Requests, Unbind(r) PROVE TypeOK'
  BY <1>2, ZenonT(30) DEF Unbind
<1>3. ASSUME NEW r \in Requests, PickFails(r) PROVE TypeOK'
  BY <1>3 DEF PickFails, Answer
<1>4. ASSUME NEW r \in Requests, RetryFails(r) PROVE TypeOK'
  BY <1>4 DEF RetryFails
<1>5. ASSUME NEW r \in Requests, NEW b \in Backends, Pick(r, b) PROVE TypeOK'
  BY <1>5 DEF Pick, Candidates, PoolOf
<1>6. ASSUME NEW r \in Requests, NEW b \in Backends, Retry(r, b) PROVE TypeOK'
  BY <1>6 DEF Retry, Candidates, PoolOf
<1>7. ASSUME NEW r \in Requests, Enter(r) PROVE TypeOK'
  BY <1>7 DEF Enter, AddDepth
<1>8. ASSUME NEW r \in Requests, Refuse(r) PROVE TypeOK'
  BY <1>8 DEF Positive, Refuse, SubDepth, Answer, InDepth, Queued,
    Registered
<1>9. ASSUME NEW r \in Requests, RegisterWaiter(r) PROVE TypeOK'
  BY <1>9 DEF RegisterWaiter, Register
<1>10. ASSUME NEW r \in Requests, Block(r) PROVE TypeOK'
  BY <1>10 DEF Block, Listen
<1>11. ASSUME NEW r \in Requests, DeregisterWaiter(r) PROVE TypeOK'
  BY <1>11 DEF Positive, DeregisterWaiter, Deregister, Registered
<1>12. ASSUME NEW r \in Requests, LeaveQueue(r) PROVE TypeOK'
  BY <1>12 DEF Positive, LeaveQueue, Leave, InDepth, Queued, Registered
<1>13. ASSUME NEW r \in Requests, Acquire(r) PROVE TypeOK'
  BY <1>13, BackendInHand DEF Acquire, AddInflight
<1>14. ASSUME NEW r \in Requests, Undo(r) PROVE TypeOK'
  <2>1. /\ cur[r] \in Backends /\ inflight[cur[r]] - 1 \in Nat
        /\ attempt[r] + 1 \in 0..Attempts
    BY <1>14, BackendInHand, AttemptsAssumption DEF Positive, Undo, Counted
  <2>2. inflight' \in [Backends -> Nat]
    BY <1>14, <2>1 DEF Undo, SubInflight
  <2>3. attempt' \in [Requests -> 0..Attempts]
    BY <1>14, <2>1 DEF Undo, NextAttempt
  <2> QED
    BY <1>14, <2>2, <2>3 DEF Undo, SubInflight, NextAttempt, Answer
<1>15. ASSUME NEW r \in Requests, Release(r) PROVE TypeOK'
  BY <1>15, BackendInHand DEF Positive, Release, SubInflight, Counted,
    Holding
<1>16. ASSUME NEW r \in Requests, ForwardOk(r) PROVE TypeOK'
  BY <1>16 DEF ForwardOk
<1>17. ASSUME NEW r \in Requests, ForwardUnrecorded(r) PROVE TypeOK'
  BY <1>17 DEF ForwardUnrecorded
<1>18. ASSUME NEW r \in Requests, ForwardFails(r) PROVE TypeOK'
  BY <1>18 DEF ForwardFails
<1>19. ASSUME NEW r \in Requests, MarkSuccess(r) PROVE TypeOK'
  BY <1>19, BackendInHand DEF MarkSuccess, ClearFailures
<1>20. ASSUME NEW r \in Requests, Bind(r) PROVE TypeOK'
  BY <1>20, BackendInHand, ZenonT(30) DEF Bind
<1>21. ASSUME NEW r \in Requests, MarkFailure(r) PROVE TypeOK'
  BY <1>21, BackendInHand DEF MarkFailure, AddFailure
<1>22. ASSUME NEW r \in Requests, EjectBackend(r) PROVE TypeOK'
  BY <1>22, BackendInHand DEF EjectBackend, Eject
<1>23. ASSUME NEW r \in Requests, ClearAfterEject(r) PROVE TypeOK'
  BY <1>23, BackendInHand DEF ClearAfterEject, ClearFailures
<1>24. ASSUME NEW r \in Requests, Signal(r) PROVE TypeOK'
  BY <1>24, AfterForwardTypes DEF Signal
<1>25. ASSUME NEW r \in Requests, SignalBroadcast(r) PROVE TypeOK'
  BY <1>25, AfterForwardTypes DEF SignalBroadcast, Broadcast
<1>26. ASSUME NEW r \in Requests, Wake(r) PROVE TypeOK'
  BY <1>26 DEF Wake, StopListening
<1>27. ASSUME NEW r \in Requests, Poll(r) PROVE TypeOK'
  BY <1>27 DEF Poll, StopListening
<1>28. ASSUME NEW r \in Requests, Expire(r) PROVE TypeOK'
  BY <1>28 DEF Expire, StopListening
<1>29. ASSUME NEW r \in Requests, Disconnect(r) PROVE TypeOK'
  BY <1>29 DEF Disconnect, StopListening
<1>30. ASSUME NEW p \in Probes, ProbeInvalidate(p) PROVE TypeOK'
  BY <1>30 DEF ProbeInvalidate
<1>31. ASSUME NEW p \in Probes, ProbeSignal(p) PROVE TypeOK'
  BY <1>31 DEF ProbeSignal
<1>32. ASSUME NEW p \in Probes, ProbeBroadcast(p) PROVE TypeOK'
  BY <1>32 DEF ProbeBroadcast, Broadcast
<1>33. ASSUME NEW p \in Probes, ProbeSet(p) PROVE TypeOK'
  BY <1>33, BackendInHand DEF ProbeSet, SetHealthy
<1>34. ASSUME NEW p \in Probes, NEW b \in Probed, NEW ok \in BOOLEAN,
  ProbeReturns(p, b, ok) PROVE TypeOK'
  BY <1>34 DEF ProbeReturns
<1>35. ASSUME NEW b \in Backends, EndCooldown(b) PROVE TypeOK'
  BY <1>35 DEF EndCooldown, CooldownEnds
<1>36. ASSUME NEW b \in Cordonable, NEW on \in BOOLEAN, SetCordon(b, on) PROVE
  TypeOK'
  BY <1>36 DEF SetCordon, Cordon
<1>37. ASSUME NEW s \in Sessions, Forget(s) PROVE TypeOK'
  BY <1>37 DEF Forget
<1>38. ASSUME Idle PROVE TypeOK'
  BY <1>38 DEF Idle, vars
<1>39. CASE UNCHANGED vars
  BY <1>39 DEF vars
<1> HIDE DEF TypeOK, BackendTypeOK, QueueTypeOK, GoTo, backendVars, queueVars,
  requestVars, probeVars, Steps, Results, ProbeSteps
<1>40. ASSUME NEW r \in Requests, ChooseStep(r) PROVE TypeOK'
  BY <1>1, <1>2, <1>3, <1>4, <1>5, <1>6, <1>40 DEF ChooseStep
<1>41. ASSUME NEW r \in Requests, QueueStep(r) PROVE TypeOK'
  BY <1>7, <1>8, <1>9, <1>10, <1>11, <1>12, <1>41 DEF QueueStep
<1>42. ASSUME NEW r \in Requests, SlotStep(r) \/ ForwardStep(r) PROVE TypeOK'
  BY <1>13, <1>14, <1>15, <1>16, <1>17, <1>18, <1>42 DEF SlotStep, ForwardStep
<1>43. ASSUME NEW r \in Requests, RecordStep(r) \/ SignalStep(r) PROVE TypeOK'
  BY <1>19, <1>20, <1>21, <1>22, <1>23, <1>24, <1>25, <1>43 DEF RecordStep, SignalStep
<1>44. ASSUME NEW r \in Requests, WaitEnds(r) PROVE TypeOK'
  BY <1>26, <1>27, <1>28, <1>29, <1>44 DEF WaitEnds
<1>45. ASSUME NEW p \in Probes, ProbeStep(p) PROVE TypeOK'
  BY <1>30, <1>31, <1>32, <1>33, <1>45 DEF ProbeStep
<1>46. ASSUME Environment PROVE TypeOK'
  BY <1>34, <1>35, <1>36, <1>37, <1>38, <1>46 DEF Environment
<1>47. ASSUME NEW r \in Requests, RequestStep(r) PROVE TypeOK'
  BY <1>40, <1>41, <1>42, <1>43, <1>47 DEF RequestStep
<1> QED
  BY <1>39, <1>44, <1>45, <1>46, <1>47 DEF Next

\* A step that moves no request into or out of Counted and leaves inflight alone.
LEMMA InflightKept ==
    ASSUME IInv, inflight' = inflight,
           \A q \in Requests :
               /\ pc[q] \in Counted <=> pc'[q] \in Counted
               /\ pc[q] \in Counted => cur'[q] = cur[q]
    PROVE  InflightExact'
<1>1. \A b \in Backends : On(b, Counted)' = On(b, Counted)
  BY DEF On, At
<1> QED
  BY <1>1 DEF IInv, InflightExact

\* The groups of queued requests are sets of requests.
LEMMA QueueSets ==
    /\ At(InDepth) \subseteq Requests /\ At(Queued) \subseteq Requests
    /\ At(Registered) \subseteq Requests
    /\ \A m : InClass(m) \subseteq Requests
  BY DEF At, InClass

\* A step that moves no request into or out of the queue's groups.
LEMMA CountersKept ==
    ASSUME IInv, depth' = depth, waiters' = waiters, classes' = classes,
           \A q \in Requests :
               /\ pc[q] \in InDepth <=> pc'[q] \in InDepth
               /\ pc[q] \in Registered <=> pc'[q] \in Registered
               /\ pc[q] = "leave" <=> pc'[q] = "leave"
    PROVE  CountersExact'
<1>1. /\ At(InDepth)' = At(InDepth) /\ At(Registered)' = At(Registered)
      /\ \A m \in Models : InClass(m)' = InClass(m)
  BY DEF At, InClass
<1> QED
  BY <1>1 DEF IInv, CountersExact
=============================================================================
