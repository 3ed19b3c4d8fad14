------------------------------ MODULE Serving ------------------------------
(***************************************************************************)
(* Serving one request (internal/proxy, serveNormal and what it calls),    *)
(* composed with the backends' counters, the capacity queue, the session   *)
(* table and the health checker.  Every request and every health probe is  *)
(* a goroutine; a step is the part of it between two accesses to shared    *)
(* state.                                                                  *)
(***************************************************************************)
EXTENDS Backend, Queue

CONSTANTS
    Sessions,       \* session keys
    NoSession,      \* a request without a session key
    NoBackend,      \* no backend
    ModelOf,        \* [Requests -> Models]
    SessionOf,      \* [Requests -> Sessions \cup {NoSession}]
    Pool,           \* [Models -> SUBSET Backends], the route's pool
    Attempts,       \* server.retries + 1
    QueueEnabled,   \* queue.enabled
    HasAdmission,   \* queue.admission_expr is set
    EvalMayFail,    \* the strategy is an expression whose evaluation may fail
    Failing,        \* the backends on which a forward may fail
    Probes,         \* health-check goroutines that may overlap
    Probed,         \* the backends the health checker watches
    Cordonable      \* the backends an operator cordons and uncordons

ASSUME RequestsAssumption == IsFiniteSet(Requests)
ASSUME RoutesAssumption ==
    /\ ModelOf \in [Requests -> Models]
    /\ Pool \in [Models -> SUBSET Backends]
ASSUME SessionsAssumption ==
    /\ SessionOf \in [Requests -> Sessions \cup {NoSession}]
    /\ NoSession \notin Sessions
    /\ NoBackend \notin Backends
ASSUME AttemptsAssumption == Attempts \in Nat \ {0}
ASSUME SwitchesAssumption ==
    /\ {QueueEnabled, HasAdmission, EvalMayFail} \subseteq BOOLEAN
    /\ Failing \subseteq Backends
    /\ Probed \subseteq Backends
    /\ Cordonable \subseteq Backends

VARIABLES
    pc,         \* pc[r]: the next step of request r
    attempt,    \* attempt[r]: i of the attempts loop
    exclude,    \* exclude[r]: backends on which r has failed
    cur,        \* cur[r]: the backend chosen for this attempt
    result,     \* result[r]: how r was answered, "pending" until it is
    sent,       \* sent[r]: every backend r was forwarded to (history)
    sess,       \* sess[s]: the backend session s is bound to
    ppc,        \* ppc[p]: the next step of probe p
    target,     \* target[p]: the backend it probes
    verdict     \* verdict[p]: TRUE if the probe was answered 2xx

requestVars == <<pc, attempt, exclude, cur, result, sent>>
probeVars == <<ppc, target, verdict>>
vars == <<backendVars, queueVars, requestVars, sess, probeVars>>

Steps ==
    {"lookup", "unbind", "pick", "enter", "refuse", "register", "listen", "wait",
     "retry", "deregister", "leave", "acquire", "undo", "forward", "succeed",
     "bind", "fail", "eject", "clear", "release", "signal", "broadcast", "done"}

Results ==
    {"pending", "ok", "passed", "canceled", "exhausted", "unavailable",
     "rejected", "full", "timeout"}

ProbeSteps == {"idle", "invalidate", "signal", "broadcast", "flip", "set"}

TypeOK ==
    /\ BackendTypeOK
    /\ QueueTypeOK
    /\ pc \in [Requests -> Steps]
    /\ attempt \in [Requests -> 0..Attempts]
    /\ exclude \in [Requests -> SUBSET Backends]
    /\ cur \in [Requests -> Backends \cup {NoBackend}]
    /\ result \in [Requests -> Results]
    /\ sent \in [Requests -> SUBSET Backends]
    /\ sess \in [Sessions -> Backends \cup {NoBackend}]
    /\ ppc \in [Probes -> ProbeSteps]
    /\ target \in [Probes -> Backends \cup {NoBackend}]
    /\ verdict \in [Probes -> BOOLEAN]

Init ==
    /\ BackendInit
    /\ QueueInit
    /\ pc = [r \in Requests |-> "lookup"]
    /\ attempt = [r \in Requests |-> 0]
    /\ exclude = [r \in Requests |-> {}]
    /\ cur = [r \in Requests |-> NoBackend]
    /\ result = [r \in Requests |-> "pending"]
    /\ sent = [r \in Requests |-> {}]
    /\ sess = [s \in Sessions |-> NoBackend]
    /\ ppc = [p \in Probes |-> "idle"]
    /\ target = [p \in Probes |-> NoBackend]
    /\ verdict = [p \in Probes |-> TRUE]

-----------------------------------------------------------------------------
(* Helpers of the request steps.                                           *)

PoolOf(r) == Pool[ModelOf[r]]

\* PickAmong's filter over the route's pool.
Candidates(r) == {b \in PoolOf(r) \ exclude[r] : Available(b) /\ HasRoom(b)}

\* No candidate, or several and an expression that fails on all of them.
PickMayFail(r) ==
    \/ Candidates(r) = {}
    \/ EvalMayFail /\ Cardinality(Candidates(r)) > 1

GoTo(r, step) == pc' = [pc EXCEPT ![r] = step]

Answer(r, how) ==
    /\ GoTo(r, "done")
    /\ result' = [result EXCEPT ![r] = how]

\* The head of the attempts loop: try again or answer 502.
NextAttempt(r) ==
    /\ attempt' = [attempt EXCEPT ![r] = @ + 1]
    /\ cur' = [cur EXCEPT ![r] = NoBackend]
    /\ IF attempt[r] + 1 < Attempts
         THEN GoTo(r, "pick") /\ UNCHANGED result
         ELSE Answer(r, "exhausted")

\* Mutant of SignalSkips: takes the last waiter for nobody.
SignalSkipsLast == ~QueueEnabled \/ waiters <= 1

\* Signal returns at once when nobody is registered, and without a queue.
SignalSkips == ~QueueEnabled \/ waiters = 0

-----------------------------------------------------------------------------
(* Session stickiness, before the first attempt.                           *)

\* A binding to an available backend of the pool short-circuits the first pick.
Lookup(r) ==
    /\ pc[r] = "lookup"
    /\ LET b == IF SessionOf[r] = NoSession THEN NoBackend ELSE sess[SessionOf[r]]
       IN \/ /\ b = NoBackend
             /\ GoTo(r, "pick")
             /\ UNCHANGED cur
          \/ /\ b \in PoolOf(r) /\ Available(b)
             /\ cur' = [cur EXCEPT ![r] = b]
             /\ GoTo(r, "acquire")
          \/ /\ b # NoBackend
             /\ ~(b \in PoolOf(r) /\ Available(b))
             /\ GoTo(r, "unbind")
             /\ UNCHANGED cur
    /\ UNCHANGED <<backendVars, queueVars, attempt, exclude, result, sent, sess, probeVars>>

\* The binding looked up was dead; whatever is bound by now is removed.
Unbind(r) ==
    /\ pc[r] = "unbind"
    /\ sess' = [sess EXCEPT ![SessionOf[r]] = NoBackend]
    /\ GoTo(r, "pick")
    /\ UNCHANGED <<backendVars, queueVars, attempt, exclude, cur, result, sent, probeVars>>

-----------------------------------------------------------------------------
(* Choosing a backend, in the queue if there is none.                      *)

Pick(r, b) ==
    /\ pc[r] = "pick"
    /\ b \in Candidates(r)
    /\ cur' = [cur EXCEPT ![r] = b]
    /\ GoTo(r, "acquire")
    /\ UNCHANGED <<backendVars, queueVars, attempt, exclude, result, sent, sess, probeVars>>

\* No backend: answer 503 without a queue, 429 if not admitted, else queue.
PickFails(r) ==
    /\ pc[r] = "pick"
    /\ PickMayFail(r)
    /\ \/ ~QueueEnabled /\ Answer(r, "unavailable")
       \/ QueueEnabled /\ HasAdmission /\ Answer(r, "rejected")
       \/ QueueEnabled /\ GoTo(r, "enter") /\ UNCHANGED result
    /\ UNCHANGED <<backendVars, queueVars, attempt, exclude, cur, sent, sess, probeVars>>

Enter(r) ==
    /\ pc[r] = "enter"
    /\ AddDepth
    /\ GoTo(r, IF WithinDepth(depth + 1) THEN "register" ELSE "refuse")
    /\ UNCHANGED <<backendVars, attempt, exclude, cur, result, sent, sess, probeVars>>

\* ErrFull: the increment is taken back and the client gets 429.
Refuse(r) ==
    /\ pc[r] = "refuse"
    /\ SubDepth
    /\ Answer(r, "full")
    /\ UNCHANGED <<backendVars, attempt, exclude, cur, sent, sess, probeVars>>

RegisterWaiter(r) ==
    /\ pc[r] = "register"
    /\ Register(ModelOf[r])
    /\ GoTo(r, "listen")
    /\ UNCHANGED <<backendVars, attempt, exclude, cur, result, sent, sess, probeVars>>

Block(r) ==
    /\ pc[r] = "listen"
    /\ Listen(r)
    /\ GoTo(r, "wait")
    /\ UNCHANGED <<backendVars, attempt, exclude, cur, result, sent, sess, probeVars>>

\* The select returns because the channel was closed.
Wake(r) ==
    /\ pc[r] = "wait"
    /\ r \in woken
    /\ StopListening(r)
    /\ GoTo(r, "retry")
    /\ UNCHANGED <<backendVars, attempt, exclude, cur, result, sent, sess, probeVars>>

\* Mutant of Poll: the ticker is not started.
PollNever(r) == pc[r] = "wait" /\ FALSE /\ UNCHANGED vars

\* The select returns because the 100 ms fallback ticker fired.
Poll(r) ==
    /\ pc[r] = "wait"
    /\ StopListening(r)
    /\ GoTo(r, "retry")
    /\ UNCHANGED <<backendVars, attempt, exclude, cur, result, sent, sess, probeVars>>

\* Mutant of Expire: the timer is not started.
ExpireNever(r) == pc[r] = "wait" /\ FALSE /\ UNCHANGED vars

\* The select returns because max_wait has passed.
Expire(r) ==
    /\ pc[r] = "wait"
    /\ StopListening(r)
    /\ GoTo(r, "deregister")
    /\ result' = [result EXCEPT ![r] = "timeout"]
    /\ UNCHANGED <<backendVars, attempt, exclude, cur, sent, sess, probeVars>>

\* The select returns because the client has gone.
Disconnect(r) ==
    /\ pc[r] = "wait"
    /\ StopListening(r)
    /\ GoTo(r, "deregister")
    /\ result' = [result EXCEPT ![r] = "canceled"]
    /\ UNCHANGED <<backendVars, attempt, exclude, cur, sent, sess, probeVars>>

Retry(r, b) ==
    /\ pc[r] = "retry"
    /\ b \in Candidates(r)
    /\ cur' = [cur EXCEPT ![r] = b]
    /\ GoTo(r, "deregister")
    /\ UNCHANGED <<backendVars, queueVars, attempt, exclude, result, sent, sess, probeVars>>

RetryFails(r) ==
    /\ pc[r] = "retry"
    /\ PickMayFail(r)
    /\ GoTo(r, "listen")
    /\ UNCHANGED <<backendVars, queueVars, attempt, exclude, cur, result, sent, sess, probeVars>>

DeregisterWaiter(r) ==
    /\ pc[r] = "deregister"
    /\ Deregister
    /\ GoTo(r, "leave")
    /\ UNCHANGED <<backendVars, attempt, exclude, cur, result, sent, sess, probeVars>>

\* WaitFor returns: go on with the backend found, or answer 503.
LeaveQueue(r) ==
    /\ pc[r] = "leave"
    /\ Leave(ModelOf[r])
    /\ GoTo(r, IF result[r] = "pending" THEN "acquire" ELSE "done")
    /\ UNCHANGED <<backendVars, attempt, exclude, cur, result, sent, sess, probeVars>>

-----------------------------------------------------------------------------
(* One attempt on the chosen backend.                                      *)

\* TryAcquire, first instruction: count first, judge the count afterwards.
Acquire(r) ==
    /\ pc[r] = "acquire"
    /\ AddInflight(cur[r])
    /\ IF WithinLimit(cur[r], inflight[cur[r]] + 1)
         THEN /\ GoTo(r, "forward")
              /\ sent' = [sent EXCEPT ![r] = @ \cup {cur[r]}]
         ELSE GoTo(r, "undo") /\ UNCHANGED sent
    /\ UNCHANGED <<queueVars, attempt, exclude, cur, result, sess, probeVars>>

\* Mutant of Undo: a refused slot is released like a granted one.
UndoThenRelease(r) ==
    /\ pc[r] = "undo"
    /\ SubInflight(cur[r])
    /\ GoTo(r, "release")
    /\ UNCHANGED <<queueVars, attempt, exclude, cur, result, sent, sess, probeVars>>

\* TryAcquire over the limit: the attempt is spent, the backend is not excluded.
Undo(r) ==
    /\ pc[r] = "undo"
    /\ SubInflight(cur[r])
    /\ NextAttempt(r)
    /\ UNCHANGED <<queueVars, exclude, sent, sess, probeVars>>

\* Answered below 400, and streamed back.
ForwardOk(r) ==
    /\ pc[r] = "forward"
    /\ GoTo(r, "succeed")
    /\ result' = [result EXCEPT ![r] = "ok"]
    /\ UNCHANGED <<backendVars, queueVars, attempt, exclude, cur, sent, sess, probeVars>>

\* Mutant of ForwardUnrecorded: returns before the release.
ForwardUnrecordedLeaks(r) ==
    /\ pc[r] = "forward"
    /\ GoTo(r, "signal")
    /\ \E how \in {"canceled", "passed"} : result' = [result EXCEPT ![r] = how]
    /\ UNCHANGED <<backendVars, queueVars, attempt, exclude, cur, sent, sess, probeVars>>

\* Nothing is recorded about the backend when the client has gone, or when the
\* status is passed on as it is: 4xx but 429, 5xx but 502, 503 and 504.
ForwardUnrecorded(r) ==
    /\ pc[r] = "forward"
    /\ GoTo(r, "release")
    /\ \E how \in {"canceled", "passed"} : result' = [result EXCEPT ![r] = how]
    /\ UNCHANGED <<backendVars, queueVars, attempt, exclude, cur, sent, sess, probeVars>>

\* No connection, or 429, 502, 503 or 504: nothing has been written to the client.
ForwardFails(r) ==
    /\ pc[r] = "forward"
    /\ cur[r] \in Failing
    /\ GoTo(r, "fail")
    /\ UNCHANGED <<backendVars, queueVars, attempt, exclude, cur, result, sent, sess, probeVars>>

MarkSuccess(r) ==
    /\ pc[r] = "succeed"
    /\ ClearFailures(cur[r])
    /\ GoTo(r, IF SessionOf[r] = NoSession THEN "release" ELSE "bind")
    /\ UNCHANGED <<queueVars, attempt, exclude, cur, result, sent, sess, probeVars>>

Bind(r) ==
    /\ pc[r] = "bind"
    /\ sess' = [sess EXCEPT ![SessionOf[r]] = cur[r]]
    /\ GoTo(r, "release")
    /\ UNCHANGED <<backendVars, queueVars, attempt, exclude, cur, result, sent, probeVars>>

\* MarkFailure is three instructions, the last two only at the threshold.
MarkFailure(r) ==
    /\ pc[r] = "fail"
    /\ AddFailure(cur[r])
    /\ GoTo(r, IF fails[cur[r]] + 1 >= FailureThreshold THEN "eject" ELSE "release")
    /\ UNCHANGED <<queueVars, attempt, exclude, cur, result, sent, sess, probeVars>>

\* Mutant of EjectBackend: the failure counter is not cleared.
EjectKeepsFailures(r) ==
    /\ pc[r] = "eject"
    /\ Eject(cur[r])
    /\ GoTo(r, "release")
    /\ UNCHANGED <<queueVars, attempt, exclude, cur, result, sent, sess, probeVars>>

EjectBackend(r) ==
    /\ pc[r] = "eject"
    /\ Eject(cur[r])
    /\ GoTo(r, "clear")
    /\ UNCHANGED <<queueVars, attempt, exclude, cur, result, sent, sess, probeVars>>

ClearAfterEject(r) ==
    /\ pc[r] = "clear"
    /\ ClearFailures(cur[r])
    /\ GoTo(r, "release")
    /\ UNCHANGED <<queueVars, attempt, exclude, cur, result, sent, sess, probeVars>>

Release(r) ==
    /\ pc[r] = "release"
    /\ SubInflight(cur[r])
    /\ GoTo(r, "signal")
    /\ UNCHANGED <<queueVars, attempt, exclude, cur, result, sent, sess, probeVars>>

\* Mutant of AfterForward: the failed backend is not excluded.
RetriesAnywhere(r) ==
    IF result[r] # "pending"
      THEN GoTo(r, "done") /\ UNCHANGED <<attempt, exclude, cur, result>>
      ELSE NextAttempt(r) /\ UNCHANGED exclude

\* Mutant of AfterForward: tries again whatever the outcome.
RetriesAlways(r) ==
    /\ exclude' = [exclude EXCEPT ![r] = @ \cup {cur[r]}]
    /\ NextAttempt(r)

\* After the signal: return if answered, else exclude the backend and try again.
AfterForward(r) ==
    IF result[r] # "pending"
      THEN GoTo(r, "done") /\ UNCHANGED <<attempt, exclude, cur, result>>
      ELSE /\ exclude' = [exclude EXCEPT ![r] = @ \cup {cur[r]}]
           /\ NextAttempt(r)

Signal(r) ==
    /\ pc[r] = "signal"
    /\ IF SignalSkips
         THEN AfterForward(r)
         ELSE GoTo(r, "broadcast") /\ UNCHANGED <<attempt, exclude, cur, result>>
    /\ UNCHANGED <<backendVars, queueVars, sent, sess, probeVars>>

SignalBroadcast(r) ==
    /\ pc[r] = "broadcast"
    /\ Broadcast
    /\ AfterForward(r)
    /\ UNCHANGED <<backendVars, sent, sess, probeVars>>

-----------------------------------------------------------------------------
(* Health probes: a goroutine per backend and per tick, which may overlap. *)

\* The reply is in hand and compared with the flag: on a flip the callback runs first.
ProbeReturns(p, b, ok) ==
    /\ ppc[p] = "idle"
    /\ target' = [target EXCEPT ![p] = b]
    /\ verdict' = [verdict EXCEPT ![p] = ok]
    /\ ppc' = [ppc EXCEPT ![p] =
                 IF (b \in healthy) = ok THEN "set" ELSE IF ok THEN "signal" ELSE "invalidate"]
    /\ UNCHANGED <<backendVars, queueVars, requestVars, sess>>

ProbeInvalidate(p) ==
    /\ ppc[p] = "invalidate"
    /\ sess' = [s \in Sessions |-> IF sess[s] = target[p] THEN NoBackend ELSE sess[s]]
    /\ ppc' = [ppc EXCEPT ![p] = "flip"]
    /\ UNCHANGED <<backendVars, queueVars, requestVars, target, verdict>>

ProbeSignal(p) ==
    /\ ppc[p] = "signal"
    /\ ppc' = [ppc EXCEPT ![p] = IF SignalSkips THEN "flip" ELSE "broadcast"]
    /\ UNCHANGED <<backendVars, queueVars, requestVars, sess, target, verdict>>

ProbeBroadcast(p) ==
    /\ ppc[p] = "broadcast"
    /\ Broadcast
    /\ ppc' = [ppc EXCEPT ![p] = "flip"]
    /\ UNCHANGED <<backendVars, requestVars, sess, target, verdict>>

\* The flag is stored with or without a callback before it ("flip" or "set").
ProbeSet(p) ==
    /\ ppc[p] \in {"flip", "set"}
    /\ SetHealthy(target[p], verdict[p])
    /\ ppc' = [ppc EXCEPT ![p] = "idle"]
    /\ target' = [target EXCEPT ![p] = NoBackend]
    /\ verdict' = [verdict EXCEPT ![p] = TRUE]
    /\ UNCHANGED <<queueVars, requestVars, sess>>

-----------------------------------------------------------------------------
(* What happens around the requests.                                       *)

EndCooldown(b) ==
    /\ CooldownEnds(b)
    /\ UNCHANGED <<queueVars, requestVars, sess, probeVars>>

\* POST /admin/backends/{id}/cordon and uncordon; neither signals the queue.
SetCordon(b, on) ==
    /\ on # (b \in cordoned)
    /\ Cordon(b, on)
    /\ UNCHANGED <<queueVars, requestVars, sess, probeVars>>

\* A binding outlives its TTL, or is evicted for another session's.
Forget(s) ==
    /\ sess[s] # NoBackend
    /\ sess' = [sess EXCEPT ![s] = NoBackend]
    /\ UNCHANGED <<backendVars, queueVars, requestVars, probeVars>>

\* Every request has been answered: the gateway idles.
Idle ==
    /\ \A r \in Requests : pc[r] = "done"
    /\ UNCHANGED vars

-----------------------------------------------------------------------------

ChooseStep(r) ==
    \/ Lookup(r) \/ Unbind(r) \/ PickFails(r) \/ RetryFails(r)
    \/ \E b \in Backends : Pick(r, b) \/ Retry(r, b)

QueueStep(r) ==
    \/ Enter(r) \/ Refuse(r) \/ RegisterWaiter(r) \/ Block(r)
    \/ DeregisterWaiter(r) \/ LeaveQueue(r)

SlotStep(r) == Acquire(r) \/ Undo(r) \/ Release(r)

ForwardStep(r) == ForwardOk(r) \/ ForwardUnrecorded(r) \/ ForwardFails(r)

RecordStep(r) ==
    \/ MarkSuccess(r) \/ Bind(r)
    \/ MarkFailure(r) \/ EjectBackend(r) \/ ClearAfterEject(r)

SignalStep(r) == Signal(r) \/ SignalBroadcast(r)

\* The steps a request takes on its own, and those that end its wait in the queue.
RequestStep(r) ==
    \/ ChooseStep(r) \/ QueueStep(r) \/ SlotStep(r)
    \/ ForwardStep(r) \/ RecordStep(r) \/ SignalStep(r)

WaitEnds(r) == Wake(r) \/ Poll(r) \/ Expire(r) \/ Disconnect(r)

ProbeStep(p) ==
    \/ ProbeInvalidate(p) \/ ProbeSignal(p) \/ ProbeBroadcast(p) \/ ProbeSet(p)

Environment ==
    \/ \E p \in Probes, b \in Probed, ok \in BOOLEAN : ProbeReturns(p, b, ok)
    \/ \E b \in Backends : EndCooldown(b)
    \/ \E b \in Cordonable, on \in BOOLEAN : SetCordon(b, on)
    \/ \E s \in Sessions : Forget(s)
    \/ Idle

Next ==
    \/ \E r \in Requests : RequestStep(r) \/ WaitEnds(r)
    \/ \E p \in Probes : ProbeStep(p)
    \/ Environment

Spec == Init /\ [][Next]_vars

\* Goroutines are scheduled, upstreams answer, closed channels and tickers are
\* noticed, cooldowns end.  Nothing obliges a timer of max_wait to be reached.
Progress ==
    /\ \A r \in Requests : WF_vars(RequestStep(r)) /\ WF_vars(Wake(r)) /\ WF_vars(Poll(r))
    /\ \A p \in Probes : WF_vars(ProbeStep(p))
    /\ \A b \in Backends : WF_vars(EndCooldown(b))

FairSpec == Spec /\ Progress

\* An expired timer stays ready, and select chooses among ready cases at random.
Deadlines == \A r \in Requests : SF_vars(Expire(r))

TimedSpec == FairSpec /\ Deadlines

-----------------------------------------------------------------------------
(* Properties.                                                             *)

At(steps) == {r \in Requests : pc[r] \in steps}
On(b, steps) == {r \in At(steps) : cur[r] = b}

\* The steps from a granted slot to its release, and all that inflight counts.
Holding == {"forward", "succeed", "bind", "fail", "eject", "clear", "release"}
Counted == Holding \cup {"undo"}

\* The steps of a request registered as a waiter, admitted to the queue, and
\* inside the depth counter.
Registered == {"listen", "wait", "retry", "deregister"}
Queued == Registered \cup {"register", "leave"}
InDepth == Queued \cup {"refuse"}

\* max_concurrency is never exceeded: although TryAcquire increments before it
\* compares, so that the counter overshoots, the requests actually being
\* forwarded to a backend never outnumber its limit.
CapacityRespected ==
    \A b \in Backends :
        MaxConcurrency[b] > 0 => Cardinality(On(b, Holding)) <= MaxConcurrency[b]

\* The counters implement the slots they stand for: seen from the requests that
\* hold a slot, the racy TryAcquire and Release are the Grant and GiveBack of
\* SlotPool, and every other step of the gateway is invisible.
Slots == INSTANCE SlotPool WITH holders <- [b \in Backends |-> On(b, Holding)]

ImplementsSlotPool == Slots!Spec

\* No slot leaks and none is freed twice: on every path out of serveNormal,
\* inflight counts exactly the requests between an Add(1) and its Add(-1).
InflightExact == \A b \in Backends : inflight[b] = Cardinality(On(b, Counted))

\* The queue never admits more than max_depth requests, and its three counters
\* say exactly who is in it, whichever way WaitFor returns; Signal relies on
\* waiters for not skipping a blocked request.
QueueAccounting ==
    /\ Cardinality(At(Queued)) <= MaxDepth
    /\ depth = Cardinality(At(InDepth))
    /\ waiters = Cardinality(At(Registered))
    /\ \A m \in Models :
          classes[m] = Cardinality({r \in At(Registered \cup {"leave"}) : ModelOf[r] = m})

\* A request blocked in WaitFor is either on the current channel or on a closed
\* one, and nobody else is: no broadcast is addressed to a request that left.
BlockedOnOneChannel ==
    /\ listening \cap woken = {}
    /\ listening \cup woken = At({"wait"})

\* The failure counter of MarkFailure does not stay at the threshold: while it is
\* there, some request is still between its Add and its Store(0).  Otherwise one
\* more failure would eject a backend that had none in a row.
BreakerCounterSettles ==
    \A b \in Backends :
        fails[b] >= FailureThreshold => On(b, {"eject", "clear"}) # {}

\* A retry changes backend: a request is never forwarded again to a backend it
\* was already forwarded to, through all its attempts and stays in the queue.
NoResend ==
    [][\A r \in Requests :
          pc[r] = "acquire" /\ pc'[r] = "forward" => cur[r] \notin sent[r]]_vars

AnswerKept ==
    \A r \in Requests :
        result[r] # "pending" => result'[r] = result[r] /\ sent'[r] = sent[r]

\* An answer is final: once serveNormal has decided how a request ends, no later
\* step changes it and the request takes no further slot.
AnswerIsFinal == [][AnswerKept]_vars

\* The claim of health.go:19 that the callback runs when a backend's health flips:
\* the flag changes only in a probe that has run it.
FlipCallsBack ==
    [][\A b \in Backends :
          (b \in healthy) # (b \in healthy')
              => \E p \in Probes : ppc[p] = "flip" /\ target[p] = b /\ ppc'[p] = "idle"]_vars

\* Every request is answered: none is stuck in the attempts loop or the queue.
EveryRequestAnswered == \A r \in Requests : <>(pc[r] = "done")

\* The fallback ticker makes up for lost signals: a queued request that some
\* backend of its pool could still serve leaves the queue even if max_wait is
\* never reached.
QueuedRequestServed ==
    \A r \in Requests :
        pc[r] = "wait" /\ PoolOf(r) \ exclude[r] # {} ~> pc[r] \notin Registered

SignalReaches ==
    QueueEnabled =>
        /\ \A x \in Requests :
              /\ pc[x] \in {"signal", "broadcast"}
              /\ pc'[x] \notin {"signal", "broadcast"}
              => listening' = {}
        /\ \A p \in Probes :
              ppc[p] \in {"signal", "broadcast"} /\ ppc'[p] = "flip" => listening' = {}

\* A Signal reaches every request blocked when it returns: it skips the broadcast
\* on the count of waiters alone, which therefore must include all of them.
SignalReachesBlocked == [][SignalReaches]_vars

\* The claim of queue.go:125-128 that registering before taking the channel loses
\* no signal: no request stays blocked on the current channel while a backend
\* could take it, unless a Signal is on its way.
SignalNotSwallowed ==
    \A r \in listening :
        Candidates(r) # {} =>
            \/ At({"signal", "broadcast"}) # {}
            \/ \E p \in Probes : ppc[p] \in {"signal", "broadcast"}

\* The claim of main.go:287 that a recovery wakes the queued requests: when the
\* health flag is raised, a request blocked on the current channel that this
\* backend could serve still has a Signal to come.
RecoveryWakesQueue ==
    [][\A p \in Probes, r \in listening :
          /\ ppc[p] = "flip" /\ verdict[p] /\ ppc'[p] = "idle"
          /\ target[p] \in PoolOf(r) \ exclude[r]
          => \/ At({"signal", "broadcast"}) # {}
             \/ \E q \in Probes : ppc[q] \in {"signal", "broadcast"}]_vars

\* The claim of queue.go:1-2 and config.go:184-185 that a request waits for capacity
\* that may be freed: some backend of its pool is not excluded for it.
QueuedForCapacity == \A r \in At(Registered) : PoolOf(r) \ exclude[r] # {}

\* The claim of config.go:210 that attempts are used up by failed forwards: a
\* request is answered 502 only if it was forwarded at least once.
ExhaustedByFailures == \A r \in Requests : result[r] = "exhausted" => sent[r] # {}

=============================================================================
