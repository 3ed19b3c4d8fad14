---------------------------- MODULE RateLimiter -----------------------------
(***************************************************************************)
(* The distributed rate limiter (internal/cluster/ratelimit.go) on every   *)
(* gateway of a cluster, for one model: the quota in Redis, the breaker    *)
(* each gateway puts before Redis, and the local bucket it falls back to.  *)
(*                                                                         *)
(* A bucket is the number of requests it still lets pass; a refill gives   *)
(* it one more.  Redis and the local bucket use the same rate and burst    *)
(* (quantizeQPS).  A call of Allow takes three steps, so calls that see    *)
(* the breaker closed overlap, and their answers come in any order.        *)
(***************************************************************************)
EXTENDS Naturals

CONSTANTS
    Limiters,       \* the gateways
    Calls,          \* concurrent calls of Allow on a gateway
    FailOpen,       \* the gateways with failOpen
    Burst,
    Threshold,      \* breakerErrorThreshold
    MaxErrors,      \* bound on failed calls to Redis
    MaxRefills

VARIABLES
    call,           \* gateway, call |-> its progress
    consecErr,
    open,           \* gateway |-> whether openUntilNS lies in the future
    shared,         \* the bucket in Redis
    bucket,         \* gateway |-> its local bucket
    errors, refills,
    passed          \* history: the requests let through by Redis, and by the local
                    \* bucket of each gateway

ASSUME LimitAssumption == Burst \in Nat /\ Threshold \in Nat \ {0}

limitVars == <<call, consecErr, open, shared, bucket, errors, refills, passed>>

LimitInit ==
    /\ call = [gc \in Limiters \X Calls |-> "idle"]
    /\ consecErr = [g \in Limiters |-> 0]
    /\ open = [g \in Limiters |-> FALSE]
    /\ shared = Burst
    /\ bucket = [g \in Limiters |-> Burst]
    /\ errors = 0 /\ refills = 0
    /\ passed = [redis |-> 0, own |-> [g \in Limiters |-> 0]]

At(g, c, here, there) == call[<<g, c>>] = here /\ call' = [call EXCEPT ![<<g, c>>] = there]

\* Mutant of Opens: every gateway fails open.
OpensAlways(g) == TRUE

Opens(g) == g \in FailOpen

\* degraded, as the last thing a call of Allow does.
Degraded(g) ==
    IF Opens(g) /\ bucket[g] > 0
    THEN /\ bucket' = [bucket EXCEPT ![g] = @ - 1]
         /\ passed' = [passed EXCEPT !.own[g] = @ + 1]
    ELSE UNCHANGED <<bucket, passed>>

\* Allow up to the call to Redis: with the breaker open there is none.
Allow(g, c) ==
    \/ /\ open[g]
       /\ At(g, c, "idle", "idle")
       /\ Degraded(g)
       /\ UNCHANGED <<consecErr, open, shared, errors, refills>>
    \/ /\ ~ open[g]
       /\ At(g, c, "idle", "asked")
       /\ UNCHANGED <<consecErr, open, shared, bucket, errors, refills, passed>>

\* Redis takes the request, or the call fails: Redis is away, it is too slow, or the
\* client has gone (the call's context is the request's).
Answer(g, c) ==
    /\ UNCHANGED <<consecErr, open, bucket, refills>>
    /\ \/ /\ shared > 0
          /\ At(g, c, "asked", "answered")
          /\ shared' = shared - 1
          /\ passed' = [passed EXCEPT !.redis = @ + 1]
          /\ UNCHANGED errors
       \/ /\ shared = 0
          /\ At(g, c, "asked", "answered")
          /\ UNCHANGED <<shared, passed, errors>>
       \/ /\ errors < MaxErrors /\ errors' = errors + 1
          /\ At(g, c, "asked", "failed")
          /\ UNCHANGED <<shared, passed>>

\* What Allow does with the answer: an answer closes the breaker, also one that was
\* given before the errors that opened it.
Settle(g, c) ==
    \/ /\ At(g, c, "answered", "idle")
       /\ consecErr' = [consecErr EXCEPT ![g] = 0]
       /\ open' = [open EXCEPT ![g] = FALSE]
       /\ UNCHANGED <<shared, bucket, errors, refills, passed>>
    \/ /\ At(g, c, "failed", "idle")
       /\ consecErr' = [consecErr EXCEPT ![g] = @ + 1]
       /\ open' = [open EXCEPT ![g] = @ \/ consecErr[g] + 1 >= Threshold]
       /\ Degraded(g)
       /\ UNCHANGED <<shared, errors, refills>>

\* Mutant of WindowOver: the breaker stays open.
WindowForEver(g) == FALSE

\* breakerWindow is over: the next call tries Redis again.
WindowOver(g) ==
    /\ open[g]
    /\ open' = [open EXCEPT ![g] = FALSE]
    /\ UNCHANGED <<call, consecErr, shared, bucket, errors, refills, passed>>

\* One interval of the rate passes for every bucket.
Refill ==
    /\ refills < MaxRefills /\ refills' = refills + 1
    /\ shared' = IF shared < Burst THEN shared + 1 ELSE shared
    /\ bucket' = [g \in Limiters |-> IF bucket[g] < Burst THEN bucket[g] + 1 ELSE bucket[g]]
    /\ UNCHANGED <<call, consecErr, open, errors, passed>>

LimitNext ==
    \/ \E g \in Limiters :
         \/ \E c \in Calls : Allow(g, c) \/ Answer(g, c) \/ Settle(g, c)
         \/ WindowOver(g)
    \/ Refill

-----------------------------------------------------------------------------
(* Properties. *)

\* Redis lets through no more than its quota, and each gateway that fails open in
\* addition no more than its local bucket holds; a gateway that fails closed adds nothing
\* (degraded), and while Redis answers nobody does.
QuotaKept ==
    /\ passed.redis <= Burst + refills
    /\ \A g \in Limiters :
         /\ passed.own[g] <= IF g \in FailOpen THEN Burst + refills ELSE 0
         /\ errors = 0 => passed.own[g] = 0

\* "Success restores" (Allow): once Redis answers again the breaker of every gateway
\* closes and stays closed, though answers and errors of overlapping calls mix.
BreakerCloses == <>[](\A g \in Limiters : ~ open[g] /\ consecErr[g] < Threshold)
=============================================================================
