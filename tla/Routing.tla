------------------------------ MODULE Routing -------------------------------
(***************************************************************************)
(* How a request finds its backend while backends come and go: the         *)
(* registry with its copy-on-write pools and weighted subpools             *)
(* (internal/backend/registry.go), the scheduler with its cache of hash    *)
(* rings (internal/scheduler/scheduler.go, ring.go) and the prefix tree    *)
(* that cache_aware reads and every answered request writes.               *)
(*                                                                         *)
(* There is one model route with subpools.  An instance is one value of    *)
(* *Backend: its ID and a number that tells it from other instances of the *)
(* same ID.  The registry's operations hold its lock, those of the tree    *)
(* the tree's, the lookup in the ring cache ringMu: each is a step.  A     *)
(* request takes a step for each such access, so anything may happen       *)
(* between the weights, the pool, the ring or tree, and the answer.        *)
(***************************************************************************)
EXTENDS PrefixTree, Functions, TLC

CONSTANTS
    Requests,
    Texts,          \* prompts
    Splits,         \* the names of the subpools, in the order of the configuration
    Strategy,       \* subpool or "whole" |-> its strategy
    Members,        \* subpool |-> the IDs it is configured with
    Weights,        \* the values SetWeight may give to a subpool's weight
    StartWeight,    \* subpool |-> its configured weight
    RingOrder,      \* prompt |-> the IDs in the order its key meets them on the ring
    Threshold,      \* MatchThreshold, in bytes of the key
    MaxRings,       \* maxRingCache
    MaxChanges,     \* bound on the changes of registry and weights
    MaxInserts      \* bound on the answered requests

VARIABLES
    byID,           \* ID |-> number of the registered instance, 0 if there is none
    pool,           \* subpool or "whole" |-> the sequence of its instances
    weight,
    rings,          \* ringsStable: signature |-> the pool the ring was built from
    tree,
    req,            \* request |-> its progress
    clock,          \* answered requests so far, the time of the last mark
    changes,
    served          \* history: the marks set, as far as they have not been taken away

vars == <<byID, pool, weight, rings, tree, req, clock, changes, served>>

Ids == Owners
Whole == "whole"
Pools == {Whole} \cup Range(Splits)
Instances == [id : Ids, n : 1 .. MaxChanges + 1]
Registered == {b \in Instances : byID[b.id] = b.n}
IDsOf(bs) == {b.id : b \in Range(bs)}

\* The subpools have names of their own, weights are not negative, and every backend is
\* somewhere on the ring of a prompt.
ASSUME RouteAssumption ==
    /\ IsFiniteSet(Ids) /\ MaxChanges \in Nat /\ Weights \subseteq Nat
    /\ Splits \in Seq(Range(Splits)) /\ Splits # << >> /\ Whole \notin Range(Splits)
    /\ Members \in [Range(Splits) -> SUBSET Ids] /\ StartWeight \in [Range(Splits) -> Nat]
    /\ \A text \in Texts : text \in Seq(Range(text)) /\ RingOrder[text] \in Seq(Ids) /\ Range(RingOrder[text]) = Ids

\* Some sequence of the instances that are there from the start.
PoolOf(ids) ==
    LET bs == {[id |-> i, n |-> 1] : i \in ids}
    IN  CHOOSE s \in Bijection(1 .. Cardinality(bs), bs) : TRUE

\* A request's progress.  `live' is history: the instances that were registered at
\* some time since the request began; `gone' whether the one picked was none of
\* these; `moved' whether a weight changed since the request added up the weights.
Idle == [pc |-> "idle", text |-> << >>, x |-> 0, k |-> 0, from |-> Whole, seen |-> << >>,
         cand |-> {}, b |-> [id |-> Whole, n |-> 0], live |-> {}, gone |-> FALSE, moved |-> FALSE]

\* NewRegistry: the members of the subpools, and without duplicates the whole pool.
Init ==
    /\ byID = [i \in Ids |-> IF \E s \in DOMAIN Members : i \in Members[s] THEN 1 ELSE 0]
    /\ pool = [p \in Pools |-> PoolOf(IF p = Whole THEN UNION Range(Members) ELSE Members[p])]
    /\ weight = StartWeight
    /\ rings = [s \in {} |-> << >>]
    /\ tree = EmptyTree
    /\ req = [r \in Requests |-> Idle]
    /\ clock = 0 /\ changes = 0
    /\ served = {}

-----------------------------------------------------------------------------
(* The registry. *)

\* removeLocked: the instance leaves every pool (without), and the hook of the
\* assembly clears its marks in the tree.
Removed(id, ps) == [p \in Pools |-> Only(ps[p], {b \in Range(ps[p]) : b.id # id})]

\* Mutant of Forget: no hook is installed.
ForgetNothing(id) == UNCHANGED <<tree, served>>

Forget(id) ==
    /\ tree' = RemoveBackedBy(tree, id)
    /\ served' = {h \in served : h.id # id}

\* Mutant of Joined: the subpools are left as they are.
JoinedWhole(ps, b) == [ps EXCEPT ![Whole] = Append(@, b)]

\* withBackend: a new instance is in no pool yet, so it is appended.
Joined(ps, b) == [p \in Pools |-> Append(ps[p], b)]

\* upsertLocked
Registering(id) ==
    LET b  == [id |-> id, n |-> changes + 2]
        ps == Removed(id, pool)
    IN  /\ changes < MaxChanges
        /\ changes' = changes + 1
        /\ byID' = [byID EXCEPT ![id] = b.n]
        /\ pool' = Joined(ps, b)
        /\ req' = [r \in Requests |-> IF req[r].pc \in {"idle", "sent"} THEN req[r]
                                      ELSE [req[r] EXCEPT !.live = @ \cup {b}]]
        /\ UNCHANGED <<weight, rings, clock>>

\* UpsertBackend, and AddBackend of an ID that is not registered: the old instance
\* goes and the new one comes in one step.
UpsertBackend(id) ==
    /\ Registering(id)
    /\ IF byID[id] > 0 THEN Forget(id) ELSE UNCHANGED <<tree, served>>

RemoveBackend(id) ==
    /\ byID[id] > 0
    /\ changes < MaxChanges
    /\ changes' = changes + 1
    /\ byID' = [byID EXCEPT ![id] = 0]
    /\ pool' = Removed(id, pool)
    /\ Forget(id)
    /\ UNCHANGED <<weight, rings, req, clock>>

\* SetWeight, by a rollout.
SetWeight(s, w) ==
    /\ changes < MaxChanges
    /\ changes' = changes + 1
    /\ weight[s] # w
    /\ weight' = [weight EXCEPT ![s] = w]
    /\ req' = [r \in Requests |-> IF req[r].pc = "split" THEN [req[r] EXCEPT !.moved = TRUE] ELSE req[r]]
    /\ UNCHANGED <<byID, pool, rings, tree, clock, served>>

-----------------------------------------------------------------------------
(* The scheduler. *)

Becomes(r, v) ==
    /\ req' = [req EXCEPT ![r] = v]
    /\ UNCHANGED <<byID, pool, weight, changes>>

\* The pick is over and the request is forwarded.
Send(r, b) ==
    Becomes(r, [Idle EXCEPT !.pc = "sent", !.text = req[r].text, !.b = b, !.gone = b \notin req[r].live])

\* The first loop of PickSplit.
WeightUpTo[k \in 0 .. Len(Splits)] == IF k = 0 THEN 0 ELSE WeightUpTo[k - 1] + weight[Splits[k]]
TotalWeight == WeightUpTo[Len(Splits)]

\* Pick: PickSplit adds up the weights and draws x below the sum; with no weight at
\* all the whole pool is used.
PickSplit(r) ==
    /\ req[r].pc = "idle"
    /\ clock < MaxInserts
    /\ \E text \in Texts :
         LET q == [Idle EXCEPT !.text = text, !.live = Registered]
         IN  IF TotalWeight > 0
             THEN \E x \in 0 .. TotalWeight - 1 :
                    Becomes(r, [q EXCEPT !.pc = "split", !.x = x, !.k = 1])
             ELSE Becomes(r, [q EXCEPT !.pc = "pool"])
    /\ UNCHANGED <<rings, tree, clock, served>>

\* Mutant of Reached: a subpool without weight may be the one.
ReachedAnyway(x, s) == x <= 0

Reached(x, s) == x <= 0 /\ weight[s] > 0

\* One turn of PickSplit's loop, which reads the weights again, and its last line.
ScanSplit(r) ==
    LET q == req[r]
        s == Splits[q.k]
        x == q.x - weight[s]
    IN  /\ q.pc = "split"
        /\ IF Reached(x, s) \/ q.k = Len(Splits)
           THEN Becomes(r, [q EXCEPT !.pc = "pool", !.from = s, !.x = 0, !.k = 0, !.moved = FALSE])
           ELSE Becomes(r, [q EXCEPT !.x = x, !.k = @ + 1])
        /\ UNCHANGED <<rings, tree, clock, served>>

\* PickAmong on a snapshot of the pool, up to what the strategy needs a lock for.  Any
\* of the backends may be excluded, unavailable or full at this moment.  A subpool
\* without candidates gives way to the whole pool, the whole pool to an error.
ReadPool(r) ==
    LET q == req[r]
    IN  /\ q.pc = "pool"
        /\ \E cand \in SUBSET Range(pool[q.from]) :
             \/ /\ cand = {}
                /\ Becomes(r, IF q.from = Whole THEN Idle ELSE [q EXCEPT !.from = Whole])
             \/ /\ Cardinality(cand) = 1
                /\ \E b \in cand : Send(r, b)
             \/ /\ Cardinality(cand) > 1
                /\ CASE Strategy[q.from] = "consistent_hash" ->
                           Becomes(r, [q EXCEPT !.pc = "ring", !.seen = pool[q.from], !.cand = cand])
                     [] Strategy[q.from] = "cache_aware" ->
                           Becomes(r, [q EXCEPT !.pc = "match", !.seen = pool[q.from], !.cand = cand])
                     [] OTHER -> \E b \in cand : Send(r, b)
        /\ UNCHANGED <<rings, tree, clock, served>>

\* ringSignatureContent
Signature(q) == IDsOf(q.seen)

\* Mutant of SameInstances: the signature is trusted.
SameInstancesAlways(a, b) == TRUE

SameInstances(a, b) == a = b

\* pickHashStable: the cached ring is used if it was built from the very same pool; a
\* full cache is dropped as a whole.  The key then walks the ring to the first
\* backend whose ID is among the candidates.
PickHashStable(r) ==
    LET q     == req[r]
        sig   == Signature(q)
        fresh == sig \in DOMAIN rings /\ SameInstances(rings[sig], q.seen)
        kept  == IF Cardinality(DOMAIN rings) >= MaxRings THEN [s \in {} |-> << >>] ELSE rings
        ring  == IF fresh THEN rings[sig] ELSE q.seen
        order == RingOrder[q.text]
        hits  == {n \in DOMAIN order : order[n] \in IDsOf(ring) /\ \E b \in q.cand : b.id = order[n]}
        found == CHOOSE b \in Range(ring) : b.id = order[Min(hits)]
    IN  /\ q.pc = "ring"
        /\ rings' = IF fresh THEN rings ELSE (sig :> q.seen) @@ kept
        /\ Send(r, found)
        /\ UNCHANGED <<tree, clock, served>>

\* pickCacheAware: the candidate with the longest match, if the match is long enough and the
\* candidate is not too loaded, otherwise the one with the least load; loads are any.
PickCacheAware(r) ==
    LET q    == req[r]
        m    == Match(tree, q.text)
        best == {b \in q.cand : m[b.id] > 0 /\ \A c \in q.cand : m[c.id] <= m[b.id]}
    IN  /\ q.pc = "match"
        /\ \E balanced \in BOOLEAN, b \in q.cand :
             /\ balanced /\ (\E c \in best : m[c.id] >= Threshold) => b \in best
             /\ Send(r, b)
        /\ UNCHANGED <<rings, tree, clock, served>>

-----------------------------------------------------------------------------
(* The answer. *)

\* Observe, after an answer below 400: the text is marked as served by the backend's
\* ID, whatever has become of the instance meanwhile.
Observe(r) ==
    LET q    == req[r]
        next == Insert(tree, q.text, q.b.id, clock + 1)
        mark == [id |-> q.b.id, n |-> q.b.n, text |-> Clip(q.text), at |-> clock + 1,
                 late |-> q.b.n # byID[q.b.id]]
    IN  /\ q.pc = "sent"
        /\ clock < MaxInserts
        /\ clock' = clock + 1
        /\ tree' = next
        /\ served' = {h \in served \cup {mark} : h.at > next.floor}
        /\ Becomes(r, Idle)
        /\ UNCHANGED rings

\* Any other end of the forward leaves the tree alone.
Fail(r) ==
    /\ req[r].pc = "sent"
    /\ Becomes(r, Idle)
    /\ UNCHANGED <<rings, tree, clock, served>>

\* RunPruner, with a deadline that lies anywhere in the past.
Prune ==
    \E deadline \in 1 .. clock :
        /\ deadline > tree.floor + 1
        /\ tree' = PruneNode(tree, deadline)
        /\ served' = {h \in served : h.at >= deadline}
        /\ UNCHANGED <<byID, pool, weight, rings, req, clock, changes>>

Next ==
    \/ \E i \in Ids : UpsertBackend(i) \/ RemoveBackend(i)
    \/ \E s \in Range(Splits), w \in Weights : SetWeight(s, w)
    \/ \E r \in Requests :
         \/ PickSplit(r) \/ ScanSplit(r) \/ ReadPool(r)
         \/ PickHashStable(r) \/ PickCacheAware(r)
         \/ Observe(r) \/ Fail(r)
    \/ Prune

Spec == Init /\ [][Next]_vars

-----------------------------------------------------------------------------
(* Properties. *)

\* "The whole pool is the union of the subpools, without duplicates" (withBackend), and no
\* pool holds an instance that is not registered: adding and removing treat all the
\* pools alike.
PoolsAgree ==
    /\ \A p \in Pools : Range(pool[p]) \subseteq Registered /\ IsInjective(pool[p])
    /\ Range(pool[Whole]) = UNION {Range(pool[s]) : s \in Range(Splits)}

\* A request is never forwarded to an instance that was gone before the request began,
\* even if an instance of the same ID is there and a ring of the old one is cached.
NeverAGoneInstance ==
    \A r \in Requests : ~ req[r].gone

\* The tree's counters are what a count of its nodes and edges gives, nothing is kept
\* that carries no mark below it, and after every Insert the tree is within its limits.
TreeCounted ==
    /\ tree.nodes = Cardinality(Nodes(tree))
    /\ tree.bytes = Cardinality(EdgeBytes(tree, Nodes(tree)))
    /\ \A p \in Nodes(tree) : \E q \in Nodes(tree) : IsPrefix(p, q) /\ tree.marks[q] # Nobody
    /\ ~ OverBudget(tree)

\* Match gives every backend the longest prefix the text has in common with a text
\* the backend is still recorded for, whatever was split, evicted and removed since.
MatchIsLongest ==
    \A text \in Texts, o \in Owners :
        Match(tree, text)[o] = Max({0} \cup {CommonLen(h.text, Clip(text)) : h \in {h \in served : h.id = o}})

\* A match speaks of the instance that is registered now: removing or replacing a
\* backend clears its marks.  The exception is a request that was under way at that
\* moment and was answered after it.
MarksAreOfTheInstance ==
    \A h \in served : h.n = byID[h.id] \/ h.late

\* A subpool without weight gets no request, unless a weight changed while PickSplit
\* was at work: it may then fall through to its last subpool.
NoWeightNoPick ==
    [][\A r \in Requests : req[r].pc = "split" /\ req'[r].pc = "pool" =>
           weight[req'[r].from] > 0 \/ req[r].moved]_vars
=============================================================================
