------------------------------ MODULE Sessions ------------------------------
(***************************************************************************)
(* Session stickiness: the local table of every gateway instance           *)
(* (internal/session/store.go), the table all instances share in Redis     *)
(* (internal/cluster/session.go), the requests that look sessions up, bind *)
(* and unbind them (proxy.go, serveNormal and forwardOnce) and the         *)
(* invalidation when a backend goes down or is removed (main.go).          *)
(*                                                                         *)
(* A local table is a sequence of entries in the order of their expiry:    *)
(* sliding the expiry moves an entry to the end, and the entry that        *)
(* expires or is evicted first is the head.  One shard is modelled.  Each  *)
(* call to Redis is a step of its own and may fail.                        *)
(***************************************************************************)
EXTENDS Naturals, Sequences, FiniteSets, Functions, Subsequence

CONSTANTS
    Gateways,
    Keys,           \* session IDs
    Backends,
    MaxPerShard,
    Deployments     \* what is checked: the instances and keys in use, the backends that go
                    \* out at times, whether SessionMode is "shared" and the
                    \* instances use Redis, and bounds on the failed calls to
                    \* Redis, on expiries and on the times a backend goes out or
                    \* comes back somewhere

ASSUME TableAssumption == MaxPerShard \in Nat \ {0}

None == "none"

VARIABLES
    dep,            \* the deployment
    local,          \* instance |-> its table
    redis,          \* key |-> the backend the shared table binds it to, or None
    out,            \* instance |-> the backends it has removed or finds unavailable
    req,            \* instance |-> the progress of its request
    inv,            \* instance |-> the progress of its InvalidateBackend
    faults, expiries, flips

vars == <<dep, local, redis, out, req, inv, faults, expiries, flips>>

Idle == [pc |-> "idle", key |-> None, b |-> None]
Calm == [pc |-> "idle", b |-> None, out |-> FALSE, keys |-> {}]

Init ==
    /\ dep \in Deployments
    /\ local = [i \in Gateways |-> << >>]
    /\ redis = [k \in Keys |-> None]
    /\ out = [i \in Gateways |-> {}]
    /\ req = [i \in Gateways |-> Idle]
    /\ inv = [i \in Gateways |-> Calm]
    /\ faults = 0 /\ expiries = 0 /\ flips = 0

-----------------------------------------------------------------------------
(* The local table: Lookup, Bind, Unbind and InvalidateBackend of Store. *)

Others(t, k) == Only(t, {e \in Range(t) : e.key # k})
Found(t, k) == IF \E e \in Range(t) : e.key = k THEN (CHOOSE e \in Range(t) : e.key = k).b ELSE None
Touched(t, k) == IF Found(t, k) = None THEN t ELSE Append(Others(t, k), [key |-> k, b |-> Found(t, k)])

\* Mutant of EvictOldest: nothing is evicted.
EvictNothing(t) == t

EvictOldest(t) == Tail(t)

\* A new key in a full shard evicts the entry that expires first.
Bound(t, k, b) ==
    LET room == IF Found(t, k) = None /\ Len(t) >= MaxPerShard THEN EvictOldest(t) ELSE t
    IN  Append(Others(room, k), [key |-> k, b |-> b])

Cleared(t, b) == Only(t, {e \in Range(t) : e.b # b})

\* A call to Redis by instance i: done, or failed and only counted (errHook).
Call(done) ==
    \/ done /\ UNCHANGED faults
    \/ faults < dep.faults /\ faults' = faults + 1 /\ UNCHANGED redis

-----------------------------------------------------------------------------
(* A request.  Every instance serves one at a time. *)

Becomes(i, v) == req' = [req EXCEPT ![i] = v]

\* Lookup: what Redis says, and what the local table says if Redis has no entry or
\* fails.  Only the table that answers slides the expiry.
Lookup(i, k) ==
    LET here == Found(local[i], k)
        Hit(b) == Becomes(i, [pc |-> IF b = None THEN "pick" ELSE "found", key |-> k, b |-> b])
        Here   == Hit(here) /\ local' = [local EXCEPT ![i] = Touched(@, k)]
    IN  /\ i \in dep.instances /\ k \in dep.keys
        /\ req[i].pc = "idle"
        /\ \/ (dep.shared => redis[k] = None) /\ Here /\ UNCHANGED faults
           \/ dep.shared /\ redis[k] # None /\ Hit(redis[k]) /\ UNCHANGED <<local, faults>>
           \/ dep.shared /\ faults < dep.faults /\ faults' = faults + 1 /\ Here
        /\ UNCHANGED <<dep, redis, out, inv, expiries, flips>>

\* Mutant of AfterUnbind: only the local table is unbound.
AfterUnbindLocal == "pick"

AfterUnbind == IF dep.shared THEN "unbind" ELSE "pick"

\* serveNormal with a binding: it is followed if the backend is in the pool and
\* available, otherwise it is unbound, here first.
Prefer(i) ==
    LET q == req[i]
    IN  /\ q.pc = "found"
        /\ IF q.b \in out[i]
           THEN /\ Becomes(i, [q EXCEPT !.pc = AfterUnbind, !.b = None])
                /\ local' = [local EXCEPT ![i] = Others(@, q.key)]
           ELSE Becomes(i, [q EXCEPT !.pc = "sent"]) /\ UNCHANGED local
        /\ UNCHANGED <<dep, redis, out, inv, faults, expiries, flips>>

\* The other half of Unbind.
UnbindShared(i) ==
    /\ req[i].pc = "unbind"
    /\ Becomes(i, [req[i] EXCEPT !.pc = "pick"])
    /\ Call(redis' = [redis EXCEPT ![req[i].key] = None])
    /\ UNCHANGED <<dep, local, out, inv, expiries, flips>>

\* A pick by the scheduler, or no backend at all.
Pick(i) ==
    /\ req[i].pc = "pick"
    /\ \/ \E b \in Backends \ out[i] : Becomes(i, [req[i] EXCEPT !.pc = "sent", !.b = b])
       \/ out[i] = Backends /\ Becomes(i, Idle)
    /\ UNCHANGED <<dep, local, redis, out, inv, faults, expiries, flips>>

\* An answer below 400 binds the session, here first.
Bind(i) ==
    LET q == req[i]
    IN  /\ q.pc = "sent"
        /\ local' = [local EXCEPT ![i] = Bound(@, q.key, q.b)]
        /\ Becomes(i, IF dep.shared THEN [q EXCEPT !.pc = "bind"] ELSE Idle)
        /\ UNCHANGED <<dep, redis, out, inv, faults, expiries, flips>>

\* The other half of Bind.
BindShared(i) ==
    /\ req[i].pc = "bind"
    /\ Becomes(i, Idle)
    /\ Call(redis' = [redis EXCEPT ![req[i].key] = req[i].b])
    /\ UNCHANGED <<dep, local, out, inv, expiries, flips>>

\* Any other end of the request binds nothing.
Fail(i) ==
    /\ req[i].pc = "sent"
    /\ Becomes(i, Idle)
    /\ UNCHANGED <<dep, local, redis, out, inv, faults, expiries, flips>>

-----------------------------------------------------------------------------
(* Backends that go and come, and expiry. *)

\* A health check or a DELETE takes the backend out and then invalidates it; the
\* subscriber of the backend broadcast invalidates it first; a cooldown, a cordon or the
\* reconciler does not invalidate it.
GoesOut(i, b, how) ==
    /\ i \in dep.instances /\ b \in dep.failing
    /\ flips < dep.flips
    /\ inv[i].pc = "idle"
    /\ b \notin out[i]
    /\ flips' = flips + 1
    /\ out' = [out EXCEPT ![i] = IF how = "told" THEN @ ELSE @ \cup {b}]
    /\ inv' = [inv EXCEPT ![i] = IF how = "quiet" THEN Calm
                                 ELSE [Calm EXCEPT !.pc = "local", !.b = b, !.out = (how = "told")]]
    /\ UNCHANGED <<dep, local, redis, req, faults, expiries>>

ComesBack(i, b) ==
    /\ flips < dep.flips
    /\ inv[i].pc = "idle"
    /\ b \in out[i]
    /\ flips' = flips + 1
    /\ out' = [out EXCEPT ![i] = @ \ {b}]
    /\ UNCHANGED <<dep, local, redis, req, inv, faults, expiries>>

InvalidateBackend(i) ==
    /\ inv[i].pc = "local"
    /\ local' = [local EXCEPT ![i] = Cleared(@, inv[i].b)]
    /\ inv' = [inv EXCEPT ![i].pc = IF dep.shared THEN "scan" ELSE "end"]
    /\ UNCHANGED <<dep, redis, out, req, faults, expiries, flips>>

\* deleteSharedByBackend: SCAN and MGET find the keys, DEL deletes them whatever they
\* are bound to by then; an error ends it.
ScanShared(i) ==
    /\ inv[i].pc = "scan"
    /\ \/ /\ inv' = [inv EXCEPT ![i].pc = "del", ![i].keys = {k \in Keys : redis[k] = inv[i].b}]
          /\ UNCHANGED faults
       \/ /\ faults < dep.faults /\ faults' = faults + 1
          /\ inv' = [inv EXCEPT ![i].pc = "end"]
    /\ UNCHANGED <<dep, local, redis, out, req, expiries, flips>>

DeleteShared(i) ==
    /\ inv[i].pc = "del"
    /\ inv' = [inv EXCEPT ![i].pc = "end"]
    /\ Call(redis' = [k \in Keys |-> IF k \in inv[i].keys THEN None ELSE redis[k]])
    /\ UNCHANGED <<dep, local, out, req, expiries, flips>>

Invalidated(i) ==
    /\ inv[i].pc = "end"
    /\ out' = [out EXCEPT ![i] = IF inv[i].out THEN @ \cup {inv[i].b} ELSE @]
    /\ inv' = [inv EXCEPT ![i] = Calm]
    /\ UNCHANGED <<dep, local, redis, req, faults, expiries, flips>>

\* An entry nobody used for its TTL is gone.
ExpireLocal(i) ==
    /\ expiries < dep.expiries /\ expiries' = expiries + 1
    /\ local[i] # << >>
    /\ local' = [local EXCEPT ![i] = Tail(@)]
    /\ UNCHANGED <<dep, redis, out, req, inv, faults, flips>>

ExpireShared(k) ==
    /\ expiries < dep.expiries /\ expiries' = expiries + 1
    /\ redis[k] # None
    /\ redis' = [redis EXCEPT ![k] = None]
    /\ UNCHANGED <<dep, local, out, req, inv, faults, flips>>

-----------------------------------------------------------------------------
Serve(i) ==
    Prefer(i) \/ UnbindShared(i) \/ Pick(i) \/ Bind(i) \/ BindShared(i) \/ Fail(i)

Invalidate(i) ==
    InvalidateBackend(i) \/ ScanShared(i) \/ DeleteShared(i) \/ Invalidated(i)

Next ==
    \/ \E i \in Gateways :
         \/ \E k \in Keys : Lookup(i, k)
         \/ Serve(i)
         \/ Invalidate(i)
         \/ \E b \in Backends : ComesBack(i, b) \/ \E how \in {"down", "told", "quiet"} : GoesOut(i, b, how)
         \/ ExpireLocal(i)
    \/ \E k \in Keys : ExpireShared(k)

Spec == Init /\ [][Next]_vars

\* Requests and invalidations that have begun go on, and every session stays in use
\* on every instance.
FairSpec ==
    /\ Spec
    /\ \A i \in Gateways :
         /\ WF_vars(Serve(i)) /\ WF_vars(Invalidate(i))
         /\ \A k \in Keys : SF_vars(Lookup(i, k))

-----------------------------------------------------------------------------
(* Properties. *)

\* A table has one entry for a key and never more entries than its capacity, also when
\* invalidation, expiry and eviction meet (Store.Bind, evictOldest).
TableBounded ==
    \A i \in Gateways :
        /\ Len(local[i]) <= MaxPerShard
        /\ \A m, n \in DOMAIN local[i] : local[i][m].key = local[i][n].key => m = n

\* What a lookup of the session by the instance would find.
Seen(i, k) == IF dep.shared /\ redis[k] # None THEN redis[k] ELSE Found(local[i], k)

\* Out everywhere and for good, as far as the bound on flips lets one tell.
Dead == {b \in Backends : \A i \in dep.instances : b \in out[i]}

\* "Residual bindings are released by the proxy after the next Lookup hits them"
\* (deleteSharedByBackend): bindings to a backend that is out on every instance go away
\* for good, though answers that were under way bind it again, calls to Redis fail,
\* and instances hold copies of what others have unbound.
DeadBindingsGo ==
    <>[](\A i \in dep.instances, k \in Keys : Seen(i, k) \notin Dead)

\* "All instances see one binding of the session to a backend, the session no longer
\* changes backends" (session.go of the cluster): without failures, expiry and
\* backends that go out, the binding of a session settles.
BindingSettles == \A k \in Keys : <>[][redis'[k] = redis[k]]_vars
=============================================================================
