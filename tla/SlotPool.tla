----------------------------- MODULE SlotPool ------------------------------
(***************************************************************************)
(* What the backends' counters promise the requests, without the counters: *)
(* each backend is a pool of max_concurrency slots (0: unlimited); a slot  *)
(* is granted only while the pool has one, and a request that holds a slot *)
(* gives it back before it gets another.  Where a request makes several    *)
(* calls (PD), each of them is a request here.                             *)
(***************************************************************************)
EXTENDS Integers, FiniteSets

CONSTANTS Backends, Requests, MaxConcurrency

VARIABLE holders    \* holders[b]: the requests that hold a slot of b

Init == holders = [b \in Backends |-> {}]

Grant(r, b) ==
    /\ \A c \in Backends : r \notin holders[c]
    /\ MaxConcurrency[b] = 0 \/ Cardinality(holders[b]) < MaxConcurrency[b]
    /\ holders' = [holders EXCEPT ![b] = @ \cup {r}]

GiveBack(r, b) ==
    /\ r \in holders[b]
    /\ holders' = [holders EXCEPT ![b] = @ \ {r}]

Next == \E r \in Requests, b \in Backends : Grant(r, b) \/ GiveBack(r, b)

Spec == Init /\ [][Next]_holders

=============================================================================
