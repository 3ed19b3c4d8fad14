----------------------------- MODULE MCRouting ------------------------------
(***************************************************************************)
(* A route with a stable and a canary subpool over two backend IDs.        *)
(***************************************************************************)
EXTENDS Routing

CONSTANTS b1, b2

RequestsAlike == Permutations(Requests)

TwoSplits == <<"stable", "canary">>
Strategies == [whole |-> "random", stable |-> "cache_aware", canary |-> "consistent_hash"]
BothIn == [stable |-> {b1}, canary |-> {b1, b2}]
Even == [stable |-> 1, canary |-> 1]

\* Prompts that share bytes: one is a prefix of another, two fork, and the last is
\* longer than the bytes that count.
Prompts == {<<0>>, <<0, 0>>, <<0, 1, 1, 0>>}
Clockwise == [t \in Prompts |-> IF Len(t) = 1 THEN <<b1, b2>> ELSE <<b2, b1>>]
=============================================================================
