---------------------------- MODULE Subsequence -----------------------------
(***************************************************************************)
(* Parts of sequences, in a form that can be reasoned about: what is left  *)
(* when some elements are taken out, and how far two sequences agree.      *)
(***************************************************************************)
EXTENDS Naturals, Sequences, FiniteSets

\* The elements of s that are in S, in their order.
Only(s, S) ==
    LET kept == {n \in DOMAIN s : s[n] \in S}
    IN  [k \in 1 .. Cardinality(kept) |->
            s[CHOOSE n \in kept : Cardinality({m \in kept : m <= n}) = k]]

\* commonLen, of whole paths of the prefix tree instead of edges.
CommonLen(p, key) ==
    Cardinality({n \in DOMAIN p : n <= Len(key) /\ \A i \in 1 .. n : p[i] = key[i]})

\* The whole path matches.
IsPrefix(p, key) == CommonLen(p, key) = Len(p)
IsStrictPrefix(p, key) == IsPrefix(p, key) /\ p # key
=============================================================================
