------------------------------- MODULE MCSync -------------------------------
(* The instances of StateSync that TLC checks.                             *)
EXTENDS StateSync

CONSTANTS i1, i2, v1, v2

Case(k, st, lead, vals, n, f) ==
    [kind |-> k, store |-> st, leaders |-> lead, values |-> vals, changes |-> n, faults |-> f]

\* Conflicting changes without faults, then single changes with faults.
Cases ==
    { Case("policy", FALSE, {i1}, {v1, v2}, 2, 0),
      Case("policy", FALSE, {i1}, {v1}, 1, 1),
      Case("backend", FALSE, {i1}, {v1}, 2, 0),
      Case("backend", FALSE, {i1}, {v1}, 1, 1),
      Case("backend", TRUE, {}, {v1}, 2, 0),
      Case("backend", TRUE, {i1}, {v1}, 1, 1),
      Case("policy", TRUE, {}, {v1, v2}, 2, 0),
      Case("policy", TRUE, {i1}, {v1}, 1, 1) }

\* Two changes of a policy, without a database and without faults.
TwoPuts == {Case("policy", FALSE, {i1}, {v1, v2}, 2, 0)}
=============================================================================
