----------------------------- MODULE MCServing -----------------------------
(***************************************************************************)
(* Small instances of Serving.  Requests and backends are model values;    *)
(* the functions over them are chosen by the .cfg files.                   *)
(***************************************************************************)
EXTENDS Serving, TLC

CONSTANTS r1, r2, r3, r4, b1, b2, m1, m2, s1, p1, p2

\* One model on one backend with one slot, or on every backend.
OneModel == [r \in Requests |-> m1]
WholePool == [m \in Models |-> Backends]

\* Two models that share b1; only m2 may also use b2.
TwoModels == [r \in Requests |-> IF r = r1 THEN m1 ELSE m2]
SharedPool == [m \in Models |-> IF m = m1 THEN {b1} ELSE Backends]

NoSessions == [r \in Requests |-> NoSession]
OneSession == [r \in Requests |-> s1]

OneSlotEach == [b \in Backends |-> 1]
OneLimited == [b \in Backends |-> IF b = b1 THEN 1 ELSE 0]

Symmetric == Permutations(Requests) \cup Permutations(Probes)

=============================================================================
