----------------------------- MODULE MCSessions -----------------------------
(***************************************************************************)
(* Two gateway instances that share one session, in the face of failing    *)
(* calls or of expiry, and one instance with more sessions than its table  *)
(* holds.                                                                  *)
(***************************************************************************)
EXTENDS Sessions

CONSTANTS i1, i2, k1, k2, b1, b2

Case(s, is, ks, bs, fails, expire, turns) ==
    [shared |-> s, instances |-> is, keys |-> ks, failing |-> bs,
     faults |-> fails, expiries |-> expire, flips |-> turns]

Cases == {Case(TRUE, {i1, i2}, {k1}, {b1}, 1, 0, 2),
          Case(TRUE, {i1, i2}, {k1}, {b1}, 0, 1, 1),
          Case(FALSE, {i1}, {k1, k2}, {b1, b2}, 0, 1, 2)}

NothingHappens == {Case(TRUE, {i1, i2}, {k1}, {}, 0, 0, 0)}
=============================================================================
