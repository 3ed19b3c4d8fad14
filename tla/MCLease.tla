------------------------------ MODULE MCLease ------------------------------
(***************************************************************************)
(* Small instances of LeaderLease.                                         *)
(***************************************************************************)
EXTENDS LeaderLease, TLC

Symmetric == Permutations(Instances)

=============================================================================
