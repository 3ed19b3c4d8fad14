----------------------------- MODULE MCControl ------------------------------
(***************************************************************************)
(* Two gateways, and what may happen to their alerts.                      *)
(***************************************************************************)
EXTENDS Control

\* The alert comes and goes, and one more thing of each kind happens.
Trouble == [turn |-> 3, move |-> 1, gone |-> 2, error |-> 1, fail |-> 2]

\* The alert comes and goes while the lead moves.
Handover == [turn |-> 2, move |-> 1, gone |-> 0, error |-> 0, fail |-> 0]
=============================================================================
