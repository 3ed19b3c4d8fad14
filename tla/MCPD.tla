------------------------------- MODULE MCPD -------------------------------
(* Two requests, or one whose client may leave, on a group of a vllm and   *)
(* an sglang prefill and two decodes with a slot each, but no limit on the *)
(* sglang prefill; one link is missing.                                    *)
EXTENDS PD

CONSTANTS r1, r2, r3, pv, ps, d1, d2

Slots == [b \in Backends |-> IF b = ps THEN 0 ELSE 1]
Together == {{r1, r2}, {r3}}
\* Two requests only, for the refinement.
Both == {{r1, r2}}
Wiring == {<<pv, d1>>, <<ps, d1>>, <<ps, d2>>}

=============================================================================
