----------------------------- MODULE MCMpmcRing -----------------------------
(* MpmcRing for model checking: the calls are model values.                 *)
EXTENDS MpmcRing
=============================================================================
