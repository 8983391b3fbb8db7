---------------------- MODULE MCRegistrierungsSidecar ----------------------
(***************************************************************************)
(* RegistrierungsSidecar for TLC.                                          *)
(***************************************************************************)
EXTENDS RegistrierungsSidecar, TLC

Symmetry == Permutations(Schluss) \cup Permutations(Ids)
=============================================================================
