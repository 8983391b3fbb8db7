----------------------------- MODULE MCBauLauf -----------------------------
(* BauLauf for model checking: every constant is given in the .cfg. *)
EXTENDS BauLauf
=============================================================================
