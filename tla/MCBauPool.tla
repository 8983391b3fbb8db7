----------------------------- MODULE MCBauPool -----------------------------
(* BauPool for model checking: a build identity with none and with one      *)
(* variant enabled, and another identity.                                   *)
EXTENDS BauPool

MCFingerprint ==
  {[ident |-> "i1", bvset |-> {}], [ident |-> "i1", bvset |-> {"g"}],
   [ident |-> "i2", bvset |-> {"g"}]}
=============================================================================
