------------------------------- MODULE MCRcu -------------------------------
(* Rcu for model checking: the threads are model values.                    *)
EXTENDS Rcu
=============================================================================
