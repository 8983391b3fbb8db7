-------------------------- MODULE MCAsyncPushPump --------------------------
(* AsyncPushPump for model checking: directories and threads are model      *)
(* values.                                                                  *)
EXTENDS AsyncPushPump
=============================================================================
