--------------------------- MODULE MCBestandslog ---------------------------
(***************************************************************************)
(* Bestandslog for TLC: a few machines that write one reservation through  *)
(* its life and one inventory entry, one of them in a newer syntax.        *)
(***************************************************************************)
EXTENDS Bestandslog

Lokal(r, c) ==
  [res |-> [i \in Ids |-> r], bestand |-> [x \in Cells |-> c]]

Released == [status |-> "released", eta |-> FALSE]
Fertig   == [status |-> "done",     eta |-> TRUE]

\* two writes that do not contain each other: a takeover with an entry, and
\* the owner's done without one
MCTwoJobs == {Lokal(Released, 1), Lokal(Fertig, 0)}

MCOneJob == {Lokal(Fertig, 0)}
=============================================================================
