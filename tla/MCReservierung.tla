--------------------------- MODULE MCReservierung ---------------------------
(***************************************************************************)
(* Reservierung for TLC: a run with a window that has a gap, one with two  *)
(* windows whose selection contains that gap too, and a planner.  The      *)
(* first can only take over the second window of the other run, the second *)
(* all of the first's.  Each starts at its first window or resumes behind  *)
(* it, which leaves the first run nothing to build.                        *)
(***************************************************************************)
EXTENDS Reservierung

CONSTANTS l1, l2, p1

MCFach == [l \in Laeufe |-> IF l = l1 THEN <<{1, 3}>> ELSE <<{1, 2}, {3}>>]

MCIds == TierIds \cup BlockIds
=============================================================================
