----------------------------- MODULE UnionStore -----------------------------
(***************************************************************************)
(* What the Bestandslog promises its writers: a store of records to which  *)
(* every write is an atomic union.  A write may or may not be reported to  *)
(* the writer as done; one that is reported has taken effect.              *)
(***************************************************************************)
EXTENDS BestandMerge

CONSTANT Jobs   \* the local documents a writer may bring, a set of Contents

VARIABLES
  inhalt,  \* the records of the document
  acked    \* the local documents reported as written

Init == inhalt = LeererInhalt /\ acked = {}

Write(j) == /\ inhalt' = merge_documents(inhalt, j)
            /\ UNCHANGED acked

Report(j) == /\ Contained(j, inhalt)
             /\ acked' = acked \cup {j}
             /\ UNCHANGED inhalt

Next == \E j \in Jobs : Write(j) \/ Report(j)

Spec == Init /\ [][Next]_<<inhalt, acked>>
=============================================================================
