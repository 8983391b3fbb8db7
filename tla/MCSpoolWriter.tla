--------------------------- MODULE MCSpoolWriter ---------------------------
(* SpoolWriter for model checking: one entry of every set is big enough to   *)
(* fill the spool alone, the others reach the count.                         *)
EXTENDS SpoolWriter, TLC

CONSTANT Gross   \* the big entries

MCBytes == [e \in Entries |-> IF e \in Gross THEN MaxBytes ELSE 0]
=============================================================================
