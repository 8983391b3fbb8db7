----------------------------- MODULE BoundedFifo -----------------------------
(***************************************************************************)
(* What a bounded queue shared by threads promises: a value goes in at the *)
(* end, comes out at the front, is handed to one caller only, and there    *)
(* are never more values inside than the capacity.                         *)
(*                                                                         *)
(* Taking a value out and handing it to the caller are two steps, between  *)
(* which others go on.  A call may fail without a step here: a put that    *)
(* drops and a get that finds nothing change nothing.                      *)
(***************************************************************************)
EXTENDS Naturals, Sequences

CONSTANTS Puts, Gets, Nichts

VARIABLES
  inhalt,      \* the values inside
  kapazitaet,
  hand,        \* the value taken out for each get
  geliefert    \* the value each get has returned

Init ==
  /\ inhalt = <<>> /\ kapazitaet \in Nat
  /\ hand = [g \in Gets |-> Nichts]
  /\ geliefert = [g \in Gets |-> Nichts]

Put(v) ==
  /\ Len(inhalt) < kapazitaet
  /\ inhalt' = Append(inhalt, v)
  /\ UNCHANGED <<kapazitaet, hand, geliefert>>

Take(g) ==
  /\ inhalt # <<>> /\ hand[g] = Nichts
  /\ inhalt' = Tail(inhalt)
  /\ hand' = [hand EXCEPT ![g] = Head(inhalt)]
  /\ UNCHANGED <<kapazitaet, geliefert>>

Return(g) ==
  /\ hand[g] # Nichts /\ geliefert[g] = Nichts
  /\ geliefert' = [geliefert EXCEPT ![g] = hand[g]]
  /\ UNCHANGED <<inhalt, kapazitaet, hand>>

\* Emptied, and possibly given another capacity.
Reset ==
  /\ inhalt' = <<>> /\ kapazitaet' \in Nat
  /\ UNCHANGED <<hand, geliefert>>

Next ==
  \/ \E v \in Puts : Put(v)
  \/ \E g \in Gets : Take(g) \/ Return(g)
  \/ Reset

Spec == Init /\ [][Next]_<<inhalt, kapazitaet, hand, geliefert>>
=============================================================================
