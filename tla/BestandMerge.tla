---------------------------- MODULE BestandMerge ----------------------------
(***************************************************************************)
(* Contents of the Bestandslog document and the record union merge of two  *)
(* of them (merge_documents, pick_reservierung and pick_eintrag of         *)
(* bestandslog_lock.hpp, the records of bestandslog_document.hpp).         *)
(***************************************************************************)
EXTENDS Naturals

CONSTANTS
  Ids,     \* ids of reservations (owner_uuid/seq)
  Cells,   \* identities of inventory entries (fingerprint and cell)
  MaxUtc   \* bound on the done_utc stamps

ASSUME MaxUtcOK == MaxUtc \in Nat

Status == {"fehlt", "offen", "released", "done"}

\* A reservation as far as the merge tells it apart: its status and whether
\* eta_s is filled in.  "fehlt" stands for an id the document does not hold.
Reservierung == [status : Status, eta : BOOLEAN]

\* The records of a document.  bestand maps a cell to the done_utc of its
\* entry; 0 stands for a cell without entry.
Content == [res : [Ids -> Reservierung], bestand : [Cells -> 0..MaxUtc]]

Keine  == [status |-> "fehlt", eta |-> FALSE]
LeererInhalt == [res |-> [i \in Ids |-> Keine], bestand |-> [c \in Cells |-> 0]]

status_rank(s) == CASE s = "fehlt"    -> 0
                    [] s = "offen"    -> 1
                    [] s = "released" -> 2
                    [] s = "done"     -> 3

\* Variant: the local record wins over the remote one.
pick_reservierung_local(a, b) == IF b.status = "fehlt" THEN a ELSE b

\* Two records of one id: more progress wins, then a filled eta_s, then a.
pick_reservierung(a, b) ==
  IF \/ status_rank(b.status) > status_rank(a.status)
     \/ status_rank(b.status) = status_rank(a.status) /\ b.eta /\ ~a.eta
  THEN b ELSE a

\* Two entries of one cell: the later done_utc wins, then a.
pick_eintrag(a, b) == IF b > a THEN b ELSE a

merge_documents(a, b) ==
  [res     |-> [i \in Ids   |-> pick_reservierung(a.res[i], b.res[i])],
   bestand |-> [c \in Cells |-> pick_eintrag(a.bestand[c], b.bestand[c])]]

(***************************************************************************)
(* a is contained in b: b holds every record of a or one with more         *)
(* progress.  This is the order the merge promises never to go down in.    *)
(***************************************************************************)
ResLeq(a, b) ==
  \/ status_rank(a.status) < status_rank(b.status)
  \/ status_rank(a.status) = status_rank(b.status) /\ (a.eta => b.eta)

Contained(a, b) == /\ \A i \in Ids   : ResLeq(a.res[i], b.res[i])
                   /\ \A c \in Cells : a.bestand[c] <= b.bestand[c]
=============================================================================
