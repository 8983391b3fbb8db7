------------------------- MODULE BestandMergeProofs -------------------------
(***************************************************************************)
(* The algebra of the record union merge: for every set of ids and cells   *)
(* the merge of two contents is their least upper bound in the progress    *)
(* order, so merging loses nothing and invents nothing.                    *)
(***************************************************************************)
EXTENDS BestandMerge, TLAPS

LEMMA RankType == \A s \in Status : status_rank(s) \in Nat
  BY DEF Status, status_rank

LEMMA RankInjective ==
  \A s, t \in Status : status_rank(s) = status_rank(t) => s = t
  BY DEF Status, status_rank

\* pick_reservierung keeps the record with more progress of the two.
LEMMA PickReservierung ==
  ASSUME NEW a \in Reservierung, NEW b \in Reservierung
  PROVE  /\ pick_reservierung(a, b) \in Reservierung
         /\ ResLeq(a, pick_reservierung(a, b))
         /\ ResLeq(b, pick_reservierung(a, b))
  BY RankType DEF pick_reservierung, ResLeq, Reservierung

LEMMA ResLeqReflexive == ASSUME NEW a \in Reservierung PROVE ResLeq(a, a)
  BY DEF ResLeq

LEMMA ResLeqTransitive ==
  ASSUME NEW a \in Reservierung, NEW b \in Reservierung, NEW c \in Reservierung,
         ResLeq(a, b), ResLeq(b, c)
  PROVE  ResLeq(a, c)
  BY RankType DEF ResLeq, Reservierung

\* Two records of the same progress are the same record for the merge.
LEMMA ResLeqAntisymmetric ==
  ASSUME NEW a \in Reservierung, NEW b \in Reservierung,
         ResLeq(a, b), ResLeq(b, a)
  PROVE  a = b
<1>1. a.status = b.status /\ (a.eta <=> b.eta)
  BY RankType, RankInjective DEF ResLeq, Reservierung
<1>2. a = [status |-> a.status, eta |-> a.eta] /\ b = [status |-> b.status, eta |-> b.eta]
  BY DEF Reservierung
<1>3. a.eta = b.eta
  BY <1>1, Zenon DEF Reservierung
<1> QED
  BY <1>1, <1>2, <1>3

-----------------------------------------------------------------------------
\* The empty content is a content, and contained in every one.
LEMMA LeerType == LeererInhalt \in Content
  BY MaxUtcOK DEF LeererInhalt, Content, Keine, Reservierung, Status

LEMMA ContainedReflexive == ASSUME NEW a \in Content PROVE Contained(a, a)
  BY ResLeqReflexive, MaxUtcOK DEF Contained, Content

LEMMA ContainedTransitive ==
  ASSUME NEW a \in Content, NEW b \in Content, NEW c \in Content,
         Contained(a, b), Contained(b, c)
  PROVE  Contained(a, c)
<1>1. \A i \in Ids : ResLeq(a.res[i], c.res[i])
  BY ResLeqTransitive DEF Contained, Content
<1>2. \A x \in Cells : a.bestand[x] <= c.bestand[x]
  BY MaxUtcOK DEF Contained, Content
<1> QED
  BY <1>1, <1>2 DEF Contained

LEMMA MergeType ==
  ASSUME NEW a \in Content, NEW b \in Content
  PROVE  merge_documents(a, b) \in Content
<1>1. \A i \in Ids : pick_reservierung(a.res[i], b.res[i]) \in Reservierung
  BY PickReservierung DEF Content
<1>2. \A x \in Cells : pick_eintrag(a.bestand[x], b.bestand[x]) \in 0..MaxUtc
  BY DEF pick_eintrag, Content
<1> QED
  BY <1>1, <1>2 DEF merge_documents, Content

\* The merge loses no record and no progress of either document
\* ("Fortschritt geht nie verloren", merge_documents).
THEOREM MergeUpperBound ==
  ASSUME NEW a \in Content, NEW b \in Content
  PROVE  /\ Contained(a, merge_documents(a, b))
         /\ Contained(b, merge_documents(a, b))
<1> DEFINE M == merge_documents(a, b)
<1>1. \A i \in Ids : M.res[i] = pick_reservierung(a.res[i], b.res[i])
  BY DEF merge_documents
<1>2. \A x \in Cells : M.bestand[x] = pick_eintrag(a.bestand[x], b.bestand[x])
  BY DEF merge_documents
<1>3. \A i \in Ids : ResLeq(a.res[i], M.res[i]) /\ ResLeq(b.res[i], M.res[i])
  BY <1>1, PickReservierung DEF Content
<1>4. \A x \in Cells : a.bestand[x] <= M.bestand[x] /\ b.bestand[x] <= M.bestand[x]
  BY <1>2, MaxUtcOK DEF pick_eintrag, Content
<1> QED
  BY <1>3, <1>4 DEF Contained

\* The merge invents nothing: any content that holds both documents holds
\* their merge.
THEOREM MergeLeastUpperBound ==
  ASSUME NEW a \in Content, NEW b \in Content, NEW c \in Content,
         Contained(a, c), Contained(b, c)
  PROVE  Contained(merge_documents(a, b), c)
<1> DEFINE M == merge_documents(a, b)
<1>1. \A i \in Ids : M.res[i] = pick_reservierung(a.res[i], b.res[i])
  BY DEF merge_documents
<1>2. \A x \in Cells : M.bestand[x] = pick_eintrag(a.bestand[x], b.bestand[x])
  BY DEF merge_documents
<1>3. \A i \in Ids : ResLeq(M.res[i], c.res[i])
  BY <1>1 DEF pick_reservierung, Contained
<1>4. \A x \in Cells : M.bestand[x] <= c.bestand[x]
  BY <1>2 DEF pick_eintrag, Contained
<1> QED
  BY <1>3, <1>4 DEF Contained

\* Merging what is already contained changes nothing: writing a document a
\* second time (the retry of a cycle that did store) is harmless.
THEOREM MergeAbsorbs ==
  ASSUME NEW a \in Content, NEW b \in Content, Contained(b, a)
  PROVE  merge_documents(a, b) = a
<1>1. \A i \in Ids : pick_reservierung(a.res[i], b.res[i]) = a.res[i]
  <2> SUFFICES ASSUME NEW i \in Ids
               PROVE  pick_reservierung(a.res[i], b.res[i]) = a.res[i]
    OBVIOUS
  <2>1. a.res[i] \in Reservierung /\ b.res[i] \in Reservierung
    BY DEF Content
  <2>2. ResLeq(b.res[i], a.res[i])
    BY DEF Contained
  <2> QED
    BY <2>1, <2>2, RankType DEF pick_reservierung, ResLeq, Reservierung
<1>2. \A x \in Cells : pick_eintrag(a.bestand[x], b.bestand[x]) = a.bestand[x]
  BY MaxUtcOK DEF pick_eintrag, Contained, Content
<1>3. merge_documents(a, b) = [res |-> [i \in Ids |-> a.res[i]],
                               bestand |-> [x \in Cells |-> a.bestand[x]]]
  BY <1>1, <1>2, Zenon DEF merge_documents
<1>4. a = [res |-> [i \in Ids |-> a.res[i]], bestand |-> [x \in Cells |-> a.bestand[x]]]
  BY DEF Content
<1> QED
  BY <1>3, <1>4
=============================================================================
