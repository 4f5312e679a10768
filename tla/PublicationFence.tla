-------------------------- MODULE PublicationFence --------------------------
(***************************************************************************)
(* What index publication promises retrieval: the read fence of one        *)
(* dataset.  datasets.content_revision is a seqlock over two stores, the   *)
(* Qdrant points and the PostgreSQL rows: a publication first makes it     *)
(* negative (dataset_index_publication_lease), then writes either store,   *)
(* and opens it again with a larger value (_finish_index_publication).     *)
(* Rows may also be edited under an open revision, which a statement       *)
(* trigger then increases in the same transaction.                         *)
(*                                                                         *)
(* One unit of revision stands for every increase: for that of a trigger   *)
(* (1) and for INDEX_PUBLICATION_REVISION_RESERVE (10^9), which is far     *)
(* more than the triggers add to a negative revision before it opens.      *)
(* IndexPublication implements this specification; FencedRetrieval reads   *)
(* under it.                                                               *)
(***************************************************************************)
EXTENDS Integers

CONSTANTS Points, Rows   \* what each store can hold

VARIABLES revision,      \* datasets.content_revision
          content        \* what Qdrant and PostgreSQL hold

Contents == [points : Points, rows : Rows]

fence == <<revision, content>>

FenceInit == revision = 0 /\ content \in Contents

\* dataset_index_publication_lease on an open dataset.
EnterFence ==
    /\ revision >= 0
    /\ revision' = -(revision + 1)
    /\ UNCHANGED content

\* Writes of a publication, its rollback or its recovery.
WriteBehindFence ==
    /\ revision < 0
    /\ content' \in Contents
    /\ UNCHANGED revision

\* Mutant of LeaveFence: the fence opens with the revision it had before.
LeaveFenceSame ==
    /\ revision < 0
    /\ revision' = -revision - 1
    /\ content' \in Contents

\* The transaction that writes the rows may also open the fence.
LeaveFence ==
    /\ revision < 0
    /\ revision' = -revision
    /\ content' \in Contents

\* A document or segment row is changed outside a publication:
\* agent_knowledge_bump_content_revision moves the revision with it.
EditRows ==
    /\ revision >= 0
    /\ revision' = revision + 1
    /\ content' \in Contents /\ content'.points = content.points

FenceNext == EnterFence \/ WriteBehindFence \/ LeaveFence \/ EditRows

FenceSpec == FenceInit /\ [][FenceNext]_fence
=============================================================================
