-------------------------- MODULE FencedRetrieval --------------------------
(***************************************************************************)
(* Retrieval under the publication fence: the entrypoints retrieve,        *)
(* retrieve_with_images_v2 (text only in this release) and retrieve_batch  *)
(* of retrieval_service.py, with the result caches of the first two.       *)
(*                                                                         *)
(* A request captures the dataset's revision, refuses a negative one,      *)
(* looks its answer up under that revision, else reads vector hits and     *)
(* then PostgreSQL rows (_retrieve_queries) and compares the revision at   *)
(* the end.  retrieve() caches and returns; the v2 entrypoint caches and   *)
(* compares once more; the batch entrypoint only compares once more.       *)
(* The publisher is PublicationFence: everything it may do, it does here.  *)
(***************************************************************************)
EXTENDS PublicationFence

CONSTANTS Requests,      \* requests in flight at the same time
          MaxRevision    \* bound: publications and edits

ASSUME RevisionBound == MaxRevision \in Nat

\* The entrypoints: retrieve, retrieve_with_images_v2, retrieve_batch.
Entrypoints == {"standard", "v2", "batch"}
\* Those with a cache.  All requests ask the same query here, so that those of
\* one entrypoint share a key; its prefix keeps the entrypoints apart.
Cached == {"standard", "v2"}
Revisions == 0..MaxRevision

VARIABLES reader,      \* requests
          cache,       \* retrieval cache: key prefix, revision -> result
          published    \* history: content each open revision began with

rvars == <<revision, content, reader, cache, published>>
stores == <<revision, content, published>>

NoResult == [points |-> "none"]
Idle == [pc |-> "idle", via |-> "standard", captured |-> 0, seen |-> NoResult]

RInit ==
    /\ FenceInit
    /\ reader = [r \in Requests |-> Idle]
    /\ cache = [v \in Cached |-> [n \in Revisions |-> NoResult]]
    /\ published = [n \in Revisions |-> IF n = 0 THEN content ELSE NoResult]

Goto(r, pc) == reader' = [reader EXCEPT ![r].pc = pc]

\* Mutant of Begin: the capture accepts a negative revision.
BeginUnfenced(r, via) ==
    /\ reader[r].pc \in {"idle", "done"}
    /\ reader' = [reader EXCEPT ![r] =
          [pc |-> IF via \in Cached THEN "lookup" ELSE "points", via |-> via,
           captured |-> revision, seen |-> NoResult]]
    /\ UNCHANGED <<stores, cache>>

\* dataset_retrieval_generation on the row that require_dataset_access read.
Begin(r, via) ==
    /\ reader[r].pc \in {"idle", "done"} /\ revision >= 0
    /\ reader' = [reader EXCEPT ![r] =
          [pc |-> IF via \in Cached THEN "lookup" ELSE "points", via |-> via,
           captured |-> revision, seen |-> NoResult]]
    /\ UNCHANGED <<stores, cache>>

\* cache_get; an entry may have expired.
Lookup(r) ==
    LET entry == cache[reader[r].via][reader[r].captured] IN
    /\ reader[r].pc = "lookup"
    /\ \/ Goto(r, "points")
       \/ /\ entry # NoResult
          /\ reader' = [reader EXCEPT ![r].pc = "hit", ![r].seen = entry]
    /\ UNCHANGED <<stores, cache>>

\* Every segment of the cached result must still be active.  Other rows may or
\* may not name the same segments.
CheckHit(r) ==
    /\ reader[r].pc = "hit"
    /\ \/ Goto(r, "final")
       \/ content.rows # reader[r].seen.rows /\ Goto(r, "points")
    /\ UNCHANGED <<stores, cache>>

ReadPoints(r) ==
    /\ reader[r].pc = "points"
    /\ reader' = [reader EXCEPT ![r].pc = "rows", ![r].seen = content]
    /\ UNCHANGED <<stores, cache>>

\* _active_segment_ids: the rows behind the hits.
ReadRows(r) ==
    /\ reader[r].pc = "rows"
    /\ reader' = [reader EXCEPT ![r].pc = "check", ![r].seen.rows = content.rows]
    /\ UNCHANGED <<stores, cache>>

\* Mutant of Unchanged: any open revision passes.
OnlyOpen(r) == revision >= 0

\* _require_unchanged_retrieval_generation
Unchanged(r) == revision = reader[r].captured

\* The fence at the end of _retrieve_queries.
Check(r) ==
    /\ reader[r].pc = "check" /\ Unchanged(r)
    /\ Goto(r, IF reader[r].via \in Cached THEN "store" ELSE "final")
    /\ UNCHANGED <<stores, cache>>

\* cache_set, under the revision captured at the beginning; a result whose
\* rerank was degraded is not kept.
Store(r) ==
    /\ reader[r].pc = "store"
    /\ \/ cache' = [cache EXCEPT ![reader[r].via][reader[r].captured] = reader[r].seen]
       \/ UNCHANGED cache
    /\ Goto(r, IF reader[r].via = "v2" THEN "final" ELSE "done")
    /\ UNCHANGED stores

\* The last comparison: of a cache hit, of the v2 and of the batch entrypoint.
Final(r) ==
    /\ reader[r].pc = "final" /\ Unchanged(r)
    /\ Goto(r, "done")
    /\ UNCHANGED <<stores, cache>>

\* _RetrievalGenerationChanged: the wrapper runs the entrypoint again, or gives
\* up with its attempts or its budget spent.
Retry(r) ==
    /\ reader[r].pc \in {"check", "final"} /\ ~Unchanged(r)
    /\ reader' = [reader EXCEPT ![r] = Idle]
    /\ UNCHANGED <<stores, cache>>

\* The publisher's half of the fence.
Publish ==
    /\ \/ revision < MaxRevision /\ (EnterFence \/ EditRows)
       \/ WriteBehindFence
       \/ LeaveFence
    /\ published' = IF revision' >= 0 THEN [published EXCEPT ![revision'] = content']
                    ELSE published
    /\ UNCHANGED <<reader, cache>>

RNext ==
    \/ Publish
    \/ \E r \in Requests :
          \/ \E via \in Entrypoints : Begin(r, via)
          \/ Lookup(r) \/ CheckHit(r) \/ ReadPoints(r) \/ ReadRows(r)
          \/ Check(r) \/ Store(r) \/ Final(r) \/ Retry(r)

RSpec == RInit /\ [][RNext]_rvars
-----------------------------------------------------------------------------
\* Requests, cache and history have their types; in particular no request goes
\* on with a revision captured behind the fence (a negative one).
RTypeOK ==
    LET Results == Contents \union {NoResult} IN
    /\ revision \in (-MaxRevision)..MaxRevision
    /\ content \in Contents
    /\ reader \in [Requests ->
          [pc : {"idle", "lookup", "hit", "points", "rows", "check", "store",
                 "final", "done"},
           via : Entrypoints, captured : Revisions, seen : Results]]
    /\ cache \in [Cached -> [Revisions -> Results]]
    /\ published \in [Revisions -> Results]

\* An answer is the complete content of one revision, points and rows alike,
\* never part of an older and part of a newer one: "readers overlapping the
\* short critical section ... can only return the complete old or complete
\* new revision".
AnswersAreWhole ==
    \A r \in Requests :
        reader[r].pc = "done" => reader[r].seen = published[reader[r].captured]

\* A cache hit is as good as a read: the entry under the revision in force is
\* the content in force.  An answer may be stored long after its comparison, so
\* this rests on revisions never coming back.
CacheIsCurrent ==
    revision >= 0 => \A v \in Cached :
        cache[v][revision] \in {NoResult, content}
=============================================================================
