----------------------- MODULE FencedRetrievalProofs -----------------------
(***************************************************************************)
(* Retrieval under the fence, for every number of requests, every content  *)
(* of the two stores and every number of publications: an answer is one    *)
(* complete revision, and a cache entry is as good as a read.              *)
(***************************************************************************)
EXTENDS FencedRetrieval, TLAPS

-----------------------------------------------------------------------------
(* The inductive invariant.                                                *)

\* The next revision that will open: every revision opened so far is smaller.
Frontier == IF revision >= 0 THEN revision + 1 ELSE -revision

\* The history of an open dataset is its content.
HistoryInv == revision >= 0 => published[revision] = content

\* Whoever holds a result, holds that of the revision it captured: before the
\* comparison if the fence has not moved since, after it in any case.  Only
\* the entrypoints with a cache use it.
ReaderInv ==
  \A r \in Requests :
    /\ reader[r].captured < Frontier
    /\ reader[r].pc \in {"lookup", "store"} => reader[r].via \in Cached
    /\ reader[r].pc \in {"rows", "check"} =>
         /\ reader[r].seen \in Contents
         /\ reader[r].captured = revision => reader[r].seen = content
    /\ reader[r].pc \in {"hit", "store", "final", "done"} =>
         reader[r].seen = published[reader[r].captured]

\* Nothing is cached under a revision that has not opened, and what is cached
\* under another is the content it began with.
CacheInv ==
  \A v \in Cached, n \in Revisions :
    /\ cache[v][n] \in {NoResult, published[n]}
    /\ n >= Frontier => cache[v][n] = NoResult

RIInv == RTypeOK /\ HistoryInv /\ ReaderInv /\ CacheInv

-----------------------------------------------------------------------------
(* Types of the parts.                                                     *)

Results == Contents \union {NoResult}
PCs == {"idle", "lookup", "hit", "points", "rows", "check", "store", "final",
        "done"}
ReaderType == [pc : PCs, via : Entrypoints, captured : Revisions, seen : Results]

\* The type invariant, in the parts the steps change.
LEMMA TypeParts ==
  RTypeOK <=> /\ revision \in (-MaxRevision)..MaxRevision
              /\ content \in Contents
              /\ reader \in [Requests -> ReaderType]
              /\ cache \in [Cached -> [Revisions -> Results]]
              /\ published \in [Revisions -> Results]
  BY DEF RTypeOK, Results, ReaderType, PCs

\* Every request starts idle, on a dataset whose only revision is 0.
LEMMA InitOK == RInit => RIInv
PROOF
<1> SUFFICES ASSUME RInit PROVE RIInv
  OBVIOUS
<1> USE RevisionBound DEF RInit, FenceInit
<1>1. Idle \in ReaderType
  BY DEF Idle, ReaderType, PCs, Entrypoints, Revisions, Results
<1>2. RTypeOK
  BY <1>1, TypeParts DEF Results
<1>3. HistoryInv
  BY DEF HistoryInv, Revisions
<1>4. ReaderInv
  BY DEF ReaderInv, Idle, Frontier
<1>5. CacheInv
  BY DEF CacheInv
<1>6. QED
  BY <1>2, <1>3, <1>4, <1>5 DEF RIInv

-----------------------------------------------------------------------------
(* The publisher's steps.                                                  *)

\* What the publisher does to the fence: the frontier never moves back, a
\* request's revision is in force after the step only if nothing changed, and
\* an open revision is either the one before or the frontier before.
LEMMA PublishMoves ==
  ASSUME RIInv, Publish
  PROVE  /\ revision' \in (-MaxRevision)..MaxRevision
         /\ content' \in Contents
         /\ Frontier' \in Int /\ Frontier' >= Frontier
         /\ revision' >= 0 => revision' >= Frontier /\ revision' < Frontier'
PROOF
<1> USE RevisionBound DEF Frontier
<1>0. revision \in (-MaxRevision)..MaxRevision /\ content \in Contents
  BY TypeParts DEF RIInv
<1>1. CASE revision < MaxRevision /\ EnterFence
  BY <1>0, <1>1 DEF EnterFence
<1>2. CASE revision < MaxRevision /\ EditRows
  BY <1>0, <1>2 DEF EditRows
<1>3. CASE WriteBehindFence
  BY <1>0, <1>3 DEF WriteBehindFence
<1>4. CASE LeaveFence
  BY <1>0, <1>4 DEF LeaveFence
<1>5. QED
  BY <1>1, <1>2, <1>3, <1>4 DEF Publish

\* A publication keeps the invariant: what it changes is a revision no
\* request has captured and no cache entry is kept under.
LEMMA PublishOK == ASSUME RIInv, Publish PROVE RIInv'
PROOF
<1> USE RevisionBound
<1>0. /\ revision \in (-MaxRevision)..MaxRevision
      /\ reader \in [Requests -> ReaderType]
      /\ cache \in [Cached -> [Revisions -> Results]]
      /\ published \in [Revisions -> Results]
      /\ Frontier \in Int /\ Frontier > 0
  BY TypeParts DEF RIInv, Frontier
<1>1. /\ reader' = reader /\ cache' = cache
      /\ revision' >= 0 => published' = [published EXCEPT ![revision'] = content']
      /\ ~(revision' >= 0) => published' = published
  BY DEF Publish
<1>2. revision' >= 0 => revision' \in Revisions
  BY PublishMoves DEF Revisions
<1>3. RTypeOK'
  <2>1. published' \in [Revisions -> Results]
    BY <1>0, <1>1, <1>2, PublishMoves DEF Results
  <2>2. QED
    BY <1>0, <1>1, <2>1, PublishMoves, TypeParts
       DEF RTypeOK, Results, ReaderType, PCs
<1>4. HistoryInv'
  BY <1>0, <1>1, <1>2 DEF HistoryInv
<1>5. \A n \in Revisions : n < Frontier => published'[n] = published[n]
  BY <1>0, <1>1, <1>2, PublishMoves DEF Revisions
<1>6. ReaderInv'
  <2> SUFFICES ASSUME NEW r \in Requests
               PROVE  /\ reader[r].captured < Frontier'
                      /\ reader[r].pc \in {"lookup", "store"} => reader[r].via \in Cached
                      /\ reader[r].pc \in {"rows", "check"} =>
                           /\ reader[r].seen \in Contents
                           /\ reader[r].captured = revision' => reader[r].seen = content'
                      /\ reader[r].pc \in {"hit", "store", "final", "done"} =>
                           reader[r].seen = published'[reader[r].captured]
    BY <1>1 DEF ReaderInv
  <2>1. reader[r].captured \in Revisions /\ reader[r].captured < Frontier
    BY <1>0 DEF RIInv, ReaderInv, ReaderType
  <2>2. reader[r].captured # revision' /\ reader[r].captured < Frontier'
    BY <1>0, <2>1, PublishMoves DEF Revisions
  <2>3. QED
    BY <1>5, <2>1, <2>2 DEF RIInv, ReaderInv
<1>7. CacheInv'
  <2> SUFFICES ASSUME NEW v \in Cached, NEW n \in Revisions
               PROVE  /\ cache[v][n] \in {NoResult, published'[n]}
                      /\ n >= Frontier' => cache[v][n] = NoResult
    BY <1>1 DEF CacheInv
  <2>1. CASE n < Frontier
    BY <1>0, <1>5, <2>1, PublishMoves DEF RIInv, CacheInv, Revisions
  <2>2. CASE ~(n < Frontier)
    BY <1>0, <2>2 DEF RIInv, CacheInv, Revisions
  <2>3. QED
    BY <2>1, <2>2
<1>8. QED
  BY <1>3, <1>4, <1>6, <1>7 DEF RIInv

-----------------------------------------------------------------------------
(* The steps of a request.                                                 *)

\* A request that moves to a record that satisfies the invariant keeps it,
\* as long as the cache and the stores stay.
LEMMA ReaderStep ==
  ASSUME RIInv, NEW r \in Requests, NEW new \in ReaderType,
         reader' = [reader EXCEPT ![r] = new], UNCHANGED stores,
         cache' \in [Cached -> [Revisions -> Results]], CacheInv',
         new.captured < Frontier,
         new.pc \in {"lookup", "store"} => new.via \in Cached,
         new.pc \in {"rows", "check"} =>
           new.seen \in Contents /\ (new.captured = revision => new.seen = content),
         new.pc \in {"hit", "store", "final", "done"} =>
           new.seen = published[new.captured]
  PROVE  RIInv'
PROOF
<1>1. revision' = revision /\ content' = content /\ published' = published
      /\ Frontier' = Frontier
  BY DEF stores, Frontier
<1>2. reader \in [Requests -> ReaderType]
  BY TypeParts DEF RIInv
<1>3. reader' \in [Requests -> ReaderType]
  BY <1>2
<1>4. RTypeOK'
  BY <1>1, <1>3, TypeParts DEF RIInv, RTypeOK, Results, ReaderType, PCs
<1>5. HistoryInv'
  BY <1>1 DEF RIInv, HistoryInv
<1>6. ReaderInv'
  <2> SUFFICES ASSUME NEW q \in Requests
               PROVE  /\ reader'[q].captured < Frontier
                      /\ reader'[q].pc \in {"lookup", "store"} => reader'[q].via \in Cached
                      /\ reader'[q].pc \in {"rows", "check"} =>
                           /\ reader'[q].seen \in Contents
                           /\ reader'[q].captured = revision => reader'[q].seen = content
                      /\ reader'[q].pc \in {"hit", "store", "final", "done"} =>
                           reader'[q].seen = published[reader'[q].captured]
    BY <1>1 DEF ReaderInv
  <2>1. CASE q = r
    BY <1>2, <2>1
  <2>2. CASE q # r
    BY <1>2, <2>2 DEF RIInv, ReaderInv
  <2>3. QED
    BY <2>1, <2>2
<1>7. QED
  BY <1>4, <1>5, <1>6 DEF RIInv

\* Every step of a request keeps the invariant.
LEMMA RequestOK ==
  ASSUME RIInv, NEW r \in Requests,
         \/ \E via \in Entrypoints : Begin(r, via)
         \/ Lookup(r) \/ CheckHit(r) \/ ReadPoints(r) \/ ReadRows(r)
         \/ Check(r) \/ Store(r) \/ Final(r) \/ Retry(r)
  PROVE  RIInv'
PROOF
<1> USE RevisionBound
<1> DEFINE me == reader[r]
<1>0. /\ revision \in (-MaxRevision)..MaxRevision /\ content \in Contents
      /\ reader \in [Requests -> ReaderType]
      /\ cache \in [Cached -> [Revisions -> Results]]
      /\ published \in [Revisions -> Results]
      /\ Frontier \in Int /\ Frontier > 0
  BY TypeParts DEF RIInv, Frontier
<1>1. /\ me \in ReaderType /\ me.captured \in Revisions /\ me.captured < Frontier
      /\ me.via \in Entrypoints /\ me.seen \in Results /\ me.pc \in PCs
      /\ me = [pc |-> me.pc, via |-> me.via, captured |-> me.captured, seen |-> me.seen]
  BY <1>0 DEF RIInv, ReaderInv, ReaderType
<1>2. UNCHANGED <<stores, cache>> => CacheInv'
  BY DEF RIInv, CacheInv, stores, Frontier
<1>3. ASSUME NEW pc \in PCs, Goto(r, pc)
      PROVE  reader' = [reader EXCEPT ![r] = [me EXCEPT !.pc = pc]]
             /\ [me EXCEPT !.pc = pc] \in ReaderType
  BY <1>0, <1>1, <1>3 DEF Goto, ReaderType
<1> HIDE DEF me
<1>4. ASSUME NEW via \in Entrypoints, Begin(r, via) PROVE RIInv'
  <2> DEFINE new == [pc |-> IF via \in Cached THEN "lookup" ELSE "points",
                     via |-> via, captured |-> revision, seen |-> NoResult]
  <2>1. /\ new \in ReaderType /\ new.captured < Frontier
        /\ new.pc \in {"lookup", "points"} /\ (new.pc = "lookup" => new.via \in Cached)
    BY <1>0, <1>4 DEF Begin, ReaderType, PCs, Revisions, Results, Frontier
  <2>2. reader' = [reader EXCEPT ![r] = new] /\ UNCHANGED <<stores, cache>>
    BY <1>4 DEF Begin
  <2> HIDE DEF new
  <2>3. QED
    BY <1>0, <1>2, <2>1, <2>2, ReaderStep
<1>5. CASE Lookup(r)
  <2> DEFINE entry == cache[me.via][me.captured]
  <2>1. CASE Goto(r, "points")
    <3>1. "points" \in PCs /\ UNCHANGED <<stores, cache>>
      BY <1>5 DEF PCs, Lookup
    <3>2. [me EXCEPT !.pc = "points"].captured = me.captured
          /\ [me EXCEPT !.pc = "points"].pc = "points"
      BY <1>1
    <3>3. QED
      BY <1>0, <1>1, <1>2, <1>3, <2>1, <3>1, <3>2, ReaderStep
  <2>2. CASE entry # NoResult /\ reader' = [reader EXCEPT ![r].pc = "hit", ![r].seen = entry]
    <3> DEFINE new == [me EXCEPT !.pc = "hit", !.seen = entry]
    <3>1. me.via \in Cached
      BY <1>5 DEF Lookup, RIInv, ReaderInv, me
    <3>2. entry \in Results /\ entry = published[me.captured]
      BY <1>0, <1>1, <2>2, <3>1 DEF RIInv, CacheInv
    <3>3. new \in ReaderType /\ new.pc = "hit" /\ new.seen = entry
          /\ new.captured = me.captured
      BY <1>1, <3>2 DEF ReaderType, PCs
    <3>4. reader' = [reader EXCEPT ![r] = new]
      BY <1>0, <2>2 DEF me
    <3>5. UNCHANGED <<stores, cache>>
      BY <1>5 DEF Lookup
    <3> HIDE DEF new, entry
    <3>6. QED
      BY <1>0, <1>1, <1>2, <3>2, <3>3, <3>4, <3>5, ReaderStep
  <2>3. QED
    BY <1>5, <2>1, <2>2 DEF Lookup, me
<1>6. CASE CheckHit(r)
  <2>1. /\ me.seen = published[me.captured] /\ UNCHANGED <<stores, cache>>
        /\ Goto(r, "final") \/ Goto(r, "points")
    BY <1>6 DEF CheckHit, RIInv, ReaderInv, me
  <2>2. "final" \in PCs /\ "points" \in PCs
    BY DEF PCs
  <2>3. CASE Goto(r, "final")
    <3>1. [me EXCEPT !.pc = "final"].seen = me.seen
          /\ [me EXCEPT !.pc = "final"].captured = me.captured
          /\ [me EXCEPT !.pc = "final"].pc = "final"
      BY <1>1
    <3>2. QED
      BY <1>0, <1>1, <1>2, <1>3, <2>1, <2>2, <2>3, <3>1, ReaderStep
  <2>4. CASE Goto(r, "points")
    <3>1. [me EXCEPT !.pc = "points"].captured = me.captured
          /\ [me EXCEPT !.pc = "points"].pc = "points"
      BY <1>1
    <3>2. QED
      BY <1>0, <1>1, <1>2, <1>3, <2>1, <2>2, <2>4, <3>1, ReaderStep
  <2>5. QED
    BY <2>1, <2>3, <2>4
<1>7. CASE ReadPoints(r)
  <2> DEFINE new == [me EXCEPT !.pc = "rows", !.seen = content]
  <2>1. new \in ReaderType /\ new.pc = "rows" /\ new.seen = content
        /\ new.captured = me.captured
    BY <1>0, <1>1 DEF ReaderType, PCs, Results
  <2>2. reader' = [reader EXCEPT ![r] = new] /\ UNCHANGED <<stores, cache>>
    BY <1>0, <1>7 DEF ReadPoints, me
  <2> HIDE DEF new
  <2>3. QED
    BY <1>0, <1>1, <1>2, <2>1, <2>2, ReaderStep
<1>8. CASE ReadRows(r)
  <2> DEFINE new == [me EXCEPT !.pc = "check", !.seen.rows = content.rows]
  <2>1. me.seen \in Contents /\ (me.captured = revision => me.seen = content)
    BY <1>8 DEF ReadRows, RIInv, ReaderInv, me
  <2>2. [me.seen EXCEPT !.rows = content.rows] \in Contents
        /\ (me.captured = revision => [me.seen EXCEPT !.rows = content.rows] = content)
    BY <1>0, <2>1 DEF Contents
  <2>3. new \in ReaderType /\ new.pc = "check" /\ new.captured = me.captured
        /\ new.seen = [me.seen EXCEPT !.rows = content.rows]
    BY <1>1, <2>2 DEF ReaderType, PCs, Results
  <2>4. reader' = [reader EXCEPT ![r] = new] /\ UNCHANGED <<stores, cache>>
    BY <1>0, <1>8 DEF ReadRows, me
  <2> HIDE DEF new
  <2>5. QED
    BY <1>0, <1>1, <1>2, <2>2, <2>3, <2>4, ReaderStep
<1>9. CASE Check(r)
  <2> DEFINE pc == IF me.via \in Cached THEN "store" ELSE "final"
  <2>1. me.captured = revision /\ me.seen = content /\ me.seen = published[me.captured]
    BY <1>1, <1>9 DEF Check, Unchanged, RIInv, ReaderInv, HistoryInv, Revisions, me
  <2>2. pc \in PCs /\ Goto(r, pc) /\ UNCHANGED <<stores, cache>>
    BY <1>9 DEF PCs, Check, me
  <2>3. /\ [me EXCEPT !.pc = pc].pc \in {"store", "final"}
        /\ [me EXCEPT !.pc = pc].pc = "store" => [me EXCEPT !.pc = pc].via \in Cached
        /\ [me EXCEPT !.pc = pc].seen = me.seen
        /\ [me EXCEPT !.pc = pc].captured = me.captured
    BY <1>1
  <2> HIDE DEF pc
  <2>4. QED
    BY <1>0, <1>1, <1>2, <1>3, <2>1, <2>2, <2>3, ReaderStep
<1>10. CASE Store(r)
  <2> DEFINE pc == IF me.via = "v2" THEN "final" ELSE "done"
  <2>1. me.via \in Cached /\ me.seen = published[me.captured]
    BY <1>10 DEF Store, RIInv, ReaderInv, me
  <2>2. pc \in PCs /\ Goto(r, pc) /\ UNCHANGED stores
    BY <1>10 DEF PCs, Store, me
  <2>3. /\ [me EXCEPT !.pc = pc].pc \in {"final", "done"}
        /\ [me EXCEPT !.pc = pc].seen = me.seen
        /\ [me EXCEPT !.pc = pc].captured = me.captured
    BY <1>1
  <2>4. cache' \in [Cached -> [Revisions -> Results]] /\ CacheInv'
    <3>1. CASE cache' = [cache EXCEPT ![me.via][me.captured] = me.seen]
      <4>1. cache' \in [Cached -> [Revisions -> Results]]
        BY <1>0, <1>1, <2>1, <3>1
      <4>2. ASSUME NEW v \in Cached, NEW n \in Revisions
            PROVE  cache'[v][n] = IF v = me.via /\ n = me.captured THEN me.seen
                                  ELSE cache[v][n]
        BY <1>0, <1>1, <2>1, <3>1
      <4>3. revision' = revision /\ published' = published /\ Frontier' = Frontier
        BY <2>2 DEF stores, Frontier
      <4>4. CacheInv'
        BY <1>0, <1>1, <2>1, <4>2, <4>3 DEF RIInv, CacheInv, Revisions
      <4>5. QED
        BY <4>1, <4>4
    <3>2. CASE UNCHANGED cache
      BY <1>0, <1>2, <2>2, <3>2
    <3>3. QED
      BY <1>10, <3>1, <3>2 DEF Store, me
  <2> HIDE DEF pc
  <2>5. QED
    BY <1>0, <1>1, <1>3, <2>1, <2>2, <2>3, <2>4, ReaderStep
<1>11. CASE Final(r)
  <2>1. /\ me.seen = published[me.captured] /\ UNCHANGED <<stores, cache>>
        /\ Goto(r, "done") /\ "done" \in PCs
    BY <1>11 DEF Final, RIInv, ReaderInv, PCs, me
  <2>2. [me EXCEPT !.pc = "done"].seen = me.seen
        /\ [me EXCEPT !.pc = "done"].captured = me.captured
        /\ [me EXCEPT !.pc = "done"].pc = "done"
    BY <1>1
  <2>3. QED
    BY <1>0, <1>1, <1>2, <1>3, <2>1, <2>2, ReaderStep
<1>12. CASE Retry(r)
  <2>1. Idle \in ReaderType /\ Idle.pc = "idle" /\ Idle.captured < Frontier
    BY <1>0 DEF Idle, ReaderType, PCs, Entrypoints, Revisions, Results
  <2>2. reader' = [reader EXCEPT ![r] = Idle] /\ UNCHANGED <<stores, cache>>
    BY <1>12 DEF Retry
  <2>3. QED
    BY <1>0, <1>2, <2>1, <2>2, ReaderStep
<1>13. QED
  BY <1>4, <1>5, <1>6, <1>7, <1>8, <1>9, <1>10, <1>11, <1>12

-----------------------------------------------------------------------------
(* The theorems.                                                           *)

\* The invariant holds from the first request on.
LEMMA Invariance == RSpec => []RIInv
PROOF
<1>1. RIInv /\ [RNext]_rvars => RIInv'
  <2> SUFFICES ASSUME RIInv, [RNext]_rvars PROVE RIInv'
    OBVIOUS
  <2>1. CASE Publish
    BY <2>1, PublishOK
  <2>2. ASSUME NEW r \in Requests,
               \/ \E via \in Entrypoints : Begin(r, via)
               \/ Lookup(r) \/ CheckHit(r) \/ ReadPoints(r) \/ ReadRows(r)
               \/ Check(r) \/ Store(r) \/ Final(r) \/ Retry(r)
        PROVE  RIInv'
    BY <2>2, RequestOK
  <2>3. CASE UNCHANGED rvars
    BY <2>3 DEF rvars, RIInv, RTypeOK, HistoryInv, ReaderInv, CacheInv, Frontier
  <2>4. QED
    BY <2>1, <2>2, <2>3 DEF RNext
<1>2. QED
  BY <1>1, InitOK, PTL DEF RSpec

\* Requests, cache and history keep their types, and no request of
\* dataset_retrieval_generation goes on behind the fence.
THEOREM RetrievalTypes == RSpec => []RTypeOK
PROOF
<1>1. RIInv => RTypeOK
  BY DEF RIInv
<1>2. QED
  BY <1>1, Invariance, PTL

\* Every answer of retrieve, retrieve_with_images_v2 and retrieve_batch is the
\* complete content of the revision it captured, however the publisher and the
\* other requests interleave with its reads.
THEOREM WholeAnswers == RSpec => []AnswersAreWhole
PROOF
<1>1. RIInv => AnswersAreWhole
  BY DEF RIInv, ReaderInv, AnswersAreWhole
<1>2. QED
  BY <1>1, Invariance, PTL

\* What cache_get returns under the revision in force is the content in force,
\* although cache_set runs at any time after the comparison.
THEOREM CurrentCache == RSpec => []CacheIsCurrent
PROOF
<1>1. RIInv => CacheIsCurrent
  <2> SUFFICES ASSUME RIInv, revision >= 0, NEW v \in Cached
               PROVE  cache[v][revision] \in {NoResult, content}
    BY DEF CacheIsCurrent
  <2>1. revision \in Revisions /\ published[revision] = content
    BY RevisionBound, TypeParts DEF RIInv, HistoryInv, Revisions
  <2>2. QED
    BY <2>1 DEF RIInv, CacheInv
<1>2. QED
  BY <1>1, Invariance, PTL
=============================================================================
