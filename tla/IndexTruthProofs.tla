-------------------------- MODULE IndexTruthProofs --------------------------
(***************************************************************************)
(* What the pipeline executions of a document report, for every set of     *)
(* documents and every number of requests, crashes and failed calls: a     *)
(* completed one reached the rows, a failed one is not the one served.     *)
(***************************************************************************)
EXTENDS IndexContentProofs

-----------------------------------------------------------------------------
(* The invariant of the executions of one document.                        *)

Committed(d, n) == Phase(d, n) = "committed"

\* A failed execution that is served all the same: its publication was
\* committed, and another document opened the fence before it was closed.
Uncovered(d, n) == n = doc[d].mark /\ Committed(d, n) /\ d \in exposed

\* Where a consumer may still bring its execution to the rows.
Active == Before \union TextHolding \union Publishing \union Undoing

\* What is closed tells the truth; a consumer works on the newest execution,
\* which is running until it is served; and one that gave up left a committed
\* execution only with its manifest still marked, or was cancelled.
TruthInv(d) ==
  /\ \A n \in DOMAIN exec[d] :
       /\ exec[d][n].st = "completed" => doc[d].pg >= n
       /\ exec[d][n].st = "error" => doc[d].pg # n \/ Uncovered(d, n)
  /\ doc[d].mark # 0 /\ Committed(d, doc[d].mark) => doc[d].pg = doc[d].mark
  /\ doc[d].link \in {0, Len(exec[d])}
  /\ job[d].g \in {0, Len(exec[d])}
  /\ job[d].pc \in {"idle", "claimed"} => job[d].g = 0
  /\ job[d].pc \in Active => Running(d, job[d].g)
  /\ job[d].pc \in TextHolding => job[d].g # doc[d].pg
  /\ job[d].pc \in {"committed", "done"} => job[d].g = doc[d].pg
  /\ job[d].pc = "failed" /\ job[d].why # "cancel" /\ Running(d, job[d].g) =>
       \/ job[d].g # doc[d].pg
       \/ job[d].g = doc[d].mark /\ Committed(d, job[d].g)

Truth == \A d \in Docs : TruthInv(d)

-----------------------------------------------------------------------------
(* What a step may do to a document.                                       *)

\* A document stays exposed as long as its committed manifest is marked.
Kept(d) ==
  /\ d \in exposed /\ doc[d].mark # 0 /\ Committed(d, doc[d].mark)
  /\ doc'[d].mark = doc[d].mark
  => d \in exposed'

\* The types the lemmas below rest on.
LEMMA TruthTypes ==
  ASSUME BaseInv, NEW d \in Docs
  PROVE  /\ Len(exec[d]) \in Nat /\ DOMAIN exec[d] = 1..Len(exec[d]) /\ 0 \notin DOMAIN exec[d]
         /\ doc[d].mark \in 0..Len(exec[d]) /\ doc[d].pg \in 0..Len(exec[d])
         /\ doc[d].mark # 0 => doc[d].mark \in DOMAIN exec[d]
         /\ d \in Actors
PROOF
<1>1. /\ Len(exec[d]) \in Nat /\ DOMAIN exec[d] = 1..Len(exec[d]) /\ d \in Actors
      /\ doc[d].mark \in 0..Len(exec[d]) /\ doc[d].pg \in 0..Len(exec[d])
  BY DocTypes
<1>2. QED
  BY <1>1

\* A document that a step leaves alone keeps its invariant.
LEMMA OtherTruth ==
  ASSUME BaseInv, NEW c \in Docs, TruthInv(c), Kept(c),
         doc'[c] = doc[c], exec'[c] = exec[c], job'[c] = job[c]
  PROVE  TruthInv(c)'
PROOF
<1>1. 0 \notin DOMAIN exec[c]
  BY TruthTypes
<1>2. ASSUME NEW n \in DOMAIN exec[c], Uncovered(c, n) PROVE Uncovered(c, n)'
  BY <1>1, <1>2 DEF Uncovered, Committed, Phase, Kept
<1>3. QED
  BY <1>2 DEF TruthInv, Running, Committed, Phase

\* The step touches no other document.
Only(d) == \A c \in Docs : c # d => doc'[c] = doc[c] /\ exec'[c] = exec[c] /\ job'[c] = job[c]

LEMMA OneTruth ==
  ASSUME BaseInv, Truth, \A c \in Docs : Kept(c), NEW d \in Docs, Only(d), TruthInv(d)'
  PROVE  Truth'
PROOF
<1> SUFFICES ASSUME NEW c \in Docs PROVE TruthInv(c)'
  BY DEF Truth
<1>1. CASE c = d
  BY <1>1
<1>2. CASE c # d
  BY <1>2, OtherTruth DEF Truth, Only
<1>3. QED
  BY <1>1, <1>2

\* Executions keep their status, or are queued again or closed truthfully.
Told(d) ==
  /\ DOMAIN exec'[d] = DOMAIN exec[d]
  /\ \A n \in DOMAIN exec[d] :
       /\ Committed(d, n)' <=> Committed(d, n)
       /\ \/ exec'[d][n].st = exec[d][n].st
          \/ exec'[d][n].st = "running" /\ n # doc[d].pg
          \/ exec'[d][n].st = "completed" /\ doc[d].pg >= n
          \/ exec'[d][n].st = "error" /\ (doc[d].pg # n \/ Uncovered(d, n)')

\* The marker of a committed manifest goes only when its execution is completed.
MarkMove(d) ==
  \/ doc'[d].mark = doc[d].mark
  \/ /\ doc'[d].mark = 0 \/ ~Committed(d, doc[d].mark)'
     /\ \/ doc[d].mark = 0 \/ ~Committed(d, doc[d].mark)
        \/ exec'[d][doc[d].mark].st = "completed"

\* The consumer goes on, gives up, is through, or is back at the queue.
PcMove(d) ==
  \/ job'[d].pc = "idle" /\ job'[d].g = 0
  \/ /\ job'[d].g = job[d].g
     /\ \/ job'[d].pc = job[d].pc /\ job'[d].why = job[d].why
        \/ job'[d].pc = job[d].pc /\ job[d].pc # "failed"
        \/ job'[d].pc = "claimed" /\ job[d].pc = "idle"
        \/ /\ job'[d].pc \in Active /\ job[d].pc \in Active
           /\ job'[d].pc \in TextHolding => job[d].pc \in TextHolding \union {"run"}
        \/ /\ job'[d].pc = "failed"
           /\ \/ job[d].pc \in {"claimed"} \union Before \union TextHolding
              \/ job[d].g = doc[d].mark
              \/ job'[d].why = "cancel"
        \/ job'[d].pc = "done" /\ (job[d].pc = "committed" \/ job[d].g = doc[d].pg)
        \/ job'[d].pc \in {"finish", "finishing"}

Stays(d) ==
  job'[d].pc \in Active => exec'[d][job[d].g].st \in {exec[d][job[d].g].st, "running"}

\* Two ways to count the same executions.
LEMMA SameLength ==
  ASSUME NEW k \in Nat, NEW m \in Nat, 1..k = 1..m
  PROVE  k = m
PROOF
<1>1. CASE k < m
  <2>1. m \in 1..m /\ m \notin 1..k
    BY <1>1
  <2>2. QED
    BY <2>1
<1>2. CASE m < k
  <2>1. k \in 1..k /\ k \notin 1..m
    BY <1>2
  <2>2. QED
    BY <2>1
<1>3. QED
  BY <1>1, <1>2

\* Such a step keeps the invariant.
LEMMA TruthMove ==
  ASSUME BaseInv, BaseInv', NEW d \in Docs, FreshInv(d), TruthInv(d), Kept(d),
         Told(d), MarkMove(d), PcMove(d), Stays(d),
         doc'[d].pg = doc[d].pg, doc'[d].link \in {doc[d].link, 0}
  PROVE  TruthInv(d)'
PROOF
<1>1. /\ Len(exec[d]) \in Nat /\ DOMAIN exec[d] = 1..Len(exec[d]) /\ 0 \notin DOMAIN exec[d]
      /\ doc[d].mark # 0 => doc[d].mark \in DOMAIN exec[d]
  BY TruthTypes
<1>2. Len(exec'[d]) = Len(exec[d])
  <2>1. DOMAIN exec'[d] = 1..Len(exec'[d]) /\ Len(exec'[d]) \in Nat
    BY DEF BaseInv, Types
  <2>2. QED
    BY <1>1, <2>1, SameLength DEF Told
<1>3. doc'[d].mark # 0 => doc'[d].mark \in DOMAIN exec[d]
  <2>1. doc'[d].mark \in 0..Len(exec'[d])
    BY DEF BaseInv, Types, Names
  <2>2. QED
    BY <1>1, <1>2, <2>1
<1>4. ASSUME NEW n \in DOMAIN exec[d]
      PROVE  /\ exec'[d][n].st = "completed" => doc[d].pg >= n
             /\ exec'[d][n].st = "error" => doc[d].pg # n \/ Uncovered(d, n)'
  <2>1. CASE exec'[d][n].st = exec[d][n].st
    <3>1. ASSUME exec[d][n].st = "error", Uncovered(d, n) PROVE Uncovered(d, n)'
      <4>1. n = doc[d].mark /\ n # 0 /\ Committed(d, n) /\ d \in exposed
        BY <1>1, <3>1 DEF Uncovered
      <4>2. doc'[d].mark = doc[d].mark
        BY <2>1, <3>1, <4>1 DEF MarkMove
      <4>3. QED
        BY <4>1, <4>2 DEF Uncovered, Told, Kept
    <3>2. QED
      BY <2>1, <3>1 DEF TruthInv
  <2>2. CASE exec'[d][n].st # exec[d][n].st
    BY <2>2 DEF Told
  <2>3. QED
    BY <2>1, <2>2
<1>5. doc'[d].mark # 0 /\ Committed(d, doc[d].mark)' => doc[d].pg = doc'[d].mark
  <2>1. CASE doc'[d].mark = doc[d].mark
    BY <1>1, <2>1 DEF TruthInv, Told, Committed, Phase
  <2>2. CASE doc'[d].mark # doc[d].mark
    BY <2>2 DEF MarkMove
  <2>3. QED
    BY <2>1, <2>2
<1>6. /\ doc'[d].link \in {0, Len(exec'[d])} /\ job'[d].g \in {0, Len(exec'[d])}
      /\ job'[d].pc \in {"idle", "claimed"} => job'[d].g = 0
  BY <1>2 DEF TruthInv, PcMove, Active, Before, TextHolding, Publishing, Undoing
<1>7. job'[d].pc \in Active => Running(d, job[d].g)'
  <2> SUFFICES ASSUME job'[d].pc \in Active PROVE Running(d, job[d].g)'
    OBVIOUS
  <2>1. job[d].pc \in Active /\ job'[d].g = job[d].g
    BY DEF PcMove, Active, Before, TextHolding, Publishing, Undoing
  <2>2. job[d].g \in DOMAIN exec[d] /\ exec[d][job[d].g].st = "running"
    BY <2>1 DEF TruthInv, Running
  <2>3. QED
    BY <2>1, <2>2 DEF Stays, Running, Told
<1>8. job'[d].pc \in TextHolding => job'[d].g # doc[d].pg
  BY DEF PcMove, TruthInv, FreshInv, Before, TextHolding
<1>9. job'[d].pc \in {"committed", "done"} => job'[d].g = doc[d].pg
  BY DEF PcMove, TruthInv, Active, Before, TextHolding, Publishing, Undoing
<1>10. job'[d].pc = "failed" /\ job'[d].why # "cancel" /\ Running(d, job[d].g)' =>
         \/ job'[d].g # doc[d].pg
         \/ job'[d].g = doc'[d].mark /\ Committed(d, job[d].g)'
  <2> SUFFICES ASSUME job'[d].pc = "failed", job'[d].why # "cancel",
                      Running(d, job[d].g)', job[d].g = doc[d].pg
               PROVE  job[d].g = doc'[d].mark /\ Committed(d, job[d].g)'
    BY DEF PcMove, Active, Before, TextHolding, Publishing, Undoing
  <2>1. job'[d].g = job[d].g
    BY DEF PcMove
  <2>2. job[d].g \in DOMAIN exec[d] /\ exec'[d][job[d].g].st = "running"
    BY <2>1 DEF Running, Told
  <2>3. exec[d][job[d].g].st = "running" /\ Running(d, job[d].g)
    BY <2>2 DEF Told, Running
  <2>4. job[d].g # 0 /\ (job[d].pc = "claimed" => job[d].g = 0)
    BY <1>1, <2>2 DEF TruthInv
  <2>5. job[d].pc \notin Before \union TextHolding
    BY DEF FreshInv, TruthInv
  <2>6. job[d].g = doc[d].mark /\ Committed(d, job[d].g)
    <3>1. CASE job[d].pc = "failed"
      <4>1. job'[d].why = job[d].why \/ job[d].g = doc[d].mark
        BY <3>1 DEF PcMove, Active, Before, TextHolding, Publishing, Undoing
      <4>2. CASE job'[d].why = job[d].why
        BY <2>3, <3>1, <4>2 DEF TruthInv
      <4>3. CASE job[d].g = doc[d].mark
        BY <2>4, <4>3 DEF FreshInv, Committed
      <4>4. QED
        BY <4>1, <4>2, <4>3
    <3>2. CASE job[d].pc # "failed"
      <4>1. job[d].g = doc[d].mark
        BY <2>4, <2>5, <3>2 DEF PcMove, Active, Before, TextHolding, Publishing, Undoing
      <4>2. QED
        BY <2>4, <4>1 DEF FreshInv, Committed
    <3>3. QED
      BY <3>1, <3>2
  <2>7. doc'[d].mark = doc[d].mark
    BY <2>2, <2>4, <2>6 DEF MarkMove
  <2>8. QED
    BY <2>1, <2>2, <2>6, <2>7 DEF Told, Committed, Phase
<1>11. QED
  BY <1>4, <1>5, <1>6, <1>7, <1>8, <1>9, <1>10 DEF TruthInv, Told

-----------------------------------------------------------------------------
(* Moves: steps that close no execution and change no row.                 *)

\* Executions that stay, but for data that is no status and no commit.
Same(d) ==
  /\ DOMAIN exec'[d] = DOMAIN exec[d]
  /\ \A n \in DOMAIN exec[d] : /\ Committed(d, n)' <=> Committed(d, n)
                               /\ exec'[d][n].st = exec[d][n].st

LEMMA SameMove ==
  ASSUME BaseInv, BaseInv', ContentInv, Truth, \A c \in Docs : Kept(c), NEW d \in Docs,
         Only(d), Same(d), MarkMove(d), PcMove(d),
         doc'[d].pg = doc[d].pg, doc'[d].link \in {doc[d].link, 0}
  PROVE  Truth'
PROOF
<1>1. FreshInv(d) /\ TruthInv(d)
  BY DEF ContentInv, DocInv, Truth
<1>2. Told(d)
  BY DEF Told, Same
<1>3. Stays(d)
  <2> SUFFICES ASSUME job'[d].pc \in Active
               PROVE  exec'[d][job[d].g].st = exec[d][job[d].g].st
    BY DEF Stays
  <2>1. job[d].pc \in Active
    BY DEF PcMove, Active, Before, TextHolding, Publishing, Undoing
  <2>2. job[d].g \in DOMAIN exec[d]
    BY <1>1, <2>1 DEF TruthInv, Running
  <2>3. QED
    BY <2>2 DEF Same
<1>4. TruthInv(d)'
  BY <1>1, <1>2, <1>3, TruthMove
<1>5. QED
  BY <1>4, OneTruth

\* A consumer's step with the executions unchanged.
LEMMA PlainMove ==
  ASSUME BaseInv, BaseInv', ContentInv, Truth, \A c \in Docs : Kept(c), NEW d \in Docs,
         exec' = exec, \A c \in Docs : c # d => doc'[c] = doc[c] /\ job'[c] = job[c],
         doc'[d].pg = doc[d].pg, doc'[d].mark = doc[d].mark,
         doc'[d].link \in {doc[d].link, 0}, PcMove(d)
  PROVE  Truth'
PROOF
<1>1. Only(d) /\ Same(d) /\ MarkMove(d)
  BY DEF Only, Same, MarkMove, Committed, Phase
<1>2. QED
  BY <1>1, SameMove

\* Refusals and failures outside the lock.
LEMMA RefusalsTell ==
  ASSUME BaseInv, BaseInv', ContentInv, Truth, \A c \in Docs : Kept(c), NEW d \in Docs,
         NEW why \in Whys,
         \/ RecordRefused(d) \/ AbortNoLease(d)
         \/ TextFail(d, why) /\ job[d].pc \in {"claimed", "run"}
         \/ SpecialFail(d, why) /\ job[d].pc \in {"claimed", "run", "pinned"}
         \/ PrepareFails(d) /\ job[d].pc = "pinned"
  PROVE  Truth'
PROOF
<1>0. d \in Actors /\ Types /\ Docs \subseteq Actors
  BY TruthTypes DEF BaseInv, Actors
<1>1. doc' = doc /\ exec' = exec /\ job[d].pc \in {"claimed"} \union Before
  BY DEF RecordRefused, AbortNoLease, TextFail, SpecialFail, PrepareFails, At, Before
<1>2. \/ \E w : Leave(d, w)
      \/ /\ job' = [job EXCEPT ![d].pc = "aborting", ![d].why = "error"]
         /\ job[d].pc = "pinned"
  BY DEF RecordRefused, AbortNoLease, TextFail, SpecialFail, PrepareFails, At
<1>3. PICK pc, w : /\ Step(d, pc, w, job[d].recovered)
                   /\ pc = "failed" \/ (pc = "aborting" /\ job[d].pc = "pinned")
  BY <1>0, <1>2, JobForms
<1>4. /\ \A b \in Actors : b # d => job'[b] = job[b]
      /\ job'[d].pc = pc /\ job'[d].g = job[d].g
  BY <1>0, <1>3, StepFrame
<1>5. PcMove(d)
  BY <1>1, <1>3, <1>4 DEF PcMove, Active, Before, TextHolding
<1>6. QED
  BY <1>0, <1>1, <1>4, <1>5, PlainMove

\* Steps before a publication that set the status, and the lease of a text one.
LEMMA StatusTells ==
  ASSUME BaseInv, BaseInv', ContentInv, Truth, \A c \in Docs : Kept(c), NEW d \in Docs,
         Claim(d) \/ TextBusy(d) \/ PublishRefused(d) \/ SpecialNoLease(d) \/ TextLease(d)
  PROVE  Truth'
PROOF
<1>0. d \in Actors /\ Types /\ Docs \subseteq Actors /\ doc \in [Docs -> Rows]
  BY TruthTypes DEF BaseInv, Types, Actors, Rows
<1>1. exec' = exec /\ \E st : doc' = [doc EXCEPT ![d].st = st]
  BY DEF Claim, TextBusy, PublishRefused, SpecialNoLease, TextLease
<1>2. /\ \A c \in Docs : c # d => doc'[c] = doc[c]
      /\ doc'[d].link = doc[d].link /\ doc'[d].mark = doc[d].mark /\ doc'[d].pg = doc[d].pg
  BY <1>0, <1>1 DEF Rows
<1>3. PICK pc, w, rec :
        /\ Step(d, pc, w, rec)
        /\ \/ pc = "claimed" /\ job[d].pc = "idle"
           \/ pc \in {"failed", "aborting"} /\ job[d].pc \in Before
           \/ pc = "leased" /\ job[d].pc = "run"
  <2>1. CASE Claim(d)
    BY <1>0, <2>1, JobForms DEF Claim, LeaseFree
  <2>2. CASE TextBusy(d) \/ PublishRefused(d)
    BY <1>0, <2>2, JobForms DEF TextBusy, PublishRefused, At, Before
  <2>3. CASE SpecialNoLease(d)
    <3> DEFINE w == IF lock # None THEN "busy" ELSE "error"
    <3>1. Step(d, "aborting", w, job[d].recovered) /\ job[d].pc \in Before
      BY <1>0, <2>3, JobForms DEF SpecialNoLease, At, Before
    <3>2. QED
      BY <3>1
  <2>4. CASE TextLease(d)
    BY <1>0, <2>4, JobForms DEF TextLease, At
  <2>5. QED
    BY <2>1, <2>2, <2>3, <2>4
<1>4. /\ \A b \in Actors : b # d => job'[b] = job[b]
      /\ job'[d].pc = pc /\ job'[d].g = job[d].g
  BY <1>0, <1>3, StepFrame
<1>5. PcMove(d)
  BY <1>3, <1>4 DEF PcMove, Active, Before, TextHolding
<1>6. QED
  BY <1>0, <1>1, <1>2, <1>4, <1>5, PlainMove

\* A text publication up to its commit, its failures, and its cleanup.
LEMMA TextTells ==
  ASSUME BaseInv, BaseInv', ContentInv, Truth, \A c \in Docs : Kept(c), NEW d \in Docs,
         NEW why \in Whys,
         \/ BackupFirst(d) \/ BackupRest(d) \/ BackupReuse(d) \/ BackupRefused(d)
         \/ UpsertSome(d) \/ UpsertRest(d) \/ Restore(d) \/ RestoreFails(d)
         \/ TextFail(d, why) /\ job[d].pc \in TextHolding
         \/ TextAbort(d) \/ TextCleanup(d) \/ CleanupCancelled(d)
  PROVE  Truth'
PROOF
<1>0. d \in Actors /\ Types /\ Docs \subseteq Actors
  BY TruthTypes DEF BaseInv, Actors
<1>1. /\ exec' = exec /\ doc' = doc
      /\ \/ TextCleanup(d) \/ CleanupCancelled(d)
         \/ ~(TextCleanup(d) \/ CleanupCancelled(d)) /\ job[d].pc \in TextHolding
  BY DEF BackupFirst, BackupRest, BackupReuse, BackupRefused, UpsertSome, UpsertRest, Restore,
         RestoreFails, TextFail, TextAbort, TextCleanup, CleanupCancelled, At, TextHolding
<1>2. PICK pc, w :
        /\ Step(d, pc, w, job[d].recovered)
        /\ \/ pc = "done" /\ job[d].pc = "committed"
           \/ pc = "failed" /\ w = "cancel"
           \/ pc \in TextHolding \union {"failed"} /\ job[d].pc \in TextHolding
  <2>1. CASE TextCleanup(d)
    <3>1. Step(d, "done", job[d].why, job[d].recovered) /\ job[d].pc = "committed"
      BY <1>0, <2>1, JobForms DEF TextCleanup, At
    <3>2. QED
      BY <3>1
  <2>2. CASE CleanupCancelled(d)
    <3>1. Step(d, "failed", "cancel", job[d].recovered)
      BY <1>0, <2>2, JobForms DEF CleanupCancelled
    <3>2. QED
      BY <3>1
  <2>3. CASE ~(TextCleanup(d) \/ CleanupCancelled(d))
    <3>1. \/ \E pc \in TextHolding : Goto(d, pc)
          \/ \E w : Leave(d, w)
          \/ \E pc \in TextHolding : job' = [job EXCEPT ![d].pc = pc, ![d].why = why]
      BY <1>1, <2>3 DEF BackupFirst, BackupRest, BackupReuse, BackupRefused, UpsertSome,
             UpsertRest, Restore, RestoreFails, TextFail, TextAbort, TextHolding
    <3>2. QED
      BY <1>0, <1>1, <2>3, <3>1, JobForms
  <2>4. QED
    BY <2>1, <2>2, <2>3
<1>3. /\ \A b \in Actors : b # d => job'[b] = job[b]
      /\ job'[d].pc = pc /\ job'[d].g = job[d].g /\ job'[d].why = w
  BY <1>0, <1>2, StepFrame
<1>4. PcMove(d)
  BY <1>2, <1>3 DEF PcMove, Active
<1>5. QED
  BY <1>0, <1>1, <1>3, <1>4, PlainMove

\* A process dies.
LEMMA DieTells ==
  ASSUME BaseInv, BaseInv', ContentInv, Truth, \A c \in Docs : Kept(c), NEW a \in Actors, Die(a)
  PROVE  Truth'
PROOF
<1>1. doc' = doc /\ exec' = exec /\ job \in [Actors -> Jobs] /\ job' = [job EXCEPT ![a] = Free(a)]
  BY DEF Die, BaseInv, Types
<1>2. Docs \subseteq Actors /\ Rec \notin Docs
  BY PublicationAssumption DEF Docs, Actors, Rec
<1>3. CASE a \in Docs
  <2>1. PcMove(a) /\ \A c \in Docs : c # a => job'[c] = job[c]
    BY <1>1, <1>2 DEF PcMove, Free
  <2>2. QED
    BY <1>1, <1>3, <2>1, PlainMove
<1>4. CASE a \notin Docs
  <2>1. \A c \in Docs : job'[c] = job[c]
    BY <1>1, <1>2, <1>4
  <2>2. QED
    BY <1>1, <2>1, OtherTruth DEF Truth
<1>5. QED
  BY <1>3, <1>4

-----------------------------------------------------------------------------
(* Moves of a special publication.                                         *)

\* One execution is edited, neither its status nor its commit.
LEMMA EditSame ==
  ASSUME NEW d \in Docs, NEW n \in DOMAIN exec[d], OneEdit(d, n),
         exec'[d][n].st = exec[d][n].st, Committed(d, n)' <=> Committed(d, n)
  PROVE  Same(d) /\ \A c \in Docs : c # d => exec'[c] = exec[c]
  BY DEF OneEdit, Same, Committed, Phase

\* A generation is pinned, its old points are frozen, its candidate is written.
LEMMA PublishTells ==
  ASSUME BaseInv, BaseInv', ContentInv, Truth, \A c \in Docs : Kept(c), NEW d \in Docs,
         Record(d) \/ Freeze(d) \/ UpsertCandidate(d) \/ PointsWritten(d)
  PROVE  Truth'
PROOF
<1>0. PICK n : n = job[d].g
  OBVIOUS
<1>1. /\ d \in Actors /\ Types /\ Docs \subseteq Actors /\ doc \in [Docs -> Rows]
      /\ job[d].d = d /\ FreshInv(d) /\ ConsumerInv(d)
      /\ points[d] \in SUBSET (Nat \union {Hole}) /\ doc[d].mark \in Nat
  BY DocTypes DEF BaseInv, Types, Actors, Rows, ContentInv, DocInv
<1>2. job[d].pc \in {"run", "freezing", "prepared", "upserted"}
  BY DEF Record, Freeze, UpsertCandidate, PointsWritten, At
<1>3. n \in DOMAIN exec[d] /\ n \in 1..Len(exec[d]) /\ n # 0 /\ exec[d][n] \in Executions
  BY <1>0, <1>2, DocTypes DEF Past
<1>4. PICK pc : /\ Step(d, pc, job[d].why, job[d].recovered)
                /\ pc \in {"pinned", "prepared", "upserted", "rows"}
  BY <1>1, JobForms DEF Record, Freeze, UpsertCandidate, PointsWritten
<1>5. /\ \A b \in Actors : b # d => job'[b] = job[b]
      /\ job'[d].pc = pc /\ job'[d].g = job[d].g
  BY <1>1, <1>4, StepFrame
<1>6. PcMove(d)
  BY <1>2, <1>4, <1>5 DEF PcMove, Active, Before, Publishing, TextHolding
<1>7. job[d].pc # "run" => ~Committed(d, n) /\ n = doc[d].mark
  <2> SUFFICES ASSUME job[d].pc # "run" PROVE ~Committed(d, n) /\ n = doc[d].mark
    OBVIOUS
  <2>1. job[d].pc \in SpecialHolding
    BY <1>2 DEF SpecialHolding
  <2>2. HolderInv(d) /\ n = doc[d].mark
    BY <1>0, <1>1, <2>1, HolderFacts
  <2>3. QED
    BY <1>0, <1>1, <1>2, <2>1, <2>2 DEF HolderInv, Committed
<1>8. CASE Record(d)
  <2> DEFINE x == IF exec[d][n].phase = "none" THEN "preparing" ELSE exec[d][n].phase
             e == [exec[d][n] EXCEPT !.phase = x]
  <2>1. /\ exec' = [exec EXCEPT ![d][n].phase = x] /\ doc' = [doc EXCEPT ![d].mark = n]
        /\ doc[d].mark \in {0, n} /\ job[d].pc = "run"
    BY <1>0, <1>3, <1>8 DEF Record, At
  <2>2. x \in Unfinished \union {"none", "aborted"}
    BY <1>3 DEF Executions, Unfinished
  <2>3. x = "committed" <=> Committed(d, n)
    BY DEF Committed, Phase
  <2> HIDE DEF x
  <2>4. Edit(d, n, e)
    BY <1>1, <1>3, <2>1, <2>2, EditForms
  <2>5. e.phase = x /\ e.st = exec[d][n].st
    BY <1>3 DEF Executions
  <2> HIDE DEF e
  <2>6. OneEdit(d, n) /\ exec'[d][n] = e
    BY <2>4, EditFrame
  <2>7. Same(d) /\ \A c \in Docs : c # d => exec'[c] = exec[c]
    BY <1>3, <2>3, <2>5, <2>6, EditSame DEF Committed, Phase
  <2>8. /\ \A c \in Docs : c # d => doc'[c] = doc[c]
        /\ doc'[d].mark = n /\ doc'[d].link = doc[d].link /\ doc'[d].pg = doc[d].pg
    BY <1>1, <1>3, <2>1 DEF Rows
  <2>9. doc[d].mark = 0 => ~Committed(d, n)
    BY <1>0, <1>1, <1>3, <2>1 DEF ConsumerInv, Before, Committed
  <2>10. MarkMove(d)
    BY <1>3, <2>1, <2>7, <2>8, <2>9 DEF MarkMove, Same, Committed, Phase
  <2>11. Only(d)
    BY <1>1, <1>5, <2>7, <2>8 DEF Only
  <2>12. QED
    BY <1>6, <2>7, <2>8, <2>10, <2>11, SameMove
<1>9. CASE Freeze(d)
  <2> DEFINE e == [exec[d][n] EXCEPT !.phase = "prepared", !.old = points[d]]
  <2>1. exec' = [exec EXCEPT ![d][n] = e] /\ doc' = doc /\ job[d].pc = "freezing"
    BY <1>0, <1>9 DEF Freeze, At
  <2>2. e \in Executions
    BY <1>1, <1>3, Fields DEF Unfinished
  <2>3. e.phase = "prepared" /\ e.st = exec[d][n].st
    BY <1>3 DEF Executions
  <2> HIDE DEF e
  <2>4. OneEdit(d, n) /\ exec'[d][n] = e
    BY <1>3, <2>1, <2>2, EditFrame DEF Edit
  <2>5. Same(d) /\ \A c \in Docs : c # d => exec'[c] = exec[c]
    BY <1>3, <1>7, <2>1, <2>3, <2>4, EditSame DEF Committed, Phase
  <2>6. Only(d) /\ MarkMove(d)
    BY <1>1, <1>5, <2>1, <2>5 DEF Only, MarkMove
  <2>7. QED
    BY <1>6, <2>1, <2>5, <2>6, SameMove
<1>10. CASE PointsWritten(d)
  <2> DEFINE e == [exec[d][n] EXCEPT !.phase = "points_written"]
  <2>1. /\ exec' = [exec EXCEPT ![d][n].phase = "points_written"] /\ doc' = doc
        /\ job[d].pc = "upserted"
    BY <1>0, <1>10 DEF PointsWritten, At
  <2>2. Edit(d, n, e)
    BY <1>1, <1>3, <2>1, EditForms DEF Unfinished
  <2>3. e.phase = "points_written" /\ e.st = exec[d][n].st
    BY <1>3 DEF Executions
  <2> HIDE DEF e
  <2>4. OneEdit(d, n) /\ exec'[d][n] = e
    BY <2>2, EditFrame
  <2>5. Same(d) /\ \A c \in Docs : c # d => exec'[c] = exec[c]
    BY <1>3, <1>7, <2>1, <2>3, <2>4, EditSame DEF Committed, Phase
  <2>6. Only(d) /\ MarkMove(d)
    BY <1>1, <1>5, <2>1, <2>5 DEF Only, MarkMove
  <2>7. QED
    BY <1>6, <2>1, <2>5, <2>6, SameMove
<1>11. CASE UpsertCandidate(d)
  <2>1. exec' = exec /\ doc' = doc
    BY <1>11 DEF UpsertCandidate
  <2>2. QED
    BY <1>1, <1>5, <1>6, <2>1, PlainMove
<1>12. QED
  BY <1>8, <1>9, <1>10, <1>11

\* A special publication fails behind the fence.
LEMMA SpecialFailTells ==
  ASSUME BaseInv, BaseInv', ContentInv, Truth, \A c \in Docs : Kept(c), NEW d \in Docs,
         NEW why \in Whys,
         \/ SpecialFail(d, why) /\ job[d].pc \in SpecialHolding
         \/ PrepareFails(d) /\ job[d].pc = "freezing"
  PROVE  Truth'
PROOF
<1>0. PICK n : n = job[d].g
  OBVIOUS
<1>1. /\ d \in Actors /\ Types /\ Docs \subseteq Actors /\ job[d].d = d
      /\ job[d].pc \in SpecialHolding /\ doc' = doc /\ exec' = exec
  BY DocTypes DEF BaseInv, Actors, SpecialFail, PrepareFails, SpecialHolding
<1>2. HolderInv(d) /\ n = doc[d].mark
  BY <1>0, <1>1, HolderFacts
<1>3. PICK pc, w :
        /\ Step(d, pc, w, job[d].recovered)
        /\ \/ pc = "failed"
           \/ pc = "undo" /\ job[d].pc \in Publishing
           \/ pc = "aborting" /\ job[d].pc \in {"freezing"} \union Undoing
  <2>1. CASE PrepareFails(d) /\ job[d].pc = "freezing"
    <3>1. Step(d, "aborting", "error", job[d].recovered)
      BY <1>1, <2>1, JobForms DEF PrepareFails
    <3>2. QED
      BY <2>1, <3>1
  <2>2. CASE /\ job[d].pc \in {"freezing", "prepared", "upserted", "rows"}
             /\ job' = [job EXCEPT ![d].pc = "undo", ![d].why = why]
    <3>1. Step(d, "undo", why, job[d].recovered) /\ job[d].pc \in Publishing
      BY <1>1, <2>2, JobForms DEF Publishing
    <3>2. QED
      BY <3>1
  <2>3. ASSUME NEW pc \in {"aborting", "failed"},
               job' = [job EXCEPT ![d].why = why, ![d].pc = pc],
               job[d].pc \in {"finish", "undo", "finishing", "undoing"},
               pc = "aborting" => exec[d][n].phase = "preparing"
        PROVE  \E q, w : /\ Step(d, q, w, job[d].recovered)
                         /\ \/ q = "failed"
                            \/ q = "undo" /\ job[d].pc \in Publishing
                            \/ q = "aborting" /\ job[d].pc \in {"freezing"} \union Undoing
    <3>1. Step(d, pc, why, job[d].recovered)
      BY <1>1, <2>3, JobForms
    <3>2. job[d].pc \in {"finish", "finishing"} => exec[d][n].phase = "committed"
      BY <1>0, <1>1, <1>2 DEF HolderInv, Phase
    <3>3. QED
      BY <2>3, <3>1, <3>2 DEF Undoing
  <2>4. QED
    BY <1>0, <1>1, <2>1, <2>2, <2>3 DEF SpecialFail, At, SpecialHolding
<1>4. /\ \A b \in Actors : b # d => job'[b] = job[b]
      /\ job'[d].pc = pc /\ job'[d].g = job[d].g
  BY <1>1, <1>3, StepFrame
<1>5. PcMove(d)
  <2>1. pc # "failed" => pc \in Active /\ job[d].pc \in Active /\ pc \notin TextHolding
    BY <1>3 DEF Active, Before, Publishing, Undoing, TextHolding
  <2>2. QED
    BY <1>0, <1>2, <1>3, <1>4, <2>1 DEF PcMove
<1>6. QED
  BY <1>1, <1>4, <1>5, PlainMove

\* The points of the old generation or of the candidate are deleted.
LEMMA DeleteTells ==
  ASSUME BaseInv, BaseInv', ContentInv, Truth, \A c \in Docs : Kept(c), NEW a \in Actors,
         DeleteOld(a) \/ DeleteCandidate(a)
  PROVE  Truth'
PROOF
<1>1. doc' = doc /\ exec' = exec /\ Types /\ Docs \subseteq Actors
  BY DEF DeleteOld, DeleteCandidate, BaseInv, Actors
<1>2. PICK pc :
        /\ Step(a, pc, job[a].why, job[a].recovered)
        /\ \/ pc = "finishing"
           \/ pc = "undoing" /\ job[a].pc = "undo"
  BY <1>1, JobForms DEF DeleteOld, DeleteCandidate, At
<1>3. /\ \A b \in Actors : b # a => job'[b] = job[b]
      /\ job'[a].pc = pc /\ job'[a].g = job[a].g
  BY <1>2, StepFrame
<1>4. CASE a \in Docs
  <2>1. PcMove(a)
    BY <1>2, <1>3 DEF PcMove, Active, Undoing, TextHolding
  <2>2. QED
    BY <1>1, <1>3, <1>4, <2>1, PlainMove
<1>5. CASE a \notin Docs
  BY <1>1, <1>3, <1>5, OtherTruth DEF Truth
<1>6. QED
  BY <1>4, <1>5

\* The leases of a special publication, of its abort and of the recovery loop.
LEMMA LeaseTells ==
  ASSUME BaseInv, BaseInv', ContentInv, Truth, \A c \in Docs : Kept(c), NEW d \in Docs,
         SpecialLease(d) \/ AbortLease(d) \/ RecoverUnbound(d) \/ RecoverFenced(d)
  PROVE  Truth'
PROOF
<1>1. /\ d \in Actors /\ Rec \in Actors /\ Rec \notin Docs /\ Types /\ Docs \subseteq Actors
      /\ doc \in [Docs -> Rows] /\ job \in [Actors -> Jobs]
      /\ (d \in TextDocs <=> d \notin SpecialDocs) /\ (d \in TextDocs => doc[d].mark = 0)
  BY DocTypes, PublicationAssumption DEF BaseInv, Types, Actors, Rows, Rec, Docs
<1>2. PICK n : /\ SpecialLease(d) \/ AbortLease(d) => n = job[d].g
               /\ RecoverUnbound(d) \/ RecoverFenced(d) => n = doc[d].mark
  <2>1. CASE SpecialLease(d) \/ AbortLease(d)
    <3>1. lock' = d
      BY <2>1 DEF SpecialLease, AbortLease, Lease
    <3>2. RecoverUnbound(d) \/ RecoverFenced(d) => lock' = Rec
      BY DEF RecoverUnbound, RecoverFenced, Lease
    <3>3. QED
      BY <1>1, <3>1, <3>2
  <2>2. CASE ~(SpecialLease(d) \/ AbortLease(d))
    BY <2>2
  <2>3. QED
    BY <2>1, <2>2
<1>3. Same(d) /\ \A c \in Docs : c # d => exec'[c] = exec[c]
  <2>1. CASE exec' = exec
    BY <2>1 DEF Same, Committed, Phase
  <2>2. ASSUME NEW a \in Actors, rev >= 0, Lease(a), Bindable(d, n), Bind(d, n),
               d \in SpecialDocs, n \in DOMAIN exec[d]
        PROVE  Same(d) /\ \A c \in Docs : c # d => exec'[c] = exec[c]
    <3>1. /\ OneEdit(d, n) /\ exec'[d][n].phase = "preparing" /\ Phase(d, n) = "preparing"
          /\ exec'[d][n].st = exec[d][n].st
      BY <2>2, BindFacts
    <3>2. QED
      BY <2>2, <3>1, EditSame DEF Committed, Phase
  <2>3. CASE SpecialLease(d) \/ AbortLease(d)
    <3>1. job[d].pc \in {"pinned", "aborting"}
      BY <2>3 DEF SpecialLease, AbortLease, At
    <3>2. d \in SpecialDocs /\ n \in DOMAIN exec[d]
      BY <1>1, <1>2, <2>3, <3>1, DocTypes DEF BaseInv, JobInv, Past
    <3>3. QED
      BY <1>1, <1>2, <2>1, <2>2, <2>3, <3>2 DEF SpecialLease, AbortLease
  <2>4. CASE RecoverUnbound(d)
    <3>1. n \in DOMAIN exec[d] /\ n # 0 /\ n = doc[d].mark
      BY <1>2, <2>4 DEF RecoverUnbound, Running
    <3>2. QED
      BY <1>1, <2>2, <2>4, <3>1 DEF RecoverUnbound
  <2>5. CASE RecoverFenced(d)
    BY <2>1, <2>5 DEF RecoverFenced
  <2>6. QED
    BY <2>3, <2>4, <2>5
<1>4. /\ \A c \in Docs : c # d => doc'[c] = doc[c]
      /\ doc'[d].mark = doc[d].mark /\ doc'[d].link = doc[d].link /\ doc'[d].pg = doc[d].pg
  BY <1>1 DEF SpecialLease, AbortLease, RecoverUnbound, RecoverFenced, Rows
<1>5. PcMove(d) /\ \A c \in Docs : c # d => job'[c] = job[c]
  <2>1. CASE SpecialLease(d)
    <3>1. Step(d, "freezing", job[d].why, job[d].recovered) /\ job[d].pc = "pinned"
      BY <1>1, <2>1, JobForms DEF SpecialLease, At
    <3>2. QED
      BY <1>1, <3>1, StepFrame DEF PcMove, Active, Before, Publishing, TextHolding
  <2>2. CASE AbortLease(d)
    <3>1. Step(d, "undo", job[d].why, TRUE) /\ job[d].pc = "aborting"
      BY <1>1, <2>2, JobForms DEF AbortLease, At
    <3>2. /\ \A b \in Actors : b # d => job'[b] = job[b]
          /\ job'[d].pc = "undo" /\ job'[d].g = job[d].g
      BY <1>1, <3>1, StepFrame
    <3>3. QED
      BY <1>1, <3>1, <3>2 DEF PcMove, Active, Before, Undoing, TextHolding
  <2>3. CASE RecoverUnbound(d) \/ RecoverFenced(d)
    <3>1. \A c \in Docs : job'[c] = job[c]
      BY <1>1, <2>3 DEF RecoverUnbound, RecoverFenced
    <3>2. QED
      BY <3>1 DEF PcMove
  <2>4. QED
    BY <2>1, <2>2, <2>3
<1>6. Only(d) /\ MarkMove(d)
  BY <1>3, <1>4, <1>5 DEF Only, MarkMove
<1>7. QED
  BY <1>3, <1>4, <1>5, <1>6, SameMove

-----------------------------------------------------------------------------
(* Executions that are closed.                                             *)

\* One execution is closed or queued again.
LEMMA EditTold ==
  ASSUME NEW d \in Docs, NEW n \in DOMAIN exec[d], OneEdit(d, n),
         Committed(d, n)' <=> Committed(d, n),
         \/ exec'[d][n].st = "running" /\ n # doc[d].pg
         \/ exec'[d][n].st = "completed" /\ doc[d].pg >= n
         \/ exec'[d][n].st = "error" /\ (doc[d].pg # n \/ Uncovered(d, n)')
  PROVE  Told(d)
PROOF
<1>1. DOMAIN exec'[d] = DOMAIN exec[d]
  BY DEF OneEdit
<1>2. ASSUME NEW m \in DOMAIN exec[d]
      PROVE  /\ Committed(d, m)' <=> Committed(d, m)
             /\ \/ exec'[d][m].st = exec[d][m].st
                \/ exec'[d][m].st = "running" /\ m # doc[d].pg
                \/ exec'[d][m].st = "completed" /\ doc[d].pg >= m
                \/ exec'[d][m].st = "error" /\ (doc[d].pg # m \/ Uncovered(d, m)')
  <2>1. CASE m = n
    BY <2>1
  <2>2. CASE m # n
    BY <2>2 DEF OneEdit, Committed, Phase
  <2>3. QED
    BY <2>1, <2>2
<1>3. QED
  BY <1>1, <1>2 DEF Told

\* How a consumer closes its job.
LEMMA EndTells ==
  ASSUME BaseInv, BaseInv', ContentInv, Truth, \A c \in Docs : Kept(c), NEW d \in Docs,
         CloseFailed(d) \/ CloseCompleted(d)
  PROVE  Truth'
PROOF
<1>0. PICK g : g = job[d].g
  OBVIOUS
<1>1. /\ d \in Actors /\ Types /\ Docs \subseteq Actors /\ doc \in [Docs -> Rows]
      /\ job \in [Actors -> Jobs] /\ FreshInv(d) /\ ManifestInv(d) /\ TruthInv(d) /\ DocInv(d)
      /\ DOMAIN exec[d] = 1..Len(exec[d]) /\ 0 \notin DOMAIN exec[d]
      /\ doc[d].pg \in Nat
  BY DocTypes, TruthTypes DEF BaseInv, Types, Actors, Rows, ContentInv, DocInv, Truth
<1>2. job' = [job EXCEPT ![d] = Free(d)] /\ exposed' = exposed
  BY DEF CloseFailed, CloseCompleted
<1>3. PcMove(d) /\ Stays(d) /\ \A c \in Docs : c # d => job'[c] = job[c]
  BY <1>1, <1>2 DEF PcMove, Stays, Free, Active, Before, TextHolding, Publishing, Undoing
<1>4. /\ \A c \in Docs : c # d => doc'[c] = doc[c]
      /\ doc'[d].mark = doc[d].mark /\ doc'[d].pg = doc[d].pg
      /\ doc'[d].link \in {doc[d].link, 0}
  <2>1. \/ doc' = doc
        \/ doc' = [doc EXCEPT ![d].st = "waiting"]
        \/ doc' = [doc EXCEPT ![d].st = "error", ![d].link = 0]
    BY DEF CloseFailed, CloseCompleted
  <2>2. QED
    BY <1>1, <2>1 DEF Rows
<1>5. CASE exec' = exec
  BY <1>3, <1>4, <1>5, PlainMove
<1>6. ASSUME NEW x \in {"completed", "error"}, exec' = [exec EXCEPT ![d][g].st = x],
             Running(d, g),
             x = "completed" => CloseCompleted(d),
             x = "error" => /\ job[d].pc = "failed" /\ job[d].why # "cancel"
                            /\ ~(rev < 0 /\ doc[d].mark # 0)
      PROVE  Truth'
  <2>1. g \in DOMAIN exec[d] /\ g \in 1..Len(exec[d]) /\ g # 0 /\ g \in Nat
        /\ exec[d][g] \in Executions
    BY <1>1, <1>6, DocTypes DEF Running
  <2> DEFINE e == [exec[d][g] EXCEPT !.st = x]
  <2>2. Edit(d, g, e)
    BY <1>1, <1>6, <2>1, EditForms
  <2>3. e.st = x /\ e.phase = exec[d][g].phase
    BY <2>1 DEF Executions
  <2> HIDE DEF e
  <2>4. OneEdit(d, g) /\ exec'[d][g] = e
    BY <2>2, EditFrame
  <2>5. Committed(d, g)' <=> Committed(d, g)
    BY <2>3, <2>4 DEF Committed, Phase
  <2>6. x = "completed" => doc[d].pg >= g
    <3>1. x = "completed" => job[d].pc = "done"
      BY <1>6 DEF CloseCompleted, At
    <3>2. QED
      BY <1>0, <1>1, <2>1, <3>1 DEF TruthInv
  <2>7. x = "error" => doc[d].pg # g \/ Uncovered(d, g)'
    <3> SUFFICES ASSUME x = "error", doc[d].pg = g PROVE Uncovered(d, g)'
      OBVIOUS
    <3>1. g = doc[d].mark /\ Committed(d, g)
      BY <1>0, <1>1, <1>6 DEF TruthInv
    <3>2. Bound(d, g) # 0
      BY <1>1, <2>1, <3>1 DEF ManifestInv, Committed
    <3>3. d \in SpecialDocs
      BY <2>1, <3>1, DocTypes
    <3>4. ~(rev < 0)
      BY <1>6, <2>1, <3>1
    <3>5. d \in exposed
      BY <1>1, <2>1, <3>1, <3>2, <3>3, <3>4 DEF DocInv, SpecialInv
    <3>6. QED
      BY <1>2, <1>4, <2>5, <3>1, <3>5 DEF Uncovered
  <2>8. Told(d)
    BY <2>1, <2>3, <2>4, <2>5, <2>6, <2>7, EditTold
  <2>9. MarkMove(d) /\ Only(d)
    BY <1>3, <1>4, <2>4 DEF MarkMove, Only, OneEdit
  <2>10. TruthInv(d)'
    BY <1>1, <1>3, <1>4, <2>8, <2>9, TruthMove
  <2>11. QED
    BY <2>9, <2>10, OneTruth
<1>7. CASE CloseCompleted(d)
  <2>1. CASE Running(d, g)
    BY <1>0, <1>6, <1>7, <2>1 DEF CloseCompleted
  <2>2. CASE ~Running(d, g)
    BY <1>0, <1>5, <1>7, <2>2 DEF CloseCompleted
  <2>3. QED
    BY <2>1, <2>2
<1>8. CASE CloseFailed(d)
  <2>1. \/ exec' = exec
        \/ /\ exec' = [exec EXCEPT ![d][g].st = "error"] /\ Running(d, g)
           /\ job[d].pc = "failed" /\ job[d].why # "cancel"
           /\ ~(rev < 0 /\ doc[d].mark # 0)
    BY <1>0, <1>8 DEF CloseFailed, At
  <2>2. QED
    BY <1>5, <1>6, <2>1
<1>9. QED
  BY <1>7, <1>8

\* The transaction that closes or resets the execution and opens the fence.
LEMMA SettleTells ==
  ASSUME BaseInv, BaseInv', ContentInv, Truth, \A c \in Docs : Kept(c), NEW a \in Actors,
         FinishTx(a) \/ AbortTx(a) \/ (a = Rec /\ ResumeTx)
  PROVE  Truth'
PROOF
<1>0. PICK d, n : d = job[a].d /\ n = job[a].g
  OBVIOUS
<1>1. /\ job[a].pc \in {"finishing", "undoing", "resume"} /\ job[a].pc \in SpecialHolding
      /\ (FinishTx(a) => job[a].pc = "finishing") /\ (AbortTx(a) => job[a].pc = "undoing")
      /\ (ResumeTx /\ a = Rec => job[a].pc = "resume")
  BY DEF FinishTx, AbortTx, ResumeTx, At, SpecialHolding
<1>2. /\ Types /\ doc \in [Docs -> Rows] /\ job \in [Actors -> Jobs] /\ Docs \subseteq Actors
      /\ Rec \notin Docs
  BY PublicationAssumption DEF BaseInv, Types, Rows, Docs, Actors, Rec
<1>3. /\ d \in Docs /\ (a = d \/ a = Rec) /\ d \notin TextDocs
      /\ n \in DOMAIN exec[d] /\ n \in 1..Len(exec[d]) /\ n # 0 /\ n \in Nat /\ n = doc[d].mark
      /\ exec[d][n] \in Executions /\ Bound(d, n) = Mag /\ rev < 0
      /\ job[a].pc \in Locking /\ job[a] \in Jobs /\ HolderInv(a)
      /\ FreshInv(d) /\ ConsumerInv(d)
  BY <1>0, <1>1, HolderFacts
<1>4. TruthInv(d) /\ doc[d].pg \in Nat
  BY <1>3, DocTypes DEF Truth, Rows
<1>5. /\ (job[a].pc = "finishing" => Phase(d, n) = "committed")
      /\ (job[a].pc = "undoing" => /\ Phase(d, n) \in {"preparing", "prepared", "points_written"}
                                   /\ a = Rec => Phase(d, n) # "preparing")
      /\ (job[a].pc = "resume" => Phase(d, n) = "preparing")
  BY <1>0, <1>1, <1>3 DEF HolderInv, Undoing
<1>6. /\ \A b \in Actors : b # a => job'[b] = job[b]
      /\ a = d => /\ job'[d].g = n
                  /\ \/ job'[d].pc = "done" /\ FinishTx(a)
                     \/ job'[d].pc = "failed"
  <2>1. \/ a = Rec /\ job' = [job EXCEPT ![a] = Free(a)]
        \/ a # Rec /\ FinishTx(a) /\ Goto(a, "done")
        \/ a # Rec /\ Goto(a, "failed")
    BY DEF FinishTx, AbortTx, ResumeTx, Settle, Goto
  <2>2. CASE a = Rec /\ job' = [job EXCEPT ![a] = Free(a)]
    BY <1>2, <1>3, <2>2
  <2>3. ASSUME NEW pc, a # Rec, Goto(a, pc)
        PROVE  job'[a].pc = pc /\ job'[a].g = n /\ \A b \in Actors : b # a => job'[b] = job[b]
    BY <1>0, <1>2, <2>3, JobForms, StepFrame
  <2>4. QED
    BY <1>3, <2>1, <2>2, <2>3
<1>7. /\ \A c \in Docs : c # d => doc'[c] = doc[c]
      /\ doc'[d].mark = 0 /\ doc'[d].pg = doc[d].pg /\ doc'[d].link \in {doc[d].link, 0}
      /\ OneEdit(d, n) /\ (Committed(d, n)' <=> Committed(d, n))
      /\ \/ /\ job[a].pc = "finishing" /\ exec'[d][n].st = "completed"
         \/ /\ job[a].pc = "undoing" /\ exec'[d][n].st = "error"
         \/ /\ job[a].pc = "resume" /\ exec'[d][n].st = "running"
  <2>1. CASE FinishTx(a)
    <3> DEFINE e == [exec[d][n] EXCEPT !.st = "completed"]
    <3>1. /\ exec' = [exec EXCEPT ![d][n].st = "completed"] /\ doc' = [doc EXCEPT ![d].mark = 0]
      BY <1>0, <2>1 DEF FinishTx, Target
    <3>2. Edit(d, n, e)
      BY <1>2, <1>3, <3>1, EditForms
    <3>3. e.st = "completed" /\ e.phase = exec[d][n].phase
      BY <1>3 DEF Executions
    <3> HIDE DEF e
    <3>4. OneEdit(d, n) /\ exec'[d][n] = e
      BY <1>3, <3>2, EditFrame
    <3>5. /\ \A c \in Docs : c # d => doc'[c] = doc[c]
          /\ doc'[d].mark = 0 /\ doc'[d].pg = doc[d].pg /\ doc'[d].link = doc[d].link
      BY <1>2, <1>3, <3>1 DEF Rows
    <3>6. QED
      BY <1>1, <2>1, <3>3, <3>4, <3>5 DEF Phase, Committed
  <2>2. CASE AbortTx(a)
    <3> DEFINE e == [exec[d][n] EXCEPT !.st = "error", !.phase = "aborted"]
    <3>1. /\ exec' = [exec EXCEPT ![d][n] = e]
          /\ doc' = [doc EXCEPT ![d].st = "error", ![d].link = 0, ![d].mark = 0]
      BY <1>0, <2>2 DEF AbortTx, Target
    <3>2. e \in Executions
      BY <1>3, Fields
    <3>3. e.st = "error" /\ e.phase = "aborted"
      BY <1>3 DEF Executions
    <3> HIDE DEF e
    <3>4. OneEdit(d, n) /\ exec'[d][n] = e
      BY <1>3, <3>1, <3>2, EditFrame DEF Edit
    <3>5. /\ \A c \in Docs : c # d => doc'[c] = doc[c]
          /\ doc'[d].mark = 0 /\ doc'[d].pg = doc[d].pg /\ doc'[d].link = 0
      BY <1>2, <1>3, <3>1 DEF Rows
    <3>6. QED
      BY <1>1, <1>5, <2>2, <3>3, <3>4, <3>5 DEF Phase, Committed
  <2>3. CASE a = Rec /\ ResumeTx
    <3>1. /\ exec' = [exec EXCEPT ![d][n] = NewExec]
          /\ doc' = [doc EXCEPT ![d].st = "waiting", ![d].mark = 0]
      BY <1>0, <2>3 DEF ResumeTx, Target
    <3>2. OneEdit(d, n) /\ exec'[d][n] = NewExec
      BY <1>3, <3>1, NewExecution, EditFrame DEF Edit
    <3>3. NewExec.st = "running" /\ NewExec.phase = "none"
      BY DEF NewExec
    <3>4. /\ \A c \in Docs : c # d => doc'[c] = doc[c]
          /\ doc'[d].mark = 0 /\ doc'[d].pg = doc[d].pg /\ doc'[d].link = doc[d].link
      BY <1>2, <1>3, <3>1 DEF Rows
    <3>5. QED
      BY <1>1, <1>5, <2>3, <3>2, <3>3, <3>4 DEF Phase, Committed
  <2>4. QED
    BY <2>1, <2>2, <2>3
<1>8. /\ (job[a].pc = "finishing" => doc[d].pg = n)
      /\ (job[a].pc # "finishing" => doc[d].pg # n /\ ~Committed(d, n))
  BY <1>1, <1>3, <1>4, <1>5 DEF TruthInv, FreshInv, Committed
<1>9. Told(d)
  <2>1. doc[d].pg = n => doc[d].pg >= n
    BY <1>4
  <2>2. QED
    BY <1>3, <1>7, <1>8, <2>1, EditTold
<1>10. MarkMove(d)
  BY <1>3, <1>7, <1>8 DEF MarkMove, Committed, Phase
<1>11. PcMove(d) /\ Stays(d)
  <2>1. CASE a = d
    <3>1. PcMove(d)
      BY <1>0, <1>1, <1>3, <1>6, <1>8, <2>1 DEF PcMove
    <3>2. job'[d].pc \notin Active
      BY <1>6, <2>1 DEF Active, Before, TextHolding, Publishing, Undoing
    <3>3. QED
      BY <3>1, <3>2 DEF Stays
  <2>2. CASE a # d
    <3>1. job'[d] = job[d] /\ job[d].pc \notin Holding /\ a = Rec
      BY <1>2, <1>3, <1>6, <2>2, OneHolder
    <3>2. ASSUME job[d].pc \in Active
          PROVE  exec'[d][job[d].g].st \in {exec[d][job[d].g].st, "running"}
      <4>1. job[d].pc \in Before
        BY <3>1, <3>2 DEF Active, Holding, TextHolding, SpecialHolding, Publishing, Undoing
      <4>2. job[d].g \in DOMAIN exec[d]
        BY <1>4, <3>2 DEF TruthInv, Running
      <4>3. CASE job[d].g # n
        BY <1>7, <4>2, <4>3 DEF OneEdit
      <4>4. CASE job[d].g = n
        <5>1. ~Late(d)
          BY <1>3, <4>1, <4>4 DEF ConsumerInv
        <5>2. Phase(d, n) \notin {"prepared", "points_written", "committed"}
          BY <1>3, <5>1 DEF Late
        <5>3. job[a].pc = "resume"
          BY <1>1, <1>5, <3>1, <5>2
        <5>4. QED
          BY <1>7, <4>4, <5>3
      <4>5. QED
        BY <4>3, <4>4
    <3>3. QED
      BY <3>1, <3>2 DEF PcMove, Stays
  <2>3. QED
    BY <2>1, <2>2
<1>12. Only(d)
  BY <1>2, <1>3, <1>6, <1>7 DEF Only, OneEdit
<1>13. TruthInv(d)'
  BY <1>3, <1>4, <1>7, <1>9, <1>10, <1>11, TruthMove
<1>14. QED
  BY <1>3, <1>12, <1>13, OneTruth

-----------------------------------------------------------------------------
(* Commits and new executions.                                             *)

\* The rows become those of the newest execution, which is running.
LEMMA CommitTells ==
  ASSUME BaseInv, BaseInv', ContentInv, Truth, \A c \in Docs : Kept(c),
         LossyDocs \cap TextDocs = {}, NEW d \in Docs, NEW why \in Whys,
         TextCommit(d) \/ SpecialCommit(d) \/ CommitLost(d, why)
  PROVE  Truth'
PROOF
<1>0. PICK n : n = job[d].g
  OBVIOUS
<1>1. /\ d \in Actors /\ Types /\ Docs \subseteq Actors /\ doc \in [Docs -> Rows]
      /\ TruthInv(d) /\ job[d].d = d
      /\ Len(exec[d]) \in Nat /\ DOMAIN exec[d] = 1..Len(exec[d])
      /\ (d \in TextDocs => doc[d].mark = 0)
  BY DocTypes DEF BaseInv, Types, Actors, Rows, Truth
<1>2. \/ TextCommitted(d) /\ TextCommit(d)
      \/ SpecialCommitted(d) /\ ~TextCommit(d)
  <2>1. TextCommit(d) => TextCommitted(d)
    BY DEF TextCommit
  <2>2. SpecialCommit(d) => SpecialCommitted(d)
    BY DEF SpecialCommit
  <2>3. CommitLost(d, why) => d \notin TextDocs
    BY DEF CommitLost
  <2>4. CommitLost(d, why) => SpecialCommitted(d)
    BY <2>3 DEF CommitLost
  <2>5. CASE TextCommit(d)
    BY <2>1, <2>5
  <2>6. CASE ~TextCommit(d)
    <3>1. SpecialCommitted(d)
      BY <2>2, <2>4, <2>6
    <3>2. QED
      BY <2>6, <3>1
  <2>7. QED
    BY <2>5, <2>6
<1>3. job[d].pc \in {"written", "rows"} /\ job[d].pc \in Active
  BY <1>2 DEF TextCommitted, SpecialCommitted, At, Active, TextHolding, Publishing
<1>4. /\ n \in DOMAIN exec[d] /\ exec[d][n].st = "running" /\ n = Len(exec[d]) /\ n # 0
      /\ n \in Nat /\ exec[d][n] \in Executions /\ n \in 1..Len(exec[d])
  BY <1>0, <1>1, <1>3, DocTypes DEF TruthInv, Running
<1>5. /\ \A c \in Docs : c # d => doc'[c] = doc[c]
      /\ doc'[d].pg = n /\ doc'[d].mark = doc[d].mark /\ doc'[d].link \in {doc[d].link, 0}
  <2>1. \/ doc' = [doc EXCEPT ![d].st = "completed", ![d].link = 0, ![d].pg = n]
        \/ doc' = [doc EXCEPT ![d].st = "completed", ![d].pg = n]
    BY <1>0, <1>2 DEF TextCommitted, SpecialCommitted
  <2>2. QED
    BY <1>1, <1>4, <2>1 DEF Rows
<1>6. /\ OneEdit(d, n) /\ exec'[d][n].st = "running"
      /\ (TextCommit(d) => doc[d].mark = 0)
      /\ (~TextCommit(d) => doc[d].mark = n /\ Committed(d, n)')
  <2>1. CASE TextCommit(d)
    <3>1. exec' = exec /\ job[d].pc \in TextHolding
      BY <2>1 DEF TextCommit, TextCommitted, At, TextHolding
    <3>2. doc[d].mark = 0
      BY <1>1, <3>1 DEF BaseInv, JobInv
    <3>3. QED
      BY <1>4, <2>1, <3>1, <3>2 DEF OneEdit
  <2>2. CASE ~TextCommit(d)
    <3> DEFINE e == [exec[d][n] EXCEPT !.phase = "committed"]
    <3>1. exec' = [exec EXCEPT ![d][n].phase = "committed"] /\ job[d].pc \in SpecialHolding
      BY <1>0, <1>2, <2>2 DEF SpecialCommitted, At, SpecialHolding
    <3>2. Edit(d, n, e)
      BY <1>1, <1>4, <3>1, EditForms DEF Unfinished
    <3>3. e.phase = "committed" /\ e.st = "running"
      BY <1>4 DEF Executions
    <3> HIDE DEF e
    <3>4. OneEdit(d, n) /\ exec'[d][n] = e
      BY <3>2, EditFrame
    <3>5. doc[d].mark = n
      BY <1>0, <1>1, <3>1, HolderFacts
    <3>6. QED
      BY <2>2, <3>3, <3>4, <3>5 DEF Committed, Phase
  <2>3. QED
    BY <2>1, <2>2
<1>7. /\ \A b \in Actors : b # d => job'[b] = job[b]
      /\ job'[d].g = n /\ job'[d].pc \in {"committed", "finish", "failed"}
      /\ (job'[d].pc = "failed" => ~TextCommit(d))
  <2>1. CASE TextCommit(d)
    <3>1. Step(d, "committed", job[d].why, job[d].recovered)
      BY <1>1, <2>1, JobForms DEF TextCommit
    <3>2. QED
      BY <1>0, <1>1, <3>1, StepFrame
  <2>2. CASE SpecialCommit(d) /\ ~TextCommit(d)
    <3>1. Step(d, "finish", job[d].why, job[d].recovered)
      BY <1>1, <2>2, JobForms DEF SpecialCommit
    <3>2. QED
      BY <1>0, <1>1, <3>1, StepFrame
  <2>3. CASE CommitLost(d, why) /\ ~TextCommit(d)
    <3>1. d \notin TextDocs
      BY <2>3 DEF CommitLost
    <3>2. job' = [job EXCEPT ![d].why = why, ![d].pc = "failed"]
      BY <2>3, <3>1 DEF CommitLost
    <3>3. Step(d, "failed", why, job[d].recovered)
      BY <1>1, <3>2, JobForms
    <3>4. QED
      BY <1>0, <1>1, <2>3, <3>3, StepFrame
  <2>4. QED
    BY <2>1, <2>2, <2>3
<1>8. Len(exec'[d]) = Len(exec[d]) /\ DOMAIN exec'[d] = DOMAIN exec[d]
  <2>1. DOMAIN exec'[d] = 1..Len(exec'[d]) /\ Len(exec'[d]) \in Nat
    BY DEF BaseInv, Types
  <2>2. QED
    BY <1>1, <1>6, <2>1, SameLength DEF OneEdit
<1>9. ASSUME NEW m \in DOMAIN exec'[d]
      PROVE  /\ exec'[d][m].st = "completed" => doc'[d].pg >= m
             /\ exec'[d][m].st = "error" => doc'[d].pg # m
  BY <1>1, <1>4, <1>5, <1>6, <1>8
<1>10. doc'[d].mark # 0 => doc'[d].pg = doc'[d].mark
  BY <1>5, <1>6
<1>11. /\ doc'[d].link \in {0, Len(exec'[d])} /\ job'[d].g \in {0, Len(exec'[d])}
       /\ job'[d].pc \notin {"idle", "claimed", "done"} \union Active \union TextHolding
  BY <1>1, <1>4, <1>5, <1>7, <1>8
  DEF TruthInv, Active, Before, TextHolding, Publishing, Undoing
<1>12. job'[d].pc = "failed" => job'[d].g = doc'[d].mark /\ Committed(d, job[d].g)'
  BY <1>5, <1>6, <1>7 DEF Committed, Phase
<1>13. TruthInv(d)'
  BY <1>5, <1>7, <1>9, <1>10, <1>11, <1>12 DEF TruthInv
<1>14. Only(d)
  BY <1>1, <1>5, <1>6, <1>7 DEF Only, OneEdit
<1>15. QED
  BY <1>13, <1>14, OneTruth

\* The document is linked to a new execution; the one it had may have failed.
LEMMA NewTold ==
  ASSUME BaseInv, BaseInv', ContentInv, Truth, \A c \in Docs : Kept(c), NEW d \in Docs,
         NEW s, Closes(s, d), exec' = [exec EXCEPT ![d] = Append(s, NewExec)],
         \A n \in 1..Len(exec[d]) :
           s[n].st = exec[d][n].st \/ (s[n].st = "error" /\ n # doc[d].pg),
         \A c \in Docs : c # d => doc'[c] = doc[c] /\ job'[c] = job[c],
         doc'[d].pg = doc[d].pg, doc'[d].mark = doc[d].mark,
         doc'[d].link = Len(exec[d]) + 1,
         \/ job'[d] = job[d] /\ job[d].pc = "idle"
         \/ job'[d].pc = "run" /\ job'[d].g = Len(exec[d]) + 1
  PROVE  Truth'
PROOF
<1>1. /\ Len(exec[d]) \in Nat /\ DOMAIN exec[d] = 1..Len(exec[d]) /\ TruthInv(d)
      /\ doc[d].mark \in 0..Len(exec[d]) /\ doc[d].pg \in 0..Len(exec[d])
      /\ exec \in [Docs -> Seq(Executions)]
  BY TruthTypes DEF Truth, BaseInv, Types
<1>2. exec'[d] = Append(s, NewExec) /\ \A c \in Docs : c # d => exec'[c] = exec[c]
  BY <1>1
<1>3. /\ Len(exec'[d]) = Len(exec[d]) + 1 /\ DOMAIN exec'[d] = 1..(Len(exec[d]) + 1)
      /\ \A n \in 1..Len(exec[d]) : exec'[d][n] = s[n]
      /\ exec'[d][Len(exec[d]) + 1] = NewExec
  BY <1>2, AddOne DEF Closes
<1>4. NewExec.st = "running"
  BY DEF NewExec
<1>5. \A n \in 1..Len(exec[d]) : Committed(d, n)' <=> Committed(d, n)
  BY <1>3 DEF Closes, Committed, Phase
<1>6. ASSUME NEW n \in DOMAIN exec'[d]
      PROVE  /\ exec'[d][n].st = "completed" => doc[d].pg >= n
             /\ exec'[d][n].st = "error" => doc[d].pg # n \/ Uncovered(d, n)'
  <2>1. CASE n = Len(exec[d]) + 1
    BY <1>3, <1>4, <2>1
  <2>2. CASE n \in 1..Len(exec[d]) /\ s[n].st = exec[d][n].st
    <3>1. n # 0 /\ n \in DOMAIN exec[d]
      BY <1>1, <2>2
    <3>2. Uncovered(d, n) => Uncovered(d, n)'
      BY <1>5, <2>2, <3>1 DEF Uncovered, Kept
    <3>3. QED
      BY <1>1, <1>3, <2>2, <3>1, <3>2 DEF TruthInv
  <2>3. CASE n \in 1..Len(exec[d]) /\ s[n].st = "error" /\ n # doc[d].pg
    BY <1>3, <2>3
  <2>4. n = Len(exec[d]) + 1 \/ n \in 1..Len(exec[d])
    BY <1>1, <1>3
  <2>5. QED
    BY <2>1, <2>2, <2>3, <2>4
<1>7. doc'[d].mark # 0 /\ Committed(d, doc[d].mark)' => doc'[d].pg = doc'[d].mark
  <2>1. doc[d].mark # 0 => doc[d].mark \in 1..Len(exec[d])
    BY <1>1
  <2>2. QED
    BY <1>1, <1>5, <2>1 DEF TruthInv, Committed, Phase
<1>8. /\ job'[d].g \in {0, Len(exec'[d])} /\ (job'[d].pc = "idle" => job'[d].g = 0)
      /\ job'[d].pc \in {"idle", "run"}
  BY <1>1, <1>3 DEF TruthInv
<1>9. job'[d].pc = "run" => Running(d, job[d].g)'
  BY <1>1, <1>3, <1>4 DEF Running
<1>10. /\ job'[d].pc \notin {"claimed", "committed", "done", "failed"} \union TextHolding
       /\ (job'[d].pc \in Active => job'[d].pc = "run")
  BY <1>8 DEF Active, Before, TextHolding, Publishing, Undoing
<1>11. TruthInv(d)'
  BY <1>3, <1>6, <1>7, <1>8, <1>9, <1>10 DEF TruthInv
<1>12. Only(d)
  BY <1>2 DEF Only
<1>13. QED
  BY <1>11, <1>12, OneTruth

\* The queue, and the consumer taking an execution.
LEMMA QueueTells ==
  ASSUME BaseInv, BaseInv', ContentInv, Truth, \A c \in Docs : Kept(c), NEW d \in Docs,
         NEW replay \in BOOLEAN, Enqueue(d, replay) \/ ClaimStuck(d) \/ Ensure(d)
  PROVE  Truth'
PROOF
<1>1. /\ d \in Actors /\ Docs \subseteq Actors /\ doc \in [Docs -> Rows]
      /\ job \in [Actors -> Jobs] /\ FreshInv(d) /\ TruthInv(d)
      /\ Len(exec[d]) \in Nat /\ DOMAIN exec[d] = 1..Len(exec[d])
      /\ doc[d].link \in Nat
  BY DocTypes DEF ContentInv, DocInv, BaseInv, Types, Rows, Actors, Truth
<1>2. Closes(exec[d], d)
  BY CloseNone
<1>3. ASSUME NEW st, NEW link \in Nat, doc' = [doc EXCEPT ![d].st = st, ![d].link = link]
      PROVE  /\ \A c \in Docs : c # d => doc'[c] = doc[c]
             /\ doc'[d].link = link /\ doc'[d].mark = doc[d].mark /\ doc'[d].pg = doc[d].pg
  BY <1>1, <1>3 DEF Rows
<1>0. Len(exec[d]) + 1 \in Nat
  BY <1>1
<1>4. CASE Enqueue(d, replay)
  <2>1. job' = job /\ job[d].pc = "idle" /\ PcMove(d)
    BY <1>4 DEF Enqueue, LeaseFree, PcMove
  <2>2. CASE replay
    <3>1. /\ doc' = [doc EXCEPT ![d].st = "waiting", ![d].link = Len(exec[d]) + 1]
          /\ exec' = [exec EXCEPT ![d] = Append(exec[d], NewExec)]
      BY <1>4, <2>2 DEF Enqueue
    <3>2. /\ \A c \in Docs : c # d => doc'[c] = doc[c]
          /\ doc'[d].link = Len(exec[d]) + 1 /\ doc'[d].mark = doc[d].mark
          /\ doc'[d].pg = doc[d].pg
      BY <1>0, <1>3, <3>1
    <3>3. QED
      BY <1>2, <2>1, <3>1, <3>2, NewTold
  <2>3. CASE ~replay
    <3>1. doc' = [doc EXCEPT ![d].st = "waiting", ![d].link = 0] /\ exec' = exec
      BY <1>4, <2>3 DEF Enqueue
    <3>2. /\ \A c \in Docs : c # d => doc'[c] = doc[c]
          /\ doc'[d].link = 0 /\ doc'[d].mark = doc[d].mark /\ doc'[d].pg = doc[d].pg
      BY <1>3, <3>1
    <3>3. QED
      BY <2>1, <3>1, <3>2, PlainMove
  <2>4. QED
    BY <2>2, <2>3
<1>5. CASE ClaimStuck(d)
  <2>1. job' = job /\ job[d].pc = "idle" /\ PcMove(d) /\ doc[d].st \in InFlight
    BY <1>5 DEF ClaimStuck, LeaseFree, PcMove
  <2>2. CASE Running(d, doc[d].link)
    <3> DEFINE s == [exec[d] EXCEPT ![doc[d].link].st = "error"]
    <3>1. /\ doc' = [doc EXCEPT ![d].st = "waiting", ![d].link = Len(exec[d]) + 1]
          /\ exec' = [exec EXCEPT ![d] = Append(s, NewExec)]
      BY <1>5, <2>2 DEF ClaimStuck
    <3>2. doc[d].link \in 1..Len(exec[d]) /\ exec[d][doc[d].link] \in Executions
      BY <1>1, <2>2, DocTypes DEF Running
    <3>3. Closes(s, d)
      BY <3>2, CloseOne
    <3>4. "completed" \notin InFlight
      BY DEF InFlight
    <3>5. doc[d].link # doc[d].pg
      BY <1>1, <2>1, <2>2, <3>4 DEF FreshInv
    <3>6. \A n \in 1..Len(exec[d]) : n # doc[d].link => s[n] = exec[d][n]
      BY <1>1
    <3>7. s[doc[d].link].st = "error"
      BY <1>1, <3>2 DEF Executions
    <3>8. \A n \in 1..Len(exec[d]) :
            s[n].st = exec[d][n].st \/ (s[n].st = "error" /\ n # doc[d].pg)
      BY <3>5, <3>6, <3>7
    <3> HIDE DEF s
    <3>9. /\ \A c \in Docs : c # d => doc'[c] = doc[c]
          /\ doc'[d].link = Len(exec[d]) + 1 /\ doc'[d].mark = doc[d].mark
          /\ doc'[d].pg = doc[d].pg
      BY <1>0, <1>3, <3>1
    <3>10. QED
      BY <2>1, <3>1, <3>3, <3>8, <3>9, NewTold
  <2>3. CASE ~Running(d, doc[d].link)
    <3>1. doc' = [doc EXCEPT ![d].st = "error", ![d].link = 0] /\ exec' = exec
      BY <1>5, <2>3 DEF ClaimStuck
    <3>2. /\ \A c \in Docs : c # d => doc'[c] = doc[c]
          /\ doc'[d].link = 0 /\ doc'[d].mark = doc[d].mark /\ doc'[d].pg = doc[d].pg
      BY <1>3, <3>1
    <3>3. QED
      BY <2>1, <3>1, <3>2, PlainMove
  <2>4. QED
    BY <2>2, <2>3
<1>6. CASE Ensure(d)
  <2> DEFINE g == IF Running(d, doc[d].link) THEN doc[d].link ELSE Len(exec[d]) + 1
  <2>1. /\ doc' = [doc EXCEPT ![d].link = g] /\ job[d].pc = "claimed"
        /\ job' = [job EXCEPT ![d].pc = "run", ![d].g = g]
    BY <1>6 DEF Ensure, At
  <2>2. g \in Nat /\ (Running(d, doc[d].link) => g = doc[d].link)
        /\ (~Running(d, doc[d].link) => g = Len(exec[d]) + 1)
    BY <1>1
  <2> HIDE DEF g
  <2>3. /\ \A c \in Docs : c # d => doc'[c] = doc[c]
        /\ doc'[d].link = g /\ doc'[d].mark = doc[d].mark /\ doc'[d].pg = doc[d].pg
    BY <1>1, <2>1, <2>2 DEF Rows
  <2>4. /\ \A c \in Docs : c # d => job'[c] = job[c]
        /\ job'[d].pc = "run" /\ job'[d].g = g
    BY <1>1, <2>1 DEF Jobs
  <2>5. CASE ~Running(d, doc[d].link)
    <3>1. exec' = [exec EXCEPT ![d] = Append(exec[d], NewExec)]
      BY <1>6, <2>5 DEF Ensure
    <3>2. QED
      BY <1>2, <2>2, <2>3, <2>4, <2>5, <3>1, NewTold
  <2>6. CASE Running(d, doc[d].link)
    <3>1. exec' = exec /\ g = doc[d].link /\ g \in DOMAIN exec[d] /\ g # 0
      BY <1>1, <1>6, <2>2, <2>6 DEF Ensure, Running
    <3>2. /\ g = Len(exec[d]) /\ Running(d, job[d].g)'
      BY <1>1, <2>4, <2>6, <3>1 DEF TruthInv, Running
    <3>3. /\ job'[d].pc \notin {"idle", "claimed", "committed", "done", "failed"}
          /\ job'[d].pc \notin TextHolding
      BY <2>4 DEF TextHolding
    <3>4. \A n \in DOMAIN exec[d] : Uncovered(d, n) => Uncovered(d, n)'
      <4>1. 0 \notin DOMAIN exec[d] /\ Kept(d)
        BY <1>1
      <4>2. QED
        BY <2>3, <3>1, <4>1 DEF Uncovered, Kept, Committed, Phase
    <3>5. TruthInv(d)'
      BY <1>1, <2>3, <2>4, <3>1, <3>2, <3>3, <3>4 DEF TruthInv, Committed, Phase
    <3>6. Only(d)
      BY <2>3, <2>4, <3>1 DEF Only
    <3>7. QED
      BY <3>5, <3>6, OneTruth
  <2>7. QED
    BY <2>5, <2>6
<1>7. QED
  BY <1>4, <1>5, <1>6

-----------------------------------------------------------------------------
(* Which documents a step leaves exposed.                                  *)

\* Opening the fence leaves exposed what has a bound manifest marked.
LEMMA OpenKeeps ==
  ASSUME BaseInv, ContentInv, NEW e \in Docs, OpenFence(e)
  PROVE  \A c \in Docs : Kept(c)
PROOF
<1> SUFFICES ASSUME NEW c \in Docs, c \in exposed, doc[c].mark # 0,
                    Committed(c, doc[c].mark), doc'[c].mark = doc[c].mark
             PROVE  c \in exposed'
  BY DEF Kept
<1>1. doc[c].mark \in DOMAIN exec[c] /\ ManifestInv(c)
  BY TruthTypes DEF ContentInv, DocInv
<1>2. exec[c][doc[c].mark].bound # 0
  BY <1>1 DEF ManifestInv, Committed, Phase, Bound
<1>3. QED
  BY <1>2 DEF OpenFence

\* A step that opens no fence uncovers documents and covers none.
LEMMA StepKeeps ==
  ASSUME exposed \subseteq exposed'
  PROVE  \A c \in Docs : Kept(c)
BY DEF Kept

\* The transactions that close a publication, by whoever holds it.
LEMMA SettleOpens ==
  ASSUME BaseInv, ContentInv, NEW a \in Actors,
         FinishTx(a) \/ AbortTx(a) \/ (a = Rec /\ ResumeTx)
  PROVE  \A c \in Docs : Kept(c)
PROOF
<1>1. OpenFence(Target(a))
  BY DEF FinishTx, AbortTx, ResumeTx, Settle
<1>2. job[a].pc \in {"finishing", "undoing", "resume"}
  BY DEF FinishTx, AbortTx, ResumeTx, At
<1>3. Target(a) \in Docs
  <2>1. job[a].pc \in SpecialHolding
    BY <1>2 DEF SpecialHolding
  <2>2. job[a].d \in Docs
    BY <2>1, HolderFacts
  <2>3. QED
    BY <2>2 DEF Target
<1>4. QED
  BY <1>1, <1>3, OpenKeeps

LEMMA UndoKeepsExposed ==
  ASSUME BaseInv, ContentInv, NEW a \in Actors, Undo(a)
  PROVE  \A c \in Docs : Kept(c)
PROOF
<1>1. CASE DeleteOld(a) \/ DeleteCandidate(a)
  <2>1. exposed' = exposed
    BY <1>1 DEF DeleteOld, DeleteCandidate
  <2>2. QED
    BY <2>1, StepKeeps
<1>2. CASE FinishTx(a) \/ AbortTx(a)
  BY <1>2, SettleOpens
<1>3. QED
  BY <1>1, <1>2 DEF Undo

LEMMA ConsumeKeepsExposed ==
  ASSUME BaseInv, ContentInv, NEW d \in Docs, Consume(d)
  PROVE  \A c \in Docs : Kept(c)
PROOF
<1>1. CASE TextCommit(d)
  <2>1. OpenFence(d)
    BY <1>1 DEF TextCommit, TextCommitted
  <2>2. QED
    BY <2>1, OpenKeeps
<1>2. CASE TextAbort(d)
  <2>1. OpenFence(d) \/ exposed' = exposed
    BY <1>2 DEF TextAbort
  <2>2. QED
    BY <2>1, OpenKeeps, StepKeeps
<1>3. CASE BackupReuse(d)
  <2>1. exposed \subseteq exposed'
    BY <1>3 DEF BackupReuse
  <2>2. QED
    BY <2>1, StepKeeps
<1>4. CASE \/ Claim(d) \/ Ensure(d) \/ CloseFailed(d) \/ CloseCompleted(d)
           \/ TextLease(d) \/ TextBusy(d) \/ BackupFirst(d) \/ BackupRest(d)
           \/ BackupRefused(d) \/ UpsertSome(d) \/ UpsertRest(d) \/ TextCleanup(d) \/ Restore(d)
  <2>1. exposed' = exposed
    BY <1>4 DEF Claim, Ensure, CloseFailed, CloseCompleted, TextLease, TextBusy, BackupFirst,
                BackupRest, BackupRefused, UpsertSome, UpsertRest, TextCleanup, Restore
  <2>2. QED
    BY <2>1, StepKeeps
<1>5. CASE \/ Record(d) \/ RecordRefused(d) \/ PublishRefused(d) \/ SpecialLease(d)
           \/ SpecialNoLease(d) \/ AbortLease(d) \/ AbortNoLease(d) \/ Freeze(d)
           \/ UpsertCandidate(d) \/ PointsWritten(d) \/ SpecialCommit(d)
  <2>1. exposed' = exposed
    BY <1>5 DEF Record, RecordRefused, PublishRefused, SpecialLease, SpecialNoLease, AbortLease,
                AbortNoLease, Freeze, UpsertCandidate, PointsWritten, SpecialCommit
  <2>2. QED
    BY <2>1, StepKeeps
<1>6. QED
  BY <1>1, <1>2, <1>3, <1>4, <1>5 DEF Consume

LEMMA FaultKeepsExposed ==
  ASSUME BaseInv, ContentInv, LossyDocs \cap TextDocs = {}, Fault
  PROVE  \A c \in Docs : Kept(c)
PROOF
<1>1. CASE \E a \in Actors : Crash(a)
  <2>1. exposed' = exposed
    BY <1>1 DEF Crash, Die
  <2>2. QED
    BY <2>1, StepKeeps
<1>2. ASSUME NEW d \in Docs, CleanupCancelled(d) \/ RestoreFails(d) \/ PrepareFails(d)
      PROVE  exposed' = exposed
  BY <1>2 DEF CleanupCancelled, RestoreFails, PrepareFails
<1>3. ASSUME NEW d \in Docs, NEW why \in Whys, TextFail(d, why) \/ SpecialFail(d, why)
      PROVE  exposed' = exposed
  BY <1>3 DEF TextFail, SpecialFail
<1>4. ASSUME NEW d \in Docs, NEW why \in Whys, CommitLost(d, why)
      PROVE  exposed' = exposed
  <2>1. d \notin TextDocs
    BY <1>4 DEF CommitLost
  <2>2. QED
    BY <1>4, <2>1 DEF CommitLost
<1>5. QED
  BY <1>1, <1>2, <1>3, <1>4, StepKeeps DEF Fault

LEMMA ExposureStep ==
  ASSUME BaseInv, ContentInv, LossyDocs \cap TextDocs = {}, [Next]_vars
  PROVE  \A c \in Docs : Kept(c)
PROOF
<1>1. Docs \subseteq Actors /\ Rec \in Actors
  BY DEF Actors
<1>2. CASE UNCHANGED vars
  <2>1. exposed' = exposed
    BY <1>2 DEF vars
  <2>2. QED
    BY <2>1, StepKeeps
<1>3. CASE Recover
  <2>1. CASE ResumeTx
    BY <1>1, <2>1, SettleOpens
  <2>2. CASE Undo(Rec)
    BY <1>1, <2>2, UndoKeepsExposed
  <2>3. ASSUME NEW d \in Docs, RecoverUnbound(d) \/ RecoverFenced(d)
        PROVE  exposed' = exposed
    BY <2>3 DEF RecoverUnbound, RecoverFenced
  <2>4. FinishRefused => exposed' = exposed
    BY DEF FinishRefused, Die
  <2>5. QED
    BY <1>3, <2>1, <2>2, <2>3, <2>4, StepKeeps DEF Recover
<1>4. CASE Fault
  BY <1>4, FaultKeepsExposed
<1>5. ASSUME NEW d \in Docs, Consume(d) \/ Undo(d)
      PROVE  \A c \in Docs : Kept(c)
  BY <1>1, <1>5, ConsumeKeepsExposed, UndoKeepsExposed
<1>6. ASSUME NEW d \in Docs, ClaimStuck(d) \/ \E replay \in BOOLEAN : Enqueue(d, replay)
      PROVE  exposed' = exposed
  BY <1>6 DEF ClaimStuck, Enqueue
<1>7. QED
  BY <1>2, <1>3, <1>4, <1>5, <1>6, StepKeeps DEF Next

-----------------------------------------------------------------------------
(* The invariant holds in every reachable state.                           *)

LEMMA TruthInit == Init => Truth
PROOF
<1> SUFFICES ASSUME Init, NEW d \in Docs PROVE TruthInv(d)
  BY DEF Truth
<1>1. doc[d].link = 0 /\ doc[d].mark = 0 /\ exec[d] = <<>>
  BY DEF Init
<1>2. DOMAIN exec[d] = {}
  BY <1>1
<1>3. job[d].pc = "idle" /\ job[d].g = 0
  BY DEF Init, Free, Actors
<1>4. QED
  BY <1>1, <1>2, <1>3 DEF TruthInv, Active, Before, TextHolding, Publishing, Undoing

\* Failures, by where the consumer stands.
LEMMA FaultTells ==
  ASSUME BaseInv, BaseInv', ContentInv, Truth, \A c \in Docs : Kept(c),
         LossyDocs \cap TextDocs = {}, Fault
  PROVE  Truth'
PROOF
<1>1. "error" \in Whys
  BY DEF Whys
<1>2. CASE \E a \in Actors : Crash(a)
  BY <1>2, DieTells DEF Crash
<1>3. ASSUME NEW d \in Docs, CleanupCancelled(d) \/ RestoreFails(d) PROVE Truth'
  BY <1>1, <1>3, TextTells
<1>4. ASSUME NEW d \in Docs, PrepareFails(d) PROVE Truth'
  <2>1. job[d].pc \in {"pinned", "freezing"}
    BY <1>4 DEF PrepareFails, At
  <2>2. QED
    BY <1>1, <1>4, <2>1, RefusalsTell, SpecialFailTells
<1>5. ASSUME NEW d \in Docs, NEW why \in Whys, TextFail(d, why) PROVE Truth'
  <2>1. job[d].pc \in {"claimed", "run"} \/ job[d].pc \in TextHolding
    BY <1>5 DEF TextFail, At, TextHolding
  <2>2. QED
    BY <1>5, <2>1, RefusalsTell, TextTells
<1>6. ASSUME NEW d \in Docs, NEW why \in Whys, SpecialFail(d, why) PROVE Truth'
  <2>1. job[d].pc \in {"claimed", "run", "pinned"} \/ job[d].pc \in SpecialHolding
    BY <1>6 DEF SpecialFail, At, SpecialHolding
  <2>2. QED
    BY <1>6, <2>1, RefusalsTell, SpecialFailTells
<1>7. ASSUME NEW d \in Docs, NEW why \in Whys, CommitLost(d, why) PROVE Truth'
  BY <1>7, CommitTells
<1>8. QED
  BY <1>2, <1>3, <1>4, <1>5, <1>6, <1>7 DEF Fault

\* The invariant is inductive beside BaseInv and ContentInv.
LEMMA TruthStep ==
  ASSUME LossyDocs \cap TextDocs = {}
  PROVE  BaseInv /\ BaseInv' /\ ContentInv /\ Truth /\ [Next]_vars => Truth'
PROOF
<1> SUFFICES ASSUME BaseInv, BaseInv', ContentInv, Truth, [Next]_vars PROVE Truth'
  OBVIOUS
<1>1. Docs \subseteq Actors /\ Rec \in Actors /\ "error" \in Whys /\ TRUE \in BOOLEAN
  BY DEF Actors, Whys
<1>k. \A c \in Docs : Kept(c)
  BY ExposureStep
<1>2. CASE UNCHANGED vars
  <2>1. doc' = doc /\ exec' = exec /\ job' = job
    BY <1>2 DEF vars
  <2>2. QED
    BY <1>k, <2>1, OtherTruth DEF Truth
<1>3. CASE Recover
  <2>1. CASE ResumeTx
    BY <1>1, <1>k, <2>1, SettleTells
  <2>2. CASE Undo(Rec)
    BY <1>1, <1>k, <2>2, SettleTells, DeleteTells DEF Undo
  <2>3. CASE \E d \in Docs : RecoverUnbound(d) \/ RecoverFenced(d)
    BY <1>k, <2>3, LeaseTells
  <2>4. CASE FinishRefused
    BY <1>1, <1>k, <2>4, DieTells DEF FinishRefused
  <2>5. QED
    BY <1>3, <2>1, <2>2, <2>3, <2>4 DEF Recover
<1>4. CASE Fault
  BY <1>k, <1>4, FaultTells
<1>5. ASSUME NEW d \in Docs, Consume(d) PROVE Truth'
  <2>1. CASE \/ Claim(d) \/ TextBusy(d) \/ PublishRefused(d) \/ SpecialNoLease(d)
             \/ TextLease(d)
    BY <1>k, <2>1, StatusTells
  <2>2. CASE Ensure(d)
    BY <1>1, <1>k, <2>2, QueueTells
  <2>3. CASE CloseFailed(d) \/ CloseCompleted(d)
    BY <1>k, <2>3, EndTells
  <2>4. CASE \/ BackupFirst(d) \/ BackupRest(d) \/ BackupReuse(d) \/ BackupRefused(d)
             \/ UpsertSome(d) \/ UpsertRest(d) \/ Restore(d)
             \/ TextAbort(d) \/ TextCleanup(d)
    BY <1>1, <1>k, <2>4, TextTells
  <2>5. CASE TextCommit(d) \/ SpecialCommit(d)
    BY <1>1, <1>k, <2>5, CommitTells
  <2>6. CASE RecordRefused(d) \/ AbortNoLease(d)
    BY <1>1, <1>k, <2>6, RefusalsTell
  <2>7. CASE Record(d) \/ Freeze(d) \/ UpsertCandidate(d) \/ PointsWritten(d)
    BY <1>k, <2>7, PublishTells
  <2>8. CASE SpecialLease(d) \/ AbortLease(d)
    BY <1>k, <2>8, LeaseTells
  <2>9. QED
    BY <1>5, <2>1, <2>2, <2>3, <2>4, <2>5, <2>6, <2>7, <2>8 DEF Consume
<1>6. ASSUME NEW d \in Docs,
             Undo(d) \/ ClaimStuck(d) \/ \E replay \in BOOLEAN : Enqueue(d, replay)
      PROVE  Truth'
  <2>1. CASE Undo(d)
    BY <1>1, <1>k, <2>1, DeleteTells, SettleTells DEF Undo
  <2>2. CASE ClaimStuck(d)
    BY <1>1, <1>k, <2>2, QueueTells
  <2>3. CASE \E replay \in BOOLEAN : Enqueue(d, replay)
    BY <1>k, <2>3, QueueTells
  <2>4. QED
    BY <1>6, <2>1, <2>2, <2>3
<1>7. QED
  BY <1>2, <1>3, <1>4, <1>5, <1>6 DEF Next

LEMMA TruthHolds ==
  ASSUME LossyDocs \cap TextDocs = {}
  PROVE  Spec => [](BaseInv /\ ContentInv /\ Truth)
PROOF
<1>1. Init => Truth
  BY TruthInit
<1>2. BaseInv /\ BaseInv' /\ ContentInv /\ Truth /\ [Next]_vars => Truth'
  BY TruthStep
<1>3. Spec => [](BaseInv /\ ContentInv)
  BY ContentHolds
<1>4. QED
  BY <1>1, <1>2, <1>3, PTL DEF Spec

\* Unless the commit of a text publication can lose its answer, what the
\* executions of a document report is what happened to it: a completed one
\* reached the rows, and the generation that is served never comes from one
\* reported as failed, whichever consumer, undo or recovery closed it, unless
\* another document's publication uncovered the document meanwhile.
THEOREM HonestExecutions ==
  ASSUME LossyDocs \cap TextDocs = {}
  PROVE  Spec => []ExecutionsTellTheTruth
PROOF
<1>1. Truth => ExecutionsTellTheTruth
  BY DEF Truth, TruthInv, Uncovered, ExecutionsTellTheTruth
<1>2. QED
  BY <1>1, TruthHolds, PTL
=============================================================================
