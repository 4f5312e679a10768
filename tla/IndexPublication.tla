-------------------------- MODULE IndexPublication --------------------------
(***************************************************************************)
(* Ingestion of the documents of ONE dataset of the knowledge service, and *)
(* the publication of what they yield to Qdrant and PostgreSQL.            *)
(*                                                                         *)
(* A document is claimed from the durable queue under a document lease and *)
(* published under the dataset's publication lock, behind the fence of     *)
(* datasets.content_revision (negative while a publication is unfinished). *)
(* A TEXT document is upserted in place over durable backups and committed *)
(* together with the opening of the fence (ingestion_service.py).  A       *)
(* SPECIAL document (scanned, hierarchical) adds a candidate generation    *)
(* beside the old one, under a manifest whose phase tells a recovery pass  *)
(* whether to finish or to undo it (special_publication.py).               *)
(* Locks are PostgreSQL session locks: they die with their process.        *)
(*                                                                         *)
(* Generation g of a document is what its g-th pipeline execution yields.  *)
(* points[d] is the set of generations with points in Qdrant; Hole stands  *)
(* for points PostgreSQL still lists and Qdrant lost.  A revision counts   *)
(* publications, in units of INDEX_PUBLICATION_REVISION_RESERVE.           *)
(***************************************************************************)
EXTENDS Integers, Sequences, FiniteSets

CONSTANTS TextDocs,       \* documents of the text pipeline
          SpecialDocs,    \* documents of the special pipelines
          LossyDocs,      \* documents whose commit may lose its answer
          MaxAsks,        \* bound: (re)processing requests
          MaxRevision,    \* bound: the revision a retired preparation starts from
          MaxCrashes,     \* bound: process deaths
          MaxFaults       \* bound: failed or cancelled calls, lost answers

ASSUME PublicationAssumption ==
    /\ TextDocs \cap SpecialDocs = {}
    /\ LossyDocs \subseteq TextDocs \union SpecialDocs
    /\ "recovery" \notin TextDocs \union SpecialDocs
    /\ "none" \notin TextDocs \union SpecialDocs
    /\ MaxAsks \in Nat /\ MaxRevision \in Nat
    /\ MaxCrashes \in Nat /\ MaxFaults \in Nat

Docs == TextDocs \union SpecialDocs
Rec == "recovery"                  \* the recovery loop of a worker
Actors == Docs \union {Rec}
None == "none"
Hole == -1

VARIABLES
    rev,       \* datasets.content_revision
    lock,      \* holder of the publication advisory lock
    doc,       \* documents: status, execution link, special marker, rows
    exec,      \* document_pipeline_executions of each document
    points,    \* Qdrant: generations with points
    backup,    \* Qdrant: disabled rollback backups of each document
    job,       \* the consumer of each document, and the recovery loop
    asks, crashes, faults,
    exposed    \* history: documents whose old generation the code lost track of

vars == <<rev, lock, doc, exec, points, backup, job, asks, crashes, faults, exposed>>
stores == <<points, backup>>
budget == <<asks, crashes, faults>>

InFlight == {"parsing", "indexing"}
Unfinished == {"preparing", "prepared", "points_written", "committed"}
NoBackup == [at |-> 0, full |-> FALSE, gens |-> {}]
Free(a) == [pc |-> "idle", d |-> IF a = Rec THEN None ELSE a, g |-> 0,
            recovered |-> FALSE, why |-> "none"]
NewExec == [st |-> "running", phase |-> "none", bound |-> 0, old |-> {}]

Init ==
    /\ rev = 0 /\ lock = None
    /\ doc = [d \in Docs |-> [st |-> "completed", link |-> 0, mark |-> 0, pg |-> 0]]
    /\ exec = [d \in Docs |-> <<>>]
    /\ points = [d \in Docs |-> {0}]
    /\ backup = [d \in Docs |-> NoBackup]
    /\ job = [a \in Actors |-> Free(a)]
    /\ asks = 0 /\ crashes = 0 /\ faults = 0
    /\ exposed = {}

Mag == IF rev < 0 THEN -rev ELSE rev
At(a, pcs) == job[a].pc \in pcs
Goto(a, pc) == job' = [job EXCEPT ![a].pc = pc]
Leave(a, why) == job' = [job EXCEPT ![a].pc = "failed", ![a].why = why]

\* document_index_update_lease: held by the consumer, or by the recovery of an
\* unbound preparation.
LeaseFree(d) == job[d].pc = "idle" /\ ~(job[Rec].d = d /\ job[Rec].why = "unbound")

Running(d, n) == n \in DOMAIN exec[d] /\ exec[d][n].st = "running"
-----------------------------------------------------------------------------
(* The durable queue. *)

\* worker.enqueue of a plain ingest, and _submit_route_execution, which records
\* the execution of a replay verb with the claim (claim_document_for_enqueue).
\* A document in the queue may be claimed again while no execution is linked.
Enqueue(d, replay) ==
    /\ asks < MaxAsks /\ LeaseFree(d)
    /\ doc[d].st \in {"completed", "error"} \/ (doc[d].st = "waiting" /\ doc[d].link = 0)
    /\ asks' = asks + 1
    /\ exec' = IF replay THEN [exec EXCEPT ![d] = Append(@, NewExec)] ELSE exec
    /\ doc' = [doc EXCEPT ![d].st = "waiting",
                          ![d].link = IF replay THEN Len(exec[d]) + 1 ELSE 0]
    /\ UNCHANGED <<rev, lock, stores, job, crashes, faults, exposed>>

\* claim_queued_document_for_processing
Claim(d) ==
    /\ LeaseFree(d) /\ doc[d].st = "waiting"
    /\ doc' = [doc EXCEPT ![d].st = "parsing"]
    /\ Goto(d, "claimed")
    /\ UNCHANGED <<rev, lock, exec, stores, budget, exposed>>

\* _ensure_pipeline_execution: the linked execution if it still runs.  A linked
\* replay that no longer runs is refused there, and a ledger that cannot record
\* an execution is worked around; no step of this model leads to the former, and
\* the latter is left out.
Ensure(d) ==
    /\ At(d, {"claimed"})
    /\ LET n == doc[d].link
           runs == Running(d, n)
           g == IF runs THEN n ELSE Len(exec[d]) + 1
       IN /\ exec' = IF runs THEN exec ELSE [exec EXCEPT ![d] = Append(@, NewExec)]
          /\ doc' = [doc EXCEPT ![d].link = g]
          /\ job' = [job EXCEPT ![d].pc = "run", ![d].g = g]
    /\ UNCHANGED <<rev, lock, stores, budget, exposed>>

\* claim_stuck_documents: a document left in flight goes back to the queue
\* under a new execution, unless a special generation marks it.
ClaimStuck(d) ==
    /\ LeaseFree(d) /\ doc[d].st \in InFlight /\ doc[d].mark = 0
    /\ LET n == doc[d].link
           runs == Running(d, n)
       IN /\ exec' = IF runs
                     THEN [exec EXCEPT ![d] = Append([@ EXCEPT ![n].st = "error"], NewExec)]
                     ELSE exec
          /\ doc' = [doc EXCEPT ![d].st = IF runs THEN "waiting" ELSE "error",
                                ![d].link = IF runs THEN Len(exec[d]) + 1 ELSE 0]
    /\ UNCHANGED <<rev, lock, stores, job, budget, exposed>>

\* Mutant of CloseFailed: the handler does not look for a special owner's fence.
CloseFailedBlind(d) ==
    /\ At(d, {"failed"})
    /\ LET g == job[d].g IN
       /\ doc' = IF job[d].why = "error"
                 THEN [doc EXCEPT ![d].st = "error", ![d].link = 0]
                 ELSE [doc EXCEPT ![d].st = "waiting"]
       /\ exec' = IF job[d].why = "error" /\ Running(d, g)
                  THEN [exec EXCEPT ![d][g].st = "error"] ELSE exec
    /\ job' = [job EXCEPT ![d] = Free(d)]
    /\ UNCHANGED <<rev, lock, stores, budget, exposed>>

\* How _run closes a job whose processing raised.  It reads the revision, then
\* the document, and writes the execution, then the document; its lease keeps
\* other consumers away, and one step has every outcome of the four.
CloseFailed(d) ==
    /\ At(d, {"failed"})
    /\ LET fenced == rev < 0 /\ doc[d].mark # 0
           requeue == job[d].why = "busy" \/ (job[d].why = "cancel" /\ ~fenced)
           fail == job[d].why = "error" /\ ~fenced
           g == job[d].g
       IN /\ doc' = IF requeue /\ doc[d].st \in InFlight
                    THEN [doc EXCEPT ![d].st = "waiting"]
                    ELSE IF fail
                    THEN [doc EXCEPT ![d].st = "error", ![d].link = 0]
                    ELSE doc
          /\ exec' = IF fail /\ Running(d, g)
                     THEN [exec EXCEPT ![d][g].st = "error"] ELSE exec
    /\ job' = [job EXCEPT ![d] = Free(d)]
    /\ UNCHANGED <<rev, lock, stores, budget, exposed>>

\* _run after the processor returned with a completed document.
CloseCompleted(d) ==
    /\ At(d, {"done"})
    /\ exec' = IF Running(d, job[d].g) THEN [exec EXCEPT ![d][job[d].g].st = "completed"]
               ELSE exec
    /\ job' = [job EXCEPT ![d] = Free(d)]
    /\ UNCHANGED <<rev, lock, doc, stores, budget, exposed>>
-----------------------------------------------------------------------------
(* The publication lock and the fence: dataset_index_publication_lease.    *)

\* Mutant of Lease: the lock is taken, the revision stays open.
LeaseOpen(a) == lock = None /\ lock' = a /\ UNCHANGED rev

\* A fresh lease makes the revision negative; an unfinished one is adopted.
Lease(a) ==
    /\ lock = None /\ lock' = a
    /\ rev' = IF rev < 0 THEN rev ELSE -(rev + 1)

\* Mutant of OpenFence: the sign is turned, the revision does not advance.
OpenFenceSame(d) == rev < 0 /\ rev' = -rev - 1 /\ UNCHANGED exposed

\* _finish_index_publication, in a transaction of target d.  Nothing in it
\* asks whether another document is still unfinished behind the fence.
OpenFence(d) ==
    /\ rev < 0 /\ rev' = -rev
    /\ exposed' = {e \in Docs :
          /\ e # d \/ e \in exposed
          /\ \/ points[e] # {doc'[e].pg}
             \/ doc'[e].mark # 0 /\ exec[e][doc'[e].mark].bound # 0}
-----------------------------------------------------------------------------
(* Text publication: _publish_points_atomically.                           *)

TextLease(d) ==
    /\ d \in TextDocs /\ At(d, {"run"})
    /\ Lease(d)
    /\ doc' = [doc EXCEPT ![d].st = "indexing"]
    /\ job' = [job EXCEPT ![d].pc = "leased", ![d].recovered = rev < 0]
    /\ UNCHANGED <<exec, stores, budget, exposed>>

TextBusy(d) ==
    /\ d \in TextDocs /\ At(d, {"run"}) /\ lock # None
    /\ doc' = [doc EXCEPT ![d].st = "indexing"]
    /\ Leave(d, "busy")
    /\ UNCHANGED <<rev, lock, exec, stores, budget, exposed>>

\* Mutant of Reuses: a recovered publication takes its backups anew.
ReusesNever(d) == FALSE

\* A fresh publication overwrites the backups; a recovered one keeps the ones
\* it finds, whole or not, if their receipt is of this revision.
Reuses(d) == job[d].recovered /\ backup[d].at # 0
Foreign(d) == Reuses(d) /\ backup[d].at < Mag

BackupFirst(d) ==
    /\ At(d, {"leased"}) /\ ~Reuses(d)
    /\ backup' = [backup EXCEPT ![d] = [at |-> Mag, full |-> FALSE, gens |-> points[d]]]
    /\ Goto(d, "backing")
    /\ UNCHANGED <<rev, lock, doc, exec, points, budget, exposed>>

BackupRest(d) ==
    /\ At(d, {"backing"})
    /\ backup' = [backup EXCEPT ![d].full = TRUE]
    /\ Goto(d, "backed")
    /\ UNCHANGED <<rev, lock, doc, exec, points, budget, exposed>>

\* "If any backup exists, a missing sibling was originally absent": true only
\* of backups the dead publisher wrote to the end.
BackupReuse(d) ==
    /\ At(d, {"leased"}) /\ Reuses(d) /\ ~Foreign(d)
    /\ exposed' = IF backup[d].full THEN exposed ELSE exposed \union {d}
    /\ Goto(d, "backed")
    /\ UNCHANGED <<rev, lock, doc, exec, stores, budget>>

\* "vector rollback backup belongs to another publication"
BackupRefused(d) ==
    /\ At(d, {"leased"}) /\ Foreign(d)
    /\ Leave(d, "error")
    /\ lock' = None
    /\ UNCHANGED <<rev, doc, exec, stores, budget, exposed>>

\* Upserts batch by batch, then the deletion of excess points.
UpsertSome(d) ==
    /\ At(d, {"backed"})
    /\ points' = [points EXCEPT ![d] = @ \union {job[d].g}]
    /\ Goto(d, "half")
    /\ UNCHANGED <<rev, lock, doc, exec, backup, budget, exposed>>

UpsertRest(d) ==
    /\ At(d, {"half"})
    /\ points' = [points EXCEPT ![d] = {job[d].g}]
    /\ Goto(d, "written")
    /\ UNCHANGED <<rev, lock, doc, exec, backup, budget, exposed>>

\* commit_text_segment_publication: rows, status and fence in one transaction.
TextCommitted(d) ==
    /\ At(d, {"written"})
    /\ doc' = [doc EXCEPT ![d].st = "completed", ![d].link = 0, ![d].pg = job[d].g]
    /\ OpenFence(d)

TextCommit(d) ==
    /\ TextCommitted(d)
    /\ Goto(d, "committed")
    /\ UNCHANGED <<lock, exec, stores, budget>>

\* Deleting the backups is best effort, and so is closing the execution.
DropBackup(d) ==
    \/ backup' = [backup EXCEPT ![d] = NoBackup] /\ UNCHANGED faults
    \/ faults < MaxFaults /\ faults' = faults + 1 /\ UNCHANGED backup

TextCleanup(d) ==
    /\ At(d, {"committed"})
    /\ DropBackup(d)
    /\ lock' = None
    /\ Goto(d, "done")
    /\ UNCHANGED <<rev, doc, exec, points, asks, crashes, exposed>>

\* A cancellation during the cleanup: the document is completed, its execution
\* is never closed.
CleanupCancelled(d) ==
    /\ At(d, {"committed"}) /\ faults < MaxFaults /\ faults' = faults + 1
    /\ lock' = None
    /\ Leave(d, "cancel")
    /\ UNCHANGED <<rev, doc, exec, stores, asks, crashes, exposed>>

\* A failed call or a cancellation.  With the lease taken, a read of the lexical
\* profile comes before the try block: when it fails the fence is left behind.
\* In the BaseException branch a recovery without backups leaves it too, a
\* publication that wrote no point yet just aborts.
TextFail(d, why) ==
    /\ faults < MaxFaults /\ faults' = faults + 1
    /\ \/ /\ At(d, {"claimed", "run"}) /\ d \in TextDocs
          /\ Leave(d, why) /\ UNCHANGED lock
       \/ /\ At(d, {"leased"}) \/ (At(d, {"backing"}) /\ job[d].recovered)
          /\ Leave(d, why) /\ lock' = None
       \/ /\ At(d, {"leased", "backing"}) /\ ~job[d].recovered
          /\ job' = [job EXCEPT ![d].pc = "abort", ![d].why = why]
          /\ UNCHANGED lock
       \/ /\ At(d, {"backed", "half", "written"})
          /\ job' = [job EXCEPT ![d].pc = "restore", ![d].why = why]
          /\ UNCHANGED lock
    /\ UNCHANGED <<rev, doc, exec, stores, asks, crashes, exposed>>

\* _restore_point_snapshot: intended points without a backup are deleted as new.
Restore(d) ==
    /\ At(d, {"restore"})
    /\ points' = [points EXCEPT ![d] =
                    IF backup[d].full THEN backup[d].gens ELSE {Hole}]
    /\ Goto(d, "abort")
    /\ UNCHANGED <<rev, lock, doc, exec, backup, budget, exposed>>

\* "index publication rollback was incomplete; retrieval remains fenced"
RestoreFails(d) ==
    /\ At(d, {"restore", "abort"}) /\ faults < MaxFaults /\ faults' = faults + 1
    /\ Leave(d, job[d].why)
    /\ lock' = None
    /\ UNCHANGED <<rev, doc, exec, stores, asks, crashes, exposed>>

\* abort_index_publication, which needs the revision to be negative still.
TextAbort(d) ==
    /\ At(d, {"abort"})
    /\ lock' = None /\ UNCHANGED doc
    /\ IF rev < 0
       THEN OpenFence(d) /\ DropBackup(d)
       ELSE UNCHANGED <<rev, exposed, backup, faults>>
    /\ Leave(d, job[d].why)
    /\ UNCHANGED <<exec, points, asks, crashes>>

-----------------------------------------------------------------------------
(* Special publication: special_publication.py.                            *)

\* Mutant of BoundOwners: the owner query leaves out committed manifests.
BoundUncommitted ==
    UNION {{d} \X {n \in DOMAIN exec[d] :
                     /\ exec[d][n].st = "running" /\ exec[d][n].bound # 0
                     /\ exec[d][n].phase \in Unfinished \ {"committed"}} : d \in Docs}

\* get_active_special_publication_for_dataset: the one running execution that
\* is bound to a revision, if its document still points to it.
BoundOwners ==
    UNION {{d} \X {n \in DOMAIN exec[d] :
                     /\ exec[d][n].st = "running" /\ exec[d][n].bound # 0
                     /\ exec[d][n].phase \in Unfinished} : d \in Docs}

ValidOwner(d, n) ==
    /\ BoundOwners = {<<d, n>>}
    /\ Mag <= exec[d][n].bound
    /\ doc[d].mark = n /\ doc[d].link = n

\* _process_scanned_candidate: record_special_publication_manifest pins the
\* generation; a marker of another generation refuses it.
Record(d) ==
    /\ d \in SpecialDocs /\ At(d, {"run"})
    /\ doc[d].mark \in {0, job[d].g}
    /\ exec' = [exec EXCEPT ![d][job[d].g].phase =
                  IF @ = "none" THEN "preparing" ELSE @]
    /\ doc' = [doc EXCEPT ![d].mark = job[d].g]
    /\ Goto(d, "pinned")
    /\ UNCHANGED <<rev, lock, stores, budget, exposed>>

RecordRefused(d) ==
    /\ d \in SpecialDocs /\ At(d, {"run"})
    /\ doc[d].mark \notin {0, job[d].g}
    /\ Leave(d, "error")
    /\ UNCHANGED <<rev, lock, doc, exec, stores, budget, exposed>>

\* bind_special_publication_revision: one preparing execution, one revision.
Bind(d, n) == exec' = [exec EXCEPT ![d][n].bound = -rev']
Bindable(d, n) == exec[d][n].phase = "preparing" /\ exec[d][n].bound = 0

\* The lease of publish() must be fresh: it binds the execution to it.
SpecialLease(d) ==
    /\ At(d, {"pinned"}) /\ rev >= 0 /\ Bindable(d, job[d].g)
    /\ Lease(d) /\ Bind(d, job[d].g)
    /\ doc' = [doc EXCEPT ![d].st = "indexing"]
    /\ Goto(d, "freezing")
    /\ UNCHANGED <<stores, budget, exposed>>

\* A manifest past "preparing" is not published again.
PublishRefused(d) ==
    /\ At(d, {"pinned"}) /\ exec[d][job[d].g].phase # "preparing"
    /\ doc' = [doc EXCEPT ![d].st = "indexing"]
    /\ Leave(d, "error")
    /\ UNCHANGED <<rev, lock, exec, stores, budget, exposed>>

\* A busy lock, a negative revision, or one the execution was not bound to:
\* the candidate is still "preparing", so abort_preparing runs.
SpecialNoLease(d) ==
    /\ At(d, {"pinned"}) /\ exec[d][job[d].g].phase = "preparing"
    /\ lock # None \/ rev < 0 \/ exec[d][job[d].g].bound # 0
    /\ doc' = [doc EXCEPT ![d].st = "indexing"]
    /\ job' = [job EXCEPT ![d].pc = "aborting",
                          ![d].why = IF lock # None THEN "busy" ELSE "error"]
    /\ UNCHANGED <<rev, lock, exec, stores, budget, exposed>>

\* A failed preparation, or a read that fails with the lease just taken.
PrepareFails(d) ==
    /\ At(d, {"pinned", "freezing"}) /\ exec[d][job[d].g].phase = "preparing"
    /\ faults < MaxFaults /\ faults' = faults + 1
    /\ job' = [job EXCEPT ![d].pc = "aborting", ![d].why = "error"]
    /\ lock' = IF lock = d THEN None ELSE lock
    /\ UNCHANGED <<rev, doc, exec, stores, asks, crashes, exposed>>

\* abort_preparing takes a lease for itself, or its own unfinished one ...
AbortLease(d) ==
    LET n == job[d].g IN
    /\ At(d, {"aborting"})
    /\ \/ rev >= 0 /\ Bindable(d, n) /\ Lease(d) /\ Bind(d, n)
       \/ rev < 0 /\ ValidOwner(d, n) /\ Lease(d) /\ UNCHANGED exec
    /\ job' = [job EXCEPT ![d].pc = "undo", ![d].recovered = TRUE]
    /\ UNCHANGED <<doc, stores, budget, exposed>>

\* ... or raises what the lease raised.
AbortNoLease(d) ==
    LET n == job[d].g IN
    /\ At(d, {"aborting"})
    /\ lock # None \/ (IF rev < 0 THEN ~ValidOwner(d, n) ELSE ~Bindable(d, n))
    /\ Leave(d, IF lock # None THEN "busy" ELSE "error")
    /\ UNCHANGED <<rev, lock, doc, exec, stores, budget, exposed>>

\* publish() freezes the old point ids and advances the manifest.
Freeze(d) ==
    /\ At(d, {"freezing"})
    /\ exec' = [exec EXCEPT ![d][job[d].g] =
                  [@ EXCEPT !.phase = "prepared", !.old = points[d]]]
    /\ Goto(d, "prepared")
    /\ UNCHANGED <<rev, lock, doc, stores, budget, exposed>>

UpsertCandidate(d) ==
    /\ At(d, {"prepared"})
    /\ points' = [points EXCEPT ![d] = @ \union {job[d].g}]
    /\ Goto(d, "upserted")
    /\ UNCHANGED <<rev, lock, doc, exec, backup, budget, exposed>>

PointsWritten(d) ==
    /\ At(d, {"upserted"})
    /\ exec' = [exec EXCEPT ![d][job[d].g].phase = "points_written"]
    /\ Goto(d, "rows")
    /\ UNCHANGED <<rev, lock, doc, stores, budget, exposed>>

\* One transaction: rows, completed document, committed manifest.
SpecialCommitted(d) ==
    /\ At(d, {"rows"})
    /\ doc' = [doc EXCEPT ![d].st = "completed", ![d].pg = job[d].g]
    /\ exec' = [exec EXCEPT ![d][job[d].g].phase = "committed"]

SpecialCommit(d) ==
    /\ SpecialCommitted(d)
    /\ Goto(d, "finish")
    /\ UNCHANGED <<rev, lock, stores, budget, exposed>>

\* The transaction commits, but its caller is cancelled or loses the connection.
\* The special handler reads the committed phase and keeps the fence; the text
\* handler takes its BaseException branch as if nothing had been committed.
CommitLost(d, why) ==
    /\ d \in LossyDocs /\ faults < MaxFaults /\ faults' = faults + 1
    /\ IF d \in TextDocs
       THEN TextCommitted(d) /\ UNCHANGED <<lock, exec>>
       ELSE SpecialCommitted(d) /\ lock' = None /\ UNCHANGED <<rev, exposed>>
    /\ job' = [job EXCEPT ![d].why = why,
                          ![d].pc = IF d \in TextDocs THEN "restore" ELSE "failed"]
    /\ UNCHANGED <<stores, asks, crashes>>

\* A failure of publish(): before the commit it is undone by durable phase
\* (once more by abort_preparing, where that undo raises and nothing was
\* prepared), after the commit the fence is kept for recover_unfinished.
SpecialFail(d, why) ==
    /\ d \in SpecialDocs /\ faults < MaxFaults /\ faults' = faults + 1
    /\ \/ /\ At(d, {"claimed", "run"}) \/ (At(d, {"pinned"}) /\ why = "cancel")
          /\ Leave(d, why) /\ UNCHANGED lock
       \/ /\ At(d, {"freezing", "prepared", "upserted", "rows"})
          /\ job' = [job EXCEPT ![d].pc = "undo", ![d].why = why]
          /\ UNCHANGED lock
       \/ /\ At(d, {"finish", "undo", "finishing", "undoing"})
          /\ job' = [job EXCEPT ![d].why = why, ![d].pc =
                IF /\ why = "error" /\ ~job[d].recovered
                   /\ exec[d][job[d].g].phase = "preparing"
                THEN "aborting" ELSE "failed"]
          /\ lock' = None
    /\ UNCHANGED <<rev, doc, exec, stores, asks, crashes, exposed>>

\* _close_committed and _abort_uncommitted, by the publisher or the recovery
\* loop: the points first ...
Target(a) == job[a].d
DeleteOld(a) ==
    /\ At(a, {"finish"})
    /\ points' = [points EXCEPT ![Target(a)] = @ \ exec[Target(a)][job[a].g].old]
    /\ Goto(a, "finishing")
    /\ UNCHANGED <<rev, lock, doc, exec, backup, budget, exposed>>

DeleteCandidate(a) ==
    /\ At(a, {"undo"})
    /\ points' = IF exec[Target(a)][job[a].g].phase \in {"prepared", "points_written"}
                 THEN [points EXCEPT ![Target(a)] = @ \ {job[a].g}] ELSE points
    /\ Goto(a, "undoing")
    /\ UNCHANGED <<rev, lock, doc, exec, backup, budget, exposed>>

\* ... then one transaction closes the execution and opens the fence.
Settle(a, next) ==
    /\ OpenFence(Target(a))
    /\ lock' = None
    /\ job' = IF a = Rec THEN [job EXCEPT ![a] = Free(a)]
              ELSE [job EXCEPT ![a].pc = next]
    /\ UNCHANGED <<stores, budget>>

FinishTx(a) ==
    /\ At(a, {"finishing"}) /\ doc[Target(a)].st = "completed"
    /\ LET d == Target(a) IN
       /\ exec' = [exec EXCEPT ![d][job[a].g].st = "completed"]
       /\ doc' = [doc EXCEPT ![d].mark = 0]
    /\ Settle(a, "done")

AbortTx(a) ==
    /\ At(a, {"undoing"})
    /\ LET d == Target(a) IN
       /\ exec' = [exec EXCEPT ![d][job[a].g] =
                     [@ EXCEPT !.st = "error", !.phase = "aborted"]]
       /\ doc' = [doc EXCEPT ![d].st = "error", ![d].link = 0, ![d].mark = 0]
    /\ Settle(a, "failed")

\* _resume_preparing: the same execution is queued again, without a manifest.
\* Nothing can have changed owner, phase or status since the lease: a request
\* leaves a document alone that is queued under an execution, or in flight.
ResumeTx ==
    /\ At(Rec, {"resume"})
    /\ LET d == Target(Rec) IN
       /\ Running(d, job[Rec].g) /\ exec[d][job[Rec].g].phase = "preparing"
       /\ doc[d].mark = job[Rec].g /\ doc[d].link = job[Rec].g
       /\ doc[d].st \in InFlight \union {"waiting"}
       /\ exec' = [exec EXCEPT ![d][job[Rec].g] = NewExec]
       /\ doc' = [doc EXCEPT ![d].st = "waiting", ![d].mark = 0]
    /\ Settle(Rec, "idle")
-----------------------------------------------------------------------------
(* Recovery: _recover_unfinished_special_publications, and process death.  *)

\* list_unbound_special_preparations, under the document lease: a preparation
\* that never got the fence is retired behind a fence of its own.  Two documents
\* may do so for ever, each busy whenever the other's preparation is retired:
\* hence the bound.
RecoverUnbound(d) ==
    LET n == doc[d].mark IN
    /\ At(Rec, {"idle"}) /\ LeaseFree(d) /\ rev >= 0 /\ rev < MaxRevision
    /\ n # 0 /\ doc[d].link = n /\ Running(d, n)
    /\ Bindable(d, n)
    /\ Lease(Rec) /\ Bind(d, n)
    /\ job' = [job EXCEPT ![Rec] = [pc |-> "resume", d |-> d, g |-> n,
                                    recovered |-> FALSE, why |-> "unbound"]]
    /\ UNCHANGED <<doc, stores, budget, exposed>>

\* Mutant of RecoveryStep: every unfinished manifest is undone.
UndoAlways(phase) == "undo"

\* recover_unfinished: what to do with the owner, by its durable phase.  The
\* queue request it makes after an abort always raises: it names the recover
\* verb and no execution, which claim_document_for_enqueue refuses.
RecoveryStep(phase) ==
    CASE phase = "committed" -> "finish"
      [] phase = "preparing" -> "resume"
      [] OTHER -> "undo"

RecoverFenced(d) ==
    LET n == doc[d].mark IN
    /\ At(Rec, {"idle"}) /\ rev < 0
    /\ n # 0 /\ ValidOwner(d, n)
    /\ Lease(Rec)
    /\ job' = [job EXCEPT ![Rec] = [pc |-> RecoveryStep(exec[d][n].phase), d |-> d, g |-> n,
                                    recovered |-> FALSE, why |-> "none"]]
    /\ UNCHANGED <<doc, exec, stores, budget, exposed>>

\* A process dies, or a step of the recovery loop raises: its locks go, what
\* it wrote stays.
Die(a) ==
    /\ job' = [job EXCEPT ![a] = Free(a)]
    /\ lock' = IF lock = a THEN None ELSE lock
    /\ UNCHANGED <<rev, doc, exec, stores, exposed>>

Crash(a) ==
    /\ ~At(a, {"idle"}) /\ crashes < MaxCrashes /\ crashes' = crashes + 1
    /\ Die(a)
    /\ UNCHANGED <<asks, faults>>

\* reconcile_special_publication_execution wants the document completed still:
\* the recovery loop holds no document lease, so a request may have come between.
FinishRefused ==
    /\ At(Rec, {"finishing"}) /\ doc[Target(Rec)].st # "completed"
    /\ Die(Rec)
    /\ UNCHANGED budget
-----------------------------------------------------------------------------
Whys == {"error", "cancel"}

Consume(d) ==
    \/ Claim(d) \/ Ensure(d) \/ CloseFailed(d) \/ CloseCompleted(d)
    \/ TextLease(d) \/ TextBusy(d)
    \/ BackupFirst(d) \/ BackupRest(d) \/ BackupReuse(d) \/ BackupRefused(d)
    \/ UpsertSome(d) \/ UpsertRest(d) \/ TextCommit(d) \/ TextCleanup(d)
    \/ Restore(d) \/ TextAbort(d)
    \/ Record(d) \/ RecordRefused(d) \/ PublishRefused(d)
    \/ SpecialLease(d) \/ SpecialNoLease(d) \/ AbortLease(d) \/ AbortNoLease(d) \/ Freeze(d) \/ UpsertCandidate(d)
    \/ PointsWritten(d) \/ SpecialCommit(d)

Undo(a) == DeleteOld(a) \/ DeleteCandidate(a) \/ FinishTx(a) \/ AbortTx(a)

Recover ==
    \/ ResumeTx \/ Undo(Rec) \/ FinishRefused
    \/ \E d \in Docs : RecoverUnbound(d) \/ RecoverFenced(d)

Fault ==
    \/ \E a \in Actors : Crash(a)
    \/ \E d \in Docs :
          \/ CleanupCancelled(d) \/ RestoreFails(d) \/ PrepareFails(d)
          \/ \E why \in Whys :
                TextFail(d, why) \/ SpecialFail(d, why) \/ CommitLost(d, why)

Next ==
    \/ Recover \/ Fault
    \/ \E d \in Docs :
          \/ Consume(d) \/ Undo(d) \/ ClaimStuck(d)
          \/ \E replay \in BOOLEAN : Enqueue(d, replay)

\* Consumers, the stuck-document pass and the recovery loop keep running.
Fairness ==
    /\ \A d \in Docs : /\ WF_vars(Consume(d)) /\ WF_vars(Undo(d))
                       /\ WF_vars(ClaimStuck(d))
                       /\ WF_vars(RecoverUnbound(d)) /\ WF_vars(RecoverFenced(d))
    /\ WF_vars(Undo(Rec) \/ FinishRefused) /\ WF_vars(ResumeTx)

Spec == Init /\ [][Next]_vars /\ Fairness
-----------------------------------------------------------------------------
Executions == [st : {"running", "completed", "error"},
               phase : Unfinished \union {"none", "aborted"},
               bound : Nat, old : SUBSET (Nat \union {Hole})]

\* Types; what a document links, marks, serves or has points of is the original
\* or an execution it had; and whoever holds the publication lock holds the
\* fence, unless its commit has opened it.
TypeOK ==
    /\ rev \in Int /\ lock \in Actors \union {None}
    /\ doc \in [Docs -> [st : {"waiting", "completed", "error"} \union InFlight,
                         link : Nat, mark : Nat, pg : Nat]]
    /\ exec \in [Docs -> Seq(Executions)]
    /\ points \in [Docs -> SUBSET (Nat \union {Hole})]
    /\ \A d \in Docs : /\ doc[d].link <= Len(exec[d]) /\ doc[d].mark <= Len(exec[d])
                       /\ doc[d].pg <= Len(exec[d])
                       /\ points[d] \subseteq 0..Len(exec[d]) \union {Hole}
    /\ \A a \in Actors : lock = a => rev < 0 \/ At(a, {"committed", "restore", "abort"})

\* With the fence open, Qdrant holds exactly the generation PostgreSQL serves
\* for every document, except one that another document's publication uncovered
\* or that a recovery took back from half-written backups.
OpenFenceServesOneGeneration ==
    rev >= 0 => \A d \in Docs \ exposed : points[d] = {doc[d].pg}

\* Behind the fence too, whoever died or failed where: the generation that
\* PostgreSQL serves is in Qdrant whole, or whole in the durable backups.
ServedGenerationIsKept ==
    \A d \in Docs \ exposed :
        IF d \in TextDocs
        THEN points[d] = {doc[d].pg} \/ (backup[d].full /\ backup[d].gens = {doc[d].pg})
        ELSE doc[d].pg \in points[d]

\* What the executions report is what happened: a completed one reached the
\* rows, a failed one never does, whichever handler or recovery closed it.
ExecutionsTellTheTruth ==
    \A d \in Docs \ exposed : \A n \in DOMAIN exec[d] :
        /\ exec[d][n].st = "completed" => doc[d].pg >= n
        /\ exec[d][n].st = "error" => doc[d].pg # n

\* A dead publisher's fence is opened again by a restarted consumer or by the
\* recovery loop, which asks for one running owner bound to this revision or a
\* later one.  It promises so only as long as no call fails and none of three
\* things is left behind: a committed publication whose document was asked to be
\* processed anew before it was closed; backups of an older publication; and an
\* owner whose fence another document's commit has opened, bound to that
\* revision still ("negative publication has no unique running owner").
Relinked(d) == \E n \in DOMAIN exec[d] :
    Running(d, n) /\ exec[d][n].phase = "committed" /\ doc[d].link # n
Orphaned(d) == backup[d].at # 0 /\ backup[d].at < Mag
Overtaken(d) == \E n \in DOMAIN exec[d] :
    <<d, n>> \in BoundOwners /\ exec[d][n].bound < Mag

FenceReopens ==
    rev < 0 ~> \/ rev >= 0 \/ faults > 0
               \/ \E d \in Docs : Relinked(d) \/ Orphaned(d) \/ Overtaken(d)

Fence == INSTANCE PublicationFence WITH
    Points <- [Docs -> SUBSET Int],
    Rows <- [Docs -> Nat],
    revision <- rev,
    content  <- [points |-> points, rows |-> [d \in Docs |-> doc[d].pg]]

\* Publication implements the read fence: the points never change while the
\* revision is open, the rows only with it, and no revision comes back.
ImplementsFence == Fence!FenceSpec
=============================================================================
