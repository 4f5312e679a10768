------------------------- MODULE EmbeddingMigration -------------------------
(***************************************************************************)
(* Blue-green embedding migration of ONE dataset of the knowledge service. *)
(*                                                                         *)
(* While the serving collection answers queries and ingestion keeps        *)
(* publishing edits to it, workers re-embed every enabled segment into a   *)
(* shadow collection (backfill), compare it with PostgreSQL (verify), let  *)
(* an evaluator judge it (gate), and an operator flips the dataset to it   *)
(* (cutover), back (rollback), or throws it away (abort, reclaim).         *)
(* Sources: persistence/embedding_version_store.py (tables, transactions,  *)
(* leases), services/knowledge/embedding_migration.py (the steps) and      *)
(* embedding_migration_worker.py (the durable job queue).                  *)
(*                                                                         *)
(* A segment's text is a version number, 0 when the segment is deleted or  *)
(* disabled; a Qdrant collection maps every segment to the version of its  *)
(* point, 0 for no point, so the digests of the code are equality here.    *)
(***************************************************************************)
EXTENDS Integers, Sequences, FiniteSets

CONSTANTS Segs,        \* text segments of the dataset
          Versions,    \* non-zero text versions
          Base,        \* the collection that serves first
          Targets,     \* names make_shadow_collection_name can return
          Workers,     \* job workers
          PageSize,    \* backfill page
          MaxRev,      \* bound: publications
          MaxStarts,   \* bound: start_migration requests
          MaxJobs,     \* bound: action jobs inserted
          MaxFaults    \* bound: stalls, crashes, shutdowns, cancellations

None == <<>>

ASSUME EmbeddingAssumption ==
    /\ IsFiniteSet(Segs) /\ Versions \subseteq (Nat \ {0})
    /\ Base \notin Targets
    /\ PageSize \in Nat \ {0} /\ MaxRev \in Nat /\ MaxStarts \in Nat
    /\ MaxJobs \in Nat /\ MaxFaults \in Nat
    /\ None \notin Workers

VARIABLES
    corpus,    \* PostgreSQL: enabled text of every segment
    rev,       \* datasets.content_revision
    pub,       \* the ingestion publication holding the shared index lease
    ptr,       \* datasets.collection_name
    coll,      \* Qdrant: collection name -> points, or NoColl
    bnd,       \* dataset_collection_bindings, in order of insertion
    mig,       \* embedding_migrations, in order of insertion
    receipts,  \* embedding_migration_progress of each migration
    jobs,      \* embedding_migration_action_jobs, in order of insertion
    wk,        \* job workers
    starts,    \* start_migration requests, in order of arrival
    cut,       \* a cutover request holding the exclusive lease
    purges,    \* collection names a handler is still going to delete
    faults,    \* stalls, crashes, shutdowns and cancellations so far
    missed     \* history: segments whose point a collection lost or did not get
               \* since it was scanned for its cutover

vars == <<corpus, rev, pub, ptr, coll, bnd, mig, receipts, jobs, wk, starts,
          cut, purges, faults, missed>>

NoColl == <<>>
Colls == Targets \union {Base}
Text == [Segs -> Versions \union {0}]
Blank == [s \in Segs |-> 0]

Live == {"shadow_build", "backfilling", "verified", "gating", "ready"}
BackfillEntry == {"shadow_build", "backfilling", "failed"}
Abandonable == Live \union {"failed", "gate_failed", "rolled_back"}
MigStates == Abandonable \union {"completed", "abandoned"}
Actions == {"backfill", "verify", "gate"}

Idle == [pc |-> "idle"]
Done == [pc |-> "done"]
Starters == 1..MaxStarts

Init ==
    /\ \E v \in Versions : (\A u \in Versions : v <= u) /\ corpus = [s \in Segs |-> v]
    /\ rev = 0 /\ pub = None /\ ptr = Base
    /\ coll = [c \in Colls |-> IF c = Base THEN corpus ELSE NoColl]
    /\ bnd = <<[coll |-> Base, state |-> "serving"]>>
    /\ mig = <<>> /\ receipts = <<>> /\ jobs = <<>>
    /\ wk = [w \in Workers |-> Idle]
    /\ starts = [o \in Starters |-> Idle] /\ cut = None /\ purges = {} /\ faults = 0
    /\ missed = [c \in Colls |-> IF c = Base THEN {} ELSE Segs]

(* --------------------------- shared definitions ------------------------ *)

\* A dataset-exclusive transaction waits for the shared and exclusive leases.
Unlocked == pub = None /\ cut = None

LiveMigrations == {m \in DOMAIN mig : mig[m].state \in Live}

\* ORDER BY created_at DESC LIMIT 1: rows are numbered as they are inserted.
Latest(x, rows) == x \in rows /\ \A y \in rows : y <= x

\* One live migration per dataset: a move into a live state that another
\* migration occupies is a unique violation.
MayGoLive(m) == LiveMigrations \subseteq {m}

Target(m) == bnd[mig[m].tgt].coll

\* Enabled segments without a receipt for their current text.
Pending(m) == {s \in Segs : corpus[s] # 0 /\ receipts[m][s] # corpus[s]}

ActiveJobs == {j \in DOMAIN jobs : jobs[j].state \in {"queued", "running"}}

\* The claim token of worker w is the live one of its job.
Owns(w) == jobs[wk[w].job].state = "running" /\ jobs[wk[w].job].owner = w

\* CAS of a migration's state; a lost CAS leaves the row alone.
SetState(m, st) == mig' = [mig EXCEPT ![m].state = st]

(* ------------------- ingestion: edits of the live corpus --------------- *)

\* Mutant: ingestion does not wait for the exclusive lease.
PublishBeginUnleased ==
    /\ pub = None /\ rev < MaxRev
    /\ \E s \in Segs, v \in (Versions \union {0}) :
          /\ v # corpus[s]
          /\ pub' = [seg |-> s, ver |-> v]
    /\ UNCHANGED <<corpus, rev, ptr, coll, bnd, mig, receipts, jobs, wk,
                   starts, cut, purges, faults, missed>>

\* A publication takes the shared lease and makes content_revision negative.
\* Edits outside the lease (a document enabled, disabled or archived, a segment
\* updated) are not modelled: the corpus is what fenced ingestion makes of it.
PublishBegin ==
    /\ pub = None /\ cut = None /\ rev < MaxRev
    /\ \E s \in Segs, v \in (Versions \union {0}) :
          /\ v # corpus[s]
          /\ pub' = [seg |-> s, ver |-> v]
    /\ UNCHANGED <<corpus, rev, ptr, coll, bnd, mig, receipts, jobs, wk,
                   starts, cut, purges, faults, missed>>

\* Points go to the serving collection, then PostgreSQL commits the text and
\* closes the fence at the next revision.
PublishCommit ==
    /\ pub # None /\ coll[ptr] # NoColl
    /\ corpus' = [corpus EXCEPT ![pub.seg] = pub.ver]
    /\ coll' = [coll EXCEPT ![ptr][pub.seg] = pub.ver]
    /\ rev' = rev + 1
    /\ missed' = [c \in Colls |-> IF c = ptr THEN missed[c] \ {pub.seg}
                                             ELSE missed[c] \union {pub.seg}]
    /\ pub' = None
    /\ UNCHANGED <<ptr, bnd, mig, receipts, jobs, wk, starts, cut, purges,
                   faults>>

\* A failed publication restores its points and still moves the revision.
PublishAbort ==
    /\ pub # None
    /\ rev' = rev + 1 /\ pub' = None
    /\ UNCHANGED <<corpus, ptr, coll, bnd, mig, receipts, jobs, wk, starts,
                   cut, purges, faults, missed>>

(* ---------------------------- start_migration -------------------------- *)

Reserving(c) == {b \in DOMAIN bnd : bnd[b].coll = c /\ bnd[b].state # "retired"}
MigrationsTo(b) == {m \in DOMAIN mig : mig[m].tgt = b}
ServingBinding == CHOOSE b \in DOMAIN bnd : bnd[b].state = "serving"

\* Request o is the next one to arrive.
Arrives(o) == starts[o] = Idle /\ \A p \in 1..(o - 1) : starts[p] # Idle

\* The shadow name is deterministic. Free, or reserved by a binding that no
\* migration uses (a start that crashed): go on to ensure the collection.
StartLookup(o, c) ==
    /\ Arrives(o) /\ c # ptr
    /\ \E b \in Reserving(c) \union {0} :
          /\ b = 0 => Reserving(c) = {}
          /\ b # 0 => MigrationsTo(b) = {}
          /\ starts' = [starts EXCEPT ![o] = [pc |-> "ensure", coll |-> c,
                                              bind |-> b, src |-> ServingBinding]]
    /\ UNCHANGED <<corpus, rev, pub, ptr, coll, bnd, mig, receipts, jobs, wk,
                   cut, purges, faults, missed>>

\* A rolled-back migration that kept its shadow is reopened in place.
StartReopen(o, c) ==
    /\ Arrives(o) /\ c # ptr /\ Unlocked
    /\ \E b \in Reserving(c), m \in DOMAIN mig :
          /\ Latest(m, MigrationsTo(b))
          /\ mig[m].state = "rolled_back" /\ bnd[b].state = "shadow"
          /\ MayGoLive(m)
          /\ SetState(m, "backfilling")
    /\ starts' = [starts EXCEPT ![o] = Done]
    /\ UNCHANGED <<corpus, rev, pub, ptr, coll, bnd, receipts, jobs, wk,
                   cut, purges, faults, missed>>

\* ensure_collection creates a missing collection and keeps an existing one.
StartEnsure(o) ==
    /\ starts[o].pc = "ensure"
    /\ coll' = [coll EXCEPT ![starts[o].coll] = IF @ = NoColl THEN Blank ELSE @]
    /\ starts' = [starts EXCEPT ![o].pc = IF starts[o].bind = 0 THEN "bind" ELSE "begin"]
    /\ UNCHANGED <<corpus, rev, pub, ptr, bnd, mig, receipts, jobs, wk, cut,
                   purges, faults, missed>>

\* create_binding; a live binding of the same name is a conflict.
StartBind(o) ==
    /\ starts[o].pc = "bind" /\ Unlocked
    /\ \/ /\ Reserving(starts[o].coll) = {}
          /\ bnd' = Append(bnd, [coll |-> starts[o].coll, state |-> "shadow"])
          /\ starts' = [starts EXCEPT ![o] = [@ EXCEPT !.pc = "begin", !.bind = Len(bnd) + 1]]
       \/ /\ Reserving(starts[o].coll) # {}
          /\ starts' = [starts EXCEPT ![o].pc = "orphan"]
          /\ UNCHANGED bnd
    /\ UNCHANGED <<corpus, rev, pub, ptr, coll, mig, receipts, jobs, wk, cut,
                   purges, faults, missed>>

\* After a conflict the collection is an orphan to delete only when no live
\* binding reserves its name.
StartOrphan(o) ==
    /\ starts[o].pc = "orphan"
    /\ purges' = IF Reserving(starts[o].coll) = {}
                 THEN purges \union {starts[o].coll} ELSE purges
    /\ starts' = [starts EXCEPT ![o] = Done]
    /\ UNCHANGED <<corpus, rev, pub, ptr, coll, bnd, mig, receipts, jobs, wk,
                   cut, faults, missed>>

\* begin_migration, refused while another migration is live.
StartBegin(o) ==
    /\ starts[o].pc = "begin" /\ Unlocked
    /\ starts' = [starts EXCEPT ![o] = Done]
    /\ \/ /\ LiveMigrations = {}
          /\ mig' = Append(mig, [src |-> starts[o].src, tgt |-> starts[o].bind,
                                 state |-> "shadow_build", ver |-> None,
                                 vjob |-> 0, gate |-> None])
          /\ receipts' = Append(receipts, Blank)
       \/ LiveMigrations # {} /\ UNCHANGED <<mig, receipts>>
    /\ UNCHANGED <<corpus, rev, pub, ptr, coll, bnd, jobs, wk, cut, purges,
                   faults, missed>>

\* The request dies between its steps.
StartCrash(o) ==
    /\ starts[o].pc \notin {"idle", "done"} /\ faults < MaxFaults
    /\ starts' = [starts EXCEPT ![o] = Done] /\ faults' = faults + 1
    /\ UNCHANGED <<corpus, rev, pub, ptr, coll, bnd, mig, receipts, jobs, wk,
                   cut, purges, missed>>

(* ----------------------- operator: pointer and cleanup ----------------- *)

\* cutover: take the exclusive lease (fails at once if busy), scan the target.
\* A migration in no state to become ready meanwhile is refused unchanged.
CutoverScan(m) ==
    /\ Unlocked /\ coll[Target(m)] # NoColl /\ mig[m].state \in {"gating", "ready"}
    /\ cut' = [mig |-> m, scope |-> coll[Target(m)]]
    /\ missed' = IF bnd[mig[m].tgt].state = "shadow"
                 THEN [missed EXCEPT ![Target(m)] = {}] ELSE missed
    /\ UNCHANGED <<corpus, rev, pub, ptr, coll, bnd, mig, receipts, jobs, wk,
                   starts, purges, faults>>

\* Mutant: cutover trusts the verdict and does not compare the corpus again.
CutoverOnVerdict(m, scope) ==
    /\ mig[m].state = "ready"
    /\ mig[m].gate # None /\ mig[m].gate.passed
    /\ scope = mig[m].gate.scope
    /\ bnd[mig[m].src].state = "serving" /\ bnd[mig[m].tgt].state = "shadow"
    /\ ptr = bnd[mig[m].src].coll

\* The conditions of the cutover transaction, recomputed under the lease.
CutoverAllowed(m, scope) ==
    /\ mig[m].state = "ready"
    /\ mig[m].gate # None /\ mig[m].gate.passed
    /\ Pending(m) = {}
    /\ mig[m].gate.rev = rev
    /\ scope = mig[m].gate.scope /\ scope = corpus
    /\ bnd[mig[m].src].state = "serving" /\ bnd[mig[m].tgt].state = "shadow"
    /\ ptr = bnd[mig[m].src].coll

\* The cutover transaction, or its refusal; both release the lease.  A deadlock
\* of its row locks with another transaction ends as a refusal too.
CutoverCommit ==
    /\ cut # None /\ cut' = None
    /\ LET m == cut.mig IN
       \/ /\ CutoverAllowed(m, cut.scope)
          /\ ptr' = Target(m)
          /\ bnd' = [bnd EXCEPT ![mig[m].src].state = "retained",
                                ![mig[m].tgt].state = "serving"]
          /\ SetState(m, "completed")
       \/ /\ ~ CutoverAllowed(m, cut.scope)
          /\ UNCHANGED <<ptr, bnd, mig>>
    /\ UNCHANGED <<corpus, rev, pub, coll, receipts, jobs, wk, starts, purges,
                   faults, missed>>

\* rollback: flip back to the retained source; keep or retire the target.
Rollback(m, keep) ==
    /\ Unlocked /\ mig[m].state = "completed"
    /\ bnd[mig[m].src].state = "retained" /\ bnd[mig[m].tgt].state = "serving"
    /\ ptr = Target(m)
    /\ ptr' = bnd[mig[m].src].coll
    /\ bnd' = [bnd EXCEPT ![mig[m].tgt].state = IF keep THEN "shadow" ELSE "retired",
                          ![mig[m].src].state = "serving"]
    /\ SetState(m, "rolled_back")
    /\ receipts' = IF keep THEN receipts ELSE [receipts EXCEPT ![m] = Blank]
    /\ purges' = IF keep THEN purges ELSE purges \union {Target(m)}
    /\ UNCHANGED <<corpus, rev, pub, coll, jobs, wk, starts, cut, faults, missed>>

\* abort: refused while a job of the migration runs; a queued one is failed;
\* the shadow is retired, its receipts dropped, its collection deleted after.
Abort(m) ==
    /\ Unlocked /\ mig[m].state \in Abandonable
    /\ \A j \in ActiveJobs : jobs[j].mig = m => jobs[j].state = "queued"
    /\ jobs' = [j \in DOMAIN jobs |->
                  IF j \in ActiveJobs /\ jobs[j].mig = m
                  THEN [jobs[j] EXCEPT !.state = "failed"] ELSE jobs[j]]
    /\ bnd' = IF bnd[mig[m].tgt].state = "shadow"
              THEN [bnd EXCEPT ![mig[m].tgt].state = "retired"] ELSE bnd
    /\ SetState(m, "abandoned")
    /\ receipts' = [receipts EXCEPT ![m] = Blank]
    /\ purges' = purges \union {Target(m)}
    /\ UNCHANGED <<corpus, rev, pub, ptr, coll, wk, starts, cut, faults, missed>>

\* Mutant: retiring an expired binding does not look at its state again.
ReclaimUnchecked(b) ==
    /\ Unlocked /\ bnd[b].state \in {"retained", "serving"}
    /\ bnd' = [bnd EXCEPT ![b].state = "retired"]
    /\ purges' = purges \union {bnd[b].coll}
    /\ UNCHANGED <<corpus, rev, pub, ptr, coll, mig, receipts, jobs, wk,
                   starts, cut, faults, missed>>

\* reclaim_expired: a retained binding past its deadline is retired and its
\* collection deleted after the transaction.
Reclaim(b) ==
    /\ Unlocked /\ bnd[b].state = "retained"
    /\ bnd' = [bnd EXCEPT ![b].state = "retired"]
    /\ purges' = purges \union {bnd[b].coll}
    /\ UNCHANGED <<corpus, rev, pub, ptr, coll, mig, receipts, jobs, wk,
                   starts, cut, faults, missed>>

\* The deletion that follows rollback, abort, reclaim or a failed start. It is
\* best effort: an error is logged and the collection stays.
Purge(c) ==
    /\ c \in purges
    /\ purges' = purges \ {c}
    /\ \/ /\ coll' = [coll EXCEPT ![c] = NoColl]
          /\ missed' = [missed EXCEPT ![c] = Segs]
       \/ UNCHANGED <<coll, missed>>
    /\ UNCHANGED <<corpus, rev, pub, ptr, bnd, mig, receipts, jobs, wk, starts,
                   cut, faults>>

(* ------------------------- the durable action queue -------------------- *)

CanEnqueue(a, st) ==
    CASE a = "backfill" -> st \in BackfillEntry
      [] a = "verify"   -> st \in {"backfilling", "verified", "failed"}
      [] a = "gate"     -> st \in {"verified", "gate_failed", "gating"}

\* A succeeded action stays idempotent while its postcondition holds.
Satisfied(a, m) ==
    /\ Pending(m) = {}
    /\ CASE a = "backfill" -> mig[m].state \in {"backfilling", "verified", "gating",
                                                "gate_failed", "ready", "completed"}
         [] a = "verify"   -> /\ mig[m].state \in {"verified", "gating", "gate_failed",
                                                   "ready", "completed"}
                              /\ pub = None /\ mig[m].ver # None /\ mig[m].ver.rev = rev
         [] a = "gate"     -> /\ mig[m].state \in {"ready", "completed"}
                              /\ pub = None /\ mig[m].gate.rev = rev

JobsOf(m, a) == {j \in DOMAIN jobs : jobs[j].mig = m /\ jobs[j].action = a}

\* enqueue_action_job: nothing while the dataset has an active job; a failed
\* job is re-queued under its own id, otherwise a row is inserted.
EnqueueAction(m, a) ==
    /\ ActiveJobs = {}
    /\ CanEnqueue(a, mig[m].state)
    /\ a = "verify" => Pending(m) = {}
    /\ \/ \E j \in DOMAIN jobs :
             /\ Latest(j, JobsOf(m, a)) /\ jobs[j].state = "failed"
             /\ jobs' = [jobs EXCEPT ![j].state = "queued"]
       \/ /\ \A j \in DOMAIN jobs :
                Latest(j, JobsOf(m, a)) => jobs[j].state = "succeeded" /\ ~ Satisfied(a, m)
          /\ Len(jobs) < MaxJobs
          /\ jobs' = Append(jobs, [mig |-> m, action |-> a, state |-> "queued",
                                   owner |-> None])
    /\ UNCHANGED <<corpus, rev, pub, ptr, coll, bnd, mig, receipts, wk, starts,
                   cut, purges, faults, missed>>

\* Job j in state st, with its claim cleared.
Settled(j, st) == [jobs EXCEPT ![j] = [@ EXCEPT !.state = st, !.owner = None]]

\* cancel_scoped_action_job: failed, with the live claim cleared.
CancelJob(j) ==
    /\ j \in ActiveJobs /\ faults < MaxFaults
    /\ jobs' = Settled(j, "failed")
    /\ faults' = faults + 1
    /\ UNCHANGED <<corpus, rev, pub, ptr, coll, bnd, mig, receipts, wk, starts,
                   cut, purges, missed>>

\* The action of a lease-recovered job is recognised as already committed.
Recognised(j) ==
    LET m == jobs[j].mig IN
    \/ /\ jobs[j].action = "verify" /\ mig[m].vjob = j
       /\ mig[m].state \in {"verified", "gating", "gate_failed", "ready", "completed"}
    \/ /\ jobs[j].action = "gate" /\ mig[m].gate # None /\ mig[m].gate.job = j
       /\ mig[m].state \in {"gate_failed", "ready", "completed", "rolled_back"}

\* A worker at one step of a job, holding nothing it read.
At(j, pc) == [pc |-> pc, job |-> j, page |-> Blank, pending |-> FALSE, rev |-> 0,
              text |-> Blank, pin |-> None, judged |-> FALSE]

MigOf(w) == jobs[wk[w].job].mig
ActionOf(w) == jobs[wk[w].job].action
Goto(w, pc) == wk' = [wk EXCEPT ![w] = At(wk[w].job, pc)]

\* claim_next_action_job: a queued job, or a running one whose lease expired
\* because its owner crashed or stalled. _execute_action then picks the steps.
Claim(w, j) ==
    /\ wk[w] = Idle
    /\ \/ jobs[j].state = "queued" /\ UNCHANGED faults
       \/ /\ jobs[j].state = "running" /\ wk[jobs[j].owner] = Idle
          /\ UNCHANGED faults
       \/ /\ jobs[j].state = "running" /\ wk[jobs[j].owner] # Idle
          /\ faults < MaxFaults /\ faults' = faults + 1
    /\ LET first == CASE jobs[j].action = "backfill" -> "backfill"
                      [] jobs[j].action = "verify"   -> "pending"
                      [] jobs[j].action = "gate"     -> "gating"
       IN wk' = [wk EXCEPT ![w] = At(j, IF jobs[j].state = "running" /\ Recognised(j)
                                        THEN "finish" ELSE first)]
    /\ jobs' = [jobs EXCEPT ![j] = [@ EXCEPT !.state = "running", !.owner = w]]
    /\ UNCHANGED <<corpus, rev, pub, ptr, coll, bnd, mig, receipts, starts, cut,
                   purges, missed>>

(* ------------------------------- backfill ------------------------------ *)

\* The session lease admits one backfill per migration; the state CAS may
\* lose, or collide with another live migration.
BackfillBegin(w) ==
    LET m == MigOf(w)
        free == \A x \in Workers \ {w} :
                   wk[x] = Idle \/ MigOf(x) # m \/ wk[x].pc \notin {"list", "upsert", "receipt"}
        ok == free /\ mig[m].state \in BackfillEntry /\ MayGoLive(m)
    IN /\ wk[w].pc = "backfill"
       /\ Goto(w, IF ok THEN "list" ELSE "fail")
       /\ IF ok THEN SetState(m, "backfilling") ELSE UNCHANGED mig
       /\ UNCHANGED <<corpus, rev, pub, ptr, coll, bnd, receipts, jobs, starts,
                      cut, purges, faults, missed>>

\* list_pending_segments reads one page of texts; none pending ends the pass.
BackfillList(w) ==
    LET pending == Pending(MigOf(w)) IN
    /\ wk[w].pc = "list"
    /\ \/ pending = {} /\ Goto(w, "finish")
       \/ \E page \in SUBSET pending :
             /\ Cardinality(page) = IF Cardinality(pending) < PageSize
                                    THEN Cardinality(pending) ELSE PageSize
             /\ page # {}
             /\ wk' = [wk EXCEPT ![w] = [@ EXCEPT !.pc = "upsert",
                         !.page = [s \in Segs |-> IF s \in page THEN corpus[s] ELSE 0]]]
    /\ UNCHANGED <<corpus, rev, pub, ptr, coll, bnd, mig, receipts, jobs, starts,
                   cut, purges, faults, missed>>

\* Mutant: the page's receipts are recorded although its points were refused.
BackfillUpsertIgnoresErrors(w) ==
    LET c == Target(MigOf(w))
        page == wk[w].page
    IN
    /\ wk[w].pc = "upsert"
    /\ wk' = [wk EXCEPT ![w].pc = "receipt"]
    /\ \/ /\ coll[c] # NoColl /\ cut = None
          /\ coll' = [coll EXCEPT ![c] = [s \in Segs |-> IF page[s] # 0 THEN page[s] ELSE @[s]]]
       \/ UNCHANGED coll
    /\ UNCHANGED <<corpus, rev, pub, ptr, bnd, mig, receipts, jobs, starts, cut,
                   purges, faults, missed>>

\* Embed the page and write its points under the shared index lease. A missing
\* collection, a cutover holding the exclusive lease, or an embedding error
\* moves a migration that is still backfilling to failed. Nothing ties the
\* write to the claim: the points of a late worker, written to a collection
\* that serves or is kept for a rollback by now, count as missed.
BackfillUpsert(w) ==
    LET c == Target(MigOf(w))
        page == wk[w].page
        m == MigOf(w)
    IN
    /\ wk[w].pc = "upsert"
    /\ \/ /\ coll[c] # NoColl /\ cut = None
          /\ coll' = [coll EXCEPT ![c] = [s \in Segs |-> IF page[s] # 0 THEN page[s] ELSE @[s]]]
          /\ wk' = [wk EXCEPT ![w].pc = "receipt"]
          /\ missed' = [missed EXCEPT ![c] = @ \union {s \in Segs : page[s] # 0}]
          /\ UNCHANGED mig
       \/ /\ Goto(w, "fail")
          /\ IF mig[m].state \in {"shadow_build", "backfilling"}
             THEN SetState(m, "failed") ELSE UNCHANGED mig
          /\ UNCHANGED <<coll, missed>>
    /\ UNCHANGED <<corpus, rev, pub, ptr, bnd, receipts, jobs, starts, cut,
                   purges, faults>>

\* record_progress_receipts, after the points are written.
BackfillReceipt(w) ==
    LET page == wk[w].page IN
    /\ wk[w].pc = "receipt"
    /\ receipts' = [receipts EXCEPT ![MigOf(w)] =
                      [s \in Segs |-> IF page[s] # 0 THEN page[s] ELSE @[s]]]
    /\ Goto(w, "list")
    /\ UNCHANGED <<corpus, rev, pub, ptr, coll, bnd, mig, jobs, starts, cut,
                   purges, faults, missed>>

(* -------------- verify and gate: evidence read step by step ------------ *)

\* A failing verdict moves gating to gate_failed, with no evidence to cut over
\* on; keep: the job id survives only once the evaluator has answered.
FailVerdict(w) ==
    LET m == MigOf(w) IN
    IF mig[m].state = "gating"
    THEN mig' = [mig EXCEPT ![m] = [@ EXCEPT !.state = "gate_failed",
                   !.gate = [passed |-> FALSE, rev |-> -1, scope |-> Blank,
                             job |-> IF wk[w].judged THEN wk[w].job ELSE 0]]]
    ELSE UNCHANGED mig

\* What a failed evidence check does to the migration.
EvidenceFails(w) ==
    /\ Goto(w, "fail")
    /\ IF ActionOf(w) = "verify" THEN UNCHANGED mig ELSE FailVerdict(w)

CollectPending(w) ==
    /\ wk[w].pc = "pending"
    /\ wk' = [wk EXCEPT ![w] = [@ EXCEPT !.pc = "authority",
                                         !.pending = Pending(MigOf(w)) # {}]]
    /\ UNCHANGED <<corpus, rev, pub, ptr, coll, bnd, mig, receipts, jobs, starts,
                   cut, purges, faults, missed>>

\* authority_snapshot is refused while a publication holds the revision negative.
CollectAuthority(w) ==
    /\ wk[w].pc = "authority"
    /\ \/ /\ pub = None
          /\ wk' = [wk EXCEPT ![w] = [@ EXCEPT !.pc = "scan", !.rev = rev, !.text = corpus]]
          /\ UNCHANGED mig
       \/ pub # None /\ EvidenceFails(w)
    /\ UNCHANGED <<corpus, rev, pub, ptr, coll, bnd, receipts, jobs, starts, cut,
                   purges, faults, missed>>

\* _require_evidence_agreement on what was read.
EvidenceAgrees(w, scope) ==
    /\ ~ wk[w].pending
    /\ scope = wk[w].text
    /\ wk[w].pin # None => wk[w].pin.rev = wk[w].rev /\ wk[w].pin.scope = scope

\* The Qdrant scan and the comparison. verify pins the evidence in totals; the
\* gate goes on to evaluate, or records its verdict.
CollectScope(w) ==
    LET m == MigOf(w)
        scope == coll[Target(m)]
        next == IF wk[w].judged THEN "record" ELSE "evaluate"
    IN
    /\ wk[w].pc = "scan"
    /\ \/ /\ EvidenceAgrees(w, scope)
          /\ IF ActionOf(w) = "verify"
             THEN /\ mig' = [mig EXCEPT ![m] = [@ EXCEPT !.vjob = wk[w].job,
                                !.ver = [rev |-> wk[w].rev, scope |-> scope]]]
                  /\ Goto(w, "move")
             ELSE /\ wk' = [wk EXCEPT ![w].pc = next]
                  /\ UNCHANGED mig
       \/ ~ EvidenceAgrees(w, scope) /\ EvidenceFails(w)
    /\ UNCHANGED <<corpus, rev, pub, ptr, coll, bnd, receipts, jobs, starts, cut,
                   purges, faults, missed>>

\* verify's CAS to verified.
VerifyMove(w) ==
    LET m == MigOf(w)
        ok == mig[m].state \in {"backfilling", "verified", "failed"} /\ MayGoLive(m)
    IN /\ wk[w].pc = "move"
       /\ Goto(w, IF ok THEN "finish" ELSE "fail")
       /\ IF ok THEN SetState(m, "verified") ELSE UNCHANGED mig
       /\ UNCHANGED <<corpus, rev, pub, ptr, coll, bnd, receipts, jobs, starts,
                      cut, purges, faults, missed>>

\* run_gate: CAS to gating, pinning the verified evidence it returned: a state
\* from which the gate is reached has it.
GateBegin(w) ==
    LET m == MigOf(w)
        ok == mig[m].state \in {"verified", "gate_failed", "gating"} /\ MayGoLive(m)
    IN /\ wk[w].pc = "gating"
       /\ wk' = [wk EXCEPT ![w] = IF ok THEN [At(wk[w].job, "pending") EXCEPT !.pin = mig[m].ver]
                                        ELSE At(wk[w].job, "fail")]
       /\ IF ok THEN SetState(m, "gating") ELSE UNCHANGED mig
       /\ UNCHANGED <<corpus, rev, pub, ptr, coll, bnd, receipts, jobs, starts,
                      cut, purges, faults, missed>>

\* The evaluator queries the target as it is now; then the evidence is read
\* again. A crash of the evaluator records a failing verdict.
GateEvaluate(w) ==
    /\ wk[w].pc = "evaluate"
    /\ \/ /\ wk' = [wk EXCEPT ![w] = [At(wk[w].job, "pending") EXCEPT
                               !.pin = wk[w].pin, !.judged = TRUE]]
          /\ UNCHANGED mig
       \/ EvidenceFails(w)
    /\ UNCHANGED <<corpus, rev, pub, ptr, coll, bnd, receipts, jobs, starts, cut,
                   purges, faults, missed>>

\* record_gate_verdict, only from gating.
GateRecord(w) ==
    LET m == MigOf(w) IN
    /\ wk[w].pc = "record"
    /\ \/ /\ mig[m].state = "gating"
          /\ \E passed \in BOOLEAN :
                mig' = [mig EXCEPT ![m] = [@ EXCEPT
                          !.state = IF passed THEN "ready" ELSE "gate_failed",
                          !.gate = [passed |-> passed, rev |-> wk[w].rev,
                                    scope |-> wk[w].text, job |-> wk[w].job]]]
          /\ Goto(w, "finish")
       \/ /\ mig[m].state # "gating"
          /\ Goto(w, "fail")
          /\ UNCHANGED mig
    /\ UNCHANGED <<corpus, rev, pub, ptr, coll, bnd, receipts, jobs, starts, cut,
                   purges, faults, missed>>

(* ------------------------ the end of a worker's job -------------------- *)

\* Mutant: the claim survives its job.
FinishKeepsClaim(w) ==
    /\ wk[w].pc = "finish"
    /\ jobs' = IF Owns(w) THEN [jobs EXCEPT ![wk[w].job].state = "succeeded"] ELSE jobs
    /\ wk' = [wk EXCEPT ![w] = Idle]
    /\ UNCHANGED <<corpus, rev, pub, ptr, coll, bnd, mig, receipts, starts, cut,
                   purges, faults, missed>>

\* Mutant: the finish is not fenced by the claim token.
FinishUnfenced(w) ==
    /\ wk[w].pc = "finish"
    /\ jobs' = [jobs EXCEPT ![wk[w].job].state = "succeeded", ![wk[w].job].owner = None]
    /\ wk' = [wk EXCEPT ![w] = Idle]
    /\ UNCHANGED <<corpus, rev, pub, ptr, coll, bnd, mig, receipts, starts, cut,
                   purges, faults, missed>>

\* finish_action_job: CAS on the claim token. A lost CAS leaves the job alone.
FinishJob(w) ==
    /\ wk[w].pc = "finish"
    /\ jobs' = IF Owns(w) THEN Settled(wk[w].job, "succeeded") ELSE jobs
    /\ wk' = [wk EXCEPT ![w] = Idle]
    /\ UNCHANGED <<corpus, rev, pub, ptr, coll, bnd, mig, receipts, starts, cut,
                   purges, faults, missed>>

\* fail_action_job: CAS on the claim token.
FailJob(w) ==
    /\ wk[w].pc = "fail"
    /\ jobs' = IF Owns(w) THEN Settled(wk[w].job, "failed") ELSE jobs
    /\ wk' = [wk EXCEPT ![w] = Idle]
    /\ UNCHANGED <<corpus, rev, pub, ptr, coll, bnd, mig, receipts, starts, cut,
                   purges, faults, missed>>

\* The heartbeat finds the claim gone and cancels the action where it stands.
HeartbeatLost(w) ==
    /\ wk[w] # Idle /\ wk[w].pc # "finish" /\ ~ Owns(w)
    /\ wk' = [wk EXCEPT ![w] = Idle]
    /\ UNCHANGED <<corpus, rev, pub, ptr, coll, bnd, mig, receipts, jobs, starts,
                   cut, purges, faults, missed>>

\* Shutdown cancels the action and re-queues the job under the token.
WorkerStop(w) ==
    /\ wk[w] # Idle /\ faults < MaxFaults
    /\ faults' = faults + 1
    /\ jobs' = IF Owns(w) THEN Settled(wk[w].job, "queued") ELSE jobs
    /\ wk' = [wk EXCEPT ![w] = Idle]
    /\ UNCHANGED <<corpus, rev, pub, ptr, coll, bnd, mig, receipts, starts, cut,
                   purges, missed>>

\* The process dies: its locks go with it, its job keeps the running row.
WorkerCrash(w) ==
    /\ wk[w] # Idle /\ faults < MaxFaults
    /\ faults' = faults + 1
    /\ wk' = [wk EXCEPT ![w] = Idle]
    /\ UNCHANGED <<corpus, rev, pub, ptr, coll, bnd, mig, receipts, jobs, starts,
                   cut, purges, missed>>

WorkerStep(w) ==
    \/ BackfillBegin(w) \/ BackfillList(w) \/ BackfillUpsert(w) \/ BackfillReceipt(w)
    \/ CollectPending(w) \/ CollectAuthority(w) \/ CollectScope(w) \/ VerifyMove(w)
    \/ GateBegin(w) \/ GateEvaluate(w) \/ GateRecord(w)
    \/ FinishJob(w) \/ FailJob(w) \/ HeartbeatLost(w)

ClaimSome(w) == \E j \in DOMAIN jobs : Claim(w, j)

Operator ==
    \/ \E m \in DOMAIN mig :
          \/ CutoverScan(m) \/ Abort(m)
          \/ \E keep \in BOOLEAN : Rollback(m, keep)
          \/ \E a \in Actions : EnqueueAction(m, a)
    \/ CutoverCommit
    \/ \E b \in DOMAIN bnd : Reclaim(b)
    \/ \E j \in DOMAIN jobs : CancelJob(j)
    \/ \E c \in Colls : Purge(c)

Start ==
    \E o \in Starters :
       \/ \E c \in Targets : StartLookup(o, c) \/ StartReopen(o, c)
       \/ StartEnsure(o) \/ StartBind(o) \/ StartOrphan(o) \/ StartBegin(o)
       \/ StartCrash(o)

Next ==
    \/ PublishBegin \/ PublishCommit \/ PublishAbort
    \/ Start \/ Operator
    \/ \E w \in Workers : ClaimSome(w) \/ WorkerStep(w) \/ WorkerStop(w) \/ WorkerCrash(w)

Spec == Init /\ [][Next]_vars

(* ------------------------------- properties ---------------------------- *)

Evidence == [rev : Int, scope : Text]
Verdict == [passed : BOOLEAN, rev : Int, scope : Text, job : Nat]
BindingType == [coll : Colls, state : {"shadow", "serving", "retained", "retired"}]
MigType == [src : Nat, tgt : Nat, state : MigStates,
            ver : {None} \union Evidence, vjob : Nat, gate : {None} \union Verdict]
JobType == [mig : Nat, action : Actions,
            state : {"queued", "running", "succeeded", "failed"},
            owner : Workers \union {None}]
PCs == {"backfill", "list", "upsert", "receipt", "pending", "authority", "scan", "move",
        "gating", "evaluate", "record", "finish", "fail"}
BusyType == [pc : PCs, job : Nat, page : Text, pending : BOOLEAN, rev : Int,
             text : Text, pin : {None} \union Evidence, judged : BOOLEAN]
RequestType == [pc : {"ensure", "bind", "orphan", "begin"}, coll : Targets,
                bind : Nat, src : Nat]
CutType == [mig : Nat, scope : Text]

\* What one row refers to exists in the other table.
References ==
    /\ Len(receipts) = Len(mig)
    /\ \A m \in DOMAIN mig : mig[m].src \in DOMAIN bnd /\ mig[m].tgt \in DOMAIN bnd
    /\ \A j \in DOMAIN jobs : jobs[j].mig \in DOMAIN mig
    /\ \A w \in Workers : wk[w] # Idle => wk[w].job \in DOMAIN jobs
    /\ \A o \in Starters : starts[o].pc \notin {"idle", "done"} =>
          /\ starts[o].src \in DOMAIN bnd
          /\ starts[o].bind \in DOMAIN bnd \/ (starts[o].bind = 0 /\ starts[o].pc # "begin")
    /\ cut # None => cut.mig \in DOMAIN mig

\* Every row, point, request and worker record has its type, and what it refers
\* to exists.
TypeOK ==
    /\ corpus \in Text /\ rev \in 0..MaxRev /\ ptr \in Colls
    /\ pub \in {None} \union [seg : Segs, ver : Versions \union {0}]
    /\ coll \in [Colls -> {NoColl} \union Text]
    /\ bnd \in Seq(BindingType) /\ mig \in Seq(MigType)
    /\ receipts \in Seq(Text) /\ jobs \in Seq(JobType)
    /\ \A j \in DOMAIN jobs : jobs[j].state = "running" <=> jobs[j].owner \in Workers
    /\ wk \in [Workers -> {Idle} \union BusyType]
    /\ starts \in [Starters -> {Idle, Done} \union RequestType]
    /\ cut \in {None} \union CutType /\ References
    /\ purges \subseteq Colls /\ missed \in [Colls -> SUBSET Segs] /\ faults \in 0..MaxFaults

\* However cutovers, rollbacks, aborts, reclamations and starts interleave, the
\* dataset row points at the one serving binding.
PointerIsServing ==
    \E b \in DOMAIN bnd :
        /\ bnd[b].coll = ptr
        /\ {x \in DOMAIN bnd : bnd[x].state = "serving"} = {b}

\* Outside a publication the serving collection holds exactly the corpus,
\* except for the segments edited while another generation was serving, written
\* by a late worker, or deleted by a purge left over from an earlier generation
\* of the name: a cutover starts from a complete target (nothing missed), and a
\* rollback is stale only in what was edited since the cutover it undoes.
ServedMatchesCorpus ==
    pub = None =>
        \A s \in Segs \ missed[ptr] : coll[ptr] # NoColl /\ coll[ptr][s] = corpus[s]

\* Binding b is a shadow no migration into it was judged for, and the first
\* binding of its collection name.
Unjudged(b) ==
    /\ bnd[b].state = "shadow"
    /\ \A m \in DOMAIN mig : mig[m].tgt = b => mig[m].gate = None
    /\ \A a \in DOMAIN bnd : a < b => bnd[a].coll # bnd[b].coll

\* A receipt never runs ahead of its point: in the first generation of a
\* collection name, until a migration into it is judged, every segment with a
\* receipt has a point, whatever was edited, retried, cancelled or taken over.
\* (The text of that point may be older than the receipt says after a crash
\* between the two writes and an edit that restores the earlier text; a
\* collection that has served lost the points of segments disabled meanwhile;
\* and a later generation of the name can lose points to a purge left over from
\* an earlier one: the digests of verify, gate and cutover catch them all.)
ReceiptsHavePoints ==
    \A m \in DOMAIN mig : Unjudged(mig[m].tgt) =>
        \A s \in Segs : receipts[m][s] # 0 =>
            coll[Target(m)] # NoColl /\ coll[Target(m)][s] # 0

\* A flip to a new generation serves the corpus of that moment, at the revision
\* the gate passed, whatever was published, backfilled or re-verified between
\* the gate and the cutover (unless a purge left over from an earlier
\* generation of the name has deleted the collection since the scan).
CutoverServesCorpus ==
    [][\A m \in DOMAIN mig :
          mig[m].state = "ready" /\ mig'[m].state = "completed"
          => /\ coll[ptr'] = corpus \/ missed[ptr'] = Segs
             /\ mig[m].gate.rev = rev /\ pub = None]_vars

\* A settled job is never settled again by a late worker: a cancelled or failed
\* job only leaves that state by being queued anew, a succeeded one never.
SettledJobsStay ==
    [][\A j \in DOMAIN jobs :
          /\ jobs[j].state = "failed" => jobs'[j].state \in {"failed", "queued"}
          /\ jobs[j].state = "succeeded" => jobs'[j].state = "succeeded"]_vars

\* What abort and reclaim_expired promise: "the serving generation is
\* untouched", "never the in-service collection".
ServingCollectionExists == coll[ptr] # NoColl
=============================================================================
