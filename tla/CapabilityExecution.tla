------------------------ MODULE CapabilityExecution ------------------------
(***************************************************************************)
(* The capability worker's durable execution ledger: the rows of           *)
(* assistant_capability_executions and their event log, the create and     *)
(* cancel handlers, the run_execution tasks, and the restart recovery      *)
(* loop, on several worker processes that share the database.              *)
(*                                                                         *)
(* A database function is one atomic step.  A lease is a Boolean: TRUE     *)
(* while lease_until lies in the future; the clock may pass it at any      *)
(* time.  A task is one run of run_execution, and the UUID it generates as *)
(* its dispatch fence is written as the task itself.                       *)
(***************************************************************************)
EXTENDS Naturals, Sequences, FiniteSets

CONSTANTS
  Reads,         \* executions whose effect is Read
  PlainWrites,   \* writes whose effect leaves no receipt in the row
  QuizWrites,    \* writes that commit a durable receipt with their effect
  Workers,       \* worker processes
  Tasks,         \* runs of run_execution, and the fences they generate
  Reqs,          \* create requests, each with its HTTP reply
  MaxCrashes,    \* bound on worker process crashes
  None           \* SQL NULL, an absent map entry

Writes == PlainWrites \cup QuizWrites
Execs == Reads \cup Writes

ASSUME ExecutionKinds ==
  /\ Reads \cap Writes = {}
  /\ PlainWrites \cap QuizWrites = {}
ASSUME NoneIsFresh == None \notin Tasks /\ None \notin Execs
ASSUME CrashBound == MaxCrashes \in Nat

VARIABLES
  row,        \* assistant_capability_executions with its event log
  appr,       \* the approval bound to a write
  runActive,  \* the run is running and its lease and snapshot are valid
  ownerLive,  \* the run's Runtime owner holds an unexpired claim
  req,        \* create handlers
  task,       \* run_execution tasks
  tokens,     \* WorkerState.cancellation: the token registered per execution
  permit,     \* tokens holding an unconsumed notify_one permit
  scan,       \* the record each worker's recovery loop is working on
  wire,       \* side effects started by a task and not yet resolved
  effects,    \* how often a write's side effect happened
  crashes     \* worker crashes so far

db == <<row, appr>>
authority == <<runActive, ownerLive>>
local == <<task, tokens, permit, scan>>
world == <<wire, effects>>
vars == <<row, appr, runActive, ownerLive, req, task, tokens, permit, scan,
          wire, effects, crashes>>

-----------------------------------------------------------------------------
(* Rows and the functions of the ledger.                                   *)

Terminal == {"succeeded", "failed", "cancelled", "timeout",
             "side_effect_unknown"}
InFlight == {"dispatched", "running"}
Statuses == {"published"} \cup InFlight \cup Terminal

NoRow == [st |-> "absent", fence |-> None, lease |-> FALSE,
          receipt |-> FALSE, ids |-> {}, log |-> <<>>]

\* The event identities event_id(execution, n) derives; a cancel event has a
\* random identity, so it is not in this set.
PublishedId == 1
DispatchedId == 2
RunningId == 3
TerminalId == 4

\* Mutant: events are still appended to a finished execution.
AppendAfterTerminal(r, st, f) ==
  /\ st = "published" => Len(r.log) = 0
  /\ st \in InFlight => r.st # "absent"
  /\ f # None => r.fence = f

\* The checks of append_assistant_capability_event on a row found by scope.
AppendAllowed(r, st, f) ==
  /\ r.st \notin Terminal
  /\ st = "published" => Len(r.log) = 0
  /\ st = "dispatched" => r.st \in {"published"} \cup InFlight
  /\ st = "running" => r.st \in InFlight
  /\ f # None => r.fence = f
  /\ st \in InFlight \cup {"succeeded", "timeout", "side_effect_unknown"}
       => r.fence # None

\* Its insert and update: the log grows, the status follows the event, a
\* running event renews the lease, a terminal one clears it and overwrites
\* the stored result.
Appended(r, newIds, st) ==
  [st |-> st, fence |-> r.fence,
   lease |-> IF st = "running" THEN TRUE ELSE r.lease /\ st \notin Terminal,
   receipt |-> r.receipt /\ st \notin Terminal,
   ids |-> r.ids \cup newIds, log |-> Append(r.log, st)]

\* A known event id returns before every other check.
AppendAccepted(r, id, st, f) == id \in r.ids \/ AppendAllowed(r, st, f)

\* Mutant: no idempotent return for a known event id.
AppendAgain(r, id, st, f) ==
  IF AppendAllowed(r, st, f) THEN Appended(r, {id}, st) ELSE r

AppendEvent(r, id, st, f) ==
  IF id \notin r.ids /\ AppendAllowed(r, st, f)
  THEN Appended(r, {id}, st) ELSE r

-----------------------------------------------------------------------------
(* Tasks, tokens and slots of a worker process.                            *)

IdleTask == [pc |-> "idle", w |-> None, e |-> None, fence |-> None,
             tok |-> None, lost |-> FALSE, out |-> None]

NoScan == [e |-> None, st |-> "absent", fence |-> None, receipt |-> FALSE]

Active(t) == task[t].pc # "idle"
ExecOf(t) == task[t].e

\* execution_slots is a Semaphore(1) per worker process.
HoldsSlot(t) ==
  task[t].pc \in {"claiming", "adopting", "announcing", "starting",
                  "operating", "finishing"}
SlotFree(w) == \A t \in Tasks : HoldsSlot(t) => task[t].w # w

\* A task stands for a new UUID only while nothing refers to it.
Fresh(t) ==
  /\ ~Active(t)
  /\ wire[t] = None
  /\ \A e \in Execs : row[e].fence # t
  /\ \A u \in Tasks : task[u].fence # t /\ task[u].tok # t
  /\ \A w \in Workers, e \in Execs : tokens[w][e] # t

\* register_cancellation: keep the token that is there or insert a new one,
\* which holds no permit.
RegisterToken(w, e, t) ==
  IF tokens[w][e] = None
  THEN /\ tokens' = [tokens EXCEPT ![w][e] = t]
       /\ permit' = permit \ {t}
  ELSE UNCHANGED <<tokens, permit>>

Spawn(t, w, e) ==
  /\ Fresh(t)
  /\ task' = [task EXCEPT ![t] = [IdleTask EXCEPT !.pc = "spawned",
                                                  !.w = w, !.e = e]]
  /\ RegisterToken(w, e, t)

Step(t, from, to) ==
  /\ task[t].pc = from
  /\ task' = [task EXCEPT ![t].pc = to]

\* Every way out of run_execution: forget_cancellation removes whatever token
\* the map holds for the execution, and dropping the slot frees it.
Retire(t) ==
  /\ task' = [task EXCEPT ![t] = IdleTask]
  /\ tokens' = [tokens EXCEPT ![task[t].w][task[t].e] = None]

-----------------------------------------------------------------------------
(* create_execution.                                                       *)

\* assert_worker_execution_owner(admission) and reserve, one transaction:
\* the first request inserts the row, a later one finds it.
Reserve(r, w, e) ==
  /\ req[r].pc = "new"
  /\ runActive /\ ownerLive
  /\ IF row[e].st = "absent"
     THEN /\ row' = [row EXCEPT ![e] = [NoRow EXCEPT !.st = "published"]]
          /\ req' = [req EXCEPT ![r] = [pc |-> "reserved", w |-> w, e |-> e,
                                        reply |-> None]]
     ELSE /\ row' = row
          /\ req' = [req EXCEPT ![r] = [pc |-> "done", w |-> w, e |-> e,
                                        reply |-> "existing"]]
  /\ UNCHANGED <<appr, authority, local, world, crashes>>

\* A request whose owner proof is refused; nothing is written.
RefuseCreate(r, w, e) ==
  /\ req[r].pc = "new"
  /\ req' = [req EXCEPT ![r] = [pc |-> "done", w |-> w, e |-> e,
                                reply |-> "refused"]]
  /\ UNCHANGED <<db, authority, local, world, crashes>>

\* The published event of a row this request created, in a transaction of its
\* own.  An error becomes an error reply and no task is spawned.
PublishCreated(r) ==
  LET e == req[r].e IN
  /\ req[r].pc = "reserved"
  /\ row' = [row EXCEPT ![e] = AppendEvent(@, PublishedId, "published", None)]
  /\ req' = IF AppendAccepted(row[e], PublishedId, "published", None)
            THEN [req EXCEPT ![r].pc = "announced"]
            ELSE [req EXCEPT ![r].pc = "done", ![r].reply = "rejected"]
  /\ UNCHANGED <<appr, authority, local, world, crashes>>

\* The store fails, before or after its commit.
PublishFails(r) ==
  LET e == req[r].e IN
  /\ req[r].pc = "reserved"
  /\ \/ UNCHANGED row
     \/ row' = [row EXCEPT ![e] = AppendEvent(@, PublishedId, "published", None)]
  /\ req' = [req EXCEPT ![r].pc = "done", ![r].reply = "rejected"]
  /\ UNCHANGED <<appr, authority, local, world, crashes>>

\* register_cancellation, spawn run_execution, answer 202.
SpawnCreated(r, t) ==
  /\ req[r].pc = "announced"
  /\ Spawn(t, req[r].w, req[r].e)
  /\ req' = [req EXCEPT ![r].pc = "done", ![r].reply = "accepted"]
  /\ UNCHANGED <<db, authority, scan, world, crashes>>

-----------------------------------------------------------------------------
(* run_execution up to the claim.                                          *)

\* The task's own register_cancellation yields the token it will listen to.
Register(t) ==
  LET w == task[t].w
      e == task[t].e
  IN
  /\ task[t].pc = "spawned"
  /\ RegisterToken(w, e, t)
  /\ task' = [task EXCEPT ![t] = [@ EXCEPT !.pc = "waiting",
                                           !.tok = tokens'[w][e]]]
  /\ UNCHANGED <<db, authority, req, scan, world, crashes>>

\* Cancelled while it waits for the slot.
CancelWaiting(t) ==
  /\ task[t].pc = "waiting"
  /\ task[t].tok \in permit
  /\ permit' = permit \ {task[t].tok}
  /\ Retire(t)
  /\ UNCHANGED <<db, authority, req, scan, world, crashes>>

\* The slot, then a read of the row: a terminal execution is not run.
AcquireSlot(t) ==
  /\ task[t].pc = "waiting"
  /\ SlotFree(task[t].w)
  /\ IF row[ExecOf(t)].st \in Terminal
     THEN Retire(t)
     ELSE Step(t, "waiting", "claiming") /\ UNCHANGED tokens
  /\ UNCHANGED <<db, authority, req, permit, scan, world, crashes>>

\* Mutants: a dispatch that does not look at the approval, a write claimed
\* again once its lease is over, a read never claimed again.
DispatchUnapproved(e) == row[e].fence = None
ReclaimAnything(e) == row[e].fence # None /\ ~row[e].lease
ReclaimNothing(e) == FALSE

\* dispatch_assistant_capability_execution grants the claim: the first
\* dispatch, which consumes a write's approval, or a read whose lease is over.
FirstDispatch(e) ==
  /\ row[e].fence = None
  /\ e \in Writes => appr[e] = "approved"
ReadReclaim(e) == row[e].fence # None /\ e \in Reads /\ ~row[e].lease

\* The trigger guard_capability_dispatch_authority.
DispatchAuthority == runActive /\ ownerLive

DispatchGranted(e) ==
  /\ row[e].st \notin Terminal
  /\ FirstDispatch(e) \/ ReadReclaim(e)
  /\ DispatchAuthority

\* Its update: the first claim also moves the status.
Claimed(r, t) ==
  [st |-> IF r.fence = None THEN "dispatched" ELSE r.st, fence |-> t,
   lease |-> TRUE, receipt |-> r.receipt, ids |-> r.ids, log |-> r.log]

\* ... and an approved approval, no other, becomes consumed.
Consumed(a) == IF a = "approved" THEN "consumed" ELSE a

Dispatch(t) ==
  LET e == ExecOf(t) IN
  /\ Step(t, "claiming", "adopting")
  /\ DispatchGranted(e)
  /\ row' = [row EXCEPT ![e] = Claimed(@, t)]
  /\ appr' = IF e \in Writes THEN [appr EXCEPT ![e] = Consumed(@)] ELSE appr
  /\ UNCHANGED <<authority, req, tokens, permit, scan, world, crashes>>

\* Not claimed, or an error: the task ends without running the operation.
DispatchDenied(t) ==
  /\ task[t].pc = "claiming"
  /\ ~DispatchGranted(ExecOf(t))
  /\ Retire(t)
  /\ UNCHANGED <<db, authority, req, permit, scan, world, crashes>>

\* PostgresExecutionStore::dispatch re-reads the row after the claim, and the
\* task goes on with the fence that row holds.
Adopt(t) ==
  /\ task[t].pc = "adopting"
  /\ task' = [task EXCEPT ![t] = [@ EXCEPT !.pc = "announcing",
                                           !.fence = row[ExecOf(t)].fence]]
  /\ UNCHANGED <<db, authority, req, tokens, permit, scan, world, crashes>>

\* A store call that fails ends the task; what it had written stays.
StoreFails(t) ==
  /\ HoldsSlot(t) /\ task[t].pc # "operating"
  /\ Retire(t)
  /\ UNCHANGED <<db, authority, req, permit, scan, world, crashes>>

-----------------------------------------------------------------------------
(* run_execution under its claim.                                          *)

\* The dispatched and the running event; an error ends the task.  With the
\* running event stored, the operation starts: a write may reach the outside.
Announce(t, from, to, id, st) ==
  LET e == ExecOf(t)
      ok == AppendAccepted(row[e], id, st, task[t].fence)
  IN
  /\ task[t].pc = from
  /\ row' = [row EXCEPT ![e] = AppendEvent(@, id, st, task[t].fence)]
  /\ IF ok THEN Step(t, from, to) /\ UNCHANGED tokens ELSE Retire(t)
  /\ wire' = IF ok /\ to = "operating" /\ e \in Writes
             THEN [wire EXCEPT ![t] = e] ELSE wire
  /\ UNCHANGED <<appr, authority, req, permit, scan, effects, crashes>>

AnnounceDispatched(t) ==
  Announce(t, "announcing", "starting", DispatchedId, "dispatched")

AnnounceRunning(t) ==
  Announce(t, "starting", "operating", RunningId, "running")

\* Mutant: a receipt is stored whatever became of the row.
ReceiptAnyway(t) ==
  LET e == wire[t] IN
  /\ e # None
  /\ wire' = [wire EXCEPT ![t] = None]
  /\ effects' = [effects EXCEPT ![e] = @ + 1]
  /\ row' = IF e \in QuizWrites THEN [row EXCEPT ![e].receipt = TRUE] ELSE row
  /\ UNCHANGED <<appr, authority, req, local, crashes>>

\* The side effect of a write happens, perhaps long after the task is gone.
\* A quiz write commits it together with the receipt, and only while the row
\* is open and holds no receipt.
EffectLands(t) ==
  LET e == wire[t] IN
  /\ e # None
  /\ e \in QuizWrites => row[e].st \notin Terminal /\ ~row[e].receipt
  /\ wire' = [wire EXCEPT ![t] = None]
  /\ effects' = [effects EXCEPT ![e] = @ + 1]
  /\ row' = IF e \in QuizWrites THEN [row EXCEPT ![e].receipt = TRUE] ELSE row
  /\ UNCHANGED <<appr, authority, req, local, crashes>>

\* PostgresExecutionStore::renew: only the fence holder, and only a lease
\* that is still running.
Renewable(r, f) == r.fence = f /\ r.st \in InFlight /\ r.lease

Heartbeating(t) == task[t].pc \in {"announcing", "starting", "operating"}

Renew(t) ==
  LET e == ExecOf(t) IN
  /\ Heartbeating(t)
  /\ Renewable(row[e], task[t].fence)
  /\ row' = [row EXCEPT ![e].lease = TRUE]
  /\ UNCHANGED <<appr, authority, req, local, world, crashes>>

\* The renewal is refused, or the store does not answer.
RenewLost(t) ==
  /\ Heartbeating(t)
  /\ task' = [task EXCEPT ![t].lost = TRUE]
  /\ UNCHANGED <<db, authority, req, tokens, permit, scan, world, crashes>>

\* The select over the operation ends with status out.
Finish(t, out) ==
  /\ task[t].pc = "operating"
  /\ task' = [task EXCEPT ![t] = [@ EXCEPT !.pc = "finishing", !.out = out]]
  /\ UNCHANGED <<db, authority, req, tokens, scan, effects, crashes>>

\* A write that answers has had its effect.  A result over the payload limit
\* is replaced by capability_result_too_large, whatever it was.
OperationSucceeds(t) ==
  /\ ExecOf(t) \in Writes => wire[t] = None
  /\ \E out \in {"succeeded", "failed"} : Finish(t, out)
  /\ UNCHANGED <<permit, wire>>

\* A definite failure: nothing was done and nothing will be.  The sandbox of
\* execute_python_code has a time limit of its own.
OperationFails(t) ==
  /\ ExecOf(t) \in Writes => wire[t] # None
  /\ \E out \in {"failed", "timeout"} : Finish(t, out)
  /\ wire' = [wire EXCEPT ![t] = None]
  /\ UNCHANGED permit

\* The executor cannot tell whether the write happened.
OperationUnknown(t) ==
  /\ ExecOf(t) \in Writes
  /\ Finish(t, "side_effect_unknown")
  /\ UNCHANGED <<permit, wire>>

\* Cancellation, lease loss or the timeout ends the wait for the operation;
\* a request already sent stays on the wire.
Interrupted(t, readStatus) ==
  /\ Finish(t, IF ExecOf(t) \in Reads THEN readStatus
               ELSE "side_effect_unknown")
  /\ UNCHANGED wire

OperationCancelled(t) ==
  /\ task[t].tok \in permit
  /\ permit' = permit \ {task[t].tok}
  /\ Interrupted(t, "cancelled")

OperationLeaseLost(t) ==
  task[t].lost /\ Interrupted(t, "failed") /\ UNCHANGED permit

OperationTimesOut(t) == Interrupted(t, "timeout") /\ UNCHANGED permit

\* The terminal event, accepted or refused, is the last thing a task does.
AppendTerminal(t) ==
  LET e == ExecOf(t) IN
  /\ task[t].pc = "finishing"
  /\ row' = [row EXCEPT ![e] =
               AppendEvent(@, TerminalId, task[t].out, task[t].fence)]
  /\ Retire(t)
  /\ UNCHANGED <<appr, authority, req, permit, scan, world, crashes>>

-----------------------------------------------------------------------------
(* recover_executions_loop and cancel_execution.                           *)

\* Mutant: interrupted writes are recovered only while their run is authorised.
RecoverableIfAuthorised(e) ==
  /\ runActive
  /\ \/ e \in Reads /\ row[e].st \in {"published"} \cup InFlight
     \/ e \in Writes /\ row[e].st = "published" /\ row[e].fence = None
     \/ /\ e \in Writes /\ row[e].st \in InFlight
        /\ row[e].fence # None /\ ~row[e].lease

\* RECOVERABLE_EXECUTIONS_SQL: undispatched work and reads of an authorised
\* run, and writes whose worker lease is over.
Recoverable(e) ==
  \/ /\ runActive
     /\ \/ e \in Reads /\ row[e].st \in {"published"} \cup InFlight
        \/ e \in Writes /\ row[e].st = "published" /\ row[e].fence = None
  \/ /\ e \in Writes
     /\ row[e].st \in InFlight
     /\ row[e].fence # None
     /\ ~row[e].lease

\* The loop reads a record and acts on that copy later; of a read it uses
\* only the identity.
Copy(e) ==
  IF e \in Reads THEN [NoScan EXCEPT !.e = e]
  ELSE [e |-> e, st |-> row[e].st, fence |-> row[e].fence,
        receipt |-> row[e].receipt]

Scan(w, e) ==
  /\ scan[w] = NoScan
  /\ Recoverable(e)
  /\ scan' = [scan EXCEPT ![w] = Copy(e)]
  /\ UNCHANGED <<db, authority, req, task, tokens, permit, world, crashes>>

\* needs_side_effect_unknown_recovery on the copied record.
NeedsReconcile(rec) ==
  rec.e \in Writes /\ rec.st \in InFlight /\ rec.fence # None

\* Mutant: whatever was running when its worker died counts as done.
AssumeDone(rec) == "succeeded"

\* durable_recovery_result: succeed on a receipt, else unknown.
RecoveredStatus(rec) ==
  IF rec.receipt THEN "succeeded" ELSE "side_effect_unknown"

\* terminalize_recovered_side_effect.
Reconcile(w) ==
  LET rec == scan[w] IN
  /\ rec # NoScan
  /\ NeedsReconcile(rec)
  /\ row' = [row EXCEPT ![rec.e] =
               AppendEvent(@, TerminalId, RecoveredStatus(rec), rec.fence)]
  /\ scan' = [scan EXCEPT ![w] = NoScan]
  /\ UNCHANGED <<appr, authority, req, task, tokens, permit, world, crashes>>

\* Other records are run again, unless this process already runs them.
Respawn(w, t) ==
  LET rec == scan[w] IN
  /\ rec # NoScan
  /\ ~NeedsReconcile(rec)
  /\ tokens[w][rec.e] = None
  /\ Spawn(t, w, rec.e)
  /\ scan' = [scan EXCEPT ![w] = NoScan]
  /\ UNCHANGED <<db, authority, req, world, crashes>>

SkipRegistered(w) ==
  /\ scan[w] # NoScan
  /\ ~NeedsReconcile(scan[w])
  /\ tokens[w][scan[w].e] # None
  /\ scan' = [scan EXCEPT ![w] = NoScan]
  /\ UNCHANGED <<db, authority, req, task, tokens, permit, world, crashes>>

\* Mutants: a dispatched write reported as cancelled; a status outside the
\* protocol; a cancel that does not look at a terminal row.
CancelledAlways(e) == "cancelled"
UnknownStatus(e) ==
  IF row[e].fence # None /\ e \in Writes THEN "unknown" ELSE "cancelled"

\* cancel_owned under the row lock, then request_cancel on this process.
CancelStatus(e) ==
  IF row[e].fence # None /\ e \in Writes
  THEN "side_effect_unknown" ELSE "cancelled"

CancelAgain(w, e) ==
  /\ row[e].st # "absent"
  /\ ownerLive
  /\ row' = [row EXCEPT ![e] = Appended(@, {}, CancelStatus(e))]
  /\ permit' = permit \cup ({tokens[w][e]} \ {None})
  /\ UNCHANGED <<appr, authority, req, task, tokens, scan, world, crashes>>

\* The notice follows the commit.  It is one step with it here: a permit may be
\* taken any time later, and a token registered in between belongs to a task
\* that will find the row terminal.
CancelExecution(w, e) ==
  /\ row[e].st # "absent"
  /\ ownerLive
  /\ row' = IF row[e].st \in Terminal THEN row
            ELSE [row EXCEPT ![e] = Appended(@, {}, CancelStatus(e))]
  /\ permit' = permit \cup ({tokens[w][e]} \ {None})
  /\ UNCHANGED <<appr, authority, req, task, tokens, scan, world, crashes>>

-----------------------------------------------------------------------------
(* The Runtime, the user and the clock.                                    *)

Approve(e) ==
  /\ e \in Writes /\ appr[e] = "pending"
  /\ appr' = [appr EXCEPT ![e] = "approved"]
  /\ UNCHANGED <<row, authority, req, local, world, crashes>>

\* Rejected, cancelled or expired before it was consumed.
ApprovalLapses(e) ==
  /\ e \in Writes /\ appr[e] \in {"pending", "approved"}
  /\ appr' = [appr EXCEPT ![e] = "refused"]
  /\ UNCHANGED <<row, authority, req, local, world, crashes>>

\* The run finishes, its lease expires or its snapshot is revoked.
AuthorityEnds ==
  /\ runActive
  /\ runActive' = FALSE
  /\ UNCHANGED <<db, ownerLive, req, local, world, crashes>>

\* cancel_runtime_execution: open approvals are withdrawn in the transaction
\* that closes the run.
CancelRun ==
  /\ runActive
  /\ runActive' = FALSE
  /\ appr' = [e \in DOMAIN appr |->
                IF appr[e] \in {"pending", "approved"} THEN "refused"
                ELSE appr[e]]
  /\ UNCHANGED <<row, ownerLive, req, local, world, crashes>>

OwnerLeaseExpires ==
  /\ ownerLive
  /\ ownerLive' = FALSE
  /\ UNCHANGED <<db, runActive, req, local, world, crashes>>

\* Another Runtime takes the expired claim over.
OwnerTakesOver ==
  /\ runActive /\ ~ownerLive
  /\ ownerLive' = TRUE
  /\ UNCHANGED <<db, runActive, req, local, world, crashes>>

WorkerLeaseExpires(e) ==
  /\ row[e].lease
  /\ row' = [row EXCEPT ![e].lease = FALSE]
  /\ UNCHANGED <<appr, authority, req, local, world, crashes>>

\* A worker process dies and starts again with empty memory; a side effect
\* already sent is not recalled.
Crash(w) ==
  /\ crashes < MaxCrashes
  /\ crashes' = crashes + 1
  /\ task' = [t \in Tasks |-> IF task[t].w = w THEN IdleTask ELSE task[t]]
  /\ tokens' = [tokens EXCEPT ![w] = [e \in Execs |-> None]]
  /\ permit' = {t \in permit : \/ \E u \in Tasks : task'[u].tok = t
                              \/ \E v \in Workers, e \in Execs :
                                   tokens'[v][e] = t}
  /\ scan' = [scan EXCEPT ![w] = NoScan]
  /\ req' = [r \in Reqs |->
               IF req[r].w = w /\ req[r].pc \in {"reserved", "announced"}
               THEN [req[r] EXCEPT !.pc = "done", !.reply = "lost"]
               ELSE req[r]]
  /\ UNCHANGED <<db, authority, world>>

-----------------------------------------------------------------------------

Init ==
  /\ row = [e \in Execs |-> NoRow]
  /\ appr = [e \in Writes |-> "pending"]
  /\ runActive = TRUE /\ ownerLive = TRUE
  /\ req = [r \in Reqs |-> [pc |-> "new", w |-> None, e |-> None,
                            reply |-> None]]
  /\ task = [t \in Tasks |-> IdleTask]
  /\ tokens = [w \in Workers |-> [e \in Execs |-> None]]
  /\ permit = {}
  /\ scan = [w \in Workers |-> NoScan]
  /\ wire = [t \in Tasks |-> None]
  /\ effects = [e \in Writes |-> 0]
  /\ crashes = 0

CreateHandler(r) ==
  \/ \E w \in Workers, e \in Execs : Reserve(r, w, e) \/ RefuseCreate(r, w, e)
  \/ PublishCreated(r) \/ PublishFails(r)
  \/ \E t \in Tasks : SpawnCreated(r, t)

\* One task's program, in the order of run_execution.
TaskStep(t) ==
  \/ Register(t) \/ CancelWaiting(t) \/ AcquireSlot(t)
  \/ Dispatch(t) \/ DispatchDenied(t) \/ Adopt(t)
  \/ AnnounceDispatched(t) \/ AnnounceRunning(t)
  \/ OperationSucceeds(t) \/ OperationFails(t) \/ OperationUnknown(t)
  \/ OperationCancelled(t) \/ OperationLeaseLost(t) \/ OperationTimesOut(t)
  \/ AppendTerminal(t)

Heartbeat(t) == Renew(t) \/ RenewLost(t)

RecoveryLoop(w) ==
  \/ \E e \in Execs : Scan(w, e)
  \/ Reconcile(w)
  \/ \E t \in Tasks : Respawn(w, t)
  \/ SkipRegistered(w)

Environment ==
  \/ \E e \in Execs : Approve(e) \/ ApprovalLapses(e) \/ WorkerLeaseExpires(e)
  \/ AuthorityEnds \/ CancelRun \/ OwnerLeaseExpires \/ OwnerTakesOver

Next ==
  \/ \E r \in Reqs : CreateHandler(r)
  \/ \E t \in Tasks : TaskStep(t) \/ Heartbeat(t) \/ StoreFails(t)
                      \/ EffectLands(t)
  \/ \E w \in Workers : RecoveryLoop(w) \/ Crash(w)
  \/ \E w \in Workers, e \in Execs : CancelExecution(w, e)
  \/ Environment

Spec == Init /\ [][Next]_vars

\* A task holds the claim of e and keeps it alive.
Held(e) ==
  \E t \in Tasks :
    /\ HoldsSlot(t)
    /\ ExecOf(t) = e
    /\ task[t].pc = "adopting" \/ task[t].fence = row[e].fence

\* What the scheduling of a worker process guarantees: a handler and a task go
\* on (an operation ends at its timeout), the slot's waiters are served in
\* turn, the recovery loop goes on taking records (in the runs only one is ever
\* created), and a lease nobody renews runs out.
Progress ==
  /\ \A r \in Reqs :
       WF_vars(PublishCreated(r) \/ \E t \in Tasks : SpawnCreated(r, t))
  /\ \A t \in Tasks : WF_vars(TaskStep(t)) /\ SF_vars(AcquireSlot(t))
  /\ \A w \in Workers :
       /\ SF_vars(\E e \in Execs : Scan(w, e))
       /\ WF_vars(Reconcile(w) \/ SkipRegistered(w))
       /\ SF_vars(\E t \in Tasks : Respawn(w, t))
  /\ \A e \in Execs : WF_vars(WorkerLeaseExpires(e) /\ ~Held(e))

\* The store does not fail for ever, and from some point on a lease that is
\* being renewed does not run out.  A task that ends because it was refused
\* also takes a StoreFails step, and may do so for ever.
EventuallyStable ==
  <>[][/\ \A t \in Tasks : StoreFails(t) => TaskStep(t)
       /\ \A e \in Execs : WorkerLeaseExpires(e) => ~Held(e)]_vars

FairSpec == Spec /\ Progress /\ EventuallyStable

-----------------------------------------------------------------------------
(* Correctness of the ledger.                                              *)

RowType == [st : Statuses \cup {"absent"}, fence : Tasks \cup {None},
            lease : BOOLEAN, receipt : BOOLEAN, ids : SUBSET (1..4),
            log : Seq(Statuses)]
PCs == {"idle", "spawned", "waiting", "claiming", "adopting", "announcing",
        "starting", "operating", "finishing"}
TaskType == [pc : PCs, w : Workers \cup {None}, e : Execs \cup {None},
             fence : Tasks \cup {None}, tok : Tasks \cup {None},
             lost : BOOLEAN, out : Terminal \cup {None}]
ReqType == [pc : {"new", "reserved", "announced", "done"},
            w : Workers \cup {None}, e : Execs \cup {None},
            reply : {None, "existing", "refused", "rejected", "accepted",
                     "lost"}]
ScanType == [e : Execs, st : Statuses \cup {"absent"}, fence : Tasks \cup {None},
             receipt : BOOLEAN]

\* The type of every variable.
TypeOK ==
  /\ row \in [Execs -> RowType]
  /\ appr \in [Writes -> {"pending", "approved", "refused", "consumed"}]
  /\ runActive \in BOOLEAN /\ ownerLive \in BOOLEAN
  /\ req \in [Reqs -> ReqType]
  /\ task \in [Tasks -> TaskType]
  /\ tokens \in [Workers -> [Execs -> Tasks \cup {None}]]
  /\ permit \in SUBSET Tasks
  /\ scan \in [Workers -> ScanType \cup {NoScan}]
  /\ wire \in [Tasks -> Writes \cup {None}]
  /\ effects \in [Writes -> Nat]
  /\ crashes \in 0..MaxCrashes

\* A write's side effect happens at most once, whatever crashes, duplicate
\* tasks, lease losses and recoveries come in between: a dispatched write is
\* never dispatched again (004_runtime_durable_recovery.sql, dispatch).
WriteAtMostOnce == \A e \in Writes : effects[e] <= 1

\* Only a write whose one-time approval was consumed has an effect, and the
\* approval is consumed only for a row that carries a fence from then on.
EffectNeedsApproval ==
  \A e \in Writes :
    /\ effects[e] > 0 => appr[e] = "consumed"
    /\ appr[e] = "consumed" <=> row[e].fence # None

\* A write reported cancelled has had no effect, and none is under way: cancel
\* reports a dispatched write as side_effect_unknown instead.
CancelledWriteHasNoEffect ==
  \A e \in Writes :
    row[e].st = "cancelled" =>
      effects[e] = 0 /\ \A t \in Tasks : wire[t] # e

\* A write reported succeeded, by its task or from its receipt, happened.
SucceededWriteHappened ==
  \A e \in Writes : row[e].st = "succeeded" => effects[e] = 1

\* An execution has one terminal event, the last of its log, and it is the
\* status of the row: pollers that stop at the first terminal event agree
\* with readers of the row.
OneTerminalEvent ==
  \A e \in Execs :
    LET log == row[e].log IN
    /\ \A i \in 1..Len(log) : log[i] \in Terminal => i = Len(log)
    /\ row[e].st \in Terminal => log # <<>> /\ log[Len(log)] = row[e].st

\* The log tells an execution's life in order and each step once, although a
\* read claimed again announces itself again: the event identity is derived
\* from the execution, and append_assistant_capability_event knows it.
LogFollowsLifecycle ==
  LET rank(st) == CASE st = "published" -> 1 [] st = "dispatched" -> 2
                    [] st = "running" -> 3 [] OTHER -> 4
  IN \A e \in Execs : \A i, j \in 1..Len(row[e].log) :
       i < j => rank(row[e].log[i]) < rank(row[e].log[j])

\* Two tasks never work on the same write: the second one is refused the
\* claim even when the first one's lease is over.
WriteRunsUnderOneTask ==
  \A t, u \in Tasks :
    /\ task[t].pc \in {"announcing", "starting", "operating", "finishing"}
    /\ task[u].pc \in {"announcing", "starting", "operating", "finishing"}
    /\ ExecOf(t) = ExecOf(u) /\ ExecOf(t) \in Writes
    => t = u

\* What is recorded of a finished execution never changes again: a late
\* terminal event, a late receipt or a second cancel leaves the row alone.
TerminalIsFinal ==
  [][\A e \in Execs : row[e].st \in Terminal => row'[e] = row[e]]_vars

\* A write that has announced its dispatch gets a terminal event, whether or
\* not its task, its worker, its run or its owner survives: the second branch
\* of RECOVERABLE_EXECUTIONS_SQL asks for no authority.
AnnouncedWriteIsResolved ==
  \A e \in Writes :
    row[e].st \in InFlight /\ row[e].log # <<>> ~> row[e].st \in Terminal

\* While its run stays authorised, an accepted read is run to an end: a lost
\* task, a crashed worker and an expired lease all lead to a new claim.
AuthorisedReadIsResolved ==
  \A e \in Reads :
    row[e].st \in {"published"} \cup InFlight
      ~> row[e].st \in Terminal \/ ~(runActive /\ ownerLive)

=============================================================================
