--------------------- MODULE CapabilityExecutionProofs ---------------------
(***************************************************************************)
(* The ledger's type invariant and its safety for every number of          *)
(* executions, workers, tasks, requests and crashes.                       *)
(***************************************************************************)
EXTENDS CapabilityExecution, TLAPS

-----------------------------------------------------------------------------
(* The inductive invariant.                                                *)

Unclaimed == {"spawned", "waiting", "claiming"}
UnderClaim == {"adopting", "announcing", "starting", "operating", "finishing"}

\* A task that runs knows its worker and execution, and one about to finish
\* its outcome; a request that holds a row knows where it came in.
TaskBound ==
  \A t \in Tasks :
    /\ task[t].pc # "idle" => task[t].w \in Workers /\ task[t].e \in Execs
    /\ task[t].pc = "finishing" => task[t].out \in Terminal
ReqBound ==
  \A r \in Reqs : req[r].pc \in {"reserved", "announced"} =>
    req[r].w \in Workers /\ req[r].e \in Execs
Bound == TaskBound /\ ReqBound

\* A write is fenced when its approval is consumed, and only then acts.
FenceInv ==
  \A e \in Writes :
    /\ appr[e] = "consumed" <=> row[e].fence # None
    /\ effects[e] \in {0, 1}
    /\ effects[e] # 0 => row[e].fence # None

\* An effect under way belongs to the task whose fence the row carries.
WireInv ==
  \A t \in Tasks : wire[t] # None =>
    row[wire[t]].fence = t /\ effects[wire[t]] = 0

\* A task that has not claimed yet has left no trace.
UnclaimedInv ==
  \A t \in Tasks : task[t].pc \in Unclaimed =>
    wire[t] = None /\ \A e \in Execs : row[e].fence # t

\* A task that works on a write holds its fence, and until it announces the
\* start nothing has happened.
ClaimedInv ==
  \A t \in Tasks : task[t].pc \in UnderClaim /\ task[t].e \in Writes =>
    /\ row[task[t].e].fence = t
    /\ task[t].pc # "adopting" => task[t].fence = t
    /\ task[t].pc \in {"adopting", "announcing", "starting"} =>
         wire[t] = None /\ effects[task[t].e] = 0

\* A write ends as cancelled only before its dispatch.
CancelledInv ==
  /\ \A e \in Writes : row[e].st = "cancelled" => row[e].fence = None
  /\ \A t \in Tasks : task[t].pc = "finishing" /\ task[t].e \in Writes =>
       task[t].out # "cancelled"

\* A finished row has no lease left to expire.
LeaseInv == \A e \in Execs : row[e].st \in Terminal => ~row[e].lease

\* Nobody holds a row that was never reserved.
AbsentInv == \A e \in Execs : row[e].st = "absent" => row[e].fence = None

LedgerInv == FenceInv /\ WireInv /\ UnclaimedInv /\ ClaimedInv /\ CancelledInv
             /\ LeaseInv /\ AbsentInv
IInv == TypeOK /\ Bound /\ LedgerInv

-----------------------------------------------------------------------------
(* What the ledger's functions return.                                     *)

\* A reserved row.
LEMMA NewRow == NoRow \in RowType /\ [NoRow EXCEPT !.st = "published"] \in RowType
PROOF
<1>1. <<>> \in Seq(Statuses) /\ {} \in SUBSET (1..4) /\ FALSE \in BOOLEAN
  OBVIOUS
<1>2. NoRow \in RowType
  BY <1>1 DEF NoRow, RowType
<1>3. "published" \in Statuses \cup {"absent"}
  BY DEF Statuses
<1>4. QED
  BY <1>2, <1>3 DEF NoRow, RowType

\* Appending an event keeps a row a row and leaves its fence alone; a
\* terminal event ends the lease.
LEMMA AppendedRow ==
  ASSUME NEW r \in RowType, NEW ids \in SUBSET (1..4), NEW st \in Statuses
  PROVE  /\ Appended(r, ids, st) \in RowType
         /\ Appended(r, ids, st).fence = r.fence
         /\ Appended(r, ids, st).st = st
         /\ st \in Terminal => ~Appended(r, ids, st).lease
PROOF
<1>1. Append(r.log, st) \in Seq(Statuses)
  BY DEF RowType
<1>2. /\ (IF st = "running" THEN TRUE ELSE r.lease /\ st \notin Terminal) \in BOOLEAN
      /\ (r.receipt /\ st \notin Terminal) \in BOOLEAN
  OBVIOUS
<1>3. /\ st \in Statuses \cup {"absent"} /\ r.fence \in Tasks \cup {None}
      /\ r.ids \cup ids \in SUBSET (1..4)
  BY DEF RowType
<1>4. Appended(r, ids, st) \in RowType
  BY <1>1, <1>2, <1>3 DEF Appended, RowType
<1>5. st \in Terminal => ~Appended(r, ids, st).lease
  BY DEF Appended, Terminal
<1>6. QED
  BY <1>4, <1>5 DEF Appended

\* append_assistant_capability_event changes nothing, or appends its event to
\* a row that is not finished.
LEMMA AppendEventRow ==
  ASSUME NEW r \in RowType, NEW id \in 1..4, NEW st \in Statuses, NEW f
  PROVE  /\ AppendEvent(r, id, st, f) \in RowType
         /\ AppendEvent(r, id, st, f).fence = r.fence
         /\ AppendEvent(r, id, st, f).st \in {r.st, st}
         /\ \/ AppendEvent(r, id, st, f) = r
            \/ /\ r.st \notin Terminal
               /\ AppendEvent(r, id, st, f).st = st
               /\ st \in Terminal => ~AppendEvent(r, id, st, f).lease
  BY AppendedRow DEF AppendEvent, AppendAllowed

\* A renewed or expired lease and a stored receipt.
LEMMA FlagRow ==
  ASSUME NEW r \in RowType
  PROVE  /\ \A b \in BOOLEAN : [r EXCEPT !.lease = b] \in RowType
         /\ \A b \in BOOLEAN : [r EXCEPT !.receipt = b] \in RowType
         /\ [r EXCEPT !.lease = TRUE] \in RowType
         /\ [r EXCEPT !.receipt = TRUE] \in RowType
PROOF
<1>1. ASSUME NEW b \in BOOLEAN
      PROVE  [r EXCEPT !.lease = b] \in RowType /\ [r EXCEPT !.receipt = b] \in RowType
  BY DEF RowType
<1>2. QED
  BY <1>1

\* A granted claim leaves a well-typed row under the claimant's fence.
LEMMA ClaimedRow ==
  ASSUME NEW r \in RowType, NEW t \in Tasks
  PROVE  Claimed(r, t) \in RowType /\ Claimed(r, t).fence = t
PROOF
<1>1. (IF r.fence = None THEN "dispatched" ELSE r.st) \in Statuses \cup {"absent"}
  BY DEF RowType, Statuses, InFlight
<1>2. QED
  BY <1>1 DEF Claimed, RowType

-----------------------------------------------------------------------------
(* Types.                                                                  *)

TaskTypes ==
  /\ task \in [Tasks -> TaskType]
  /\ tokens \in [Workers -> [Execs -> Tasks \cup {None}]]
  /\ permit \in SUBSET Tasks
  /\ TaskBound

\* A new task is well typed.
LEMMA SpawnTypes ==
  ASSUME TaskTypes, NEW t \in Tasks, NEW w \in Workers, NEW e \in Execs,
         Spawn(t, w, e)
  PROVE  TaskTypes'
PROOF
<1>1. task' \in [Tasks -> TaskType]
  BY DEF TaskTypes, Spawn, IdleTask, TaskType, PCs
<1>2. tokens' \in [Workers -> [Execs -> Tasks \cup {None}]]
  BY DEF TaskTypes, Spawn, RegisterToken
<1>3. permit' \in SUBSET Tasks
  BY DEF TaskTypes, Spawn, RegisterToken
<1>4. TaskBound'
  BY DEF TaskTypes, Spawn, IdleTask, TaskBound
<1>5. QED
  BY <1>1, <1>2, <1>3, <1>4 DEF TaskTypes

\* A task that leaves run_execution keeps every map well typed.
LEMMA RetireTypes ==
  ASSUME TaskTypes, NEW t \in Tasks, Retire(t), permit' \in SUBSET Tasks
  PROVE  TaskTypes'
PROOF
<1>1. task' \in [Tasks -> TaskType]
  BY DEF TaskTypes, Retire, IdleTask, TaskType, PCs
<1>2. tokens' \in [Workers -> [Execs -> Tasks \cup {None}]]
  BY DEF TaskTypes, Retire
<1>3. TaskBound'
  BY DEF TaskTypes, Retire, IdleTask, TaskBound
<1>4. QED
  BY <1>1, <1>2, <1>3 DEF TaskTypes

\* The other variables.
RowTypes ==
  /\ row \in [Execs -> RowType]
  /\ appr \in [Writes -> {"pending", "approved", "refused", "consumed"}]
RestTypes ==
  /\ runActive \in BOOLEAN /\ ownerLive \in BOOLEAN
  /\ req \in [Reqs -> ReqType] /\ ReqBound
  /\ scan \in [Workers -> ScanType \cup {NoScan}]
  /\ wire \in [Tasks -> Writes \cup {None}]
  /\ effects \in [Writes -> Nat]
  /\ crashes \in 0..MaxCrashes

\* The types, part by part.
LEMMA TypeParts == TypeOK /\ Bound <=> RowTypes /\ RestTypes /\ TaskTypes
  BY DEF TypeOK, Bound, RowTypes, RestTypes, TaskTypes

\* The create handler keeps the types.
LEMMA CreateTypes ==
  ASSUME RowTypes, RestTypes, TaskTypes, NEW r \in Reqs, CreateHandler(r)
  PROVE  RowTypes' /\ RestTypes' /\ TaskTypes'
PROOF
<1>1. ASSUME NEW w \in Workers, NEW e \in Execs, Reserve(r, w, e)
      PROVE  RowTypes' /\ RestTypes' /\ TaskTypes'
  <2>1. RowTypes'
    BY <1>1, NewRow DEF Reserve, RowTypes
  <2>3. /\ req' \in [Reqs -> ReqType]
        /\ req'[r].w \in Workers /\ req'[r].e \in Execs
        /\ \A s \in Reqs : s # r => req'[s] = req[s]
    <3>1. CASE row[e].st = "absent"
      BY <1>1, <3>1 DEF Reserve, RestTypes, ReqType
    <3>2. CASE row[e].st # "absent"
      BY <1>1, <3>2 DEF Reserve, RestTypes, ReqType
    <3>3. QED
      BY <3>1, <3>2
  <2>4. RestTypes'
    BY <1>1, <2>3 DEF Reserve, RestTypes, ReqBound, authority, local, world
  <2>5. TaskTypes'
    BY <1>1 DEF Reserve, TaskTypes, TaskBound, local
  <2>6. QED
    BY <2>1, <2>4, <2>5
<1>2. ASSUME NEW w \in Workers, NEW e \in Execs, RefuseCreate(r, w, e)
      PROVE  RowTypes' /\ RestTypes' /\ TaskTypes'
  <2>1. RowTypes' /\ TaskTypes'
    BY <1>2 DEF RefuseCreate, RowTypes, TaskTypes, TaskBound, db, local
  <2>2. RestTypes'
    BY <1>2 DEF RefuseCreate, RestTypes, ReqType, ReqBound, authority, local, world
  <2>3. QED
    BY <2>1, <2>2
<1>3. ASSUME PublishCreated(r) \/ PublishFails(r)
      PROVE  RowTypes' /\ RestTypes' /\ TaskTypes'
  <2>1. req[r].e \in Execs /\ req[r].w \in Workers
    BY <1>3 DEF PublishCreated, PublishFails, RestTypes, ReqBound
  <2>2. AppendEvent(row[req[r].e], PublishedId, "published", None) \in RowType
    BY <2>1, AppendEventRow DEF RowTypes, PublishedId, Statuses
  <2>3. RowTypes'
    BY <1>3, <2>1, <2>2 DEF PublishCreated, PublishFails, RowTypes
  <2>4. TaskTypes'
    BY <1>3 DEF PublishCreated, PublishFails, TaskTypes, TaskBound, local
  <2>5. RestTypes'
    BY <1>3, <2>1 DEF PublishCreated, PublishFails, RestTypes, ReqType, ReqBound, authority,
                      local, world
  <2>6. QED
    BY <2>3, <2>4, <2>5
<1>4. ASSUME NEW t \in Tasks, SpawnCreated(r, t)
      PROVE  RowTypes' /\ RestTypes' /\ TaskTypes'
  <2>1. TaskTypes'
    BY <1>4, SpawnTypes DEF SpawnCreated, RestTypes, ReqBound
  <2>2. RowTypes'
    BY <1>4 DEF SpawnCreated, RowTypes, db
  <2>3. RestTypes'
    BY <1>4 DEF SpawnCreated, RestTypes, ReqType, ReqBound, authority, world
  <2>4. QED
    BY <2>1, <2>2, <2>3
<1>5. QED
  BY <1>1, <1>2, <1>3, <1>4 DEF CreateHandler

\* A move of a task's program counter that leaves the rest of it alone.
LEMMA StepTypes ==
  ASSUME TaskTypes, NEW t \in Tasks, NEW from, NEW to \in PCs, Step(t, from, to),
         from # "idle", to # "finishing", UNCHANGED <<tokens, permit>>
  PROVE  TaskTypes'
  BY DEF TaskTypes, Step, TaskType, TaskBound

\* The ends of an operation.
LEMMA FinishTypes ==
  ASSUME TaskTypes, NEW t \in Tasks, NEW out \in Terminal, Finish(t, out),
         permit' \in SUBSET permit
  PROVE  TaskTypes'
PROOF
<1>1. [task[t] EXCEPT !.pc = "finishing", !.out = out] \in TaskType
  BY DEF TaskTypes, TaskType, PCs
<1>2. task' \in [Tasks -> TaskType]
  BY <1>1 DEF TaskTypes, Finish
<1>3. TaskBound'
  BY <1>1 DEF TaskTypes, Finish, TaskBound, TaskType
<1>4. QED
  BY <1>2, <1>3 DEF TaskTypes, Finish

\* The two announcements.
LEMMA AnnounceTypes ==
  ASSUME RowTypes, RestTypes, TaskTypes, NEW t \in Tasks,
         NEW from, NEW to \in PCs, NEW id \in 1..4, NEW st \in Statuses,
         from # "idle", to # "finishing", Announce(t, from, to, id, st)
  PROVE  RowTypes' /\ RestTypes' /\ TaskTypes'
PROOF
<1>1. task[t].e \in Execs
  BY DEF Announce, TaskTypes, TaskBound
<1>2. AppendEvent(row[task[t].e], id, st, task[t].fence) \in RowType
  BY <1>1, AppendEventRow DEF RowTypes
<1>3. RowTypes'
  BY <1>1, <1>2 DEF Announce, RowTypes, ExecOf
<1>4. RestTypes'
  BY DEF Announce, RestTypes, ReqBound, authority, ExecOf
<1>5. CASE AppendAccepted(row[ExecOf(t)], id, st, task[t].fence)
  BY <1>5, StepTypes, <1>3, <1>4 DEF Announce
<1>6. CASE ~AppendAccepted(row[ExecOf(t)], id, st, task[t].fence)
  BY <1>6, RetireTypes, <1>3, <1>4 DEF Announce, TaskTypes
<1>7. QED
  BY <1>5, <1>6

\* Every step of run_execution keeps the types.
LEMMA TaskStepTypes ==
  ASSUME RowTypes, RestTypes, TaskTypes, NEW t \in Tasks, TaskStep(t)
  PROVE  RowTypes' /\ RestTypes' /\ TaskTypes'
PROOF
<1> USE DEF db, authority, local, world
<1>1. ASSUME UNCHANGED row, UNCHANGED appr, UNCHANGED <<runActive, ownerLive, req,
                 scan, wire, effects, crashes>>
      PROVE  RowTypes' /\ RestTypes'
  BY <1>1 DEF RowTypes, RestTypes, ReqBound
<1>2. CASE Register(t)
  <2>1. RowTypes' /\ RestTypes'
    BY <1>1, <1>2 DEF Register
  <2>2. task[t].w \in Workers /\ task[t].e \in Execs
    BY <1>2 DEF Register, TaskTypes, TaskBound
  <2>3. tokens' \in [Workers -> [Execs -> Tasks \cup {None}]] /\ permit' \in SUBSET Tasks
    BY <1>2, <2>2 DEF Register, RegisterToken, TaskTypes
  <2>4. tokens'[task[t].w][task[t].e] \in Tasks \cup {None}
    BY <2>2, <2>3
  <2>5. task' \in [Tasks -> TaskType] /\ TaskBound'
    <3>1. [task[t] EXCEPT !.pc = "waiting", !.tok = tokens'[task[t].w][task[t].e]]
             \in TaskType
      BY <2>4 DEF TaskTypes, TaskType, PCs
    <3>2. QED
      BY <1>2, <2>2, <3>1 DEF Register, TaskTypes, TaskBound, TaskType
  <2>6. QED
    BY <2>1, <2>3, <2>5 DEF TaskTypes
<1>3. CASE CancelWaiting(t)
  <2>1. permit' \in SUBSET Tasks
    BY <1>3 DEF CancelWaiting, TaskTypes
  <2>2. QED
    BY <1>1, <1>3, <2>1, RetireTypes DEF CancelWaiting
<1>4. CASE AcquireSlot(t)
  <2>1. RowTypes' /\ RestTypes' /\ permit' = permit
    BY <1>1, <1>4 DEF AcquireSlot
  <2>2. CASE row[ExecOf(t)].st \in Terminal
    BY <1>4, <2>1, <2>2, RetireTypes DEF AcquireSlot, TaskTypes
  <2>3. CASE row[ExecOf(t)].st \notin Terminal
    BY <1>4, <2>1, <2>3, StepTypes DEF AcquireSlot, PCs
  <2>4. QED
    BY <2>2, <2>3
<1>5. CASE Dispatch(t)
  <2>1. TaskTypes'
    BY <1>5, StepTypes DEF Dispatch, PCs
  <2>2. RestTypes'
    BY <1>5 DEF Dispatch, RestTypes, ReqBound
  <2>3. RowTypes'
    <3>1. task[t].e \in Execs
      BY <1>5 DEF Dispatch, Step, TaskTypes, TaskBound
    <3>3. Claimed(row[task[t].e], t) \in RowType
      BY <3>1, ClaimedRow DEF RowTypes
    <3>4. row' \in [Execs -> RowType]
      BY <1>5, <3>1, <3>3 DEF Dispatch, RowTypes, ExecOf
    <3>5. appr' \in [Writes -> {"pending", "approved", "refused", "consumed"}]
      BY <1>5 DEF Dispatch, RowTypes, Consumed
    <3>6. QED
      BY <3>4, <3>5 DEF RowTypes
  <2>4. QED
    BY <2>1, <2>2, <2>3
<1>6. CASE DispatchDenied(t)
  BY <1>1, <1>6, RetireTypes DEF DispatchDenied, TaskTypes
<1>7. CASE Adopt(t)
  <2>1. RowTypes' /\ RestTypes'
    BY <1>1, <1>7 DEF Adopt
  <2>2. row[task[t].e].fence \in Tasks \cup {None}
    BY <1>7 DEF Adopt, TaskTypes, TaskBound, RowTypes, RowType
  <2>3. TaskTypes'
    <3>1. [task[t] EXCEPT !.pc = "announcing", !.fence = row[task[t].e].fence]
             \in TaskType
      BY <2>2 DEF TaskTypes, TaskType, PCs
    <3>2. QED
      BY <1>7, <3>1 DEF Adopt, TaskTypes, TaskBound, TaskType, ExecOf
  <2>4. QED
    BY <2>1, <2>3
<1>8. CASE AnnounceDispatched(t)
  BY <1>8, AnnounceTypes DEF AnnounceDispatched, PCs, Statuses, InFlight, DispatchedId
<1>9. CASE AnnounceRunning(t)
  <2>1. "operating" \in PCs /\ "running" \in Statuses /\ RunningId \in 1..4
    BY DEF PCs, Statuses, InFlight, RunningId
  <2>2. QED
    BY <1>9, <2>1, AnnounceTypes DEF AnnounceRunning
<1>10. CASE OperationSucceeds(t)
  <2>1. PICK out \in {"succeeded", "failed"} : Finish(t, out)
    BY <1>10 DEF OperationSucceeds
  <2>2. QED
    BY <1>1, <1>10, <2>1, FinishTypes DEF OperationSucceeds, Finish, Terminal
<1>11. CASE OperationFails(t)
  <2>1. TaskTypes'
    <3>1. PICK out \in {"failed", "timeout"} : Finish(t, out)
      BY <1>11 DEF OperationFails
    <3>2. out \in Terminal /\ permit' \in SUBSET permit
      BY <1>11 DEF OperationFails, Terminal
    <3>3. QED
      BY <3>1, <3>2, FinishTypes
  <2>2. RowTypes' /\ RestTypes'
    BY <1>11 DEF OperationFails, Finish, RowTypes, RestTypes, ReqBound
  <2>3. QED
    BY <2>1, <2>2
<1>12. CASE OperationUnknown(t)
  BY <1>1, <1>12, FinishTypes DEF OperationUnknown, Finish, Terminal
<1>13. CASE OperationCancelled(t)
  BY <1>1, <1>13, FinishTypes DEF OperationCancelled, Interrupted, Finish, Terminal
<1>14. CASE OperationLeaseLost(t)
  BY <1>1, <1>14, FinishTypes DEF OperationLeaseLost, Interrupted, Finish, Terminal
<1>15. CASE OperationTimesOut(t)
  BY <1>1, <1>15, FinishTypes DEF OperationTimesOut, Interrupted, Finish, Terminal
<1>16. CASE AppendTerminal(t)
  <2>1. task[t].e \in Execs /\ task[t].out \in Terminal
    BY <1>16 DEF AppendTerminal, TaskTypes, TaskBound
  <2>2. AppendEvent(row[task[t].e], TerminalId, task[t].out, task[t].fence) \in RowType
    <3>1. task[t].out \in Statuses /\ TerminalId \in 1..4 /\ row[task[t].e] \in RowType
      BY <2>1 DEF RowTypes, TerminalId, Statuses
    <3>2. QED
      BY <3>1, AppendEventRow
  <2>3. RowTypes' /\ RestTypes'
    BY <1>16, <2>1, <2>2 DEF AppendTerminal, RowTypes, RestTypes, ReqBound, ExecOf
  <2>4. TaskTypes'
    BY <1>16, RetireTypes DEF AppendTerminal, TaskTypes
  <2>5. QED
    BY <2>3, <2>4
<1>17. QED
  BY <1>2, <1>3, <1>4, <1>5, <1>6, <1>7, <1>8, <1>9, <1>10, <1>11, <1>12,
     <1>13, <1>14, <1>15, <1>16 DEF TaskStep

\* Heartbeats, failing store calls and side effects keep the types.
LEMMA WorkTypes ==
  ASSUME RowTypes, RestTypes, TaskTypes, NEW t \in Tasks,
         Heartbeat(t) \/ StoreFails(t) \/ EffectLands(t)
  PROVE  RowTypes' /\ RestTypes' /\ TaskTypes'
PROOF
<1> USE DEF db, authority, local, world
<1>1. CASE Renew(t)
  <2>1. task[t].e \in Execs
    BY <1>1 DEF Renew, Heartbeating, TaskTypes, TaskBound
  <2>2. [row[task[t].e] EXCEPT !.lease = TRUE] \in RowType
    BY <2>1, FlagRow DEF RowTypes
  <2>3. RowTypes'
    BY <1>1, <2>1, <2>2 DEF Renew, RowTypes, ExecOf
  <2>4. QED
    BY <1>1, <2>3 DEF Renew, RestTypes, ReqBound, TaskTypes, TaskBound
<1>2. CASE RenewLost(t)
  <2>1. [task[t] EXCEPT !.lost = TRUE] \in TaskType
    BY DEF TaskTypes, TaskType
  <2>2. TaskTypes'
    BY <1>2, <2>1 DEF RenewLost, TaskTypes, TaskBound, TaskType
  <2>3. QED
    BY <1>2, <2>2 DEF RenewLost, RowTypes, RestTypes, ReqBound
<1>3. CASE StoreFails(t)
  <2>1. TaskTypes'
    BY <1>3, RetireTypes DEF StoreFails, TaskTypes
  <2>2. QED
    BY <1>3, <2>1 DEF StoreFails, RowTypes, RestTypes, ReqBound
<1>4. CASE EffectLands(t)
  <2>1. wire[t] \in Writes
    BY <1>4 DEF EffectLands, RestTypes
  <2>2. [row[wire[t]] EXCEPT !.receipt = TRUE] \in RowType
    BY <2>1, FlagRow DEF RowTypes, Execs
  <2>3. RowTypes'
    BY <1>4, <2>1, <2>2 DEF EffectLands, RowTypes, Execs
  <2>4. RestTypes'
    BY <1>4, <2>1 DEF EffectLands, RestTypes, ReqBound
  <2>5. QED
    BY <1>4, <2>3, <2>4 DEF EffectLands, TaskTypes, TaskBound
<1>5. QED
  BY <1>1, <1>2, <1>3, <1>4 DEF Heartbeat

\* The recovery loop keeps the types.
LEMMA RecoveryTypes ==
  ASSUME RowTypes, RestTypes, TaskTypes, NEW w \in Workers, RecoveryLoop(w)
  PROVE  RowTypes' /\ RestTypes' /\ TaskTypes'
PROOF
<1> USE DEF db, authority, local, world
<1>1. ASSUME NEW e \in Execs, Scan(w, e)
      PROVE  RowTypes' /\ RestTypes' /\ TaskTypes'
  <2>1. Copy(e) \in ScanType
    BY DEF Copy, NoScan, ScanType, RowTypes, RowType
  <2>2. QED
    BY <1>1, <2>1 DEF Scan, RowTypes, RestTypes, ReqBound, TaskTypes, TaskBound
<1>2. ASSUME scan[w] # NoScan
      PROVE  scan[w] \in ScanType
  BY <1>2 DEF RestTypes
<1>3. ASSUME scan' = [scan EXCEPT ![w] = NoScan],
             UNCHANGED <<runActive, ownerLive, req, wire, effects, crashes>>
      PROVE  RestTypes'
  BY <1>3 DEF RestTypes, ReqBound
<1>4. CASE Reconcile(w)
  <2>1. scan[w].e \in Execs
    BY <1>2, <1>4 DEF Reconcile, ScanType
  <2>2. RecoveredStatus(scan[w]) \in Statuses /\ TerminalId \in 1..4
    BY DEF RecoveredStatus, Statuses, Terminal, TerminalId
  <2>3. AppendEvent(row[scan[w].e], TerminalId, RecoveredStatus(scan[w]),
                    scan[w].fence) \in RowType
    BY <2>1, <2>2, AppendEventRow DEF RowTypes
  <2>4. RowTypes'
    BY <1>4, <2>1, <2>3 DEF Reconcile, RowTypes
  <2>5. QED
    BY <1>3, <1>4, <2>4 DEF Reconcile, TaskTypes, TaskBound
<1>5. ASSUME NEW t \in Tasks, Respawn(w, t)
      PROVE  RowTypes' /\ RestTypes' /\ TaskTypes'
  <2>1. scan[w].e \in Execs
    BY <1>2, <1>5 DEF Respawn, ScanType
  <2>2. TaskTypes'
    BY <1>5, <2>1, SpawnTypes DEF Respawn
  <2>3. QED
    BY <1>3, <1>5, <2>2 DEF Respawn, RowTypes
<1>6. CASE SkipRegistered(w)
  BY <1>3, <1>6 DEF SkipRegistered, RowTypes, TaskTypes, TaskBound
<1>7. QED
  BY <1>1, <1>4, <1>5, <1>6 DEF RecoveryLoop

\* A cancel keeps the types.
LEMMA CancelTypes ==
  ASSUME RowTypes, RestTypes, TaskTypes, NEW w \in Workers, NEW e \in Execs,
         CancelExecution(w, e)
  PROVE  RowTypes' /\ RestTypes' /\ TaskTypes'
PROOF
<1>1. CancelStatus(e) \in Statuses /\ {} \in SUBSET (1..4)
  BY DEF CancelStatus, Statuses, Terminal
<1>2. Appended(row[e], {}, CancelStatus(e)) \in RowType
  BY <1>1, AppendedRow DEF RowTypes
<1>3. RowTypes'
  BY <1>2 DEF CancelExecution, RowTypes
<1>4. TaskTypes'
  BY DEF CancelExecution, TaskTypes, TaskBound
<1>5. RestTypes'
  BY DEF CancelExecution, RestTypes, ReqBound, authority, world
<1>6. QED
  BY <1>3, <1>4, <1>5

\* The Runtime, the user, the clock and a crash keep the types.
LEMMA EnvironmentTypes ==
  ASSUME RowTypes, RestTypes, TaskTypes, Environment
  PROVE  RowTypes' /\ RestTypes' /\ TaskTypes'
PROOF
<1> USE DEF db, authority, local, world
<1>1. ASSUME NEW e \in Execs, Approve(e) \/ ApprovalLapses(e)
      PROVE  RowTypes' /\ RestTypes' /\ TaskTypes'
  BY <1>1 DEF Approve, ApprovalLapses, RowTypes, RestTypes, ReqBound, TaskTypes, TaskBound
<1>2. ASSUME NEW e \in Execs, WorkerLeaseExpires(e)
      PROVE  RowTypes' /\ RestTypes' /\ TaskTypes'
  <2>1. [row[e] EXCEPT !.lease = FALSE] \in RowType
    BY DEF RowTypes, RowType
  <2>2. RowTypes'
    BY <1>2, <2>1 DEF WorkerLeaseExpires, RowTypes
  <2>3. QED
    BY <1>2, <2>2 DEF WorkerLeaseExpires, RestTypes, ReqBound, TaskTypes, TaskBound
<1>3. CASE AuthorityEnds \/ OwnerLeaseExpires \/ OwnerTakesOver
  BY <1>3 DEF AuthorityEnds, OwnerLeaseExpires, OwnerTakesOver, RowTypes, RestTypes,
              ReqBound, TaskTypes, TaskBound
<1>4. CASE CancelRun
  BY <1>4 DEF CancelRun, RowTypes, RestTypes, ReqBound, TaskTypes, TaskBound
<1>5. QED
  BY <1>1, <1>2, <1>3, <1>4 DEF Environment

\* A crash keeps the types.
LEMMA CrashTypes ==
  ASSUME RowTypes, RestTypes, TaskTypes, NEW w \in Workers, Crash(w)
  PROVE  RowTypes' /\ RestTypes' /\ TaskTypes'
PROOF
<1> USE DEF db, authority, world
<1>1. RowTypes'
  BY DEF Crash, RowTypes
<1>2. IdleTask \in TaskType
  BY DEF IdleTask, TaskType, PCs
<1>3. task' \in [Tasks -> TaskType] /\ TaskBound'
  BY <1>2 DEF Crash, TaskTypes, TaskBound, IdleTask
<1>4. tokens' \in [Workers -> [Execs -> Tasks \cup {None}]] /\ permit' \in SUBSET Tasks
  BY DEF Crash, TaskTypes
<1>5. \A r \in Reqs : [req[r] EXCEPT !.pc = "done", !.reply = "lost"] \in ReqType
  BY DEF RestTypes, ReqType
<1>6. req' \in [Reqs -> ReqType] /\ ReqBound'
  BY <1>5 DEF Crash, RestTypes, ReqBound, ReqType
<1>7. crashes' \in 0..MaxCrashes
  <2>1. crashes \in 0..MaxCrashes
    BY DEF RestTypes
  <2>2. crashes < MaxCrashes /\ crashes' = crashes + 1
    BY Zenon DEF Crash
  <2>3. QED
    BY <2>1, <2>2, CrashBound
<1>8. QED
  BY <1>1, <1>3, <1>4, <1>6, <1>7 DEF Crash, RestTypes, TaskTypes

\* Every step keeps the types.
LEMMA TypeStep == TypeOK /\ Bound /\ [Next]_vars => (TypeOK /\ Bound)'
PROOF
<1> SUFFICES ASSUME RowTypes, RestTypes, TaskTypes, [Next]_vars
             PROVE  RowTypes' /\ RestTypes' /\ TaskTypes'
  BY TypeParts DEF TypeOK, Bound, RowTypes, RestTypes, TaskTypes
<1>1. CASE Next
  BY <1>1, CreateTypes, TaskStepTypes, WorkTypes, RecoveryTypes, CrashTypes,
     CancelTypes, EnvironmentTypes DEF Next
<1>2. CASE UNCHANGED vars
  BY <1>2 DEF vars, RowTypes, RestTypes, ReqBound, TaskTypes, TaskBound
<1>3. QED
  BY <1>1, <1>2

\* The types hold initially.
LEMMA TypeInit == Init => TypeOK /\ Bound
PROOF
<1> SUFFICES ASSUME Init PROVE RowTypes /\ RestTypes /\ TaskTypes
  BY TypeParts
<1>1. RowTypes
  BY NewRow DEF Init, RowTypes
<1>2. RestTypes
  BY CrashBound DEF Init, RestTypes, ReqType, ReqBound
<1>3. TaskTypes
  BY DEF Init, TaskTypes, TaskType, TaskBound, IdleTask, PCs
<1>4. QED
  BY <1>1, <1>2, <1>3

\* Whatever the workers, the Runtime, the clock and crashes do, every row, task
\* and map of the ledger keeps its type.
THEOREM TypeCorrect == Spec => []TypeOK
PROOF
<1>1. QED
  BY TypeInit, TypeStep, PTL DEF Spec

-----------------------------------------------------------------------------
(* The ledger invariant.  All steps but a granted claim and a landing      *)
(* effect are of one kind: they leave fences, approvals consumed and       *)
(* effects alone, and move tasks forward within or out of their stage.     *)

TaskMoves(t) ==
  \/ task'[t].pc = "idle"
  \/ /\ task'[t].pc \in Unclaimed
     /\ wire[t] = None /\ \A e \in Execs : row[e].fence # t
  \/ /\ task[t].pc \in UnderClaim /\ task'[t].pc \in UnderClaim
     /\ task'[t].e = task[t].e
     /\ task'[t].pc \in {"adopting", "announcing", "starting"} =>
          task[t].pc \in {"adopting", "announcing", "starting"}
     /\ task[t].e \in Writes =>
          /\ task'[t].pc # "adopting" => task'[t].fence = t
          /\ task'[t].pc = "finishing" => task'[t].out # "cancelled"

WireMoves(t) ==
  \/ wire'[t] = wire[t]
  \/ wire'[t] = None
  \/ /\ wire'[t] \in Writes /\ task'[t].pc = "operating"
     /\ row[wire'[t]].fence = t /\ effects[wire'[t]] = 0

RowMoves(e) ==
  /\ row'[e].fence = row[e].fence
  /\ row'[e].st = "absent" => row[e].st = "absent"
  /\ row'[e].st \in Terminal => ~row'[e].lease
  /\ e \in Writes /\ row'[e].st = "cancelled" =>
       row[e].st = "cancelled" \/ row[e].fence = None

Quiet ==
  /\ \A t \in Tasks : TaskMoves(t) /\ WireMoves(t)
  /\ \A e \in Execs : RowMoves(e)
  /\ \A e \in Writes : appr'[e] = "consumed" <=> appr[e] = "consumed"
  /\ effects' = effects

\* A quiet step keeps the ledger invariant.
LEMMA QuietStep ==
  ASSUME TypeOK, LedgerInv, Quiet
  PROVE  LedgerInv'
PROOF
<1> USE DEF Quiet
<1>1. FenceInv'
  BY DEF LedgerInv, FenceInv, RowMoves, Execs
<1>2. WireInv'
  <2>1. ASSUME NEW t \in Tasks, wire'[t] # None
        PROVE  row'[wire'[t]].fence = t /\ effects'[wire'[t]] = 0
    <3>1. wire'[t] \in Writes /\ row[wire'[t]].fence = t /\ effects[wire'[t]] = 0
      BY <2>1 DEF WireMoves, LedgerInv, WireInv, TypeOK
    <3>2. QED
      BY <3>1 DEF RowMoves, Execs
  <2>2. QED
    BY <2>1 DEF WireInv
<1>3. UnclaimedInv'
  <2>1. ASSUME NEW t \in Tasks, task'[t].pc \in Unclaimed
        PROVE  wire'[t] = None /\ \A e \in Execs : row'[e].fence # t
    <3>1. wire[t] = None /\ \A e \in Execs : row[e].fence # t
      BY <2>1 DEF TaskMoves, Unclaimed, UnderClaim
    <3>2. QED
      BY <2>1, <3>1 DEF RowMoves, WireMoves, Unclaimed
  <2>2. QED
    BY <2>1 DEF UnclaimedInv
<1>4. CancelledInv'
  <2>1. \A e \in Writes : row'[e].st = "cancelled" => row'[e].fence = None
    BY DEF LedgerInv, CancelledInv, RowMoves, Execs
  <2>2. \A t \in Tasks : task'[t].pc = "finishing" /\ task'[t].e \in Writes =>
          task'[t].out # "cancelled"
    BY DEF TaskMoves, Unclaimed
  <2>3. QED
    BY <2>1, <2>2 DEF CancelledInv
<1>5. ClaimedInv'
  <2>1. ASSUME NEW t \in Tasks, task'[t].pc \in UnderClaim, task'[t].e \in Writes
        PROVE  /\ row'[task'[t].e].fence = t
               /\ task'[t].pc # "adopting" => task'[t].fence = t
               /\ task'[t].pc \in {"adopting", "announcing", "starting"} =>
                    wire'[t] = None /\ effects'[task'[t].e] = 0
    <3>1. /\ task[t].pc \in UnderClaim /\ task'[t].e = task[t].e
          /\ task'[t].pc \in {"adopting", "announcing", "starting"} =>
               task[t].pc \in {"adopting", "announcing", "starting"}
          /\ task'[t].pc # "adopting" => task'[t].fence = t
      BY <2>1 DEF TaskMoves, Unclaimed, UnderClaim
    <3>2. row[task[t].e].fence = t
      BY <2>1, <3>1 DEF LedgerInv, ClaimedInv
    <3>3. row'[task'[t].e].fence = t
      BY <2>1, <3>1, <3>2 DEF RowMoves, Execs
    <3>4. task'[t].pc \in {"adopting", "announcing", "starting"} =>
            wire[t] = None /\ effects[task[t].e] = 0
      BY <2>1, <3>1 DEF LedgerInv, ClaimedInv
    <3>5. QED
      BY <3>1, <3>3, <3>4 DEF WireMoves
  <2>2. QED
    BY <2>1 DEF ClaimedInv
<1>6. LeaseInv' /\ AbsentInv'
  BY DEF LedgerInv, LeaseInv, AbsentInv, RowMoves
<1>7. QED
  BY <1>1, <1>2, <1>3, <1>4, <1>5, <1>6 DEF LedgerInv

\* A task that stands still is a quiet task.
LEMMA SameTask ==
  ASSUME TypeOK, LedgerInv, NEW t \in Tasks,
         task'[t].pc = task[t].pc, task'[t].e = task[t].e,
         task'[t].fence = task[t].fence, task'[t].out = task[t].out
  PROVE  TaskMoves(t)
PROOF
<1>1. task[t].pc \in {"idle"} \cup Unclaimed \cup UnderClaim
  BY DEF TypeOK, TaskType, PCs, Unclaimed, UnderClaim
<1>2. CASE task[t].pc = "idle"
  BY <1>2 DEF TaskMoves
<1>3. CASE task[t].pc \in Unclaimed
  BY <1>3 DEF TaskMoves, LedgerInv, UnclaimedInv
<1>4. CASE task[t].pc \in UnderClaim
  BY <1>4 DEF TaskMoves, LedgerInv, ClaimedInv, CancelledInv
<1>5. QED
  BY <1>1, <1>2, <1>3, <1>4

\* Tasks that stand still keep their part of the invariant.
LEMMA SameTasks == TypeOK /\ LedgerInv /\ task' = task => \A t \in Tasks : TaskMoves(t)
  BY SameTask

\* One task changes and the others stand still.
LEMMA OneTask ==
  ASSUME TypeOK, LedgerInv, NEW t \in Tasks, TaskMoves(t),
         \A u \in Tasks \ {t} : task'[u] = task[u]
  PROVE  \A u \in Tasks : TaskMoves(u)
  BY SameTask

\* A row that is not touched, and one that gets an event.
LEMMA SameRow ==
  ASSUME LedgerInv, NEW e \in Execs, row'[e].fence = row[e].fence,
         row'[e].st = row[e].st, row'[e].lease = row[e].lease
  PROVE  RowMoves(e)
  BY DEF RowMoves, LedgerInv, LeaseInv

\* Rows that stay keep their part of the invariant.
LEMMA SameRows == LedgerInv /\ row' = row => \A e \in Execs : RowMoves(e)
  BY SameRow

\* The published event is stored, or nothing is.
LEMMA CreateAppends ==
  ASSUME NEW r, PublishCreated(r) \/ PublishFails(r)
  PROVE  \/ row' = row
         \/ row' = [row EXCEPT ![req[r].e] = AppendEvent(@, PublishedId, "published", None)]
  BY DEF PublishCreated, PublishFails

\* An appended event moves one row.
LEMMA EventRow ==
  ASSUME TypeOK, LedgerInv, NEW e \in Execs, NEW id \in 1..4, NEW st \in Statuses, NEW f,
         row' = [row EXCEPT ![e] = AppendEvent(@, id, st, f)],
         e \in Writes /\ st = "cancelled" => row[e].fence = None
  PROVE  \A x \in Execs : RowMoves(x)
PROOF
<1> DEFINE new == AppendEvent(row[e], id, st, f)
<1>1. row[e] \in RowType /\ row'[e] = new /\ \A x \in Execs \ {e} : row'[x] = row[x]
  BY DEF TypeOK
<1>2. /\ new.fence = row[e].fence
      /\ \/ new = row[e]
         \/ /\ row[e].st \notin Terminal /\ new.st = st
            /\ st \in Terminal => ~new.lease
  BY <1>1, AppendEventRow
<1>3. st # "absent"
  BY DEF Statuses, InFlight, Terminal
<1>4. RowMoves(e)
  <2>1. CASE new = row[e]
    BY <1>1, <2>1, SameRow
  <2>2. CASE new # row[e]
    BY <1>1, <1>2, <1>3, <2>2 DEF RowMoves
  <2>3. QED
    BY <2>1, <2>2
<1>5. QED
  BY <1>1, <1>4, SameRow

\* Leaving run_execution and starting it.
LEMMA RetireMoves ==
  ASSUME TypeOK, LedgerInv, NEW t \in Tasks, Retire(t)
  PROVE  \A u \in Tasks : TaskMoves(u)
PROOF
<1>1. task'[t].pc = "idle" /\ \A u \in Tasks \ {t} : task'[u] = task[u]
  BY DEF Retire, IdleTask, TypeOK
<1>2. QED
  BY <1>1, OneTask DEF TaskMoves

\* A spawned task moves alone.
LEMMA SpawnMoves ==
  ASSUME TypeOK, LedgerInv, NEW t \in Tasks, NEW w, NEW e, Spawn(t, w, e)
  PROVE  \A u \in Tasks : TaskMoves(u)
PROOF
<1>1. task'[t].pc = "spawned" /\ \A u \in Tasks \ {t} : task'[u] = task[u]
  BY DEF Spawn, IdleTask, TypeOK
<1>2. TaskMoves(t)
  BY <1>1 DEF TaskMoves, Spawn, Fresh, Unclaimed
<1>3. QED
  BY <1>1, <1>2, OneTask

\* Nothing happens outside the task table.
LEMMA OnlyTasks ==
  ASSUME TypeOK, LedgerInv, \A t \in Tasks : TaskMoves(t),
         UNCHANGED <<row, appr, wire, effects>>
  PROVE  LedgerInv'
PROOF
<1>1. \A e \in Execs : RowMoves(e)
  BY SameRows
<1>2. Quiet
  BY <1>1 DEF Quiet, WireMoves
<1>3. QED
  BY <1>2, QuietStep

\* Only rows change.
LEMMA OnlyRows ==
  ASSUME TypeOK, LedgerInv, \A e \in Execs : RowMoves(e),
         \A t \in Tasks : TaskMoves(t), UNCHANGED <<appr, wire, effects>>
  PROVE  LedgerInv'
PROOF
<1>1. Quiet
  BY DEF Quiet, WireMoves
<1>2. QED
  BY <1>1, QuietStep

\* The create handler keeps the ledger invariant.
LEMMA CreateKeeps ==
  ASSUME TypeOK, Bound, LedgerInv, NEW r \in Reqs, CreateHandler(r)
  PROVE  LedgerInv'
PROOF
<1> USE DEF db, authority, local, world
<1>1. ASSUME NEW w \in Workers, NEW e \in Execs, Reserve(r, w, e)
      PROVE  LedgerInv'
  <2>1. RowMoves(e)
    <3>1. CASE row[e].st = "absent"
      <4>1. row'[e] = [NoRow EXCEPT !.st = "published"]
        BY <1>1, <3>1 DEF Reserve, TypeOK
      <4>2. row[e].fence = None
        BY <3>1 DEF LedgerInv, AbsentInv
      <4>3. QED
        BY <4>1, <4>2 DEF RowMoves, NoRow, Terminal
    <3>2. CASE row[e].st # "absent"
      BY <1>1, <3>2, SameRow DEF Reserve
    <3>3. QED
      BY <3>1, <3>2
  <2>2. \A x \in Execs \ {e} : row'[x] = row[x]
    BY <1>1 DEF Reserve, TypeOK
  <2>3. \A x \in Execs : RowMoves(x)
    BY <2>1, <2>2, SameRow
  <2>4. QED
    BY <1>1, <2>3, SameTasks, OnlyRows DEF Reserve
<1>2. ASSUME NEW w \in Workers, NEW e \in Execs, RefuseCreate(r, w, e)
      PROVE  LedgerInv'
  BY <1>2, SameTasks, OnlyTasks DEF RefuseCreate
<1>3. CASE PublishCreated(r) \/ PublishFails(r)
  <2>1. req[r].e \in Execs
    BY <1>3 DEF PublishCreated, PublishFails, Bound, ReqBound
  <2>2. PublishedId \in 1..4 /\ "published" \in Statuses
    BY DEF PublishedId, Statuses
  <2>3. \A x \in Execs : RowMoves(x)
    <3>1. CASE row' = row
      BY <3>1, SameRow
    <3>2. CASE row' = [row EXCEPT ![req[r].e] = AppendEvent(@, PublishedId, "published", None)]
      BY <2>1, <2>2, <3>2, EventRow
    <3>3. QED
      BY <1>3, <3>1, <3>2, CreateAppends
  <2>4. QED
    BY <1>3, <2>3, SameTasks, OnlyRows DEF PublishCreated, PublishFails
<1>4. ASSUME NEW t \in Tasks, SpawnCreated(r, t)
      PROVE  LedgerInv'
  BY <1>4, SpawnMoves, OnlyTasks DEF SpawnCreated
<1>5. QED
  BY <1>1, <1>2, <1>3, <1>4 DEF CreateHandler

\* A granted claim: a write is claimed once, before anything happened.
LEMMA DispatchKeeps ==
  ASSUME TypeOK, Bound, LedgerInv, NEW t \in Tasks, Dispatch(t)
  PROVE  LedgerInv'
PROOF
<1> DEFINE e == task[t].e
<1>1. /\ e \in Execs /\ task[t].pc = "claiming" /\ row[e].st \notin Terminal
      /\ FirstDispatch(e) \/ ReadReclaim(e)
  BY DEF Dispatch, Step, DispatchGranted, ExecOf, Bound, TaskBound
<1>2. wire[t] = None /\ \A x \in Execs : row[x].fence # t
  BY <1>1 DEF LedgerInv, UnclaimedInv, Unclaimed
<1>3. /\ row'[e] = Claimed(row[e], t) /\ row'[e].fence = t
      /\ \A x \in Execs \ {e} : row'[x] = row[x]
  BY <1>1, ClaimedRow DEF Dispatch, ExecOf, TypeOK
<1>4. /\ row'[e].st \notin Terminal /\ row'[e].st # "absent"
  BY <1>1, <1>3, NoneIsFresh DEF Claimed, Terminal, LedgerInv, AbsentInv, ReadReclaim,
                                 FirstDispatch
<1>5. /\ task'[t].pc = "adopting" /\ task'[t].e = e
      /\ \A u \in Tasks \ {t} : task'[u] = task[u]
  BY DEF Dispatch, Step, TypeOK, TaskType
<1>6. UNCHANGED <<wire, effects>>
  BY DEF Dispatch, world
<1>7. ASSUME e \in Writes
      PROVE  row[e].fence = None /\ effects[e] = 0 /\ appr' = [appr EXCEPT ![e] = "consumed"]
  <2>1. row[e].fence = None /\ appr[e] = "approved" /\ effects[e] = 0
    BY <1>1, <1>7, ExecutionKinds DEF FirstDispatch, ReadReclaim, LedgerInv, FenceInv
  <2>2. appr' = [appr EXCEPT ![e] = Consumed(appr[e])]
    BY <1>7 DEF Dispatch, ExecOf
  <2>3. QED
    BY <2>1, <2>2 DEF Consumed
<1>8. ASSUME e \notin Writes
      PROVE  appr' = appr
  BY <1>8 DEF Dispatch, ExecOf
<1>9. FenceInv'
  <2>1. ASSUME NEW x \in Writes
        PROVE  /\ appr'[x] = "consumed" <=> row'[x].fence # None
               /\ effects'[x] \in {0, 1}
               /\ effects'[x] # 0 => row'[x].fence # None
    <3>1. CASE x = e
      BY <1>3, <1>6, <1>7, <3>1, NoneIsFresh DEF TypeOK
    <3>2. CASE x # e
      <4>1. row'[x] = row[x] /\ appr'[x] = appr[x]
        BY <1>3, <1>7, <1>8, <3>2 DEF TypeOK, Execs
      <4>2. QED
        BY <1>6, <4>1 DEF LedgerInv, FenceInv
    <3>3. QED
      BY <3>1, <3>2
  <2>2. QED
    BY <2>1 DEF FenceInv
<1>10. ASSUME NEW x \in Writes, row[x].fence # None
       PROVE  row'[x] = row[x]
  BY <1>3, <1>7, <1>10 DEF Execs
<1>11. WireInv'
  <2>1. ASSUME NEW u \in Tasks, wire'[u] # None
        PROVE  row'[wire'[u]].fence = u /\ effects'[wire'[u]] = 0
    <3>1. wire[u] \in Writes /\ row[wire[u]].fence = u /\ effects[wire[u]] = 0
      BY <1>6, <2>1 DEF LedgerInv, WireInv, TypeOK
    <3>2. row'[wire[u]] = row[wire[u]]
      BY <1>10, <3>1, NoneIsFresh
    <3>3. QED
      BY <1>6, <3>1, <3>2
  <2>2. QED
    BY <2>1 DEF WireInv
<1>12. UnclaimedInv'
  <2>1. ASSUME NEW u \in Tasks, task'[u].pc \in Unclaimed
        PROVE  wire'[u] = None /\ \A x \in Execs : row'[x].fence # u
    <3>1. u # t /\ task[u].pc \in Unclaimed
      BY <1>5, <2>1 DEF Unclaimed
    <3>2. QED
      BY <1>3, <1>6, <3>1 DEF LedgerInv, UnclaimedInv
  <2>2. QED
    BY <2>1 DEF UnclaimedInv
<1>13. ClaimedInv'
  <2>1. ASSUME NEW u \in Tasks, task'[u].pc \in UnderClaim, task'[u].e \in Writes
        PROVE  /\ row'[task'[u].e].fence = u
               /\ task'[u].pc # "adopting" => task'[u].fence = u
               /\ task'[u].pc \in {"adopting", "announcing", "starting"} =>
                    wire'[u] = None /\ effects'[task'[u].e] = 0
    <3>1. CASE u = t
      BY <1>2, <1>3, <1>5, <1>6, <1>7, <2>1, <3>1
    <3>2. CASE u # t
      <4>1. task'[u] = task[u]
        BY <1>5, <3>2
      <4>2. row[task[u].e].fence = u
        BY <2>1, <4>1 DEF LedgerInv, ClaimedInv
      <4>3. row'[task[u].e] = row[task[u].e]
        BY <1>10, <2>1, <4>1, <4>2, NoneIsFresh
      <4>4. QED
        BY <1>6, <2>1, <4>1, <4>2, <4>3 DEF LedgerInv, ClaimedInv
    <3>3. QED
      BY <3>1, <3>2
  <2>2. QED
    BY <2>1 DEF ClaimedInv
<1>14. CancelledInv'
  <2>1. \A x \in Writes : row'[x].st = "cancelled" => row'[x].fence = None
    BY <1>3, <1>4 DEF LedgerInv, CancelledInv, Execs, Terminal
  <2>2. \A u \in Tasks : task'[u].pc = "finishing" /\ task'[u].e \in Writes =>
          task'[u].out # "cancelled"
    BY <1>5 DEF LedgerInv, CancelledInv
  <2>3. QED
    BY <2>1, <2>2 DEF CancelledInv
<1>15. LeaseInv' /\ AbsentInv'
  BY <1>3, <1>4 DEF LedgerInv, LeaseInv, AbsentInv
<1>16. QED
  BY <1>9, <1>11, <1>12, <1>13, <1>14, <1>15 DEF LedgerInv

\* A landing effect is the first one of its write.
LEMMA EffectKeeps ==
  ASSUME TypeOK, LedgerInv, NEW t \in Tasks, EffectLands(t)
  PROVE  LedgerInv'
PROOF
<1> DEFINE e == wire[t]
<1>1. e \in Writes /\ row[e].fence = t /\ effects[e] = 0
  BY DEF EffectLands, TypeOK, LedgerInv, WireInv
<1>2. /\ wire' = [wire EXCEPT ![t] = None] /\ effects' = [effects EXCEPT ![e] = @ + 1]
      /\ UNCHANGED <<appr, task>>
  BY DEF EffectLands, local
<1>3. \A x \in Execs : /\ row'[x].fence = row[x].fence /\ row'[x].st = row[x].st
                       /\ row'[x].lease = row[x].lease
  <2>1. CASE e \in QuizWrites
    BY <1>1, <2>1 DEF EffectLands, TypeOK, RowType
  <2>2. CASE e \notin QuizWrites
    BY <2>2 DEF EffectLands
  <2>3. QED
    BY <2>1, <2>2
<1>4. effects'[e] = 1 /\ \A x \in Writes \ {e} : effects'[x] = effects[x]
  BY <1>1, <1>2 DEF TypeOK
<1>5. wire'[t] = None /\ \A u \in Tasks \ {t} : wire'[u] = wire[u]
  BY <1>2 DEF TypeOK
<1>6. FenceInv'
  <2>1. ASSUME NEW x \in Writes
        PROVE  /\ appr'[x] = "consumed" <=> row'[x].fence # None
               /\ effects'[x] \in {0, 1}
               /\ effects'[x] # 0 => row'[x].fence # None
    BY <1>1, <1>2, <1>3, <1>4, NoneIsFresh DEF LedgerInv, FenceInv, Execs
  <2>2. QED
    BY <2>1 DEF FenceInv
<1>7. WireInv'
  <2>1. ASSUME NEW u \in Tasks, wire'[u] # None
        PROVE  row'[wire'[u]].fence = u /\ effects'[wire'[u]] = 0
    <3>1. u # t /\ wire'[u] = wire[u]
      BY <1>5, <2>1
    <3>2. wire[u] \in Writes /\ row[wire[u]].fence = u /\ effects[wire[u]] = 0
      BY <2>1, <3>1 DEF LedgerInv, WireInv, TypeOK
    <3>3. QED
      BY <1>1, <1>3, <1>4, <3>1, <3>2 DEF Execs
  <2>2. QED
    BY <2>1 DEF WireInv
<1>8. UnclaimedInv'
  BY <1>2, <1>3, <1>5 DEF LedgerInv, UnclaimedInv
<1>9. ClaimedInv'
  <2>1. ASSUME NEW u \in Tasks, task[u].pc \in UnderClaim, task[u].e \in Writes
        PROVE  /\ row'[task[u].e].fence = u
               /\ task[u].pc # "adopting" => task[u].fence = u
               /\ task[u].pc \in {"adopting", "announcing", "starting"} =>
                    wire'[u] = None /\ effects'[task[u].e] = 0
    <3>1. row[task[u].e].fence = u
      BY <2>1 DEF LedgerInv, ClaimedInv
    <3>2. row'[task[u].e].fence = u
      BY <1>3, <2>1, <3>1 DEF Execs
    <3>3. ASSUME task[u].pc \in {"adopting", "announcing", "starting"}
          PROVE  wire'[u] = None /\ effects'[task[u].e] = 0
      <4>1. wire[u] = None /\ effects[task[u].e] = 0
        BY <2>1, <3>3 DEF LedgerInv, ClaimedInv
      <4>2. u # t
        BY <4>1, <1>1, NoneIsFresh DEF Execs
      <4>3. QED
        BY <1>1, <1>4, <1>5, <2>1, <3>1, <4>1, <4>2
    <3>4. QED
      BY <2>1, <3>2, <3>3 DEF LedgerInv, ClaimedInv
  <2>2. QED
    BY <1>2, <2>1 DEF ClaimedInv
<1>10. CancelledInv' /\ LeaseInv' /\ AbsentInv'
  BY <1>2, <1>3 DEF LedgerInv, CancelledInv, LeaseInv, AbsentInv, Execs
<1>11. QED
  BY <1>6, <1>7, <1>8, <1>9, <1>10 DEF LedgerInv

\* A task's announcements keep the ledger invariant; the second one puts a
\* write on the wire, for the first time.
LEMMA AnnounceKeeps ==
  ASSUME TypeOK, Bound, LedgerInv, NEW t \in Tasks, NEW id \in 1..4,
         NEW st \in Statuses \ {"cancelled"}, NEW from, NEW to,
         \/ from = "announcing" /\ to = "starting"
         \/ from = "starting" /\ to = "operating",
         Announce(t, from, to, id, st)
  PROVE  LedgerInv'
PROOF
<1> DEFINE e == task[t].e
<1>1. e \in Execs /\ task[t].pc \in {"announcing", "starting"}
  BY DEF Announce, Bound, TaskBound
<1>2. \A x \in Execs : RowMoves(x)
  BY <1>1, EventRow DEF Announce, ExecOf
<1>3. UNCHANGED <<appr, effects>>
  BY DEF Announce
<1>4. ASSUME e \in Writes
      PROVE  task[t].fence = t /\ row[e].fence = t /\ wire[t] = None /\ effects[e] = 0
  BY <1>1, <1>4 DEF LedgerInv, ClaimedInv, UnderClaim
<1>5. CASE AppendAccepted(row[e], id, st, task[t].fence)
  <2>1. Step(t, from, to)
    BY <1>5 DEF Announce, ExecOf
  <2>2. /\ task'[t].pc = to /\ task'[t].e = e /\ task'[t].fence = task[t].fence
        /\ \A u \in Tasks \ {t} : task'[u] = task[u]
    BY <2>1 DEF Step, TypeOK, TaskType
  <2>3. TaskMoves(t)
    BY <1>1, <1>4, <2>2 DEF TaskMoves, UnderClaim
  <2>4. \A u \in Tasks : TaskMoves(u)
    BY <2>2, <2>3, OneTask
  <2>5. \A u \in Tasks : WireMoves(u)
    <3>1. CASE to = "operating" /\ e \in Writes
      <4>1. wire' = [wire EXCEPT ![t] = e]
        BY <1>5, <3>1 DEF Announce, ExecOf
      <4>2. WireMoves(t)
        BY <1>4, <2>2, <3>1, <4>1 DEF WireMoves, TypeOK
      <4>3. QED
        BY <4>1, <4>2 DEF WireMoves, TypeOK
    <3>2. CASE ~(to = "operating" /\ e \in Writes)
      BY <3>2 DEF Announce, ExecOf, WireMoves
    <3>3. QED
      BY <3>1, <3>2
  <2>6. QED
    BY <1>2, <1>3, <2>4, <2>5, QuietStep DEF Quiet
<1>6. CASE ~AppendAccepted(row[e], id, st, task[t].fence)
  <2>1. Retire(t) /\ wire' = wire
    BY <1>6 DEF Announce, ExecOf
  <2>2. QED
    BY <1>2, <1>3, <2>1, RetireMoves, OnlyRows
<1>7. QED
  BY <1>5, <1>6

\* The end of an operation: a write never ends as cancelled.
LEMMA FinishKeeps ==
  ASSUME TypeOK, Bound, LedgerInv, NEW t \in Tasks, NEW out, Finish(t, out),
         task[t].e \in Writes => out # "cancelled",
         wire' = wire \/ wire' = [wire EXCEPT ![t] = None]
  PROVE  LedgerInv'
PROOF
<1>1. /\ task[t].pc = "operating" /\ UNCHANGED <<row, appr, effects>>
      /\ task' = [task EXCEPT ![t] = [@ EXCEPT !.pc = "finishing", !.out = out]]
  BY DEF Finish, db
<1>2. /\ task'[t].pc = "finishing" /\ task'[t].out = out /\ task'[t].e = task[t].e
      /\ task'[t].fence = task[t].fence /\ \A u \in Tasks \ {t} : task'[u] = task[u]
  BY <1>1 DEF TypeOK, TaskType
<1>3. TaskMoves(t)
  BY <1>1, <1>2 DEF TaskMoves, UnderClaim, LedgerInv, ClaimedInv
<1>4. \A u \in Tasks : TaskMoves(u)
  BY <1>2, <1>3, OneTask
<1>5. \A u \in Tasks : WireMoves(u)
  BY DEF WireMoves, TypeOK
<1>6. \A x \in Execs : RowMoves(x)
  BY <1>1, SameRows
<1>7. QED
  BY <1>1, <1>4, <1>5, <1>6, QuietStep DEF Quiet

\* Every step of run_execution keeps the ledger invariant.
LEMMA TaskStepKeeps ==
  ASSUME TypeOK, Bound, LedgerInv, NEW t \in Tasks, TaskStep(t)
  PROVE  LedgerInv'
PROOF
<1> USE DEF db, authority, world
<1>1. CASE Register(t)
  <2>1. /\ task[t].pc = "spawned" /\ task'[t].pc = "waiting"
        /\ \A u \in Tasks \ {t} : task'[u] = task[u]
    BY <1>1 DEF Register, TypeOK, TaskType
  <2>2. TaskMoves(t)
    BY <2>1 DEF TaskMoves, Unclaimed, LedgerInv, UnclaimedInv
  <2>3. QED
    BY <1>1, <2>1, <2>2, OneTask, OnlyTasks DEF Register
<1>2. CASE CancelWaiting(t) \/ DispatchDenied(t)
  BY <1>2, RetireMoves, OnlyTasks DEF CancelWaiting, DispatchDenied
<1>3. CASE AcquireSlot(t)
  <2>1. CASE row[ExecOf(t)].st \in Terminal
    BY <1>3, <2>1, RetireMoves, OnlyTasks DEF AcquireSlot
  <2>2. CASE row[ExecOf(t)].st \notin Terminal
    <3>1. /\ task[t].pc = "waiting" /\ task'[t].pc = "claiming"
          /\ \A u \in Tasks \ {t} : task'[u] = task[u]
      BY <1>3, <2>2 DEF AcquireSlot, Step, TypeOK, TaskType
    <3>2. TaskMoves(t)
      BY <3>1 DEF TaskMoves, Unclaimed, LedgerInv, UnclaimedInv
    <3>3. QED
      BY <1>3, <3>1, <3>2, OneTask, OnlyTasks DEF AcquireSlot
  <2>3. QED
    BY <2>1, <2>2
<1>4. CASE Dispatch(t)
  BY <1>4, DispatchKeeps
<1>5. CASE Adopt(t)
  <2>1. /\ task[t].pc = "adopting" /\ task'[t].pc = "announcing"
        /\ task'[t].e = task[t].e /\ task'[t].fence = row[task[t].e].fence
        /\ \A u \in Tasks \ {t} : task'[u] = task[u]
    BY <1>5 DEF Adopt, ExecOf, TypeOK, TaskType
  <2>2. TaskMoves(t)
    BY <2>1 DEF TaskMoves, UnderClaim, LedgerInv, ClaimedInv
  <2>3. QED
    BY <1>5, <2>1, <2>2, OneTask, OnlyTasks DEF Adopt
<1>6. CASE AnnounceDispatched(t)
  <2>1. DispatchedId \in 1..4 /\ "dispatched" \in Statuses \ {"cancelled"}
    BY DEF DispatchedId, Statuses, InFlight
  <2>2. QED
    BY <1>6, <2>1, AnnounceKeeps DEF AnnounceDispatched
<1>7. CASE AnnounceRunning(t)
  <2>1. RunningId \in 1..4 /\ "running" \in Statuses \ {"cancelled"}
    BY DEF RunningId, Statuses, InFlight
  <2>2. QED
    BY <1>7, <2>1, AnnounceKeeps DEF AnnounceRunning
<1>8. CASE OperationSucceeds(t) \/ OperationFails(t) \/ OperationUnknown(t)
  BY <1>8, FinishKeeps DEF OperationSucceeds, OperationFails, OperationUnknown
<1>9. ASSUME NEW st, Interrupted(t, st)
      PROVE  LedgerInv'
  <2>1. task[t].e \in Writes => task[t].e \notin Reads
    BY ExecutionKinds
  <2>2. QED
    BY <1>9, <2>1, FinishKeeps DEF Interrupted, ExecOf
<1>10. CASE OperationCancelled(t) \/ OperationLeaseLost(t) \/ OperationTimesOut(t)
  BY <1>9, <1>10 DEF OperationCancelled, OperationLeaseLost, OperationTimesOut
<1>11. CASE AppendTerminal(t)
  <2>1. task[t].e \in Execs /\ task[t].out \in Statuses /\ TerminalId \in 1..4
    BY <1>11 DEF AppendTerminal, Bound, TaskBound, Statuses, TerminalId
  <2>2. task[t].e \in Writes => task[t].out # "cancelled"
    BY <1>11 DEF AppendTerminal, LedgerInv, CancelledInv
  <2>3. \A x \in Execs : RowMoves(x)
    BY <1>11, <2>1, <2>2, EventRow DEF AppendTerminal, ExecOf
  <2>4. QED
    BY <1>11, <2>3, RetireMoves, OnlyRows DEF AppendTerminal
<1>12. QED
  BY <1>1, <1>2, <1>3, <1>4, <1>5, <1>6, <1>7, <1>8, <1>10, <1>11 DEF TaskStep

\* Heartbeats, store failures and landing effects keep it.
LEMMA WorkKeeps ==
  ASSUME TypeOK, Bound, LedgerInv, NEW t \in Tasks,
         Heartbeat(t) \/ StoreFails(t) \/ EffectLands(t)
  PROVE  LedgerInv'
PROOF
<1> USE DEF db, authority, local, world
<1>1. CASE Renew(t)
  <2>1. task[t].e \in Execs /\ row[task[t].e].st \in InFlight
    BY <1>1 DEF Renew, Renewable, Heartbeating, ExecOf, Bound, TaskBound
  <2>2. /\ row'[task[t].e].fence = row[task[t].e].fence
        /\ row'[task[t].e].st = row[task[t].e].st
        /\ \A x \in Execs \ {task[t].e} : row'[x] = row[x]
    BY <1>1, <2>1 DEF Renew, ExecOf, TypeOK, RowType
  <2>3. RowMoves(task[t].e)
    BY <2>1, <2>2 DEF RowMoves, InFlight, Terminal
  <2>4. \A x \in Execs : RowMoves(x)
    BY <2>2, <2>3, SameRow
  <2>5. QED
    BY <1>1, <2>4, SameTasks, OnlyRows DEF Renew
<1>2. CASE RenewLost(t)
  <2>1. \A u \in Tasks : /\ task'[u].pc = task[u].pc /\ task'[u].e = task[u].e
                         /\ task'[u].fence = task[u].fence
                         /\ task'[u].out = task[u].out
    BY <1>2 DEF RenewLost, TypeOK, TaskType
  <2>2. QED
    BY <1>2, <2>1, SameTask, OnlyTasks DEF RenewLost
<1>3. CASE StoreFails(t)
  BY <1>3, RetireMoves, OnlyTasks DEF StoreFails
<1>4. QED
  BY <1>1, <1>2, <1>3, EffectKeeps DEF Heartbeat

\* So do the recovery loop and a crash.
LEMMA RecoveryKeeps ==
  ASSUME TypeOK, Bound, LedgerInv, NEW w \in Workers, RecoveryLoop(w) \/ Crash(w)
  PROVE  LedgerInv'
PROOF
<1> USE DEF db, authority, world
<1>1. CASE (\E e \in Execs : Scan(w, e)) \/ SkipRegistered(w)
  BY <1>1, SameTasks, OnlyTasks DEF Scan, SkipRegistered
<1>2. CASE Reconcile(w)
  <2>1. scan[w].e \in Execs
    BY <1>2 DEF Reconcile, TypeOK, ScanType
  <2>2. /\ RecoveredStatus(scan[w]) \in Statuses /\ TerminalId \in 1..4
        /\ RecoveredStatus(scan[w]) # "cancelled"
    BY DEF RecoveredStatus, Statuses, Terminal, TerminalId
  <2>3. \A x \in Execs : RowMoves(x)
    BY <1>2, <2>1, <2>2, EventRow DEF Reconcile
  <2>4. QED
    BY <1>2, <2>3, SameTasks, OnlyRows DEF Reconcile
<1>3. CASE \E t \in Tasks : Respawn(w, t)
  BY <1>3, SpawnMoves, OnlyTasks DEF Respawn
<1>4. CASE Crash(w)
  <2>1. \A t \in Tasks : task'[t] = task[t] \/ task'[t].pc = "idle"
    BY <1>4 DEF Crash, IdleTask, TypeOK
  <2>2. \A t \in Tasks : TaskMoves(t)
    BY <2>1, SameTask DEF TaskMoves
  <2>3. QED
    BY <1>4, <2>2, OnlyTasks DEF Crash
<1>5. QED
  BY <1>1, <1>2, <1>3, <1>4 DEF RecoveryLoop

\* A cancel reports a dispatched write as unknown, so it keeps it too.
LEMMA CancelKeeps ==
  ASSUME TypeOK, LedgerInv, NEW w \in Workers, NEW e \in Execs, CancelExecution(w, e)
  PROVE  LedgerInv'
PROOF
<1> DEFINE new == Appended(row[e], {}, CancelStatus(e))
<1>1. CancelStatus(e) \in Terminal /\ CancelStatus(e) \in Statuses /\ {} \in SUBSET (1..4)
  BY DEF CancelStatus, Statuses, Terminal
<1>2. row[e] \in RowType
  BY DEF TypeOK
<1>3. new.fence = row[e].fence /\ new.st = CancelStatus(e) /\ ~new.lease
  BY <1>1, <1>2, AppendedRow
<1>4. RowMoves(e)
  <2>1. CASE row[e].st \in Terminal
    BY <2>1, SameRow DEF CancelExecution
  <2>2. CASE row[e].st \notin Terminal
    <3>1. row'[e] = new
      BY <2>2 DEF CancelExecution, TypeOK
    <3>2. e \in Writes /\ CancelStatus(e) = "cancelled" => row[e].fence = None
      BY DEF CancelStatus
    <3>3. QED
      BY <1>1, <1>3, <3>1, <3>2 DEF RowMoves, Terminal
  <2>3. QED
    BY <2>1, <2>2
<1>5. \A x \in Execs \ {e} : row'[x] = row[x]
  BY DEF CancelExecution, TypeOK
<1>6. \A x \in Execs : RowMoves(x)
  BY <1>4, <1>5, SameRow
<1>7. QED
  BY <1>6, SameTasks, OnlyRows DEF CancelExecution, world

\* The Runtime, the user and the clock keep it.
LEMMA EnvironmentKeeps ==
  ASSUME TypeOK, LedgerInv, Environment
  PROVE  LedgerInv'
PROOF
<1> USE DEF db, authority, local, world
<1>1. CASE AuthorityEnds \/ OwnerLeaseExpires \/ OwnerTakesOver
  BY <1>1, SameTasks, OnlyTasks DEF AuthorityEnds, OwnerLeaseExpires, OwnerTakesOver
<1>2. ASSUME UNCHANGED <<row, task, wire, effects>>,
             \A e \in Writes : appr'[e] = "consumed" <=> appr[e] = "consumed"
      PROVE  LedgerInv'
  <2>1. /\ \A t \in Tasks : TaskMoves(t) /\ WireMoves(t)
        /\ \A e \in Execs : RowMoves(e)
    BY <1>2, SameTasks, SameRows DEF WireMoves
  <2>2. QED
    BY <1>2, <2>1, QuietStep DEF Quiet
<1>3. CASE CancelRun
  BY <1>2, <1>3 DEF CancelRun, TypeOK
<1>4. ASSUME NEW e \in Execs, Approve(e) \/ ApprovalLapses(e)
      PROVE  LedgerInv'
  BY <1>2, <1>4 DEF Approve, ApprovalLapses, TypeOK
<1>5. ASSUME NEW e \in Execs, WorkerLeaseExpires(e)
      PROVE  LedgerInv'
  <2>1. /\ row'[e].fence = row[e].fence /\ row'[e].st = row[e].st /\ ~row'[e].lease
        /\ \A x \in Execs \ {e} : row'[x] = row[x]
    BY <1>5 DEF WorkerLeaseExpires, TypeOK, RowType
  <2>2. \A x \in Execs : RowMoves(x)
    BY <2>1, SameRow DEF RowMoves
  <2>3. QED
    BY <1>5, <2>2, SameTasks, OnlyRows DEF WorkerLeaseExpires
<1>6. QED
  BY <1>1, <1>3, <1>4, <1>5 DEF Environment

\* The invariant is inductive.
LEMMA Invariance == Spec => []IInv
PROOF
<1>1. Init => IInv
  <2>1. Init => LedgerInv
    BY DEF Init, LedgerInv, FenceInv, WireInv, UnclaimedInv, ClaimedInv, CancelledInv,
           LeaseInv, AbsentInv, NoRow, IdleTask, Unclaimed, UnderClaim, Execs, Terminal
  <2>2. QED
    BY <2>1, TypeInit DEF IInv
<1>2. IInv /\ [Next]_vars => IInv'
  <2> SUFFICES ASSUME TypeOK, Bound, LedgerInv, [Next]_vars
               PROVE  LedgerInv'
    BY TypeStep DEF IInv
  <2>1. CASE Next
    BY <2>1, CreateKeeps, TaskStepKeeps, WorkKeeps, RecoveryKeeps, CancelKeeps,
       EnvironmentKeeps DEF Next
  <2>2. CASE UNCHANGED vars
    BY <2>2, SameTasks, OnlyTasks DEF vars
  <2>3. QED
    BY <2>1, <2>2
<1>3. QED
  BY <1>1, <1>2, PTL DEF Spec

-----------------------------------------------------------------------------
(* The theorems.                                                           *)

\* However many workers, tasks and crashes there are, a write takes effect at
\* most once: a dispatched write is never dispatched again.
THEOREM WriteOnce == Spec => []WriteAtMostOnce
PROOF
<1>1. IInv => WriteAtMostOnce
  BY DEF IInv, LedgerInv, FenceInv, WriteAtMostOnce
<1>2. QED
  BY <1>1, Invariance, PTL

\* A write takes effect only under its consumed one-time approval, and the
\* approval is consumed exactly when the row gets its fence.
THEOREM ApprovalFirst == Spec => []EffectNeedsApproval
PROOF
<1>1. IInv => EffectNeedsApproval
  BY DEF IInv, LedgerInv, FenceInv, EffectNeedsApproval
<1>2. QED
  BY <1>1, Invariance, PTL

\* A write reported cancelled did not happen and will not.
THEOREM CancelIsHonest == Spec => []CancelledWriteHasNoEffect
PROOF
<1>1. IInv => CancelledWriteHasNoEffect
  <2> SUFFICES ASSUME IInv, NEW e \in Writes, row[e].st = "cancelled"
               PROVE  effects[e] = 0 /\ \A t \in Tasks : wire[t] # e
    BY DEF CancelledWriteHasNoEffect
  <2>1. row[e].fence = None
    BY DEF IInv, LedgerInv, CancelledInv
  <2>2. effects[e] = 0
    BY <2>1 DEF IInv, LedgerInv, FenceInv
  <2>3. \A t \in Tasks : wire[t] # e
    BY <2>1, NoneIsFresh DEF IInv, LedgerInv, WireInv, Execs
  <2>4. QED
    BY <2>2, <2>3
<1>2. QED
  BY <1>1, Invariance, PTL

\* Two tasks never work on the same write.
THEOREM OneTaskPerWrite == Spec => []WriteRunsUnderOneTask
PROOF
<1>1. IInv => WriteRunsUnderOneTask
  BY DEF IInv, LedgerInv, ClaimedInv, UnderClaim, WriteRunsUnderOneTask, ExecOf
<1>2. QED
  BY <1>1, Invariance, PTL

\* The row of a finished execution never changes again: every writer checks
\* the status under the row's lock, and the lease is gone with the status.
THEOREM FinishedRowsStay == Spec => TerminalIsFinal
PROOF
<1> DEFINE Final == \A e \in Execs : row[e].st \in Terminal => row'[e] = row[e]
<1>1. ASSUME IInv, [Next]_vars
      PROVE  Final
  <2> USE DEF db, authority, local, world
  <2>0. row \in [Execs -> RowType]
    BY <1>1 DEF IInv, TypeOK
  <2>1. ASSUME NEW e, NEW id \in 1..4, NEW st \in Statuses, NEW f, e \in Execs,
               row' = [row EXCEPT ![e] = AppendEvent(@, id, st, f)]
        PROVE  Final
    BY <2>0, <2>1 DEF AppendEvent, AppendAllowed
  <2>2. ASSUME NEW r \in Reqs, CreateHandler(r)
        PROVE  Final
    <3>1. ASSUME NEW w \in Workers, NEW e \in Execs, Reserve(r, w, e)
          PROVE  Final
      BY <2>0, <3>1 DEF Reserve, Terminal
    <3>2. CASE PublishCreated(r) \/ PublishFails(r)
      <4>1. req[r].e \in Execs /\ PublishedId \in 1..4 /\ "published" \in Statuses
        BY <1>1, <3>2 DEF PublishCreated, PublishFails, IInv, Bound, ReqBound, PublishedId,
                          Statuses
      <4>2. CASE row' = row
        BY <2>0, <4>2
      <4>3. CASE row' = [row EXCEPT ![req[r].e] = AppendEvent(@, PublishedId, "published", None)]
        BY <2>1, <4>1, <4>3
      <4>4. QED
        BY <3>2, <4>2, <4>3, CreateAppends
    <3>3. QED
      BY <2>2, <3>1, <3>2 DEF CreateHandler, RefuseCreate, SpawnCreated
  <2>3. ASSUME NEW t \in Tasks, TaskStep(t)
        PROVE  Final
    <3>1. CASE Dispatch(t)
      BY <2>0, <3>1 DEF Dispatch, DispatchGranted
    <3>2. CASE AnnounceDispatched(t)
      <4>1. task[t].e \in Execs /\ DispatchedId \in 1..4 /\ "dispatched" \in Statuses
        BY <1>1, <3>2 DEF AnnounceDispatched, Announce, IInv, Bound, TaskBound,
                          DispatchedId, Statuses, InFlight
      <4>2. QED
        BY <2>1, <3>2, <4>1 DEF AnnounceDispatched, Announce, ExecOf
    <3>3. CASE AnnounceRunning(t)
      <4>1. task[t].e \in Execs /\ RunningId \in 1..4 /\ "running" \in Statuses
        BY <1>1, <3>3 DEF AnnounceRunning, Announce, IInv, Bound, TaskBound,
                          RunningId, Statuses, InFlight
      <4>2. QED
        BY <2>1, <3>3, <4>1 DEF AnnounceRunning, Announce, ExecOf
    <3>4. CASE AppendTerminal(t)
      <4>1. task[t].e \in Execs /\ TerminalId \in 1..4 /\ task[t].out \in Statuses
        BY <1>1, <3>4 DEF AppendTerminal, IInv, Bound, TaskBound, TerminalId, Statuses
      <4>2. QED
        BY <2>1, <3>4, <4>1 DEF AppendTerminal, ExecOf
    <3>5. QED
      BY <2>3, <3>1, <3>2, <3>3, <3>4
      DEF TaskStep, Register, CancelWaiting, AcquireSlot, DispatchDenied, Adopt, Finish,
          OperationSucceeds, OperationFails, OperationUnknown, Interrupted,
          OperationCancelled, OperationLeaseLost, OperationTimesOut
  <2>4. ASSUME NEW t \in Tasks, Heartbeat(t) \/ StoreFails(t) \/ EffectLands(t)
        PROVE  Final
    <3>1. CASE Renew(t)
      BY <2>0, <3>1 DEF Renew, Renewable, InFlight, Terminal
    <3>2. CASE EffectLands(t)
      BY <2>0, <3>2 DEF EffectLands
    <3>3. QED
      BY <2>4, <3>1, <3>2 DEF Heartbeat, RenewLost, StoreFails
  <2>5. ASSUME NEW w \in Workers, RecoveryLoop(w) \/ Crash(w)
        PROVE  Final
    <3>1. CASE Reconcile(w)
      <4>1. /\ scan[w].e \in Execs /\ TerminalId \in 1..4
            /\ RecoveredStatus(scan[w]) \in Statuses
        BY <1>1, <3>1 DEF Reconcile, IInv, TypeOK, ScanType, TerminalId, RecoveredStatus,
                          Statuses, Terminal
      <4>2. QED
        BY <2>1, <3>1, <4>1 DEF Reconcile
    <3>2. QED
      BY <2>5, <3>1 DEF RecoveryLoop, Scan, Respawn, SkipRegistered, Crash
  <2>6. ASSUME NEW w \in Workers, NEW e \in Execs, CancelExecution(w, e)
        PROVE  Final
    BY <2>0, <2>6 DEF CancelExecution
  <2>7. CASE Environment
    <3>1. ASSUME NEW e \in Execs, WorkerLeaseExpires(e)
          PROVE  Final
      BY <1>1, <2>0, <3>1 DEF WorkerLeaseExpires, IInv, LedgerInv, LeaseInv
    <3>2. QED
      BY <2>7, <3>1 DEF Environment, Approve, ApprovalLapses, AuthorityEnds, CancelRun,
                        OwnerLeaseExpires, OwnerTakesOver
  <2>8. QED
    BY <1>1, <2>2, <2>3, <2>4, <2>5, <2>6, <2>7 DEF Next, vars
<1>2. Spec => [][Final]_vars
  BY <1>1, Invariance, PTL DEF Spec
<1>3. QED
  BY <1>2 DEF TerminalIsFinal
-----------------------------------------------------------------------------
(* The event log and the truth of a success.                               *)

\* The place of an event in an execution's life.
Rank(st) == CASE st = "published" -> 1 [] st = "dispatched" -> 2
              [] st = "running" -> 3 [] OTHER -> 4

\* A log is in order, ends with its only terminal event, which is the status,
\* and its row remembers the identities of what was announced.
LogOK(r) ==
  /\ \A i \in 1..Len(r.log) :
       /\ r.log[i] \in Terminal => i = Len(r.log) /\ r.st \in Terminal
       /\ r.log[i] = "dispatched" => DispatchedId \in r.ids
       /\ r.log[i] = "running" => RunningId \in r.ids
  /\ r.st \in Terminal => Len(r.log) > 0 /\ r.log[Len(r.log)] = r.st
  /\ \A i, j \in 1..Len(r.log) : i < j => Rank(r.log[i]) < Rank(r.log[j])
  /\ RunningId \in r.ids => DispatchedId \in r.ids
  /\ r.st = "absent" => r.ids = {}

\* A task announces its start after its dispatch.
LogInv ==
  /\ \A e \in Execs : LogOK(row[e])
  /\ \A t \in Tasks : task[t].pc = "starting" => DispatchedId \in row[task[t].e].ids

\* Whatever counts as a success has happened: a receipt, in the row or in a
\* copy of it, an operation that answered, and the status.  A request of an
\* operation that still runs is about the task's own execution.
TruthInv ==
  /\ \A e \in Writes : row[e].receipt \/ row[e].st = "succeeded" => effects[e] = 1
  /\ \A w \in Workers : scan[w].receipt /\ scan[w].e \in Writes => effects[scan[w].e] = 1
  /\ \A t \in Tasks : task[t].e \in Writes =>
       /\ task[t].pc = "operating" => wire[t] \in {None, task[t].e}
       /\ task[t].pc = "operating" /\ wire[t] = None => effects[task[t].e] = 1
       /\ task[t].pc = "finishing" /\ task[t].out = "succeeded" => effects[task[t].e] = 1

RecordInv == LogInv /\ TruthInv

\* Appending an event to a log that is in order.
LEMMA LogGrows ==
  ASSUME NEW r \in RowType, LogOK(r), NEW ids \in SUBSET (1..4), NEW st \in Statuses,
         r.st \notin Terminal,
         \A i \in 1..Len(r.log) : Rank(r.log[i]) < Rank(st),
         st = "dispatched" => DispatchedId \in ids,
         st = "running" => RunningId \in ids,
         RunningId \in ids => DispatchedId \in r.ids
  PROVE  LogOK(Appended(r, ids, st))
PROOF
<1> DEFINE new == Appended(r, ids, st)
<1>1. r.log \in Seq(Statuses) /\ r.ids \in SUBSET (1..4)
  BY DEF RowType
<1>2. PICK n \in Nat : n = Len(r.log)
  BY <1>1
<1>3. new.log = Append(r.log, st) /\ new.st = st /\ new.ids = r.ids \cup ids
  BY DEF Appended
<1> HIDE DEF new
<1>4. /\ Len(new.log) = n + 1 /\ new.log[n + 1] = st
      /\ \A i \in 1..n : new.log[i] = r.log[i]
  BY <1>1, <1>2, <1>3
<1>5. \A i \in 1..n : /\ r.log[i] \notin Terminal
                      /\ r.log[i] = "dispatched" => DispatchedId \in r.ids
                      /\ r.log[i] = "running" => RunningId \in r.ids
                      /\ Rank(r.log[i]) < Rank(st)
  BY <1>2 DEF LogOK
<1>6. ASSUME NEW i \in 1..(n + 1)
      PROVE  /\ new.log[i] \in Terminal => i = n + 1 /\ st \in Terminal
             /\ new.log[i] = "dispatched" => DispatchedId \in new.ids
             /\ new.log[i] = "running" => RunningId \in new.ids
  BY <1>3, <1>4, <1>5
<1>7. ASSUME NEW i \in 1..(n + 1), NEW j \in 1..(n + 1), i < j
      PROVE  Rank(new.log[i]) < Rank(new.log[j])
  <2>1. CASE j = n + 1
    BY <1>4, <1>5, <1>7, <2>1
  <2>2. CASE j \in 1..n
    BY <1>2, <1>4, <1>7, <2>2 DEF LogOK
  <2>3. QED
    BY <2>1, <2>2
<1>8. RunningId \in new.ids => DispatchedId \in new.ids
  BY <1>3 DEF LogOK
<1>9. st # "absent"
  BY DEF Statuses, InFlight, Terminal
<1>10. LogOK(new)
  BY <1>3, <1>4, <1>6, <1>7, <1>8, <1>9 DEF LogOK
<1>11. QED
  BY <1>10 DEF new

\* What may say that an execution succeeded.
Vouched(e) ==
  \/ \E t \in Tasks : task[t].pc = "finishing" /\ task[t].e = e /\ task[t].out = "succeeded"
  \/ \E w \in Workers : scan[w].e = e /\ scan[w].receipt

\* An event reaches an unfinished row.
Event(e, ids, st) == row[e].st \notin Terminal /\ row'[e] = Appended(row[e], ids, st)

\* What a step does to the log of an execution.
RowStep(e) ==
  \/ /\ row'[e].ids = row[e].ids /\ row'[e].log = row[e].log
     /\ row'[e].st = row[e].st \/ (row[e].st \notin Terminal /\ row'[e].st = "dispatched")
     /\ row'[e].receipt => row[e].receipt \/ \E t \in Tasks : EffectLands(t) /\ wire[t] = e
  \/ row[e].st = "absent" /\ row'[e] = [NoRow EXCEPT !.st = "published"]
  \/ Event(e, {PublishedId}, "published") /\ Len(row[e].log) = 0
  \/ Event(e, {DispatchedId}, "dispatched") /\ DispatchedId \notin row[e].ids
  \/ /\ Event(e, {RunningId}, "running") /\ RunningId \notin row[e].ids
     /\ \E t \in Tasks : task[t].pc = "starting" /\ task[t].e = e
  \/ \E st \in Terminal, ids \in {{}, {TerminalId}} :
       Event(e, ids, st) /\ (st = "succeeded" => Vouched(e))

\* An event of append_assistant_capability_event.
LEMMA EventStep ==
  ASSUME TypeOK, NEW e \in Execs, NEW id, NEW st, NEW f,
         row' = [row EXCEPT ![e] = AppendEvent(@, id, st, f)]
  PROVE  /\ \A x \in Execs \ {e} : row'[x] = row[x]
         /\ \/ row'[e] = row[e]
            \/ Event(e, {id}, st) /\ id \notin row[e].ids /\ AppendAllowed(row[e], st, f)
  BY DEF TypeOK, AppendEvent, AppendAllowed, Event

\* Every step is such a step of every row.
LEMMA RowSteps ==
  ASSUME TypeOK, Bound, [Next]_vars, NEW e \in Execs
  PROVE  RowStep(e)
PROOF
<1> USE DEF db, authority, local, world
<1>0. row \in [Execs -> RowType] /\ \A x \in Execs : row[x] \in RowType
  BY DEF TypeOK
<1>1. CASE row'[e] = row[e]
  BY <1>1 DEF RowStep
<1>2. ASSUME NEW r \in Reqs, CreateHandler(r) PROVE RowStep(e)
  <2>1. ASSUME NEW w \in Workers, NEW x \in Execs, Reserve(r, w, x) PROVE RowStep(e)
    BY <1>0, <1>1, <2>1 DEF Reserve, RowStep
  <2>2. CASE PublishCreated(r) \/ PublishFails(r)
    <3>1. req[r].e \in Execs
      BY <2>2 DEF PublishCreated, PublishFails, Bound, ReqBound
    <3>2. \/ row'[e] = row[e]
          \/ Event(e, {PublishedId}, "published") /\ AppendAllowed(row[e], "published", None)
      <4>1. CASE row' = row
        BY <4>1
      <4>2. CASE row' = [row EXCEPT ![req[r].e] = AppendEvent(@, PublishedId, "published", None)]
        BY <3>1, <4>2, EventStep
      <4>3. QED
        BY <2>2, <4>1, <4>2, CreateAppends
    <3>3. QED
      BY <1>1, <3>2 DEF RowStep, AppendAllowed
  <2>3. QED
    BY <1>1, <1>2, <2>1, <2>2 DEF CreateHandler, RefuseCreate, SpawnCreated
<1>3. ASSUME NEW t \in Tasks, TaskStep(t) PROVE RowStep(e)
  <2>0. task[t].pc # "idle" => task[t].e \in Execs
    BY DEF Bound, TaskBound
  <2>1. CASE Dispatch(t)
    <3>1. /\ task[t].e \in Execs /\ row[task[t].e].st \notin Terminal
          /\ row' = [row EXCEPT ![task[t].e] = Claimed(@, t)]
      BY <2>0, <2>1 DEF Dispatch, DispatchGranted, ExecOf, Step
    <3>2. QED
      BY <1>0, <1>1, <3>1 DEF Claimed, RowStep
  <2>2. CASE AnnounceDispatched(t)
    <3>1. task[t].e \in Execs
      BY <2>0, <2>2 DEF AnnounceDispatched, Announce
    <3>2. \/ row'[e] = row[e]
          \/ Event(e, {DispatchedId}, "dispatched") /\ DispatchedId \notin row[e].ids
      BY <2>2, <3>1, EventStep DEF AnnounceDispatched, Announce, ExecOf
    <3>3. QED
      BY <1>1, <3>2 DEF RowStep
  <2>3. CASE AnnounceRunning(t)
    <3>1. task[t].e \in Execs /\ task[t].pc = "starting"
      BY <2>0, <2>3 DEF AnnounceRunning, Announce
    <3>2. \/ row'[e] = row[e]
          \/ Event(e, {RunningId}, "running") /\ RunningId \notin row[e].ids /\ e = task[t].e
      BY <2>3, <3>1, EventStep DEF AnnounceRunning, Announce, ExecOf
    <3>3. QED
      BY <1>1, <3>1, <3>2 DEF RowStep
  <2>4. CASE AppendTerminal(t)
    <3>1. task[t].e \in Execs /\ task[t].pc = "finishing" /\ task[t].out \in Terminal
      BY <2>0, <2>4 DEF AppendTerminal, Bound, TaskBound
    <3>2. \/ row'[e] = row[e]
          \/ Event(e, {TerminalId}, task[t].out) /\ e = task[t].e
      BY <2>4, <3>1, EventStep DEF AppendTerminal, ExecOf
    <3>3. task[t].out = "succeeded" => Vouched(task[t].e)
      BY <3>1 DEF Vouched
    <3>4. QED
      BY <1>1, <3>1, <3>2, <3>3 DEF RowStep
  <2>5. QED
    BY <1>1, <1>3, <2>1, <2>2, <2>3, <2>4
    DEF TaskStep, Register, CancelWaiting, AcquireSlot, DispatchDenied, Adopt, Finish,
        OperationSucceeds, OperationFails, OperationUnknown, Interrupted,
        OperationCancelled, OperationLeaseLost, OperationTimesOut
<1>4. ASSUME NEW t \in Tasks, Heartbeat(t) \/ StoreFails(t) \/ EffectLands(t)
      PROVE  RowStep(e)
  <2>1. CASE Renew(t)
    BY <1>0, <1>1, <2>1 DEF Renew, RowStep, RowType
  <2>2. CASE EffectLands(t)
    BY <1>0, <1>1, <2>2 DEF EffectLands, RowStep, RowType
  <2>3. QED
    BY <1>1, <1>4, <2>1, <2>2 DEF Heartbeat, RenewLost, StoreFails
<1>5. ASSUME NEW w \in Workers, RecoveryLoop(w) \/ Crash(w) PROVE RowStep(e)
  <2>1. CASE Reconcile(w)
    <3>1. scan[w].e \in Execs
      BY <2>1 DEF Reconcile, TypeOK, ScanType
    <3>2. \/ row'[e] = row[e]
          \/ Event(e, {TerminalId}, RecoveredStatus(scan[w])) /\ e = scan[w].e
      BY <2>1, <3>1, EventStep DEF Reconcile
    <3>3. /\ RecoveredStatus(scan[w]) \in Terminal
          /\ RecoveredStatus(scan[w]) = "succeeded" => Vouched(scan[w].e)
      BY DEF RecoveredStatus, Vouched, Terminal
    <3>4. QED
      BY <1>1, <3>2, <3>3 DEF RowStep
  <2>2. QED
    BY <1>1, <1>5, <2>1 DEF RecoveryLoop, Scan, Respawn, SkipRegistered, Crash
<1>6. ASSUME NEW w \in Workers, NEW x \in Execs, CancelExecution(w, x) PROVE RowStep(e)
  <2>1. CancelStatus(x) \in Terminal /\ CancelStatus(x) # "succeeded"
    BY DEF CancelStatus, Terminal
  <2>2. row'[e] = row[e] \/ (e = x /\ Event(e, {}, CancelStatus(x)))
    BY <1>0, <1>6 DEF CancelExecution, Event
  <2>3. QED
    BY <1>1, <2>1, <2>2 DEF RowStep
<1>7. CASE Environment
  <2>1. ASSUME NEW x \in Execs, WorkerLeaseExpires(x) PROVE RowStep(e)
    BY <1>0, <1>1, <2>1 DEF WorkerLeaseExpires, RowStep, RowType
  <2>2. QED
    BY <1>1, <1>7, <2>1 DEF Environment, Approve, ApprovalLapses, AuthorityEnds, CancelRun,
                      OwnerLeaseExpires, OwnerTakesOver
<1>8. QED
  BY <1>1, <1>2, <1>3, <1>4, <1>5, <1>6, <1>7 DEF Next, vars

\* What a step does to a task that announces, operates or finishes.
TaskRecord(t) ==
  \/ task'[t].pc \notin {"starting", "operating", "finishing"}
  \/ /\ task'[t].pc = task[t].pc /\ task'[t].e = task[t].e /\ task'[t].out = task[t].out
     /\ wire'[t] = wire[t] \/ EffectLands(t)
  \/ /\ task'[t].e = task[t].e /\ task'[t].pc = "starting"
     /\ DispatchedId \in row'[task[t].e].ids
  \/ /\ task'[t].e = task[t].e /\ task'[t].pc = "operating"
     /\ task[t].e \in Writes => wire'[t] = task[t].e
  \/ /\ task'[t].e = task[t].e /\ task'[t].pc = "finishing" /\ task[t].pc = "operating"
     /\ task[t].e \in Writes /\ task'[t].out = "succeeded" => wire[t] = None

\* The end of the operation.
LEMMA FinishRecord ==
  ASSUME TypeOK, NEW t \in Tasks, NEW out, Finish(t, out),
         task[t].e \in Writes /\ out = "succeeded" => wire[t] = None
  PROVE  TaskRecord(t) /\ \A u \in Tasks \ {t} : task'[u] = task[u]
PROOF
<1>1. /\ task[t].pc = "operating" /\ task[t] \in TaskType
      /\ task'[t] = [task[t] EXCEPT !.pc = "finishing", !.out = out]
      /\ \A u \in Tasks \ {t} : task'[u] = task[u]
  BY DEF Finish, TypeOK
<1>2. task'[t].e = task[t].e /\ task'[t].pc = "finishing" /\ task'[t].out = out
  BY <1>1 DEF TaskType
<1>3. QED
  BY <1>1, <1>2 DEF TaskRecord

\* Every step is such a step of every task.
LEMMA TaskRecords ==
  ASSUME TypeOK, Bound, [Next]_vars, NEW t \in Tasks
  PROVE  TaskRecord(t)
PROOF
<1> USE DEF db, authority, local, world
<1>0. /\ task \in [Tasks -> TaskType] /\ task[t] \in TaskType
      /\ wire \in [Tasks -> Writes \cup {None}]
      /\ row \in [Execs -> RowType]
  BY DEF TypeOK
<1>1. CASE /\ task'[t].pc = task[t].pc /\ task'[t].e = task[t].e
           /\ task'[t].out = task[t].out /\ wire'[t] = wire[t]
  BY <1>1 DEF TaskRecord
<1>2. CASE task'[t].pc \in {"idle", "spawned", "waiting", "claiming", "adopting", "announcing"}
  BY <1>2 DEF TaskRecord
<1>3. ASSUME NEW r \in Reqs, CreateHandler(r) PROVE TaskRecord(t)
  <2>1. ASSUME NEW u \in Tasks, SpawnCreated(r, u) PROVE TaskRecord(t)
    BY <1>0, <1>1, <1>2, <2>1 DEF SpawnCreated, Spawn, IdleTask
  <2>2. QED
    BY <1>1, <1>3, <2>1 DEF CreateHandler, Reserve, RefuseCreate, PublishCreated,
           PublishFails
<1>4. ASSUME NEW u \in Tasks, TaskStep(u) \/ Heartbeat(u) \/ StoreFails(u) \/ EffectLands(u),
             u # t
      PROVE  TaskRecord(t)
  <2>1. task'[t] = task[t] /\ wire'[t] = wire[t]
    BY <1>0, <1>4
    DEF TaskStep, Register, CancelWaiting, AcquireSlot, Dispatch, DispatchDenied, Adopt,
        AnnounceDispatched, AnnounceRunning, Announce, Finish, OperationSucceeds,
        OperationFails, OperationUnknown, Interrupted, OperationCancelled,
        OperationLeaseLost, OperationTimesOut, AppendTerminal, Heartbeat, Renew, RenewLost,
        StoreFails, EffectLands, Retire, Step
  <2>2. QED
    BY <1>1, <2>1
<1>5. CASE TaskStep(t)
  <2>0. task[t].pc # "idle" => task[t].e \in Execs
    BY DEF Bound, TaskBound
  <2>1. CASE Retire(t)
    BY <1>0, <1>2, <2>1 DEF Retire, IdleTask
  <2>2. CASE Register(t) \/ CancelWaiting(t) \/ AcquireSlot(t) \/ Dispatch(t)
             \/ DispatchDenied(t) \/ Adopt(t) \/ AppendTerminal(t)
    BY <1>0, <1>2, <2>1, <2>2
    DEF Register, CancelWaiting, AcquireSlot, Dispatch, DispatchDenied, Adopt,
        AppendTerminal, Step, TaskType
  <2>3. CASE AnnounceDispatched(t)
    <3>1. /\ task[t].e \in Execs
          /\ row'[task[t].e] =
               AppendEvent(row[task[t].e], DispatchedId, "dispatched", task[t].fence)
      BY <1>0, <2>0, <2>3 DEF AnnounceDispatched, Announce, ExecOf
    <3>2. SUFFICES ASSUME AppendAccepted(row[task[t].e], DispatchedId, "dispatched",
                                         task[t].fence),
                          Step(t, "announcing", "starting")
                   PROVE  TaskRecord(t)
      BY <2>1, <2>3 DEF AnnounceDispatched, Announce, ExecOf
    <3>3. DispatchedId \in row'[task[t].e].ids
      BY <3>1, <3>2 DEF AppendEvent, AppendAccepted, Appended
    <3>4. task'[t].e = task[t].e /\ task'[t].pc = "starting"
      BY <1>0, <3>2 DEF Step, TaskType
    <3>5. QED
      BY <3>3, <3>4 DEF TaskRecord
  <2>4. CASE AnnounceRunning(t)
    <3>1. SUFFICES ASSUME Step(t, "starting", "operating"),
                          task[t].e \in Writes => wire' = [wire EXCEPT ![t] = task[t].e]
                   PROVE  TaskRecord(t)
      BY <2>1, <2>4 DEF AnnounceRunning, Announce, ExecOf
    <3>2. task'[t].e = task[t].e /\ task'[t].pc = "operating"
      BY <1>0, <3>1 DEF Step, TaskType
    <3>3. QED
      BY <1>0, <3>1, <3>2 DEF TaskRecord
  <2>5. CASE OperationSucceeds(t)
    BY <2>5, FinishRecord DEF OperationSucceeds, ExecOf
  <2>6. CASE OperationFails(t) \/ OperationUnknown(t)
    BY <2>6, FinishRecord DEF OperationFails, OperationUnknown
  <2>7. ASSUME NEW st, Interrupted(t, st) PROVE TaskRecord(t)
    <3>1. task[t].e \in Writes => task[t].e \notin Reads
      BY ExecutionKinds
    <3>2. QED
      BY <2>7, <3>1, FinishRecord DEF Interrupted, ExecOf
  <2>8. CASE OperationCancelled(t) \/ OperationLeaseLost(t) \/ OperationTimesOut(t)
    BY <2>7, <2>8 DEF OperationCancelled, OperationLeaseLost, OperationTimesOut
  <2>9. QED
    BY <1>5, <2>2, <2>3, <2>4, <2>5, <2>6, <2>8 DEF TaskStep
<1>6. CASE Heartbeat(t) \/ StoreFails(t) \/ EffectLands(t)
  <2>1. CASE Heartbeat(t)
    BY <1>0, <1>1, <2>1 DEF Heartbeat, Renew, RenewLost, TaskType
  <2>2. CASE StoreFails(t)
    BY <1>0, <1>2, <2>2 DEF StoreFails, Retire, IdleTask
  <2>3. CASE EffectLands(t)
    BY <2>3 DEF EffectLands, TaskRecord
  <2>4. QED
    BY <1>6, <2>1, <2>2, <2>3
<1>7. ASSUME NEW w \in Workers, RecoveryLoop(w) \/ Crash(w) PROVE TaskRecord(t)
  <2>1. ASSUME NEW u \in Tasks, Respawn(w, u) PROVE TaskRecord(t)
    BY <1>0, <1>1, <1>2, <2>1 DEF Respawn, Spawn, IdleTask
  <2>2. CASE Crash(w)
    BY <1>0, <1>1, <1>2, <2>2 DEF Crash, IdleTask
  <2>3. QED
    BY <1>1, <1>7, <2>1, <2>2 DEF RecoveryLoop, Scan, Reconcile, SkipRegistered
<1>8. ASSUME NEW w \in Workers, NEW x \in Execs, CancelExecution(w, x) PROVE TaskRecord(t)
  BY <1>1, <1>8 DEF CancelExecution
<1>9. CASE Environment
  BY <1>1, <1>9 DEF Environment, Approve, ApprovalLapses, WorkerLeaseExpires, AuthorityEnds,
              CancelRun, OwnerLeaseExpires, OwnerTakesOver
<1>10. QED
  BY <1>1, <1>3, <1>4, <1>5, <1>6, <1>7, <1>8, <1>9 DEF Next, vars

\* The log stays in order.
LEMMA LogStep ==
  ASSUME TypeOK, Bound, LogInv, [Next]_vars
  PROVE  LogInv'
PROOF
<1>1. ASSUME NEW e \in Execs PROVE LogOK(row'[e]) /\ row[e].ids \subseteq row'[e].ids
  <2>0. /\ row[e] \in RowType /\ LogOK(row[e]) /\ RowStep(e)
        /\ row[e].ids \in SUBSET (1..4) /\ row[e].log \in Seq(Statuses)
    BY <1>1, RowSteps DEF LogInv, TypeOK, RowType
  <2>1. PICK n \in Nat : n = Len(row[e].log)
    BY <2>0
  <2>2. \A i \in 1..n : row[e].log[i] \in Statuses
    BY <2>0, <2>1
  <2>3. /\ Rank("published") = 1 /\ Rank("dispatched") = 2 /\ Rank("running") = 3
        /\ \A st \in Terminal : Rank(st) = 4
    BY DEF Rank, Terminal
  <2>4. ASSUME NEW ids \in SUBSET (1..4), NEW st \in Statuses, Event(e, ids, st),
               \A i \in 1..n : Rank(row[e].log[i]) < Rank(st),
               st = "dispatched" => DispatchedId \in ids,
               st = "running" => RunningId \in ids,
               RunningId \in ids => DispatchedId \in row[e].ids
        PROVE  LogOK(row'[e]) /\ row[e].ids \subseteq row'[e].ids
    <3>1. row[e].st \notin Terminal /\ row'[e] = Appended(row[e], ids, st)
      BY <2>4 DEF Event
    <3>2. LogOK(Appended(row[e], ids, st))
      BY <2>0, <2>1, <2>4, <3>1, LogGrows
    <3>3. row'[e].ids = row[e].ids \cup ids
      BY <3>1 DEF Appended
    <3>4. QED
      BY <3>1, <3>2, <3>3
  <2>5. row[e].st \notin Terminal => \A i \in 1..n : row[e].log[i] \notin Terminal
    BY <2>0, <2>1 DEF LogOK
  <2>6. /\ "published" \in Statuses /\ "dispatched" \in Statuses /\ "running" \in Statuses
        /\ \A st \in Terminal : st \in Statuses /\ st \notin {"dispatched", "running"}
        /\ Statuses = {"published", "dispatched", "running"} \cup Terminal
    BY DEF Statuses, InFlight, Terminal
  <2>7. CASE /\ row'[e].ids = row[e].ids /\ row'[e].log = row[e].log
             /\ row'[e].st = row[e].st
                \/ (row[e].st \notin Terminal /\ row'[e].st = "dispatched")
    <3>1. CASE row'[e].st = row[e].st
      BY <2>0, <2>7, <3>1 DEF LogOK
    <3>2. CASE row[e].st \notin Terminal /\ row'[e].st = "dispatched"
      <4>1. "dispatched" \notin Terminal
        BY DEF Terminal
      <4>2. QED
        BY <2>0, <2>1, <2>5, <2>7, <3>2, <4>1 DEF LogOK
    <3>3. QED
      BY <2>7, <3>1, <3>2
  <2>8. CASE row[e].st = "absent" /\ row'[e] = [NoRow EXCEPT !.st = "published"]
    <3>1. row'[e].log = <<>> /\ row'[e].ids = {} /\ row'[e].st = "published"
      BY <2>8 DEF NoRow
    <3>2. row[e].ids = {}
      BY <2>0, <2>8 DEF LogOK
    <3>3. "published" \notin Terminal
      BY DEF Terminal
    <3>4. QED
      BY <3>1, <3>2, <3>3 DEF LogOK
  <2>9. CASE Event(e, {PublishedId}, "published") /\ Len(row[e].log) = 0
    <3>1. {PublishedId} \in SUBSET (1..4) /\ RunningId \notin {PublishedId}
      BY DEF PublishedId, RunningId
    <3>2. \A i \in 1..n : Rank(row[e].log[i]) < Rank("published")
      BY <2>1, <2>9
    <3>3. QED
      BY <2>4, <2>6, <2>9, <3>1, <3>2
  <2>10. CASE Event(e, {DispatchedId}, "dispatched") /\ DispatchedId \notin row[e].ids
    <3>1. {DispatchedId} \in SUBSET (1..4) /\ RunningId \notin {DispatchedId}
      BY DEF DispatchedId, RunningId
    <3>2. row[e].st \notin Terminal
      BY <2>10 DEF Event
    <3>3. \A i \in 1..n : row[e].log[i] = "published"
      BY <2>0, <2>1, <2>2, <2>5, <2>6, <2>10, <3>2 DEF LogOK
    <3>4. \A i \in 1..n : Rank(row[e].log[i]) < Rank("dispatched")
      BY <2>3, <3>3
    <3>5. QED
      BY <2>4, <2>6, <2>10, <3>1, <3>4
  <2>11. CASE /\ Event(e, {RunningId}, "running") /\ RunningId \notin row[e].ids
              /\ \E t \in Tasks : task[t].pc = "starting" /\ task[t].e = e
    <3>1. {RunningId} \in SUBSET (1..4) /\ DispatchedId \in row[e].ids
      BY <2>11 DEF RunningId, LogInv
    <3>2. row[e].st \notin Terminal
      BY <2>11 DEF Event
    <3>3. \A i \in 1..n : row[e].log[i] = "published" \/ row[e].log[i] = "dispatched"
      BY <2>0, <2>1, <2>2, <2>5, <2>6, <2>11, <3>2 DEF LogOK
    <3>4. \A i \in 1..n : Rank(row[e].log[i]) < Rank("running")
      BY <2>3, <3>3
    <3>5. QED
      BY <2>4, <2>6, <2>11, <3>1, <3>4
  <2>12. ASSUME NEW st \in Terminal, NEW ids \in {{}, {TerminalId}}, Event(e, ids, st)
         PROVE  LogOK(row'[e]) /\ row[e].ids \subseteq row'[e].ids
    <3>1. ids \in SUBSET (1..4) /\ RunningId \notin ids
      BY DEF TerminalId, RunningId
    <3>2. row[e].st \notin Terminal
      BY <2>12 DEF Event
    <3>3. \A i \in 1..n : Rank(row[e].log[i]) < Rank(st)
      BY <2>2, <2>3, <2>5, <2>6, <3>2
    <3>4. st \in Statuses /\ st # "dispatched" /\ st # "running"
      BY <2>6
    <3>5. QED
      BY <2>4, <2>12, <3>1, <3>3, <3>4
  <2>13. QED
    BY <2>0, <2>7, <2>8, <2>9, <2>10, <2>11, <2>12 DEF RowStep
<1>2. ASSUME NEW t \in Tasks, task'[t].pc = "starting"
      PROVE  DispatchedId \in row'[task'[t].e].ids
  <2>1. TaskRecord(t)
    BY TaskRecords
  <2>2. CASE task[t].pc = "starting" /\ task'[t].e = task[t].e
    <3>1. task[t].e \in Execs /\ DispatchedId \in row[task[t].e].ids
      BY <2>2 DEF LogInv, Bound, TaskBound
    <3>2. QED
      BY <1>1, <2>2, <3>1
  <2>3. QED
    BY <1>2, <2>1, <2>2 DEF TaskRecord
<1>3. QED
  BY <1>1, <1>2 DEF LogInv

\* A side effect that happened stays, and lands but once.
LEMMA EffectSteps ==
  ASSUME IInv, [Next]_vars, NEW e \in Writes
  PROVE  /\ effects[e] = 1 => effects'[e] = 1
         /\ \A t \in Tasks : EffectLands(t) /\ wire[t] = e => effects'[e] = 1
PROOF
<1> USE DEF db, authority, local, world
<1>0. effects \in [Writes -> Nat] /\ wire \in [Tasks -> Writes \cup {None}]
  BY DEF IInv, TypeOK
<1>1. ASSUME NEW t \in Tasks, EffectLands(t)
      PROVE  /\ effects[e] = 1 => effects'[e] = 1
             /\ wire[t] = e => effects'[e] = 1
  <2>1. wire[t] # None /\ effects' = [effects EXCEPT ![wire[t]] = @ + 1]
    BY <1>1 DEF EffectLands
  <2>2. wire[t] \in Writes /\ effects[wire[t]] = 0
    BY <1>0, <2>1 DEF IInv, LedgerInv, WireInv
  <2>3. QED
    BY <1>0, <2>1, <2>2
<1>2. (\E t \in Tasks : EffectLands(t)) \/ effects' = effects
  <2>1. ASSUME NEW r \in Reqs, CreateHandler(r) PROVE effects' = effects
    BY <2>1 DEF CreateHandler, Reserve, RefuseCreate, PublishCreated, PublishFails,
           SpawnCreated
  <2>2. ASSUME NEW t \in Tasks, TaskStep(t) PROVE effects' = effects
    BY <2>2
    DEF TaskStep, Register, CancelWaiting, AcquireSlot, Dispatch, DispatchDenied, Adopt,
        AnnounceDispatched, AnnounceRunning, Announce, Finish, OperationSucceeds,
        OperationFails, OperationUnknown, Interrupted, OperationCancelled,
        OperationLeaseLost, OperationTimesOut, AppendTerminal
  <2>3. ASSUME NEW t \in Tasks, Heartbeat(t) \/ StoreFails(t) PROVE effects' = effects
    BY <2>3 DEF Heartbeat, Renew, RenewLost, StoreFails
  <2>4. ASSUME NEW w \in Workers, RecoveryLoop(w) \/ Crash(w) PROVE effects' = effects
    BY <2>4 DEF RecoveryLoop, Scan, Reconcile, Respawn, SkipRegistered, Crash
  <2>5. ASSUME NEW w \in Workers, NEW x \in Execs, CancelExecution(w, x)
        PROVE  effects' = effects
    BY <2>5 DEF CancelExecution
  <2>6. CASE Environment
    BY <2>6 DEF Environment, Approve, ApprovalLapses, WorkerLeaseExpires, AuthorityEnds,
                CancelRun, OwnerLeaseExpires, OwnerTakesOver
  <2>7. CASE UNCHANGED vars
    BY <2>7 DEF vars
  <2>8. QED
    BY <2>1, <2>2, <2>3, <2>4, <2>5, <2>6, <2>7 DEF Next
<1>3. QED
  BY <1>1, <1>2

\* A recovery loop keeps its copy, drops it, or takes one of an open row.
LEMMA ScanSteps ==
  ASSUME TypeOK, [Next]_vars, NEW w \in Workers
  PROVE  \/ scan'[w] = scan[w] \/ scan'[w] = NoScan
         \/ \E e \in Execs : scan'[w] = Copy(e)
PROOF
<1> USE DEF db, authority, local, world
<1>0. scan \in [Workers -> ScanType \cup {NoScan}]
  BY DEF TypeOK
<1>1. ASSUME NEW r \in Reqs, CreateHandler(r) PROVE scan' = scan
  BY <1>1 DEF CreateHandler, Reserve, RefuseCreate, PublishCreated, PublishFails,
           SpawnCreated
<1>2. ASSUME NEW t \in Tasks, TaskStep(t) PROVE scan' = scan
  BY <1>2
  DEF TaskStep, Register, CancelWaiting, AcquireSlot, Dispatch, DispatchDenied, Adopt,
      AnnounceDispatched, AnnounceRunning, Announce, Finish, OperationSucceeds,
      OperationFails, OperationUnknown, Interrupted, OperationCancelled,
      OperationLeaseLost, OperationTimesOut, AppendTerminal
<1>3. ASSUME NEW t \in Tasks, Heartbeat(t) \/ StoreFails(t) \/ EffectLands(t)
      PROVE  scan' = scan
  BY <1>3 DEF Heartbeat, Renew, RenewLost, StoreFails, EffectLands
<1>4. ASSUME NEW v \in Workers, RecoveryLoop(v) \/ Crash(v)
      PROVE  \/ scan' = [scan EXCEPT ![v] = NoScan]
             \/ \E e \in Execs : scan' = [scan EXCEPT ![v] = Copy(e)]
  BY <1>4 DEF RecoveryLoop, Scan, Reconcile, Respawn, SkipRegistered, Crash
<1>5. ASSUME NEW v \in Workers, NEW x \in Execs, CancelExecution(v, x) PROVE scan' = scan
  BY <1>5 DEF CancelExecution
<1>6. CASE Environment
  BY <1>6 DEF Environment, Approve, ApprovalLapses, WorkerLeaseExpires, AuthorityEnds,
              CancelRun, OwnerLeaseExpires, OwnerTakesOver
<1>7. CASE UNCHANGED vars
  BY <1>7 DEF vars
<1>8. QED
  BY <1>0, <1>1, <1>2, <1>3, <1>4, <1>5, <1>6, <1>7 DEF Next

\* A success keeps standing for an effect.
LEMMA TruthStep ==
  ASSUME IInv, TruthInv, [Next]_vars
  PROVE  TruthInv'
PROOF
<1>0. TypeOK /\ Bound
  BY DEF IInv
<1>1. ASSUME NEW e \in Writes, row'[e].receipt \/ row'[e].st = "succeeded"
      PROVE  effects'[e] = 1
  <2>1. e \in Execs /\ RowStep(e)
    BY <1>0, RowSteps DEF Execs
  <2>2. SUFFICES ASSUME ~\E t \in Tasks : EffectLands(t) /\ wire[t] = e
                 PROVE  effects[e] = 1
    BY EffectSteps
  <2>3. Vouched(e) => effects[e] = 1
    BY DEF Vouched, TruthInv
  <2>4. SUFFICES row[e].receipt \/ row[e].st = "succeeded" \/ Vouched(e)
    BY <2>3 DEF TruthInv
  <2>5. ASSUME NEW ids, NEW st, Event(e, ids, st), st = "succeeded" => Vouched(e)
        PROVE  row[e].receipt \/ Vouched(e)
    <3>1. /\ row'[e].st = st
          /\ row'[e].receipt = (row[e].receipt /\ st \notin Terminal)
      BY <2>5 DEF Event, Appended
    <3>2. QED
      BY <1>1, <2>5, <3>1
  <2>6. CASE row'[e] = [NoRow EXCEPT !.st = "published"]
    <3>1. row'[e].st = "published" /\ ~row'[e].receipt
      BY <2>6 DEF NoRow
    <3>2. QED
      BY <1>1, <3>1
  <2>7. QED
    BY <1>1, <2>1, <2>2, <2>5, <2>6 DEF RowStep
<1>2. ASSUME NEW w \in Workers, scan'[w].receipt, scan'[w].e \in Writes
      PROVE  effects'[scan'[w].e] = 1
  <2>1. SUFFICES effects[scan'[w].e] = 1
    BY <1>2, EffectSteps
  <2>2. CASE scan'[w] = scan[w]
    BY <1>2, <2>2 DEF TruthInv
  <2>3. CASE scan'[w] = NoScan
    BY <1>2, <2>3 DEF NoScan
  <2>4. ASSUME NEW e \in Execs, scan'[w] = Copy(e) PROVE effects[scan'[w].e] = 1
    <3>1. CASE e \in Reads
      BY <1>2, <2>4, <3>1 DEF Copy, NoScan
    <3>2. CASE e \notin Reads
      <4>1. scan'[w].e = e /\ scan'[w].receipt = row[e].receipt
        BY <2>4, <3>2 DEF Copy
      <4>2. QED
        BY <1>2, <4>1 DEF TruthInv
    <3>3. QED
      BY <3>1, <3>2
  <2>5. QED
    BY <1>0, <2>2, <2>3, <2>4, ScanSteps
<1>3. ASSUME NEW t \in Tasks, task'[t].e \in Writes
      PROVE  /\ task'[t].pc = "operating" => wire'[t] \in {None, task'[t].e}
             /\ task'[t].pc = "operating" /\ wire'[t] = None => effects'[task'[t].e] = 1
             /\ task'[t].pc = "finishing" /\ task'[t].out = "succeeded"
                  => effects'[task'[t].e] = 1
  <2>1. TaskRecord(t)
    BY <1>0, TaskRecords
  <2>2. \A e \in Writes : effects[e] = 1 => effects'[e] = 1
    BY EffectSteps
  <2>3. None \notin Writes
    BY NoneIsFresh DEF Execs
  <2>4. CASE task'[t].pc \notin {"starting", "operating", "finishing"}
    BY <2>4
  <2>5. CASE /\ task'[t].pc = task[t].pc /\ task'[t].e = task[t].e
             /\ task'[t].out = task[t].out
             /\ wire'[t] = wire[t] \/ EffectLands(t)
    <3>0. /\ task[t].e \in Writes
          /\ task[t].pc = "operating" => wire[t] \in {None, task[t].e}
          /\ task[t].pc = "operating" /\ wire[t] = None => effects[task[t].e] = 1
          /\ task[t].pc = "finishing" /\ task[t].out = "succeeded"
               => effects'[task[t].e] = 1
      BY <1>3, <2>2, <2>5 DEF TruthInv
    <3>1. CASE wire'[t] = wire[t]
      BY <2>2, <2>5, <3>0, <3>1
    <3>2. CASE EffectLands(t)
      <4>1. wire[t] # None /\ wire'[t] = None
        BY <1>0, <3>2 DEF EffectLands, TypeOK
      <4>2. task[t].pc = "operating" => wire[t] = task[t].e
        BY <1>3, <2>5, <4>1 DEF TruthInv
      <4>3. task[t].pc = "operating" => effects'[task[t].e] = 1
        BY <1>3, <2>5, <3>2, <4>2, EffectSteps
      <4>4. QED
        BY <2>5, <3>0, <4>1, <4>3
    <3>3. QED
      BY <2>5, <3>1, <3>2
  <2>6. CASE task'[t].pc = "starting"
    BY <2>6
  <2>7. CASE /\ task'[t].e = task[t].e /\ task'[t].pc = "operating"
             /\ task[t].e \in Writes => wire'[t] = task[t].e
    BY <1>3, <2>3, <2>7
  <2>8. CASE /\ task'[t].e = task[t].e /\ task'[t].pc = "finishing"
             /\ task[t].pc = "operating"
             /\ task[t].e \in Writes /\ task'[t].out = "succeeded" => wire[t] = None
    BY <1>3, <2>2, <2>8 DEF TruthInv
  <2>9. QED
    BY <2>1, <2>4, <2>5, <2>6, <2>7, <2>8 DEF TaskRecord
<1>4. QED
  BY <1>1, <1>2, <1>3 DEF TruthInv

\* Nothing is logged and nothing has succeeded at the start.
LEMMA RecordInit == Init => RecordInv
PROOF
<1> SUFFICES ASSUME Init PROVE RecordInv
  OBVIOUS
<1>1. /\ row = [e \in Execs |-> NoRow] /\ task = [t \in Tasks |-> IdleTask]
      /\ scan = [w \in Workers |-> NoScan]
  BY DEF Init
<1>2. \A e \in Execs : /\ row[e].log = <<>> /\ row[e].st = "absent"
                       /\ row[e].ids = {} /\ ~row[e].receipt
  BY <1>1 DEF NoRow
<1>3. "absent" \notin Terminal
  BY DEF Terminal
<1>4. \A e \in Execs : LogOK(row[e])
  BY <1>2, <1>3 DEF LogOK
<1>5. (\A t \in Tasks : task[t].pc = "idle") /\ (\A w \in Workers : ~scan[w].receipt)
  BY <1>1 DEF IdleTask, NoScan
<1>6. LogInv
  BY <1>4, <1>5 DEF LogInv
<1>7. \A e \in Writes : e \in Execs
  BY DEF Execs
<1>8. TruthInv
  BY <1>2, <1>5, <1>7 DEF TruthInv
<1>9. QED
  BY <1>6, <1>8 DEF RecordInv

\* The record of every execution is in order and true.
LEMMA RecordInvariance == Spec => []RecordInv
PROOF
<1>1. IInv /\ RecordInv /\ [Next]_vars => RecordInv'
  BY LogStep, TruthStep DEF RecordInv, IInv
<1>2. QED
  BY <1>1, RecordInit, Invariance, PTL DEF Spec

\* Every log has at most one terminal event, its last, and it is the status:
\* every writer refuses a row that is finished.
THEOREM OneEnd == Spec => []OneTerminalEvent
PROOF
<1>1. ASSUME IInv, RecordInv PROVE OneTerminalEvent
  <2> SUFFICES ASSUME NEW e \in Execs
               PROVE  /\ \A i \in 1..Len(row[e].log) :
                           row[e].log[i] \in Terminal => i = Len(row[e].log)
                      /\ row[e].st \in Terminal =>
                           row[e].log # <<>> /\ row[e].log[Len(row[e].log)] = row[e].st
    BY DEF OneTerminalEvent
  <2>1. LogOK(row[e]) /\ row[e].log \in Seq(Statuses)
    BY <1>1 DEF RecordInv, LogInv, IInv, TypeOK, RowType
  <2>2. Len(row[e].log) > 0 => row[e].log # <<>>
    OBVIOUS
  <2>3. QED
    BY <2>1, <2>2 DEF LogOK
<1>2. QED
  BY <1>1, Invariance, RecordInvariance, PTL

\* Every log tells the life of its execution in order and each step once,
\* although a read may be claimed and announced again.
THEOREM OrderedLog == Spec => []LogFollowsLifecycle
PROOF
<1>1. RecordInv => LogFollowsLifecycle
  BY DEF RecordInv, LogInv, LogOK, Rank, LogFollowsLifecycle
<1>2. QED
  BY <1>1, RecordInvariance, PTL

\* A write reported succeeded happened, once, whether its task said so or a
\* recovery loop found its receipt.
THEOREM SuccessHappened == Spec => []SucceededWriteHappened
PROOF
<1>1. RecordInv => SucceededWriteHappened
  BY DEF RecordInv, TruthInv, SucceededWriteHappened
<1>2. QED
  BY <1>1, RecordInvariance, PTL
=============================================================================
