--------------------------- MODULE RuntimeOwnership ---------------------------
(***************************************************************************)
(* Durable ownership of turns by Agent Runtime processes: the fenced claim  *)
(* of a run, the invocation journal, the rollout history of the thread,     *)
(* cold recovery of an interrupted turn by another process, and the         *)
(* Gateway's closing of the run.  All runs belong to one thread.            *)
(*                                                                         *)
(* A SQL function, and a transaction, is one atomic step.  A process lives  *)
(* once: its replacement is another process, idle until then.  own[r].live  *)
(* is TRUE while lease_until lies in the future; a heartbeat keeps it TRUE, *)
(* so only a refused heartbeat is a step.  Core is external and appends to  *)
(* the history synchronously; when an append fails it goes on.              *)
(***************************************************************************)
EXTENDS Naturals, Sequences, FiniteSets

CONSTANTS
  Runs,       \* turns of the thread, each with its run row
  Procs,      \* Runtime processes, and their instance ids
  Calls,      \* ids of dynamic tool calls
  MaxFence,   \* bound on the claims of a run
  None        \* SQL NULL, an absent map entry

ASSUME NoneIsNew ==
  None \notin Procs \cup Runs \cup Calls \cup
    {"core", "recovery", "failing", "absent", "succeeded", "completed", "failed",
     "cancelled"}
ASSUME FenceBound == MaxFence \in Nat

VARIABLES
  run,      \* assistant_runs.status
  lease,    \* the run's model lease is active and its snapshot not revoked
  own,      \* assistant_runtime_execution_owners
  journal,  \* assistant_runtime_invocations of a run: "none", "open", "done"
  items,    \* the rollout items of the thread, in order
  life,     \* tool lifecycle receipts: "none", "open", "closed" or "done"
  events,   \* statuses of the terminal V1 events sent for a run
  gw,       \* the Gateway's request for a run and how it closes it
  proc,     \* "up", "gone" or "retired"
  cache,    \* execution_claims of a process, for the thread
  sick,     \* processes with the thread in write_failures
  turn,     \* what a process does on the thread
  closing   \* the run close_expired_authority has closed and not yet reported

store == <<run, lease, own, journal, items, life, events>>
process == <<proc, cache, sick, turn, closing>>
vars == <<run, lease, own, journal, items, life, events, gw,
          proc, cache, sick, turn, closing>>

-----------------------------------------------------------------------------
NoOwner == [p |-> None, fence |-> 0, live |-> FALSE]
NoClaim == [run |-> None, fence |-> 0]
IdleTurn == [pc |-> "idle", run |-> None, mode |-> None, todo |-> {},
             call |-> None, st |-> None]
NoRequest == [pc |-> "none", st |-> None]

Ended == {"succeeded", "completed", "failed", "cancelled"}
IsActive(r) == run[r] = "running"
Owned(r) == own[r].fence > 0
Up(p) == proc[p] = "up"

\* Mutant: a fence is believed without a look at its lease.
HoldsAnyFence(p, r) == cache[p].run = r /\ own[r].fence > 0

\* assert_runtime_execution_fence with the claim the process has cached.
HoldsFence(p, r) ==
  /\ cache[p].run = r
  /\ own[r].p = p
  /\ own[r].fence = cache[p].fence
  /\ own[r].live

\* assert_runtime_execution: new work also needs the run and its authority.
MayExecute(p, r) == HoldsFence(p, r) /\ IsActive(r) /\ lease[r]

\* Mutant: items are appended without a look at the claim.
AlwaysWrites(p) == TRUE

\* check_execution_write: an append to the thread needs the fence of the claim
\* that is cached for it, if any.
MayWrite(p) == cache[p] = NoClaim \/ HoldsFence(p, cache[p].run)

\* Mutant: the health of the thread's persistence is forgotten.
AlwaysHealthy(p) == TRUE

\* check_write_health: the first append that fails is remembered.
Healthy(p) == p \notin sick

\* Mutant: another run of the thread may still be owned.
ClaimableBeside(p, r) ==
  /\ IsActive(r) /\ lease[r]
  /\ Owned(r) => own[r].p # p /\ ~own[r].live
  /\ own[r].fence < MaxFence

\* claim_runtime_execution: one owned active run per thread, and an owner is
\* replaced only by another process and only when its lease is over.
Claimable(p, r) ==
  /\ IsActive(r) /\ lease[r]
  /\ \A q \in Runs \ {r} : ~(Owned(q) /\ IsActive(q))
  /\ Owned(r) => own[r].p # p /\ ~own[r].live
  /\ own[r].fence < MaxFence

Claim(p, r) ==
  /\ own' = [own EXCEPT ![r] = [p |-> p, fence |-> @.fence + 1, live |-> TRUE]]
  /\ cache' = [cache EXCEPT ![p] = [run |-> r, fence |-> own[r].fence + 1]]

\* unclosed_tool_calls: every open call gets its terminal receipt.
CloseCalls(r) ==
  life' = [life EXCEPT ![r] =
             [c \in Calls |-> IF @[c] = "open" THEN "closed" ELSE @[c]]]

Goto(p, pc) == turn' = [turn EXCEPT ![p].pc = pc]
Idle(p) == turn' = [turn EXCEPT ![p] = IdleTurn]
SendTerminal(r, st) == events' = [events EXCEPT ![r] = @ \cup {st}]

-----------------------------------------------------------------------------
(* The rollout history.                                                    *)

\* An item keeps the fence under which it was written.
Item(p, kind, c) ==
  [kind |-> kind, r |-> turn[p].run, c |-> c, fence |-> cache[p].fence]

\* append_items.
AppendItem(p, kind, c) ==
  /\ MayWrite(p)
  /\ items' = Append(items, Item(p, kind, c))

\* An append by Core, which goes on when it fails.
CoreAppends(p, kind, c) ==
  \/ Healthy(p) /\ AppendItem(p, kind, c) /\ UNCHANGED sick
  \/ sick' = sick \cup {p} /\ UNCHANGED items

Positions(kind) == {i \in 1..Len(items) : items[i].kind = kind}
Starts(r) == {i \in Positions("start") : items[i].r = r}

\* recovery_tail: what belongs to a turn is what follows its start and no
\* other turn's; its end is found by its own id.
Segment(r) ==
  {i \in 1..Len(items) :
     \E s \in Starts(r) :
       s <= i /\ \A k \in Positions("start") : k <= i => k <= s}
TailCalls(r) == {items[i].c : i \in Segment(r) \cap Positions("call")}
TailOutputs(r) == {items[i].c : i \in Segment(r) \cap Positions("out")}
Ends(r) ==
  {i \in Positions("completed") \cup Positions("aborted") : items[i].r = r}
EndStatus(r) ==
  LET last == CHOOSE i \in Ends(r) : \A j \in Ends(r) : j <= i
  IN IF items[last].kind = "completed" THEN "completed" ELSE "cancelled"
Superseded(r) ==
  Starts(r) # {} /\ \E k \in Positions("start") : \A s \in Starts(r) : s < k

-----------------------------------------------------------------------------
(* Starting a turn.                                                        *)

\* issue_assistant_runtime_turn: snapshot, run and model lease.
IssueTurn(r) ==
  /\ run[r] = "absent"
  /\ run' = [run EXCEPT ![r] = "running"]
  /\ lease' = [lease EXCEPT ![r] = TRUE]
  /\ gw' = [gw EXCEPT ![r].pc = "posting"]
  /\ UNCHANGED <<own, journal, items, life, events, process>>

\* The Gateway's one request reaches a process: start_turn_mode up to the
\* claim.  A process runs one turn at a time here and in TakeOver; in the code
\* a claim does not wait for a cancelled turn that is still winding down.
StartTurn(p, r) ==
  /\ gw[r].pc = "posting"
  /\ Up(p) /\ turn[p].pc = "idle" /\ Healthy(p)
  /\ Claimable(p, r)
  /\ Claim(p, r)
  /\ gw' = [gw EXCEPT ![r].pc = "open"]
  /\ turn' = [turn EXCEPT ![p] = [IdleTurn EXCEPT !.pc = "starting",
                                                  !.run = r, !.mode = "core"]]
  /\ UNCHANGED <<run, lease, journal, items, life, events, proc, sick, closing>>

\* The request is refused, and the Gateway fails the run.
StartRefused(r) ==
  /\ gw[r].pc = "posting"
  /\ gw' = [gw EXCEPT ![r] = [pc |-> "asked", st |-> "failed"]]
  /\ UNCHANGED <<store, process>>

\* assert_execution, then Core is asked to start or to recover the turn.
AdmitTurn(p) ==
  /\ turn[p].pc = "starting"
  /\ MayExecute(p, turn[p].run) /\ Healthy(p)
  /\ turn' = [turn EXCEPT ![p].pc = "admitted", ![p].mode = "core"]
  /\ UNCHANGED <<store, gw, proc, cache, sick, closing>>

\* An error instead.  A new turn's Gateway fails the run, if it is still there
\* to see the error; a recovered turn's recovery fails.
StartRejected(p) ==
  LET r == turn[p].run IN
  /\ turn[p].pc = "starting"
  /\ IF turn[p].mode = "core"
     THEN /\ Idle(p)
          /\ gw' \in {gw, [gw EXCEPT ![r] = IF @.pc = "open"
                                            THEN [pc |-> "asked", st |-> "failed"]
                                            ELSE @]}
     ELSE /\ turn' = [turn EXCEPT ![p].pc = "projecting", ![p].mode = "failing",
                                  ![p].st = "failed"]
          /\ UNCHANGED gw
  /\ UNCHANGED <<store, proc, cache, sick, closing>>

CoreStarts(p) ==
  /\ turn[p].pc = "admitted"
  /\ CoreAppends(p, "start", None)
  /\ Goto(p, "core")
  /\ UNCHANGED <<run, lease, own, journal, life, events, gw, proc, cache,
                 closing>>

-----------------------------------------------------------------------------
(* A live turn.  Core makes the calls one at a time.                        *)

\* A call id is new to the thread.
NewCall(c) ==
  /\ \A i \in 1..Len(items) : items[i].c # c
  /\ \A r \in Runs : journal[r][c] = "none"
  /\ \A p \in Procs : turn[p].call # c /\ c \notin turn[p].todo

CoreCall(p, c) ==
  /\ turn[p].pc = "core"
  /\ NewCall(c)
  /\ CoreAppends(p, "call", c)
  /\ turn' = [turn EXCEPT ![p].pc = "begin", ![p].call = c]
  /\ UNCHANGED <<run, lease, own, journal, life, events, gw, proc, cache,
                 closing>>

\* begin_invocation: journal the call, or find the response it already has.
BeginInvocation(p) ==
  LET r == turn[p].run
      c == turn[p].call
  IN
  /\ turn[p].pc = "begin"
  /\ MayExecute(p, r)
  /\ IF journal[r][c] = "done"
     THEN Goto(p, "respond") /\ UNCHANGED journal
     ELSE /\ journal' = [journal EXCEPT ![r][c] = "open"]
          /\ Goto(p, "invoke")
  /\ UNCHANGED <<run, lease, own, items, life, events, gw, proc, cache, sick,
                 closing>>

\* handle_dynamic_tool_call_inner: the receipt that opens the call, under a key
\* of the call, so a second time changes nothing.
PublishCall(p) ==
  /\ turn[p].pc = "invoke"
  /\ MayWrite(p)
  /\ life' = [life EXCEPT ![turn[p].run][turn[p].call] =
                IF @ = "none" THEN "open" ELSE @]
  /\ Goto(p, "dispatch")
  /\ UNCHANGED <<run, lease, own, journal, items, events, gw, proc, cache, sick,
                 closing>>

\* Mutant: the fence is not asserted again before the worker is called.
DispatchUnfenced(p) ==
  /\ turn[p].pc = "dispatch"
  /\ Goto(p, "result")
  /\ UNCHANGED <<store, gw, proc, cache, sick, closing>>

\* assert_execution, the approval, and the request to the worker.  The guard is
\* right at the request: it carries the owner and the fence, and the worker
\* asserts them again as it reserves the call, so that a claim lost while the
\* approval was awaited is refused there.
DispatchCall(p) ==
  /\ turn[p].pc = "dispatch"
  /\ MayExecute(p, turn[p].run)
  /\ Goto(p, "result")
  /\ UNCHANGED <<store, gw, proc, cache, sick, closing>>

\* The result receipt, under a key of the call.  The worker answers a call
\* once, so the same receipt is found again after a restart; where the call was
\* closed otherwise the keys conflict.
RecordResult(p) ==
  LET r == turn[p].run
      c == turn[p].call
  IN
  /\ turn[p].pc = "result"
  /\ MayWrite(p)
  /\ life[r][c] # "closed"
  /\ life' = [life EXCEPT ![r][c] = "done"]
  /\ Goto(p, "finish")
  /\ UNCHANGED <<run, lease, own, journal, items, events, gw, proc, cache, sick,
                 closing>>

\* finish_invocation.
FinishInvocation(p) ==
  /\ turn[p].pc = "finish"
  /\ HoldsFence(p, turn[p].run)
  /\ journal' = [journal EXCEPT ![turn[p].run][turn[p].call] = "done"]
  /\ Goto(p, "respond")
  /\ UNCHANGED <<run, lease, own, items, life, events, gw, proc, cache, sick,
                 closing>>

InCall == {"begin", "invoke", "dispatch", "result", "finish", "respond"}

\* Core records an output of the call: the response, or an error when the
\* handler returned one.  Its lifecycle hook leaves dynamic calls alone.
CoreOutput(p) ==
  /\ turn[p].pc \in InCall /\ turn[p].mode = "core"
  /\ CoreAppends(p, "out", turn[p].call)
  /\ turn' = [turn EXCEPT ![p].pc = "core", ![p].call = None]
  /\ UNCHANGED <<run, lease, own, journal, life, events, gw, proc, cache,
                 closing>>

\* The stop hook closes what is still open; Core records the end of the turn.
CoreCompletes(p) ==
  /\ turn[p].pc = "core"
  /\ IF MayWrite(p) THEN CloseCalls(turn[p].run) ELSE UNCHANGED life
  /\ CoreAppends(p, "completed", None)
  /\ Goto(p, "completing")
  /\ UNCHANGED <<run, lease, own, journal, events, gw, proc, cache, closing>>

\* The projection of TurnCompleted: admit_turn_terminal closes the calls ...
AdmitCompleted(p) ==
  /\ turn[p].pc = "completing"
  /\ MayWrite(p) /\ Healthy(p)
  /\ CloseCalls(turn[p].run)
  /\ Goto(p, "finished")
  /\ UNCHANGED <<run, lease, own, journal, items, events, gw, proc, cache, sick,
                 closing>>

\* ... then run_finished is appended and sent.
ProjectFinished(p) ==
  /\ turn[p].pc = "finished"
  /\ MayWrite(p) /\ Healthy(p)
  /\ SendTerminal(turn[p].run, "succeeded")
  /\ Idle(p)
  /\ UNCHANGED <<run, lease, own, journal, items, life, gw, proc, cache, sick,
                 closing>>

\* publish_terminal_failure when either fails: run_error is sent, stored or
\* not; unless stored it may reach nobody.
ProjectFailure(p) ==
  /\ turn[p].pc \in {"completing", "finished"}
  /\ SendTerminal(turn[p].run, "failed") \/ UNCHANGED events
  /\ sick' = sick \cup {p}
  /\ Idle(p)
  /\ UNCHANGED <<run, lease, own, journal, items, life, gw, proc, cache,
                 closing>>

\* A cancelled turn is aborted: the abort hook closes its open calls.
CoreAborts(p) ==
  LET r == turn[p].run IN
  /\ turn[p].mode = "core" /\ turn[p].pc \in InCall \cup {"core"}
  /\ run[r] \in Ended
  /\ IF MayWrite(p) THEN CloseCalls(r) ELSE UNCHANGED life
  /\ CoreAppends(p, "aborted", None)
  /\ Idle(p)
  /\ UNCHANGED <<run, lease, own, journal, events, gw, proc, cache, closing>>

-----------------------------------------------------------------------------
(* The recovery loop of a process.                                         *)

\* An expired claim of another process is taken over.
TakeOver(p, r) ==
  /\ Up(p) /\ turn[p].pc = "idle" /\ closing[p] = None
  /\ Owned(r) /\ Claimable(p, r)
  /\ Claim(p, r)
  /\ turn' = [turn EXCEPT ![p] = [IdleTurn EXCEPT !.pc = "reading",
                                                  !.run = r,
                                                  !.mode = "recovery"]]
  /\ UNCHANGED <<run, lease, journal, items, life, events, gw, proc, sick,
                 closing>>

\* recover_claim reads the history and the journal: a superseded turn fails, an
\* ended one only needs its projection, of any other the calls without an
\* output are to be answered.
ReadHistory(p) ==
  LET r == turn[p].run
      journaled == {c \in Calls : journal[r][c] # "none"}
  IN
  /\ turn[p].pc = "reading"
  /\ turn' = [turn EXCEPT ![p] =
       IF Superseded(r)
       THEN [@ EXCEPT !.pc = "projecting", !.mode = "failing", !.st = "failed"]
       ELSE IF Ends(r) # {}
       THEN [@ EXCEPT !.pc = "projecting", !.st = EndStatus(r)]
       ELSE [@ EXCEPT !.pc = "recovering",
                      !.todo = (TailCalls(r) \cup journaled) \ TailOutputs(r)]]
  /\ UNCHANGED <<store, gw, proc, cache, sick, closing>>

RecoverCall(p, c) ==
  /\ turn[p].pc = "recovering"
  /\ c \in turn[p].todo
  /\ turn' = [turn EXCEPT ![p].pc = "begin", ![p].call = c,
                          ![p].todo = @ \ {c}]
  /\ UNCHANGED <<store, gw, proc, cache, sick, closing>>

\* inject_invocation_output: a read whether Core committed the output before
\* the old process died, then an append.
FindOutput(p) ==
  /\ turn[p].pc = "respond" /\ turn[p].mode = "recovery"
  /\ IF \E i \in Positions("out") : items[i].c = turn[p].call
     THEN turn' = [turn EXCEPT ![p].pc = "recovering", ![p].call = None]
     ELSE Goto(p, "inject")
  /\ UNCHANGED <<store, gw, proc, cache, sick, closing>>

InjectOutput(p) ==
  /\ turn[p].pc = "inject"
  /\ AppendItem(p, "out", turn[p].call)
  /\ turn' = [turn EXCEPT ![p].pc = "recovering", ![p].call = None]
  /\ UNCHANGED <<run, lease, own, journal, life, events, gw, proc, cache, sick,
                 closing>>

\* Every call is answered: Core is loaded and goes on with the same turn.
ResumeTurn(p) ==
  /\ turn[p].pc = "recovering" /\ turn[p].todo = {}
  /\ MayExecute(p, turn[p].run)
  /\ Goto(p, "starting")
  /\ UNCHANGED <<store, gw, proc, cache, sick, closing>>

Projecting == {"projecting", "admitting", "closing", "sending"}

\* Any error on the way, a lost fence or an unavailable store among them, leads
\* to fail_recovery; a failed append is remembered.
RecoveryError(p) ==
  /\ turn[p].mode = "recovery"
  /\ turn[p].pc \in InCall \cup Projecting \cup {"reading", "recovering", "inject"}
  /\ turn' = [turn EXCEPT ![p] = [IdleTurn EXCEPT !.pc = "projecting",
                                                  !.run = turn[p].run,
                                                  !.mode = "failing",
                                                  !.st = "failed"]]
  /\ sick' \in {sick, sick \cup {p}}
  /\ UNCHANGED <<store, gw, proc, cache, closing>>

\* terminal_projection, four transactions: assert the claim, close the calls,
\* close the run, send the terminal event.
AssertTerminal(p) ==
  /\ turn[p].pc = "projecting"
  /\ MayExecute(p, turn[p].run)
  /\ Goto(p, "admitting")
  /\ UNCHANGED <<store, gw, proc, cache, sick, closing>>

AdmitTerminal(p) ==
  /\ turn[p].pc = "admitting"
  /\ MayWrite(p) /\ Healthy(p)
  /\ CloseCalls(turn[p].run)
  /\ Goto(p, "closing")
  /\ UNCHANGED <<run, lease, own, journal, items, events, gw, proc, cache, sick,
                 closing>>

CloseTerminal(p) ==
  LET r == turn[p].run IN
  /\ turn[p].pc = "closing"
  /\ run' = IF IsActive(r) /\ HoldsFence(p, r)
            THEN [run EXCEPT ![r] = turn[p].st] ELSE run
  /\ Goto(p, "sending")
  /\ UNCHANGED <<lease, own, journal, items, life, events, gw, proc, cache,
                 sick, closing>>

ReportTerminal(p) ==
  /\ turn[p].pc = "sending"
  /\ MayWrite(p)
  /\ turn[p].st = "completed" => Healthy(p)
  /\ SendTerminal(turn[p].run, turn[p].st)
  /\ Idle(p)
  /\ UNCHANGED <<run, lease, own, journal, items, life, gw, proc, cache, sick,
                 closing>>

\* The error of fail_recovery is dropped; the claim stays cached and renewed.
GiveUpRecovery(p) ==
  /\ turn[p].mode = "failing"
  /\ Idle(p)
  /\ sick' \in {sick, sick \cup {p}}
  /\ UNCHANGED <<store, gw, proc, cache, closing>>

\* Mutant: authority that has ended is left to the owner.
NeverClose(p, r) == FALSE /\ UNCHANGED vars

\* close_expired_authority: the run is failed first, in its own transaction;
\* the calls and the event follow, and an error there is dropped.
CloseExpired(p, r) ==
  /\ Up(p) /\ closing[p] = None
  /\ IsActive(r) /\ Owned(r) /\ ~own[r].live /\ ~lease[r]
  /\ run' = [run EXCEPT ![r] = "failed"]
  /\ closing' = [closing EXCEPT ![p] = r]
  /\ UNCHANGED <<lease, own, journal, items, life, events, gw, proc, cache,
                 sick, turn>>

ReportClosed(p) ==
  LET r == closing[p] IN
  /\ r # None
  /\ IF MayWrite(p) /\ Healthy(p) THEN CloseCalls(r) ELSE UNCHANGED life
  /\ IF MayWrite(p) THEN SendTerminal(r, "failed") /\ UNCHANGED sick
     ELSE UNCHANGED events /\ sick' = sick \cup {p}
  /\ closing' = [closing EXCEPT ![p] = None]
  /\ UNCHANGED <<run, lease, own, journal, items, gw, proc, cache, turn>>

\* A process leaves with its memory.
Leave(p, how) ==
  /\ proc' = [proc EXCEPT ![p] = how]
  /\ cache' = [cache EXCEPT ![p] = NoClaim]
  /\ sick' = sick \ {p}
  /\ Idle(p)
  /\ closing' = [closing EXCEPT ![p] = None]
  /\ UNCHANGED <<store, gw>>

\* heartbeat_execution is refused and the run is still active: the process
\* retires.
HeartbeatRefused(p) ==
  LET r == cache[p].run IN
  /\ Up(p) /\ closing[p] = None
  /\ cache[p] # NoClaim
  /\ IsActive(r)
  /\ ~MayExecute(p, r)
  /\ Leave(p, "retired")

\* A crash, or a heartbeat the store does not answer.
Crash(p) == Up(p) /\ Leave(p, "gone")

-----------------------------------------------------------------------------
(* The Gateway, the user and the clock.                                    *)

OwnerLeaseExpires(r) ==
  /\ own[r].live
  /\ own' = [own EXCEPT ![r].live = FALSE]
  /\ UNCHANGED <<run, lease, journal, items, life, events, gw, process>>

\* The model lease expires or the snapshot is revoked.
AuthorityEnds(r) ==
  /\ lease[r]
  /\ lease' = [lease EXCEPT ![r] = FALSE]
  /\ UNCHANGED <<run, own, journal, items, life, events, gw, process>>

\* interrupt_turn: cancel_runtime_execution and the cancelled event commit
\* together.
InterruptTurn(r) ==
  /\ IsActive(r)
  /\ run' = [run EXCEPT ![r] = "cancelled"]
  /\ lease' = [lease EXCEPT ![r] = FALSE]
  /\ SendTerminal(r, "cancelled")
  /\ UNCHANGED <<own, journal, items, life, gw, process>>

\* Mutant: the status of the event is taken over as it is.
TakenOver(st) == st

\* complete_run knows two statuses; any other is a failure.
CompletedAs(st) ==
  IF st \in {"succeeded", "cancelled"} THEN st ELSE "failed"

\* A terminal event on the stream makes the Gateway close the run.
SeeTerminal(r) ==
  /\ gw[r].pc = "open"
  /\ \E st \in events[r] :
       gw' = [gw EXCEPT ![r] = [pc |-> "asked", st |-> CompletedAs(st)]]
  /\ UNCHANGED <<store, process>>

\* complete_run and fail_run: the lease first, the run in a second statement.
RevokeLease(r) ==
  /\ gw[r].pc = "asked"
  /\ lease' = [lease EXCEPT ![r] = FALSE]
  /\ gw' = [gw EXCEPT ![r].pc = "revoked"]
  /\ UNCHANGED <<run, own, journal, items, life, events, process>>

\* Mutant: the run is closed whatever it is.
OverwriteStatus(r) ==
  /\ gw[r].pc = "revoked"
  /\ run' = [run EXCEPT ![r] = gw[r].st]
  /\ gw' = [gw EXCEPT ![r].pc = "done"]
  /\ UNCHANGED <<lease, own, journal, items, life, events, process>>

CloseRun(r) ==
  /\ gw[r].pc = "revoked"
  /\ run' = [run EXCEPT ![r] = IF @ = "running" THEN gw[r].st ELSE @]
  /\ gw' = [gw EXCEPT ![r].pc = "done"]
  /\ UNCHANGED <<lease, own, journal, items, life, events, process>>

-----------------------------------------------------------------------------

Init ==
  /\ run = [r \in Runs |-> "absent"]
  /\ lease = [r \in Runs |-> FALSE]
  /\ own = [r \in Runs |-> NoOwner]
  /\ journal = [r \in Runs |-> [c \in Calls |-> "none"]]
  /\ items = <<>>
  /\ life = [r \in Runs |-> [c \in Calls |-> "none"]]
  /\ events = [r \in Runs |-> {}]
  /\ gw = [r \in Runs |-> NoRequest]
  /\ proc = [p \in Procs |-> "up"]
  /\ cache = [p \in Procs |-> NoClaim]
  /\ sick = {}
  /\ turn = [p \in Procs |-> IdleTurn]
  /\ closing = [p \in Procs |-> None]

LiveTurn(p) ==
  \/ AdmitTurn(p) \/ StartRejected(p) \/ CoreStarts(p)
  \/ \E c \in Calls : CoreCall(p, c)
  \/ BeginInvocation(p) \/ PublishCall(p) \/ DispatchCall(p)
  \/ RecordResult(p) \/ FinishInvocation(p)
  \/ CoreOutput(p) \/ CoreCompletes(p) \/ CoreAborts(p)
  \/ AdmitCompleted(p) \/ ProjectFinished(p) \/ ProjectFailure(p)

Recovery(p) ==
  \/ ReadHistory(p) \/ \E c \in Calls : RecoverCall(p, c)
  \/ FindOutput(p) \/ InjectOutput(p) \/ ResumeTurn(p) \/ RecoveryError(p)
  \/ AssertTerminal(p) \/ AdmitTerminal(p) \/ CloseTerminal(p)
  \/ ReportTerminal(p) \/ GiveUpRecovery(p)

RecoveryLoop(p) ==
  \/ HeartbeatRefused(p) \/ ReportClosed(p)
  \/ \E r \in Runs : CloseExpired(p, r) \/ TakeOver(p, r)

Gateway(r) ==
  \/ IssueTurn(r) \/ StartRefused(r)
  \/ SeeTerminal(r) \/ RevokeLease(r) \/ CloseRun(r)

Next ==
  \/ \E p \in Procs :
       \/ Crash(p) \/ \E r \in Runs : StartTurn(p, r)
       \/ LiveTurn(p) \/ Recovery(p) \/ RecoveryLoop(p)
  \/ \E r \in Runs :
       \/ Gateway(r) \/ InterruptTurn(r)
       \/ OwnerLeaseExpires(r) \/ AuthorityEnds(r)

Spec == Init /\ [][Next]_vars

\* What runs by itself: an owner lease that is no longer renewed and a model
\* lease run out, and the recovery loop of a live process comes round.
Progress ==
  /\ \A r \in Runs :
       /\ WF_vars(AuthorityEnds(r))
       /\ WF_vars(OwnerLeaseExpires(r) /\ ~lease[r])
  /\ \A p \in Procs :
       /\ WF_vars(LiveTurn(p)) /\ WF_vars(Recovery(p))
       /\ WF_vars(ReportClosed(p)) /\ WF_vars(HeartbeatRefused(p))
       /\ \A r \in Runs : WF_vars(CloseExpired(p, r))

FairSpec == Spec /\ Progress

-----------------------------------------------------------------------------
(* Correctness of ownership and recovery.                                  *)

TurnType ==
  [pc : {"idle", "starting", "admitted", "core", "completing", "finished",
         "reading", "recovering", "inject"} \cup InCall \cup Projecting,
   run : Runs \cup {None}, mode : {None, "core", "recovery", "failing"},
   todo : SUBSET Calls, call : Calls \cup {None},
   st : {None, "completed", "failed", "cancelled"}]
ItemType ==
  [kind : {"start", "call", "out", "completed", "aborted"}, r : Runs,
   c : Calls \cup {None}, fence : 1..MaxFence]

\* The type of every variable.
TypeOK ==
  /\ run \in [Runs -> {"absent", "running"} \cup Ended]
  /\ lease \in [Runs -> BOOLEAN]
  /\ own \in [Runs -> [p : Procs \cup {None}, fence : 0..MaxFence,
                       live : BOOLEAN]]
  /\ journal \in [Runs -> [Calls -> {"none", "open", "done"}]]
  /\ items \in Seq(ItemType)
  /\ life \in [Runs -> [Calls -> {"none", "open", "closed", "done"}]]
  /\ events \in [Runs -> SUBSET Ended]
  /\ gw \in [Runs -> [pc : {"none", "posting", "open", "asked", "revoked",
                            "done"},
                      st : {None, "succeeded", "failed", "cancelled"}]]
  /\ proc \in [Procs -> {"up", "gone", "retired"}]
  /\ cache \in [Procs -> [run : Runs \cup {None}, fence : 0..MaxFence]]
  /\ sick \in SUBSET Procs
  /\ turn \in [Procs -> TurnType]
  /\ closing \in [Procs -> Runs \cup {None}]

\* The thread has one owned run at a time, whichever processes race for its
\* turns: two turns never run on the same history (claim_runtime_execution).
OneOwnedRun ==
  \A r, q \in Runs :
    Owned(r) /\ IsActive(r) /\ Owned(q) /\ IsActive(q) => r = q

\* A process that lost its run to another one writes nothing into the turn's
\* history after that one's first item: the fence is asserted in the
\* transaction of every append (check_execution_write).
HistoryFollowsFences ==
  \A i, j \in 1..Len(items) :
    i < j /\ items[i].r = items[j].r => items[i].fence <= items[j].fence

\* A turn's history holds one output per call, although the old process may
\* commit it between two steps of the new one's inject_invocation_output.
OneOutputPerCall ==
  \A i, j \in Positions("out") :
    items[i].r = items[j].r /\ items[i].c = items[j].c => i = j

\* A run that counts as successful has its end and an output for each of its
\* calls in the durable history, and no call left open: an append that failed
\* on the way is sticky (check_write_health) and forbids run_finished.
SuccessIsRecorded ==
  \A r \in Runs : run[r] \in {"succeeded", "completed"} =>
    /\ \E i \in Ends(r) : items[i].kind = "completed"
    /\ \A i \in Positions("call") : items[i].r = r =>
         \E j \in Positions("out") : items[j].c = items[i].c
    /\ \A c \in Calls : life[r][c] # "open"

\* A call whose response is in the journal is not sent to the worker again, by
\* a recovering process or by one that is no longer the owner.
DoneCallIsNotDispatched ==
  [][\A p \in Procs :
       turn[p].pc = "dispatch" /\ turn'[p].pc = "result"
         => journal[turn[p].run][turn[p].call] # "done"]_vars

\* The status of a closed run never changes again: the Gateway, the owner,
\* recovery and the user race, and the first one decides.
RunStatusIsFinal ==
  [][\A r \in Runs : run[r] \in Ended => run'[r] = run[r]]_vars

\* A claimed run ends, as long as some Runtime process stays up: its authority
\* runs out, its owner lease with it, and close_expired_authority fails it.
ClaimedRunEnds ==
  (\E p \in Procs : <>[]Up(p)) =>
    \A r \in Runs : Owned(r) ~> run[r] \in Ended

=============================================================================
