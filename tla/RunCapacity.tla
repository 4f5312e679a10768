---------------------------- MODULE RunCapacity ----------------------------
(***************************************************************************)
(* Admission of Agent runs by the Gateway: a run takes a slot of its       *)
(* gateway process (an asyncio.Condition and a counter), then a member of  *)
(* the cluster's sorted set in Redis (one Lua script for the shared and    *)
(* the tenant key), is posted to the Runtime, and is watched until a       *)
(* terminal or an acknowledged interrupt gives the slot back.              *)
(*   core/gateway/admission.py, core/gateway/lua_scripts.py,               *)
(*   services/agent_runtime/control/capacity.py, control_plane.py          *)
(* The Runtime is external: it may finish a run, recover it elsewhere, or  *)
(* acknowledge an interrupt while another process still executes the run.  *)
(***************************************************************************)
EXTENDS Naturals, FiniteSets

CONSTANTS Gateways, Runs, Tenants,
          Home,         \* the gateway that takes the start request of a run
          Tenant,       \* the tenant of a run
          Limit,        \* budget.limit: of each process and of the cluster
          TenantLimit,  \* the tenant's share of it
          QueueMax,     \* budget.queue_max
          MaxFaults     \* bound: failed calls, lost leases and crashes

ASSUME CapacityAssumption ==
  /\ Home \in [Runs -> Gateways] /\ Tenant \in [Runs -> Tenants]
  /\ Limit \in Nat \ {0} /\ TenantLimit \in Nat \ {0}
  /\ QueueMax \in Nat /\ MaxFaults \in Nat /\ IsFiniteSet(Runs)

VARIABLES st,        \* where the start request or the watch of a run is
          lease,     \* its CapacityLease, from the local slot to the release
          inflight,  \* _LocalBudgetState.inflight of each gateway
          members,   \* the members of the Redis sets
          lost,      \* leases whose renewal failed (lease.lost)
          lapsed,    \* history: members that expired under a live lease
          ledger,    \* assistant_runs.status
          work,      \* what the Runtime does with the run
          announced, \* runs whose terminal event is in the event stream
          faults

vars == <<st, lease, inflight, members, lost, lapsed, ledger, work,
          announced, faults>>

States == {"new", "queued", "woken", "asking", "starting", "posting",
           "returned", "watching", "stopping", "cut", "interrupting",
           "quarantined", "done", "dead"}
Leases == {"none", "asking", "held", "shared", "local", "released"}

\* capacity.py _TERMINAL: "completed", which recovery writes, is not in it.
LedgerTerminal == {"succeeded", "failed", "cancelled"}

\* Types, and neither set in Redis ever holds more members than its limit.
TypeOK ==
  /\ st \in [Runs -> States] /\ lease \in [Runs -> Leases]
  /\ inflight \in [Gateways -> 0..Limit]
  /\ members \subseteq Runs /\ lost \subseteq Runs /\ lapsed \subseteq Runs
  /\ Cardinality(members) <= Limit
  /\ \A t \in Tenants :
       Cardinality({r \in members : Tenant[r] = t}) <= TenantLimit
  /\ ledger \in [Runs -> {"none", "running", "completed"} \cup LedgerTerminal]
  /\ work \in [Runs -> {"none", "working", "ended"}]
  /\ announced \subseteq Runs
  /\ faults \in 0..MaxFaults

Init ==
  /\ st = [r \in Runs |-> "new"] /\ lease = [r \in Runs |-> "none"]
  /\ inflight = [g \in Gateways |-> 0]
  /\ members = {} /\ lost = {} /\ lapsed = {} /\ announced = {}
  /\ ledger = [r \in Runs |-> "none"] /\ work = [r \in Runs |-> "none"]
  /\ faults = 0

-----------------------------------------------------------------------------
Fault == faults < MaxFaults /\ faults' = faults + 1

Goto(r, s) == st' = [st EXCEPT ![r] = s]

\* Mutant: a second release of the same lease runs again.
ReleaseAgain(r) ==
  lease' = [lease EXCEPT ![r] =
              IF @ \in {"held", "released"} THEN "shared" ELSE @]

\* CapacityLease.release: the first caller starts the one release task.
Release(r) ==
  lease' = [lease EXCEPT ![r] = IF @ = "held" THEN "shared" ELSE @]

\* complete_run writes only a row that is still running.
Close(r, status) ==
  ledger' = [ledger EXCEPT ![r] = IF @ = "running" THEN status ELSE @]

HasSlot(r) == lease[r] \in {"asking", "held", "shared", "local"}

AdmissionVars == <<inflight, members, lost, lapsed>>
RuntimeVars == <<ledger, work, announced>>

-----------------------------------------------------------------------------
(* The local budget: _acquire_local. *)

Waiting(g) == {r \in Runs : Home[r] = g /\ st[r] \in {"queued", "woken"}}

\* A slot is free: taken by a new request, or by a waiter that was notified.
TakeSlot(r) ==
  LET g == Home[r] IN
  /\ st[r] \in {"new", "woken"} /\ inflight[g] < Limit
  /\ inflight' = [inflight EXCEPT ![g] = @ + 1]
  /\ Goto(r, "asking") /\ lease' = [lease EXCEPT ![r] = "asking"]
  /\ UNCHANGED <<members, lost, lapsed, RuntimeVars, faults>>

\* No slot: wait, if the queue has room.
Wait(r) ==
  /\ inflight[Home[r]] >= Limit
  /\ \/ st[r] = "new" /\ Cardinality(Waiting(Home[r])) < QueueMax
     \/ st[r] = "woken"
  /\ Goto(r, "queued")
  /\ UNCHANGED <<lease, AdmissionVars, RuntimeVars, faults>>

\* Refused: no room to wait, the deadline, or the client went away. A
\* notification that the waiter had already received is lost with it.
GiveUp(r) ==
  /\ \/ st[r] = "new" /\ inflight[Home[r]] >= Limit
                      /\ Cardinality(Waiting(Home[r])) >= QueueMax
     \/ st[r] \in {"queued", "woken"}
  /\ Goto(r, "done")
  /\ UNCHANGED <<lease, AdmissionVars, RuntimeVars, faults>>

-----------------------------------------------------------------------------
(* The shared and the tenant budget: one script for both keys. *)

\* Mutant: the script admits one member too many.
FitsAtLimit(r) ==
  /\ Cardinality(members) <= Limit
  /\ Cardinality({q \in members : Tenant[q] = Tenant[r]}) <= TenantLimit

Fits(r) ==
  /\ Cardinality(members) < Limit
  /\ Cardinality({q \in members : Tenant[q] = Tenant[r]}) < TenantLimit

Admit(r) ==
  /\ st[r] = "asking" /\ Fits(r)
  /\ members' = members \cup {r}
  /\ lease' = [lease EXCEPT ![r] = "held"] /\ Goto(r, "starting")
  /\ UNCHANGED <<inflight, lost, lapsed, RuntimeVars, faults>>

\* Rejected by either limit: the script leaves no member, the local slot goes
\* back.
Reject(r) ==
  /\ st[r] = "asking" /\ ~Fits(r)
  /\ lease' = [lease EXCEPT ![r] = "local"] /\ Goto(r, "done")
  /\ UNCHANGED <<AdmissionVars, RuntimeVars, faults>>

\* The client leaves while the script runs: its answer is awaited and the pair
\* released. The script fails or its answer is lost: GATEWAY_CAPACITY_DEGRADED
\* gives only the local slot back, a member that was added stays to its expiry.
AskFails(r) ==
  /\ st[r] = "asking"
  /\ members' \in {members} \cup {members \cup {q} : q \in {q \in {r} : Fits(q)}}
  /\ \/ lease' = [lease EXCEPT ![r] = "shared"] /\ UNCHANGED faults
     \/ lease' = [lease EXCEPT ![r] = "local"] /\ Fault
  /\ Goto(r, "done")
  /\ UNCHANGED <<inflight, lost, lapsed, RuntimeVars>>

-----------------------------------------------------------------------------
(* ControlPlane.start_turn. *)

\* issue_assistant_runtime_turn opens the run; note_dispatch remembers it
\* before the request is sent.
Dispatch(r) ==
  /\ st[r] = "starting"
  /\ ledger' = [ledger EXCEPT ![r] = "running"] /\ Goto(r, "posting")
  /\ UNCHANGED <<lease, AdmissionVars, work, announced, faults>>

\* The start fails before the dispatch, or no connection was made: the lease
\* is released without a stop. The run may already be open in the ledger.
StartFails(r) ==
  /\ st[r] \in {"starting", "posting"} /\ work[r] = "none"
  /\ Fault /\ Release(r) /\ Goto(r, "done")
  /\ UNCHANGED <<AdmissionVars, RuntimeVars>>

\* The Runtime refuses the turn, which it may have started all the same:
\* _fail_run, then the unconfirmed stop.
PostRejected(r) ==
  /\ st[r] = "posting"
  /\ Fault /\ Close(r, "failed") /\ Goto(r, "interrupting")
  /\ UNCHANGED <<lease, AdmissionVars, work, announced>>

\* Mutant: a lost answer is taken for a request that was never sent.
PostLostReleases(r) ==
  /\ st[r] = "posting"
  /\ Fault /\ Release(r) /\ Goto(r, "done")
  /\ UNCHANGED <<AdmissionVars, RuntimeVars>>

\* The answer is lost or the client leaves: the request may be on its way.
\* stop_run trusts no ledger row of an unconfirmed dispatch.
PostLost(r) ==
  /\ st[r] = "posting"
  /\ Fault /\ Goto(r, "interrupting")
  /\ UNCHANGED <<lease, AdmissionVars, RuntimeVars>>

PostAccepted(r) ==
  /\ st[r] = "posting" /\ work[r] # "none"
  /\ Goto(r, "returned")
  /\ UNCHANGED <<lease, AdmissionVars, RuntimeVars, faults>>

-----------------------------------------------------------------------------
(* watch_run and stop_run. *)

\* bind_owner refuses a lease lost during the handover; a ledger row that is
\* already terminal needs no stream.
WatchBegins(r) ==
  /\ st[r] = "returned"
  /\ \/ r \in lost /\ Goto(r, "stopping") /\ UNCHANGED lease
     \/ /\ r \notin lost /\ ledger[r] \in LedgerTerminal
        /\ Release(r) /\ Goto(r, "done")
     \/ /\ r \notin lost /\ ledger[r] \notin LedgerTerminal
        /\ Goto(r, "watching") /\ UNCHANGED lease
  /\ UNCHANGED <<AdmissionVars, RuntimeVars, faults>>

\* consume: the ledger row, or the terminal event, which completes the run.
WatchSees(r) ==
  /\ st[r] = "watching"
  /\ \/ ledger[r] \in LedgerTerminal /\ UNCHANGED ledger
     \/ r \in announced /\ Close(r, "succeeded")
  /\ Release(r) /\ Goto(r, "done")
  /\ UNCHANGED <<AdmissionVars, work, announced, faults>>

\* Mutant: only a lost lease ends a watch.
WatchWithoutTtl(r) ==
  /\ st[r] = "watching" /\ r \in lost /\ Goto(r, "stopping")
  /\ UNCHANGED <<lease, AdmissionVars, RuntimeVars, faults>>

\* lease_ttl_seconds, or an error of the ledger or the stream that is not
\* retried.
WatchTimeout(r) ==
  /\ st[r] \in {"returned", "watching"} /\ Goto(r, "stopping")
  /\ UNCHANGED <<lease, AdmissionVars, RuntimeVars, faults>>

\* stop_run first asks the ledger. A cancellation that arrived meanwhile
\* leaves the finally block before the release ("cut").
StopReads(r) ==
  /\ st[r] \in {"stopping", "cut"}
  /\ \/ /\ ledger[r] \in LedgerTerminal /\ st[r] = "stopping"
        /\ Release(r) /\ Goto(r, "done")
     \/ /\ ledger[r] \in LedgerTerminal /\ st[r] = "cut"
        /\ Goto(r, "quarantined") /\ UNCHANGED lease
     \/ /\ ledger[r] \notin LedgerTerminal
        /\ Goto(r, "interrupting") /\ UNCHANGED lease
  /\ UNCHANGED <<AdmissionVars, RuntimeVars, faults>>

\* The ledger cannot be read: interrupt.
StopBlind(r) ==
  /\ st[r] \in {"stopping", "cut"} /\ Fault /\ Goto(r, "interrupting")
  /\ UNCHANGED <<lease, AdmissionVars, RuntimeVars>>

\* cancel_runtime_execution and interrupt_turn: the Runtime commits the
\* cancellation, also of a run that has ended, and of one that another process
\* goes on executing.
Interrupt(r) ==
  /\ Close(r, "cancelled")
  /\ announced' = IF ledger'[r] = "cancelled" THEN announced \cup {r} ELSE announced
  /\ \/ work[r] = "working" /\ work' = [work EXCEPT ![r] = "ended"]
     \/ UNCHANGED work

\* It answers 200, and _complete_run releases the lease.
InterruptAcked(r) ==
  /\ st[r] = "interrupting"
  /\ Interrupt(r)
  /\ Release(r) /\ Goto(r, "done")
  /\ UNCHANGED <<AdmissionVars, faults>>

\* Refused, unreachable, or too late, when it may have been committed: the slot
\* is kept.
InterruptFails(r) ==
  /\ st[r] = "interrupting" /\ Fault /\ Goto(r, "quarantined")
  /\ Interrupt(r) \/ UNCHANGED RuntimeVars
  /\ UNCHANGED <<lease, AdmissionVars>>

\* A client reads the terminal event: through the gateway of the run, whose
\* _complete_run finds a registered lease, or through another one.
Registered(r) ==
  st[r] \in {"returned", "watching", "stopping", "cut", "interrupting",
             "quarantined"}

ClientStream(r) ==
  /\ r \in announced /\ Close(r, "succeeded")
  /\ \/ Registered(r) /\ Release(r)
     \/ UNCHANGED lease
  /\ UNCHANGED <<st, AdmissionVars, work, announced, faults>>

-----------------------------------------------------------------------------
(* CapacityLease.release, the renewal and the expiry. *)

ReleaseShared(r) ==
  /\ lease[r] = "shared" /\ lease' = [lease EXCEPT ![r] = "local"]
  /\ \/ members' = members \ {r} /\ UNCHANGED faults
     \/ UNCHANGED members /\ Fault
  /\ UNCHANGED <<st, inflight, lost, lapsed, RuntimeVars>>

\* _release_local: the counter, and one waiter is notified.
ReleaseLocal(r) ==
  LET g == Home[r]
      sleeping == {q \in Runs : Home[q] = g /\ st[q] = "queued"}
  IN
  /\ lease[r] = "local" /\ lease' = [lease EXCEPT ![r] = "released"]
  /\ inflight' = [inflight EXCEPT ![g] = IF @ > 0 THEN @ - 1 ELSE 0]
  /\ \/ sleeping = {} /\ UNCHANGED st
     \/ \E q \in sleeping : Goto(q, "woken")
  /\ UNCHANGED <<members, lost, lapsed, RuntimeVars, faults>>

Renewed(r) == lease[r] = "held" /\ r \notin lost

\* The renewal finds the member gone, or fails: the lease is lost and the task
\* that owns it is cancelled.
Cancelled(s) ==
  CASE s = "posting" -> "interrupting"
    [] s = "watching" -> "stopping"
    [] s = "stopping" -> "cut"
    [] s = "starting" -> "done"
    [] OTHER -> s

RenewFails(r) ==
  /\ Renewed(r) /\ (IF r \in members THEN Fault ELSE UNCHANGED faults)
  /\ lost' = lost \cup {r}
  /\ Goto(r, Cancelled(st[r]))
  /\ IF st[r] = "starting" THEN Release(r) ELSE UNCHANGED lease
  /\ UNCHANGED <<inflight, members, lapsed, RuntimeVars>>

\* The member's score passes: nobody renews it, or the renewal was too late.
Expire(r) ==
  /\ r \in members /\ members' = members \ {r}
  /\ \/ ~Renewed(r) /\ UNCHANGED <<lapsed, faults>>
     \/ Renewed(r) /\ Fault /\ lapsed' = lapsed \cup {r}
  /\ UNCHANGED <<st, lease, inflight, lost, RuntimeVars>>

\* The gateway process ends: its counters, queue, leases and watches are gone.
Crash(g) ==
  LET here == {r \in Runs : Home[r] = g /\ st[r] # "new"} IN
  /\ here # {} /\ Fault
  /\ inflight' = [inflight EXCEPT ![g] = 0]
  /\ st' = [r \in Runs |-> IF r \in here THEN "dead" ELSE st[r]]
  /\ lease' = [r \in Runs |-> IF r \in here /\ lease[r] # "none"
                              THEN "released" ELSE lease[r]]
  /\ UNCHANGED <<members, lost, lapsed, RuntimeVars>>

-----------------------------------------------------------------------------
(* The Runtime (external). *)

\* A posted turn starts while its run is open; also after the answer was lost.
Arrive(r) ==
  /\ st[r] \in {"posting", "interrupting", "quarantined", "dead"}
  /\ work[r] = "none" /\ ledger[r] = "running"
  /\ work' = [work EXCEPT ![r] = "working"]
  /\ UNCHANGED <<st, lease, AdmissionVars, ledger, announced, faults>>

\* The turn ends with its event; or recovery closes the row first, and may end
\* before it appends the event.
Finish(r) ==
  /\ work[r] = "working" /\ work' = [work EXCEPT ![r] = "ended"]
  /\ \/ announced' = announced \cup {r} /\ UNCHANGED ledger
     \/ \E s \in {"completed", "failed"} :
          Close(r, s) /\ announced' \in {announced, announced \cup {r}}
  /\ UNCHANGED <<st, lease, AdmissionVars, faults>>

-----------------------------------------------------------------------------
\* The asyncio loop runs every task that is ready; timers go off.
GatewayStep(r) ==
  \/ TakeSlot(r) \/ Wait(r) \/ GiveUp(r) \/ Admit(r) \/ Reject(r)
  \/ Dispatch(r) \/ PostAccepted(r) \/ WatchBegins(r) \/ WatchSees(r)
  \/ WatchTimeout(r) \/ StopReads(r) \/ InterruptAcked(r)
  \/ ReleaseShared(r) \/ ReleaseLocal(r)

Next ==
  \/ \E r \in Runs :
       \/ GatewayStep(r) \/ AskFails(r) \/ StartFails(r) \/ PostRejected(r)
       \/ PostLost(r) \/ StopBlind(r) \/ InterruptFails(r) \/ ClientStream(r)
       \/ RenewFails(r) \/ Expire(r) \/ Arrive(r) \/ Finish(r)
  \/ \E g \in Gateways : Crash(g)

Fairness == \A r \in Runs :
  /\ WF_vars(GatewayStep(r) /\ st'[r] # "queued")
  /\ WF_vars(Arrive(r))
  /\ WF_vars(ReleaseShared(r)) /\ WF_vars(ReleaseLocal(r))

Spec == Init /\ [][Next]_vars /\ Fairness

-----------------------------------------------------------------------------
\* Slots are exact: the counter of a gateway is the number of runs that hold
\* one of its slots, whoever of the watch, a client's stream, an interrupt and
\* a failed start released a lease, and never passes the limit.
SlotsAreExact ==
  \A g \in Gateways :
    /\ inflight[g] = Cardinality({r \in Runs : Home[r] = g /\ HasSlot(r)})
    /\ inflight[g] <= Limit

\* Work is covered: while the Runtime executes a run that is open in the
\* ledger, its gateway keeps the run's slot and, unless the renewal failed or
\* came too late, its member of the cluster's sets (stop_run: "release only
\* after an authoritative terminal/ack").
WorkIsCovered ==
  \A r \in Runs :
    work[r] = "working" /\ ledger[r] = "running" /\ st[r] # "dead" =>
      /\ lease[r] = "held"
      /\ r \in members \/ r \in lost \cup lapsed

\* Slots come back: a slot that is taken is given back, even when the ledger
\* says "completed" or the terminal event was never written; it is kept for
\* good only after a failed call (run_capacity_quarantined).
SlotsComeBack ==
  \A r \in Runs :
    HasSlot(r) ~> ~HasSlot(r) \/ (st[r] = "quarantined" /\ faults > 0)
=============================================================================
