------------------------- MODULE RunCapacityProofs -------------------------
(***************************************************************************)
(* Admission of Agent runs for every number of gateways, runs and tenants, *)
(* every limit and every number of faults: the limits hold, slots are      *)
(* counted exactly, and no open run is executed without its slot.          *)
(***************************************************************************)
EXTENDS RunCapacity, FiniteSetTheorems, TLAPS

-----------------------------------------------------------------------------
(* The inductive invariant.                                                *)

\* The stations of a start request or a watch that own a dispatched run.
Owning == {"posting", "returned", "watching", "stopping", "cut",
           "interrupting", "quarantined"}

\* A lease that has not been released, with its member unless that expired.
Covered(r) == lease[r] = "held" /\ r \in members \cup lost \cup lapsed

\* Where a request is tells what it holds; and a run open in the ledger is
\* owned under a covered lease, or its gateway died, or it was given up
\* before anything could reach the Runtime.
Stage(r) ==
  /\ st[r] \in {"new", "queued", "woken"} => lease[r] = "none"
  /\ st[r] = "asking" => lease[r] = "asking"
  /\ st[r] = "starting" => Covered(r)
  /\ ledger[r] = "running" =>
       \/ st[r] \in Owning /\ Covered(r)
       \/ st[r] = "done" /\ work[r] = "none"
       \/ st[r] = "dead"
StageInv == \A r \in Runs : Stage(r)

CapacityInv == TypeOK /\ SlotsAreExact /\ StageInv

-----------------------------------------------------------------------------
(* Types, limits and slots, apart.                                         *)

Ledgers == {"none", "running", "completed"} \cup LedgerTerminal
Types ==
  /\ st \in [Runs -> States] /\ lease \in [Runs -> Leases]
  /\ inflight \in [Gateways -> 0..Limit]
  /\ members \subseteq Runs /\ lost \subseteq Runs /\ lapsed \subseteq Runs
  /\ ledger \in [Runs -> Ledgers]
  /\ work \in [Runs -> {"none", "working", "ended"}]
  /\ announced \subseteq Runs
  /\ faults \in 0..MaxFaults

Share(t) == {r \in members : Tenant[r] = t}
WithinLimits ==
  /\ Cardinality(members) <= Limit
  /\ \A t \in Tenants : Cardinality(Share(t)) <= TenantLimit

Slots(g) == {r \in Runs : Home[r] = g /\ HasSlot(r)}

\* The type invariant is the types and the limits of the sets.
LEMMA TypeParts == TypeOK <=> Types /\ WithinLimits
  BY DEF TypeOK, Types, WithinLimits, Share, Ledgers

\* Members that leave the sets keep the limits.
LEMMA LimitsShrink ==
  ASSUME Types, WithinLimits, members' \subseteq members
  PROVE  WithinLimits'
PROOF
<1>1. IsFiniteSet(members)
  BY CapacityAssumption, FS_Subset DEF Types
<1>2. Cardinality(members') <= Cardinality(members) /\ IsFiniteSet(members')
  BY <1>1, FS_Subset
<1>3. ASSUME NEW t \in Tenants PROVE Cardinality(Share(t)') <= TenantLimit
  <2>1. Share(t)' \subseteq Share(t) /\ Share(t) \subseteq members
    BY DEF Share
  <2>2. IsFiniteSet(Share(t))
    BY <1>1, <2>1, FS_Subset
  <2>3. Cardinality(Share(t)') <= Cardinality(Share(t)) /\ IsFiniteSet(Share(t)')
    BY <2>1, <2>2, FS_Subset
  <2>4. Cardinality(Share(t)) \in Nat /\ Cardinality(Share(t)') \in Nat
    BY <2>2, <2>3, FS_CardinalityType
  <2>5. QED
    BY <2>3, <2>4, CapacityAssumption DEF WithinLimits
<1>4. Cardinality(members) \in Nat /\ Cardinality(members') \in Nat
  BY <1>1, <1>2, FS_CardinalityType
<1>5. QED
  BY <1>2, <1>3, <1>4, CapacityAssumption DEF WithinLimits

\* A set with one element more.
LEMMA CardinalityAdd ==
  ASSUME NEW S, NEW x, NEW n \in Nat, IsFiniteSet(S), Cardinality(S) < n
  PROVE  Cardinality(S \cup {x}) <= n
PROOF
<1>1. Cardinality(S) \in Nat
  BY FS_CardinalityType
<1>2. CASE x \in S
  <2>1. S \cup {x} = S
    BY <1>2
  <2>2. QED
    BY <1>1, <2>1
<1>3. CASE x \notin S
  <2>1. Cardinality(S \cup {x}) = Cardinality(S) + 1
    BY <1>3, FS_AddElement
  <2>2. QED
    BY <1>1, <2>1
<1>4. QED
  BY <1>2, <1>3

\* The script admits a member only while both sets have room.
LEMMA LimitsGrow ==
  ASSUME Types, WithinLimits, NEW r \in Runs, Fits(r), members' = members \cup {r}
  PROVE  WithinLimits'
PROOF
<1>0. Limit \in Nat /\ TenantLimit \in Nat
  BY CapacityAssumption
<1>1. IsFiniteSet(members)
  BY CapacityAssumption, FS_Subset DEF Types
<1>2. Cardinality(members') <= Limit
  BY <1>0, <1>1, CardinalityAdd DEF Fits
<1>3. ASSUME NEW t \in Tenants PROVE Cardinality(Share(t)') <= TenantLimit
  <2>1. IsFiniteSet(Share(t))
    BY <1>1, FS_Subset DEF Share
  <2>2. CASE t = Tenant[r]
    <3>1. Share(t)' = Share(t) \cup {r}
      BY <2>2 DEF Share
    <3>2. Cardinality(Share(t)) < TenantLimit
      BY <2>2 DEF Share, Fits
    <3>3. QED
      BY <1>0, <2>1, <3>1, <3>2, CardinalityAdd
  <2>3. CASE t # Tenant[r]
    <3>1. Share(t)' = Share(t)
      BY <2>3 DEF Share
    <3>2. QED
      BY <3>1 DEF WithinLimits
  <2>4. QED
    BY <2>2, <2>3
<1>4. QED
  BY <1>2, <1>3 DEF WithinLimits

\* The counter stays right when no run takes or gives back a slot.
LEMMA SlotsStay ==
  ASSUME SlotsAreExact, inflight' = inflight,
         \A r \in Runs : HasSlot(r)' <=> HasSlot(r)
  PROVE  SlotsAreExact'
PROOF
<1>1. \A g \in Gateways : Slots(g)' = Slots(g)
  BY DEF Slots
<1>2. QED
  BY <1>1 DEF SlotsAreExact, Slots

\* Releasing a lease does not yet give its slot back.
LEMMA ReleaseKeeps ==
  ASSUME Types, NEW r \in Runs, Release(r) \/ UNCHANGED lease
  PROVE  /\ lease' \in [Runs -> Leases]
         /\ \A q \in Runs : HasSlot(q)' <=> HasSlot(q)
         /\ \A q \in Runs : q # r => lease'[q] = lease[q]
         /\ lease[r] # "held" => lease'[r] = lease[r]
  BY DEF Types, Release, HasSlot, Leases

-----------------------------------------------------------------------------
(* The steps.                                                              *)

\* No request has been taken yet.
LEMMA InitOK == Init => CapacityInv
PROOF
<1> SUFFICES ASSUME Init PROVE CapacityInv
  OBVIOUS
<1> USE CapacityAssumption DEF Init
<1>1. Types
  BY DEF Types, States, Leases, Ledgers
<1>2. \A t \in Tenants : Share(t) = {}
  BY DEF Share
<1>3. WithinLimits
  BY <1>2, FS_EmptySet DEF WithinLimits
<1>4. ASSUME NEW g \in Gateways PROVE Slots(g) = {}
  BY DEF Slots, HasSlot
<1>5. SlotsAreExact
  BY <1>4, FS_EmptySet DEF SlotsAreExact, Slots
<1>6. StageInv
  BY DEF StageInv, Stage
<1>7. QED
  BY <1>1, <1>3, <1>5, <1>6, TypeParts DEF CapacityInv

\* The steps that leave the counters and the sets alone: they move a request
\* or a watch, release its lease at most, or write the ledger.
Plain(r) ==
  \/ Wait(r) \/ GiveUp(r) \/ Dispatch(r) \/ StartFails(r) \/ PostRejected(r)
  \/ PostLost(r) \/ PostAccepted(r) \/ WatchBegins(r) \/ WatchSees(r)
  \/ WatchTimeout(r) \/ StopReads(r) \/ StopBlind(r) \/ InterruptAcked(r)
  \/ InterruptFails(r) \/ ClientStream(r) \/ Arrive(r) \/ Finish(r)

OnlyRun(r) ==
  \A q \in Runs : q # r =>
    /\ st'[q] = st[q] /\ lease'[q] = lease[q]
    /\ ledger'[q] = ledger[q] /\ work'[q] = work[q]

\* A plain step changes the one run it is about, and keeps every map typed.
LEMMA PlainFrame ==
  ASSUME Types, NEW r \in Runs, Plain(r)
  PROVE  /\ Types' /\ OnlyRun(r) /\ UNCHANGED AdmissionVars
         /\ Release(r) \/ UNCHANGED lease
PROOF
<1> USE CapacityAssumption
<1>1. CASE Wait(r)
  BY <1>1, ReleaseKeeps DEF Wait, Goto, Types, OnlyRun, AdmissionVars, RuntimeVars, States
<1>2. CASE GiveUp(r)
  BY <1>2, ReleaseKeeps DEF GiveUp, Goto, Types, OnlyRun, AdmissionVars, RuntimeVars, States
<1>3. CASE Dispatch(r)
  BY <1>3, ReleaseKeeps DEF Dispatch, Goto, Types, OnlyRun, AdmissionVars, RuntimeVars, States, Ledgers
<1>4. CASE StartFails(r)
  BY <1>4, ReleaseKeeps DEF StartFails, Goto, Types, OnlyRun, AdmissionVars, RuntimeVars, States, Fault
<1>5. CASE PostRejected(r)
  BY <1>5, ReleaseKeeps DEF PostRejected, Goto, Types, OnlyRun, AdmissionVars, RuntimeVars, States, Fault, Close, Ledgers, LedgerTerminal
<1>6. CASE PostLost(r)
  BY <1>6, ReleaseKeeps DEF PostLost, Goto, Types, OnlyRun, AdmissionVars, RuntimeVars, States, Fault
<1>7. CASE PostAccepted(r)
  BY <1>7, ReleaseKeeps DEF PostAccepted, Goto, Types, OnlyRun, AdmissionVars, RuntimeVars, States
<1>8. CASE WatchBegins(r)
  BY <1>8, ReleaseKeeps DEF WatchBegins, Goto, Types, OnlyRun, AdmissionVars, RuntimeVars, States
<1>9. CASE WatchSees(r)
  BY <1>9, ReleaseKeeps DEF WatchSees, Goto, Types, OnlyRun, AdmissionVars, RuntimeVars, States, Close, Ledgers, LedgerTerminal
<1>10. CASE WatchTimeout(r)
  BY <1>10, ReleaseKeeps DEF WatchTimeout, Goto, Types, OnlyRun, AdmissionVars, RuntimeVars, States
<1>11. CASE StopReads(r)
  BY <1>11, ReleaseKeeps DEF StopReads, Goto, Types, OnlyRun, AdmissionVars, RuntimeVars, States
<1>12. CASE StopBlind(r)
  BY <1>12, ReleaseKeeps DEF StopBlind, Goto, Types, OnlyRun, AdmissionVars, RuntimeVars, States, Fault
<1>13. CASE InterruptAcked(r)
  BY <1>13, ReleaseKeeps DEF InterruptAcked, Interrupt, Goto, Types, OnlyRun, AdmissionVars, RuntimeVars, States, Close, Ledgers, LedgerTerminal
<1>14. CASE InterruptFails(r)
  BY <1>14, ReleaseKeeps DEF InterruptFails, Interrupt, Close, LedgerTerminal, Ledgers, Goto, Types, OnlyRun, AdmissionVars, RuntimeVars, States, Fault
<1>15. CASE ClientStream(r)
  BY <1>15, ReleaseKeeps DEF ClientStream, Goto, Types, OnlyRun, AdmissionVars, RuntimeVars, States, Close, Ledgers, LedgerTerminal, Registered
<1>16. CASE Arrive(r)
  BY <1>16, ReleaseKeeps DEF Arrive, Goto, Types, OnlyRun, AdmissionVars, RuntimeVars, States
<1>17. CASE Finish(r)
  BY <1>17, ReleaseKeeps DEF Finish, Goto, Types, OnlyRun, AdmissionVars, RuntimeVars, States, Close, Ledgers, LedgerTerminal
<1>18. QED
  BY <1>1, <1>2, <1>3, <1>4, <1>5, <1>6, <1>7, <1>8, <1>9, <1>10, <1>11, <1>12, <1>13, <1>14, <1>15, <1>16, <1>17 DEF Plain

\* A plain step leaves its run at a stage that the invariant allows.
LEMMA PlainStage ==
  ASSUME Types, StageInv, NEW r \in Runs, Plain(r)
  PROVE  Stage(r)'
PROOF
<1>0. Stage(r)
  BY DEF StageInv
<1> USE <1>0, CapacityAssumption DEF Stage, Covered, Owning
<1>1. CASE Wait(r)
  BY <1>1 DEF Wait, Goto, Release, Types, AdmissionVars, RuntimeVars
<1>2. CASE GiveUp(r)
  BY <1>2 DEF GiveUp, Goto, Release, Types, AdmissionVars, RuntimeVars
<1>3. CASE Dispatch(r)
  BY <1>3 DEF Dispatch, Goto, Release, Types, AdmissionVars, RuntimeVars
<1>4. CASE StartFails(r)
  BY <1>4 DEF StartFails, Goto, Release, Types, AdmissionVars, RuntimeVars
<1>5. CASE PostRejected(r)
  BY <1>5 DEF PostRejected, Goto, Release, Types, AdmissionVars, RuntimeVars, Close, LedgerTerminal
<1>6. CASE PostLost(r)
  BY <1>6 DEF PostLost, Goto, Release, Types, AdmissionVars, RuntimeVars
<1>7. CASE PostAccepted(r)
  BY <1>7 DEF PostAccepted, Goto, Release, Types, AdmissionVars, RuntimeVars
<1>8. CASE WatchBegins(r)
  BY <1>8 DEF WatchBegins, Goto, Release, Types, AdmissionVars, RuntimeVars, LedgerTerminal
<1>9. CASE WatchSees(r)
  BY <1>9 DEF WatchSees, Goto, Release, Types, AdmissionVars, RuntimeVars, Close, LedgerTerminal
<1>10. CASE WatchTimeout(r)
  BY <1>10 DEF WatchTimeout, Goto, Release, Types, AdmissionVars, RuntimeVars
<1>11. CASE StopReads(r)
  BY <1>11 DEF StopReads, Goto, Release, Types, AdmissionVars, RuntimeVars, LedgerTerminal
<1>12. CASE StopBlind(r)
  BY <1>12 DEF StopBlind, Goto, Release, Types, AdmissionVars, RuntimeVars
<1>13. CASE InterruptAcked(r)
  BY <1>13 DEF InterruptAcked, Interrupt, Goto, Release, Types, AdmissionVars, RuntimeVars, Close, LedgerTerminal
<1>14. CASE InterruptFails(r)
  BY <1>14 DEF InterruptFails, Interrupt, Close, LedgerTerminal, Goto, Release, Types, AdmissionVars, RuntimeVars
<1>15. CASE ClientStream(r)
  BY <1>15 DEF ClientStream, Goto, Release, Types, AdmissionVars, RuntimeVars, Close, LedgerTerminal, Registered
<1>16. CASE Arrive(r)
  BY <1>16 DEF Arrive, Goto, Release, Types, AdmissionVars, RuntimeVars
<1>17. CASE Finish(r)
  BY <1>17 DEF Finish, Goto, Release, Types, AdmissionVars, RuntimeVars, Close, LedgerTerminal
<1>18. QED
  BY <1>1, <1>2, <1>3, <1>4, <1>5, <1>6, <1>7, <1>8, <1>9, <1>10, <1>11, <1>12, <1>13, <1>14, <1>15, <1>16, <1>17 DEF Plain

\* A plain step keeps the invariant.
LEMMA PlainOK == ASSUME CapacityInv, NEW r \in Runs, Plain(r) PROVE CapacityInv'
PROOF
<1>1. Types /\ WithinLimits /\ SlotsAreExact /\ StageInv
  BY TypeParts DEF CapacityInv
<1>2. /\ Types' /\ OnlyRun(r) /\ UNCHANGED AdmissionVars
      /\ Release(r) \/ UNCHANGED lease
  BY <1>1, PlainFrame
<1>3. WithinLimits'
  BY <1>1, <1>2, LimitsShrink DEF AdmissionVars
<1>4. SlotsAreExact'
  BY <1>1, <1>2, ReleaseKeeps, SlotsStay DEF AdmissionVars
<1>5. Stage(r)'
  BY <1>1, PlainStage
<1>6. StageInv'
  BY <1>1, <1>2, <1>5 DEF StageInv, Stage, Covered, OnlyRun, AdmissionVars
<1>7. QED
  BY <1>2, <1>3, <1>4, <1>6, TypeParts DEF CapacityInv, TypeOK, Types, WithinLimits,
     Share, Ledgers

\* Steps of the shared budget keep every slot: the script's answer, the
\* release of a member, a failed renewal and an expiry.
Shared(r) ==
  Admit(r) \/ Reject(r) \/ AskFails(r) \/ ReleaseShared(r) \/ RenewFails(r) \/ Expire(r)

\* A step of the shared budget keeps the invariant.
LEMMA SharedOK == ASSUME CapacityInv, NEW r \in Runs, Shared(r) PROVE CapacityInv'
PROOF
<1>0. Types /\ WithinLimits /\ SlotsAreExact /\ StageInv /\ Stage(r)
  BY TypeParts DEF CapacityInv, StageInv
<1> USE CapacityAssumption
<1>1. Types'
  <2>1. CASE Admit(r) \/ Reject(r)
    BY <1>0, <2>1 DEF Admit, Reject, Goto, Types, States, Leases, RuntimeVars, AdmissionVars
  <2>2. CASE AskFails(r)
    <3>1. members' \subseteq members \cup {r}
      BY <2>2 DEF AskFails
    <3>2. QED
      BY <1>0, <2>2, <3>1 DEF AskFails, Goto, Types, States, Leases, RuntimeVars, Fault
  <2>3. CASE ReleaseShared(r) \/ Expire(r)
    BY <1>0, <2>3 DEF ReleaseShared, Expire, Types, Leases, RuntimeVars, Fault
  <2>4. CASE RenewFails(r)
    <3>1. Cancelled(st[r]) \in States
      BY <1>0 DEF Cancelled, Types, States
    <3>2. QED
      BY <1>0, <2>4, <3>1, ReleaseKeeps DEF RenewFails, Goto, Types, RuntimeVars, Fault
  <2>5. QED
    BY <2>1, <2>2, <2>3, <2>4 DEF Shared
<1>2. WithinLimits'
  <2>1. CASE members' \subseteq members
    BY <1>0, <2>1, LimitsShrink
  <2>2. CASE Fits(r) /\ members' = members \cup {r}
    BY <1>0, <2>2, LimitsGrow
  <2>3. QED
    BY <2>1, <2>2 DEF Shared, Admit, Reject, AskFails, ReleaseShared, RenewFails, Expire,
       AdmissionVars
<1>3. SlotsAreExact'
  <2>1. inflight' = inflight
    BY DEF Shared, Admit, Reject, AskFails, ReleaseShared, RenewFails, Expire, AdmissionVars
  <2>2. \A q \in Runs : HasSlot(q)' <=> HasSlot(q)
    <3>1. CASE Admit(r) \/ Reject(r) \/ AskFails(r)
      BY <1>0, <3>1 DEF Admit, Reject, AskFails, HasSlot, Types, Stage
    <3>2. CASE ReleaseShared(r) \/ Expire(r)
      BY <1>0, <3>2 DEF ReleaseShared, Expire, HasSlot, Types
    <3>3. CASE RenewFails(r)
      BY <1>0, <3>3, ReleaseKeeps DEF RenewFails
    <3>4. QED
      BY <3>1, <3>2, <3>3 DEF Shared
  <2>3. QED
    BY <1>0, <2>1, <2>2, SlotsStay
<1>4. StageInv'
  <2> SUFFICES ASSUME NEW q \in Runs PROVE Stage(q)'
    BY DEF StageInv
  <2>0. Stage(q)
    BY <1>0 DEF StageInv
  <2>1. CASE Admit(r) \/ Reject(r)
    BY <1>0, <2>0, <2>1 DEF Admit, Reject, Goto, Stage, Covered, Owning, Types, RuntimeVars,
       AdmissionVars
  <2>2. CASE AskFails(r)
    <3>1. members \subseteq members'
      BY <2>2 DEF AskFails
    <3>2. QED
      BY <1>0, <2>0, <2>2, <3>1 DEF AskFails, Goto, Stage, Covered, Owning, Types, RuntimeVars
  <2>3. CASE ReleaseShared(r)
    BY <1>0, <2>0, <2>3 DEF ReleaseShared, Stage, Covered, Types, RuntimeVars
  <2>4. CASE Expire(r)
    BY <1>0, <2>0, <2>4 DEF Expire, Renewed, Stage, Covered, Types, RuntimeVars
  <2>5. CASE RenewFails(r)
    <3>1. CASE q = r
      BY <1>0, <2>0, <2>5, <3>1 DEF RenewFails, Renewed, Release, Goto, Cancelled, Stage,
         Covered, Owning, Types, RuntimeVars
    <3>2. CASE q # r
      BY <1>0, <2>0, <2>5, <3>2, ReleaseKeeps DEF RenewFails, Goto, Stage, Covered, Types,
         RuntimeVars
    <3>3. QED
      BY <3>1, <3>2
  <2>6. QED
    BY <2>1, <2>2, <2>3, <2>4, <2>5 DEF Shared
<1>5. QED
  BY <1>1, <1>2, <1>3, <1>4, TypeParts DEF CapacityInv, TypeOK, Types, WithinLimits, Share,
     Ledgers

\* A request takes a slot: one more run holds one, one more is counted.
LEMMA TakeSlotOK == ASSUME CapacityInv, NEW r \in Runs, TakeSlot(r) PROVE CapacityInv'
PROOF
<1>0. Types /\ WithinLimits /\ SlotsAreExact /\ StageInv /\ Stage(r)
  BY TypeParts DEF CapacityInv, StageInv
<1> USE CapacityAssumption
<1>1. Home[r] \in Gateways /\ inflight[Home[r]] \in 0..Limit
  BY <1>0 DEF Types
<1>2. Types'
  BY <1>0, <1>1 DEF TakeSlot, Goto, Types, States, Leases, RuntimeVars
<1>3. WithinLimits'
  BY <1>0, LimitsShrink DEF TakeSlot
<1>4. SlotsAreExact'
  <2> SUFFICES ASSUME NEW g \in Gateways
               PROVE  inflight'[g] = Cardinality(Slots(g)') /\ inflight'[g] <= Limit
    BY DEF SlotsAreExact, Slots
  <2>1. inflight[g] = Cardinality(Slots(g)) /\ inflight[g] <= Limit
    BY <1>0 DEF SlotsAreExact, Slots
  <2>2. CASE g = Home[r]
    <3>1. r \notin Slots(g)
      BY <1>0 DEF Slots, HasSlot, TakeSlot, Stage
    <3>2. Slots(g)' = Slots(g) \cup {r}
      BY <1>0, <2>2 DEF Slots, HasSlot, TakeSlot, Types
    <3>3. IsFiniteSet(Slots(g))
      BY FS_Subset DEF Slots
    <3>4. Cardinality(Slots(g)') = Cardinality(Slots(g)) + 1
      BY <3>1, <3>2, <3>3, FS_AddElement
    <3>5. inflight'[g] = inflight[g] + 1 /\ inflight[g] < Limit
      BY <1>0, <2>2 DEF TakeSlot, Types
    <3>6. QED
      BY <1>0, <2>1, <3>4, <3>5 DEF Types
  <2>3. CASE g # Home[r]
    <3>1. Slots(g)' = Slots(g)
      BY <1>0, <2>3 DEF Slots, HasSlot, TakeSlot, Types
    <3>2. inflight'[g] = inflight[g]
      BY <1>0, <2>3 DEF TakeSlot, Types
    <3>3. QED
      BY <2>1, <3>1, <3>2
  <2>4. QED
    BY <2>2, <2>3
<1>5. StageInv'
  BY <1>0 DEF TakeSlot, Goto, StageInv, Stage, Covered, Owning, Types, RuntimeVars
<1>6. QED
  BY <1>2, <1>3, <1>4, <1>5, TypeParts DEF CapacityInv, TypeOK, Types, WithinLimits, Share,
     Ledgers

\* A slot goes back: _release_local runs once for a lease, so the counter is
\* positive, and the waiter it wakes holds nothing yet.
LEMMA ReleaseLocalOK ==
  ASSUME CapacityInv, NEW r \in Runs, ReleaseLocal(r) PROVE CapacityInv'
PROOF
<1>0. Types /\ WithinLimits /\ SlotsAreExact /\ StageInv /\ Stage(r)
  BY TypeParts DEF CapacityInv, StageInv
<1> USE CapacityAssumption
<1>1. Home[r] \in Gateways /\ inflight[Home[r]] \in 0..Limit
  BY <1>0 DEF Types
<1>2. \/ st' = st
      \/ \E q \in Runs : st[q] = "queued" /\ st' = [st EXCEPT ![q] = "woken"]
  BY DEF ReleaseLocal, Goto
<1>3. Types'
  BY <1>0, <1>1, <1>2 DEF ReleaseLocal, Types, States, Leases, RuntimeVars
<1>4. WithinLimits'
  BY <1>0, LimitsShrink DEF ReleaseLocal
<1>5. SlotsAreExact'
  <2> SUFFICES ASSUME NEW g \in Gateways
               PROVE  inflight'[g] = Cardinality(Slots(g)') /\ inflight'[g] <= Limit
    BY DEF SlotsAreExact, Slots
  <2>1. inflight[g] = Cardinality(Slots(g)) /\ inflight[g] <= Limit
    BY <1>0 DEF SlotsAreExact, Slots
  <2>2. CASE g = Home[r]
    <3>1. r \in Slots(g)
      BY <1>0, <2>2 DEF Slots, HasSlot, ReleaseLocal
    <3>2. Slots(g)' = Slots(g) \ {r}
      BY <1>0, <2>2 DEF Slots, HasSlot, ReleaseLocal, Types
    <3>3. IsFiniteSet(Slots(g))
      BY FS_Subset DEF Slots
    <3>4. Cardinality(Slots(g)') = Cardinality(Slots(g)) - 1
          /\ Cardinality(Slots(g)') \in Nat
      BY <3>1, <3>2, <3>3, FS_RemoveElement, FS_CardinalityType
    <3>5. inflight'[g] = IF inflight[g] > 0 THEN inflight[g] - 1 ELSE 0
      BY <1>0, <2>2 DEF ReleaseLocal, Types
    <3>6. QED
      BY <1>0, <2>1, <3>4, <3>5 DEF Types
  <2>3. CASE g # Home[r]
    <3>1. Slots(g)' = Slots(g)
      BY <1>0, <2>3 DEF Slots, HasSlot, ReleaseLocal, Types
    <3>2. inflight'[g] = inflight[g]
      BY <1>0, <2>3 DEF ReleaseLocal, Types
    <3>3. QED
      BY <2>1, <3>1, <3>2
  <2>4. QED
    BY <2>2, <2>3
<1>6. StageInv'
  BY <1>0, <1>2 DEF ReleaseLocal, StageInv, Stage, Covered, Owning, Types, RuntimeVars
<1>7. QED
  BY <1>3, <1>4, <1>5, <1>6, TypeParts DEF CapacityInv, TypeOK, Types, WithinLimits, Share,
     Ledgers

\* A gateway process ends: its counter starts at 0 again, and none of its runs
\* holds a slot.
LEMMA CrashOK == ASSUME CapacityInv, NEW g \in Gateways, Crash(g) PROVE CapacityInv'
PROOF
<1>0. Types /\ WithinLimits /\ SlotsAreExact /\ StageInv
  BY TypeParts DEF CapacityInv
<1> USE CapacityAssumption
<1>1. Types'
  BY <1>0 DEF Crash, Types, States, Leases, RuntimeVars, Fault
<1>2. WithinLimits'
  BY <1>0, LimitsShrink DEF Crash
<1>3. SlotsAreExact'
  <2> SUFFICES ASSUME NEW h \in Gateways
               PROVE  inflight'[h] = Cardinality(Slots(h)') /\ inflight'[h] <= Limit
    BY DEF SlotsAreExact, Slots
  <2>1. CASE h = g
    <3>1. Slots(h)' = {}
      BY <1>0, <2>1 DEF Slots, HasSlot, Crash, StageInv, Stage, Types
    <3>2. inflight'[h] = 0
      BY <1>0, <2>1 DEF Crash, Types
    <3>3. QED
      BY <3>1, <3>2, FS_EmptySet
  <2>2. CASE h # g
    <3>1. Slots(h)' = Slots(h)
      BY <1>0, <2>2 DEF Slots, HasSlot, Crash, Types
    <3>2. inflight'[h] = inflight[h]
      BY <1>0, <2>2 DEF Crash, Types
    <3>3. QED
      BY <1>0, <3>1, <3>2 DEF SlotsAreExact, Slots
  <2>3. QED
    BY <2>1, <2>2
<1>4. StageInv'
  BY <1>0 DEF Crash, StageInv, Stage, Covered, Owning, Types, RuntimeVars
<1>5. QED
  BY <1>1, <1>2, <1>3, <1>4, TypeParts DEF CapacityInv, TypeOK, Types, WithinLimits, Share,
     Ledgers

-----------------------------------------------------------------------------
(* The theorems.                                                           *)

\* The invariant holds from the first request on.
LEMMA Invariance == Spec => []CapacityInv
PROOF
<1>1. CapacityInv /\ [Next]_vars => CapacityInv'
  <2> SUFFICES ASSUME CapacityInv, [Next]_vars PROVE CapacityInv'
    OBVIOUS
  <2>1. ASSUME NEW r \in Runs,
               Plain(r) \/ Shared(r) \/ TakeSlot(r) \/ ReleaseLocal(r)
        PROVE  CapacityInv'
    BY <2>1, PlainOK, SharedOK, TakeSlotOK, ReleaseLocalOK
  <2>2. ASSUME NEW g \in Gateways, Crash(g) PROVE CapacityInv'
    BY <2>2, CrashOK
  <2>3. CASE UNCHANGED vars
    BY <2>3 DEF vars, CapacityInv, TypeOK, SlotsAreExact, HasSlot, StageInv, Stage, Covered
  <2>4. QED
    BY <2>1, <2>2, <2>3 DEF Next, GatewayStep, Plain, Shared
<1>2. QED
  BY <1>1, InitOK, PTL DEF Spec

\* The variables keep their types, and neither the cluster's set nor a
\* tenant's share of it ever holds more members than its limit.
THEOREM LimitsHold == Spec => []TypeOK
PROOF
<1>1. CapacityInv => TypeOK
  BY DEF CapacityInv
<1>2. QED
  BY <1>1, Invariance, PTL

\* A gateway's counter is the number of runs that hold one of its slots,
\* whichever of the watch, a client's stream, an interrupt, a failed start
\* and a failed renewal releases a lease first.
THEOREM ExactSlots == Spec => []SlotsAreExact
PROOF
<1>1. CapacityInv => SlotsAreExact
  BY DEF CapacityInv
<1>2. QED
  BY <1>1, Invariance, PTL

\* While the Runtime executes an open run, its gateway keeps the run's slot
\* and, unless the renewal failed or came too late, its member.
THEOREM CoveredWork == Spec => []WorkIsCovered
PROOF
<1>1. CapacityInv => WorkIsCovered
  BY DEF CapacityInv, StageInv, Stage, Covered, WorkIsCovered
<1>2. QED
  BY <1>1, Invariance, PTL
=============================================================================
