----------------------- MODULE RuntimeOwnershipProofs -----------------------
(***************************************************************************)
(* Ownership of turns for every number of runs, processes, calls and        *)
(* claims: one owned run per thread, a history ordered by fences with one   *)
(* output per call, no second dispatch of an answered call, a final status, *)
(* and a success that is recorded in full.                                  *)
(***************************************************************************)
EXTENDS RuntimeOwnership, SequenceTheorems, TLAPS

-----------------------------------------------------------------------------
(* The inductive invariant: claims and turns.                              *)

\* Where a turn is tells what it carries.
Carries(t) ==
  /\ t.pc \in InCall \cup {"inject"} => t.call \in Calls
  /\ t.pc \in Projecting => t.st # None
  /\ t.pc \in InCall \cup {"starting"} => t.mode \in {"core", "recovery"}
  /\ t.pc \in {"reading", "recovering", "inject"} => t.mode = "recovery"
  /\ t.pc \in {"admitted", "core", "completing", "finished"} => t.mode = "core"
  /\ t.mode = "failing" => t.st = "failed"

\* A turn runs under the claim that is cached, and a cached claim is a fence
\* that the run's owner row has reached.
TurnInv(p) ==
  /\ turn[p].pc # "idle" => /\ turn[p].run \in Runs
                            /\ cache[p].run = turn[p].run
  /\ cache[p].run # None => /\ 1 <= cache[p].fence
                            /\ cache[p].fence <= own[cache[p].run].fence
  /\ Carries(turn[p])

\* Nobody owns a run before the Gateway's request for it reached a process,
\* and the Gateway closes a run with a status.
RunInv(r) ==
  /\ run[r] = "absent" => own[r].fence = 0
  /\ gw[r].pc \in {"none", "posting"} => own[r].fence = 0
  /\ gw[r].pc \in {"asked", "revoked"} => gw[r].st # None

\* An item carries a fence its run's owner row has reached; a call item names
\* its call.
ItemInv(i) ==
  /\ items[i].fence <= own[items[i].r].fence
  /\ items[i].kind = "call" => items[i].c \in Calls

ClaimInv ==
  /\ TypeOK
  /\ \A p \in Procs : TurnInv(p)
  /\ \A r \in Runs : RunInv(r)
  /\ \A i \in 1..Len(items) : ItemInv(i)

-----------------------------------------------------------------------------
(* The inductive invariant: what the owner of a turn knows.                *)

\* The process runs a turn under the newest fence of its run.
Current(p) ==
  /\ turn[p].pc # "idle"
  /\ own[turn[p].run].p = p
  /\ own[turn[p].run].fence = cache[p].fence

HasOutput(r, c) == \E i \in Positions("out") : items[i].r = r /\ items[i].c = c

\* A call that is being invoked is open in the journal.
Invoking == {"invoke", "dispatch", "result", "finish"}
JournalInv(p) ==
  Current(p) /\ turn[p].pc \in Invoking =>
    journal[turn[p].run][turn[p].call] # "done"

\* The call whose output is appended next has none.
OutputInv(p) ==
  /\ Current(p)
  /\ turn[p].pc = "inject" \/ (turn[p].pc \in InCall /\ turn[p].mode = "core")
  => ~HasOutput(turn[p].run, turn[p].call)

OwnerInv ==
  /\ \A p \in Procs : JournalInv(p) /\ OutputInv(p)
  /\ OneOutputPerCall
  /\ HistoryFollowsFences
  /\ OneOwnedRun

-----------------------------------------------------------------------------
(* The inductive invariant: a success is recorded.                         *)

Answered(c) == \E j \in Positions("out") : items[j].c = c
CallsOf(r) == {i \in Positions("call") : items[i].r = r}
Unanswered(r) == {items[i].c : i \in {j \in CallsOf(r) : ~Answered(items[j].c)}}

\* The turn is over, or will only be reported.
Over == {"completing", "finished", "reading"} \cup Projecting
\* The turn is on its way from the reading of its history to Core's start.
Preparing(p) ==
  \/ turn[p].pc \in {"recovering", "starting", "admitted", "inject"}
  \/ turn[p].pc \in InCall /\ turn[p].mode = "recovery"

\* What a healthy owner still has to answer.
Due(p) ==
  IF turn[p].pc = "recovering" THEN turn[p].todo
  ELSE IF turn[p].pc \in InCall \cup {"inject"} THEN turn[p].todo \cup {turn[p].call}
  ELSE {}

\* A healthy owner before its end is in the history: its calls are answered
\* or due, and its start is there.
LiveInv(p) ==
  LET r == turn[p].run IN
  Current(p) /\ p \notin sick /\ turn[p].pc \notin Over =>
    /\ Unanswered(r) \subseteq Due(p)
    /\ turn[p].mode = "core" \/ turn[p].pc = "starting" => turn[p].todo = {}
    /\ ~Preparing(p) => Starts(r) # {}

\* A call item that follows another turn's start, so that recovery_tail does
\* not attribute it to its own turn.
Astray(i) ==
  \A s \in Starts(items[i].r) :
    s <= i => \E k \in Positions("start") : s < k /\ k <= i

\* Such a call is superseded, and nobody prepares to start its turn again.
StrayInv(r) ==
  (\E i \in CallsOf(r) : Astray(i)) =>
    /\ Superseded(r)
    /\ \A p \in Procs : Current(p) /\ turn[p].run = r => ~Preparing(p)

\* After its end a turn is only reported.
EndInv(r) ==
  Ends(r) # {} =>
    \A p \in Procs : Current(p) /\ turn[p].run = r => turn[p].pc \in Over

\* The end of a completed turn finds every call answered.
Completed(r) == \E i \in Positions("completed") : items[i].r = r
WholeInv(r) == Completed(r) => Unanswered(r) = {}

Recorded(r) == Completed(r) /\ \A c \in Calls : life[r][c] # "open"

\* Nothing says success before the turn is recorded.
ReportInv(p) ==
  LET r == turn[p].run IN
  /\ turn[p].pc = "completing" /\ p \notin sick => Completed(r)
  /\ turn[p].pc = "finished" /\ p \notin sick => Recorded(r)
  /\ turn[p].pc \in {"projecting", "admitting"} /\ turn[p].st = "completed" => Completed(r)
  /\ turn[p].pc \in {"closing", "sending"} /\ turn[p].st = "completed" => Recorded(r)
StatusInv(r) ==
  \/ "succeeded" \in events[r]
  \/ gw[r].st = "succeeded"
  \/ run[r] \in {"succeeded", "completed"}
  => Recorded(r)

\* Of the starts, and of the ends of a run, one is the last.
LastInv ==
  /\ Positions("start") # {} =>
       \E m \in Positions("start") : \A k \in Positions("start") : k <= m
  /\ \A r \in Runs : Ends(r) # {} => \E m \in Ends(r) : \A k \in Ends(r) : k <= m

RecordInv ==
  /\ LastInv
  /\ \A p \in Procs : LiveInv(p) /\ ReportInv(p)
  /\ \A r \in Runs : StrayInv(r) /\ EndInv(r) /\ WholeInv(r) /\ StatusInv(r)

-----------------------------------------------------------------------------
(* Appending to the history.                                               *)

\* What Append does to a history.
LEMMA AppendFacts ==
  ASSUME NEW S, NEW s \in Seq(S), NEW x \in S
  PROVE  /\ Append(s, x) \in Seq(S)
         /\ Len(s) \in Nat /\ Len(Append(s, x)) = Len(s) + 1
         /\ \A i \in 1..Len(s) : Append(s, x)[i] = s[i] /\ s[i] \in S
         /\ Append(s, x)[Len(s) + 1] = x
  BY AppendProperties, LenProperties, ElementOfSeq

\* A process in a turn that passes check_execution_write holds the newest
\* fence of its run (append_items).
LEMMA WriterIsCurrent ==
  ASSUME ClaimInv, NEW p \in Procs, turn[p].pc # "idle", MayWrite(p)
  PROVE  /\ Current(p) /\ own[turn[p].run].live
         /\ turn[p].run \in Runs /\ cache[p].run = turn[p].run
         /\ cache[p].fence \in 1..MaxFence
PROOF
<1>1. TurnInv(p) /\ turn[p].run \in Runs /\ cache[p].run = turn[p].run
  BY DEF ClaimInv, TurnInv
<1>2. cache[p] # NoClaim
  BY <1>1, NoneIsNew DEF NoClaim
<1>3. HoldsFence(p, turn[p].run)
  BY <1>1, <1>2 DEF MayWrite
<1>4. cache[p].fence \in 0..MaxFence /\ cache[p].fence >= 1
  BY <1>1, NoneIsNew, FenceBound DEF ClaimInv, TypeOK, TurnInv
<1>5. QED
  BY <1>1, <1>3, <1>4, FenceBound DEF Current, HoldsFence

Kinds == {"start", "call", "out", "completed", "aborted"}

\* The history after an append of the current process.
Writes(p, kind, c) ==
  /\ Current(p) /\ own[turn[p].run].live
  /\ Item(p, kind, c) \in ItemType
  /\ items' = Append(items, Item(p, kind, c))

\* An append is refused, or it writes under the newest fence.
LEMMA AppendWrites ==
  ASSUME ClaimInv, NEW p \in Procs, turn[p].pc # "idle",
         NEW kind \in Kinds, NEW c \in Calls \cup {None},
         AppendItem(p, kind, c)
  PROVE  Writes(p, kind, c)
PROOF
<1>1. MayWrite(p) /\ items' = Append(items, Item(p, kind, c))
  BY DEF AppendItem
<1>2. Current(p) /\ own[turn[p].run].live /\ turn[p].run \in Runs
      /\ cache[p].fence \in 1..MaxFence
  BY <1>1, WriterIsCurrent
<1>3. Item(p, kind, c) \in ItemType
  BY <1>2 DEF Item, ItemType, Kinds
<1>4. QED
  BY <1>1, <1>2, <1>3 DEF Writes

\* The same for Core, whose failed append makes its process sick.
LEMMA CoreAppendWrites ==
  ASSUME ClaimInv, NEW p \in Procs, turn[p].pc # "idle",
         NEW kind \in Kinds, NEW c \in Calls \cup {None},
         CoreAppends(p, kind, c)
  PROVE  \/ Writes(p, kind, c) /\ sick' = sick /\ p \notin sick
         \/ items' = items /\ sick' = sick \cup {p}
  BY AppendWrites DEF CoreAppends, Healthy

-----------------------------------------------------------------------------
(* Claims and turns are kept.                                              *)

Types ==
  /\ run \in [Runs -> {"absent", "running"} \cup Ended]
  /\ lease \in [Runs -> BOOLEAN]
  /\ own \in [Runs -> [p : Procs \cup {None}, fence : 0..MaxFence,
                       live : BOOLEAN]]
  /\ journal \in [Runs -> [Calls -> {"none", "open", "done"}]]
  /\ life \in [Runs -> [Calls -> {"none", "open", "closed", "done"}]]
  /\ events \in [Runs -> SUBSET Ended]
  /\ gw \in [Runs -> [pc : {"none", "posting", "open", "asked", "revoked",
                            "done"},
                      st : {None, "succeeded", "failed", "cancelled"}]]
  /\ proc \in [Procs -> {"up", "gone", "retired"}]
  /\ cache \in [Procs -> [run : Runs \cup {None}, fence : 0..MaxFence]]
  /\ sick \in SUBSET Procs
  /\ turn \in [Procs -> TurnType]
  /\ closing \in [Procs -> Runs \cup {None}]

TurnsOK ==
  /\ Types
  /\ \A p \in Procs : TurnInv(p)
  /\ \A r \in Runs : RunInv(r)
HistoryOK ==
  /\ items \in Seq(ItemType)
  /\ \A i \in 1..Len(items) : ItemInv(i)

\* The invariant is about the rows and turns, and about the history.
LEMMA ClaimParts == ClaimInv <=> TurnsOK /\ HistoryOK
  BY DEF ClaimInv, TurnsOK, HistoryOK, TypeOK, Types

-----------------------------------------------------------------------------
(* Moves of a turn.                                                        *)

Stations ==
  {"idle", "starting", "admitted", "core", "completing", "finished",
   "reading", "recovering", "inject"} \cup InCall \cup Projecting

\* Process p is at t in its turn now, every other process where it was.
Moved(p, t) ==
  /\ turn' \in [Procs -> TurnType]
  /\ turn'[p] = t
  /\ \A q \in Procs \ {p} : turn'[q] = turn[q]

\* One process moves.
LEMMA MoveTo ==
  ASSUME Types, NEW p \in Procs, NEW t \in TurnType, turn' = [turn EXCEPT ![p] = t]
  PROVE  Moved(p, t)
  BY DEF Types, Moved

\* A change of the station alone.
LEMMA GotoMoves ==
  ASSUME Types, NEW p \in Procs, NEW pc \in Stations, Goto(p, pc)
  PROVE  Moved(p, [turn[p] EXCEPT !.pc = pc])
PROOF
<1>0. turn[p] \in TurnType
  BY DEF Types
<1>1. [turn[p] EXCEPT !.pc = pc] \in TurnType
  BY <1>0 DEF TurnType, Stations
<1>2. turn' = [turn EXCEPT ![p] = [turn[p] EXCEPT !.pc = pc]]
  BY DEF Goto
<1>3. QED
  BY <1>1, <1>2, MoveTo

\* The end of a turn.
LEMMA IdleMoves ==
  ASSUME Types, NEW p \in Procs, Idle(p)
  PROVE  Moved(p, IdleTurn)
PROOF
<1>1. IdleTurn \in TurnType
  BY DEF IdleTurn, TurnType
<1>2. QED
  BY <1>1, MoveTo DEF Idle

\* A change of the station and of the call.
LEMMA CallMoves ==
  ASSUME Types, NEW p \in Procs, NEW pc \in Stations, NEW c \in Calls \cup {None},
         turn' = [turn EXCEPT ![p].pc = pc, ![p].call = c]
  PROVE  Moved(p, [turn[p] EXCEPT !.pc = pc, !.call = c])
PROOF
<1>0. turn[p] \in TurnType
  BY DEF Types
<1>1. [turn[p] EXCEPT !.pc = pc, !.call = c] \in TurnType
  BY <1>0 DEF TurnType, Stations
<1>2. turn' = [turn EXCEPT ![p] = [turn[p] EXCEPT !.pc = pc, !.call = c]]
  BY DEF Types
<1>3. QED
  BY <1>1, <1>2, MoveTo

\* The turns that do not move keep their part of the invariant: fences only
\* grow.
LEMMA OtherTurns ==
  ASSUME TurnsOK, NEW q \in Procs, turn'[q] = turn[q], cache'[q] = cache[q],
         \A r \in Runs : own'[r].fence \in Nat /\ own[r].fence <= own'[r].fence
  PROVE  TurnInv(q)'
PROOF
<1>1. TurnInv(q)
  BY DEF TurnsOK
<1>2. cache[q].run \in Runs \cup {None} /\ cache[q].fence \in Nat
  BY FenceBound DEF TurnsOK, Types
<1>3. \A r \in Runs : own[r].fence \in Nat
  BY FenceBound DEF TurnsOK, Types
<1>4. QED
  BY <1>1, <1>2, <1>3 DEF TurnInv

\* A move within a turn, or its end, under the same claims.
LEMMA TurnMoves ==
  ASSUME TurnsOK, NEW p \in Procs, NEW t, Moved(p, t), Carries(t),
         own' = own, cache' = cache,
         t.pc # "idle" => turn[p].pc # "idle" /\ t.run = turn[p].run
  PROVE  \A q \in Procs : TurnInv(q)'
PROOF
<1>0. \A q \in Procs : TurnInv(q)
  BY DEF TurnsOK
<1>1. TurnInv(p)'
  BY <1>0 DEF TurnInv, Moved
<1>2. ASSUME NEW q \in Procs, q # p PROVE TurnInv(q)'
  BY <1>0, <1>2 DEF TurnInv, Moved
<1>3. QED
  BY <1>1, <1>2

\* Closing the open calls of a run keeps the receipts' type.
LEMMA ClosedTypes ==
  ASSUME Types, NEW r \in Runs, CloseCalls(r) \/ life' = life
  PROVE  life' \in [Runs -> [Calls -> {"none", "open", "closed", "done"}]]
PROOF
<1> DEFINE closed == [c \in Calls |-> IF life[r][c] = "open" THEN "closed" ELSE life[r][c]]
<1>1. life[r] \in [Calls -> {"none", "open", "closed", "done"}]
  BY DEF Types
<1>2. closed \in [Calls -> {"none", "open", "closed", "done"}]
  BY <1>1
<1>3. life' = [life EXCEPT ![r] = closed] \/ life' = life
  BY DEF CloseCalls
<1> HIDE DEF closed
<1>4. QED
  BY <1>2, <1>3 DEF Types

\* Idle turns carry nothing.
LEMMA IdleCarries == Carries(IdleTurn)
  BY NoneIsNew DEF Carries, IdleTurn, InCall, Projecting

\* So does sending a terminal event.
LEMMA SentTypes ==
  ASSUME Types, NEW r \in Runs, NEW st \in Ended, SendTerminal(r, st) \/ events' = events
  PROVE  events' \in [Runs -> SUBSET Ended]
  BY DEF Types, SendTerminal

\* The entry in a map of the runs' calls.
LEMMA CallEntry ==
  ASSUME NEW S, NEW f \in [Runs -> [Calls -> S]], NEW r \in Runs, NEW c \in Calls,
         NEW x \in S
  PROVE  [f EXCEPT ![r][c] = x] \in [Runs -> [Calls -> S]]
  OBVIOUS

\* Admission of a turn.
LEMMA ModeMoves ==
  ASSUME Types, NEW p \in Procs,
         turn' = [turn EXCEPT ![p].pc = "admitted", ![p].mode = "core"]
  PROVE  Moved(p, [turn[p] EXCEPT !.pc = "admitted", !.mode = "core"])
PROOF
<1>0. turn[p] \in TurnType /\ turn \in [Procs -> TurnType]
  BY DEF Types
<1>1. [turn[p] EXCEPT !.pc = "admitted", !.mode = "core"] \in TurnType
  BY <1>0 DEF TurnType
<1>2. turn' = [turn EXCEPT ![p] = [turn[p] EXCEPT !.pc = "admitted", !.mode = "core"]]
  BY <1>0
<1>3. QED
  BY <1>1, <1>2, MoveTo

\* The next call of a recovery.
LEMMA TodoMoves ==
  ASSUME Types, NEW p \in Procs, NEW c \in Calls,
         turn' = [turn EXCEPT ![p].pc = "begin", ![p].call = c, ![p].todo = @ \ {c}]
  PROVE  Moved(p, [turn[p] EXCEPT !.pc = "begin", !.call = c, !.todo = @ \ {c}])
PROOF
<1>0. turn[p] \in TurnType /\ turn \in [Procs -> TurnType]
  BY DEF Types
<1>1. [turn[p] EXCEPT !.pc = "begin", !.call = c, !.todo = @ \ {c}] \in TurnType
  BY <1>0 DEF TurnType, InCall
<1>2. turn' = [turn EXCEPT ![p] =
                 [turn[p] EXCEPT !.pc = "begin", !.call = c, !.todo = @ \ {c}]]
  BY <1>0
<1>3. QED
  BY <1>1, <1>2, MoveTo

\* A move that leaves the runs, the claims and the Gateway alone.
LEMMA QuietTurn ==
  ASSUME TurnsOK, NEW p \in Procs, NEW t, Moved(p, t), Carries(t), Types',
         own' = own, cache' = cache, run' = run, gw' = gw,
         t.pc # "idle" => turn[p].pc # "idle" /\ t.run = turn[p].run
  PROVE  TurnsOK'
PROOF
<1>1. \A q \in Procs : TurnInv(q)'
  BY TurnMoves
<1>2. \A r \in Runs : RunInv(r)'
  BY DEF TurnsOK, RunInv
<1>3. QED
  BY <1>1, <1>2 DEF TurnsOK

\* The steps of a live turn.
LEMMA LiveTurns ==
  ASSUME TurnsOK, NEW p \in Procs, LiveTurn(p)
  PROVE  TurnsOK'
PROOF
<1>0. /\ TurnsOK /\ Types /\ Carries(turn[p])
      /\ turn[p] \in TurnType /\ turn \in [Procs -> TurnType]
  BY DEF TurnsOK, Types, TurnInv
<1>9. turn[p].pc # "idle" => turn[p].run \in Runs
  BY DEF TurnsOK, TurnInv
<1>10. CASE AdmitTurn(p)
  <2>1. Moved(p, [turn[p] EXCEPT !.pc = "admitted", !.mode = "core"])
    BY <1>0, <1>10, ModeMoves DEF AdmitTurn
  <2>2. Carries([turn[p] EXCEPT !.pc = "admitted", !.mode = "core"])
    BY <1>0, <1>10 DEF AdmitTurn, Carries, TurnType, InCall, Projecting
  <2>3. Types'
    BY <1>0, <1>10, <2>1 DEF AdmitTurn, Types, Moved, store
  <2>4. UNCHANGED <<own, cache, run, gw>> /\ turn[p].pc # "idle"
    BY <1>10 DEF AdmitTurn, store, InCall, Projecting
  <2>5. QED
    BY <1>0, <2>1, <2>2, <2>3, <2>4, QuietTurn DEF TurnType
<1>11. CASE CoreStarts(p)
  <2>1. Moved(p, [turn[p] EXCEPT !.pc = "core"])
    BY <1>0, <1>11, GotoMoves DEF CoreStarts, Stations, InCall, Projecting
  <2>2. Carries([turn[p] EXCEPT !.pc = "core"])
    BY <1>0, <1>11 DEF CoreStarts, Carries, TurnType, InCall, Projecting
  <2>3. Types'
    BY <1>0, <1>11, <2>1 DEF CoreStarts, Types, Moved, store, CoreAppends
  <2>4. UNCHANGED <<own, cache, run, gw>> /\ turn[p].pc # "idle"
    BY <1>11 DEF CoreStarts, store, InCall, Projecting
  <2>5. QED
    BY <1>0, <2>1, <2>2, <2>3, <2>4, QuietTurn DEF TurnType
<1>12. CASE PublishCall(p)
  <2>1. Moved(p, [turn[p] EXCEPT !.pc = "dispatch"])
    BY <1>0, <1>12, GotoMoves DEF PublishCall, Stations, InCall, Projecting
  <2>2. Carries([turn[p] EXCEPT !.pc = "dispatch"])
    BY <1>0, <1>12 DEF PublishCall, Carries, TurnType, InCall, Projecting
  <2>3. Types'
    <3>1. turn[p].run \in Runs /\ turn[p].call \in Calls
      BY <1>0, <1>9, <1>12 DEF PublishCall, Carries, InCall
    <3> DEFINE x == IF life[turn[p].run][turn[p].call] = "none" THEN "open"
                    ELSE life[turn[p].run][turn[p].call]
    <3>2. x \in {"none", "open", "closed", "done"}
      BY <1>0, <3>1 DEF Types
    <3>3. life' = [life EXCEPT ![turn[p].run][turn[p].call] = x]
      BY <1>12 DEF PublishCall
    <3> HIDE DEF x
    <3>4. life' \in [Runs -> [Calls -> {"none", "open", "closed", "done"}]]
      BY <1>0, <3>1, <3>2, <3>3, CallEntry DEF Types
    <3>5. QED
      BY <1>0, <1>12, <2>1, <3>4 DEF PublishCall, Types, Moved
  <2>4. UNCHANGED <<own, cache, run, gw>> /\ turn[p].pc # "idle"
    BY <1>12 DEF PublishCall, store, InCall, Projecting
  <2>5. QED
    BY <1>0, <2>1, <2>2, <2>3, <2>4, QuietTurn DEF TurnType
<1>13. CASE DispatchCall(p)
  <2>1. Moved(p, [turn[p] EXCEPT !.pc = "result"])
    BY <1>0, <1>13, GotoMoves DEF DispatchCall, Stations, InCall, Projecting
  <2>2. Carries([turn[p] EXCEPT !.pc = "result"])
    BY <1>0, <1>13 DEF DispatchCall, Carries, TurnType, InCall, Projecting
  <2>3. Types'
    BY <1>0, <1>13, <2>1 DEF DispatchCall, Types, Moved, store
  <2>4. UNCHANGED <<own, cache, run, gw>> /\ turn[p].pc # "idle"
    BY <1>13 DEF DispatchCall, store, InCall, Projecting
  <2>5. QED
    BY <1>0, <2>1, <2>2, <2>3, <2>4, QuietTurn DEF TurnType
<1>14. CASE RecordResult(p)
  <2>1. Moved(p, [turn[p] EXCEPT !.pc = "finish"])
    BY <1>0, <1>14, GotoMoves DEF RecordResult, Stations, InCall, Projecting
  <2>2. Carries([turn[p] EXCEPT !.pc = "finish"])
    BY <1>0, <1>14 DEF RecordResult, Carries, TurnType, InCall, Projecting
  <2>3. Types'
    BY <1>0, <1>14, <2>1 DEF RecordResult, Types, Moved, store
  <2>4. UNCHANGED <<own, cache, run, gw>> /\ turn[p].pc # "idle"
    BY <1>14 DEF RecordResult, store, InCall, Projecting
  <2>5. QED
    BY <1>0, <2>1, <2>2, <2>3, <2>4, QuietTurn DEF TurnType
<1>15. CASE FinishInvocation(p)
  <2>1. Moved(p, [turn[p] EXCEPT !.pc = "respond"])
    BY <1>0, <1>15, GotoMoves DEF FinishInvocation, Stations, InCall, Projecting
  <2>2. Carries([turn[p] EXCEPT !.pc = "respond"])
    BY <1>0, <1>15 DEF FinishInvocation, Carries, TurnType, InCall, Projecting
  <2>3. Types'
    BY <1>0, <1>15, <2>1 DEF FinishInvocation, Types, Moved, store
  <2>4. UNCHANGED <<own, cache, run, gw>> /\ turn[p].pc # "idle"
    BY <1>15 DEF FinishInvocation, store, InCall, Projecting
  <2>5. QED
    BY <1>0, <2>1, <2>2, <2>3, <2>4, QuietTurn DEF TurnType
<1>16. CASE CoreOutput(p)
  <2>1. Moved(p, [turn[p] EXCEPT !.pc = "core", !.call = None])
    BY <1>0, <1>16, CallMoves DEF CoreOutput, Stations
  <2>2. Carries([turn[p] EXCEPT !.pc = "core", !.call = None])
    BY <1>0, <1>16 DEF CoreOutput, Carries, TurnType, InCall, Projecting
  <2>3. Types'
    BY <1>0, <1>16, <2>1 DEF CoreOutput, Types, Moved, store, CoreAppends
  <2>4. UNCHANGED <<own, cache, run, gw>> /\ turn[p].pc # "idle"
    BY <1>16 DEF CoreOutput, store, InCall, Projecting
  <2>5. QED
    BY <1>0, <2>1, <2>2, <2>3, <2>4, QuietTurn DEF TurnType
<1>17. CASE CoreCompletes(p)
  <2>1. Moved(p, [turn[p] EXCEPT !.pc = "completing"])
    BY <1>0, <1>17, GotoMoves DEF CoreCompletes, Stations, InCall, Projecting
  <2>2. Carries([turn[p] EXCEPT !.pc = "completing"])
    BY <1>0, <1>17 DEF CoreCompletes, Carries, TurnType, InCall, Projecting
  <2>3. Types'
    BY <1>0, <1>17, <2>1, <1>9, ClosedTypes DEF CoreCompletes, Types, Moved, store, CoreAppends
  <2>4. UNCHANGED <<own, cache, run, gw>> /\ turn[p].pc # "idle"
    BY <1>17 DEF CoreCompletes, store, InCall, Projecting
  <2>5. QED
    BY <1>0, <2>1, <2>2, <2>3, <2>4, QuietTurn DEF TurnType
<1>18. CASE CoreAborts(p)
  <2>1. Moved(p, IdleTurn)
    BY <1>0, <1>18, IdleMoves DEF CoreAborts
  <2>2. Carries(IdleTurn)
    BY <1>0, <1>18, IdleCarries DEF CoreAborts, Carries, TurnType, InCall, Projecting
  <2>3. Types'
    BY <1>0, <1>18, <2>1, <1>9, ClosedTypes DEF CoreAborts, Types, Moved, store, CoreAppends, InCall
  <2>4. UNCHANGED <<own, cache, run, gw>>
    BY <1>18 DEF CoreAborts, store, InCall, Projecting
  <2>5. QED
    BY <1>0, <2>1, <2>2, <2>3, <2>4, QuietTurn DEF IdleTurn
<1>19. CASE AdmitCompleted(p)
  <2>1. Moved(p, [turn[p] EXCEPT !.pc = "finished"])
    BY <1>0, <1>19, GotoMoves DEF AdmitCompleted, Stations, InCall, Projecting
  <2>2. Carries([turn[p] EXCEPT !.pc = "finished"])
    BY <1>0, <1>19 DEF AdmitCompleted, Carries, TurnType, InCall, Projecting
  <2>3. Types'
    BY <1>0, <1>19, <2>1, <1>9, ClosedTypes DEF AdmitCompleted, Types, Moved, store
  <2>4. UNCHANGED <<own, cache, run, gw>> /\ turn[p].pc # "idle"
    BY <1>19 DEF AdmitCompleted, store, InCall, Projecting
  <2>5. QED
    BY <1>0, <2>1, <2>2, <2>3, <2>4, QuietTurn DEF TurnType
<1>20. CASE ProjectFinished(p)
  <2>1. Moved(p, IdleTurn)
    BY <1>0, <1>20, IdleMoves DEF ProjectFinished
  <2>2. Carries(IdleTurn)
    BY <1>0, <1>20, IdleCarries DEF ProjectFinished, Carries, TurnType, InCall, Projecting
  <2>3. Types'
    BY <1>0, <1>20, <2>1, <1>9, SentTypes DEF ProjectFinished, Types, Moved, store, Ended
  <2>4. UNCHANGED <<own, cache, run, gw>>
    BY <1>20 DEF ProjectFinished, store, InCall, Projecting
  <2>5. QED
    BY <1>0, <2>1, <2>2, <2>3, <2>4, QuietTurn DEF IdleTurn
<1>21. CASE ProjectFailure(p)
  <2>1. Moved(p, IdleTurn)
    BY <1>0, <1>21, IdleMoves DEF ProjectFailure
  <2>2. Carries(IdleTurn)
    BY <1>0, <1>21, IdleCarries DEF ProjectFailure, Carries, TurnType, InCall, Projecting
  <2>3. Types'
    BY <1>0, <1>21, <2>1, <1>9, SentTypes DEF ProjectFailure, Types, Moved, store, Ended
  <2>4. UNCHANGED <<own, cache, run, gw>>
    BY <1>21 DEF ProjectFailure, store, InCall, Projecting
  <2>5. QED
    BY <1>0, <2>1, <2>2, <2>3, <2>4, QuietTurn DEF IdleTurn
<1>22. CASE StartRejected(p)
  <2>0. UNCHANGED <<own, cache, run>> /\ turn[p].pc = "starting"
    BY <1>22 DEF StartRejected, store
  <2> DEFINE asked == [gw EXCEPT ![turn[p].run] = [pc |-> "asked", st |-> "failed"]]
  <2>6. gw' = gw \/ gw' = asked
    <3>1. CASE gw' = [gw EXCEPT ![turn[p].run] =
                        IF gw[turn[p].run].pc = "open" THEN [pc |-> "asked", st |-> "failed"]
                        ELSE gw[turn[p].run]]
      BY <1>0, <1>9, <2>0, <3>1 DEF Types
    <3>2. QED
      BY <1>22, <3>1 DEF StartRejected
  <2>1. gw' \in [Runs -> [pc : {"none", "posting", "open", "asked", "revoked", "done"},
                         st : {None, "succeeded", "failed", "cancelled"}]]
        /\ \A r \in Runs : RunInv(r)'
    <3>0. turn[p].run \in Runs
      BY <1>9, <2>0
    <3>1. CASE gw' = gw
      BY <1>0, <2>0, <3>1 DEF Types, TurnsOK, RunInv
    <3>2. CASE gw' = asked
      BY <1>0, <2>0, <3>0, <3>2, NoneIsNew DEF Types, TurnsOK, RunInv
    <3>3. QED
      BY <2>6, <3>1, <3>2
  <2>2. CASE turn[p].mode = "core"
    <3>1. Moved(p, IdleTurn)
      BY <1>0, <1>22, <2>2, IdleMoves DEF StartRejected
    <3>2. \A q \in Procs : TurnInv(q)'
      BY <1>0, <2>0, <3>1, IdleCarries, TurnMoves DEF IdleTurn
    <3>3. Types'
      BY <1>0, <1>22, <2>1, <3>1 DEF StartRejected, Types, Moved, store
    <3>4. QED
      BY <2>1, <3>2, <3>3 DEF TurnsOK
  <2>3. CASE turn[p].mode # "core"
    <3> DEFINE t == [turn[p] EXCEPT !.pc = "projecting", !.mode = "failing", !.st = "failed"]
    <3>0. turn' = [turn EXCEPT ![p].pc = "projecting", ![p].mode = "failing", ![p].st = "failed"]
      BY <1>22, <2>3 DEF StartRejected
    <3>1. Moved(p, t)
      <4>1. turn[p] \in TurnType
        BY <1>0
      <4>2. t \in TurnType
        BY <4>1 DEF TurnType, Projecting
      <4>3. turn' = [turn EXCEPT ![p] = t]
        BY <1>0, <3>0
      <4>4. QED
        BY <1>0, <4>2, <4>3, MoveTo
    <3>2. Carries(t) /\ t.run = turn[p].run
      BY <1>0, NoneIsNew DEF Carries, TurnType, InCall, Projecting
    <3> HIDE DEF t
    <3>3. \A q \in Procs : TurnInv(q)'
      BY <1>0, <2>0, <3>1, <3>2, TurnMoves
    <3>4. Types'
      BY <1>0, <1>22, <2>1, <3>1 DEF StartRejected, Types, Moved, store
    <3>5. QED
      BY <2>1, <3>3, <3>4 DEF TurnsOK
  <2>4. QED
    BY <2>2, <2>3
<1>23. CASE \E c \in Calls : CoreCall(p, c)
  <2>0. PICK c \in Calls : CoreCall(p, c)
    BY <1>23
  <2>1. Moved(p, [turn[p] EXCEPT !.pc = "begin", !.call = c])
    BY <1>0, <2>0, CallMoves DEF CoreCall, Stations, InCall
  <2>2. Carries([turn[p] EXCEPT !.pc = "begin", !.call = c])
    BY <1>0, <2>0 DEF CoreCall, Carries, TurnType, InCall, Projecting
  <2>3. Types'
    BY <1>0, <2>0, <2>1 DEF CoreCall, CoreAppends, Types, Moved
  <2>4. UNCHANGED <<own, cache, run, gw>> /\ turn[p].pc # "idle"
    BY <2>0 DEF CoreCall
  <2>5. QED
    BY <1>0, <2>1, <2>2, <2>3, <2>4, QuietTurn DEF TurnType
<1>24. CASE BeginInvocation(p)
  <2>0. PICK pc : pc \in {"respond", "invoke"} /\ Goto(p, pc)
    BY <1>24 DEF BeginInvocation
  <2>1. Moved(p, [turn[p] EXCEPT !.pc = pc])
    BY <1>0, <2>0, GotoMoves DEF Stations, InCall
  <2>2. Carries([turn[p] EXCEPT !.pc = pc])
    BY <1>0, <1>24, <2>0 DEF BeginInvocation, Carries, TurnType, InCall, Projecting
  <2>3. Types'
    <3>1. turn[p].run \in Runs /\ turn[p].call \in Calls
      BY <1>0, <1>9, <1>24 DEF BeginInvocation, Carries, InCall
    <3>2. journal' = journal \/ journal' = [journal EXCEPT ![turn[p].run][turn[p].call] = "open"]
      BY <1>24 DEF BeginInvocation
    <3>3. journal' \in [Runs -> [Calls -> {"none", "open", "done"}]]
      <4>1. /\ journal \in [Runs -> [Calls -> {"none", "open", "done"}]]
            /\ "open" \in {"none", "open", "done"}
        BY <1>0 DEF Types
      <4>2. [journal EXCEPT ![turn[p].run][turn[p].call] = "open"]
              \in [Runs -> [Calls -> {"none", "open", "done"}]]
        BY <3>1, <4>1, CallEntry, Zenon
      <4>3. QED
        BY <3>2, <4>1, <4>2
    <3>4. QED
      BY <1>0, <1>24, <2>1, <3>3 DEF BeginInvocation, Types, Moved
  <2>4. UNCHANGED <<own, cache, run, gw>> /\ turn[p].pc # "idle"
    BY <1>24 DEF BeginInvocation
  <2>5. QED
    BY <1>0, <2>1, <2>2, <2>3, <2>4, QuietTurn DEF TurnType
<1>25. QED
  BY <1>10, <1>11, <1>12, <1>13, <1>14, <1>15, <1>16, <1>17, <1>18, <1>19, <1>20, <1>21, <1>22, <1>23, <1>24 DEF LiveTurn

\* The steps of a recovery.
LEMMA RecoveryTurns ==
  ASSUME TurnsOK, HistoryOK, NEW p \in Procs, Recovery(p)
  PROVE  TurnsOK'
PROOF
<1>0. /\ TurnsOK /\ Types /\ Carries(turn[p])
      /\ turn[p] \in TurnType /\ turn \in [Procs -> TurnType]
  BY DEF TurnsOK, Types, TurnInv
<1>9. turn[p].pc # "idle" => turn[p].run \in Runs
  BY DEF TurnsOK, TurnInv
<1>10. CASE InjectOutput(p)
  <2>1. Moved(p, [turn[p] EXCEPT !.pc = "recovering", !.call = None])
    BY <1>0, <1>10, CallMoves DEF InjectOutput, Stations
  <2>2. Carries([turn[p] EXCEPT !.pc = "recovering", !.call = None])
    BY <1>0, <1>10 DEF InjectOutput, Carries, TurnType, InCall, Projecting
  <2>3. Types'
    BY <1>0, <1>10, <2>1 DEF InjectOutput, Types, Moved, store
  <2>4. UNCHANGED <<own, cache, run, gw>> /\ turn[p].pc # "idle"
    BY <1>10 DEF InjectOutput, store, InCall, Projecting
  <2>5. QED
    BY <1>0, <2>1, <2>2, <2>3, <2>4, QuietTurn DEF TurnType
<1>11. CASE ResumeTurn(p)
  <2>1. Moved(p, [turn[p] EXCEPT !.pc = "starting"])
    BY <1>0, <1>11, GotoMoves DEF ResumeTurn, Stations, InCall, Projecting
  <2>2. Carries([turn[p] EXCEPT !.pc = "starting"])
    BY <1>0, <1>11 DEF ResumeTurn, Carries, TurnType, InCall, Projecting
  <2>3. Types'
    BY <1>0, <1>11, <2>1 DEF ResumeTurn, Types, Moved, store
  <2>4. UNCHANGED <<own, cache, run, gw>> /\ turn[p].pc # "idle"
    BY <1>11 DEF ResumeTurn, store, InCall, Projecting
  <2>5. QED
    BY <1>0, <2>1, <2>2, <2>3, <2>4, QuietTurn DEF TurnType
<1>12. CASE AssertTerminal(p)
  <2>1. Moved(p, [turn[p] EXCEPT !.pc = "admitting"])
    BY <1>0, <1>12, GotoMoves DEF AssertTerminal, Stations, InCall, Projecting
  <2>2. Carries([turn[p] EXCEPT !.pc = "admitting"])
    BY <1>0, <1>12 DEF AssertTerminal, Carries, TurnType, InCall, Projecting
  <2>3. Types'
    BY <1>0, <1>12, <2>1 DEF AssertTerminal, Types, Moved, store
  <2>4. UNCHANGED <<own, cache, run, gw>> /\ turn[p].pc # "idle"
    BY <1>12 DEF AssertTerminal, store, InCall, Projecting
  <2>5. QED
    BY <1>0, <2>1, <2>2, <2>3, <2>4, QuietTurn DEF TurnType
<1>13. CASE AdmitTerminal(p)
  <2>1. Moved(p, [turn[p] EXCEPT !.pc = "closing"])
    BY <1>0, <1>13, GotoMoves DEF AdmitTerminal, Stations, InCall, Projecting
  <2>2. Carries([turn[p] EXCEPT !.pc = "closing"])
    BY <1>0, <1>13 DEF AdmitTerminal, Carries, TurnType, InCall, Projecting
  <2>3. Types'
    BY <1>0, <1>13, <2>1, <1>9, ClosedTypes DEF AdmitTerminal, Types, Moved, store
  <2>4. UNCHANGED <<own, cache, run, gw>> /\ turn[p].pc # "idle"
    BY <1>13 DEF AdmitTerminal, store, InCall, Projecting
  <2>5. QED
    BY <1>0, <2>1, <2>2, <2>3, <2>4, QuietTurn DEF TurnType
<1>14. CASE ReportTerminal(p)
  <2>1. Moved(p, IdleTurn)
    BY <1>0, <1>14, IdleMoves DEF ReportTerminal
  <2>2. Carries(IdleTurn)
    BY <1>0, <1>14, IdleCarries DEF ReportTerminal, Carries, TurnType, InCall, Projecting
  <2>3. Types'
    BY <1>0, <1>14, <2>1, <1>9, SentTypes DEF ReportTerminal, Types, Moved, store, Ended, TurnType, Carries, Projecting
  <2>4. UNCHANGED <<own, cache, run, gw>>
    BY <1>14 DEF ReportTerminal, store, InCall, Projecting
  <2>5. QED
    BY <1>0, <2>1, <2>2, <2>3, <2>4, QuietTurn DEF IdleTurn
<1>15. CASE GiveUpRecovery(p)
  <2>1. Moved(p, IdleTurn)
    BY <1>0, <1>15, IdleMoves DEF GiveUpRecovery
  <2>2. Carries(IdleTurn)
    BY <1>0, <1>15, IdleCarries DEF GiveUpRecovery, Carries, TurnType, InCall, Projecting
  <2>3. Types'
    BY <1>0, <1>15, <2>1 DEF GiveUpRecovery, Types, Moved, store
  <2>4. UNCHANGED <<own, cache, run, gw>>
    BY <1>15 DEF GiveUpRecovery, store, InCall, Projecting
  <2>5. QED
    BY <1>0, <2>1, <2>2, <2>3, <2>4, QuietTurn DEF IdleTurn
<1>16. CASE \E c \in Calls : RecoverCall(p, c)
  <2>0. PICK c \in Calls : RecoverCall(p, c)
    BY <1>16
  <2>1. Moved(p, [turn[p] EXCEPT !.pc = "begin", !.call = c, !.todo = @ \ {c}])
    BY <1>0, <2>0, TodoMoves DEF RecoverCall
  <2>2. Carries([turn[p] EXCEPT !.pc = "begin", !.call = c, !.todo = @ \ {c}])
    BY <1>0, <2>0 DEF RecoverCall, Carries, TurnType, InCall, Projecting
  <2>3. Types'
    BY <1>0, <2>0, <2>1 DEF RecoverCall, Types, Moved, store
  <2>4. UNCHANGED <<own, cache, run, gw>> /\ turn[p].pc # "idle"
    BY <2>0 DEF RecoverCall, store
  <2>5. QED
    BY <1>0, <2>1, <2>2, <2>3, <2>4, QuietTurn DEF TurnType
<1>17. CASE FindOutput(p)
  <2>0. PICK t : /\ Moved(p, t) /\ Carries(t)
                 /\ t.run = turn[p].run
    <3>1. CASE turn' = [turn EXCEPT ![p].pc = "recovering", ![p].call = None]
      <4>1. Moved(p, [turn[p] EXCEPT !.pc = "recovering", !.call = None])
        BY <1>0, <3>1, CallMoves DEF Stations
      <4>2. Carries([turn[p] EXCEPT !.pc = "recovering", !.call = None])
        BY <1>0, <1>17 DEF FindOutput, Carries, TurnType, InCall, Projecting
      <4>3. [turn[p] EXCEPT !.pc = "recovering", !.call = None].run = turn[p].run
        BY <1>0 DEF TurnType
      <4>4. QED
        BY <4>1, <4>2, <4>3
    <3>2. CASE Goto(p, "inject")
      <4>1. Moved(p, [turn[p] EXCEPT !.pc = "inject"])
        BY <1>0, <3>2, GotoMoves DEF Stations
      <4>2. Carries([turn[p] EXCEPT !.pc = "inject"])
        BY <1>0, <1>17 DEF FindOutput, Carries, TurnType, InCall, Projecting
      <4>3. QED
        BY <1>0, <4>1, <4>2 DEF TurnType
    <3>3. QED
      BY <1>17, <3>1, <3>2 DEF FindOutput
  <2>3. Types'
    BY <1>0, <1>17, <2>0 DEF FindOutput, Types, Moved, store
  <2>4. UNCHANGED <<own, cache, run, gw>> /\ turn[p].pc # "idle"
    BY <1>17 DEF FindOutput, store
  <2>5. QED
    BY <1>0, <2>0, <2>3, <2>4, QuietTurn
<1>18. CASE RecoveryError(p)
  <2> DEFINE t == [IdleTurn EXCEPT !.pc = "projecting", !.run = turn[p].run,
                                   !.mode = "failing", !.st = "failed"]
  <2>0. t \in TurnType /\ Carries(t) /\ t.run = turn[p].run
    BY <1>0, NoneIsNew DEF TurnType, IdleTurn, Carries, Projecting, InCall
  <2>1. turn' = [turn EXCEPT ![p] = t]
    BY <1>18 DEF RecoveryError
  <2> HIDE DEF t
  <2>2. Moved(p, t)
    BY <1>0, <2>0, <2>1, MoveTo
  <2>3. Types'
    BY <1>0, <1>18, <2>2 DEF RecoveryError, Types, Moved, store
  <2>4. UNCHANGED <<own, cache, run, gw>> /\ turn[p].pc # "idle"
    BY <1>18 DEF RecoveryError, store, InCall, Projecting
  <2>5. QED
    BY <1>0, <2>0, <2>2, <2>3, <2>4, QuietTurn
<1>19. CASE CloseTerminal(p)
  <2>1. Moved(p, [turn[p] EXCEPT !.pc = "sending"])
    BY <1>0, <1>19, GotoMoves DEF CloseTerminal, Stations, Projecting
  <2>2. Carries([turn[p] EXCEPT !.pc = "sending"])
    BY <1>0, <1>19 DEF CloseTerminal, Carries, TurnType, InCall, Projecting
  <2>3. turn[p].st \in {"completed", "failed", "cancelled"} /\ turn[p].run \in Runs
    BY <1>0, <1>9, <1>19 DEF CloseTerminal, Carries, TurnType, Projecting
  <2>4. Types' /\ \A r \in Runs : RunInv(r)'
    BY <1>0, <1>19, <2>1, <2>3 DEF CloseTerminal, Types, Moved, Ended, TurnsOK, RunInv
  <2>5. UNCHANGED <<own, cache>> /\ turn[p].pc # "idle"
    BY <1>19 DEF CloseTerminal
  <2>6. \A q \in Procs : TurnInv(q)'
    BY <1>0, <2>1, <2>2, <2>5, TurnMoves DEF TurnType
  <2>7. QED
    BY <2>4, <2>6 DEF TurnsOK
<1>20. CASE ReadHistory(p)
  <2>0. PICK t : /\ t \in TurnType /\ Carries(t) /\ t.run = turn[p].run
                 /\ turn' = [turn EXCEPT ![p] = t]
    <3>1. turn[p].pc = "reading" /\ turn[p].mode = "recovery"
      BY <1>0, <1>20 DEF ReadHistory, Carries
    <3>2. CASE Superseded(turn[p].run)
      <4>1. [turn[p] EXCEPT !.pc = "projecting", !.mode = "failing", !.st = "failed"] \in TurnType
        BY <1>0 DEF TurnType, Projecting
      <4>2. Carries([turn[p] EXCEPT !.pc = "projecting", !.mode = "failing", !.st = "failed"])
        BY <1>0, NoneIsNew DEF TurnType, Projecting, InCall, Carries
      <4>3. turn' = [turn EXCEPT ![p] =
                       [turn[p] EXCEPT !.pc = "projecting", !.mode = "failing", !.st = "failed"]]
        BY <1>20, <3>2 DEF ReadHistory
      <4>4. QED
        BY <1>0, <4>1, <4>2, <4>3 DEF TurnType
    <3>3. CASE ~Superseded(turn[p].run) /\ Ends(turn[p].run) # {}
      <4> DEFINE st == EndStatus(turn[p].run)
      <4>0. st \in {"completed", "cancelled"}
        BY DEF EndStatus
      <4>1. turn' = [turn EXCEPT ![p] = [turn[p] EXCEPT !.pc = "projecting", !.st = st]]
        BY <1>20, <3>3 DEF ReadHistory
      <4> HIDE DEF st
      <4>2. [turn[p] EXCEPT !.pc = "projecting", !.st = st] \in TurnType
        BY <1>0, <4>0 DEF TurnType, Projecting
      <4>3. Carries([turn[p] EXCEPT !.pc = "projecting", !.st = st])
        BY <1>0, <3>1, <4>0, NoneIsNew DEF TurnType, Projecting, InCall, Carries
      <4>4. QED
        BY <1>0, <4>1, <4>2, <4>3 DEF TurnType
    <3>4. CASE ~Superseded(turn[p].run) /\ Ends(turn[p].run) = {}
      <4> DEFINE todo == (TailCalls(turn[p].run) \cup
                            {c \in Calls : journal[turn[p].run][c] # "none"})
                          \ TailOutputs(turn[p].run)
      <4>0. todo \in SUBSET Calls
        <5>1. \A i \in Positions("call") : items[i].c \in Calls
          BY DEF Positions, HistoryOK, ItemInv
        <5>2. QED
          BY <5>1 DEF TailCalls
      <4>1. turn' = [turn EXCEPT ![p] = [turn[p] EXCEPT !.pc = "recovering", !.todo = todo]]
        BY <1>20, <3>4 DEF ReadHistory
      <4> HIDE DEF todo
      <4>2. [turn[p] EXCEPT !.pc = "recovering", !.todo = todo] \in TurnType
        BY <1>0, <4>0 DEF TurnType
      <4>3. Carries([turn[p] EXCEPT !.pc = "recovering", !.todo = todo])
        BY <1>0, <3>1 DEF TurnType, Projecting, InCall, Carries
      <4>4. QED
        BY <1>0, <4>1, <4>2, <4>3 DEF TurnType
    <3>5. QED
      BY <3>2, <3>3, <3>4
  <2>1. Moved(p, t)
    BY <1>0, <2>0, MoveTo
  <2>3. Types'
    BY <1>0, <1>20, <2>1 DEF ReadHistory, Types, Moved, store
  <2>4. UNCHANGED <<own, cache, run, gw>> /\ turn[p].pc # "idle"
    BY <1>20 DEF ReadHistory, store
  <2>5. QED
    BY <1>0, <2>0, <2>1, <2>3, <2>4, QuietTurn
<1>21. QED
  BY <1>10, <1>11, <1>12, <1>13, <1>14, <1>15, <1>16, <1>17, <1>18, <1>19, <1>20 DEF Recovery

\* A claim: the process moves to the run it has claimed, whose fence grows.
LEMMA ClaimTurn ==
  ASSUME TurnsOK, NEW p \in Procs, NEW r \in Runs, Claim(p, r), own[r].fence < MaxFence,
         NEW t \in TurnType, turn' = [turn EXCEPT ![p] = t], Carries(t), t.run = r,
         UNCHANGED <<run, lease, journal, life, events, proc, sick, closing>>
  PROVE  /\ Moved(p, t)
         /\ \A q \in Procs : TurnInv(q)'
         /\ gw' = gw => Types'
         /\ \A q \in Runs : own'[q].fence = own[q].fence + (IF q = r THEN 1 ELSE 0)
PROOF
<1>0. Types /\ own[r].fence \in Nat /\ MaxFence \in Nat /\ own[r].fence + 1 \in 0..MaxFence
  BY FenceBound DEF TurnsOK, Types
<1>1. Moved(p, t)
  BY <1>0, MoveTo
<1>2. /\ own' \in [Runs -> [p : Procs \cup {None}, fence : 0..MaxFence, live : BOOLEAN]]
      /\ cache' \in [Procs -> [run : Runs \cup {None}, fence : 0..MaxFence]]
  BY <1>0 DEF Types, Claim
<1>3. \A q \in Runs : /\ own[q].fence \in Nat
                      /\ own'[q].fence = own[q].fence + (IF q = r THEN 1 ELSE 0)
  BY <1>0 DEF Types, Claim
<1>4. /\ cache'[p].run = r /\ cache'[p].fence = own'[r].fence
      /\ \A q \in Procs \ {p} : cache'[q] = cache[q]
  BY <1>0, <1>3 DEF Types, Claim
<1>5. TurnInv(p)'
  BY <1>0, <1>1, <1>3, <1>4 DEF TurnInv, Moved
<1>6. ASSUME NEW q \in Procs, q # p PROVE TurnInv(q)'
  BY <1>1, <1>3, <1>4, <1>6, OtherTurns DEF Moved
<1>7. gw' = gw => Types'
  BY <1>0, <1>1, <1>2 DEF Types, Moved
<1>8. QED
  BY <1>1, <1>3, <1>5, <1>6, <1>7

\* The Gateway's request is accepted.
LEMMA StartTurns ==
  ASSUME TurnsOK, NEW p \in Procs, NEW r \in Runs, StartTurn(p, r)
  PROVE  TurnsOK'
PROOF
<1> DEFINE t == [IdleTurn EXCEPT !.pc = "starting", !.run = r, !.mode = "core"]
<1>0. Types /\ \A q \in Runs : RunInv(q)
  BY DEF TurnsOK
<1>1. t \in TurnType /\ Carries(t) /\ t.run = r
  BY NoneIsNew DEF TurnType, IdleTurn, Carries, InCall, Projecting
<1>2. turn' = [turn EXCEPT ![p] = t]
  BY DEF StartTurn
<1> HIDE DEF t
<1>3. Claim(p, r) /\ own[r].fence < MaxFence
      /\ UNCHANGED <<run, lease, journal, life, events, proc, sick, closing>>
  BY DEF StartTurn, Claimable
<1>4. /\ Moved(p, t) /\ \A q \in Procs : TurnInv(q)'
      /\ \A q \in Runs : own'[q].fence = own[q].fence + (IF q = r THEN 1 ELSE 0)
  BY <1>1, <1>2, <1>3, ClaimTurn
<1>5. gw' \in [Runs -> [pc : {"none", "posting", "open", "asked", "revoked", "done"},
                       st : {None, "succeeded", "failed", "cancelled"}]]
  BY <1>0 DEF StartTurn, Types
<1>6. /\ own' \in [Runs -> [p : Procs \cup {None}, fence : 0..MaxFence, live : BOOLEAN]]
      /\ cache' \in [Procs -> [run : Runs \cup {None}, fence : 0..MaxFence]]
  BY <1>0, <1>3, FenceBound DEF Types, Claim
<1>7. Types'
  BY <1>0, <1>3, <1>4, <1>5, <1>6 DEF Types, Moved
<1>8. run[r] = "running" /\ gw'[r].pc = "open" /\ \A q \in Runs \ {r} : gw'[q] = gw[q]
  BY <1>0 DEF StartTurn, Claimable, IsActive, Types
<1>9. \A q \in Runs : own[q].fence \in Nat
  BY <1>0, FenceBound DEF Types
<1>10. \A q \in Runs : RunInv(q)'
  BY <1>0, <1>3, <1>4, <1>8, <1>9 DEF RunInv
<1>11. QED
  BY <1>4, <1>7, <1>10 DEF TurnsOK

\* An expired claim is taken over.
LEMMA TakenOverTurns ==
  ASSUME TurnsOK, NEW p \in Procs, NEW r \in Runs, TakeOver(p, r)
  PROVE  TurnsOK'
PROOF
<1> DEFINE t == [IdleTurn EXCEPT !.pc = "reading", !.run = r, !.mode = "recovery"]
<1>0. Types /\ \A q \in Runs : RunInv(q)
  BY DEF TurnsOK
<1>1. t \in TurnType /\ Carries(t) /\ t.run = r
  BY NoneIsNew DEF TurnType, IdleTurn, Carries, InCall, Projecting
<1>2. turn' = [turn EXCEPT ![p] = t]
  BY DEF TakeOver
<1> HIDE DEF t
<1>3. Claim(p, r) /\ own[r].fence < MaxFence /\ gw' = gw
      /\ UNCHANGED <<run, lease, journal, life, events, proc, sick, closing>>
  BY DEF TakeOver, Claimable
<1>4. /\ Types' /\ \A q \in Procs : TurnInv(q)'
      /\ \A q \in Runs : own'[q].fence = own[q].fence + (IF q = r THEN 1 ELSE 0)
  BY <1>1, <1>2, <1>3, ClaimTurn
<1>5. own[r].fence > 0 /\ \A q \in Runs : own[q].fence \in Nat
  BY <1>0, FenceBound DEF Types, TakeOver, Owned
<1>6. \A q \in Runs : RunInv(q)'
  BY <1>0, <1>3, <1>4, <1>5 DEF RunInv
<1>7. QED
  BY <1>4, <1>6 DEF TurnsOK

\* A process leaves.
LEMMA LeaveTurns ==
  ASSUME TurnsOK, NEW p \in Procs, NEW how \in {"gone", "retired"}, Leave(p, how)
  PROVE  TurnsOK'
PROOF
<1>0. Types /\ \A q \in Procs : TurnInv(q)
  BY DEF TurnsOK
<1>1. Moved(p, IdleTurn)
  BY <1>0, IdleMoves DEF Leave
<1>2. UNCHANGED <<own, run, gw>> /\ \A q \in Procs \ {p} : cache'[q] = cache[q]
  BY <1>0 DEF Leave, store, Types
<1>3. cache'[p].run = None
  BY <1>0 DEF Leave, NoClaim, Types
<1>4. TurnInv(p)'
  BY <1>1, <1>3, IdleCarries DEF TurnInv, Moved, IdleTurn
<1>5. ASSUME NEW q \in Procs, q # p PROVE TurnInv(q)'
  BY <1>0, <1>1, <1>2, <1>5 DEF TurnInv, Moved
<1>6. Types'
  BY <1>0, <1>1, FenceBound DEF Leave, store, NoClaim, Types, Moved
<1>7. \A r \in Runs : RunInv(r)'
  BY <1>2 DEF TurnsOK, RunInv
<1>8. QED
  BY <1>4, <1>5, <1>6, <1>7 DEF TurnsOK

\* The other steps of the recovery loop.
LEMMA LoopTurns ==
  ASSUME TurnsOK, NEW p \in Procs, RecoveryLoop(p)
  PROVE  TurnsOK'
PROOF
<1>0. Types /\ (\A q \in Procs : TurnInv(q)) /\ \A r \in Runs : RunInv(r)
  BY DEF TurnsOK
<1>1. CASE HeartbeatRefused(p)
  BY <1>1, LeaveTurns DEF HeartbeatRefused
<1>2. CASE ReportClosed(p)
  <2>1. closing[p] \in Runs /\ "failed" \in Ended
    BY <1>0, <1>2 DEF ReportClosed, Types, Ended
  <2>2. life' \in [Runs -> [Calls -> {"none", "open", "closed", "done"}]]
    BY <1>0, <1>2, <2>1, ClosedTypes DEF ReportClosed
  <2>3. events' \in [Runs -> SUBSET Ended]
    BY <1>0, <1>2, <2>1, SentTypes DEF ReportClosed
  <2>4. Types'
    BY <1>0, <1>2, <2>2, <2>3 DEF ReportClosed, Types
  <2>5. UNCHANGED <<own, cache, turn, run, gw>>
    BY <1>2 DEF ReportClosed
  <2>6. QED
    BY <1>0, <2>4, <2>5 DEF TurnsOK, TurnInv, RunInv
<1>3. CASE \E r \in Runs : CloseExpired(p, r)
  <2>1. PICK r \in Runs : CloseExpired(p, r)
    BY <1>3
  <2>2. Types'
    BY <1>0, <2>1 DEF CloseExpired, Types, Ended
  <2>3. UNCHANGED <<own, cache, turn, gw>> /\ \A q \in Runs : run'[q] \in {run[q], "failed"}
    BY <1>0, <2>1 DEF CloseExpired, Types
  <2>4. QED
    BY <1>0, <2>2, <2>3 DEF TurnsOK, TurnInv, RunInv
<1>4. CASE \E r \in Runs : TakeOver(p, r)
  BY <1>4, TakenOverTurns
<1>5. QED
  BY <1>1, <1>2, <1>3, <1>4 DEF RecoveryLoop

\* The Gateway, the user and the clock.
LEMMA OutsideTurns ==
  ASSUME TurnsOK, NEW r \in Runs,
         Gateway(r) \/ InterruptTurn(r) \/ OwnerLeaseExpires(r) \/ AuthorityEnds(r)
  PROVE  TurnsOK'
PROOF
<1>0. Types /\ (\A q \in Procs : TurnInv(q)) /\ \A q \in Runs : RunInv(q)
  BY DEF TurnsOK
<1>1. UNCHANGED <<cache, turn>>
  BY DEF Gateway, IssueTurn, StartRefused, SeeTerminal, RevokeLease, CloseRun,
         InterruptTurn, OwnerLeaseExpires, AuthorityEnds, process
<1>2. \A q \in Runs : own'[q].fence = own[q].fence
  BY <1>0 DEF Gateway, IssueTurn, StartRefused, SeeTerminal, RevokeLease, CloseRun,
         InterruptTurn, OwnerLeaseExpires, AuthorityEnds, store, Types
<1>3. \A q \in Procs : TurnInv(q)'
  <2>1. \A q \in Procs : cache[q].run \in Runs \cup {None}
    BY <1>0 DEF Types
  <2>2. QED
    BY <1>0, <1>1, <1>2, <2>1 DEF TurnInv
<1>4. CASE IssueTurn(r)
  <2>1. Types'
    BY <1>0, <1>4 DEF IssueTurn, Types, process
  <2>2. \A q \in Runs : RunInv(q)'
    BY <1>0, <1>4 DEF IssueTurn, RunInv, Types
  <2>3. QED
    BY <1>3, <2>1, <2>2 DEF TurnsOK
<1>5. CASE StartRefused(r)
  <2>1. Types'
    BY <1>0, <1>5 DEF StartRefused, Types, store, process
  <2>2. \A q \in Runs : RunInv(q)'
    BY <1>0, <1>5, NoneIsNew DEF StartRefused, RunInv, Types, store
  <2>3. QED
    BY <1>3, <2>1, <2>2 DEF TurnsOK
<1>6. CASE SeeTerminal(r)
  <2>0. PICK st \in {"succeeded", "failed", "cancelled"} :
          gw' = [gw EXCEPT ![r] = [pc |-> "asked", st |-> st]]
    BY <1>6 DEF SeeTerminal, CompletedAs
  <2>1. Types'
    BY <1>0, <1>6, <2>0 DEF SeeTerminal, Types, store, process
  <2>2. \A q \in Runs : RunInv(q)'
    BY <1>0, <1>6, <2>0, NoneIsNew DEF SeeTerminal, RunInv, Types, store
  <2>3. QED
    BY <1>3, <2>1, <2>2 DEF TurnsOK
<1>7. CASE RevokeLease(r)
  <2>1. Types'
    BY <1>0, <1>7 DEF RevokeLease, Types, process
  <2>2. \A q \in Runs : RunInv(q)'
    BY <1>0, <1>7 DEF RevokeLease, RunInv, Types
  <2>3. QED
    BY <1>3, <2>1, <2>2 DEF TurnsOK
<1>8. CASE CloseRun(r)
  <2>0. gw[r].st \in Ended
    BY <1>0, <1>8 DEF CloseRun, RunInv, Types, Ended
  <2>1. Types'
    BY <1>0, <1>8, <2>0 DEF CloseRun, Types, process
  <2>2. \A q \in Runs : RunInv(q)'
    BY <1>0, <1>8, <2>0 DEF CloseRun, RunInv, Types, Ended
  <2>3. QED
    BY <1>3, <2>1, <2>2 DEF TurnsOK
<1>9. CASE InterruptTurn(r)
  <2>0. events' \in [Runs -> SUBSET Ended]
    BY <1>0, <1>9, SentTypes DEF InterruptTurn, Ended
  <2>1. Types'
    BY <1>0, <1>9, <2>0 DEF InterruptTurn, Types, process, Ended
  <2>2. \A q \in Runs : RunInv(q)'
    BY <1>0, <1>9 DEF InterruptTurn, RunInv, Types
  <2>3. QED
    BY <1>3, <2>1, <2>2 DEF TurnsOK
<1>10. CASE OwnerLeaseExpires(r)
  <2>1. Types'
    <3> DEFINE o == [own[r] EXCEPT !.live = FALSE]
    <3>1. own[r] \in [p : Procs \cup {None}, fence : 0..MaxFence, live : BOOLEAN]
      BY <1>0 DEF Types
    <3>2. o \in [p : Procs \cup {None}, fence : 0..MaxFence, live : BOOLEAN]
      BY <3>1
    <3>3. own' = [own EXCEPT ![r] = o]
      BY <1>10 DEF OwnerLeaseExpires
    <3> HIDE DEF o
    <3>4. own' \in [Runs -> [p : Procs \cup {None}, fence : 0..MaxFence, live : BOOLEAN]]
      BY <1>0, <3>2, <3>3 DEF Types
    <3>5. QED
      BY <1>0, <1>10, <3>4 DEF OwnerLeaseExpires, Types, process
  <2>2. \A q \in Runs : RunInv(q)'
    BY <1>0, <1>2, <1>10 DEF OwnerLeaseExpires, RunInv
  <2>3. QED
    BY <1>3, <2>1, <2>2 DEF TurnsOK
<1>11. CASE AuthorityEnds(r)
  <2>1. Types'
    BY <1>0, <1>11 DEF AuthorityEnds, Types, process
  <2>2. \A q \in Runs : RunInv(q)'
    BY <1>0, <1>2, <1>11 DEF AuthorityEnds, RunInv
  <2>3. QED
    BY <1>3, <2>1, <2>2 DEF TurnsOK
<1>12. QED
  BY <1>4, <1>5, <1>6, <1>7, <1>8, <1>9, <1>10, <1>11 DEF Gateway

\* Rows, claims and turns keep their part of the invariant.
LEMMA TurnsStep ==
  ASSUME ClaimInv, [Next]_vars
  PROVE  TurnsOK'
PROOF
<1>0. TurnsOK /\ HistoryOK
  BY ClaimParts
<1>1. ASSUME NEW p \in Procs, Crash(p) PROVE TurnsOK'
  BY <1>0, <1>1, LeaveTurns DEF Crash
<1>2. CASE UNCHANGED vars
  BY <1>0, <1>2 DEF vars, TurnsOK, Types, TurnInv, RunInv
<1>3. QED
  BY <1>0, <1>1, <1>2, StartTurns, LiveTurns, RecoveryTurns, LoopTurns, OutsideTurns DEF Next

-----------------------------------------------------------------------------
(* The steps that append to the history.                                   *)

\* An append of Core or of a recovery that was not refused.
WriteStep(p) ==
  \/ CoreStarts(p) /\ Writes(p, "start", None)
  \/ \E c \in Calls : CoreCall(p, c) /\ Writes(p, "call", c)
  \/ CoreOutput(p) /\ Writes(p, "out", turn[p].call)
  \/ CoreCompletes(p) /\ Writes(p, "completed", None)
  \/ CoreAborts(p) /\ Writes(p, "aborted", None)
  \/ InjectOutput(p) /\ Writes(p, "out", turn[p].call)

\* Every other step leaves the history alone.
LEMMA HistorySteps ==
  ASSUME ClaimInv, [Next]_vars
  PROVE  items' = items \/ \E p \in Procs : WriteStep(p)
PROOF
<1>1. ASSUME NEW p \in Procs, LiveTurn(p)
      PROVE  items' = items \/ WriteStep(p)
  <2>0. turn[p] \in TurnType /\ Carries(turn[p])
    BY DEF ClaimInv, TypeOK, TurnInv
  <2>1. CASE CoreStarts(p)
    <3>1. turn[p].pc # "idle" /\ CoreAppends(p, "start", None) /\ "start" \in Kinds
      BY <2>1 DEF CoreStarts, Kinds
    <3>2. QED
      BY <2>1, <3>1, CoreAppendWrites DEF WriteStep
  <2>2. CASE \E c \in Calls : CoreCall(p, c)
    <3>0. PICK c \in Calls : CoreCall(p, c)
      BY <2>2
    <3>1. turn[p].pc # "idle" /\ CoreAppends(p, "call", c) /\ "call" \in Kinds
      BY <3>0 DEF CoreCall, Kinds
    <3>2. QED
      BY <3>0, <3>1, CoreAppendWrites DEF WriteStep
  <2>3. CASE CoreOutput(p)
    <3>1. /\ turn[p].pc # "idle" /\ turn[p].call \in Calls
          /\ CoreAppends(p, "out", turn[p].call) /\ "out" \in Kinds
      BY <2>0, <2>3 DEF CoreOutput, Kinds, InCall, Carries
    <3>2. QED
      BY <2>3, <3>1, CoreAppendWrites DEF WriteStep
  <2>4. CASE CoreCompletes(p)
    <3>1. turn[p].pc # "idle" /\ CoreAppends(p, "completed", None) /\ "completed" \in Kinds
      BY <2>4 DEF CoreCompletes, Kinds
    <3>2. QED
      BY <2>4, <3>1, CoreAppendWrites DEF WriteStep
  <2>5. CASE CoreAborts(p)
    <3>1. turn[p].pc # "idle" /\ CoreAppends(p, "aborted", None) /\ "aborted" \in Kinds
      BY <2>5 DEF CoreAborts, Kinds, InCall
    <3>2. QED
      BY <2>5, <3>1, CoreAppendWrites DEF WriteStep
  <2>6. QED
    BY <1>1, <2>1, <2>2, <2>3, <2>4, <2>5
    DEF LiveTurn, AdmitTurn, StartRejected, BeginInvocation, PublishCall, DispatchCall,
        RecordResult, FinishInvocation, AdmitCompleted, ProjectFinished, ProjectFailure,
        store
<1>2. ASSUME NEW p \in Procs, Recovery(p)
      PROVE  items' = items \/ WriteStep(p)
  <2>0. turn[p] \in TurnType /\ Carries(turn[p])
    BY DEF ClaimInv, TypeOK, TurnInv
  <2>1. CASE InjectOutput(p)
    <3>1. /\ turn[p].pc # "idle" /\ turn[p].call \in Calls
          /\ AppendItem(p, "out", turn[p].call) /\ "out" \in Kinds
      BY <2>0, <2>1 DEF InjectOutput, Kinds, Carries
    <3>2. QED
      BY <2>1, <3>1, AppendWrites DEF WriteStep
  <2>2. QED
    BY <1>2, <2>1
    DEF Recovery, ReadHistory, RecoverCall, FindOutput, ResumeTurn, RecoveryError,
        AssertTerminal, AdmitTerminal, CloseTerminal, ReportTerminal, GiveUpRecovery, store
<1>3. ASSUME NEW p \in Procs, Crash(p) \/ RecoveryLoop(p) \/ \E r \in Runs : StartTurn(p, r)
      PROVE  items' = items
  BY <1>3 DEF Crash, RecoveryLoop, HeartbeatRefused, Leave, ReportClosed, CloseExpired,
              TakeOver, StartTurn, store
<1>4. ASSUME NEW r \in Runs,
             Gateway(r) \/ InterruptTurn(r) \/ OwnerLeaseExpires(r) \/ AuthorityEnds(r)
      PROVE  items' = items
  BY <1>4 DEF Gateway, IssueTurn, StartRefused, SeeTerminal, RevokeLease, CloseRun,
              InterruptTurn, OwnerLeaseExpires, AuthorityEnds, store
<1>5. CASE UNCHANGED vars
  BY <1>5 DEF vars
<1>6. QED
  BY <1>1, <1>2, <1>3, <1>4, <1>5 DEF Next

\* Owner rows: their fences never shrink.
LEMMA FencesGrow ==
  ASSUME ClaimInv, [Next]_vars
  PROVE  \A r \in Runs : own[r].fence \in Nat /\ own[r].fence <= own'[r].fence
PROOF
<1>0. /\ own \in [Runs -> [p : Procs \cup {None}, fence : 0..MaxFence, live : BOOLEAN]]
      /\ \A r \in Runs : own[r].fence \in Nat
  BY FenceBound DEF ClaimInv, TypeOK
<1>1. ASSUME NEW p \in Procs, LiveTurn(p) \/ Recovery(p) \/ Crash(p)
      PROVE  own' = own
  BY <1>1 DEF LiveTurn, AdmitTurn, StartRejected, CoreStarts, CoreCall, BeginInvocation,
        PublishCall, DispatchCall, RecordResult, FinishInvocation, CoreOutput,
        CoreCompletes, CoreAborts, AdmitCompleted, ProjectFinished, ProjectFailure,
        Recovery, ReadHistory, RecoverCall, FindOutput, InjectOutput, ResumeTurn,
        RecoveryError, AssertTerminal, AdmitTerminal, CloseTerminal, ReportTerminal,
        GiveUpRecovery, Crash, Leave, store
<1>2. ASSUME NEW p \in Procs, RecoveryLoop(p) \/ \E r \in Runs : StartTurn(p, r)
      PROVE  own' = own \/ \E r \in Runs : Claim(p, r)
  BY <1>2 DEF RecoveryLoop, HeartbeatRefused, Leave, ReportClosed, CloseExpired, TakeOver,
              StartTurn, store
<1>3. ASSUME NEW r \in Runs,
             Gateway(r) \/ InterruptTurn(r) \/ OwnerLeaseExpires(r) \/ AuthorityEnds(r)
      PROVE  own' = own \/ own' = [own EXCEPT ![r].live = FALSE]
  BY <1>3 DEF Gateway, IssueTurn, StartRefused, SeeTerminal, RevokeLease, CloseRun,
              InterruptTurn, OwnerLeaseExpires, AuthorityEnds, store
<1>4. ASSUME NEW p \in Procs, NEW r \in Runs, Claim(p, r)
      PROVE  \A q \in Runs : own[q].fence <= own'[q].fence
  BY <1>0, <1>4 DEF Claim
<1>5. ASSUME NEW r \in Runs, own' = [own EXCEPT ![r].live = FALSE]
      PROVE  \A q \in Runs : own[q].fence <= own'[q].fence
  BY <1>0, <1>5
<1>6. CASE UNCHANGED vars
  BY <1>0, <1>6 DEF vars
<1>7. QED
  BY <1>0, <1>1, <1>2, <1>3, <1>4, <1>5, <1>6 DEF Next

\* What a write does: one item more, under the newest fence of its run, while
\* the claims stay.
LEMMA WriteFacts ==
  ASSUME ClaimInv, NEW p \in Procs, WriteStep(p)
  PROVE  /\ UNCHANGED <<own, cache, journal, run, events, gw>>
         /\ Current(p) /\ turn[p].run \in Runs
         /\ items' \in Seq(ItemType)
         /\ Len(items) \in Nat /\ Len(items') = Len(items) + 1
         /\ \A i \in 1..Len(items) : items'[i] = items[i] /\ items[i] \in ItemType
         /\ items'[Len(items) + 1] \in ItemType
         /\ items'[Len(items) + 1].r = turn[p].run
         /\ items'[Len(items) + 1].fence = own[turn[p].run].fence
         /\ items'[Len(items) + 1].kind = "call" => items'[Len(items) + 1].c \in Calls
PROOF
<1>1. PICK kind, c : Writes(p, kind, c) /\ (kind = "call" => c \in Calls)
  BY DEF WriteStep
<1>2. UNCHANGED <<own, cache, journal, run, events, gw>>
  BY DEF WriteStep, CoreStarts, CoreCall, CoreOutput, CoreCompletes, CoreAborts, InjectOutput
<1>3. Current(p) /\ turn[p].run \in Runs /\ cache[p].fence = own[turn[p].run].fence
  BY <1>1 DEF Writes, Current, ClaimInv, TurnInv
<1>4. items \in Seq(ItemType)
  BY DEF ClaimInv, TypeOK
<1>5. Item(p, kind, c) \in ItemType /\ items' = Append(items, Item(p, kind, c))
  BY <1>1 DEF Writes
<1>6. /\ Item(p, kind, c).r = turn[p].run /\ Item(p, kind, c).fence = cache[p].fence
      /\ Item(p, kind, c).kind = kind /\ Item(p, kind, c).c = c
  BY DEF Item
<1>7. QED
  BY <1>1, <1>2, <1>3, <1>4, <1>5, <1>6, AppendFacts

\* The history keeps its part of the invariant.
LEMMA HistoryStep ==
  ASSUME ClaimInv, [Next]_vars
  PROVE  HistoryOK'
PROOF
<1>0. /\ items \in Seq(ItemType) /\ \A i \in 1..Len(items) : ItemInv(i)
      /\ \A i \in 1..Len(items) : items[i] \in ItemType
  BY ElementOfSeq DEF ClaimInv, TypeOK
<1>1. \A r \in Runs : own[r].fence \in Nat /\ own[r].fence <= own'[r].fence
  BY FencesGrow
<1>2. CASE items' = items
  <2>1. \A i \in 1..Len(items) : items[i].r \in Runs /\ items[i].fence \in Nat
    BY <1>0, FenceBound DEF ItemType
  <2>2. \A r \in Runs : own'[r].fence \in Nat \/ own'[r].fence = own[r].fence
    <3>1. TurnsOK'
      BY TurnsStep
    <3>2. QED
      BY <3>1, FenceBound DEF TurnsOK, Types
  <2>3. QED
    BY <1>0, <1>1, <1>2, <2>1, <2>2 DEF HistoryOK, ItemInv
<1>3. CASE \E p \in Procs : WriteStep(p)
  <2>0. PICK p \in Procs : WriteStep(p)
    BY <1>3
  <2>1. /\ own' = own /\ turn[p].run \in Runs /\ items' \in Seq(ItemType)
        /\ Len(items) \in Nat /\ Len(items') = Len(items) + 1
        /\ \A i \in 1..Len(items) : items'[i] = items[i]
        /\ items'[Len(items) + 1].r = turn[p].run
        /\ items'[Len(items) + 1].fence = own[turn[p].run].fence
        /\ items'[Len(items) + 1].kind = "call" => items'[Len(items) + 1].c \in Calls
    BY <2>0, WriteFacts
  <2>2. PICK n : n = Len(items)
    OBVIOUS
  <2>3. ItemInv(n + 1)'
    BY <1>1, <2>1, <2>2 DEF ItemInv
  <2>4. \A i \in 1..n : ItemInv(i)'
    BY <1>0, <2>1, <2>2 DEF ItemInv
  <2>5. \A i \in 1..Len(items') : i \in 1..n \/ i = n + 1
    BY <2>1, <2>2
  <2>6. QED
    BY <2>1, <2>3, <2>4, <2>5 DEF HistoryOK
<1>4. QED
  BY <1>2, <1>3, HistorySteps

\* The invariant holds initially.
LEMMA ClaimInit == Init => ClaimInv
PROOF
<1> SUFFICES ASSUME Init PROVE ClaimInv
  OBVIOUS
<1>1. items = <<>> /\ items \in Seq(ItemType) /\ Len(items) = 0
  BY EmptySeq DEF Init
<1>2. HistoryOK
  BY <1>1 DEF HistoryOK
<1>3. IdleTurn \in TurnType /\ Carries(IdleTurn)
  BY IdleCarries DEF IdleTurn, TurnType
<1>4. Types
  BY <1>3, FenceBound DEF Init, Types, NoOwner, NoClaim, NoRequest, Ended
<1>5. \A p \in Procs : TurnInv(p)
  BY <1>3 DEF Init, TurnInv, NoClaim, IdleTurn
<1>6. \A r \in Runs : RunInv(r)
  BY DEF Init, RunInv, NoOwner, NoRequest
<1>7. QED
  BY <1>2, <1>4, <1>5, <1>6, ClaimParts DEF TurnsOK

\* Every reachable state satisfies it.
LEMMA ClaimHolds == Spec => []ClaimInv
PROOF
<1>1. ClaimInv /\ [Next]_vars => ClaimInv'
  <2> SUFFICES ASSUME ClaimInv, [Next]_vars PROVE ClaimInv'
    OBVIOUS
  <2>1. TurnsOK' /\ HistoryOK'
    BY TurnsStep, HistoryStep
  <2>2. QED
    BY <2>1 DEF ClaimInv, TurnsOK, HistoryOK, TypeOK, Types
<1>2. QED
  BY ClaimInit, <1>1, PTL DEF Spec

\* Every variable of the Runtime's ownership keeps its type: no step of the
\* Gateway, of a process or of a recovery writes a row, a claim or an item that
\* another one cannot read.
THEOREM OwnershipTypes == Spec => []TypeOK
PROOF
<1>1. ClaimInv => TypeOK
  BY DEF ClaimInv
<1>2. QED
  BY <1>1, ClaimHolds, PTL

-----------------------------------------------------------------------------
(* Who moves, and where to.                                                *)

\* Where each step of a live turn leads.
LEMMA LiveTable ==
  ASSUME turn \in [Procs -> TurnType], NEW p \in Procs
  PROVE  /\ AdmitTurn(p) => turn'[p] = [turn[p] EXCEPT !.pc = "admitted", !.mode = "core"]
         /\ StartRejected(p) =>
              \/ turn'[p] = IdleTurn
              \/ turn'[p] = [turn[p] EXCEPT !.pc = "projecting", !.mode = "failing",
                                            !.st = "failed"]
         /\ CoreStarts(p) => turn'[p] = [turn[p] EXCEPT !.pc = "core"]
         /\ \A c \in Calls : CoreCall(p, c) =>
              turn'[p] = [turn[p] EXCEPT !.pc = "begin", !.call = c]
         /\ BeginInvocation(p) => \/ turn'[p] = [turn[p] EXCEPT !.pc = "respond"]
                                  \/ turn'[p] = [turn[p] EXCEPT !.pc = "invoke"]
         /\ PublishCall(p) => turn'[p] = [turn[p] EXCEPT !.pc = "dispatch"]
         /\ DispatchCall(p) => turn'[p] = [turn[p] EXCEPT !.pc = "result"]
         /\ RecordResult(p) => turn'[p] = [turn[p] EXCEPT !.pc = "finish"]
         /\ FinishInvocation(p) => turn'[p] = [turn[p] EXCEPT !.pc = "respond"]
         /\ CoreOutput(p) => turn'[p] = [turn[p] EXCEPT !.pc = "core", !.call = None]
         /\ CoreCompletes(p) => turn'[p] = [turn[p] EXCEPT !.pc = "completing"]
         /\ AdmitCompleted(p) => turn'[p] = [turn[p] EXCEPT !.pc = "finished"]
         /\ ProjectFinished(p) \/ ProjectFailure(p) \/ CoreAborts(p) => turn'[p] = IdleTurn
PROOF
<1>1. AdmitTurn(p) => turn'[p] = [turn[p] EXCEPT !.pc = "admitted", !.mode = "core"]
  BY DEF AdmitTurn
<1>2. StartRejected(p) =>
        \/ turn'[p] = IdleTurn
        \/ turn'[p] = [turn[p] EXCEPT !.pc = "projecting", !.mode = "failing",
                                      !.st = "failed"]
  BY DEF StartRejected, Idle
<1>3. /\ CoreStarts(p) => turn'[p] = [turn[p] EXCEPT !.pc = "core"]
      /\ PublishCall(p) => turn'[p] = [turn[p] EXCEPT !.pc = "dispatch"]
      /\ DispatchCall(p) => turn'[p] = [turn[p] EXCEPT !.pc = "result"]
      /\ RecordResult(p) => turn'[p] = [turn[p] EXCEPT !.pc = "finish"]
      /\ FinishInvocation(p) => turn'[p] = [turn[p] EXCEPT !.pc = "respond"]
      /\ CoreCompletes(p) => turn'[p] = [turn[p] EXCEPT !.pc = "completing"]
      /\ AdmitCompleted(p) => turn'[p] = [turn[p] EXCEPT !.pc = "finished"]
  BY DEF CoreStarts, PublishCall, DispatchCall, RecordResult, FinishInvocation,
         CoreCompletes, AdmitCompleted, Goto
<1>4. \A c \in Calls : CoreCall(p, c) =>
        turn'[p] = [turn[p] EXCEPT !.pc = "begin", !.call = c]
  BY DEF CoreCall
<1>5. BeginInvocation(p) => \/ turn'[p] = [turn[p] EXCEPT !.pc = "respond"]
                            \/ turn'[p] = [turn[p] EXCEPT !.pc = "invoke"]
  BY DEF BeginInvocation, Goto
<1>6. CoreOutput(p) => turn'[p] = [turn[p] EXCEPT !.pc = "core", !.call = None]
  BY DEF CoreOutput
<1>7. ProjectFinished(p) \/ ProjectFailure(p) \/ CoreAborts(p) => turn'[p] = IdleTurn
  BY DEF ProjectFinished, ProjectFailure, CoreAborts, Idle
<1>8. QED
  BY <1>1, <1>2, <1>3, <1>4, <1>5, <1>6, <1>7

\* Where each step of a recovery leads.
LEMMA RecoveryTable ==
  ASSUME turn \in [Procs -> TurnType], NEW p \in Procs
  PROVE  /\ ReadHistory(p) =>
              \/ turn'[p] = [turn[p] EXCEPT !.pc = "projecting", !.mode = "failing",
                                            !.st = "failed"]
              \/ /\ ~Superseded(turn[p].run) /\ Ends(turn[p].run) # {}
                 /\ turn'[p] = [turn[p] EXCEPT !.pc = "projecting",
                                               !.st = EndStatus(turn[p].run)]
              \/ /\ ~Superseded(turn[p].run) /\ Ends(turn[p].run) = {}
                 /\ turn'[p] = [turn[p] EXCEPT !.pc = "recovering",
                      !.todo = (TailCalls(turn[p].run) \cup
                                {c \in Calls : journal[turn[p].run][c] # "none"})
                               \ TailOutputs(turn[p].run)]
         /\ \A c \in Calls : RecoverCall(p, c) =>
              turn'[p] = [turn[p] EXCEPT !.pc = "begin", !.call = c, !.todo = @ \ {c}]
         /\ FindOutput(p) =>
              \/ /\ Answered(turn[p].call)
                 /\ turn'[p] = [turn[p] EXCEPT !.pc = "recovering", !.call = None]
              \/ /\ ~Answered(turn[p].call)
                 /\ turn'[p] = [turn[p] EXCEPT !.pc = "inject"]
         /\ InjectOutput(p) => turn'[p] = [turn[p] EXCEPT !.pc = "recovering", !.call = None]
         /\ ResumeTurn(p) => turn'[p] = [turn[p] EXCEPT !.pc = "starting"]
         /\ RecoveryError(p) =>
              turn'[p] = [IdleTurn EXCEPT !.pc = "projecting", !.run = turn[p].run,
                                          !.mode = "failing", !.st = "failed"]
         /\ AssertTerminal(p) => turn'[p] = [turn[p] EXCEPT !.pc = "admitting"]
         /\ AdmitTerminal(p) => turn'[p] = [turn[p] EXCEPT !.pc = "closing"]
         /\ CloseTerminal(p) => turn'[p] = [turn[p] EXCEPT !.pc = "sending"]
         /\ ReportTerminal(p) \/ GiveUpRecovery(p) => turn'[p] = IdleTurn
PROOF
<1>1. ReadHistory(p) =>
        \/ turn'[p] = [turn[p] EXCEPT !.pc = "projecting", !.mode = "failing",
                                      !.st = "failed"]
        \/ /\ ~Superseded(turn[p].run) /\ Ends(turn[p].run) # {}
           /\ turn'[p] = [turn[p] EXCEPT !.pc = "projecting",
                                         !.st = EndStatus(turn[p].run)]
        \/ /\ ~Superseded(turn[p].run) /\ Ends(turn[p].run) = {}
           /\ turn'[p] = [turn[p] EXCEPT !.pc = "recovering",
                !.todo = (TailCalls(turn[p].run) \cup
                          {c \in Calls : journal[turn[p].run][c] # "none"})
                         \ TailOutputs(turn[p].run)]
  BY DEF ReadHistory
<1>2. \A c \in Calls : RecoverCall(p, c) =>
        turn'[p] = [turn[p] EXCEPT !.pc = "begin", !.call = c, !.todo = @ \ {c}]
  BY DEF RecoverCall
<1>3. FindOutput(p) =>
        \/ /\ Answered(turn[p].call)
           /\ turn'[p] = [turn[p] EXCEPT !.pc = "recovering", !.call = None]
        \/ /\ ~Answered(turn[p].call)
           /\ turn'[p] = [turn[p] EXCEPT !.pc = "inject"]
  BY DEF FindOutput, Goto, Answered
<1>4. /\ InjectOutput(p) => turn'[p] = [turn[p] EXCEPT !.pc = "recovering", !.call = None]
      /\ RecoveryError(p) =>
           turn'[p] = [IdleTurn EXCEPT !.pc = "projecting", !.run = turn[p].run,
                                       !.mode = "failing", !.st = "failed"]
  BY DEF InjectOutput, RecoveryError
<1>5. /\ ResumeTurn(p) => turn'[p] = [turn[p] EXCEPT !.pc = "starting"]
      /\ AssertTerminal(p) => turn'[p] = [turn[p] EXCEPT !.pc = "admitting"]
      /\ AdmitTerminal(p) => turn'[p] = [turn[p] EXCEPT !.pc = "closing"]
      /\ CloseTerminal(p) => turn'[p] = [turn[p] EXCEPT !.pc = "sending"]
      /\ ReportTerminal(p) \/ GiveUpRecovery(p) => turn'[p] = IdleTurn
  BY DEF ResumeTurn, AssertTerminal, AdmitTerminal, CloseTerminal, ReportTerminal,
         GiveUpRecovery, Goto, Idle
<1>6. QED
  BY <1>1, <1>2, <1>3, <1>4, <1>5

\* The process whose step it is.
Acts(p) ==
  \/ LiveTurn(p) \/ Recovery(p) \/ Crash(p) \/ RecoveryLoop(p)
  \/ \E r \in Runs : StartTurn(p, r)

\* A step of one process leaves the others' turns, claims and health alone.
LEMMA OneMoves ==
  ASSUME ClaimInv, NEW p \in Procs, Acts(p), NEW q \in Procs, q # p
  PROVE  turn'[q] = turn[q] /\ cache'[q] = cache[q] /\ (q \in sick' <=> q \in sick)
PROOF
<1>0. turn \in [Procs -> TurnType]
      /\ cache \in [Procs -> [run : Runs \cup {None}, fence : 0..MaxFence]]
  BY DEF ClaimInv, TypeOK
<1>1. CASE LiveTurn(p)
  BY <1>0, <1>1
  DEF LiveTurn, AdmitTurn, StartRejected, CoreStarts, CoreCall, BeginInvocation,
      PublishCall, DispatchCall, RecordResult, FinishInvocation, CoreOutput,
      CoreCompletes, CoreAborts, AdmitCompleted, ProjectFinished, ProjectFailure, Goto,
      Idle, CoreAppends
<1>2. CASE Recovery(p)
  BY <1>0, <1>2
  DEF Recovery, ReadHistory, RecoverCall, FindOutput, InjectOutput, ResumeTurn,
      RecoveryError, AssertTerminal, AdmitTerminal, CloseTerminal, ReportTerminal,
      GiveUpRecovery, Goto, Idle
<1>3. CASE Crash(p) \/ RecoveryLoop(p) \/ \E r \in Runs : StartTurn(p, r)
  BY <1>0, <1>3
  DEF Crash, RecoveryLoop, HeartbeatRefused, Leave, ReportClosed, CloseExpired, TakeOver,
      StartTurn, Claim, Idle
<1>4. QED
  BY <1>1, <1>2, <1>3 DEF Acts

\* A step is one of a process, or it moves no turn, claim or health.
LEMMA Movers ==
  ASSUME ClaimInv, [Next]_vars
  PROVE  \/ \E p \in Procs : Acts(p)
         \/ /\ UNCHANGED <<turn, cache, sick, items, journal, life>>
            /\ \A r \in Runs : own'[r].p = own[r].p /\ own'[r].fence = own[r].fence
PROOF
<1>0. own \in [Runs -> [p : Procs \cup {None}, fence : 0..MaxFence, live : BOOLEAN]]
  BY DEF ClaimInv, TypeOK
<1>1. ASSUME NEW r \in Runs,
             Gateway(r) \/ InterruptTurn(r) \/ OwnerLeaseExpires(r) \/ AuthorityEnds(r)
      PROVE  /\ UNCHANGED <<turn, cache, sick, items, journal, life>>
             /\ \A q \in Runs : own'[q].p = own[q].p /\ own'[q].fence = own[q].fence
  BY <1>0, <1>1 DEF Gateway, IssueTurn, StartRefused, SeeTerminal, RevokeLease, CloseRun,
              InterruptTurn, OwnerLeaseExpires, AuthorityEnds, store, process
<1>2. QED
  BY <1>1 DEF Next, vars, Acts

\* A claim is the only step that changes an owner; it starts a turn.
Claims(p, r) ==
  /\ turn[p].pc = "idle" /\ Claimable(p, r) /\ Claim(p, r)
  /\ UNCHANGED <<run, items, journal, life, events, sick>>
  /\ turn'[p].run = r /\ turn'[p].pc \in {"starting", "reading"}
  /\ turn'[p].pc = "starting" => /\ gw[r].pc = "posting" /\ p \notin sick
                                 /\ turn'[p].todo = {}

\* What a process does to the claims: it claims a run, it leaves, or it keeps
\* them as they are.
LEMMA ClaimSteps ==
  ASSUME ClaimInv, NEW p \in Procs, Acts(p)
  PROVE  \/ \E r \in Runs : Claims(p, r)
         \/ /\ own' = own
            /\ cache' = cache \/ turn'[p].pc = "idle"
PROOF
<1>0. turn \in [Procs -> TurnType]
  BY DEF ClaimInv, TypeOK
<1>1. CASE LiveTurn(p)
  BY <1>1
  DEF LiveTurn, AdmitTurn, StartRejected, CoreStarts, CoreCall, BeginInvocation,
      PublishCall, DispatchCall, RecordResult, FinishInvocation, CoreOutput,
      CoreCompletes, CoreAborts, AdmitCompleted, ProjectFinished, ProjectFailure, store
<1>2. CASE Recovery(p)
  BY <1>2
  DEF Recovery, ReadHistory, RecoverCall, FindOutput, InjectOutput, ResumeTurn,
      RecoveryError, AssertTerminal, AdmitTerminal, CloseTerminal, ReportTerminal,
      GiveUpRecovery, store
<1>3. CASE Crash(p) \/ HeartbeatRefused(p)
  BY <1>0, <1>3 DEF Crash, HeartbeatRefused, Leave, Idle, IdleTurn, store
<1>4. CASE ReportClosed(p) \/ \E r \in Runs : CloseExpired(p, r)
  BY <1>4 DEF ReportClosed, CloseExpired
<1>5. ASSUME NEW r \in Runs, StartTurn(p, r) PROVE Claims(p, r)
  BY <1>0, <1>5 DEF StartTurn, Claims, IdleTurn, Healthy
<1>6. ASSUME NEW r \in Runs, TakeOver(p, r) PROVE Claims(p, r)
  BY <1>0, <1>6 DEF TakeOver, Claims, IdleTurn
<1>7. QED
  BY <1>1, <1>2, <1>3, <1>4, <1>5, <1>6 DEF Acts, RecoveryLoop

-----------------------------------------------------------------------------
(* What the owner of a turn knows.                                         *)

\* A turn that has not moved and is current was current before.
LEMMA StillCurrent ==
  ASSUME ClaimInv, [Next]_vars, NEW q \in Procs, turn'[q] = turn[q], Current(q)'
  PROVE  /\ Current(q) /\ cache'[q] = cache[q] /\ turn[q].run \in Runs
         /\ own'[turn[q].run].p = q
PROOF
<1>0. /\ turn[q].pc # "idle" /\ turn[q].run \in Runs
      /\ own'[turn[q].run].p = q
      /\ own'[turn[q].run].fence = cache'[q].fence
  BY DEF Current, ClaimInv, TurnInv
<1>1. ASSUME NEW p \in Procs, Acts(p)
      PROVE  Current(q) /\ cache'[q] = cache[q]
  <2>1. CASE p = q
    <3>1. ~\E r \in Runs : Claims(p, r)
      BY <1>0, <2>1 DEF Claims
    <3>2. own' = own /\ cache' = cache
      BY <1>0, <1>1, <2>1, <3>1, ClaimSteps
    <3>3. QED
      BY <1>0, <3>2 DEF Current
  <2>2. CASE p # q
    <3>1. cache'[q] = cache[q]
      BY <1>1, <2>2, OneMoves
    <3>2. CASE own' = own
      BY <1>0, <3>1, <3>2 DEF Current
    <3>3. CASE \E r \in Runs : Claims(p, r)
      <4>1. PICK r \in Runs : Claims(p, r)
        BY <3>3
      <4>2. own' = [own EXCEPT ![r] = [p |-> p, fence |-> own[r].fence + 1, live |-> TRUE]]
        BY <4>1 DEF Claims, Claim
      <4>3. own \in [Runs -> [p : Procs \cup {None}, fence : 0..MaxFence, live : BOOLEAN]]
        BY DEF ClaimInv, TypeOK
      <4>4. turn[q].run # r
        BY <1>0, <2>2, <4>2, <4>3
      <4>5. own'[turn[q].run] = own[turn[q].run]
        BY <1>0, <4>2, <4>3, <4>4
      <4>6. QED
        BY <1>0, <3>1, <4>5 DEF Current
    <3>4. QED
      BY <1>1, <3>2, <3>3, ClaimSteps
  <2>3. QED
    BY <2>1, <2>2
<1>2. CASE /\ UNCHANGED <<turn, cache, sick, items, journal, life>>
           /\ \A r \in Runs : own'[r].p = own[r].p /\ own'[r].fence = own[r].fence
  BY <1>0, <1>2 DEF Current
<1>3. QED
  BY <1>0, <1>1, <1>2, Movers

\* A run has one current process.
LEMMA OneCurrent ==
  ASSUME NEW p, NEW q, Current(p), Current(q), turn[p].run = turn[q].run
  PROVE  p = q
  BY DEF Current

\* A write moves the turn of its process.
LEMMA WriterMoves ==
  ASSUME ClaimInv, NEW p \in Procs, WriteStep(p)
  PROVE  turn'[p] # turn[p]
PROOF
<1>0. turn \in [Procs -> TurnType] /\ turn[p] \in TurnType
  BY DEF ClaimInv, TypeOK
<1>1. CASE CoreStarts(p)
  <2>1. turn'[p] = [turn[p] EXCEPT !.pc = "core"]
    BY <1>0, <1>1, LiveTable
  <2>2. QED
    BY <1>0, <1>1, <2>1 DEF CoreStarts, TurnType
<1>2. CASE \E c \in Calls : CoreCall(p, c)
  <2>1. PICK c \in Calls : CoreCall(p, c)
    BY <1>2
  <2>2. turn'[p] = [turn[p] EXCEPT !.pc = "begin", !.call = c]
    BY <1>0, <2>1, LiveTable
  <2>3. QED
    BY <1>0, <2>1, <2>2 DEF CoreCall, TurnType
<1>3. CASE CoreOutput(p)
  <2>1. turn'[p] = [turn[p] EXCEPT !.pc = "core", !.call = None]
    BY <1>0, <1>3, LiveTable
  <2>2. QED
    BY <1>0, <1>3, <2>1 DEF CoreOutput, TurnType, InCall
<1>4. CASE CoreCompletes(p)
  <2>1. turn'[p] = [turn[p] EXCEPT !.pc = "completing"]
    BY <1>0, <1>4, LiveTable
  <2>2. QED
    BY <1>0, <1>4, <2>1 DEF CoreCompletes, TurnType
<1>5. CASE CoreAborts(p)
  <2>1. turn'[p] = IdleTurn
    BY <1>0, <1>5, LiveTable
  <2>2. QED
    BY <1>0, <1>5, <2>1 DEF CoreAborts, IdleTurn, InCall
<1>6. CASE InjectOutput(p)
  <2>1. turn'[p] = [turn[p] EXCEPT !.pc = "recovering", !.call = None]
    BY <1>0, <1>6, RecoveryTable
  <2>2. QED
    BY <1>0, <1>6, <2>1 DEF InjectOutput, TurnType
<1>7. QED
  BY <1>1, <1>2, <1>3, <1>4, <1>5, <1>6 DEF WriteStep

\* Outputs come from writes of the current process.
LEMMA OutputSteps ==
  ASSUME ClaimInv, [Next]_vars, NEW r, NEW c, HasOutput(r, c)', ~HasOutput(r, c)
  PROVE  \E p \in Procs : /\ WriteStep(p) /\ Current(p) /\ turn[p].run = r
                          /\ items'[Len(items')].kind = "out"
PROOF
<1>1. PICK i \in 1..Len(items') : items'[i].kind = "out" /\ items'[i].r = r /\ items'[i].c = c
  BY DEF HasOutput, Positions
<1>2. CASE items' = items
  BY <1>1, <1>2 DEF HasOutput, Positions
<1>3. ASSUME NEW p \in Procs, WriteStep(p)
      PROVE  Current(p) /\ turn[p].run = r /\ items'[Len(items')].kind = "out"
  <2>1. /\ Current(p) /\ Len(items) \in Nat /\ Len(items') = Len(items) + 1
        /\ \A k \in 1..Len(items) : items'[k] = items[k]
        /\ items'[Len(items) + 1].r = turn[p].run
    BY <1>3, WriteFacts
  <2>2. CASE i \in 1..Len(items)
    BY <1>1, <2>1, <2>2 DEF HasOutput, Positions
  <2>3. CASE i = Len(items) + 1
    BY <1>1, <2>1, <2>3
  <2>4. QED
    BY <1>1, <2>1, <2>2, <2>3
<1>4. QED
  BY <1>2, <1>3, HistorySteps

\* A process that does not move keeps what it knows: only the owner of a run
\* finishes its calls and writes their outputs.
LEMMA Bystander ==
  ASSUME ClaimInv, OwnerInv, [Next]_vars, NEW q \in Procs, turn'[q] = turn[q]
  PROVE  JournalInv(q)' /\ OutputInv(q)'
PROOF
<1>0. SUFFICES ASSUME Current(q)' PROVE JournalInv(q)' /\ OutputInv(q)'
  BY DEF JournalInv, OutputInv
<1>1. Current(q) /\ turn[q].run \in Runs /\ JournalInv(q) /\ OutputInv(q)
  BY <1>0, StillCurrent DEF OwnerInv
<1>2. OutputInv(q)'
  <2> SUFFICES ASSUME turn[q].pc = "inject" \/ (turn[q].pc \in InCall /\ turn[q].mode = "core"),
                      HasOutput(turn[q].run, turn[q].call)'
               PROVE  FALSE
    BY DEF OutputInv
  <2>0. PICK r, c : r = turn[q].run /\ c = turn[q].call
    OBVIOUS
  <2>1. ~HasOutput(r, c) /\ HasOutput(r, c)'
    BY <1>1, <2>0 DEF OutputInv, HasOutput, Positions
  <2>2. PICK p \in Procs : WriteStep(p) /\ Current(p) /\ turn[p].run = r
    BY <2>1, OutputSteps
  <2>3. p = q
    BY <1>1, <2>0, <2>2, OneCurrent
  <2>4. QED
    BY <2>2, <2>3, WriterMoves
<1>3. JournalInv(q)'
  <2> SUFFICES ASSUME turn[q].pc \in Invoking PROVE journal'[turn[q].run][turn[q].call] # "done"
    BY DEF JournalInv
  <2>1. journal[turn[q].run][turn[q].call] # "done"
    BY <1>1 DEF JournalInv
  <2>2. journal \in [Runs -> [Calls -> {"none", "open", "done"}]] /\ turn[q].call \in Calls
    BY DEF ClaimInv, TypeOK, TurnInv, Carries, Invoking, InCall
  <2>3. ASSUME NEW p \in Procs, Acts(p), journal' # journal
        PROVE  \/ BeginInvocation(p)
                  /\ journal' = [journal EXCEPT ![turn[p].run][turn[p].call] = "open"]
               \/ FinishInvocation(p)
    BY <2>3
    DEF Acts, LiveTurn, AdmitTurn, StartRejected, CoreStarts, CoreCall, BeginInvocation,
      PublishCall, DispatchCall, RecordResult, CoreOutput, CoreCompletes, CoreAborts,
      AdmitCompleted, ProjectFinished, ProjectFailure, Recovery, ReadHistory, RecoverCall,
      FindOutput, InjectOutput, ResumeTurn, RecoveryError, AssertTerminal, AdmitTerminal,
      CloseTerminal, ReportTerminal, GiveUpRecovery, Crash, RecoveryLoop, HeartbeatRefused,
      Leave, ReportClosed, CloseExpired, TakeOver, StartTurn, store
  <2>4. ASSUME NEW p \in Procs, FinishInvocation(p)
        PROVE  journal'[turn[q].run][turn[q].call] # "done"
    <3>0. turn[p] \in TurnType /\ turn \in [Procs -> TurnType]
      BY DEF ClaimInv, TypeOK
    <3>1. Current(p) /\ turn[p].pc = "finish" /\ turn'[p].pc = "respond"
      <4>1. turn'[p] = [turn[p] EXCEPT !.pc = "respond"]
        BY <2>4, <3>0, LiveTable
      <4>2. QED
        BY <2>4, <3>0, <4>1 DEF FinishInvocation, HoldsFence, Current, TurnType
    <3>2. p # q
      BY <3>1
    <3>3. turn[p].run # turn[q].run
      BY <1>1, <3>1, <3>2, OneCurrent
    <3>4. journal' = [journal EXCEPT ![turn[p].run][turn[p].call] = "done"]
      BY <2>4 DEF FinishInvocation
    <3>5. QED
      BY <1>1, <2>1, <2>2, <3>3, <3>4
  <2>5. ASSUME NEW p \in Procs,
               journal' = [journal EXCEPT ![turn[p].run][turn[p].call] = "open"]
        PROVE  journal'[turn[q].run][turn[q].call] # "done"
    BY <1>1, <2>1, <2>2, <2>5
  <2>6. QED
    BY <2>1, <2>3, <2>4, <2>5, Movers
<1>4. QED
  BY <1>2, <1>3

\* The moves that leave a call, or do not concern one.
LEMMA OutOfCall ==
  ASSUME ClaimInv, NEW p \in Procs, Acts(p), turn'[p] # turn[p],
         ~\E c \in Calls : CoreCall(p, c),
         ~(BeginInvocation(p) \/ PublishCall(p) \/ DispatchCall(p) \/ RecordResult(p)
           \/ FinishInvocation(p) \/ FindOutput(p)),
         ~\E c \in Calls : RecoverCall(p, c)
  PROVE  turn'[p].pc \notin InCall \cup {"inject"}
PROOF
<1>0. turn \in [Procs -> TurnType] /\ turn[p] \in TurnType
  BY DEF ClaimInv, TypeOK
<1>1. CASE \E r \in Runs : Claims(p, r)
  BY <1>1 DEF Claims, InCall
<1>2. CASE LiveTurn(p)
  <2>1. \/ turn'[p] = [turn[p] EXCEPT !.pc = "admitted", !.mode = "core"]
        \/ turn'[p] = IdleTurn
        \/ turn'[p] = [turn[p] EXCEPT !.pc = "projecting", !.mode = "failing", !.st = "failed"]
        \/ turn'[p] = [turn[p] EXCEPT !.pc = "core"]
        \/ turn'[p] = [turn[p] EXCEPT !.pc = "core", !.call = None]
        \/ turn'[p] = [turn[p] EXCEPT !.pc = "completing"]
        \/ turn'[p] = [turn[p] EXCEPT !.pc = "finished"]
    BY <1>0, <1>2, LiveTable DEF LiveTurn
  <2>2. /\ [turn[p] EXCEPT !.pc = "admitted", !.mode = "core"].pc = "admitted"
        /\ IdleTurn.pc = "idle"
        /\ [turn[p] EXCEPT !.pc = "projecting", !.mode = "failing", !.st = "failed"].pc
             = "projecting"
        /\ [turn[p] EXCEPT !.pc = "core"].pc = "core"
        /\ [turn[p] EXCEPT !.pc = "core", !.call = None].pc = "core"
        /\ [turn[p] EXCEPT !.pc = "completing"].pc = "completing"
        /\ [turn[p] EXCEPT !.pc = "finished"].pc = "finished"
    BY <1>0 DEF TurnType, IdleTurn
  <2>3. turn'[p].pc \in {"admitted", "idle", "projecting", "core", "completing", "finished"}
    BY <2>1, <2>2, Zenon
  <2>4. QED
    BY <2>3 DEF InCall
<1>3. CASE Recovery(p)
  <2>1. CASE ReadHistory(p)
    <3>1. PICK x :
           \/ turn'[p] = [turn[p] EXCEPT !.pc = "projecting", !.mode = "failing", !.st = "failed"]
           \/ turn'[p] = [turn[p] EXCEPT !.pc = "projecting", !.st = x]
           \/ turn'[p] = [turn[p] EXCEPT !.pc = "recovering", !.todo = x]
      BY <1>0, <2>1, RecoveryTable
    <3>2. QED
      BY <1>0, <3>1 DEF TurnType, InCall
  <2>2. CASE ~ReadHistory(p)
    <3>1. \/ turn'[p] = [turn[p] EXCEPT !.pc = "recovering", !.call = None]
          \/ turn'[p] = [turn[p] EXCEPT !.pc = "starting"]
          \/ turn'[p] = [IdleTurn EXCEPT !.pc = "projecting", !.run = turn[p].run,
                                         !.mode = "failing", !.st = "failed"]
          \/ turn'[p] = [turn[p] EXCEPT !.pc = "admitting"]
          \/ turn'[p] = [turn[p] EXCEPT !.pc = "closing"]
          \/ turn'[p] = [turn[p] EXCEPT !.pc = "sending"]
          \/ turn'[p] = IdleTurn
      BY <1>0, <1>3, <2>2, RecoveryTable DEF Recovery
    <3>2. /\ [turn[p] EXCEPT !.pc = "recovering", !.call = None].pc = "recovering"
          /\ [turn[p] EXCEPT !.pc = "starting"].pc = "starting"
          /\ [IdleTurn EXCEPT !.pc = "projecting", !.run = turn[p].run,
                              !.mode = "failing", !.st = "failed"].pc = "projecting"
          /\ [turn[p] EXCEPT !.pc = "admitting"].pc = "admitting"
          /\ [turn[p] EXCEPT !.pc = "closing"].pc = "closing"
          /\ [turn[p] EXCEPT !.pc = "sending"].pc = "sending"
          /\ IdleTurn.pc = "idle"
      BY <1>0 DEF TurnType, IdleTurn
    <3>3. turn'[p].pc \in {"recovering", "starting", "projecting", "admitting", "closing",
                           "sending", "idle"}
      BY <3>1, <3>2, Zenon
    <3>4. QED
      BY <3>3 DEF InCall
  <2>3. QED
    BY <2>1, <2>2
<1>4. CASE Crash(p) \/ HeartbeatRefused(p)
  BY <1>0, <1>4 DEF Crash, HeartbeatRefused, Leave, Idle, IdleTurn, InCall
<1>5. CASE ReportClosed(p) \/ \E r \in Runs : CloseExpired(p, r)
  BY <1>5 DEF ReportClosed, CloseExpired
<1>6. ASSUME NEW r \in Runs, StartTurn(p, r) \/ TakeOver(p, r)
      PROVE  turn'[p].pc \notin InCall \cup {"inject"}
  BY <1>0, <1>6 DEF StartTurn, TakeOver, IdleTurn, InCall
<1>7. QED
  BY <1>2, <1>3, <1>4, <1>5, <1>6 DEF Acts, RecoveryLoop

\* The history is the same: so are its outputs.
LEMMA SameOutputs ==
  ASSUME items' = items, NEW r, NEW c
  PROVE  HasOutput(r, c)' <=> HasOutput(r, c)
  BY DEF HasOutput, Positions

\* The process that moves knows it, too.
LEMMA Mover ==
  ASSUME ClaimInv, OwnerInv, [Next]_vars, NEW p \in Procs, Acts(p)
  PROVE  JournalInv(p)' /\ OutputInv(p)'
PROOF
<1>0. /\ turn \in [Procs -> TurnType] /\ turn[p] \in TurnType
      /\ JournalInv(p) /\ OutputInv(p) /\ Carries(turn[p])
      /\ turn[p].pc # "idle" => turn[p].run \in Runs
      /\ journal \in [Runs -> [Calls -> {"none", "open", "done"}]]
  BY DEF ClaimInv, TypeOK, OwnerInv, TurnInv
<1>1. CASE turn'[p] = turn[p]
  BY <1>1, Bystander
<1>2. CASE turn'[p].pc \notin InCall \cup {"inject"}
  BY <1>2 DEF JournalInv, OutputInv, Invoking, InCall
<1>3. ASSUME NEW c \in Calls, CoreCall(p, c)
      PROVE  JournalInv(p)' /\ OutputInv(p)'
  <2>1. turn'[p] = [turn[p] EXCEPT !.pc = "begin", !.call = c]
    BY <1>0, <1>3, LiveTable
  <2>2. /\ turn'[p].pc = "begin" /\ turn'[p].call = c /\ turn'[p].run = turn[p].run
    BY <1>0, <2>1 DEF TurnType
  <2>3. ~HasOutput(turn[p].run, c)
    BY <1>3 DEF CoreCall, NewCall, HasOutput, Positions
  <2>4. PICK r : r = turn[p].run
    OBVIOUS
  <2>5. ~HasOutput(r, c)'
    <3> SUFFICES ASSUME HasOutput(r, c)' PROVE FALSE
      OBVIOUS
    <3>1. items' = items \/ Writes(p, "call", c)
      <4>1. turn[p].pc # "idle" /\ "call" \in Kinds /\ CoreAppends(p, "call", c)
        BY <1>3 DEF CoreCall, Kinds
      <4>2. QED
        BY <4>1, CoreAppendWrites
    <3>2. CASE items' = items
      BY <2>3, <2>4, <3>2, SameOutputs
    <3>3. CASE Writes(p, "call", c)
      <4>1. items \in Seq(ItemType) /\ Item(p, "call", c) \in ItemType
            /\ items' = Append(items, Item(p, "call", c))
        BY <3>3 DEF Writes, ClaimInv, TypeOK
      <4>2. /\ Len(items) \in Nat /\ Len(items') = Len(items) + 1
            /\ \A i \in 1..Len(items) : items'[i] = items[i]
            /\ items'[Len(items) + 1] = Item(p, "call", c)
        BY <4>1, AppendFacts
      <4>3. items'[Len(items) + 1].kind = "call"
        BY <4>2 DEF Item
      <4>4. QED
        BY <2>3, <2>4, <4>2, <4>3 DEF HasOutput, Positions
    <3>4. QED
      BY <3>1, <3>2, <3>3
  <2>6. QED
    BY <2>2, <2>4, <2>5 DEF JournalInv, OutputInv, Invoking
<1>4. CASE BeginInvocation(p)
  <2>1. PICK pc : pc \in {"respond", "invoke"} /\ turn'[p] = [turn[p] EXCEPT !.pc = pc]
    BY <1>0, <1>4, LiveTable
  <2>2. /\ turn'[p].pc = pc /\ turn'[p].call = turn[p].call /\ turn'[p].run = turn[p].run
        /\ turn'[p].mode = turn[p].mode
    BY <1>0, <2>1 DEF TurnType
  <2>3. Current(p) /\ turn[p].pc = "begin" /\ turn[p].run \in Runs /\ turn[p].call \in Calls
    BY <1>0, <1>4 DEF BeginInvocation, MayExecute, HoldsFence, Current, Carries, InCall
  <2>4. OutputInv(p)'
    <3>1. items' = items
      BY <1>4 DEF BeginInvocation
    <3>2. PICK r, c : r = turn[p].run /\ c = turn[p].call
      OBVIOUS
    <3>3. turn[p].mode = "core" => ~HasOutput(r, c)
      BY <1>0, <2>3, <3>2 DEF OutputInv, InCall
    <3>4. QED
      BY <2>1, <2>2, <3>1, <3>2, <3>3, SameOutputs DEF OutputInv
  <2>5. JournalInv(p)'
    <3>1. pc = "invoke" => journal' = [journal EXCEPT ![turn[p].run][turn[p].call] = "open"]
      BY <1>0, <1>4, <2>2 DEF BeginInvocation, Goto, TurnType
    <3>2. QED
      BY <1>0, <2>1, <2>2, <2>3, <3>1 DEF JournalInv, Invoking
  <2>6. QED
    BY <2>4, <2>5
<1>5. CASE PublishCall(p) \/ DispatchCall(p) \/ RecordResult(p) \/ FinishInvocation(p)
  <2>1. PICK pc : /\ pc \in {"dispatch", "result", "finish", "respond"}
                  /\ turn'[p] = [turn[p] EXCEPT !.pc = pc]
                  /\ pc = "respond" \/ journal' = journal
    BY <1>0, <1>5, LiveTable DEF PublishCall, DispatchCall, RecordResult, store
  <2>2. /\ turn'[p].pc = pc /\ turn'[p].call = turn[p].call /\ turn'[p].run = turn[p].run
        /\ turn'[p].mode = turn[p].mode
    BY <1>0, <2>1 DEF TurnType
  <2>3. turn[p].pc \in Invoking /\ turn[p].pc \in InCall /\ own' = own /\ cache' = cache
        /\ items' = items
    BY <1>5 DEF PublishCall, DispatchCall, RecordResult, FinishInvocation, Invoking, InCall,
                store
  <2>4. Current(p)' => Current(p)
    BY <2>2, <2>3 DEF Current, InCall
  <2>5. PICK r, c : r = turn[p].run /\ c = turn[p].call
    OBVIOUS
  <2>6. OutputInv(p)'
    BY <1>0, <2>1, <2>2, <2>3, <2>4, <2>5, SameOutputs DEF OutputInv
  <2>7. JournalInv(p)'
    BY <1>0, <2>1, <2>2, <2>3, <2>4 DEF JournalInv, Invoking
  <2>8. QED
    BY <2>6, <2>7
<1>6. CASE FindOutput(p)
  <2>1. \/ turn'[p] = [turn[p] EXCEPT !.pc = "recovering", !.call = None]
        \/ ~Answered(turn[p].call) /\ turn'[p] = [turn[p] EXCEPT !.pc = "inject"]
    BY <1>0, <1>6, RecoveryTable
  <2>2. CASE turn'[p] = [turn[p] EXCEPT !.pc = "recovering", !.call = None]
    BY <1>0, <1>2, <2>2 DEF TurnType, InCall
  <2>3. CASE ~Answered(turn[p].call) /\ turn'[p] = [turn[p] EXCEPT !.pc = "inject"]
    <3>1. turn'[p].pc = "inject" /\ turn'[p].call = turn[p].call /\ turn'[p].run = turn[p].run
      BY <1>0, <2>3 DEF TurnType
    <3>2. PICK r, c : r = turn[p].run /\ c = turn[p].call
      OBVIOUS
    <3>3. ~HasOutput(r, c) /\ items' = items
      BY <1>6, <2>3, <3>2 DEF HasOutput, Answered, FindOutput, store
    <3>4. QED
      BY <3>1, <3>2, <3>3, SameOutputs DEF JournalInv, OutputInv, Invoking
  <2>4. QED
    BY <2>1, <2>2, <2>3
<1>7. ASSUME NEW c \in Calls, RecoverCall(p, c)
      PROVE  JournalInv(p)' /\ OutputInv(p)'
  <2>1. turn'[p] = [turn[p] EXCEPT !.pc = "begin", !.call = c, !.todo = @ \ {c}]
    BY <1>0, <1>7, RecoveryTable
  <2>2. turn'[p].pc = "begin" /\ turn'[p].mode = "recovery"
    BY <1>0, <1>7, <2>1 DEF TurnType, RecoverCall, Carries
  <2>3. QED
    BY <2>2 DEF JournalInv, OutputInv, Invoking
<1>8. QED
  BY <1>1, <1>2, <1>3, <1>4, <1>5, <1>6, <1>7, OutOfCall

\* Which runs are active: a closed run stays closed, and an absent one is not
\* owned when it becomes active.
LEMMA RunSteps ==
  ASSUME ClaimInv, [Next]_vars
  PROVE  \A r \in Runs : /\ run[r] \in Ended => run'[r] = run[r]
                         /\ run'[r] = "running" => run[r] \in {"absent", "running"}
PROOF
<1>0. /\ run \in [Runs -> {"absent", "running"} \cup Ended]
      /\ \A r \in Runs : RunInv(r)
      /\ gw \in [Runs -> [pc : {"none", "posting", "open", "asked", "revoked", "done"},
                         st : {None, "succeeded", "failed", "cancelled"}]]
  BY DEF ClaimInv, TypeOK
<1>1. ASSUME NEW p \in Procs, CloseTerminal(p) \/ \E r \in Runs : CloseExpired(p, r)
      PROVE  \A r \in Runs : run'[r] = run[r] \/ run[r] = "running"
  BY <1>0, <1>1 DEF CloseTerminal, CloseExpired, IsActive
<1>2. ASSUME NEW p \in Procs, Acts(p), ~CloseTerminal(p), ~\E r \in Runs : CloseExpired(p, r)
      PROVE  run' = run
  BY <1>2
  DEF Acts, LiveTurn, AdmitTurn, StartRejected, CoreStarts, CoreCall, BeginInvocation,
      PublishCall, DispatchCall, RecordResult, FinishInvocation, CoreOutput, CoreCompletes,
      CoreAborts, AdmitCompleted, ProjectFinished, ProjectFailure, Recovery, ReadHistory,
      RecoverCall, FindOutput, InjectOutput, ResumeTurn, RecoveryError, AssertTerminal,
      AdmitTerminal, ReportTerminal, GiveUpRecovery, Crash, RecoveryLoop, HeartbeatRefused,
      Leave, ReportClosed, TakeOver, StartTurn, store
<1>3. ASSUME NEW r \in Runs,
             Gateway(r) \/ InterruptTurn(r) \/ OwnerLeaseExpires(r) \/ AuthorityEnds(r)
      PROVE  \A q \in Runs : run'[q] = run[q] \/ run[q] \in {"absent", "running"}
  BY <1>0, <1>3 DEF Gateway, IssueTurn, StartRefused, SeeTerminal, RevokeLease, CloseRun,
              InterruptTurn, OwnerLeaseExpires, AuthorityEnds, IsActive, store
<1>4. \A r \in Runs : run'[r] = run[r] \/ run[r] \in {"absent", "running"}
  BY <1>1, <1>2, <1>3 DEF Next, vars, Acts
<1>5. QED
  BY <1>0, <1>4 DEF Ended

\* The invariant of the owner holds initially.
LEMMA OwnerInit == Init => OwnerInv
PROOF
<1> SUFFICES ASSUME Init PROVE OwnerInv
  OBVIOUS
<1>1. Len(items) = 0 /\ \A p \in Procs : turn[p].pc = "idle"
  BY EmptySeq DEF Init, IdleTurn
<1>2. \A p \in Procs : JournalInv(p) /\ OutputInv(p)
  BY <1>1 DEF JournalInv, OutputInv, Current
<1>3. OneOutputPerCall /\ HistoryFollowsFences
  BY <1>1 DEF OneOutputPerCall, HistoryFollowsFences, Positions
<1>4. OneOwnedRun
  BY DEF OneOwnedRun, Init, IsActive
<1>5. QED
  BY <1>2, <1>3, <1>4 DEF OwnerInv

\* Every step keeps it.
LEMMA OwnerStep ==
  ASSUME ClaimInv, OwnerInv, [Next]_vars
  PROVE  OwnerInv'
PROOF
<1>1. ASSUME NEW q \in Procs PROVE JournalInv(q)' /\ OutputInv(q)'
  <2>1. ASSUME NEW p \in Procs, Acts(p) PROVE JournalInv(q)' /\ OutputInv(q)'
    BY <2>1, Mover, Bystander, OneMoves
  <2>2. QED
    BY <2>1, Movers, Bystander
<1>2. OneOwnedRun'
  <2>0. /\ \A r \in Runs : run[r] = "absent" => own[r].fence = 0
        /\ own \in [Runs -> [p : Procs \cup {None}, fence : 0..MaxFence, live : BOOLEAN]]
        /\ OneOwnedRun
    BY DEF ClaimInv, RunInv, OwnerInv, TypeOK
  <2>1. \A r \in Runs : run'[r] = "running" => run[r] \in {"absent", "running"}
    BY RunSteps
  <2>2. CASE \A r \in Runs : own'[r].fence = own[r].fence
    BY <2>0, <2>1, <2>2 DEF OneOwnedRun, Owned, IsActive
  <2>3. ASSUME NEW p \in Procs, NEW r \in Runs, Claims(p, r) PROVE OneOwnedRun'
    <3>1. /\ \A q \in Runs \ {r} : ~(own[q].fence > 0 /\ run[q] = "running")
          /\ run' = run
      BY <2>3 DEF Claims, Claimable, Owned, IsActive
    <3>2. \A q \in Runs \ {r} : own'[q] = own[q]
      BY <2>0, <2>3 DEF Claims, Claim
    <3>3. QED
      BY <3>1, <3>2 DEF OneOwnedRun, Owned, IsActive
  <2>4. QED
    BY <2>2, <2>3, Movers, ClaimSteps
<1>3. HistoryFollowsFences' /\ OneOutputPerCall'
  <2>0. HistoryFollowsFences /\ OneOutputPerCall /\ \A i \in 1..Len(items) : ItemInv(i)
    BY DEF OwnerInv, ClaimInv
  <2>1. CASE items' = items
    BY <2>0, <2>1 DEF HistoryFollowsFences, OneOutputPerCall, Positions
  <2>2. ASSUME NEW p \in Procs, WriteStep(p)
        PROVE  HistoryFollowsFences' /\ OneOutputPerCall'
    <3>1. /\ Current(p) /\ Len(items) \in Nat /\ Len(items') = Len(items) + 1
          /\ \A i \in 1..Len(items) : items'[i] = items[i] /\ items[i] \in ItemType
          /\ items'[Len(items) + 1].r = turn[p].run
          /\ items'[Len(items) + 1].fence = own[turn[p].run].fence
          /\ items'[Len(items) + 1] \in ItemType
      BY <2>2, WriteFacts
    <3>2. PICK n \in Nat : n = Len(items)
      BY <3>1
    <3>3. \A i \in 1..Len(items') : i \in 1..n \/ i = n + 1
      BY <3>1, <3>2
    <3>4. \A i \in 1..n : items'[i].r = turn[p].run => items'[i].fence <= items'[n + 1].fence
      BY <2>0, <3>1, <3>2 DEF ItemInv
    <3>5. \A i, j \in 1..n : i < j /\ items'[i].r = items'[j].r =>
                               items'[i].fence <= items'[j].fence
      BY <2>0, <3>1, <3>2 DEF HistoryFollowsFences
    <3>6. HistoryFollowsFences'
      <4>1. SUFFICES ASSUME NEW i \in 1..Len(items'), NEW j \in 1..Len(items'),
                            i < j, items'[i].r = items'[j].r
                     PROVE  items'[i].fence <= items'[j].fence
        BY DEF HistoryFollowsFences
      <4>2. CASE j = n + 1
        <5>1. i \in 1..n
          BY <3>3, <4>1, <4>2
        <5>2. QED
          BY <3>1, <3>2, <3>4, <4>1, <4>2, <5>1
      <4>3. CASE j \in 1..n
        <5>1. i \in 1..n
          BY <3>2, <3>3, <4>1, <4>3
        <5>2. QED
          BY <3>5, <4>1, <4>3, <5>1
      <4>4. QED
        BY <3>3, <4>2, <4>3
    <3>7. items'[n + 1].kind = "out" =>
            \A i \in 1..n : ~(/\ items[i].kind = "out" /\ items[i].r = turn[p].run
                              /\ items[i].c = items'[n + 1].c)
      <4> SUFFICES ASSUME items'[n + 1].kind = "out"
                   PROVE  \A i \in 1..n : ~(/\ items[i].kind = "out"
                                            /\ items[i].r = turn[p].run
                                            /\ items[i].c = items'[n + 1].c)
        OBVIOUS
      <4>1. PICK kind, c : /\ Writes(p, kind, c)
                           /\ \/ kind \in {"start", "call", "completed", "aborted"}
                              \/ CoreOutput(p) /\ c = turn[p].call
                              \/ InjectOutput(p) /\ c = turn[p].call
        BY <2>2 DEF WriteStep
      <4>2. items'[n + 1] = Item(p, kind, c)
        BY <3>2, <4>1, AppendFacts DEF Writes, ClaimInv, TypeOK
      <4>3. kind = "out" /\ items'[n + 1].c = c
        BY <4>2 DEF Item
      <4>4. ~HasOutput(turn[p].run, turn[p].call) /\ c = turn[p].call
        BY <3>1, <4>1, <4>3 DEF OwnerInv, OutputInv, CoreOutput, InjectOutput
      <4>5. QED
        BY <3>2, <4>3, <4>4 DEF HasOutput, Positions
    <3>8. ASSUME NEW i \in 1..n, NEW j \in 1..n,
                 items'[i].kind = "out", items'[j].kind = "out",
                 items'[i].r = items'[j].r, items'[i].c = items'[j].c
          PROVE  i = j
      BY <2>0, <3>8, <3>1, <3>2 DEF OneOutputPerCall, Positions
    <3>9. OneOutputPerCall'
      <4>1. SUFFICES ASSUME NEW i \in 1..Len(items'), NEW j \in 1..Len(items'),
                            items'[i].kind = "out", items'[j].kind = "out",
                            items'[i].r = items'[j].r, items'[i].c = items'[j].c
                     PROVE  i = j
        BY DEF OneOutputPerCall, Positions
      <4>2. CASE i \in 1..n /\ j \in 1..n
        BY <3>8, <4>1, <4>2
      <4>3. CASE i \in 1..n /\ j = n + 1
        BY <3>1, <3>2, <3>7, <4>1, <4>3
      <4>4. CASE j \in 1..n /\ i = n + 1
        BY <3>1, <3>2, <3>7, <4>1, <4>4
      <4>5. QED
        BY <3>3, <4>2, <4>3, <4>4
    <3>10. QED
      BY <3>6, <3>9
  <2>3. QED
    BY <2>1, <2>2, HistorySteps
<1>4. QED
  BY <1>1, <1>2, <1>3 DEF OwnerInv

\* Both parts of the invariant hold in every reachable state.
LEMMA OwnerHolds == Spec => [](ClaimInv /\ OwnerInv)
PROOF
<1>1. ClaimInv /\ OwnerInv /\ [Next]_vars => OwnerInv'
  BY OwnerStep
<1>2. QED
  BY OwnerInit, ClaimHolds, <1>1, PTL DEF Spec

\* However many processes race for the turns of a thread, and however often
\* leases expire, at most one of its active runs has an owner: the check of
\* claim_runtime_execution is enough, since a run is not owned before it runs.
THEOREM OneOwner == Spec => []OneOwnedRun
PROOF
<1>1. OwnerInv => OneOwnedRun
  BY DEF OwnerInv
<1>2. QED
  BY <1>1, OwnerHolds, PTL

\* For any number of take-overs, the items of a turn are ordered by the fence
\* they were written under: a process that lost its claim never appends behind
\* its successor (check_execution_write).
THEOREM FencedHistory == Spec => []HistoryFollowsFences
PROOF
<1>1. OwnerInv => HistoryFollowsFences
  BY DEF OwnerInv
<1>2. QED
  BY <1>1, OwnerHolds, PTL

\* A call has at most one output in the history of its turn, although
\* inject_invocation_output reads and appends in two steps: whoever may append
\* still holds the fence under which nobody else could have.
THEOREM SingleOutput == Spec => []OneOutputPerCall
PROOF
<1>1. OwnerInv => OneOutputPerCall
  BY DEF OwnerInv
<1>2. QED
  BY <1>1, OwnerHolds, PTL

\* The first to close a run decides its status: complete_run, fail_run,
\* cancel_runtime_execution, close_expired_authority and the terminal
\* projection all leave a closed run as it is.
THEOREM FinalStatus == Spec => RunStatusIsFinal
PROOF
<1>1. ClaimInv /\ [Next]_vars => [\A r \in Runs : run[r] \in Ended => run'[r] = run[r]]_vars
  BY RunSteps
<1>2. QED
  BY <1>1, ClaimHolds, PTL DEF Spec, RunStatusIsFinal

\* A call with a response in the journal is never dispatched: the fence that
\* DispatchCall asserts is the one under which the journal entry was opened, and
\* only its holder can finish it.
THEOREM DispatchedOnce == Spec => DoneCallIsNotDispatched
PROOF
<1>1. ClaimInv /\ OwnerInv /\ [Next]_vars =>
        [\A p \in Procs : turn[p].pc = "dispatch" /\ turn'[p].pc = "result"
           => journal[turn[p].run][turn[p].call] # "done"]_vars
  <2> SUFFICES ASSUME ClaimInv, OwnerInv, [Next]_vars, NEW p \in Procs,
                      turn[p].pc = "dispatch", turn'[p].pc = "result"
               PROVE  journal[turn[p].run][turn[p].call] # "done"
    OBVIOUS
  <2>1. Acts(p)
    BY Movers, OneMoves
  <2>2. DispatchCall(p)
    <3>0. turn \in [Procs -> TurnType] /\ turn[p] \in TurnType /\ turn'[p] # turn[p]
      BY DEF ClaimInv, TypeOK
    <3>1. turn'[p].pc \in InCall \cup {"inject"}
      BY DEF InCall
    <3>2. \/ \E c \in Calls : CoreCall(p, c)
          \/ \E c \in Calls : RecoverCall(p, c)
          \/ BeginInvocation(p) \/ PublishCall(p) \/ DispatchCall(p) \/ RecordResult(p)
          \/ FinishInvocation(p) \/ FindOutput(p)
      BY <2>1, <3>0, <3>1, OutOfCall
    <3>3. QED
      BY <3>2 DEF CoreCall, RecoverCall, BeginInvocation, PublishCall, RecordResult,
                  FinishInvocation, FindOutput
  <2>3. Current(p)
    BY <2>2 DEF DispatchCall, MayExecute, HoldsFence, Current
  <2>4. QED
    BY <2>3 DEF OwnerInv, JournalInv, Invoking
<1>2. QED
  BY <1>1, OwnerHolds, PTL DEF Spec, DoneCallIsNotDispatched

-----------------------------------------------------------------------------
(* What an append does to the history's parts.                             *)

\* One item more.
Wrote(p, kind, c) ==
  /\ Len(items) \in Nat /\ Len(items') = Len(items) + 1
  /\ \A i \in 1..Len(items) : items'[i] = items[i]
  /\ items'[Len(items) + 1].kind = kind
  /\ items'[Len(items) + 1].r = turn[p].run
  /\ items'[Len(items) + 1].c = c

\* A write is such an item.
LEMMA WritesOne ==
  ASSUME ClaimInv, NEW p \in Procs, NEW kind, NEW c, Writes(p, kind, c)
  PROVE  Wrote(p, kind, c)
PROOF
<1>1. items \in Seq(ItemType) /\ Item(p, kind, c) \in ItemType
      /\ items' = Append(items, Item(p, kind, c))
  BY DEF Writes, ClaimInv, TypeOK
<1>2. /\ Len(items) \in Nat /\ Len(items') = Len(items) + 1
      /\ \A i \in 1..Len(items) : items'[i] = items[i]
      /\ items'[Len(items) + 1] = Item(p, kind, c)
  BY <1>1, AppendFacts
<1>3. QED
  BY <1>2 DEF Wrote, Item

\* What the history says of a run.
SameHistory(r) ==
  /\ Starts(r)' = Starts(r) /\ Ends(r)' = Ends(r) /\ CallsOf(r)' = CallsOf(r)
  /\ Unanswered(r)' = Unanswered(r)
  /\ Superseded(r)' <=> Superseded(r)
  /\ Completed(r)' <=> Completed(r)
  /\ \A i \in CallsOf(r) : Astray(i)' <=> Astray(i)

\* The same history says the same.
LEMMA HistoryStays ==
  ASSUME items' = items, NEW r
  PROVE  SameHistory(r) /\ (LastInv => LastInv')
PROOF
<1>1. \A kind : Positions(kind)' = Positions(kind)
  BY DEF Positions
<1>2. \A q : Starts(q)' = Starts(q) /\ Ends(q)' = Ends(q)
  BY <1>1 DEF Starts, Ends
<1>3. CallsOf(r)' = CallsOf(r) /\ \A c : Answered(c)' <=> Answered(c)
  BY <1>1 DEF CallsOf, Answered
<1>4. Unanswered(r)' = Unanswered(r)
  BY <1>3 DEF Unanswered
<1>5. /\ Superseded(r)' <=> Superseded(r)
      /\ Completed(r)' <=> Completed(r)
  BY <1>1, <1>2 DEF Superseded, Completed
<1>6. ASSUME NEW i \in CallsOf(r) PROVE Astray(i)' <=> Astray(i)
  BY <1>1, <1>2 DEF Astray
<1>7. QED
  BY <1>1, <1>2, <1>3, <1>4, <1>5, <1>6 DEF SameHistory, LastInv

\* An append adds one position to its kind.
LEMMA PositionsGrow ==
  ASSUME NEW p, NEW kind, NEW c, Wrote(p, kind, c)
  PROVE  /\ Len(items) \in Nat
         /\ \A k : Positions(k) \subseteq 1..Len(items)
         /\ \A k : Positions(k)' = Positions(k) \cup (IF k = kind THEN {Len(items) + 1} ELSE {})
         /\ \A i \in 1..Len(items) : items'[i] = items[i]
PROOF
<1>1. PICK n \in Nat : n = Len(items)
  BY DEF Wrote
<1>2. ASSUME NEW k
      PROVE  Positions(k)' = Positions(k) \cup (IF k = kind THEN {n + 1} ELSE {})
  <2>1. 1..Len(items') = (1..n) \cup {n + 1}
    BY <1>1 DEF Wrote
  <2>2. QED
    BY <1>1, <2>1 DEF Wrote, Positions
<1>3. QED
  BY <1>1, <1>2 DEF Wrote, Positions

\* An append to run turn[p].run and what changes: starts, ends and calls of
\* that run, by the kind of the item; an output answers its call.
LEMMA HistoryGrows ==
  ASSUME NEW p, NEW kind, NEW c, Wrote(p, kind, c), NEW r
  PROVE  /\ Starts(r)' = Starts(r) \cup
              (IF kind = "start" /\ r = turn[p].run THEN {Len(items) + 1} ELSE {})
         /\ Ends(r)' = Ends(r) \cup
              (IF kind \in {"completed", "aborted"} /\ r = turn[p].run
               THEN {Len(items) + 1} ELSE {})
         /\ CallsOf(r)' = CallsOf(r) \cup
              (IF kind = "call" /\ r = turn[p].run THEN {Len(items) + 1} ELSE {})
         /\ Completed(r)' <=> Completed(r) \/ (kind = "completed" /\ r = turn[p].run)
         /\ Starts(r) \subseteq 1..Len(items) /\ Ends(r) \subseteq 1..Len(items)
         /\ CallsOf(r) \subseteq 1..Len(items)
PROOF
<1>1. PICK n \in Nat : n = Len(items)
  BY DEF Wrote
<1>2. /\ \A k : Positions(k) \subseteq 1..n
      /\ \A k : Positions(k)' = Positions(k) \cup (IF k = kind THEN {n + 1} ELSE {})
      /\ \A i \in 1..n : items'[i] = items[i]
      /\ items'[n + 1].r = turn[p].run
  BY <1>1, PositionsGrow DEF Wrote
<1>3. ASSUME NEW k
      PROVE  {i \in Positions(k)' : items'[i].r = r}
               = {i \in Positions(k) : items[i].r = r} \cup
                 (IF k = kind /\ r = turn[p].run THEN {n + 1} ELSE {})
  BY <1>2
<1>4. Starts(r)' = Starts(r) \cup (IF kind = "start" /\ r = turn[p].run THEN {n + 1} ELSE {})
  BY <1>3 DEF Starts
<1>5. CallsOf(r)' = CallsOf(r) \cup (IF kind = "call" /\ r = turn[p].run THEN {n + 1} ELSE {})
  BY <1>3 DEF CallsOf
<1>6. Ends(r)' = Ends(r) \cup
        (IF kind \in {"completed", "aborted"} /\ r = turn[p].run THEN {n + 1} ELSE {})
  <2>1. /\ Ends(r) = {i \in Positions("completed") : items[i].r = r} \cup
                     {i \in Positions("aborted") : items[i].r = r}
        /\ Ends(r)' = {i \in Positions("completed")' : items'[i].r = r} \cup
                      {i \in Positions("aborted")' : items'[i].r = r}
    BY DEF Ends
  <2>2. QED
    BY <1>3, <2>1
<1>7. Completed(r)' <=> Completed(r) \/ (kind = "completed" /\ r = turn[p].run)
  <2>1. /\ Completed(r) <=> {i \in Positions("completed") : items[i].r = r} # {}
        /\ Completed(r)' <=> {i \in Positions("completed")' : items'[i].r = r} # {}
    BY DEF Completed
  <2>2. QED
    BY <1>3, <2>1
<1>8. QED
  BY <1>1, <1>2, <1>4, <1>5, <1>6, <1>7 DEF Starts, Ends, CallsOf

\* What is unanswered after an append.
LEMMA UnansweredGrows ==
  ASSUME NEW p, NEW kind, NEW c, Wrote(p, kind, c), NEW r
  PROVE  /\ Unanswered(r)' \subseteq Unanswered(r) \cup
              (IF kind = "call" /\ r = turn[p].run THEN {c} ELSE {})
         /\ kind = "out" => c \notin Unanswered(r)'
PROOF
<1>1. PICK n \in Nat : n = Len(items)
  BY DEF Wrote
<1>2. /\ CallsOf(r)' = CallsOf(r) \cup
           (IF kind = "call" /\ r = turn[p].run THEN {n + 1} ELSE {})
      /\ CallsOf(r) \subseteq 1..n
  BY <1>1, HistoryGrows
<1>3. /\ \A i \in 1..n : items'[i] = items[i]
      /\ items'[n + 1].c = c
      /\ Positions("out") \subseteq 1..n
      /\ Positions("out")' = Positions("out") \cup (IF "out" = kind THEN {n + 1} ELSE {})
  BY <1>1, PositionsGrow DEF Wrote
<1>4. \A x : Answered(x) => Answered(x)'
  BY <1>3 DEF Answered
<1>5. kind = "out" => Answered(c)'
  BY <1>3 DEF Answered
<1>6. \A x \in Unanswered(r)' : \E i \in CallsOf(r)' : x = items'[i].c /\ ~Answered(x)'
  BY DEF Unanswered
<1>7. ASSUME NEW i \in CallsOf(r), ~Answered(items[i].c)
      PROVE  items[i].c \in Unanswered(r)
  BY <1>7 DEF Unanswered
<1>8. ASSUME NEW x \in Unanswered(r)'
      PROVE  x \in Unanswered(r) \cup (IF kind = "call" /\ r = turn[p].run THEN {c} ELSE {})
  <2>1. PICK i \in CallsOf(r)' : x = items'[i].c /\ ~Answered(x)'
    BY <1>6, <1>8
  <2>2. CASE i \in CallsOf(r)
    BY <1>2, <1>3, <1>4, <1>7, <2>1, <2>2
  <2>3. CASE i \notin CallsOf(r)
    BY <1>2, <1>3, <2>1, <2>3
  <2>4. QED
    BY <2>2, <2>3
<1>9. QED
  BY <1>5, <1>6, <1>8

\* Being superseded, and being astray, after an append.
LEMMA StrayGrows ==
  ASSUME NEW p, NEW kind, NEW c, Wrote(p, kind, c), NEW r, NEW n, n = Len(items)
  PROVE  /\ \A i \in CallsOf(r) : Astray(i)' <=> Astray(i)
         /\ Superseded(r) /\ ~(kind = "start" /\ r = turn[p].run) => Superseded(r)'
         /\ /\ kind = "call" /\ r = turn[p].run /\ LastInv
            /\ Starts(r) # {} /\ Astray(n + 1)'
            => Superseded(r)'
PROOF
<1>1. n \in Nat /\ n = Len(items)
  BY DEF Wrote
<1>2. /\ \A q : Starts(q)' = Starts(q) \cup
                  (IF kind = "start" /\ q = turn[p].run THEN {n + 1} ELSE {})
      /\ \A q : Starts(q) \subseteq 1..n
      /\ CallsOf(r) \subseteq 1..n
  BY <1>1, HistoryGrows
<1>3. /\ \A i \in 1..n : items'[i] = items[i]
      /\ items'[n + 1].r = turn[p].run
      /\ Positions("start") \subseteq 1..n
      /\ Positions("start")' = Positions("start") \cup (IF "start" = kind THEN {n + 1} ELSE {})
  BY <1>1, PositionsGrow DEF Wrote
<1>4. ASSUME NEW i \in CallsOf(r) PROVE Astray(i)' <=> Astray(i)
  <2>1. i \in 1..n /\ items'[i].r = items[i].r
    BY <1>2, <1>3
  <2>2. \A s \in Starts(items[i].r)' : s <= i => s \in Starts(items[i].r)
    BY <1>2, <2>1
  <2>3. \A k \in Positions("start")' : k <= i => k \in Positions("start")
    BY <1>3, <2>1
  <2>4. QED
    BY <1>2, <1>3, <2>1, <2>2, <2>3 DEF Astray
<1>5. ASSUME Superseded(r), ~(kind = "start" /\ r = turn[p].run) PROVE Superseded(r)'
  BY <1>2, <1>3, <1>5 DEF Superseded
<1>6. ASSUME kind = "call", r = turn[p].run, LastInv, Starts(r) # {}, Astray(n + 1)'
      PROVE  Superseded(r)'
  <2>1. Starts(r)' = Starts(r) /\ Positions("start")' = Positions("start")
    BY <1>2, <1>3, <1>6
  <2>2. Starts(r) \subseteq Positions("start")
    BY DEF Starts
  <2>3. PICK m \in Positions("start") : \A k \in Positions("start") : k <= m
    BY <1>6, <2>2 DEF LastInv
  <2>4. \A s \in Starts(r) : s <= n + 1 => \E k \in Positions("start") : s < k /\ k <= n + 1
    BY <1>3, <1>6, <2>1 DEF Astray
  <2>5. m \notin Starts(r)
    BY <1>2, <1>3, <2>3, <2>4
  <2>6. \A s \in Starts(r) : s < m
    BY <1>2, <1>3, <2>2, <2>3, <2>5
  <2>7. QED
    BY <1>6, <2>1, <2>3, <2>6 DEF Superseded
<1>7. QED
  BY <1>4, <1>5, <1>6

\* The last start and the last end after an append.
LEMMA LastGrows ==
  ASSUME NEW p, NEW kind, NEW c, Wrote(p, kind, c), LastInv
  PROVE  LastInv'
PROOF
<1>1. PICK n \in Nat : n = Len(items)
  BY DEF Wrote
<1>2. /\ Positions("start") \subseteq 1..n
      /\ Positions("start")' = Positions("start") \cup (IF "start" = kind THEN {n + 1} ELSE {})
  BY <1>1, PositionsGrow
<1>3. \A r : /\ Ends(r) \subseteq 1..n
             /\ Ends(r)' = Ends(r) \cup
                  (IF kind \in {"completed", "aborted"} /\ r = turn[p].run
                   THEN {n + 1} ELSE {})
  BY <1>1, HistoryGrows
<1>4. ASSUME NEW S, NEW T, S \subseteq 1..n, T = S \/ T = S \cup {n + 1}, T # {},
             S # {} => \E m \in S : \A k \in S : k <= m
      PROVE  \E m \in T : \A k \in T : k <= m
  <2>1. CASE T = S
    BY <1>4, <2>1
  <2>2. CASE T = S \cup {n + 1}
    <3>1. n + 1 \in T /\ \A k \in T : k <= n + 1
      BY <1>4, <2>2
    <3>2. QED
      BY <3>1
  <2>3. QED
    BY <1>4, <2>1, <2>2
<1>5. Positions("start")' # {} =>
        \E m \in Positions("start")' : \A k \in Positions("start")' : k <= m
  BY <1>2, <1>4 DEF LastInv
<1>6. ASSUME NEW r \in Runs, Ends(r)' # {}
      PROVE  \E m \in Ends(r)' : \A k \in Ends(r)' : k <= m
  BY <1>3, <1>4, <1>6 DEF LastInv
<1>7. QED
  BY <1>5, <1>6 DEF LastInv

\* An end that reads "completed" is there.
LEMMA EndIsCompleted ==
  ASSUME LastInv, NEW r \in Runs, Ends(r) # {}, EndStatus(r) = "completed"
  PROVE  Completed(r)
PROOF
<1>1. \E m \in Ends(r) : \A k \in Ends(r) : k <= m
  BY DEF LastInv
<1> DEFINE last == CHOOSE i \in Ends(r) : \A j \in Ends(r) : j <= i
<1>2. last \in Ends(r)
  BY <1>1
<1>3. items[last].kind = "completed"
  BY DEF EndStatus
<1> HIDE DEF last
<1>4. QED
  BY <1>2, <1>3 DEF Completed, Ends, Positions

-----------------------------------------------------------------------------
(* A success is recorded.                                                  *)

\* Closing leaves no call open, and opens none.
LEMMA ClosedCalls ==
  ASSUME Types, NEW r \in Runs, CloseCalls(r)
  PROVE  /\ \A c \in Calls : life'[r][c] # "open"
         /\ \A q \in Runs, c \in Calls : life'[q][c] = "open" => life[q][c] = "open"
  BY DEF Types, CloseCalls

\* A call is opened by the current process alone (handle_dynamic_tool_call_inner
\* writes under its fence).
LEMMA LifeSteps ==
  ASSUME ClaimInv, [Next]_vars, NEW r \in Runs, NEW c \in Calls, life'[r][c] = "open"
  PROVE  \/ life[r][c] = "open"
         \/ \E p \in Procs : Current(p) /\ turn[p].run = r /\ turn[p].pc = "invoke"
PROOF
<1>0. Types /\ \A p \in Procs : TurnInv(p)
  BY ClaimParts DEF TurnsOK
<1>1. ASSUME NEW p \in Procs, PublishCall(p)
      PROVE  life[r][c] = "open" \/ (Current(p) /\ turn[p].run = r /\ turn[p].pc = "invoke")
  <2>1. turn[p].pc = "invoke" /\ MayWrite(p)
    BY <1>1 DEF PublishCall
  <2>2. Current(p) /\ turn[p].run \in Runs
    BY <2>1, WriterIsCurrent
  <2>3. turn[p].run = r \/ life'[r] = life[r]
    BY <1>0, <1>1, <2>2 DEF PublishCall, Types
  <2>4. QED
    BY <2>1, <2>2, <2>3
<1>2. ASSUME NEW p \in Procs, RecordResult(p)
      PROVE  life[r][c] = "open"
  <2>1. turn[p].run \in Runs /\ turn[p].call \in Calls
    BY <1>0, <1>2 DEF RecordResult, TurnInv, Carries, InCall
  <2>2. life' = [life EXCEPT ![turn[p].run][turn[p].call] = "done"]
    BY <1>2 DEF RecordResult
  <2>3. QED
    BY <1>0, <2>1, <2>2 DEF Types
<1>3. ASSUME NEW p \in Procs, Acts(p), ~PublishCall(p), ~RecordResult(p)
      PROVE  life' = life \/ \E q \in Runs : CloseCalls(q)
  <2>1. CASE CoreCompletes(p) \/ CoreAborts(p) \/ AdmitCompleted(p) \/ AdmitTerminal(p)
    <3>1. turn[p].run \in Runs
      BY <1>0, <2>1 DEF CoreCompletes, CoreAborts, AdmitCompleted, AdmitTerminal, TurnInv,
                        InCall
    <3>2. QED
      BY <2>1, <3>1 DEF CoreCompletes, CoreAborts, AdmitCompleted, AdmitTerminal
  <2>2. CASE ReportClosed(p)
    BY <1>0, <2>2 DEF ReportClosed, Types
  <2>3. CASE ~(CoreCompletes(p) \/ CoreAborts(p) \/ AdmitCompleted(p) \/ AdmitTerminal(p)
               \/ ReportClosed(p))
    BY <1>3, <2>3
    DEF Acts, LiveTurn, AdmitTurn, StartRejected, CoreStarts, CoreCall, BeginInvocation,
      DispatchCall, FinishInvocation, CoreOutput, ProjectFinished, ProjectFailure, Recovery,
      ReadHistory, RecoverCall, FindOutput, InjectOutput, ResumeTurn, RecoveryError,
      AssertTerminal, CloseTerminal, ReportTerminal, GiveUpRecovery, Crash, RecoveryLoop,
      HeartbeatRefused, Leave, CloseExpired, TakeOver, StartTurn, store
  <2>4. QED
    BY <2>1, <2>2, <2>3
<1>4. QED
  BY <1>0, <1>1, <1>2, <1>3, ClosedCalls, Movers

\* A process that stays in its turn stays sick.
LEMMA SickStays ==
  ASSUME ClaimInv, [Next]_vars, NEW p \in Procs, p \in sick, turn'[p].pc # "idle"
  PROVE  p \in sick'
PROOF
<1>0. turn \in [Procs -> TurnType]
  BY DEF ClaimInv, TypeOK
<1>1. ASSUME Acts(p) PROVE p \in sick'
  <2>1. CASE Crash(p) \/ HeartbeatRefused(p)
    BY <1>0, <2>1 DEF Crash, HeartbeatRefused, Leave, Idle, IdleTurn
  <2>2. CASE ~(Crash(p) \/ HeartbeatRefused(p))
    BY <1>1, <2>2
    DEF Acts, LiveTurn, AdmitTurn, StartRejected, CoreStarts, CoreCall, BeginInvocation,
      PublishCall, DispatchCall, RecordResult, FinishInvocation, CoreOutput, CoreCompletes,
      CoreAborts, AdmitCompleted, ProjectFinished, ProjectFailure, Recovery, ReadHistory,
      RecoverCall, FindOutput, InjectOutput, ResumeTurn, RecoveryError, AssertTerminal,
      AdmitTerminal, CloseTerminal, ReportTerminal, GiveUpRecovery, RecoveryLoop,
      ReportClosed, CloseExpired, TakeOver, StartTurn, CoreAppends, store
  <2>3. QED
    BY <2>1, <2>2
<1>2. QED
  BY <1>1, Movers, OneMoves

\* Completed turns stay completed.
LEMMA CompletedStays ==
  ASSUME ClaimInv, [Next]_vars, NEW r, Completed(r)
  PROVE  Completed(r)'
PROOF
<1>1. CASE items' = items
  BY <1>1, HistoryStays DEF SameHistory
<1>2. ASSUME NEW p \in Procs, WriteStep(p) PROVE Completed(r)'
  <2>1. PICK kind, c : Writes(p, kind, c)
    BY <1>2 DEF WriteStep
  <2>2. Wrote(p, kind, c)
    BY <2>1, WritesOne
  <2>3. QED
    BY <2>2, HistoryGrows
<1>3. QED
  BY <1>1, <1>2, HistorySteps

\* A completed turn has an end.
LEMMA CompletedEnds ==
  ASSUME NEW r, Completed(r)
  PROVE  Ends(r) # {}
  BY DEF Completed, Ends

\* What is recorded stays so: nobody opens a call of a turn that has ended.
LEMMA RecordedStays ==
  ASSUME ClaimInv, RecordInv, [Next]_vars, NEW r \in Runs, Recorded(r)
  PROVE  Recorded(r)'
PROOF
<1>1. Completed(r) /\ Completed(r)' /\ EndInv(r) /\ Ends(r) # {}
  BY CompletedStays, CompletedEnds DEF Recorded, RecordInv
<1>2. ~\E p \in Procs : Current(p) /\ turn[p].run = r /\ turn[p].pc = "invoke"
  BY <1>1 DEF EndInv, Over, Projecting
<1>3. \A c \in Calls : life'[r][c] # "open"
  BY <1>2, LifeSteps DEF Recorded
<1>4. QED
  BY <1>1, <1>3 DEF Recorded

\* A process that does not move keeps what it knows of its turn: no other one
\* appends to it, and what is reported stays recorded.
LEMMA RecordBystander ==
  ASSUME ClaimInv, RecordInv, [Next]_vars, NEW q \in Procs, turn'[q] = turn[q]
  PROVE  LiveInv(q)' /\ ReportInv(q)'
PROOF
<1>1. turn[q].pc # "idle" /\ q \notin sick' => q \notin sick
  BY SickStays
<1>2. PICK r : r = turn[q].run
  OBVIOUS
<1>3. ReportInv(q)'
  <2>1. Completed(r) => Completed(r)'
    BY CompletedStays
  <2>2. r \in Runs /\ Recorded(r) => Recorded(r)'
    BY RecordedStays
  <2>3. turn[q].pc # "idle" => r \in Runs
    BY <1>2 DEF ClaimInv, TurnInv
  <2>4. ReportInv(q)
    BY DEF RecordInv
  <2>5. QED
    BY <1>1, <1>2, <2>1, <2>2, <2>3, <2>4 DEF ReportInv
<1>4. LiveInv(q)'
  <2>0. SUFFICES ASSUME Current(q)', q \notin sick', turn[q].pc \notin Over
                 PROVE  LiveInv(q)'
    BY DEF LiveInv
  <2>1. Current(q) /\ q \notin sick
    BY <1>1, <2>0, StillCurrent DEF Current
  <2>2. /\ Unanswered(r) \subseteq Due(q)
        /\ turn[q].mode = "core" \/ turn[q].pc = "starting" => turn[q].todo = {}
        /\ ~Preparing(q) => Starts(r) # {}
    BY <1>2, <2>0, <2>1 DEF RecordInv, LiveInv
  <2>3. Due(q)' = Due(q) /\ (Preparing(q)' <=> Preparing(q))
    BY DEF Due, Preparing
  <2>4. Unanswered(r)' \subseteq Unanswered(r) /\ (Starts(r) # {} => Starts(r)' # {})
    <3>1. CASE items' = items
      BY <3>1, HistoryStays DEF SameHistory
    <3>2. ASSUME NEW p \in Procs, WriteStep(p)
          PROVE  Unanswered(r)' \subseteq Unanswered(r) /\ (Starts(r) # {} => Starts(r)' # {})
      <4>1. PICK kind, c : Writes(p, kind, c)
        BY <3>2 DEF WriteStep
      <4>2. Wrote(p, kind, c) /\ Current(p)
        BY <4>1, WritesOne DEF Writes
      <4>3. p # q
        BY <3>2, WriterMoves
      <4>4. turn[p].run # r
        BY <1>2, <2>1, <4>2, <4>3, OneCurrent
      <4>5. QED
        BY <4>2, <4>4, HistoryGrows, UnansweredGrows
    <3>3. QED
      BY <3>1, <3>2, HistorySteps
  <2>5. QED
    BY <1>2, <2>2, <2>3, <2>4 DEF LiveInv
<1>5. QED
  BY <1>3, <1>4

\* A run that nobody has owned has no history.
LEMMA NoHistory ==
  ASSUME ClaimInv, NEW r \in Runs, own[r].fence = 0
  PROVE  /\ \A i \in 1..Len(items) : items[i].r # r
         /\ Unanswered(r) = {} /\ CallsOf(r) = {} /\ Ends(r) = {}
PROOF
<1>1. ASSUME NEW i \in 1..Len(items) PROVE items[i].r # r
  <2>1. items[i] \in ItemType /\ items[i].fence <= own[items[i].r].fence
    BY ElementOfSeq DEF ClaimInv, TypeOK, ItemInv
  <2>2. items[i].fence \in 1..MaxFence
    BY <2>1 DEF ItemType
  <2>3. QED
    BY <2>1, <2>2, FenceBound
<1>2. CallsOf(r) = {} /\ Ends(r) = {}
  BY <1>1 DEF CallsOf, Ends, Positions
<1>3. QED
  BY <1>1, <1>2 DEF Unanswered

\* A step of a process within its turn: the process was current, in a turn of
\* the same run.
LEMMA MoverCurrent ==
  ASSUME ClaimInv, [Next]_vars, NEW p \in Procs, Acts(p), turn[p].pc # "idle",
         turn'[p].run = turn[p].run, Current(p)'
  PROVE  Current(p)
PROOF
<1>1. turn'[p].pc # "idle" /\ ~\E r \in Runs : Claims(p, r)
  BY DEF Current, Claims
<1>2. own' = own /\ cache' = cache
  BY <1>1, ClaimSteps
<1>3. QED
  BY <1>2 DEF Current

\* Every call in the history of a turn that is read without being superseded is
\* in its recovery_tail.
LEMMA TailIsWhole ==
  ASSUME ClaimInv, RecordInv, NEW r \in Runs, ~Superseded(r)
  PROVE  Unanswered(r) \subseteq TailCalls(r) \ TailOutputs(r)
PROOF
<1>1. SUFFICES ASSUME NEW i \in CallsOf(r), ~Answered(items[i].c)
               PROVE  items[i].c \in TailCalls(r) \ TailOutputs(r)
  BY DEF Unanswered
<1>2. ~Astray(i)
  BY DEF RecordInv, StrayInv
<1>3. i \in Positions("call") /\ i \in 1..Len(items) /\ items[i].r = r
  BY DEF CallsOf, Positions
<1>4. PICK s \in Starts(r) : s <= i /\ ~\E k \in Positions("start") : s < k /\ k <= i
  BY <1>2, <1>3 DEF Astray
<1>5. Len(items) \in Nat
  BY LenProperties DEF ClaimInv, TypeOK
<1>6. s \in Nat /\ i \in Nat /\ \A k \in Positions("start") : k \in Nat
  BY <1>3, <1>5 DEF Starts, Positions
<1>7. \A k \in Positions("start") : k <= i => k <= s
  BY <1>4, <1>6
<1>8. i \in Segment(r)
  BY <1>3, <1>4, <1>7 DEF Segment
<1>9. items[i].c \in TailCalls(r)
  BY <1>3, <1>8 DEF TailCalls
<1>10. items[i].c \notin TailOutputs(r)
  BY <1>1 DEF TailOutputs, Answered
<1>11. QED
  BY <1>9, <1>10

\* Core's append inside a turn: the process is sick from then on, or the item
\* is there.
LEMMA CoreWrote ==
  ASSUME ClaimInv, NEW p \in Procs, turn[p].pc # "idle", NEW kind \in Kinds,
         NEW c \in Calls \cup {None}, CoreAppends(p, kind, c), p \notin sick'
  PROVE  Wrote(p, kind, c) /\ Current(p)
PROOF
<1>1. Writes(p, kind, c)
  BY CoreAppendWrites
<1>2. QED
  BY <1>1, WritesOne DEF Writes

\* The process that moves keeps what it knows of its turn.
LEMMA LiveMover ==
  ASSUME ClaimInv, RecordInv, [Next]_vars, NEW p \in Procs, Acts(p)
  PROVE  LiveInv(p)'
PROOF
<1>0. /\ turn \in [Procs -> TurnType] /\ turn[p] \in TurnType
      /\ Carries(turn[p]) /\ LiveInv(p)
      /\ turn[p].pc # "idle" => turn[p].run \in Runs
  BY DEF ClaimInv, TypeOK, RecordInv, TurnInv
<1>1. SUFFICES ASSUME Current(p)', p \notin sick', turn'[p].pc \notin Over
               PROVE  LiveInv(p)'
  BY DEF LiveInv
<1>2. turn'[p].pc # "idle" /\ p \notin sick
  BY <1>1, SickStays DEF Current
<1>3. CASE turn'[p] = turn[p]
  BY <1>3, RecordBystander
<1>4. ASSUME NEW r \in Runs, Claims(p, r) PROVE LiveInv(p)'
  <2>1. turn'[p].pc = "starting" /\ turn'[p].run = r /\ turn'[p].todo = {} /\ items' = items
        /\ gw[r].pc = "posting"
    BY <1>1, <1>4 DEF Claims, Over
  <2>2. own[r].fence = 0
    BY <2>1 DEF ClaimInv, RunInv
  <2>3. Unanswered(r)' = {}
    BY <2>1, <2>2, NoHistory, HistoryStays DEF SameHistory
  <2>4. QED
    BY <2>1, <2>3 DEF LiveInv, Preparing
<1>5. PICK r : r = turn[p].run
  OBVIOUS
<1>6. ASSUME turn[p].pc # "idle", turn'[p].run = r, turn[p].pc \notin Over
      PROVE  /\ Current(p) /\ Unanswered(r) \subseteq Due(p)
             /\ turn[p].mode = "core" \/ turn[p].pc = "starting" => turn[p].todo = {}
             /\ ~Preparing(p) => Starts(r) # {}
  <2>1. Current(p)
    BY <1>1, <1>5, <1>6, MoverCurrent
  <2>2. QED
    BY <1>0, <1>2, <1>5, <1>6, <2>1 DEF LiveInv
<1>7. items' = items => Unanswered(r)' = Unanswered(r) /\ Starts(r)' = Starts(r)
  BY HistoryStays DEF SameHistory
<1>10. CASE AdmitTurn(p)
  <2>1. turn'[p] = [turn[p] EXCEPT !.pc = "admitted", !.mode = "core"]
    BY <1>0, <1>10, LiveTable
  <2>2. turn'[p].pc = "admitted" /\ turn'[p].run = r /\ turn'[p].todo = turn[p].todo
    BY <1>0, <1>5, <2>1 DEF TurnType
  <2>3. turn[p].pc = "starting" /\ items' = items
    BY <1>10 DEF AdmitTurn, store
  <2>4. Unanswered(r) = {} /\ turn[p].todo = {}
    BY <1>6, <2>2, <2>3 DEF Due, Over, Projecting, InCall
  <2>5. QED
    BY <1>7, <2>2, <2>3, <2>4 DEF LiveInv, Preparing
<1>11. CASE CoreStarts(p)
  <2>1. turn'[p] = [turn[p] EXCEPT !.pc = "core"]
    BY <1>0, <1>11, LiveTable
  <2>2. turn'[p].pc = "core" /\ turn'[p].run = r /\ turn'[p].todo = turn[p].todo
    BY <1>0, <1>5, <2>1 DEF TurnType
  <2>3. turn[p].pc = "admitted" /\ turn[p].mode = "core"
    BY <1>0, <1>11 DEF CoreStarts, Carries
  <2>4. Unanswered(r) = {} /\ turn[p].todo = {}
    BY <1>6, <2>2, <2>3 DEF Due, Over, Projecting, InCall
  <2>5. Wrote(p, "start", None)
    <3>1. CoreAppends(p, "start", None) /\ "start" \in Kinds
      BY <1>11 DEF CoreStarts, Kinds
    <3>2. QED
      BY <1>1, <2>3, <3>1, CoreWrote
  <2>6. Unanswered(r)' = {} /\ Starts(r)' # {}
    BY <1>5, <2>4, <2>5, UnansweredGrows, HistoryGrows
  <2>7. QED
    BY <2>2, <2>4, <2>6 DEF LiveInv
<1>12. ASSUME NEW c \in Calls, CoreCall(p, c) PROVE LiveInv(p)'
  <2>1. turn'[p] = [turn[p] EXCEPT !.pc = "begin", !.call = c]
    BY <1>0, <1>12, LiveTable
  <2>2. turn'[p].pc = "begin" /\ turn'[p].run = r /\ turn'[p].todo = turn[p].todo
        /\ turn'[p].call = c
    BY <1>0, <1>5, <2>1 DEF TurnType
  <2>3. turn[p].pc = "core" /\ turn[p].mode = "core"
    BY <1>0, <1>12 DEF CoreCall, Carries
  <2>4. Unanswered(r) = {} /\ turn[p].todo = {} /\ Starts(r) # {}
    BY <1>6, <2>2, <2>3 DEF Due, Over, Projecting, InCall, Preparing
  <2>5. Wrote(p, "call", c)
    <3>1. CoreAppends(p, "call", c) /\ "call" \in Kinds
      BY <1>12 DEF CoreCall, Kinds
    <3>2. QED
      BY <1>1, <2>3, <3>1, CoreWrote
  <2>6. Unanswered(r)' \subseteq {c} /\ Starts(r)' # {}
    BY <1>5, <2>4, <2>5, UnansweredGrows, HistoryGrows
  <2>7. Due(p)' = {c}
    BY <2>2, <2>4 DEF Due, InCall
  <2>8. QED
    BY <2>2, <2>4, <2>6, <2>7 DEF LiveInv
<1>13. CASE BeginInvocation(p) \/ PublishCall(p) \/ DispatchCall(p) \/ RecordResult(p)
            \/ FinishInvocation(p)
  <2>1. PICK pc : /\ pc \in {"invoke", "dispatch", "result", "finish", "respond"}
                  /\ turn'[p] = [turn[p] EXCEPT !.pc = pc]
    BY <1>0, <1>13, LiveTable
  <2>2. turn'[p].pc = pc /\ turn'[p].run = r /\ turn'[p].todo = turn[p].todo
        /\ turn'[p].call = turn[p].call /\ turn'[p].mode = turn[p].mode
    BY <1>0, <1>5, <2>1 DEF TurnType
  <2>3. turn[p].pc \in InCall /\ items' = items /\ pc \in InCall
    BY <1>13, <2>1 DEF BeginInvocation, PublishCall, DispatchCall, RecordResult,
                       FinishInvocation, InCall, store
  <2>4. turn[p].pc # "idle" /\ turn[p].pc \notin Over
    BY <2>3 DEF InCall, Over, Projecting
  <2>5. Due(p)' = Due(p) /\ (Preparing(p)' <=> Preparing(p))
    BY <2>2, <2>3 DEF Due, Preparing, InCall
  <2>6. turn[p].pc # "starting" /\ pc # "starting"
    BY <2>3 DEF InCall
  <2>7. QED
    BY <1>6, <1>7, <2>2, <2>3, <2>4, <2>5, <2>6 DEF LiveInv
<1>14. CASE CoreOutput(p)
  <2>1. turn'[p] = [turn[p] EXCEPT !.pc = "core", !.call = None]
    BY <1>0, <1>14, LiveTable
  <2>2. turn'[p].pc = "core" /\ turn'[p].run = r /\ turn'[p].todo = turn[p].todo
    BY <1>0, <1>5, <2>1 DEF TurnType
  <2>3. turn[p].pc \in InCall /\ turn[p].mode = "core" /\ turn[p].call \in Calls
        /\ turn[p].pc # "idle" /\ turn[p].pc \notin Over
    BY <1>0, <1>14 DEF CoreOutput, Carries, InCall, Over, Projecting
  <2>4. Unanswered(r) \subseteq {turn[p].call} /\ turn[p].todo = {} /\ Starts(r) # {}
    BY <1>6, <2>2, <2>3 DEF Due, InCall, Preparing
  <2>5. Wrote(p, "out", turn[p].call)
    <3>1. CoreAppends(p, "out", turn[p].call) /\ "out" \in Kinds
      BY <1>14 DEF CoreOutput, Kinds
    <3>2. QED
      BY <1>1, <2>3, <3>1, CoreWrote
  <2>6. Unanswered(r)' = {} /\ Starts(r)' # {}
    BY <2>4, <2>5, UnansweredGrows, HistoryGrows
  <2>7. QED
    BY <2>2, <2>4, <2>6 DEF LiveInv
<1>15. CASE ReadHistory(p)
  <2>0. turn[p].pc = "reading" /\ turn[p].mode = "recovery" /\ r \in Runs /\ items' = items
    BY <1>0, <1>5, <1>15 DEF ReadHistory, Carries, store
  <2>1. PICK todo : /\ ~Superseded(r)
                    /\ turn'[p] = [turn[p] EXCEPT !.pc = "recovering", !.todo = todo]
                    /\ TailCalls(r) \ TailOutputs(r) \subseteq todo
    <3>1. PICK x :
           \/ turn'[p] = [turn[p] EXCEPT !.pc = "projecting", !.mode = "failing", !.st = "failed"]
           \/ turn'[p] = [turn[p] EXCEPT !.pc = "projecting", !.st = x]
           \/ /\ ~Superseded(r)
              /\ turn'[p] = [turn[p] EXCEPT !.pc = "recovering", !.todo = x]
              /\ TailCalls(r) \ TailOutputs(r) \subseteq x
      BY <1>0, <1>5, <1>15, RecoveryTable
    <3>2. turn'[p].pc # "projecting"
      BY <1>1 DEF Over, Projecting
    <3>3. QED
      BY <1>0, <3>1, <3>2 DEF TurnType
  <2>2. turn'[p].pc = "recovering" /\ turn'[p].run = r /\ turn'[p].todo = todo
        /\ turn'[p].mode = "recovery"
    BY <1>0, <1>5, <2>0, <2>1 DEF TurnType
  <2>3. Unanswered(r)' \subseteq todo
    BY <1>7, <2>0, <2>1, TailIsWhole
  <2>4. QED
    BY <2>2, <2>3 DEF LiveInv, Due, Preparing
<1>16. ASSUME NEW c \in Calls, RecoverCall(p, c) PROVE LiveInv(p)'
  <2>1. turn'[p] = [turn[p] EXCEPT !.pc = "begin", !.call = c, !.todo = @ \ {c}]
    BY <1>0, <1>16, RecoveryTable
  <2>2. turn'[p].pc = "begin" /\ turn'[p].run = r /\ turn'[p].todo = turn[p].todo \ {c}
        /\ turn'[p].call = c /\ turn'[p].mode = turn[p].mode
    BY <1>0, <1>5, <2>1 DEF TurnType
  <2>3. turn[p].pc = "recovering" /\ turn[p].mode = "recovery" /\ items' = items
    BY <1>0, <1>16 DEF RecoverCall, Carries, store
  <2>4. Unanswered(r) \subseteq turn[p].todo
    BY <1>6, <2>2, <2>3 DEF Due, Over, Projecting
  <2>5. QED
    BY <1>7, <2>2, <2>3, <2>4 DEF LiveInv, Due, InCall, Preparing
<1>17. CASE FindOutput(p)
  <2>0. turn[p].pc = "respond" /\ turn[p].mode = "recovery" /\ items' = items
    BY <1>17 DEF FindOutput, store
  <2>1. CASE /\ Answered(turn[p].call)
             /\ turn'[p] = [turn[p] EXCEPT !.pc = "recovering", !.call = None]
    <3>1. turn'[p].pc = "recovering" /\ turn'[p].run = r /\ turn'[p].todo = turn[p].todo
          /\ turn'[p].mode = turn[p].mode
      BY <1>0, <1>5, <2>1 DEF TurnType
    <3>2. Unanswered(r) \subseteq turn[p].todo \cup {turn[p].call}
      BY <1>6, <2>0, <3>1 DEF Due, Over, Projecting, InCall
    <3>3. turn[p].call \notin Unanswered(r)
      BY <2>1 DEF Unanswered
    <3>4. QED
      BY <1>7, <2>0, <3>1, <3>2, <3>3 DEF LiveInv, Due, Preparing
  <2>2. CASE turn'[p] = [turn[p] EXCEPT !.pc = "inject"]
    <3>1. turn'[p].pc = "inject" /\ turn'[p].run = r /\ turn'[p].todo = turn[p].todo
          /\ turn'[p].mode = turn[p].mode /\ turn'[p].call = turn[p].call
      BY <1>0, <1>5, <2>2 DEF TurnType
    <3>2. Unanswered(r) \subseteq turn[p].todo \cup {turn[p].call}
      BY <1>6, <2>0, <3>1 DEF Due, Over, Projecting, InCall
    <3>3. QED
      BY <1>7, <2>0, <3>1, <3>2 DEF LiveInv, Due, Preparing
  <2>3. QED
    BY <1>0, <1>17, <2>1, <2>2, RecoveryTable
<1>18. CASE InjectOutput(p)
  <2>1. turn'[p] = [turn[p] EXCEPT !.pc = "recovering", !.call = None]
    BY <1>0, <1>18, RecoveryTable
  <2>2. turn'[p].pc = "recovering" /\ turn'[p].run = r /\ turn'[p].todo = turn[p].todo
        /\ turn'[p].mode = turn[p].mode
    BY <1>0, <1>5, <2>1 DEF TurnType
  <2>3. turn[p].pc = "inject" /\ turn[p].mode = "recovery" /\ turn[p].call \in Calls
    BY <1>0, <1>18 DEF InjectOutput, Carries
  <2>4. Unanswered(r) \subseteq turn[p].todo \cup {turn[p].call}
    BY <1>6, <2>2, <2>3 DEF Due, Over, Projecting
  <2>5. Wrote(p, "out", turn[p].call)
    <3>1. AppendItem(p, "out", turn[p].call) /\ "out" \in Kinds
      BY <1>18 DEF InjectOutput, Kinds
    <3>2. Writes(p, "out", turn[p].call)
      BY <2>3, <3>1, AppendWrites
    <3>3. QED
      BY <3>2, WritesOne
  <2>6. Unanswered(r)' \subseteq turn[p].todo
    BY <2>4, <2>5, UnansweredGrows
  <2>7. QED
    BY <2>2, <2>3, <2>6 DEF LiveInv, Due, Preparing
<1>19. CASE ResumeTurn(p)
  <2>1. turn'[p] = [turn[p] EXCEPT !.pc = "starting"]
    BY <1>0, <1>19, RecoveryTable
  <2>2. turn'[p].pc = "starting" /\ turn'[p].run = r /\ turn'[p].todo = turn[p].todo
    BY <1>0, <1>5, <2>1 DEF TurnType
  <2>3. turn[p].pc = "recovering" /\ turn[p].todo = {} /\ items' = items
    BY <1>19 DEF ResumeTurn, store
  <2>4. Unanswered(r) = {}
    BY <1>6, <2>2, <2>3 DEF Due, Over, Projecting
  <2>5. QED
    BY <1>7, <2>2, <2>3, <2>4 DEF LiveInv, Preparing
<1>20. CASE StartRejected(p)
  <2>1. turn'[p] = [turn[p] EXCEPT !.pc = "projecting", !.mode = "failing", !.st = "failed"]
        \/ turn'[p] = IdleTurn
    BY <1>0, <1>20, LiveTable
  <2>2. /\ [turn[p] EXCEPT !.pc = "projecting", !.mode = "failing", !.st = "failed"].pc
             = "projecting"
        /\ IdleTurn.pc = "idle"
    BY <1>0 DEF TurnType, IdleTurn
  <2>3. turn'[p].pc = "projecting" \/ turn'[p].pc = "idle"
    BY <2>1, <2>2, Zenon
  <2>4. QED
    BY <1>1, <1>2, <2>3 DEF Over, Projecting
<1>21. CASE CoreCompletes(p) \/ AdmitCompleted(p) \/ AssertTerminal(p) \/ AdmitTerminal(p)
            \/ CloseTerminal(p)
  <2>1. PICK pc : /\ pc \in {"completing", "finished", "admitting", "closing", "sending"}
                  /\ turn'[p] = [turn[p] EXCEPT !.pc = pc]
    BY <1>0, <1>21, LiveTable, RecoveryTable
  <2>2. QED
    BY <1>0, <1>1, <2>1 DEF Over, Projecting, TurnType
<1>22. CASE ProjectFinished(p) \/ ProjectFailure(p) \/ CoreAborts(p) \/ ReportTerminal(p)
            \/ GiveUpRecovery(p)
  <2>1. turn'[p] = IdleTurn
    BY <1>0, <1>22, LiveTable, RecoveryTable
  <2>2. QED
    BY <1>2, <2>1 DEF IdleTurn
<1>23. CASE RecoveryError(p)
  <2>1. turn'[p] = [IdleTurn EXCEPT !.pc = "projecting", !.run = turn[p].run,
                                    !.mode = "failing", !.st = "failed"]
    BY <1>0, <1>23, RecoveryTable
  <2>2. QED
    BY <1>1, <2>1 DEF IdleTurn, Over, Projecting
<1>24. CASE Crash(p) \/ RecoveryLoop(p) \/ \E q \in Runs : StartTurn(p, q)
  <2>1. CASE Crash(p) \/ HeartbeatRefused(p)
    BY <1>0, <1>2, <2>1 DEF Crash, HeartbeatRefused, Leave, Idle, IdleTurn
  <2>2. CASE ReportClosed(p) \/ \E q \in Runs : CloseExpired(p, q)
    BY <1>3, <2>2 DEF ReportClosed, CloseExpired
  <2>3. ASSUME NEW q \in Runs, StartTurn(p, q) \/ TakeOver(p, q) PROVE LiveInv(p)'
    <3>1. Claims(p, q)
      BY <1>0, <2>3 DEF StartTurn, TakeOver, Claims, IdleTurn, Healthy
    <3>2. QED
      BY <1>4, <3>1
  <2>4. QED
    BY <1>24, <2>1, <2>2, <2>3 DEF RecoveryLoop
<1>25. QED
  BY <1>10, <1>11, <1>12, <1>13, <1>14, <1>15, <1>16, <1>17, <1>18, <1>19, <1>20, <1>21,
     <1>22, <1>23, <1>24 DEF Acts, LiveTurn, Recovery

\* Where each step of a live turn leads, field by field.
LEMMA LiveFields ==
  ASSUME turn \in [Procs -> TurnType], NEW p \in Procs
  PROVE  /\ AdmitTurn(p) => turn'[p].pc = "admitted" /\ turn'[p].run = turn[p].run
         /\ StartRejected(p) =>
              \/ turn'[p].pc = "idle"
              \/ /\ turn'[p].pc = "projecting" /\ turn'[p].run = turn[p].run
                 /\ turn'[p].st = "failed"
         /\ CoreStarts(p) \/ CoreOutput(p) =>
              turn'[p].pc = "core" /\ turn'[p].run = turn[p].run
         /\ \A c \in Calls : CoreCall(p, c) =>
              /\ turn'[p].pc = "begin" /\ turn'[p].run = turn[p].run
              /\ turn'[p].mode = turn[p].mode
         /\ BeginInvocation(p) \/ PublishCall(p) \/ DispatchCall(p) \/ RecordResult(p)
              \/ FinishInvocation(p) =>
              /\ turn'[p].pc \in InCall /\ turn'[p].run = turn[p].run
              /\ turn'[p].mode = turn[p].mode
         /\ CoreCompletes(p) => turn'[p].pc = "completing" /\ turn'[p].run = turn[p].run
         /\ AdmitCompleted(p) => turn'[p].pc = "finished" /\ turn'[p].run = turn[p].run
         /\ ProjectFinished(p) \/ ProjectFailure(p) \/ CoreAborts(p) => turn'[p].pc = "idle"
PROOF
<1>0. turn[p] \in TurnType
  OBVIOUS
<1> DEFINE To(pc) == [turn[p] EXCEPT !.pc = pc]
<1>1. \A pc : To(pc).pc = pc /\ To(pc).run = turn[p].run /\ To(pc).mode = turn[p].mode
  BY <1>0 DEF TurnType
<1>2. IdleTurn.pc = "idle"
  BY DEF IdleTurn
<1>3. AdmitTurn(p) => turn'[p].pc = "admitted" /\ turn'[p].run = turn[p].run
  BY <1>0, LiveTable DEF TurnType
<1>4. StartRejected(p) =>
        \/ turn'[p].pc = "idle"
        \/ /\ turn'[p].pc = "projecting" /\ turn'[p].run = turn[p].run
           /\ turn'[p].st = "failed"
  <2>1. PICK t : t = [turn[p] EXCEPT !.pc = "projecting", !.mode = "failing", !.st = "failed"]
    OBVIOUS
  <2>2. t.pc = "projecting" /\ t.run = turn[p].run /\ t.st = "failed"
    BY <1>0, <2>1 DEF TurnType
  <2>3. StartRejected(p) => turn'[p] = IdleTurn \/ turn'[p] = t
    BY <2>1, LiveTable
  <2>4. QED
    BY <1>2, <2>2, <2>3, Zenon
<1>5. CoreOutput(p) => turn'[p].pc = "core" /\ turn'[p].run = turn[p].run
  <2>1. PICK t : t = [turn[p] EXCEPT !.pc = "core", !.call = None]
    OBVIOUS
  <2>2. t.pc = "core" /\ t.run = turn[p].run
    BY <1>0, <2>1 DEF TurnType
  <2>3. QED
    BY <2>1, <2>2, LiveTable
<1>6. \A c \in Calls : CoreCall(p, c) =>
        /\ turn'[p].pc = "begin" /\ turn'[p].run = turn[p].run
        /\ turn'[p].mode = turn[p].mode
  <2>1. SUFFICES ASSUME NEW c \in Calls, CoreCall(p, c)
                 PROVE  /\ turn'[p].pc = "begin" /\ turn'[p].run = turn[p].run
                        /\ turn'[p].mode = turn[p].mode
    OBVIOUS
  <2>2. turn'[p] = [turn[p] EXCEPT !.pc = "begin", !.call = c]
    BY <2>1, LiveTable
  <2>3. QED
    BY <1>0, <2>2 DEF TurnType
<1> HIDE DEF To
<1>7. /\ BeginInvocation(p) \/ PublishCall(p) \/ DispatchCall(p) \/ RecordResult(p)
           \/ FinishInvocation(p) => \E pc \in InCall : turn'[p] = To(pc)
      /\ CoreStarts(p) => turn'[p] = To("core")
      /\ CoreCompletes(p) => turn'[p] = To("completing")
      /\ AdmitCompleted(p) => turn'[p] = To("finished")
      /\ ProjectFinished(p) \/ ProjectFailure(p) \/ CoreAborts(p) => turn'[p] = IdleTurn
  BY LiveTable DEF To, InCall
<1>8. QED
  BY <1>1, <1>2, <1>3, <1>4, <1>5, <1>6, <1>7

\* Where each step of a recovery leads, field by field.
LEMMA RecoveryFields ==
  ASSUME turn \in [Procs -> TurnType], NEW p \in Procs
  PROVE  /\ ReadHistory(p) =>
              /\ turn'[p].run = turn[p].run
              /\ \/ /\ turn'[p].pc = "projecting"
                    /\ \/ turn'[p].st = "failed"
                       \/ Ends(turn[p].run) # {} /\ turn'[p].st = EndStatus(turn[p].run)
                 \/ /\ turn'[p].pc = "recovering"
                    /\ ~Superseded(turn[p].run) /\ Ends(turn[p].run) = {}
         /\ \A c \in Calls : RecoverCall(p, c) =>
              /\ turn'[p].pc = "begin" /\ turn'[p].run = turn[p].run
              /\ turn'[p].mode = turn[p].mode
         /\ FindOutput(p) =>
              turn'[p].pc \in {"recovering", "inject"} /\ turn'[p].run = turn[p].run
         /\ InjectOutput(p) => turn'[p].pc = "recovering" /\ turn'[p].run = turn[p].run
         /\ ResumeTurn(p) => turn'[p].pc = "starting" /\ turn'[p].run = turn[p].run
         /\ RecoveryError(p) =>
              /\ turn'[p].pc = "projecting" /\ turn'[p].run = turn[p].run
              /\ turn'[p].st = "failed"
         /\ AssertTerminal(p) => /\ turn'[p].pc = "admitting" /\ turn'[p].run = turn[p].run
                                 /\ turn'[p].st = turn[p].st
         /\ AdmitTerminal(p) => /\ turn'[p].pc = "closing" /\ turn'[p].run = turn[p].run
                                /\ turn'[p].st = turn[p].st
         /\ CloseTerminal(p) => /\ turn'[p].pc = "sending" /\ turn'[p].run = turn[p].run
                                /\ turn'[p].st = turn[p].st
         /\ ReportTerminal(p) \/ GiveUpRecovery(p) => turn'[p].pc = "idle"
PROOF
<1>0. turn[p] \in TurnType
  OBVIOUS
<1> DEFINE To(pc) == [turn[p] EXCEPT !.pc = pc]
<1>1. \A pc : To(pc).pc = pc /\ To(pc).run = turn[p].run /\ To(pc).st = turn[p].st
  BY <1>0 DEF TurnType
<1>2. IdleTurn.pc = "idle"
  BY DEF IdleTurn
<1>3. ASSUME ReadHistory(p)
      PROVE  /\ turn'[p].run = turn[p].run
             /\ \/ /\ turn'[p].pc = "projecting"
                   /\ \/ turn'[p].st = "failed"
                      \/ Ends(turn[p].run) # {} /\ turn'[p].st = EndStatus(turn[p].run)
                \/ /\ turn'[p].pc = "recovering"
                   /\ ~Superseded(turn[p].run) /\ Ends(turn[p].run) = {}
  <2>1. CASE turn'[p] = [turn[p] EXCEPT !.pc = "projecting", !.mode = "failing",
                                        !.st = "failed"]
    BY <1>0, <2>1 DEF TurnType
  <2>2. CASE /\ ~Superseded(turn[p].run) /\ Ends(turn[p].run) # {}
             /\ turn'[p] = [turn[p] EXCEPT !.pc = "projecting", !.st = EndStatus(turn[p].run)]
    BY <1>0, <2>2 DEF TurnType
  <2>3. ASSUME NEW x, ~Superseded(turn[p].run), Ends(turn[p].run) = {},
               turn'[p] = [turn[p] EXCEPT !.pc = "recovering", !.todo = x]
        PROVE  /\ turn'[p].run = turn[p].run /\ turn'[p].pc = "recovering"
               /\ ~Superseded(turn[p].run) /\ Ends(turn[p].run) = {}
    BY <1>0, <2>3 DEF TurnType
  <2>4. QED
    BY <1>3, <2>1, <2>2, <2>3, RecoveryTable
<1>4. \A c \in Calls : RecoverCall(p, c) =>
        /\ turn'[p].pc = "begin" /\ turn'[p].run = turn[p].run
        /\ turn'[p].mode = turn[p].mode
  <2>1. SUFFICES ASSUME NEW c \in Calls, RecoverCall(p, c)
                 PROVE  /\ turn'[p].pc = "begin" /\ turn'[p].run = turn[p].run
                        /\ turn'[p].mode = turn[p].mode
    OBVIOUS
  <2>2. turn'[p] = [turn[p] EXCEPT !.pc = "begin", !.call = c, !.todo = @ \ {c}]
    BY <2>1, RecoveryTable
  <2>3. QED
    BY <1>0, <2>2 DEF TurnType
<1>5. PICK t : t = [turn[p] EXCEPT !.pc = "recovering", !.call = None]
  OBVIOUS
<1>6. t.pc = "recovering" /\ t.run = turn[p].run
  BY <1>0, <1>5 DEF TurnType
<1>7. RecoveryError(p) =>
        /\ turn'[p].pc = "projecting" /\ turn'[p].run = turn[p].run
        /\ turn'[p].st = "failed"
  BY RecoveryTable DEF IdleTurn
<1> HIDE DEF To
<1>8. /\ FindOutput(p) => turn'[p] = t \/ turn'[p] = To("inject")
      /\ InjectOutput(p) => turn'[p] = t
      /\ ResumeTurn(p) => turn'[p] = To("starting")
      /\ AssertTerminal(p) => turn'[p] = To("admitting")
      /\ AdmitTerminal(p) => turn'[p] = To("closing")
      /\ CloseTerminal(p) => turn'[p] = To("sending")
      /\ ReportTerminal(p) \/ GiveUpRecovery(p) => turn'[p] = IdleTurn
  BY <1>5, RecoveryTable DEF To
<1>9. QED
  BY <1>1, <1>2, <1>3, <1>4, <1>6, <1>7, <1>8

\* A step within a turn leaves an ended turn ended and does not go back to its
\* preparation, except that a turn that is read and found neither ended nor
\* superseded is prepared.
LEMMA Paths ==
  ASSUME ClaimInv, NEW p \in Procs, Acts(p), turn'[p].pc # "idle"
  PROVE  \/ \E r \in Runs : Claims(p, r)
         \/ /\ turn[p].pc # "idle" /\ turn'[p].run = turn[p].run
            /\ \/ /\ turn[p].pc \in Over => turn'[p].pc \in Over
                  /\ Preparing(p)' => Preparing(p)
               \/ /\ ~Superseded(turn[p].run) /\ Ends(turn[p].run) = {}
                  /\ items' = items
PROOF
<1>0. turn \in [Procs -> TurnType] /\ Carries(turn[p])
  BY DEF ClaimInv, TypeOK, TurnInv
<1>1. CASE AdmitTurn(p) \/ StartRejected(p) \/ CoreStarts(p) \/ CoreOutput(p)
           \/ CoreCompletes(p) \/ AdmitCompleted(p)
  <2>1. /\ turn[p].pc # "idle"
        /\ turn[p].pc \in Over => AdmitCompleted(p)
        /\ AdmitTurn(p) => turn[p].pc = "starting"
    BY <1>1 DEF AdmitTurn, StartRejected, CoreStarts, CoreOutput, CoreCompletes,
                AdmitCompleted, InCall, Over, Projecting
  <2>2. /\ turn'[p].run = turn[p].run
        /\ turn'[p].pc \in {"admitted", "projecting", "core", "completing", "finished"}
        /\ turn'[p].pc = "admitted" => AdmitTurn(p)
        /\ AdmitCompleted(p) => turn'[p].pc = "finished"
    <3>1. CASE AdmitTurn(p)
      BY <1>0, <3>1, LiveFields DEF AdmitTurn, AdmitCompleted
    <3>2. CASE ~AdmitTurn(p)
      BY <1>0, <1>1, <3>2, LiveFields
    <3>3. QED
      BY <3>1, <3>2
  <2>3. QED
    BY <2>1, <2>2 DEF Over, Preparing, InCall, Projecting
<1>2. CASE \/ \E c \in Calls : CoreCall(p, c)
           \/ BeginInvocation(p) \/ PublishCall(p) \/ DispatchCall(p) \/ RecordResult(p)
           \/ FinishInvocation(p)
  <2>1. turn[p].pc \in InCall \/ (turn[p].pc = "core" /\ turn[p].mode = "core")
    BY <1>0, <1>2 DEF CoreCall, BeginInvocation, PublishCall, DispatchCall, RecordResult,
                      FinishInvocation, InCall, Carries
  <2>2. turn'[p].pc \in InCall /\ turn'[p].run = turn[p].run /\ turn'[p].mode = turn[p].mode
    BY <1>0, <1>2, LiveFields DEF InCall
  <2>3. QED
    BY <2>1, <2>2 DEF Over, Preparing, InCall, Projecting
<1>3. CASE ProjectFinished(p) \/ ProjectFailure(p) \/ CoreAborts(p) \/ ReportTerminal(p)
           \/ GiveUpRecovery(p)
  BY <1>0, <1>3, LiveFields, RecoveryFields
<1>4. CASE ReadHistory(p)
  <2>1. turn[p].pc = "reading" /\ items' = items
    BY <1>4 DEF ReadHistory, store
  <2>2. QED
    BY <1>0, <1>4, <2>1, RecoveryFields DEF Over, Preparing, InCall, Projecting
<1>5. CASE (\E c \in Calls : RecoverCall(p, c)) \/ FindOutput(p) \/ InjectOutput(p)
           \/ ResumeTurn(p)
  <2>1. turn[p].pc # "idle" /\ Preparing(p) /\ turn[p].pc \notin Over
    BY <1>5 DEF RecoverCall, FindOutput, InjectOutput, ResumeTurn, Preparing, InCall, Over,
                Projecting
  <2>2. turn'[p].run = turn[p].run
    BY <1>0, <1>5, RecoveryFields
  <2>3. QED
    BY <2>1, <2>2
<1>6. CASE RecoveryError(p) \/ AssertTerminal(p) \/ AdmitTerminal(p) \/ CloseTerminal(p)
  <2>1. turn[p].pc # "idle"
    BY <1>6 DEF RecoveryError, AssertTerminal, AdmitTerminal, CloseTerminal, InCall,
                Projecting
  <2>2. turn'[p].run = turn[p].run /\ turn'[p].pc \in Projecting
    BY <1>0, <1>6, RecoveryFields DEF Projecting
  <2>3. QED
    BY <2>1, <2>2 DEF Over, Preparing, InCall, Projecting
<1>7. CASE Crash(p) \/ HeartbeatRefused(p)
  BY <1>0, <1>7 DEF Crash, HeartbeatRefused, Leave, Idle, IdleTurn
<1>8. CASE ReportClosed(p) \/ \E r \in Runs : CloseExpired(p, r)
  BY <1>8 DEF ReportClosed, CloseExpired, Preparing
<1>9. ASSUME NEW r \in Runs, StartTurn(p, r) \/ TakeOver(p, r) PROVE Claims(p, r)
  BY <1>0, <1>9 DEF StartTurn, TakeOver, Claims, IdleTurn, Healthy
<1>10. QED
  BY <1>1, <1>2, <1>3, <1>4, <1>5, <1>6, <1>7, <1>8, <1>9
  DEF Acts, LiveTurn, Recovery, RecoveryLoop

\* The process that moves reports only what is recorded: the stop of its turn
\* is in the history unless it is sick, and a terminal admission closes the
\* calls first.
LEMMA ReportMover ==
  ASSUME ClaimInv, RecordInv, [Next]_vars, NEW p \in Procs, Acts(p)
  PROVE  ReportInv(p)'
PROOF
<1>0. /\ turn \in [Procs -> TurnType] /\ turn[p] \in TurnType
      /\ Carries(turn[p]) /\ ReportInv(p) /\ Types
      /\ turn[p].pc # "idle" => turn[p].run \in Runs
  BY ClaimParts DEF ClaimInv, TypeOK, RecordInv, TurnInv, TurnsOK
<1>1. SUFFICES ASSUME turn'[p].pc \in {"completing", "finished"} \cup Projecting
               PROVE  ReportInv(p)'
  BY DEF ReportInv, Projecting
<1>2. turn'[p].pc # "idle"
  BY <1>1 DEF Projecting
<1>3. PICK r : r = turn[p].run
  OBVIOUS
<1>4. Completed(r) => Completed(r)'
  BY CompletedStays
<1>5. CASE turn'[p] = turn[p]
  BY <1>5, RecordBystander
<1>6. CASE CoreCompletes(p)
  <2>1. turn'[p].pc = "completing" /\ turn'[p].run = r
    BY <1>0, <1>3, <1>6, LiveFields
  <2>2. turn[p].pc = "core" /\ CoreAppends(p, "completed", None) /\ "completed" \in Kinds
    BY <1>6 DEF CoreCompletes, Kinds
  <2>3. ASSUME p \notin sick' PROVE Completed(r)'
    <3>1. Wrote(p, "completed", None)
      BY <2>2, <2>3, CoreWrote
    <3>2. QED
      BY <1>3, <3>1, HistoryGrows
  <2>4. QED
    BY <2>1, <2>3 DEF ReportInv
<1>7. CASE AdmitCompleted(p)
  <2>1. turn'[p].pc = "finished" /\ turn'[p].run = r
    BY <1>0, <1>3, <1>7, LiveFields
  <2>2. turn[p].pc = "completing" /\ p \notin sick /\ CloseCalls(r) /\ r \in Runs
    BY <1>0, <1>3, <1>7 DEF AdmitCompleted, Healthy
  <2>3. Completed(r) /\ \A c \in Calls : life'[r][c] # "open"
    BY <1>0, <1>3, <2>2, ClosedCalls DEF ReportInv
  <2>4. Recorded(r)'
    BY <1>4, <2>3 DEF Recorded
  <2>5. QED
    BY <2>1, <2>4 DEF ReportInv
<1>8. CASE ReadHistory(p)
  <2>1. turn'[p].run = r /\ turn'[p].pc = "projecting"
        /\ (turn'[p].st = "failed" \/ (Ends(r) # {} /\ turn'[p].st = EndStatus(r)))
    BY <1>0, <1>1, <1>3, <1>8, RecoveryFields DEF Projecting
  <2>2. r \in Runs
    BY <1>0, <1>3, <1>8 DEF ReadHistory
  <2>3. turn'[p].st = "completed" => Completed(r)
    BY <2>1, <2>2, EndIsCompleted DEF RecordInv
  <2>4. QED
    BY <1>4, <2>1, <2>3 DEF ReportInv
<1>9. CASE AssertTerminal(p)
  <2>1. turn'[p].pc = "admitting" /\ turn'[p].run = r /\ turn'[p].st = turn[p].st
    BY <1>0, <1>3, <1>9, RecoveryFields
  <2>2. turn[p].pc = "projecting"
    BY <1>9 DEF AssertTerminal
  <2>3. QED
    BY <1>0, <1>3, <1>4, <2>1, <2>2 DEF ReportInv
<1>10. CASE AdmitTerminal(p)
  <2>1. turn'[p].pc = "closing" /\ turn'[p].run = r /\ turn'[p].st = turn[p].st
    BY <1>0, <1>3, <1>10, RecoveryFields
  <2>2. turn[p].pc = "admitting" /\ CloseCalls(r) /\ r \in Runs
    BY <1>0, <1>3, <1>10 DEF AdmitTerminal
  <2>3. \A c \in Calls : life'[r][c] # "open"
    BY <1>0, <2>2, ClosedCalls
  <2>4. Completed(r) => Recorded(r)'
    BY <1>4, <2>3 DEF Recorded
  <2>5. QED
    BY <1>0, <1>3, <2>1, <2>2, <2>4 DEF ReportInv
<1>11. CASE CloseTerminal(p)
  <2>1. turn'[p].pc = "sending" /\ turn'[p].run = r /\ turn'[p].st = turn[p].st
    BY <1>0, <1>3, <1>11, RecoveryFields
  <2>2. turn[p].pc = "closing" /\ r \in Runs
    BY <1>0, <1>3, <1>11 DEF CloseTerminal
  <2>3. Recorded(r) => Recorded(r)'
    BY <2>2, RecordedStays
  <2>4. QED
    BY <1>0, <1>3, <2>1, <2>2, <2>3 DEF ReportInv
<1>12. CASE StartRejected(p) \/ RecoveryError(p)
  <2>1. turn'[p].pc = "projecting" /\ turn'[p].st = "failed"
    BY <1>0, <1>2, <1>12, LiveFields, RecoveryFields
  <2>2. QED
    BY <2>1 DEF ReportInv
<1>13. CASE \/ AdmitTurn(p) \/ CoreStarts(p) \/ CoreOutput(p)
            \/ BeginInvocation(p) \/ PublishCall(p) \/ DispatchCall(p) \/ RecordResult(p)
            \/ FinishInvocation(p) \/ FindOutput(p) \/ InjectOutput(p) \/ ResumeTurn(p)
            \/ \E c \in Calls : CoreCall(p, c) \/ RecoverCall(p, c)
  <2>1. turn'[p].pc \in {"admitted", "core", "recovering", "inject", "starting"} \cup InCall
    BY <1>0, <1>13, LiveFields, RecoveryFields DEF InCall
  <2>2. QED
    BY <1>1, <2>1 DEF InCall, Projecting
<1>14. CASE ProjectFinished(p) \/ ProjectFailure(p) \/ CoreAborts(p) \/ ReportTerminal(p)
            \/ GiveUpRecovery(p)
  BY <1>0, <1>2, <1>14, LiveFields, RecoveryFields
<1>15. CASE Crash(p) \/ RecoveryLoop(p) \/ \E q \in Runs : StartTurn(p, q)
  <2>1. CASE Crash(p) \/ HeartbeatRefused(p)
    BY <1>0, <1>2, <2>1 DEF Crash, HeartbeatRefused, Leave, Idle, IdleTurn
  <2>2. CASE ReportClosed(p) \/ \E q \in Runs : CloseExpired(p, q)
    BY <1>5, <2>2 DEF ReportClosed, CloseExpired
  <2>3. ASSUME NEW q \in Runs, StartTurn(p, q) \/ TakeOver(p, q) PROVE ReportInv(p)'
    <3>1. Claims(p, q)
      BY <1>0, <2>3 DEF StartTurn, TakeOver, Claims, IdleTurn, Healthy
    <3>2. QED
      BY <1>1, <3>1 DEF Claims, Projecting
  <2>4. QED
    BY <1>15, <2>1, <2>2, <2>3 DEF RecoveryLoop
<1>16. QED
  BY <1>6, <1>7, <1>8, <1>9, <1>10, <1>11, <1>12, <1>13, <1>14, <1>15
  DEF Acts, LiveTurn, Recovery

\* What a write of the history does: its process is the current one of its run
\* and was before its end.
LEMMA WriterStations ==
  ASSUME ClaimInv, NEW p \in Procs, WriteStep(p), NEW kind, NEW c, Writes(p, kind, c)
  PROVE  /\ turn[p].pc \notin Over /\ turn[p].pc # "idle" /\ turn[p].run \in Runs
         /\ kind = "start" => Preparing(p)
         /\ kind \in {"completed", "aborted"} => turn'[p].pc \in {"completing", "idle"}
         /\ kind = "call" => /\ turn[p].pc = "core" /\ p \notin sick
                             /\ turn'[p].pc = "begin" /\ turn'[p].mode = "core"
         /\ kind = "completed" => turn[p].pc = "core" /\ p \notin sick
PROOF
<1>0. /\ turn \in [Procs -> TurnType] /\ Carries(turn[p])
      /\ turn[p].pc # "idle" => turn[p].run \in Runs
  BY DEF ClaimInv, TypeOK, TurnInv
<1>1. Wrote(p, kind, c)
  BY WritesOne
<1>2. items' # items
  BY <1>1 DEF Wrote
<1>3. ASSUME NEW k \in Kinds, NEW d \in Calls \cup {None}, turn[p].pc # "idle",
             AppendItem(p, k, d)
      PROVE  k = kind
  <2>1. Wrote(p, k, d)
    BY <1>3, AppendWrites, WritesOne
  <2>2. QED
    BY <1>1, <2>1 DEF Wrote
<1>4. ASSUME NEW k \in Kinds, NEW d \in Calls \cup {None}, turn[p].pc # "idle",
             CoreAppends(p, k, d)
      PROVE  k = kind /\ p \notin sick
  <2>1. Healthy(p) /\ AppendItem(p, k, d)
    BY <1>2, <1>4 DEF CoreAppends
  <2>2. QED
    BY <1>3, <1>4, <2>1 DEF Healthy
<1>5. CASE CoreStarts(p)
  <2>1. turn[p].pc = "admitted" /\ CoreAppends(p, "start", None)
    BY <1>5 DEF CoreStarts
  <2>2. kind = "start"
    BY <1>4, <2>1 DEF Kinds
  <2>3. QED
    BY <1>0, <2>1, <2>2 DEF Over, Projecting, Preparing
<1>6. ASSUME NEW d \in Calls, CoreCall(p, d)
      PROVE  /\ turn[p].pc = "core" /\ kind = "call" /\ p \notin sick
             /\ turn'[p].pc = "begin" /\ turn'[p].mode = "core"
  <2>1. turn[p].pc = "core" /\ CoreAppends(p, "call", d) /\ turn[p].mode = "core"
    BY <1>0, <1>6 DEF CoreCall, Carries
  <2>2. kind = "call" /\ p \notin sick
    BY <1>4, <2>1 DEF Kinds
  <2>3. QED
    BY <1>0, <1>6, <2>1, <2>2, LiveFields
<1>7. CASE CoreOutput(p)
  <2>1. turn[p].pc \in InCall /\ CoreAppends(p, "out", turn[p].call) /\ turn[p].call \in Calls
    BY <1>0, <1>7 DEF CoreOutput, Carries
  <2>2. turn[p].pc # "idle" /\ turn[p].pc \notin Over
    BY <2>1 DEF InCall, Over, Projecting
  <2>3. kind = "out"
    BY <1>4, <2>1, <2>2 DEF Kinds
  <2>4. QED
    BY <1>0, <2>2, <2>3
<1>8. CASE CoreCompletes(p)
  <2>1. turn[p].pc = "core" /\ CoreAppends(p, "completed", None)
    BY <1>8 DEF CoreCompletes
  <2>2. kind = "completed" /\ p \notin sick
    BY <1>4, <2>1 DEF Kinds
  <2>3. turn'[p].pc = "completing"
    BY <1>0, <1>8, LiveFields
  <2>4. QED
    BY <1>0, <2>1, <2>2, <2>3 DEF Over, Projecting
<1>9. CASE CoreAborts(p)
  <2>1. turn[p].pc \in InCall \cup {"core"} /\ CoreAppends(p, "aborted", None)
    BY <1>9 DEF CoreAborts
  <2>2. turn[p].pc # "idle" /\ turn[p].pc \notin Over
    BY <2>1 DEF InCall, Over, Projecting
  <2>3. kind = "aborted"
    BY <1>4, <2>1, <2>2 DEF Kinds
  <2>4. turn'[p].pc = "idle"
    BY <1>0, <1>9, LiveFields
  <2>5. QED
    BY <1>0, <2>2, <2>3, <2>4
<1>10. CASE InjectOutput(p)
  <2>1. turn[p].pc = "inject" /\ AppendItem(p, "out", turn[p].call) /\ turn[p].call \in Calls
    BY <1>0, <1>10 DEF InjectOutput, Carries
  <2>2. kind = "out"
    BY <1>3, <2>1 DEF Kinds
  <2>3. QED
    BY <1>0, <2>1, <2>2 DEF Over, Projecting
<1>11. QED
  <2>1. CASE \E d \in Calls : CoreCall(p, d)
    BY <1>0, <1>6, <2>1 DEF Over, Projecting
  <2>2. QED
    BY <1>5, <1>7, <1>8, <1>9, <1>10, <2>1 DEF WriteStep

\* A turn that moves is moved by its own process.
LEMMA OwnMove ==
  ASSUME ClaimInv, [Next]_vars, NEW q \in Procs
  PROVE  turn'[q] = turn[q] \/ Acts(q)
  BY Movers, OneMoves

\* A write is a step of its process, and the run it writes to has no other
\* current process after it.
LEMMA WriteAlone ==
  ASSUME ClaimInv, [Next]_vars, NEW p \in Procs, WriteStep(p), Current(p),
         NEW q \in Procs, Current(q)', turn'[q].run = turn[p].run
  PROVE  q = p
PROOF
<1>1. SUFFICES ASSUME q # p PROVE FALSE
  OBVIOUS
<1>2. Acts(p)
  BY DEF WriteStep, Acts, LiveTurn, Recovery
<1>3. turn'[q] = turn[q]
  BY <1>1, <1>2, OneMoves
<1>4. Current(q)
  BY <1>3, StillCurrent
<1>5. QED
  BY <1>1, <1>3, <1>4, OneCurrent

\* A process that is current in a turn with a history has kept or moved within
\* its turn, or it has just taken it over.
LEMMA CurrentPaths ==
  ASSUME ClaimInv, [Next]_vars, NEW q \in Procs, Current(q)', NEW r \in Runs,
         turn'[q].run = r, Ends(r) # {} \/ CallsOf(r) # {}
  PROVE  \/ turn'[q].pc = "reading"
         \/ /\ Current(q) /\ turn[q].run = r
            /\ \/ /\ turn[q].pc \in Over => turn'[q].pc \in Over
                  /\ Preparing(q)' => Preparing(q)
               \/ ~Superseded(r) /\ Ends(r) = {}
PROOF
<1>1. CASE turn'[q] = turn[q]
  <2>1. Preparing(q)' <=> Preparing(q)
    BY <1>1 DEF Preparing
  <2>2. QED
    BY <1>1, <2>1, StillCurrent
<1>2. ASSUME NEW x \in Runs, Claims(q, x) PROVE turn'[q].pc = "reading"
  <2>1. x = r /\ turn'[q].pc \in {"starting", "reading"}
        /\ (turn'[q].pc = "starting" => gw[r].pc = "posting")
    BY <1>2 DEF Claims
  <2>2. gw[r].pc = "posting" => own[r].fence = 0
    BY DEF ClaimInv, RunInv
  <2>3. own[r].fence # 0
    BY NoHistory
  <2>4. QED
    BY <2>1, <2>2, <2>3
<1>3. CASE Acts(q) /\ ~\E x \in Runs : Claims(q, x)
  <2>1. turn'[q].pc # "idle"
    BY DEF Current
  <2>2. /\ turn[q].pc # "idle" /\ turn'[q].run = turn[q].run
        /\ \/ /\ turn[q].pc \in Over => turn'[q].pc \in Over
              /\ Preparing(q)' => Preparing(q)
           \/ ~Superseded(turn[q].run) /\ Ends(turn[q].run) = {}
    BY <1>3, <2>1, Paths
  <2>3. Current(q)
    BY <1>3, <2>2, MoverCurrent
  <2>4. QED
    BY <2>2, <2>3
<1>4. QED
  BY <1>1, <1>2, <1>3, OwnMove

\* After its end a turn is only reported: a process that takes it over reads
\* the end.
LEMMA EndStays ==
  ASSUME ClaimInv, RecordInv, [Next]_vars, NEW r \in Runs
  PROVE  EndInv(r)'
PROOF
<1>1. SUFFICES ASSUME Ends(r)' # {}, NEW q \in Procs, Current(q)', turn'[q].run = r
               PROVE  turn'[q].pc \in Over
  BY DEF EndInv
<1>2. CASE Ends(r) # {}
  <2>1. Current(q) /\ turn[q].run = r => turn[q].pc \in Over
    BY <1>2 DEF RecordInv, EndInv
  <2>2. "reading" \in Over
    BY DEF Over
  <2>3. QED
    BY <1>1, <1>2, <2>1, <2>2, CurrentPaths
<1>3. CASE Ends(r) = {}
  <2>1. items' # items
    BY <1>1, <1>3, HistoryStays DEF SameHistory
  <2>2. PICK p \in Procs : WriteStep(p)
    BY <2>1, HistorySteps
  <2>3. PICK kind, c : Writes(p, kind, c)
    BY <2>2 DEF WriteStep
  <2>4. Wrote(p, kind, c) /\ Current(p)
    BY <2>3, WritesOne DEF Writes
  <2>5. kind \in {"completed", "aborted"} /\ r = turn[p].run
    BY <1>1, <1>3, <2>4, HistoryGrows
  <2>6. turn'[p].pc \in {"completing", "idle"}
    BY <2>2, <2>3, <2>5, WriterStations
  <2>7. q = p
    BY <1>1, <2>2, <2>4, <2>5, WriteAlone
  <2>8. turn'[q].pc # "idle"
    BY <1>1 DEF Current
  <2>9. QED
    BY <2>6, <2>7, <2>8 DEF Over
<1>4. QED
  BY <1>2, <1>3

\* A call that goes astray belongs to a turn that is superseded, and such a
\* turn is never started again.
LEMMA StrayStays ==
  ASSUME ClaimInv, RecordInv, [Next]_vars, NEW r \in Runs
  PROVE  StrayInv(r)'
PROOF
<1>0. LastInv /\ StrayInv(r) /\ \A p \in Procs : LiveInv(p)
  BY DEF RecordInv
<1>1. SUFFICES ASSUME \E i \in CallsOf(r)' : Astray(i)'
               PROVE  /\ Superseded(r)'
                      /\ \A q \in Procs : Current(q)' /\ turn'[q].run = r => ~Preparing(q)'
  BY DEF StrayInv
<1>2. CASE \E i \in CallsOf(r) : Astray(i)
  <2>1. /\ Superseded(r) /\ CallsOf(r) # {}
        /\ \A p \in Procs : Current(p) /\ turn[p].run = r => ~Preparing(p)
    BY <1>0, <1>2 DEF StrayInv
  <2>2. Superseded(r)'
    <3>1. CASE items' = items
      BY <2>1, <3>1, HistoryStays DEF SameHistory
    <3>2. ASSUME NEW p \in Procs, WriteStep(p) PROVE Superseded(r)'
      <4>1. PICK kind, c : Writes(p, kind, c)
        BY <3>2 DEF WriteStep
      <4>2. Wrote(p, kind, c) /\ Current(p)
        BY <4>1, WritesOne DEF Writes
      <4>3. kind = "start" => Preparing(p)
        BY <3>2, <4>1, WriterStations
      <4>4. ~(kind = "start" /\ r = turn[p].run)
        BY <2>1, <4>2, <4>3
      <4>5. QED
        BY <2>1, <4>2, <4>4, StrayGrows
    <3>3. QED
      BY <3>1, <3>2, HistorySteps
  <2>3. ASSUME NEW q \in Procs, Current(q)', turn'[q].run = r PROVE ~Preparing(q)'
    <3>1. \/ turn'[q].pc = "reading"
          \/ Current(q) /\ turn[q].run = r /\ (Preparing(q)' => Preparing(q))
      BY <2>1, <2>3, CurrentPaths
    <3>2. CASE turn'[q].pc = "reading"
      BY <3>2 DEF Preparing, InCall
    <3>3. QED
      BY <2>1, <3>1, <3>2
  <2>4. QED
    BY <2>2, <2>3
<1>3. CASE ~\E i \in CallsOf(r) : Astray(i)
  <2>1. PICK i \in CallsOf(r)' : Astray(i)'
    BY <1>1
  <2>2. items' # items
    BY <1>3, <2>1, HistoryStays DEF SameHistory
  <2>3. PICK p \in Procs : WriteStep(p)
    BY <2>2, HistorySteps
  <2>4. PICK kind, c : Writes(p, kind, c)
    BY <2>3 DEF WriteStep
  <2>5. Wrote(p, kind, c) /\ Current(p)
    BY <2>4, WritesOne DEF Writes
  <2>6. PICK n : n = Len(items)
    OBVIOUS
  <2>7. i \notin CallsOf(r)
    BY <1>3, <2>1, <2>5, <2>6, StrayGrows
  <2>8. i = n + 1 /\ kind = "call" /\ r = turn[p].run
    BY <2>1, <2>5, <2>6, <2>7, HistoryGrows
  <2>9. /\ turn[p].pc = "core" /\ p \notin sick
        /\ turn'[p].pc = "begin" /\ turn'[p].mode = "core"
    BY <2>3, <2>4, <2>8, WriterStations
  <2>10. Starts(r) # {}
    BY <1>0, <2>5, <2>8, <2>9 DEF LiveInv, Preparing, Over, Projecting, InCall
  <2>11. Superseded(r)'
    BY <1>0, <2>1, <2>5, <2>6, <2>8, <2>10, StrayGrows
  <2>12. ASSUME NEW q \in Procs, Current(q)', turn'[q].run = r PROVE ~Preparing(q)'
    <3>1. q = p
      BY <2>3, <2>5, <2>8, <2>12, WriteAlone
    <3>2. QED
      BY <2>9, <3>1 DEF Preparing
  <2>13. QED
    BY <2>11, <2>12
<1>4. QED
  BY <1>2, <1>3

\* A completed turn has every call answered: Core writes its end when it is
\* healthy and owes no output, and nothing but its report follows.
LEMMA WholeStays ==
  ASSUME ClaimInv, RecordInv, [Next]_vars, NEW r \in Runs
  PROVE  WholeInv(r)'
PROOF
<1>0. WholeInv(r) /\ EndInv(r) /\ \A p \in Procs : LiveInv(p)
  BY DEF RecordInv
<1>1. SUFFICES ASSUME Completed(r)' PROVE Unanswered(r)' = {}
  BY DEF WholeInv
<1>2. CASE items' = items
  BY <1>0, <1>1, <1>2, HistoryStays DEF SameHistory, WholeInv
<1>3. ASSUME NEW p \in Procs, WriteStep(p) PROVE Unanswered(r)' = {}
  <2>1. PICK kind, c : Writes(p, kind, c)
    BY <1>3 DEF WriteStep
  <2>2. Wrote(p, kind, c) /\ Current(p)
    BY <2>1, WritesOne DEF Writes
  <2>3. /\ turn[p].pc \notin Over
        /\ kind = "completed" => turn[p].pc = "core" /\ p \notin sick
    BY <1>3, <2>1, WriterStations
  <2>4. CASE Completed(r)
    <3>1. turn[p].run # r
      BY <1>0, <2>2, <2>3, <2>4, CompletedEnds DEF EndInv
    <3>2. QED
      BY <1>0, <2>2, <2>4, <3>1, UnansweredGrows DEF WholeInv
  <2>5. CASE ~Completed(r)
    <3>1. kind = "completed" /\ r = turn[p].run
      BY <1>1, <2>2, <2>5, HistoryGrows
    <3>2. Unanswered(r) = {}
      BY <1>0, <2>2, <2>3, <3>1 DEF LiveInv, Due, InCall
    <3>3. QED
      BY <2>2, <3>1, <3>2, UnansweredGrows
  <2>6. QED
    BY <2>4, <2>5
<1>4. QED
  BY <1>2, <1>3, HistorySteps

\* run_finished is sent by a healthy process that has admitted its end.
LEMMA EventSteps ==
  ASSUME ClaimInv, [Next]_vars, NEW r \in Runs, "succeeded" \in events'[r]
  PROVE  \/ "succeeded" \in events[r]
         \/ \E p \in Procs : turn[p].pc = "finished" /\ p \notin sick /\ turn[p].run = r
PROOF
<1>0. /\ Types
      /\ \A p \in Procs : turn[p].st # "succeeded"
      /\ \A p \in Procs : turn[p].pc # "idle" => turn[p].run \in Runs
  BY ClaimParts, NoneIsNew DEF TurnsOK, TurnInv, Types, TurnType
<1>1. ASSUME NEW q \in Runs, NEW st, SendTerminal(q, st)
      PROVE  "succeeded" \in events[r] \/ (q = r /\ st = "succeeded")
  BY <1>0, <1>1 DEF SendTerminal, Types
<1>2. ASSUME NEW p \in Procs, Acts(p)
      PROVE  \/ "succeeded" \in events[r]
             \/ turn[p].pc = "finished" /\ p \notin sick /\ turn[p].run = r
  <2>1. CASE ProjectFinished(p)
    <3>1. /\ turn[p].pc = "finished" /\ p \notin sick
          /\ SendTerminal(turn[p].run, "succeeded")
      BY <2>1 DEF ProjectFinished, Healthy
    <3>2. QED
      BY <1>0, <1>1, <3>1
  <2>2. CASE ProjectFailure(p)
    BY <1>0, <1>1, <2>2 DEF ProjectFailure
  <2>3. CASE ReportTerminal(p)
    BY <1>0, <1>1, <2>3 DEF ReportTerminal
  <2>4. CASE ReportClosed(p)
    <3>1. closing[p] \in Runs
      BY <1>0, <2>4 DEF ReportClosed, Types
    <3>2. QED
      BY <1>1, <2>4, <3>1 DEF ReportClosed
  <2>5. CASE ~(ProjectFinished(p) \/ ProjectFailure(p) \/ ReportTerminal(p)
               \/ ReportClosed(p))
    BY <1>2, <2>5
    DEF Acts, LiveTurn, AdmitTurn, StartRejected, CoreStarts, CoreCall, BeginInvocation,
      PublishCall, DispatchCall, RecordResult, FinishInvocation, CoreOutput, CoreCompletes,
      CoreAborts, AdmitCompleted, Recovery, ReadHistory, RecoverCall, FindOutput,
      InjectOutput, ResumeTurn, RecoveryError, AssertTerminal, AdmitTerminal, CloseTerminal,
      GiveUpRecovery, Crash, RecoveryLoop, HeartbeatRefused, Leave, CloseExpired, TakeOver,
      StartTurn, store
  <2>6. QED
    BY <2>1, <2>2, <2>3, <2>4, <2>5
<1>3. ASSUME NEW q \in Runs,
             Gateway(q) \/ InterruptTurn(q) \/ OwnerLeaseExpires(q) \/ AuthorityEnds(q)
      PROVE  "succeeded" \in events[r]
  <2>1. CASE InterruptTurn(q)
    BY <1>1, <2>1 DEF InterruptTurn
  <2>2. CASE ~InterruptTurn(q)
    BY <1>3, <2>2 DEF Gateway, IssueTurn, StartRefused, SeeTerminal, RevokeLease, CloseRun,
                OwnerLeaseExpires, AuthorityEnds, store
  <2>3. QED
    BY <2>1, <2>2
<1>4. QED
  BY <1>2, <1>3 DEF Next, vars, Acts

\* The Gateway takes a success from the terminal event alone.
LEMMA GatewaySteps ==
  ASSUME ClaimInv, [Next]_vars, NEW r \in Runs, gw'[r].st = "succeeded"
  PROVE  gw[r].st = "succeeded" \/ "succeeded" \in events[r]
PROOF
<1>0. Types
  BY ClaimParts DEF TurnsOK
<1>1. ASSUME NEW p \in Procs, Acts(p)
      PROVE  gw'[r].st = gw[r].st \/ gw'[r].st = "failed"
  <2>1. CASE \E q \in Runs : StartTurn(p, q)
    BY <1>0, <2>1 DEF StartTurn, Types
  <2>2. CASE StartRejected(p)
    BY <1>0, <2>2 DEF StartRejected, Types
  <2>3. CASE ~StartRejected(p) /\ ~\E q \in Runs : StartTurn(p, q)
    BY <1>1, <2>3
    DEF Acts, LiveTurn, AdmitTurn, CoreStarts, CoreCall, BeginInvocation,
      PublishCall, DispatchCall, RecordResult, FinishInvocation, CoreOutput, CoreCompletes,
      CoreAborts, AdmitCompleted, ProjectFinished, ProjectFailure, Recovery, ReadHistory,
      RecoverCall, FindOutput, InjectOutput, ResumeTurn, RecoveryError, AssertTerminal,
      AdmitTerminal, CloseTerminal, ReportTerminal, GiveUpRecovery, Crash, RecoveryLoop,
      HeartbeatRefused, Leave, ReportClosed, CloseExpired, TakeOver, store
  <2>4. QED
    BY <2>1, <2>2, <2>3
<1>2. ASSUME NEW q \in Runs, SeeTerminal(q)
      PROVE  gw[r].st = "succeeded" \/ "succeeded" \in events[r]
  <2>1. PICK st \in events[q] :
          gw' = [gw EXCEPT ![q] = [pc |-> "asked", st |-> CompletedAs(st)]]
    BY <1>2 DEF SeeTerminal
  <2>2. q = r => gw'[r].st = CompletedAs(st)
    BY <1>0, <2>1 DEF Types
  <2>3. q # r => gw'[r] = gw[r]
    BY <1>0, <2>1 DEF Types
  <2>4. QED
    BY <2>1, <2>2, <2>3 DEF CompletedAs
<1>3. ASSUME NEW q \in Runs, ~SeeTerminal(q),
             Gateway(q) \/ InterruptTurn(q) \/ OwnerLeaseExpires(q) \/ AuthorityEnds(q)
      PROVE  gw'[r].st = gw[r].st \/ gw'[r].st = "failed"
  BY <1>0, <1>3 DEF Gateway, IssueTurn, StartRefused, RevokeLease, CloseRun, InterruptTurn,
              OwnerLeaseExpires, AuthorityEnds, Types
<1>4. QED
  BY <1>1, <1>2, <1>3 DEF Next, vars, Acts

\* A run becomes successful by the Gateway's closing or by a recovery that
\* projects its end.
LEMMA SuccessSteps ==
  ASSUME ClaimInv, [Next]_vars, NEW r \in Runs, run'[r] \in {"succeeded", "completed"}
  PROVE  \/ run[r] \in {"succeeded", "completed"}
         \/ gw[r].st = "succeeded"
         \/ \E p \in Procs : turn[p].pc = "closing" /\ turn[p].run = r
                             /\ turn[p].st = "completed"
PROOF
<1>0. /\ Types
      /\ \A p \in Procs : turn[p].st # "succeeded"
      /\ \A p \in Procs : turn[p].pc # "idle" => turn[p].run \in Runs
      /\ gw[r].st # "completed"
  BY ClaimParts, NoneIsNew DEF TurnsOK, TurnInv, Types, TurnType
<1>1. ASSUME NEW p \in Procs, CloseTerminal(p)
      PROVE  \/ run[r] \in {"succeeded", "completed"}
             \/ turn[p].pc = "closing" /\ turn[p].run = r /\ turn[p].st = "completed"
  BY <1>0, <1>1 DEF CloseTerminal, Types
<1>2. ASSUME NEW p \in Procs, Acts(p), ~CloseTerminal(p)
      PROVE  run'[r] = run[r] \/ run'[r] = "failed"
  <2>1. CASE \E q \in Runs : CloseExpired(p, q)
    BY <1>0, <2>1 DEF CloseExpired, Types
  <2>2. CASE ~\E q \in Runs : CloseExpired(p, q)
    BY <1>2, <2>2
    DEF Acts, LiveTurn, AdmitTurn, StartRejected, CoreStarts, CoreCall, BeginInvocation,
      PublishCall, DispatchCall, RecordResult, FinishInvocation, CoreOutput, CoreCompletes,
      CoreAborts, AdmitCompleted, ProjectFinished, ProjectFailure, Recovery, ReadHistory,
      RecoverCall, FindOutput, InjectOutput, ResumeTurn, RecoveryError, AssertTerminal,
      AdmitTerminal, ReportTerminal, GiveUpRecovery, Crash, RecoveryLoop, HeartbeatRefused,
      Leave, ReportClosed, TakeOver, StartTurn, store
  <2>3. QED
    BY <2>1, <2>2
<1>3. ASSUME NEW q \in Runs, CloseRun(q)
      PROVE  run[r] \in {"succeeded", "completed"} \/ gw[r].st = "succeeded"
  BY <1>0, <1>3 DEF CloseRun, Types
<1>4. ASSUME NEW q \in Runs, ~CloseRun(q),
             Gateway(q) \/ InterruptTurn(q) \/ OwnerLeaseExpires(q) \/ AuthorityEnds(q)
      PROVE  run'[r] = run[r] \/ run'[r] \in {"running", "cancelled"}
  BY <1>0, <1>4 DEF Gateway, IssueTurn, StartRefused, SeeTerminal, RevokeLease,
              InterruptTurn, OwnerLeaseExpires, AuthorityEnds, Types, store
<1>5. QED
  BY <1>1, <1>2, <1>3, <1>4 DEF Next, vars, Acts

\* Nobody says success of a turn that is not recorded.
LEMMA StatusStays ==
  ASSUME ClaimInv, RecordInv, [Next]_vars, NEW r \in Runs
  PROVE  StatusInv(r)'
PROOF
<1>0. StatusInv(r) /\ \A p \in Procs : ReportInv(p)
  BY DEF RecordInv
<1>1. SUFFICES ASSUME \/ "succeeded" \in events'[r]
                      \/ gw'[r].st = "succeeded"
                      \/ run'[r] \in {"succeeded", "completed"}
               PROVE  Recorded(r)'
  BY DEF StatusInv
<1>2. Recorded(r)
  <2>1. CASE "succeeded" \in events'[r]
    BY <1>0, <2>1, EventSteps DEF StatusInv, ReportInv
  <2>2. CASE gw'[r].st = "succeeded"
    BY <1>0, <2>2, GatewaySteps DEF StatusInv
  <2>3. CASE run'[r] \in {"succeeded", "completed"}
    BY <1>0, <2>3, SuccessSteps DEF StatusInv, ReportInv
  <2>4. QED
    BY <1>1, <2>1, <2>2, <2>3
<1>3. QED
  BY <1>2, RecordedStays

\* The history has a last start and a last end.
LEMMA LastStays ==
  ASSUME ClaimInv, LastInv, [Next]_vars
  PROVE  LastInv'
PROOF
<1>1. CASE items' = items
  BY <1>1, HistoryStays
<1>2. ASSUME NEW p \in Procs, WriteStep(p) PROVE LastInv'
  <2>1. PICK kind, c : Writes(p, kind, c)
    BY <1>2 DEF WriteStep
  <2>2. Wrote(p, kind, c)
    BY <2>1, WritesOne
  <2>3. QED
    BY <2>2, LastGrows
<1>3. QED
  BY <1>1, <1>2, HistorySteps

\* The invariant of the record holds initially.
LEMMA RecordInit == Init => RecordInv
PROOF
<1> SUFFICES ASSUME Init PROVE RecordInv
  OBVIOUS
<1>1. \A k : Positions(k) = {}
  BY DEF Init, Positions
<1>2. \A r : Starts(r) = {} /\ Ends(r) = {} /\ CallsOf(r) = {} /\ ~Completed(r)
  BY <1>1 DEF Starts, Ends, CallsOf, Completed
<1>3. LastInv
  BY <1>1, <1>2 DEF LastInv
<1>4. ASSUME NEW p \in Procs PROVE LiveInv(p) /\ ReportInv(p)
  <2>1. turn[p].pc = "idle"
    BY DEF Init, IdleTurn
  <2>2. QED
    BY <2>1 DEF LiveInv, ReportInv, Current
<1>5. ASSUME NEW r \in Runs PROVE StrayInv(r) /\ EndInv(r) /\ WholeInv(r) /\ StatusInv(r)
  <2>1. events[r] = {} /\ gw[r].st = None /\ run[r] = "absent"
    BY DEF Init, NoRequest
  <2>2. StatusInv(r)
    BY <2>1, NoneIsNew DEF StatusInv
  <2>3. QED
    BY <1>2, <2>2 DEF StrayInv, EndInv, WholeInv
<1>6. QED
  BY <1>3, <1>4, <1>5 DEF RecordInv

\* Every step keeps the invariant of the record.
LEMMA RecordStep ==
  ASSUME ClaimInv, RecordInv, [Next]_vars
  PROVE  RecordInv'
PROOF
<1>1. LastInv'
  BY LastStays DEF RecordInv
<1>2. ASSUME NEW p \in Procs PROVE LiveInv(p)' /\ ReportInv(p)'
  BY OwnMove, RecordBystander, LiveMover, ReportMover
<1>3. ASSUME NEW r \in Runs
      PROVE  StrayInv(r)' /\ EndInv(r)' /\ WholeInv(r)' /\ StatusInv(r)'
  BY StrayStays, EndStays, WholeStays, StatusStays
<1>4. QED
  BY <1>1, <1>2, <1>3 DEF RecordInv

\* The record is kept in every reachable state.
LEMMA RecordHolds == Spec => [](ClaimInv /\ RecordInv)
PROOF
<1>1. Init => RecordInv
  BY RecordInit
<1>2. ClaimInv /\ RecordInv /\ [Next]_vars => RecordInv'
  BY RecordStep
<1>3. QED
  BY <1>1, <1>2, ClaimHolds, PTL DEF Spec

\* A run that counts as successful has its completed end and an output for
\* each of its calls in the durable history, and no call left open, however
\* claims, takeovers, failed appends and the Gateway's closing interleave
\* (check_write_health, admit_turn_terminal, recover_claim).
THEOREM RecordedSuccess == Spec => []SuccessIsRecorded
PROOF
<1>1. ClaimInv /\ RecordInv => SuccessIsRecorded
  <2>1. SUFFICES ASSUME RecordInv, NEW r \in Runs, run[r] \in {"succeeded", "completed"}
                 PROVE  /\ \E i \in Ends(r) : items[i].kind = "completed"
                        /\ \A i \in Positions("call") : items[i].r = r =>
                             \E j \in Positions("out") : items[j].c = items[i].c
                        /\ \A c \in Calls : life[r][c] # "open"
    BY DEF SuccessIsRecorded
  <2>2. Recorded(r) /\ Completed(r) /\ Unanswered(r) = {}
    BY <2>1 DEF RecordInv, StatusInv, WholeInv, Recorded
  <2>3. \E i \in Ends(r) : items[i].kind = "completed"
    BY <2>2 DEF Completed, Ends, Positions
  <2>4. ASSUME NEW i \in Positions("call"), items[i].r = r
        PROVE  \E j \in Positions("out") : items[j].c = items[i].c
    BY <2>2, <2>4 DEF Unanswered, CallsOf, Answered
  <2>5. QED
    BY <2>2, <2>3, <2>4 DEF Recorded
<1>2. QED
  BY <1>1, RecordHolds, PTL

=============================================================================
