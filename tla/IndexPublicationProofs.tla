----------------------- MODULE IndexPublicationProofs -----------------------
(***************************************************************************)
(* Index publication for every set of documents and every number of        *)
(* requests, crashes and failed calls: its types, the publication lock,    *)
(* and the refinement of the read fence.  IndexContentProofs goes on with  *)
(* what Qdrant holds of a document.                                        *)
(***************************************************************************)
EXTENDS IndexPublication, TLAPS

-----------------------------------------------------------------------------
(* The inductive invariant: types and the lock.                            *)

\* Where a publisher holds the lock behind the fence.
TextHolding == {"leased", "backing", "backed", "half", "written", "restore", "abort"}
SpecialHolding == {"freezing", "prepared", "upserted", "rows", "finish",
                   "finishing", "undo", "undoing", "resume"}
Holding == TextHolding \union SpecialHolding
Waiting == {"idle", "claimed", "run", "pinned", "aborting", "failed", "done"}
PCs == Holding \union Waiting \union {"committed"}

Jobs == [pc : PCs, d : Docs \union {None}, g : Nat, recovered : BOOLEAN,
         why : {"none", "busy", "unbound"} \union Whys]
Backups == [at : Nat, full : BOOLEAN, gens : SUBSET (Nat \union {Hole})]

Generations(d) == 0..Len(exec[d]) \union {Hole}

Types ==
  /\ rev \in Int
  /\ doc \in [Docs -> [st : {"waiting", "completed", "error"} \union InFlight,
                       link : Nat, mark : Nat, pg : Nat]]
  /\ exec \in [Docs -> Seq(Executions)]
  /\ points \in [Docs -> SUBSET (Nat \union {Hole})]
  /\ backup \in [Docs -> Backups]
  /\ job \in [Actors -> Jobs]
  /\ exposed \subseteq Docs

\* What is named exists; only special documents are marked.
Names ==
  \A d \in Docs :
    /\ doc[d].link <= Len(exec[d]) /\ doc[d].mark <= Len(exec[d])
    /\ doc[d].pg <= Len(exec[d])
    /\ points[d] \subseteq Generations(d)
    /\ backup[d].gens \subseteq Generations(d)
    /\ d \in TextDocs => doc[d].mark = 0

\* A consumer works for its document, the recovery loop for a special one; and
\* past the claim on an execution that exists.
JobInv ==
  /\ \A d \in Docs : job[d].d = d
  /\ job[Rec].pc # "idle" => job[Rec].d \in SpecialDocs
  /\ \A a \in Actors :
       job[a].pc \notin {"idle", "claimed", "failed"} =>
         job[a].g \in 1..Len(exec[job[a].d])
  /\ \A a \in Actors :
       /\ job[a].pc \in TextHolding \union {"committed"} => a \in TextDocs
       /\ job[a].pc \in SpecialHolding \union {"pinned", "aborting"} => a \notin TextDocs

\* The holder of the lock is behind the fence, but for a text publication
\* whose commit lost its answer.
LockInv ==
  /\ lock \in Actors \union {None}
  /\ \A a \in Actors :
       /\ lock = a <=> job[a].pc \in Holding \union {"committed"}
       /\ job[a].pc \in Holding /\ rev >= 0 =>
            job[a].pc \in {"restore", "abort"} /\ a \in LossyDocs \cap TextDocs
       /\ job[a].pc = "committed" => rev >= 0

BaseInv == Types /\ Names /\ JobInv /\ LockInv

-----------------------------------------------------------------------------
(* Executions.                                                             *)

\* A new execution.
LEMMA NewExecution == NewExec \in Executions
  BY DEF NewExec, Executions, Unfinished

\* Writing one execution of a document.
LEMMA EditOne ==
  ASSUME NEW s \in Seq(Executions), NEW n \in 1..Len(s), NEW e \in Executions
  PROVE  /\ [s EXCEPT ![n] = e] \in Seq(Executions)
         /\ Len([s EXCEPT ![n] = e]) = Len(s)
         /\ DOMAIN [s EXCEPT ![n] = e] = DOMAIN s
  OBVIOUS

\* Appending one.
LEMMA AddOne ==
  ASSUME NEW s \in Seq(Executions)
  PROVE  /\ Append(s, NewExec) \in Seq(Executions)
         /\ Len(Append(s, NewExec)) = Len(s) + 1
         /\ DOMAIN Append(s, NewExec) = 1..(Len(s) + 1)
         /\ \A n \in 1..Len(s) : Append(s, NewExec)[n] = s[n]
         /\ Append(s, NewExec)[Len(s) + 1] = NewExec
  BY NewExecution

\* The executions of one document become a longer sequence.
LEMMA ExecFrame ==
  ASSUME Types, NEW d \in Docs, NEW s \in Seq(Executions), Len(s) >= Len(exec[d]),
         exec' = [exec EXCEPT ![d] = s]
  PROVE  /\ exec' \in [Docs -> Seq(Executions)]
         /\ \A e \in Docs : Len(exec'[e]) >= Len(exec[e])
         /\ exec'[d] = s /\ \A e \in Docs : e # d => exec'[e] = exec[e]
PROOF
<1>1. exec \in [Docs -> Seq(Executions)]
  BY DEF Types
<1>2. \A e \in Docs : exec[e] \in Seq(Executions) /\ Len(exec[e]) \in Nat
  BY <1>1
<1>3. QED
  BY <1>1, <1>2

\* Every list of executions has a length.
LEMMA Lengths == Types => \A d \in Docs : exec[d] \in Seq(Executions) /\ Len(exec[d]) \in Nat
                                          /\ DOMAIN exec[d] = 1..Len(exec[d])
PROOF
<1> SUFFICES ASSUME Types, NEW d \in Docs
             PROVE  exec[d] \in Seq(Executions) /\ Len(exec[d]) \in Nat
                    /\ DOMAIN exec[d] = 1..Len(exec[d])
  OBVIOUS
<1>1. exec[d] \in Seq(Executions)
  BY DEF Types
<1>2. QED
  BY <1>1

\* One execution of a document gets new fields.
LEMMA ExecEdit ==
  ASSUME Types, NEW d \in Docs, NEW n \in 1..Len(exec[d]), NEW e \in Executions,
         exec' = [exec EXCEPT ![d][n] = e]
  PROVE  /\ exec' \in [Docs -> Seq(Executions)]
         /\ \A c \in Docs : Len(exec'[c]) = Len(exec[c]) /\ DOMAIN exec'[c] = DOMAIN exec[c]
         /\ exec'[d][n] = e
         /\ \A m \in 1..Len(exec[d]) : m # n => exec'[d][m] = exec[d][m]
         /\ \A c \in Docs : c # d => exec'[c] = exec[c]
PROOF
<1>1. exec \in [Docs -> Seq(Executions)] /\ exec[d] \in Seq(Executions)
  BY DEF Types
<1>2. exec' = [exec EXCEPT ![d] = [exec[d] EXCEPT ![n] = e]]
  OBVIOUS
<1>3. /\ [exec[d] EXCEPT ![n] = e] \in Seq(Executions)
      /\ Len([exec[d] EXCEPT ![n] = e]) = Len(exec[d])
      /\ DOMAIN [exec[d] EXCEPT ![n] = e] = DOMAIN exec[d]
  BY <1>1, EditOne
<1>4. /\ [exec[d] EXCEPT ![n] = e][n] = e
      /\ \A m \in 1..Len(exec[d]) : m # n => [exec[d] EXCEPT ![n] = e][m] = exec[d][m]
  BY <1>1
<1>5. exec'[d] = [exec[d] EXCEPT ![n] = e] /\ \A c \in Docs : c # d => exec'[c] = exec[c]
  BY <1>1, <1>2
<1>6. exec' \in [Docs -> Seq(Executions)]
  BY <1>1, <1>2, <1>3
<1>7. QED
  BY <1>3, <1>4, <1>5, <1>6

-----------------------------------------------------------------------------
(* Steps of one actor.                                                     *)

Locking == Holding \union {"committed"}

\* A job record that an actor may have.
Sound(a, new) ==
  /\ new \in Jobs
  /\ a \in Docs => new.d = a
  /\ a = Rec /\ new.pc # "idle" => new.d \in SpecialDocs
  /\ new.pc \in TextHolding \union {"committed"} => a \in TextDocs
  /\ new.pc \in SpecialHolding \union {"pinned", "aborting"} => a \notin TextDocs

\* An actor gets a new job record.
LEMMA JobStep ==
  ASSUME BaseInv, NEW a \in Actors, NEW new, Sound(a, new),
         job' = [job EXCEPT ![a] = new],
         \A d \in Docs : Len(exec'[d]) \in Nat /\ Len(exec'[d]) >= Len(exec[d]),
         new.pc \notin {"idle", "claimed", "failed"} => new.g \in 1..Len(exec'[new.d])
  PROVE  JobInv' /\ job' \in [Actors -> Jobs]
PROOF
<1>1. job \in [Actors -> Jobs] /\ JobInv
  BY DEF BaseInv, Types
<1>2. job' \in [Actors -> Jobs] /\ job'[a] = new /\ \A b \in Actors : b # a => job'[b] = job[b]
  BY <1>1 DEF Sound
<1>3. Docs \subseteq Actors /\ Rec \in Actors /\ SpecialDocs \subseteq Docs /\ Rec \notin Docs
  BY PublicationAssumption DEF Actors, Docs, Rec
<1>4. \A d \in Docs : job'[d].d = d
  BY <1>1, <1>2, <1>3 DEF JobInv, Sound
<1>5. job'[Rec].pc # "idle" => job'[Rec].d \in SpecialDocs
  BY <1>1, <1>2, <1>3 DEF JobInv, Sound
<1>6. ASSUME NEW b \in Actors, job'[b].pc \notin {"idle", "claimed", "failed"}
      PROVE  job'[b].g \in 1..Len(exec'[job'[b].d])
  <2>1. CASE b = a
    BY <1>2, <1>6, <2>1
  <2>2. CASE b # a
    <3>1. job[b].d \in Docs
      BY <1>1, <1>2, <1>3, <1>6, <2>2 DEF JobInv, Actors
    <3>2. job[b].g \in 1..Len(exec[job[b].d])
      BY <1>1, <1>2, <1>6, <2>2 DEF JobInv
    <3>3. Len(exec[job[b].d]) \in Nat
      BY <3>1, Lengths DEF BaseInv
    <3>4. QED
      BY <1>2, <2>2, <3>1, <3>2, <3>3
  <2>3. QED
    BY <2>1, <2>2
<1>7. \A b \in Actors :
        /\ job'[b].pc \in TextHolding \union {"committed"} => b \in TextDocs
        /\ job'[b].pc \in SpecialHolding \union {"pinned", "aborting"} => b \notin TextDocs
  BY <1>1, <1>2 DEF JobInv, Sound
<1>8. QED
  BY <1>2, <1>4, <1>5, <1>6, <1>7 DEF JobInv

\* The four ways in which a step may treat the lock: not at all, take it with
\* the fence, drop it, or hold it on.
LockMove(a, pc) ==
  \/ lock' = lock /\ rev' = rev /\ job[a].pc \notin Locking /\ pc \notin Locking
  \/ lock = None /\ lock' = a /\ rev' < 0 /\ pc \in Holding
  \/ job[a].pc \in Locking /\ lock' = None /\ pc \notin Locking
  \/ /\ job[a].pc \in Locking /\ lock' = lock /\ pc \in Locking
     /\ pc \in Holding /\ rev' >= 0 =>
          pc \in {"restore", "abort"} /\ a \in LossyDocs \cap TextDocs
     /\ pc = "committed" => rev' >= 0

\* Each of them keeps the lock with its holder.
LEMMA LockStep ==
  ASSUME BaseInv, NEW a \in Actors, NEW new, rev' \in Int, new.pc \in PCs,
         job' = [job EXCEPT ![a] = new],
         LockMove(a, new.pc)
  PROVE  LockInv'
PROOF
<1>1. job \in [Actors -> Jobs] /\ LockInv /\ rev \in Int
  BY DEF BaseInv, Types
<1>2. job'[a] = new /\ \A b \in Actors : b # a => job'[b] = job[b]
  BY <1>1
<1>3. None \notin Actors
  BY PublicationAssumption DEF Actors, Docs, Rec, None
<1>4. "committed" \notin Holding
  BY DEF Holding, TextHolding, SpecialHolding
<1>5. CASE lock' = lock /\ rev' = rev /\ job[a].pc \notin Locking /\ new.pc \notin Locking
  BY <1>1, <1>2, <1>5 DEF LockInv, Locking
<1>6. CASE lock = None /\ lock' = a /\ rev' < 0 /\ new.pc \in Holding
  BY <1>1, <1>2, <1>3, <1>4, <1>6 DEF LockInv, Locking
<1>7. CASE job[a].pc \in Locking /\ lock' = None /\ new.pc \notin Locking
  BY <1>1, <1>2, <1>3, <1>7 DEF LockInv, Locking
<1>8. CASE /\ job[a].pc \in Locking /\ lock' = lock /\ new.pc \in Locking
           /\ new.pc \in Holding /\ rev' >= 0 =>
                new.pc \in {"restore", "abort"} /\ a \in LossyDocs \cap TextDocs
           /\ new.pc = "committed" => rev' >= 0
  BY <1>1, <1>2, <1>3, <1>8 DEF LockInv, Locking
<1>9. QED
  BY <1>5, <1>6, <1>7, <1>8 DEF LockMove

\* The parts that name generations, when the lists of executions only grow.
LEMMA NamesStep ==
  ASSUME BaseInv, exec' \in [Docs -> Seq(Executions)],
         \A d \in Docs : Len(exec'[d]) >= Len(exec[d]),
         NEW d \in Docs,
         \A e \in Docs : e # d => /\ doc'[e] = doc[e] /\ points'[e] = points[e]
                                  /\ backup'[e] = backup[e],
         doc'[d].link <= Len(exec'[d]), doc'[d].mark <= Len(exec'[d]),
         doc'[d].pg <= Len(exec'[d]), d \in TextDocs => doc'[d].mark = 0,
         points'[d] \subseteq 0..Len(exec'[d]) \union {Hole},
         backup'[d].gens \subseteq 0..Len(exec'[d]) \union {Hole}
  PROVE  Names'
PROOF
<1> SUFFICES ASSUME NEW e \in Docs
             PROVE  /\ doc'[e].link <= Len(exec'[e]) /\ doc'[e].mark <= Len(exec'[e])
                    /\ doc'[e].pg <= Len(exec'[e])
                    /\ points'[e] \subseteq 0..Len(exec'[e]) \union {Hole}
                    /\ backup'[e].gens \subseteq 0..Len(exec'[e]) \union {Hole}
                    /\ e \in TextDocs => doc'[e].mark = 0
  BY DEF Names, Generations
<1>1. CASE e = d
  BY <1>1
<1>2. CASE e # d
  <2>1. Len(exec[e]) \in Nat /\ Len(exec'[e]) \in Nat
    BY Lengths DEF BaseInv
  <2>2. doc[e].link \in Nat /\ doc[e].mark \in Nat /\ doc[e].pg \in Nat
    BY DEF BaseInv, Types
  <2>3. QED
    BY <1>2, <2>1, <2>2 DEF BaseInv, Names, Generations
<1>3. QED
  BY <1>1, <1>2

\* An actor moves on with its document and generation.
Step(a, pc, why, rec) ==
  job' = [job EXCEPT ![a] = [pc |-> pc, d |-> job[a].d, g |-> job[a].g,
                             recovered |-> rec, why |-> why]]

\* The forms in which the actions write a job.
LEMMA JobForms ==
  ASSUME Types, NEW a \in Actors
  PROVE  /\ job[a] \in Jobs
         /\ \A pc : Goto(a, pc) => Step(a, pc, job[a].why, job[a].recovered)
         /\ \A why : Leave(a, why) => Step(a, "failed", why, job[a].recovered)
         /\ \A pc, why : job' = [job EXCEPT ![a].pc = pc, ![a].why = why] =>
                         Step(a, pc, why, job[a].recovered)
         /\ \A pc, why : job' = [job EXCEPT ![a].why = why, ![a].pc = pc] =>
                         Step(a, pc, why, job[a].recovered)
         /\ \A pc, rec : job' = [job EXCEPT ![a].pc = pc, ![a].recovered = rec] =>
                         Step(a, pc, job[a].why, rec)
PROOF
<1>1. job \in [Actors -> Jobs] /\ job[a] \in Jobs
  BY DEF Types
<1>2. job[a] = [pc |-> job[a].pc, d |-> job[a].d, g |-> job[a].g,
                recovered |-> job[a].recovered, why |-> job[a].why]
  BY <1>1 DEF Jobs
<1>3. QED
  BY <1>1, <1>2 DEF Goto, Leave, Step

\* Past the claim an actor stays past it, or fails.
Past == {"idle", "claimed", "failed"}

\* A step of one actor keeps the names and the locks.
LEMMA StepOK ==
  ASSUME BaseInv, NEW a \in Actors, NEW pc \in PCs, NEW why, NEW rec \in BOOLEAN,
         why \in {"none", "busy", "unbound"} \union Whys,
         Step(a, pc, why, rec), job[a].pc # "idle",
         pc \in Past \/ job[a].pc \notin Past,
         pc \in TextHolding \union {"committed"} => a \in TextDocs,
         pc \in SpecialHolding \union {"pinned", "aborting"} => a \notin TextDocs,
         exec' \in [Docs -> Seq(Executions)],
         \A d \in Docs : Len(exec'[d]) >= Len(exec[d]),
         rev' \in Int, LockMove(a, pc)
  PROVE  JobInv' /\ LockInv' /\ job' \in [Actors -> Jobs]
PROOF
<1> DEFINE new == [pc |-> pc, d |-> job[a].d, g |-> job[a].g, recovered |-> rec, why |-> why]
<1>1. job[a] \in Jobs /\ JobInv
  BY DEF BaseInv, Types
<1>2. \A d \in Docs : Len(exec'[d]) \in Nat /\ Len(exec[d]) \in Nat
  BY Lengths DEF BaseInv
<1>3. job[a].d \in Docs
  BY <1>1, PublicationAssumption DEF JobInv, Actors, Docs
<1>4. Sound(a, new)
  BY <1>1, <1>3 DEF Sound, JobInv, Jobs
<1>5. new.pc \notin Past => new.g \in 1..Len(exec'[new.d])
  <2> SUFFICES ASSUME pc \notin Past PROVE job[a].g \in 1..Len(exec'[job[a].d])
    OBVIOUS
  <2>1. job[a].g \in 1..Len(exec[job[a].d])
    BY <1>1 DEF JobInv, Past
  <2>2. QED
    BY <1>2, <1>3, <2>1
<1>6. job' = [job EXCEPT ![a] = new] /\ new.pc = pc
  BY DEF Step
<1> HIDE DEF new
<1>7. JobInv' /\ job' \in [Actors -> Jobs]
  BY <1>2, <1>4, <1>5, <1>6, JobStep DEF Past
<1>8. LockInv'
  BY <1>6, LockStep
<1>9. QED
  BY <1>7, <1>8

\* An actor ends its job.
LEMMA FreeOK ==
  ASSUME BaseInv, NEW a \in Actors, job' = [job EXCEPT ![a] = Free(a)],
         exec' \in [Docs -> Seq(Executions)],
         \A d \in Docs : Len(exec'[d]) >= Len(exec[d]),
         rev' \in Int,
         \/ lock' = lock /\ rev' = rev /\ job[a].pc \notin Locking
         \/ job[a].pc \in Locking /\ lock' = None
  PROVE  JobInv' /\ LockInv' /\ job' \in [Actors -> Jobs]
PROOF
<1>1. \A d \in Docs : Len(exec'[d]) \in Nat /\ Len(exec[d]) \in Nat
  BY Lengths DEF BaseInv
<1>2. Free(a) \in Jobs /\ Free(a).pc = "idle"
  BY DEF Free, Jobs, PCs, Waiting, Actors
<1>3. Sound(a, Free(a))
  BY <1>2, PublicationAssumption DEF Sound, Free, Rec, Docs, TextHolding, SpecialHolding
<1>4. JobInv' /\ job' \in [Actors -> Jobs]
  BY <1>1, <1>2, <1>3, JobStep
<1>5. "idle" \notin Locking /\ "idle" \in PCs
  BY DEF Locking, Holding, TextHolding, SpecialHolding, PCs, Waiting
<1>6. LockInv'
  BY <1>2, <1>5, LockStep DEF LockMove
<1>7. QED
  BY <1>4, <1>6

\* The type of a document row.
Rows == [st : {"waiting", "completed", "error"} \union InFlight,
         link : Nat, mark : Nat, pg : Nat]

\* Documents, executions and stores stay: only the jobs and the lock move.
LEMMA StoresStay ==
  ASSUME BaseInv, UNCHANGED <<doc, exec, stores>>, exposed' \subseteq Docs,
         rev' \in Int, JobInv' /\ LockInv' /\ job' \in [Actors -> Jobs]
  PROVE  BaseInv'
  BY DEF BaseInv, Types, Names, Generations, stores

\* One document changes.
LEMMA OneDoc ==
  ASSUME BaseInv, NEW d \in Docs, NEW row \in Rows,
         exec' \in [Docs -> Seq(Executions)],
         \A e \in Docs : Len(exec'[e]) >= Len(exec[e]),
         doc' = [doc EXCEPT ![d] = row], UNCHANGED stores,
         row.link <= Len(exec'[d]), row.mark <= Len(exec'[d]), row.pg <= Len(exec'[d]),
         d \in TextDocs => row.mark = 0, exposed' \subseteq Docs, rev' \in Int,
         JobInv' /\ LockInv' /\ job' \in [Actors -> Jobs]
  PROVE  BaseInv'
PROOF
<1>1. doc \in [Docs -> Rows]
  BY DEF BaseInv, Types, Rows
<1>2. doc' \in [Docs -> Rows] /\ doc'[d] = row /\ \A e \in Docs : e # d => doc'[e] = doc[e]
  BY <1>1
<1>3. Len(exec[d]) \in Nat /\ Len(exec'[d]) \in Nat
  BY Lengths DEF BaseInv
<1>4. points[d] \subseteq 0..Len(exec[d]) \union {Hole}
      /\ backup[d].gens \subseteq 0..Len(exec[d]) \union {Hole}
  BY DEF BaseInv, Names, Generations
<1>5. points[d] \subseteq 0..Len(exec'[d]) \union {Hole}
      /\ backup[d].gens \subseteq 0..Len(exec'[d]) \union {Hole}
  BY <1>3, <1>4
<1>6. Names'
  BY <1>2, <1>5, NamesStep DEF stores
<1>7. Types'
  BY <1>2 DEF BaseInv, Types, stores, Rows
<1>8. QED
  BY <1>6, <1>7 DEF BaseInv

\* What a consumer of a document is, and what its document and executions are.
LEMMA Consumers ==
  ASSUME BaseInv, NEW d \in Docs
  PROVE  /\ d \in Actors /\ d # Rec /\ job[d] \in Jobs /\ job[d].d = d
         /\ doc[d] \in Rows
         /\ exec[d] \in Seq(Executions) /\ Len(exec[d]) \in Nat
         /\ DOMAIN exec[d] = 1..Len(exec[d])
         /\ doc[d].link <= Len(exec[d]) /\ doc[d].mark <= Len(exec[d])
         /\ doc[d].pg <= Len(exec[d])
         /\ job[d].pc \notin Past => job[d].g \in 1..Len(exec[d])
         /\ d \in TextDocs <=> d \notin SpecialDocs
         /\ d \in TextDocs => doc[d].mark = 0
  BY Lengths, PublicationAssumption
  DEF BaseInv, Types, JobInv, Names, Actors, Rec, Docs, Past, Rows

\* The steps that only move a job: refusals, failures, adopted backups.
LEMMA MovesOK ==
  ASSUME BaseInv, NEW d \in Docs, NEW why \in Whys,
         \/ RecordRefused(d) \/ BackupReuse(d) \/ BackupRefused(d) \/ RestoreFails(d)
         \/ AbortNoLease(d) \/ PrepareFails(d) \/ TextFail(d, why) \/ SpecialFail(d, why)
         \/ CleanupCancelled(d)
  PROVE  BaseInv'
PROOF
<1>0. /\ d \in Actors /\ job[d] \in Jobs /\ (d \in TextDocs <=> d \notin SpecialDocs)
      /\ rev \in Int /\ LockInv /\ JobInv
      /\ exec \in [Docs -> Seq(Executions)] /\ \A e \in Docs : Len(exec[e]) \in Nat
  BY Consumers, Lengths DEF BaseInv, Types
<1>1. job[d].why \in {"none", "busy", "unbound"} \union Whys /\ job[d].recovered \in BOOLEAN
  BY <1>0 DEF Jobs
<1>2. ASSUME NEW pc \in PCs, NEW w \in {"none", "busy", "unbound"} \union Whys,
             Step(d, pc, w, job[d].recovered), UNCHANGED <<doc, exec, stores, rev>>,
             exposed' \subseteq Docs,
             job[d].pc # "idle", pc \in Past \/ job[d].pc \notin Past,
             pc \in TextHolding \union {"committed"} => d \in TextDocs,
             pc \in SpecialHolding \union {"pinned", "aborting"} => d \notin TextDocs,
             LockMove(d, pc)
      PROVE  BaseInv'
  <2>1. rev' \in Int /\ exec' \in [Docs -> Seq(Executions)]
        /\ \A e \in Docs : Len(exec'[e]) >= Len(exec[e])
    BY <1>0, <1>2
  <2>2. JobInv' /\ LockInv' /\ job' \in [Actors -> Jobs]
    BY <1>1, <1>2, <2>1, <1>0, StepOK
  <2>3. QED
    BY <1>2, <2>1, <2>2, StoresStay
<1>3. exposed \subseteq Docs
  BY DEF BaseInv, Types
<1> USE DEF At, Past, PCs, Waiting, Holding, TextHolding, SpecialHolding, Locking, LockMove
<1>4. CASE RecordRefused(d)
  BY <1>0, <1>1, <1>2, <1>3, <1>4, JobForms DEF RecordRefused, BaseInv, Whys, stores
<1>5. CASE BackupReuse(d)
  BY <1>0, <1>1, <1>2, <1>3, <1>5, JobForms DEF BackupReuse, BaseInv, JobInv, LockInv, stores
<1>6. CASE BackupRefused(d)
  BY <1>0, <1>1, <1>2, <1>3, <1>6, JobForms DEF BackupRefused, BaseInv, Whys, stores
<1>7. CASE RestoreFails(d)
  BY <1>0, <1>1, <1>2, <1>3, <1>7, JobForms DEF RestoreFails, BaseInv, Whys, stores
<1>8. CASE AbortNoLease(d)
  BY <1>0, <1>1, <1>2, <1>3, <1>8, JobForms DEF AbortNoLease, BaseInv, Whys, stores
<1>9. CASE PrepareFails(d)
  <2>1. Step(d, "aborting", "error", job[d].recovered) /\ UNCHANGED <<doc, exec, stores, rev>>
        /\ UNCHANGED exposed
    BY <1>9, <1>0, JobForms DEF PrepareFails, BaseInv
  <2>2. job[d].pc \in {"pinned", "freezing"} /\ lock' = IF lock = d THEN None ELSE lock
    BY <1>9 DEF PrepareFails
  <2>3. LockMove(d, "aborting")
    BY <1>0, <2>1, <2>2 DEF LockInv
  <2>4. d \notin TextDocs
    BY <1>0, <2>2 DEF JobInv
  <2>5. QED
    BY <1>1, <1>2, <1>3, <2>1, <2>2, <2>3, <2>4 DEF Whys
<1>10. CASE TextFail(d, why)
  <2>1. UNCHANGED <<doc, exec, stores, rev>> /\ UNCHANGED exposed
    BY <1>10 DEF TextFail
  <2>2. CASE At(d, {"claimed", "run"}) /\ d \in TextDocs /\ Leave(d, why) /\ UNCHANGED lock
    BY <1>0, <1>1, <1>2, <1>3, <2>1, <2>2, JobForms DEF BaseInv
  <2>3. CASE /\ At(d, {"leased"}) \/ (At(d, {"backing"}) /\ job[d].recovered)
             /\ Leave(d, why) /\ lock' = None
    BY <1>0, <1>1, <1>2, <1>3, <2>1, <2>3, JobForms DEF BaseInv
  <2>4. CASE /\ At(d, {"leased", "backing"}) /\ ~job[d].recovered
             /\ job' = [job EXCEPT ![d].pc = "abort", ![d].why = why]
             /\ UNCHANGED lock
    <3>1. rev < 0 /\ d \in TextDocs
      BY <1>0, <2>4 DEF LockInv, JobInv
    <3>2. Step(d, "abort", why, job[d].recovered)
      BY <1>0, <2>4, JobForms DEF BaseInv
    <3>3. LockMove(d, "abort")
      BY <1>0, <2>1, <2>4, <3>1
    <3>4. QED
      BY <1>1, <1>2, <1>3, <2>1, <2>4, <3>1, <3>2, <3>3
  <2>5. CASE /\ At(d, {"backed", "half", "written"})
             /\ job' = [job EXCEPT ![d].pc = "restore", ![d].why = why]
             /\ UNCHANGED lock
    <3>1. rev < 0 /\ d \in TextDocs
      BY <1>0, <2>5 DEF LockInv, JobInv
    <3>2. Step(d, "restore", why, job[d].recovered)
      BY <1>0, <2>5, JobForms DEF BaseInv
    <3>3. LockMove(d, "restore")
      BY <1>0, <2>1, <2>5, <3>1
    <3>4. QED
      BY <1>1, <1>2, <1>3, <2>1, <2>5, <3>1, <3>2, <3>3
  <2>6. QED
    BY <1>10, <2>2, <2>3, <2>4, <2>5 DEF TextFail
<1>11. CASE SpecialFail(d, why)
  <2>1. UNCHANGED <<doc, exec, stores, rev>> /\ UNCHANGED exposed /\ d \notin TextDocs
    BY <1>0, <1>11 DEF SpecialFail
  <2>2. CASE /\ At(d, {"claimed", "run"}) \/ (At(d, {"pinned"}) /\ why = "cancel")
             /\ Leave(d, why) /\ UNCHANGED lock
    BY <1>0, <1>1, <1>2, <1>3, <2>1, <2>2, JobForms DEF BaseInv
  <2>3. CASE /\ At(d, {"freezing", "prepared", "upserted", "rows"})
             /\ job' = [job EXCEPT ![d].pc = "undo", ![d].why = why]
             /\ UNCHANGED lock
    <3>1. rev < 0
      BY <1>0, <2>3 DEF LockInv
    <3>2. Step(d, "undo", why, job[d].recovered)
      BY <1>0, <2>3, JobForms DEF BaseInv
    <3>3. LockMove(d, "undo")
      BY <1>0, <2>1, <2>3, <3>1
    <3>4. QED
      BY <1>1, <1>2, <1>3, <2>1, <2>3, <3>1, <3>2, <3>3
  <2>4. ASSUME NEW pc \in {"aborting", "failed"},
               At(d, {"finish", "undo", "finishing", "undoing"}), lock' = None,
               job' = [job EXCEPT ![d].why = why, ![d].pc = pc]
        PROVE  BaseInv'
    <3>1. Step(d, pc, why, job[d].recovered)
      BY <1>0, <2>4, JobForms DEF BaseInv
    <3>2. LockMove(d, pc)
      BY <1>0, <2>1, <2>4
    <3>3. QED
      BY <1>1, <1>2, <1>3, <2>1, <2>4, <3>1, <3>2
  <2>5. QED
    BY <1>11, <2>2, <2>3, <2>4 DEF SpecialFail
<1>12. CASE CleanupCancelled(d)
  BY <1>0, <1>1, <1>2, <1>3, <1>12, JobForms DEF CleanupCancelled, BaseInv, Whys, stores
<1>13. QED
  BY <1>4, <1>5, <1>6, <1>7, <1>8, <1>9, <1>10, <1>11, <1>12

\* The stores of one document change.
LEMMA OneStore ==
  ASSUME BaseInv, NEW d \in Docs, NEW P, NEW B \in Backups,
         UNCHANGED <<doc, exec>>,
         P \subseteq Generations(d), B.gens \subseteq Generations(d),
         points' = [points EXCEPT ![d] = P], backup' = [backup EXCEPT ![d] = B],
         exposed' \subseteq Docs, rev' \in Int,
         JobInv' /\ LockInv' /\ job' \in [Actors -> Jobs]
  PROVE  BaseInv'
PROOF
<1>1. points \in [Docs -> SUBSET (Nat \union {Hole})] /\ backup \in [Docs -> Backups]
  BY DEF BaseInv, Types
<1>2. Len(exec[d]) \in Nat
  BY Lengths DEF BaseInv
<1>3. P \in SUBSET (Nat \union {Hole})
  BY <1>2 DEF Generations
<1>4. /\ points' \in [Docs -> SUBSET (Nat \union {Hole})] /\ backup' \in [Docs -> Backups]
      /\ points'[d] = P /\ backup'[d] = B
      /\ \A e \in Docs : e # d => points'[e] = points[e] /\ backup'[e] = backup[e]
  BY <1>1, <1>3
<1>5. Names'
  BY <1>4 DEF BaseInv, Names, Generations
<1>6. Types'
  BY <1>4 DEF BaseInv, Types
<1>7. QED
  BY <1>5, <1>6 DEF BaseInv

\* The steps of a publisher that write points or backups, under its lock.
LEMMA WritesOK ==
  ASSUME BaseInv, NEW d \in Docs,
         \/ BackupFirst(d) \/ BackupRest(d) \/ UpsertSome(d) \/ UpsertRest(d) \/ Restore(d)
         \/ UpsertCandidate(d)
  PROVE  BaseInv'
PROOF
<1>0. /\ d \in Actors /\ job[d] \in Jobs /\ (d \in TextDocs <=> d \notin SpecialDocs)
      /\ rev \in Int /\ LockInv /\ JobInv /\ exposed \subseteq Docs
      /\ exec \in [Docs -> Seq(Executions)] /\ \A e \in Docs : Len(exec[e]) \in Nat
      /\ job[d].pc \notin Past => job[d].g \in 1..Len(exec[d])
  BY Consumers, Lengths DEF BaseInv, Types
<1>1. /\ points \in [Docs -> SUBSET (Nat \union {Hole})] /\ backup \in [Docs -> Backups]
      /\ points[d] \subseteq Generations(d) /\ backup[d].gens \subseteq Generations(d)
      /\ points[d] \in SUBSET (Nat \union {Hole}) /\ backup[d] \in Backups
  BY DEF BaseInv, Types, Names
<1>2. job[d].why \in {"none", "busy", "unbound"} \union Whys /\ job[d].recovered \in BOOLEAN
  BY <1>0 DEF Jobs
<1> USE DEF At, Past, PCs, Waiting, Holding, TextHolding, SpecialHolding, Locking
<1>3. ASSUME NEW pc \in Holding, Goto(d, pc), job[d].pc \in Holding,
             UNCHANGED <<lock, rev, exec>>,
             pc \in TextHolding => d \in TextDocs,
             pc \in SpecialHolding => d \notin TextDocs,
             rev >= 0 => pc \in {"restore", "abort"} /\ d \in LossyDocs \cap TextDocs
      PROVE  JobInv' /\ LockInv' /\ job' \in [Actors -> Jobs]
  <2>1. Step(d, pc, job[d].why, job[d].recovered)
    BY <1>0, <1>3, JobForms DEF BaseInv
  <2>2. LockMove(d, pc)
    BY <1>0, <1>3 DEF LockMove
  <2>3. /\ rev' \in Int /\ exec' \in [Docs -> Seq(Executions)]
        /\ \A e \in Docs : Len(exec'[e]) >= Len(exec[e])
    BY <1>0, <1>3
  <2>4. QED
    BY <1>0, <1>2, <1>3, <2>1, <2>2, <2>3, StepOK
<1>4. Mag \in Nat
  BY <1>0 DEF Mag
<1>5. CASE BackupFirst(d)
  <2> DEFINE B == [at |-> Mag, full |-> FALSE, gens |-> points[d]]
  <2>1. B \in Backups /\ B.gens \subseteq Generations(d)
    BY <1>1, <1>4 DEF Backups
  <2>2. points' = [points EXCEPT ![d] = points[d]] /\ backup' = [backup EXCEPT ![d] = B]
    BY <1>1, <1>5 DEF BackupFirst
  <2>3. /\ Goto(d, "backing") /\ job[d].pc = "leased"
        /\ UNCHANGED <<lock, rev, exec, doc, exposed>>
    BY <1>5 DEF BackupFirst
  <2>4. JobInv' /\ LockInv' /\ job' \in [Actors -> Jobs]
    BY <1>0, <1>3, <2>3 DEF LockInv, JobInv
  <2>5. QED
    BY <1>0, <1>1, <2>1, <2>2, <2>3, <2>4, OneStore
<1>6. CASE BackupRest(d)
  <2> DEFINE B == [backup[d] EXCEPT !.full = TRUE]
  <2>1. B \in Backups /\ B.gens \subseteq Generations(d)
    BY <1>1 DEF Backups
  <2>2. points' = [points EXCEPT ![d] = points[d]] /\ backup' = [backup EXCEPT ![d] = B]
    BY <1>1, <1>6 DEF BackupRest
  <2>3. /\ Goto(d, "backed") /\ job[d].pc = "backing"
        /\ UNCHANGED <<lock, rev, exec, doc, exposed>>
    BY <1>6 DEF BackupRest
  <2>4. JobInv' /\ LockInv' /\ job' \in [Actors -> Jobs]
    BY <1>0, <1>3, <2>3 DEF LockInv, JobInv
  <2>5. QED
    BY <1>0, <1>1, <2>1, <2>2, <2>3, <2>4, OneStore
<1>7. ASSUME NEW pc \in Holding, NEW P, P \subseteq Generations(d),
             points' = [points EXCEPT ![d] = P], backup' = backup,
             UNCHANGED <<lock, rev, exec, doc, exposed>>, Goto(d, pc), job[d].pc \in Holding,
             pc \in TextHolding => d \in TextDocs,
             pc \in SpecialHolding => d \notin TextDocs,
             rev >= 0 => pc \in {"restore", "abort"} /\ d \in LossyDocs \cap TextDocs
      PROVE  BaseInv'
  <2>1. JobInv' /\ LockInv' /\ job' \in [Actors -> Jobs]
    BY <1>3, <1>7
  <2>2. backup' = [backup EXCEPT ![d] = backup[d]]
    BY <1>1, <1>7
  <2>3. QED
    BY <1>0, <1>1, <1>7, <2>1, <2>2, OneStore
<1>8. job[d].pc \notin Past => job[d].g \in Generations(d)
  BY <1>0 DEF Generations
<1>9. CASE UpsertSome(d)
  <2> DEFINE P == points[d] \union {job[d].g}
  <2>1. /\ job[d].pc = "backed" /\ Goto(d, "half") /\ backup' = backup
        /\ points' = [points EXCEPT ![d] = P]
        /\ UNCHANGED <<lock, rev, exec, doc, exposed>>
    BY <1>9 DEF UpsertSome
  <2>2. ~(rev >= 0) /\ d \in TextDocs
    BY <1>0, <2>1 DEF LockInv, JobInv
  <2>3. P \subseteq Generations(d)
    BY <1>1, <1>8, <2>1
  <2> HIDE DEF P
  <2>4. QED
    BY <1>0, <1>7, <2>1, <2>2, <2>3
<1>10. CASE UpsertRest(d)
  <2> DEFINE P == {job[d].g}
  <2>1. /\ job[d].pc = "half" /\ Goto(d, "written") /\ backup' = backup
        /\ points' = [points EXCEPT ![d] = P]
        /\ UNCHANGED <<lock, rev, exec, doc, exposed>>
    BY <1>10 DEF UpsertRest
  <2>2. ~(rev >= 0) /\ d \in TextDocs
    BY <1>0, <2>1 DEF LockInv, JobInv
  <2>3. P \subseteq Generations(d)
    BY <1>1, <1>8, <2>1
  <2> HIDE DEF P
  <2>4. QED
    BY <1>0, <1>7, <2>1, <2>2, <2>3
<1>11. CASE UpsertCandidate(d)
  <2> DEFINE P == points[d] \union {job[d].g}
  <2>1. /\ job[d].pc = "prepared" /\ Goto(d, "upserted") /\ backup' = backup
        /\ points' = [points EXCEPT ![d] = P]
        /\ UNCHANGED <<lock, rev, exec, doc, exposed>>
    BY <1>11 DEF UpsertCandidate
  <2>2. ~(rev >= 0) /\ d \notin TextDocs
    BY <1>0, <2>1 DEF LockInv, JobInv
  <2>3. P \subseteq Generations(d)
    BY <1>1, <1>8, <2>1
  <2> HIDE DEF P
  <2>4. QED
    BY <1>0, <1>7, <2>1, <2>2, <2>3
<1>12. CASE Restore(d)
  <2>1. (IF backup[d].full THEN backup[d].gens ELSE {Hole}) \subseteq Generations(d)
    BY <1>1 DEF Generations
  <2>2. rev >= 0 => d \in LossyDocs \cap TextDocs
    BY <1>0, <1>12 DEF Restore, LockInv
  <2>3. d \in TextDocs
    BY <1>0, <1>12 DEF Restore, JobInv
  <2>4. QED
    BY <1>0, <1>7, <1>12, <2>1, <2>2, <2>3 DEF Restore
<1>13. QED
  BY <1>5, <1>6, <1>9, <1>10, <1>11, <1>12

\* A lease takes the lock and leaves the revision negative.
LEMMA LeaseFacts ==
  ASSUME BaseInv, NEW a, Lease(a)
  PROVE  lock = None /\ lock' = a /\ rev' \in Int /\ rev' < 0
  BY DEF Lease, BaseInv, Types

\* Process death and the lease of the recovery loop.
LEMMA DieOK == ASSUME BaseInv, NEW a \in Actors, Die(a) PROVE BaseInv'
PROOF
<1>1. /\ rev' = rev /\ rev \in Int /\ exec' = exec /\ exec \in [Docs -> Seq(Executions)]
      /\ job' = [job EXCEPT ![a] = Free(a)] /\ exposed' \subseteq Docs
      /\ UNCHANGED <<doc, exec, stores>>
      /\ lock' = IF lock = a THEN None ELSE lock
  BY DEF Die, BaseInv, Types
<1>2. \A d \in Docs : Len(exec'[d]) >= Len(exec[d])
  BY <1>1, Lengths DEF BaseInv
<1>3. \/ lock' = lock /\ rev' = rev /\ job[a].pc \notin Locking
      \/ job[a].pc \in Locking /\ lock' = None
  BY <1>1 DEF BaseInv, LockInv, Locking
<1>4. JobInv' /\ LockInv' /\ job' \in [Actors -> Jobs]
  BY <1>1, <1>2, <1>3, FreeOK
<1>5. QED
  BY <1>1, <1>4, StoresStay

\* The record of a recovery job.
RecJob(pc, d, n, why) == [pc |-> pc, d |-> d, g |-> n, recovered |-> FALSE, why |-> why]

\* A job record that the recovery loop takes up.
LEMMA RecoveryJob ==
  ASSUME BaseInv, NEW d \in SpecialDocs, NEW pc \in {"finish", "resume", "undo"},
         NEW why \in {"none", "unbound"}, NEW n \in 1..Len(exec[d]),
         job[Rec].pc = "idle", Lease(Rec),
         exec' \in [Docs -> Seq(Executions)],
         \A c \in Docs : Len(exec'[c]) >= Len(exec[c]),
         job' = [job EXCEPT ![Rec] = RecJob(pc, d, n, why)]
  PROVE  JobInv' /\ LockInv' /\ job' \in [Actors -> Jobs]
PROOF
<1> DEFINE new == RecJob(pc, d, n, why)
<1>1. \A c \in Docs : Len(exec'[c]) \in Nat /\ Len(exec[c]) \in Nat
  BY Lengths DEF BaseInv
<1>2. Rec \in Actors /\ Rec \notin Docs /\ d \in Docs /\ Rec \notin TextDocs
  BY PublicationAssumption DEF Actors, Rec, Docs
<1>3. new = [pc |-> pc, d |-> d, g |-> n, recovered |-> FALSE, why |-> why]
  BY DEF RecJob
<1>4. pc \in PCs /\ pc \in Holding /\ pc \notin TextHolding \union {"committed"}
  BY DEF PCs, Holding, TextHolding, SpecialHolding
<1>5. n \in Nat
  BY <1>1, <1>2
<1>6. Sound(Rec, new)
  BY <1>2, <1>3, <1>4, <1>5 DEF Sound, Jobs
<1>7. new.g \in 1..Len(exec'[new.d])
  BY <1>1, <1>2, <1>3
<1>8. LockMove(Rec, new.pc)
  BY <1>3, <1>4, LeaseFacts DEF LockMove
<1>9. rev' \in Int /\ new.pc \in PCs /\ job' = [job EXCEPT ![Rec] = new]
  BY <1>3, <1>4, LeaseFacts
<1> HIDE DEF new
<1>10. JobInv' /\ job' \in [Actors -> Jobs]
  BY <1>1, <1>2, <1>6, <1>7, <1>9, JobStep
<1>11. LockInv'
  BY <1>2, <1>8, <1>9, LockStep
<1>12. QED
  BY <1>10, <1>11

\* The owner of a fence is one of its document's executions.
LEMMA OwnerFacts ==
  ASSUME BaseInv, NEW d \in Docs, NEW n, ValidOwner(d, n)
  PROVE  /\ n \in 1..Len(exec[d]) /\ doc[d].mark = n /\ doc[d].link = n
         /\ exec[d][n].st = "running" /\ exec[d][n].bound # 0
         /\ exec[d][n].phase \in Unfinished /\ Mag <= exec[d][n].bound
PROOF
<1>1. <<d, n>> \in BoundOwners
  BY DEF ValidOwner
<1>2. PICK c \in Docs : <<d, n>> \in {c} \X {m \in DOMAIN exec[c] :
                     /\ exec[c][m].st = "running" /\ exec[c][m].bound # 0
                     /\ exec[c][m].phase \in Unfinished}
  BY <1>1 DEF BoundOwners
<1>3. c = d /\ n \in DOMAIN exec[d] /\ exec[d][n].st = "running"
      /\ exec[d][n].bound # 0 /\ exec[d][n].phase \in Unfinished
  BY <1>2
<1>4. QED
  BY <1>3, Lengths DEF BaseInv, ValidOwner

\* The recovery loop takes an unfinished publication over, if it is marked.
LEMMA RecoverFencedOK ==
  ASSUME BaseInv, NEW d \in Docs, RecoverFenced(d) PROVE BaseInv'
PROOF
<1> DEFINE n == doc[d].mark
<1>1. n # 0 /\ ValidOwner(d, n) /\ job[Rec].pc = "idle" /\ Lease(Rec)
      /\ UNCHANGED <<doc, exec, stores, exposed>>
  BY DEF RecoverFenced, At
<1>2. n \in 1..Len(exec[d])
  BY <1>1, OwnerFacts
<1>3. d \in SpecialDocs
  BY <1>1, Consumers
<1>4. job' = [job EXCEPT ![Rec] = RecJob(RecoveryStep(exec[d][n].phase), d, n, "none")]
  BY DEF RecoverFenced, RecJob
<1>5. RecoveryStep(exec[d][n].phase) \in {"finish", "resume", "undo"}
  BY DEF RecoveryStep
<1>6. /\ exec' \in [Docs -> Seq(Executions)]
      /\ \A c \in Docs : Len(exec'[c]) >= Len(exec[c])
  BY <1>1, Lengths DEF BaseInv, Types
<1>7. JobInv' /\ LockInv' /\ job' \in [Actors -> Jobs]
  BY <1>1, <1>2, <1>3, <1>4, <1>5, <1>6, RecoveryJob
<1>8. exposed' \subseteq Docs /\ rev' \in Int
  BY <1>1, LeaseFacts DEF BaseInv, Types
<1>9. QED
  BY <1>1, <1>7, <1>8, StoresStay

\* The steps that set the status of a document and move its consumer.
LEMMA StatusOK ==
  ASSUME BaseInv, NEW d \in Docs,
         Claim(d) \/ TextLease(d) \/ TextBusy(d) \/ PublishRefused(d) \/ SpecialNoLease(d)
  PROVE  BaseInv'
PROOF
<1>0. /\ d \in Actors /\ job[d] \in Jobs /\ (d \in TextDocs <=> d \notin SpecialDocs)
      /\ rev \in Int /\ LockInv /\ JobInv /\ exposed \subseteq Docs /\ doc[d] \in Rows
      /\ doc \in [Docs -> Rows]
      /\ exec \in [Docs -> Seq(Executions)] /\ \A e \in Docs : Len(exec[e]) \in Nat
  BY Consumers, Lengths DEF BaseInv, Types, Rows
<1>1. /\ doc[d].link <= Len(exec[d]) /\ doc[d].mark <= Len(exec[d]) /\ doc[d].pg <= Len(exec[d])
      /\ job[d].why \in {"none", "busy", "unbound"} \union Whys /\ job[d].recovered \in BOOLEAN
      /\ d \in TextDocs => doc[d].mark = 0
  BY <1>0, Consumers DEF Jobs
<1>2. ASSUME NEW st \in InFlight, doc' = [doc EXCEPT ![d].st = st],
             UNCHANGED <<exec, stores, exposed>>, rev' \in Int,
             JobInv' /\ LockInv' /\ job' \in [Actors -> Jobs]
      PROVE  BaseInv'
  <2> DEFINE row == [doc[d] EXCEPT !.st = st]
  <2>1. doc' = [doc EXCEPT ![d] = row]
    BY <1>0, <1>2
  <2>2. row \in Rows /\ row.link = doc[d].link /\ row.mark = doc[d].mark /\ row.pg = doc[d].pg
    BY <1>0 DEF Rows
  <2>3. /\ exec' \in [Docs -> Seq(Executions)]
        /\ \A e \in Docs : Len(exec'[e]) >= Len(exec[e]) /\ exec'[d] = exec[d]
    BY <1>0, <1>2
  <2> HIDE DEF row
  <2>4. QED
    BY <1>0, <1>1, <1>2, <2>1, <2>2, <2>3, OneDoc
<1>3. "parsing" \in InFlight /\ "indexing" \in InFlight
  BY DEF InFlight
<1> USE DEF At, Past, PCs, Waiting, Holding, TextHolding, SpecialHolding, Locking
<1>4. CASE Claim(d)
  <2>1. /\ job[d].pc = "idle" /\ Goto(d, "claimed") /\ UNCHANGED <<exec, stores, exposed, lock, rev>>
        /\ doc' = [doc EXCEPT ![d].st = "parsing"]
    BY <1>4 DEF Claim, LeaseFree
  <2> DEFINE new == [pc |-> "claimed", d |-> job[d].d, g |-> job[d].g,
                     recovered |-> job[d].recovered, why |-> job[d].why]
  <2>2. job' = [job EXCEPT ![d] = new]
    BY <1>0, <2>1, JobForms DEF BaseInv, Step
  <2>3. Sound(d, new) /\ new.pc = "claimed"
    BY <1>0, PublicationAssumption DEF Sound, Jobs, JobInv, Rec, Docs
  <2> HIDE DEF new
  <2>4. \A e \in Docs : Len(exec'[e]) \in Nat /\ Len(exec'[e]) >= Len(exec[e])
    BY <1>0, <2>1
  <2>5. JobInv' /\ job' \in [Actors -> Jobs]
    BY <1>0, <2>2, <2>3, <2>4, JobStep
  <2>6. LockInv'
    BY <1>0, <2>1, <2>2, <2>3, LockStep DEF LockMove
  <2>7. QED
    BY <1>0, <1>2, <1>3, <2>1, <2>5, <2>6
<1>5. ASSUME NEW pc \in PCs, NEW why \in {"none", "busy", "unbound"} \union Whys,
             NEW rec \in BOOLEAN, Step(d, pc, why, rec), job[d].pc \in {"run", "pinned"},
             pc \in TextHolding \union {"committed"} => d \in TextDocs,
             pc \in SpecialHolding \union {"pinned", "aborting"} => d \notin TextDocs,
             UNCHANGED <<exec, stores, exposed>>, rev' \in Int, LockMove(d, pc),
             doc' = [doc EXCEPT ![d].st = "indexing"]
      PROVE  BaseInv'
  <2>1. /\ exec' \in [Docs -> Seq(Executions)]
        /\ \A e \in Docs : Len(exec'[e]) >= Len(exec[e])
    BY <1>0, <1>5
  <2>2. JobInv' /\ LockInv' /\ job' \in [Actors -> Jobs]
    BY <1>0, <1>5, <2>1, StepOK
  <2>3. QED
    BY <1>2, <1>3, <1>5, <2>2
<1>6. CASE TextLease(d)
  <2>1. Step(d, "leased", job[d].why, rev < 0)
    BY <1>0, <1>6, JobForms DEF BaseInv, TextLease
  <2>2. LockMove(d, "leased") /\ rev' \in Int
    BY <1>6, LeaseFacts DEF TextLease, LockMove
  <2>3. (rev < 0) \in BOOLEAN /\ job[d].pc = "run" /\ d \in TextDocs
    BY <1>6 DEF TextLease
  <2>4. QED
    BY <1>1, <1>5, <1>6, <2>1, <2>2, <2>3 DEF TextLease
<1>7. CASE TextBusy(d)
  <2>1. Step(d, "failed", "busy", job[d].recovered)
    BY <1>0, <1>7, JobForms DEF BaseInv, TextBusy
  <2>2. LockMove(d, "failed") /\ rev' \in Int
    BY <1>0, <1>7 DEF TextBusy, LockMove
  <2>3. QED
    BY <1>0, <1>1, <1>5, <1>7, <2>1, <2>2 DEF TextBusy
<1>8. CASE PublishRefused(d)
  <2>1. Step(d, "failed", "error", job[d].recovered)
    BY <1>0, <1>8, JobForms DEF BaseInv, PublishRefused
  <2>2. LockMove(d, "failed") /\ rev' \in Int
    BY <1>0, <1>8 DEF PublishRefused, LockMove
  <2>3. QED
    BY <1>0, <1>1, <1>5, <1>8, <2>1, <2>2 DEF PublishRefused, Whys
<1>9. CASE SpecialNoLease(d)
  <2> DEFINE why == IF lock # None THEN "busy" ELSE "error"
  <2>1. Step(d, "aborting", why, job[d].recovered)
    BY <1>0, <1>9, JobForms DEF BaseInv, SpecialNoLease
  <2>2. LockMove(d, "aborting") /\ rev' \in Int /\ job[d].pc = "pinned" /\ d \notin TextDocs
    BY <1>0, <1>9 DEF SpecialNoLease, LockMove, JobInv
  <2>3. why \in {"none", "busy", "unbound"} \union Whys
    BY DEF Whys
  <2> HIDE DEF why
  <2>4. QED
    BY <1>0, <1>1, <1>5, <1>9, <2>1, <2>2, <2>3 DEF SpecialNoLease
<1>10. QED
  BY <1>4, <1>6, <1>7, <1>8, <1>9

\* Fields of an execution.
LEMMA Fields ==
  ASSUME NEW e \in Executions
  PROVE  /\ \A x \in {"running", "completed", "error"} : [e EXCEPT !.st = x] \in Executions
         /\ \A x \in Unfinished \union {"none", "aborted"} :
              [e EXCEPT !.phase = x] \in Executions
         /\ \A x \in Nat : [e EXCEPT !.bound = x] \in Executions
         /\ \A x \in Unfinished \union {"none", "aborted"}, y \in SUBSET (Nat \union {Hole}) :
              [e EXCEPT !.phase = x, !.old = y] \in Executions
         /\ \A x \in {"running", "completed", "error"}, y \in Unfinished \union {"none", "aborted"} :
              [e EXCEPT !.st = x, !.phase = y] \in Executions
  BY DEF Executions

\* An edited list is as good as the list before.
LEMMA EditGrows ==
  ASSUME BaseInv, NEW d \in Docs, NEW n \in 1..Len(exec[d]), NEW e \in Executions,
         exec' = [exec EXCEPT ![d][n] = e]
  PROVE  /\ exec' \in [Docs -> Seq(Executions)]
         /\ \A c \in Docs : Len(exec'[c]) = Len(exec[c]) /\ Len(exec'[c]) >= Len(exec[c])
PROOF
<1>1. Types
  BY DEF BaseInv
<1>2. exec' \in [Docs -> Seq(Executions)] /\ \A c \in Docs : Len(exec'[c]) = Len(exec[c])
  BY <1>1, ExecEdit
<1>3. \A c \in Docs : Len(exec[c]) \in Nat
  BY <1>1, Lengths
<1>4. QED
  BY <1>2, <1>3

\* A longer list.
LEMMA AddGrows ==
  ASSUME BaseInv, NEW d \in Docs, exec' = [exec EXCEPT ![d] = Append(@, NewExec)]
  PROVE  /\ exec' \in [Docs -> Seq(Executions)]
         /\ \A c \in Docs : Len(exec'[c]) >= Len(exec[c])
         /\ Len(exec'[d]) = Len(exec[d]) + 1
PROOF
<1>1. exec[d] \in Seq(Executions) /\ Len(exec[d]) \in Nat /\ Types
  BY Lengths DEF BaseInv
<1>2. /\ Append(exec[d], NewExec) \in Seq(Executions)
      /\ Len(Append(exec[d], NewExec)) = Len(exec[d]) + 1
  BY <1>1, AddOne
<1> DEFINE new == Append(exec[d], NewExec)
<1>3. exec' = [exec EXCEPT ![d] = new]
  OBVIOUS
<1>4. new \in Seq(Executions) /\ Len(new) >= Len(exec[d]) /\ Len(new) = Len(exec[d]) + 1
  BY <1>1, <1>2
<1> HIDE DEF new
<1>5. QED
  BY <1>1, <1>3, <1>4, ExecFrame

\* Facts about a document and its consumer that the next lemmas start from.
DocFacts(d) ==
  /\ d \in Actors /\ job[d] \in Jobs /\ (d \in TextDocs <=> d \notin SpecialDocs)
  /\ d # Rec /\ job[d].d = d
  /\ rev \in Int /\ LockInv /\ JobInv /\ exposed \subseteq Docs
  /\ doc \in [Docs -> Rows] /\ doc[d] \in Rows
  /\ doc[d].link <= Len(exec[d]) /\ doc[d].mark <= Len(exec[d]) /\ doc[d].pg <= Len(exec[d])
  /\ d \in TextDocs => doc[d].mark = 0
  /\ exec \in [Docs -> Seq(Executions)] /\ \A e \in Docs : Len(exec[e]) \in Nat
  /\ DOMAIN exec[d] = 1..Len(exec[d])
  /\ \A n \in 1..Len(exec[d]) : exec[d][n] \in Executions
  /\ job[d].pc \notin Past => job[d].g \in 1..Len(exec[d])
  /\ job[d].why \in {"none", "busy", "unbound"} \union Whys /\ job[d].recovered \in BOOLEAN

\* What the invariant says of one document.
LEMMA DocFactsHold == ASSUME BaseInv, NEW d \in Docs PROVE DocFacts(d)
PROOF
<1>1. exec[d] \in Seq(Executions) /\ \A e \in Docs : Len(exec[e]) \in Nat
  BY Lengths DEF BaseInv
<1>2. \A n \in 1..Len(exec[d]) : exec[d][n] \in Executions
  BY <1>1
<1>3. doc \in [Docs -> Rows] /\ rev \in Int /\ LockInv /\ JobInv /\ exposed \subseteq Docs
      /\ exec \in [Docs -> Seq(Executions)]
  BY DEF BaseInv, Types, Rows
<1>4. job[d].why \in {"none", "busy", "unbound"} \union Whys /\ job[d].recovered \in BOOLEAN
  BY Consumers DEF Jobs
<1>5. QED
  BY <1>1, <1>2, <1>3, <1>4, Consumers DEF DocFacts

\* The lists of executions only grow.
Grows == /\ exec' \in [Docs -> Seq(Executions)]
         /\ \A e \in Docs : Len(exec'[e]) >= Len(exec[e])

\* The row of one document changes, and names what exists.
NewRow(d) ==
  /\ doc' \in [Docs -> Rows] /\ \A e \in Docs : e # d => doc'[e] = doc[e]
  /\ doc'[d].link <= Len(exec'[d]) /\ doc'[d].mark <= Len(exec'[d])
  /\ doc'[d].pg <= Len(exec'[d])
  /\ d \in TextDocs => doc'[d].mark = 0

JobsOK == JobInv' /\ LockInv' /\ job' \in [Actors -> Jobs]

\* A row changes, the stores stay.
LEMMA RowOK ==
  ASSUME BaseInv, NEW d \in Docs, Grows, NewRow(d), UNCHANGED stores,
         exposed' \subseteq Docs, rev' \in Int, JobsOK
  PROVE  BaseInv'
PROOF
<1> DEFINE row == doc'[d]
<1>1. doc \in [Docs -> Rows] /\ doc' \in [Docs -> Rows] /\ row \in Rows
  BY DEF BaseInv, Types, Rows, NewRow
<1>2. doc' = [doc EXCEPT ![d] = row]
  BY <1>1 DEF NewRow
<1>3. row.link <= Len(exec'[d]) /\ row.mark <= Len(exec'[d]) /\ row.pg <= Len(exec'[d])
      /\ (d \in TextDocs => row.mark = 0)
  BY DEF NewRow
<1> HIDE DEF row
<1>4. QED
  BY <1>1, <1>2, <1>3, OneDoc DEF Grows, JobsOK

\* The jobs stay as good as they were.
LEMMA SameJobs ==
  ASSUME BaseInv, Grows, UNCHANGED <<job, lock, rev>>
  PROVE  JobsOK /\ rev' \in Int
PROOF
<1>1. \A e \in Docs : Len(exec'[e]) \in Nat /\ Len(exec[e]) \in Nat
  BY Lengths DEF BaseInv, Grows
<1>2. job' \in [Actors -> Jobs] /\ LockInv' /\ rev' \in Int
  BY DEF BaseInv, Types, LockInv
<1>3. JobInv'
  <2>1. job[Rec].pc # "idle" => job[Rec].d \in Docs
    BY DEF BaseInv, JobInv, Docs
  <2>2. ASSUME NEW a \in Actors, job[a].pc \notin {"idle", "claimed", "failed"}
        PROVE  job[a].g \in 1..Len(exec'[job[a].d])
    <3>1. job[a].d \in Docs /\ job[a].g \in 1..Len(exec[job[a].d])
      BY <2>1, <2>2 DEF BaseInv, JobInv, Actors
    <3>2. QED
      BY <1>1, <3>1 DEF Grows
  <2>3. QED
    BY <2>2 DEF JobInv, BaseInv
<1>4. QED
  BY <1>2, <1>3 DEF JobsOK

\* The durable queue: documents and executions, the jobs stay.
LEMMA QueueOK ==
  ASSUME BaseInv, NEW d \in Docs, NEW replay \in BOOLEAN,
         Enqueue(d, replay) \/ ClaimStuck(d)
  PROVE  BaseInv'
PROOF
<1>0. DocFacts(d)
  BY DocFactsHold
<1>1. UNCHANGED <<rev, lock, stores, job, exposed>>
  BY DEF Enqueue, ClaimStuck
<1>2. ASSUME Grows, NewRow(d) PROVE BaseInv'
  <2>1. JobsOK /\ rev' \in Int
    BY <1>1, <1>2, SameJobs
  <2>2. exposed' \subseteq Docs
    BY <1>0, <1>1 DEF DocFacts
  <2>3. QED
    BY <1>1, <1>2, <2>1, <2>2, RowOK
<1>3. ASSUME NEW st \in {"waiting", "error"}, NEW link \in Nat, Grows, link <= Len(exec'[d]),
             doc' = [doc EXCEPT ![d].st = st, ![d].link = link]
      PROVE  NewRow(d)
  <2>1. doc' \in [Docs -> Rows] /\ \A e \in Docs : e # d => doc'[e] = doc[e]
    BY <1>0, <1>3 DEF DocFacts, Rows
  <2>2. doc'[d].link = link /\ doc'[d].mark = doc[d].mark /\ doc'[d].pg = doc[d].pg
    BY <1>0, <1>3 DEF DocFacts, Rows
  <2>3. Len(exec'[d]) \in Nat /\ Len(exec'[d]) >= Len(exec[d]) /\ Len(exec[d]) \in Nat
    BY <1>0, <1>3 DEF Grows, DocFacts
  <2>4. doc[d].mark \in Nat /\ doc[d].pg \in Nat
    BY <1>0 DEF DocFacts, Rows
  <2>5. QED
    BY <1>0, <1>3, <2>1, <2>2, <2>3, <2>4 DEF NewRow, DocFacts
<1>4. Len(exec[d]) \in Nat /\ exec[d] \in Seq(Executions) /\ Types
  BY <1>0, Lengths DEF DocFacts, BaseInv
<1>5. CASE Enqueue(d, replay)
  <2>1. CASE replay
    <3>1. exec' = [exec EXCEPT ![d] = Append(@, NewExec)]
          /\ doc' = [doc EXCEPT ![d].st = "waiting", ![d].link = Len(exec[d]) + 1]
      BY <1>5, <2>1 DEF Enqueue
    <3>2. Grows /\ Len(exec'[d]) = Len(exec[d]) + 1
      BY <3>1, AddGrows DEF Grows
    <3> DEFINE link == Len(exec[d]) + 1
    <3>3. link \in Nat /\ link <= Len(exec'[d])
          /\ doc' = [doc EXCEPT ![d].st = "waiting", ![d].link = link]
      BY <1>4, <3>1, <3>2
    <3> HIDE DEF link
    <3>4. QED
      BY <1>2, <1>3, <3>2, <3>3
  <2>2. CASE ~replay
    <3>1. exec' = exec /\ doc' = [doc EXCEPT ![d].st = "waiting", ![d].link = 0]
      BY <1>5, <2>2 DEF Enqueue
    <3>2. Grows /\ 0 <= Len(exec'[d])
      BY <1>0, <3>1 DEF Grows, DocFacts
    <3>3. QED
      BY <1>2, <1>3, <3>1, <3>2
  <2>3. QED
    BY <2>1, <2>2
<1>6. CASE ClaimStuck(d)
  <2> DEFINE n == doc[d].link
  <2>1. CASE Running(d, n)
    <3> DEFINE closed == [exec[d] EXCEPT ![n].st = "error"]
               new == Append(closed, NewExec)
    <3>1. exec' = [exec EXCEPT ![d] = new]
          /\ doc' = [doc EXCEPT ![d].st = "waiting", ![d].link = Len(exec[d]) + 1]
      BY <1>6, <2>1 DEF ClaimStuck
    <3>2. n \in 1..Len(exec[d])
      BY <1>0, <2>1 DEF Running, DocFacts
    <3>3. closed = [exec[d] EXCEPT ![n] = [exec[d][n] EXCEPT !.st = "error"]]
      OBVIOUS
    <3>4. [exec[d][n] EXCEPT !.st = "error"] \in Executions
      BY <1>0, <3>2, Fields DEF DocFacts
    <3>5. closed \in Seq(Executions) /\ Len(closed) = Len(exec[d])
      BY <1>4, <3>2, <3>3, <3>4, EditOne
    <3>6. new \in Seq(Executions) /\ Len(new) = Len(exec[d]) + 1
      BY <3>5, AddOne
    <3>7. Len(new) >= Len(exec[d])
      BY <1>4, <3>6
    <3> DEFINE link == Len(exec[d]) + 1
    <3> HIDE DEF new
    <3>8. Grows /\ exec'[d] = new
      BY <1>4, <3>1, <3>6, <3>7, ExecFrame DEF Grows
    <3>9. link \in Nat /\ link <= Len(exec'[d])
          /\ doc' = [doc EXCEPT ![d].st = "waiting", ![d].link = link]
      BY <1>4, <3>1, <3>6, <3>8
    <3> HIDE DEF link
    <3>10. QED
      BY <1>2, <1>3, <3>8, <3>9
  <2>2. CASE ~Running(d, n)
    <3>1. exec' = exec /\ doc' = [doc EXCEPT ![d].st = "error", ![d].link = 0]
      BY <1>6, <2>2 DEF ClaimStuck
    <3>2. Grows /\ 0 <= Len(exec'[d])
      BY <1>0, <3>1 DEF Grows, DocFacts
    <3>3. QED
      BY <1>2, <1>3, <3>1, <3>2
  <2>3. QED
    BY <2>1, <2>2
<1>7. QED
  BY <1>5, <1>6

\* One execution of a document is written.
Edit(d, n, e) == /\ n \in 1..Len(exec[d]) /\ e \in Executions
                 /\ exec' = [exec EXCEPT ![d][n] = e]

\* An edit of one execution row loses no execution.
LEMMA EditOK ==
  ASSUME BaseInv, NEW d \in Docs, NEW n, NEW e, Edit(d, n, e)
  PROVE  Grows /\ \A c \in Docs : Len(exec'[c]) = Len(exec[c])
  BY EditGrows DEF Edit, Grows

\* The forms in which the actions write an execution.
LEMMA EditForms ==
  ASSUME BaseInv, NEW d \in Docs, NEW n \in 1..Len(exec[d])
  PROVE  /\ \A x \in {"running", "completed", "error"} :
              exec' = [exec EXCEPT ![d][n].st = x] => Edit(d, n, [exec[d][n] EXCEPT !.st = x])
         /\ \A x \in Unfinished \union {"none", "aborted"} :
              exec' = [exec EXCEPT ![d][n].phase = x] =>
                Edit(d, n, [exec[d][n] EXCEPT !.phase = x])
         /\ \A x \in Nat :
              exec' = [exec EXCEPT ![d][n].bound = x] =>
                Edit(d, n, [exec[d][n] EXCEPT !.bound = x])
PROOF
<1>1. exec[d][n] \in Executions /\ exec \in [Docs -> Seq(Executions)]
  BY DocFactsHold DEF DocFacts
<1>2. ASSUME NEW x \in {"running", "completed", "error"}, exec' = [exec EXCEPT ![d][n].st = x]
      PROVE  Edit(d, n, [exec[d][n] EXCEPT !.st = x])
  <2>1. exec' = [exec EXCEPT ![d][n] = [exec[d][n] EXCEPT !.st = x]]
    BY <1>2
  <2>2. [exec[d][n] EXCEPT !.st = x] \in Executions
    BY <1>1, Fields
  <2>3. QED
    BY <2>1, <2>2 DEF Edit
<1>3. ASSUME NEW x \in Unfinished \union {"none", "aborted"},
             exec' = [exec EXCEPT ![d][n].phase = x]
      PROVE  Edit(d, n, [exec[d][n] EXCEPT !.phase = x])
  <2>1. exec' = [exec EXCEPT ![d][n] = [exec[d][n] EXCEPT !.phase = x]]
    BY <1>3
  <2>2. [exec[d][n] EXCEPT !.phase = x] \in Executions
    BY <1>1, Fields
  <2>3. QED
    BY <2>1, <2>2 DEF Edit
<1>4. ASSUME NEW x \in Nat, exec' = [exec EXCEPT ![d][n].bound = x]
      PROVE  Edit(d, n, [exec[d][n] EXCEPT !.bound = x])
  <2>1. exec' = [exec EXCEPT ![d][n] = [exec[d][n] EXCEPT !.bound = x]]
    BY <1>4
  <2>2. [exec[d][n] EXCEPT !.bound = x] \in Executions
    BY <1>1, Fields
  <2>3. QED
    BY <2>1, <2>2 DEF Edit
<1>5. QED
  BY <1>2, <1>3, <1>4

\* A row that names what existed before.
LEMMA RowNames ==
  ASSUME BaseInv, NEW d \in Docs, Grows,
         doc' \in [Docs -> Rows], \A e \in Docs : e # d => doc'[e] = doc[e],
         doc'[d].link \in 0..Len(exec[d]), doc'[d].mark \in 0..Len(exec[d]),
         doc'[d].pg \in 0..Len(exec[d]), d \in TextDocs => doc'[d].mark = 0
  PROVE  NewRow(d)
PROOF
<1>1. Len(exec'[d]) \in Nat /\ Len(exec'[d]) >= Len(exec[d]) /\ Len(exec[d]) \in Nat
  BY Lengths DEF Grows, BaseInv
<1>2. QED
  BY <1>1 DEF NewRow

\* What a row names now.
LEMMA OldRow ==
  ASSUME BaseInv, NEW d \in Docs
  PROVE  /\ doc[d].link \in 0..Len(exec[d]) /\ doc[d].mark \in 0..Len(exec[d])
         /\ doc[d].pg \in 0..Len(exec[d]) /\ 0 \in 0..Len(exec[d])
         /\ d \in TextDocs => doc[d].mark = 0
  BY DocFactsHold DEF DocFacts, Rows

\* Nothing about the documents changes.
LEMMA NoGrowth ==
  ASSUME BaseInv, exec' = exec
  PROVE  Grows
  BY Lengths DEF Grows, BaseInv, Types

\* How a consumer closes its job.
LEMMA CloseOK ==
  ASSUME BaseInv, NEW d \in Docs, CloseFailed(d) \/ CloseCompleted(d)
  PROVE  BaseInv'
PROOF
<1>0. DocFacts(d)
  BY DocFactsHold
<1>1. /\ job' = [job EXCEPT ![d] = Free(d)] /\ UNCHANGED <<rev, lock, stores, exposed>>
      /\ job[d].pc \in {"failed", "done"}
  BY DEF CloseFailed, CloseCompleted, At
<1>2. rev' \in Int /\ exposed' \subseteq Docs /\ job[d].pc \notin Locking
  BY <1>0, <1>1 DEF DocFacts, Locking, Holding, TextHolding, SpecialHolding
<1>3. Grows => JobsOK
  BY <1>0, <1>1, <1>2, FreeOK DEF Grows, JobsOK, DocFacts
<1>4. ASSUME NEW x \in {"completed", "error"},
             exec' = IF Running(d, job[d].g) THEN [exec EXCEPT ![d][job[d].g].st = x] ELSE exec
      PROVE  Grows
  <2>1. CASE Running(d, job[d].g)
    <3>1. job[d].g \in 1..Len(exec[d]) /\ exec' = [exec EXCEPT ![d][job[d].g].st = x]
      BY <1>0, <1>4, <2>1 DEF Running, DocFacts
    <3>2. Edit(d, job[d].g, [exec[d][job[d].g] EXCEPT !.st = x])
      BY <3>1, EditForms
    <3>3. QED
      BY <3>2, EditOK
  <2>2. CASE ~Running(d, job[d].g)
    BY <1>4, <2>2, NoGrowth
  <2>3. QED
    BY <2>1, <2>2
<1>5. CASE CloseFailed(d)
  <2>1. Grows
    BY <1>4, <1>5, NoGrowth DEF CloseFailed
  <2>2. \/ doc' = doc \/ doc' = [doc EXCEPT ![d].st = "waiting"]
        \/ doc' = [doc EXCEPT ![d].st = "error", ![d].link = 0]
    BY <1>5 DEF CloseFailed
  <2>3. /\ doc' \in [Docs -> Rows] /\ \A e \in Docs : e # d => doc'[e] = doc[e]
        /\ doc'[d].link \in {doc[d].link, 0} /\ doc'[d].mark = doc[d].mark
        /\ doc'[d].pg = doc[d].pg
    <3>1. CASE doc' = doc
      BY <1>0, <3>1 DEF DocFacts
    <3>2. CASE doc' = [doc EXCEPT ![d].st = "waiting"]
      BY <1>0, <3>2 DEF DocFacts, Rows
    <3>3. CASE doc' = [doc EXCEPT ![d].st = "error", ![d].link = 0]
      BY <1>0, <3>3 DEF DocFacts, Rows
    <3>4. QED
      BY <2>2, <3>1, <3>2, <3>3
  <2>4. NewRow(d)
    BY <2>1, <2>3, OldRow, RowNames
  <2>5. QED
    BY <1>1, <1>2, <1>3, <2>1, <2>4, RowOK
<1>6. CASE CloseCompleted(d)
  <2>1. Grows /\ doc' = doc
    BY <1>4, <1>6 DEF CloseCompleted
  <2>2. NewRow(d)
    BY <1>0, <2>1, OldRow, RowNames DEF DocFacts
  <2>3. QED
    BY <1>1, <1>2, <1>3, <2>1, <2>2, RowOK
<1>7. QED
  BY <1>5, <1>6

\* The consumer takes up the linked execution, or a new one.
LEMMA EnsureOK == ASSUME BaseInv, NEW d \in Docs, Ensure(d) PROVE BaseInv'
PROOF
<1>0. DocFacts(d)
  BY DocFactsHold
<1> DEFINE runs == Running(d, doc[d].link)
           g == IF runs THEN doc[d].link ELSE Len(exec[d]) + 1
           new == [pc |-> "run", d |-> d, g |-> g, recovered |-> job[d].recovered,
                   why |-> job[d].why]
<1>1. /\ exec' = IF runs THEN exec ELSE [exec EXCEPT ![d] = Append(@, NewExec)]
      /\ doc' = [doc EXCEPT ![d].link = g]
      /\ job' = [job EXCEPT ![d].pc = "run", ![d].g = g]
      /\ UNCHANGED <<rev, lock, stores, exposed>> /\ job[d].pc = "claimed"
  BY DEF Ensure, At
<1>2. Grows /\ g \in 1..Len(exec'[d]) /\ g \in Nat
  <2>1. CASE runs
    BY <1>0, <1>1, <2>1, NoGrowth DEF Running, DocFacts
  <2>2. CASE ~runs
    <3>1. exec' = [exec EXCEPT ![d] = Append(@, NewExec)] /\ g = Len(exec[d]) + 1
      BY <1>1, <2>2
    <3>2. Grows /\ Len(exec'[d]) = Len(exec[d]) + 1 /\ Len(exec[d]) \in Nat
      BY <1>0, <3>1, AddGrows DEF Grows, DocFacts
    <3> HIDE DEF g
    <3>3. QED
      BY <3>1, <3>2
  <2>3. QED
    BY <2>1, <2>2
<1> HIDE DEF g
<1>3. NewRow(d)
  <2>1. /\ doc' \in [Docs -> Rows] /\ \A e \in Docs : e # d => doc'[e] = doc[e]
        /\ doc'[d].link = g /\ doc'[d].mark = doc[d].mark /\ doc'[d].pg = doc[d].pg
    BY <1>0, <1>1, <1>2 DEF DocFacts, Rows
  <2>2. Len(exec'[d]) \in Nat /\ Len(exec'[d]) >= Len(exec[d]) /\ Len(exec[d]) \in Nat
    BY <1>0, <1>2 DEF Grows, DocFacts
  <2>3. doc[d].mark \in 0..Len(exec[d]) /\ doc[d].pg \in 0..Len(exec[d])
        /\ (d \in TextDocs => doc[d].mark = 0)
    BY OldRow
  <2>4. QED
    BY <1>2, <2>1, <2>2, <2>3 DEF NewRow
<1>4. job' = [job EXCEPT ![d] = new]
  <2>1. job[d].d = d /\ job[d] \in Jobs /\ d \in Actors
    BY <1>0 DEF DocFacts
  <2>2. job \in [Actors -> Jobs]
    BY DEF BaseInv, Types
  <2>3. job'[d] = new
    BY <1>1, <2>1, <2>2 DEF Jobs
  <2>4. job' = [job EXCEPT ![d] = job'[d]]
    BY <1>1, <2>1, <2>2
  <2>5. QED
    BY <2>3, <2>4
<1>5. new \in Jobs /\ new.d = d /\ new.pc = "run" /\ new.g = g
  BY <1>0, <1>2 DEF Jobs, DocFacts, PCs, Waiting
<1> HIDE DEF new
<1>6. Sound(d, new)
  BY <1>0, <1>5 DEF Sound, DocFacts, TextHolding, SpecialHolding
<1>7. \A e \in Docs : Len(exec'[e]) \in Nat /\ Len(exec'[e]) >= Len(exec[e])
  BY <1>2 DEF Grows
<1>8. JobInv' /\ job' \in [Actors -> Jobs]
  BY <1>0, <1>2, <1>4, <1>5, <1>6, <1>7, JobStep DEF DocFacts
<1>9. LockMove(d, new.pc) /\ rev' \in Int /\ new.pc \in PCs
  BY <1>0, <1>1, <1>5
  DEF LockMove, DocFacts, Locking, Holding, TextHolding, SpecialHolding, PCs, Waiting
<1>10. LockInv'
  BY <1>0, <1>4, <1>9, LockStep DEF DocFacts
<1>11. exposed' \subseteq Docs
  BY <1>0, <1>1 DEF DocFacts
<1>12. QED
  BY <1>1, <1>2, <1>3, <1>8, <1>9, <1>10, <1>11, RowOK DEF JobsOK

\* A consumer past the claim moves on, and its document with it.
LEMMA ConsumerOK ==
  ASSUME BaseInv, NEW d \in Docs, NEW pc \in PCs,
         NEW why \in {"none", "busy", "unbound"} \union Whys, NEW rec \in BOOLEAN,
         Step(d, pc, why, rec), job[d].pc \notin Past,
         pc \in TextHolding \union {"committed"} => d \in TextDocs,
         pc \in SpecialHolding \union {"pinned", "aborting"} => d \notin TextDocs,
         Grows, rev' \in Int, LockMove(d, pc),
         NewRow(d), UNCHANGED stores, exposed' \subseteq Docs
  PROVE  BaseInv'
PROOF
<1>1. d \in Actors /\ job[d].pc # "idle"
  BY DocFactsHold DEF DocFacts, Past
<1>2. JobsOK
  BY <1>1, StepOK DEF Grows, JobsOK
<1>3. QED
  BY <1>2, RowOK

\* The row stays.
LEMMA SameRow ==
  ASSUME BaseInv, NEW d \in Docs, Grows, doc' = doc
  PROVE  NewRow(d)
PROOF
<1>1. doc \in [Docs -> Rows]
  BY DocFactsHold DEF DocFacts
<1>2. QED
  BY <1>1, OldRow, RowNames

\* Only the status of a row changes.
LEMMA StatusRow ==
  ASSUME BaseInv, NEW d \in Docs, Grows,
         doc' = doc \/ doc' = [doc EXCEPT ![d].st = "indexing"]
  PROVE  NewRow(d)
PROOF
<1>1. doc \in [Docs -> Rows]
  BY DocFactsHold DEF DocFacts
<1>2. CASE doc' = doc
  BY <1>2, SameRow
<1>3. CASE doc' = [doc EXCEPT ![d].st = "indexing"]
  <2>1. /\ doc' \in [Docs -> Rows] /\ \A e \in Docs : e # d => doc'[e] = doc[e]
        /\ doc'[d].link = doc[d].link /\ doc'[d].mark = doc[d].mark
        /\ doc'[d].pg = doc[d].pg
    BY <1>1, <1>3 DEF Rows, InFlight
  <2>2. QED
    BY <2>1, OldRow, RowNames
<1>4. QED
  BY <1>2, <1>3

\* The steps of a special publication that write its manifest.
LEMMA ManifestOK ==
  ASSUME BaseInv, NEW d \in Docs,
         Record(d) \/ Freeze(d) \/ PointsWritten(d) \/ SpecialCommit(d)
  PROVE  BaseInv'
PROOF
<1>0. DocFacts(d)
  BY DocFactsHold
<1> DEFINE g == job[d].g
           e == exec[d][g]
<1>1. /\ job[d].pc \in {"run", "freezing", "upserted", "rows"}
      /\ UNCHANGED <<rev, lock, stores, exposed>>
  BY DEF Record, Freeze, PointsWritten, SpecialCommit, SpecialCommitted, At
<1>2. /\ job[d].pc \notin Past /\ g \in 1..Len(exec[d]) /\ e \in Executions
      /\ rev' \in Int /\ exposed' \subseteq Docs /\ d \in Actors
      /\ g \in 0..Len(exec[d]) /\ g \in Nat
  BY <1>0, <1>1 DEF DocFacts, Past
<1>3. d \notin TextDocs
  BY <1>0 DEF DocFacts, JobInv, Record, Freeze, PointsWritten, SpecialCommit,
              SpecialCommitted, At, SpecialHolding
<1>4. ASSUME NEW x \in Unfinished, exec' = [exec EXCEPT ![d][g].phase = x]
      PROVE  Grows
  <2>1. x \in Unfinished \union {"none", "aborted"}
    BY <1>4
  <2>2. Edit(d, g, [exec[d][g] EXCEPT !.phase = x])
    BY <1>2, <1>4, <2>1, EditForms
  <2>3. QED
    BY <2>2, EditOK
<1>5. Types
  BY DEF BaseInv
<1>6. ASSUME NEW pc \in {"prepared", "rows", "finish"}, Goto(d, pc), Grows, NewRow(d),
             job[d].pc \in Holding
      PROVE  BaseInv'
  <2>1. Step(d, pc, job[d].why, job[d].recovered)
    BY <1>2, <1>5, <1>6, JobForms
  <2>2. rev < 0
    BY <1>0, <1>1, <1>2, <1>6 DEF DocFacts, LockInv
  <2>3. LockMove(d, pc) /\ pc \in PCs /\ pc \notin TextHolding \union {"committed"}
    BY <1>0, <1>1, <1>6, <2>2
    DEF LockMove, Locking, Holding, TextHolding, SpecialHolding, PCs, DocFacts
  <2>4. job[d].why \in {"none", "busy", "unbound"} \union Whys /\ job[d].recovered \in BOOLEAN
    BY <1>0 DEF DocFacts
  <2>5. QED
    BY <1>1, <1>2, <1>3, <1>6, <2>1, <2>3, <2>4, ConsumerOK
<1>7. CASE Record(d)
  <2> DEFINE x == IF e.phase = "none" THEN "preparing" ELSE e.phase
  <2>1. exec' = [exec EXCEPT ![d][g].phase = x] /\ doc' = [doc EXCEPT ![d].mark = g]
        /\ Goto(d, "pinned") /\ job[d].pc = "run"
    BY <1>7 DEF Record, At
  <2>2. x \in Unfinished \union {"none", "aborted"}
    BY <1>2 DEF Executions, Unfinished
  <2> HIDE DEF x
  <2>3. Edit(d, g, [exec[d][g] EXCEPT !.phase = x])
    BY <1>2, <2>1, <2>2, EditForms
  <2>4. Grows
    BY <2>3, EditOK
  <2>5. /\ doc' \in [Docs -> Rows] /\ \A c \in Docs : c # d => doc'[c] = doc[c]
        /\ doc'[d].link = doc[d].link /\ doc'[d].mark = g /\ doc'[d].pg = doc[d].pg
    BY <1>0, <1>2, <2>1 DEF DocFacts, Rows
  <2>6. NewRow(d)
    BY <1>2, <1>3, <2>4, <2>5, OldRow, RowNames
  <2>7. Step(d, "pinned", job[d].why, job[d].recovered)
    BY <1>2, <1>5, <2>1, JobForms
  <2>8. LockMove(d, "pinned") /\ "pinned" \in PCs /\ "pinned" \notin TextHolding \union {"committed"}
    BY <1>1, <2>1 DEF LockMove, Locking, Holding, TextHolding, SpecialHolding, PCs, Waiting
  <2>9. job[d].why \in {"none", "busy", "unbound"} \union Whys /\ job[d].recovered \in BOOLEAN
    BY <1>0 DEF DocFacts
  <2>10. QED
    BY <1>1, <1>2, <1>3, <2>4, <2>6, <2>7, <2>8, <2>9, ConsumerOK
<1>8. CASE Freeze(d)
  <2> DEFINE f == [e EXCEPT !.phase = "prepared", !.old = points[d]]
  <2>1. exec' = [exec EXCEPT ![d][g] = f] /\ doc' = doc /\ Goto(d, "prepared")
        /\ job[d].pc = "freezing"
    BY <1>8 DEF Freeze, At
  <2>2. points[d] \in SUBSET (Nat \union {Hole}) /\ "prepared" \in Unfinished
    BY DEF BaseInv, Types, Unfinished
  <2>3. f \in Executions
    BY <1>2, <2>2, Fields
  <2> HIDE DEF f
  <2>4. Grows
    BY <1>2, <2>1, <2>3, EditOK DEF Edit
  <2>5. QED
    BY <1>6, <2>1, <2>4, SameRow DEF Holding, SpecialHolding
<1>9. CASE PointsWritten(d)
  <2>1. exec' = [exec EXCEPT ![d][g].phase = "points_written"] /\ doc' = doc
        /\ Goto(d, "rows") /\ job[d].pc = "upserted"
    BY <1>9 DEF PointsWritten, At
  <2>2. Grows
    BY <1>4, <2>1 DEF Unfinished
  <2>3. QED
    BY <1>6, <2>1, <2>2, SameRow DEF Holding, SpecialHolding
<1>10. CASE SpecialCommit(d)
  <2>1. exec' = [exec EXCEPT ![d][g].phase = "committed"]
        /\ doc' = [doc EXCEPT ![d].st = "completed", ![d].pg = g]
        /\ Goto(d, "finish") /\ job[d].pc = "rows"
    BY <1>10 DEF SpecialCommit, SpecialCommitted, At
  <2>2. Grows
    BY <1>4, <2>1 DEF Unfinished
  <2>3. /\ doc' \in [Docs -> Rows] /\ \A c \in Docs : c # d => doc'[c] = doc[c]
        /\ doc'[d].link = doc[d].link /\ doc'[d].mark = doc[d].mark /\ doc'[d].pg = g
    BY <1>0, <1>2, <2>1 DEF DocFacts, Rows
  <2>4. NewRow(d)
    BY <1>2, <2>2, <2>3, OldRow, RowNames
  <2>5. QED
    BY <1>6, <2>1, <2>2, <2>4 DEF Holding, SpecialHolding
<1>11. QED
  BY <1>7, <1>8, <1>9, <1>10

\* Binding an execution to the fence just closed.
LEMMA BindOK ==
  ASSUME BaseInv, NEW d \in Docs, NEW n \in 1..Len(exec[d]), Bind(d, n),
         rev' \in Int, rev' < 0
  PROVE  Edit(d, n, [exec[d][n] EXCEPT !.bound = -rev']) /\ Grows
PROOF
<1> DEFINE x == -rev'
<1>1. x \in Nat /\ exec' = [exec EXCEPT ![d][n].bound = x]
  BY DEF Bind
<1> HIDE DEF x
<1>2. Edit(d, n, [exec[d][n] EXCEPT !.bound = x])
  BY <1>1, EditForms
<1>3. Grows
  BY <1>2, EditOK
<1>4. QED
  BY <1>2, <1>3 DEF x

\* The leases of a special document.
LEMMA SpecialLeaseOK ==
  ASSUME BaseInv, NEW d \in Docs, SpecialLease(d) \/ AbortLease(d)
  PROVE  BaseInv'
PROOF
<1>0. DocFacts(d)
  BY DocFactsHold
<1> DEFINE g == job[d].g
<1>1. job[d].pc \in {"pinned", "aborting"} /\ Lease(d) /\ UNCHANGED <<stores, exposed>>
  BY DEF SpecialLease, AbortLease, At
<1>2. /\ job[d].pc \notin Past /\ g \in 1..Len(exec[d]) /\ d \in Actors
      /\ exposed' \subseteq Docs /\ d \notin TextDocs
  BY <1>0, <1>1 DEF DocFacts, Past, JobInv
<1>3. lock = None /\ lock' = d /\ rev' \in Int /\ rev' < 0
  BY <1>1, LeaseFacts
<1>4. Grows
  <2>1. Bind(d, g) \/ exec' = exec
    BY DEF SpecialLease, AbortLease
  <2>2. QED
    BY <1>2, <1>3, <2>1, BindOK, NoGrowth
<1>5. NewRow(d)
  <2>1. doc' = doc \/ doc' = [doc EXCEPT ![d].st = "indexing"]
    BY DEF SpecialLease, AbortLease
  <2>2. QED
    BY <1>4, <2>1, StatusRow
<1>6. job[d].why \in {"none", "busy", "unbound"} \union Whys /\ job[d].recovered \in BOOLEAN
  BY <1>0 DEF DocFacts
<1>7. Types
  BY DEF BaseInv
<1>8. ASSUME NEW pc \in {"freezing", "undo"}, NEW rec \in BOOLEAN,
             Step(d, pc, job[d].why, rec)
      PROVE  BaseInv'
  <2>1. LockMove(d, pc) /\ pc \in PCs /\ pc \notin TextHolding \union {"committed"}
    BY <1>3 DEF LockMove, PCs, Holding, TextHolding, SpecialHolding
  <2>2. QED
    BY <1>1, <1>2, <1>3, <1>4, <1>5, <1>6, <1>8, <2>1, ConsumerOK
<1>9. CASE SpecialLease(d)
  <2>1. Step(d, "freezing", job[d].why, job[d].recovered)
    BY <1>2, <1>7, <1>9, JobForms DEF SpecialLease
  <2>2. QED
    BY <1>6, <1>8, <2>1
<1>10. CASE AbortLease(d)
  <2>1. Step(d, "undo", job[d].why, TRUE)
    BY <1>2, <1>7, <1>10, JobForms DEF AbortLease
  <2>2. QED
    BY <1>8, <2>1
<1>11. QED
  BY <1>9, <1>10

\* The recovery loop retires a preparation that never had the fence.
LEMMA RecoverUnboundOK ==
  ASSUME BaseInv, NEW d \in Docs, RecoverUnbound(d) PROVE BaseInv'
PROOF
<1> DEFINE n == doc[d].mark
<1>0. DocFacts(d)
  BY DocFactsHold
<1>1. /\ n # 0 /\ Running(d, n) /\ job[Rec].pc = "idle" /\ Lease(Rec) /\ Bind(d, n)
      /\ UNCHANGED <<doc, stores, exposed>>
      /\ job' = [job EXCEPT ![Rec] = RecJob("resume", d, n, "unbound")]
  BY DEF RecoverUnbound, At, RecJob
<1>2. n \in 1..Len(exec[d]) /\ d \in SpecialDocs
  BY <1>0, <1>1 DEF Running, DocFacts
<1>3. rev' \in Int /\ rev' < 0
  BY <1>1, LeaseFacts
<1>4. Grows
  BY <1>1, <1>2, <1>3, BindOK
<1>5. JobsOK
  BY <1>1, <1>2, <1>4, RecoveryJob DEF JobsOK, Grows
<1>6. NewRow(d) /\ exposed' \subseteq Docs
  BY <1>0, <1>1, <1>4, SameRow DEF DocFacts
<1>7. QED
  BY <1>1, <1>3, <1>4, <1>5, <1>6, RowOK

\* Opening the fence.
LEMMA OpenFacts ==
  ASSUME BaseInv, NEW d, OpenFence(d)
  PROVE  rev < 0 /\ rev' = -rev /\ rev' \in Int /\ rev' >= 0 /\ exposed' \subseteq Docs
PROOF
<1>1. rev \in Int
  BY DEF BaseInv, Types
<1>2. rev < 0 /\ rev' = -rev /\ exposed' \subseteq Docs
  BY DEF OpenFence
<1>3. QED
  BY <1>1, <1>2

\* Commits: with the fence for a text document, and the ones whose answer is lost.
LEMMA CommitOK ==
  ASSUME BaseInv, NEW d \in Docs, NEW why \in Whys, TextCommit(d) \/ CommitLost(d, why)
  PROVE  BaseInv'
PROOF
<1>0. DocFacts(d)
  BY DocFactsHold
<1> DEFINE g == job[d].g
<1>1. job[d].pc \in {"written", "rows"} /\ UNCHANGED stores
  BY DEF TextCommit, CommitLost, TextCommitted, SpecialCommitted, At
<1>2. /\ job[d].pc \notin Past /\ g \in 1..Len(exec[d]) /\ d \in Actors
      /\ g \in 0..Len(exec[d]) /\ g \in Nat
  BY <1>0, <1>1 DEF DocFacts, Past
<1>3. /\ job[d].why \in {"none", "busy", "unbound"} \union Whys /\ job[d].recovered \in BOOLEAN
      /\ why \in {"none", "busy", "unbound"} \union Whys
  BY <1>0 DEF DocFacts
<1>4. Types
  BY DEF BaseInv
<1>5. ASSUME TextCommitted(d), exec' = exec
      PROVE  /\ Grows /\ NewRow(d) /\ rev' \in Int /\ rev' >= 0 /\ exposed' \subseteq Docs
             /\ d \in TextDocs /\ job[d].pc = "written"
  <2>1. doc' = [doc EXCEPT ![d].st = "completed", ![d].link = 0, ![d].pg = g]
        /\ OpenFence(d) /\ job[d].pc = "written"
    BY <1>5 DEF TextCommitted, At
  <2>2. /\ doc' \in [Docs -> Rows] /\ \A c \in Docs : c # d => doc'[c] = doc[c]
        /\ doc'[d].link = 0 /\ doc'[d].mark = doc[d].mark /\ doc'[d].pg = g
    BY <1>0, <1>2, <2>1 DEF DocFacts, Rows
  <2>3. Grows
    BY <1>5, NoGrowth
  <2>4. NewRow(d)
    BY <1>2, <2>2, <2>3, OldRow, RowNames
  <2>5. d \in TextDocs
    BY <1>0, <2>1 DEF DocFacts, JobInv, TextHolding
  <2>6. QED
    BY <2>1, <2>3, <2>4, <2>5, OpenFacts
<1>6. CASE TextCommit(d)
  <2>1. Step(d, "committed", job[d].why, job[d].recovered) /\ lock' = lock
    BY <1>2, <1>4, <1>6, JobForms DEF TextCommit
  <2>2. /\ Grows /\ NewRow(d) /\ rev' \in Int /\ rev' >= 0 /\ exposed' \subseteq Docs
        /\ d \in TextDocs /\ job[d].pc = "written"
    BY <1>5, <1>6 DEF TextCommit
  <2>3. LockMove(d, "committed") /\ "committed" \in PCs
        /\ "committed" \notin SpecialHolding \union {"pinned", "aborting"}
    BY <2>1, <2>2 DEF LockMove, Locking, Holding, TextHolding, SpecialHolding, PCs
  <2>4. QED
    BY <1>1, <1>2, <1>3, <2>1, <2>2, <2>3, ConsumerOK
<1>7. CASE CommitLost(d, why) /\ d \in TextDocs
  <2>1. d \in LossyDocs /\ TextCommitted(d) /\ UNCHANGED <<lock, exec>>
        /\ job' = [job EXCEPT ![d].why = why, ![d].pc = "restore"]
    BY <1>7 DEF CommitLost
  <2>2. Step(d, "restore", why, job[d].recovered)
    BY <1>2, <1>4, <2>1, JobForms
  <2>3. /\ Grows /\ NewRow(d) /\ rev' \in Int /\ rev' >= 0 /\ exposed' \subseteq Docs
        /\ job[d].pc = "written"
    BY <1>5, <2>1
  <2>4. LockMove(d, "restore") /\ "restore" \in PCs
        /\ "restore" \notin SpecialHolding \union {"pinned", "aborting"}
    BY <1>7, <2>1, <2>3 DEF LockMove, Locking, Holding, TextHolding, SpecialHolding, PCs
  <2>5. QED
    BY <1>1, <1>2, <1>3, <1>7, <2>2, <2>3, <2>4, ConsumerOK
<1>8. CASE CommitLost(d, why) /\ d \notin TextDocs
  <2>1. SpecialCommitted(d) /\ lock' = None /\ UNCHANGED <<rev, exposed>>
        /\ job' = [job EXCEPT ![d].why = why, ![d].pc = "failed"]
    BY <1>8 DEF CommitLost
  <2>2. Step(d, "failed", why, job[d].recovered)
    BY <1>2, <1>4, <2>1, JobForms
  <2>3. exec' = [exec EXCEPT ![d][g].phase = "committed"] /\ job[d].pc = "rows"
        /\ doc' = [doc EXCEPT ![d].st = "completed", ![d].pg = g]
    BY <2>1 DEF SpecialCommitted, At
  <2>4. Edit(d, g, [exec[d][g] EXCEPT !.phase = "committed"])
    BY <1>2, <2>3, EditForms DEF Unfinished
  <2>5. Grows
    BY <2>4, EditOK
  <2>6. /\ doc' \in [Docs -> Rows] /\ \A c \in Docs : c # d => doc'[c] = doc[c]
        /\ doc'[d].link = doc[d].link /\ doc'[d].mark = doc[d].mark /\ doc'[d].pg = g
    BY <1>0, <1>2, <2>3 DEF DocFacts, Rows
  <2>7. NewRow(d) /\ rev' \in Int /\ exposed' \subseteq Docs
    BY <1>0, <1>2, <2>1, <2>5, <2>6, OldRow, RowNames DEF DocFacts
  <2>8. LockMove(d, "failed") /\ "failed" \in PCs
        /\ "failed" \notin TextHolding \union SpecialHolding \union {"pinned", "aborting", "committed"}
    BY <2>1, <2>3 DEF LockMove, Locking, Holding, TextHolding, SpecialHolding, PCs, Waiting
  <2>9. QED
    BY <1>1, <1>2, <1>3, <2>2, <2>5, <2>7, <2>8, ConsumerOK
<1>9. QED
  BY <1>6, <1>7, <1>8

\* The end of a text publication: backups go, or are left behind.
LEMMA TextEndOK ==
  ASSUME BaseInv, NEW d \in Docs, TextCleanup(d) \/ TextAbort(d)
  PROVE  BaseInv'
PROOF
<1>0. DocFacts(d)
  BY DocFactsHold
<1>1. /\ job[d].pc \in {"committed", "abort"} /\ lock' = None
      /\ UNCHANGED <<doc, exec, points>>
  BY DEF TextCleanup, TextAbort, At
<1>2. rev' \in Int /\ exposed' \subseteq Docs
  <2>1. UNCHANGED <<rev, exposed>> \/ OpenFence(d)
    BY DEF TextCleanup, TextAbort
  <2>2. QED
    BY <1>0, <2>1, OpenFacts DEF DocFacts
<1>3. NoBackup \in Backups /\ NoBackup.gens \subseteq Generations(d)
  BY DEF NoBackup, Backups
<1>4. /\ backup \in [Docs -> Backups] /\ points \in [Docs -> SUBSET (Nat \union {Hole})]
      /\ points[d] \subseteq Generations(d) /\ backup[d].gens \subseteq Generations(d)
  BY DEF BaseInv, Types, Names
<1>5. PICK B \in Backups : B.gens \subseteq Generations(d) /\ backup' = [backup EXCEPT ![d] = B]
  <2>1. backup' = [backup EXCEPT ![d] = NoBackup] \/ backup' = backup
    BY DEF TextCleanup, TextAbort, DropBackup
  <2>2. CASE backup' = backup
    <3>1. backup' = [backup EXCEPT ![d] = backup[d]] /\ backup[d] \in Backups
      BY <1>4, <2>2
    <3>2. QED
      BY <1>4, <3>1
  <2>3. QED
    BY <1>3, <2>1, <2>2
<1>6. points' = [points EXCEPT ![d] = points[d]]
  BY <1>1, <1>4
<1>7. /\ job[d].why \in {"none", "busy", "unbound"} \union Whys /\ job[d].recovered \in BOOLEAN
      /\ d \in Actors /\ Types /\ Grows
  BY <1>0, <1>1, NoGrowth DEF DocFacts, BaseInv
<1>8. PICK pc \in {"done", "failed"} : Step(d, pc, job[d].why, job[d].recovered)
  <2>1. Goto(d, "done") \/ Leave(d, job[d].why)
    BY DEF TextCleanup, TextAbort
  <2>2. QED
    BY <1>7, <2>1, JobForms
<1>9. JobsOK
  <2>1. /\ LockMove(d, pc) /\ pc \in PCs /\ pc \notin TextHolding \union {"committed"}
        /\ pc \notin SpecialHolding \union {"pinned", "aborting"}
        /\ job[d].pc \notin Past /\ job[d].pc # "idle"
    BY <1>1 DEF LockMove, Locking, Holding, TextHolding, SpecialHolding, PCs, Waiting, Past
  <2>2. QED
    BY <1>2, <1>7, <1>8, <2>1, StepOK DEF Grows, JobsOK
<1>10. QED
  BY <1>1, <1>2, <1>4, <1>5, <1>6, <1>9, OneStore DEF JobsOK

\* What an actor that finishes or undoes a publication works on.
LEMMA TargetFacts ==
  ASSUME BaseInv, NEW a \in Actors, job[a].pc \in SpecialHolding
  PROVE  /\ Target(a) \in SpecialDocs /\ Target(a) \in Docs /\ Target(a) \notin TextDocs
         /\ job[a].g \in 1..Len(exec[Target(a)]) /\ a \notin TextDocs
         /\ rev < 0 /\ lock = a /\ job[a] \in Jobs
PROOF
<1>1. job[a].pc # "idle" /\ job[a].pc \notin {"idle", "claimed", "failed"}
  BY DEF SpecialHolding
<1>2. job[a].pc \in Holding /\ job[a].pc \notin {"restore", "abort"}
  BY DEF SpecialHolding, Holding
<1>3. a \notin TextDocs
  BY DEF BaseInv, JobInv
<1>4. rev < 0 /\ lock = a
  BY <1>2 DEF BaseInv, LockInv, Types
<1>5. Target(a) \in SpecialDocs
  BY <1>1, <1>3 DEF BaseInv, JobInv, Actors, Docs, Target
<1>6. job[a].g \in 1..Len(exec[Target(a)])
  BY <1>1 DEF BaseInv, JobInv, Target
<1>7. QED
  BY <1>3, <1>4, <1>5, <1>6, PublicationAssumption DEF Docs, BaseInv, Types

\* Points first: of the old generation, or of the candidate.
LEMMA DeleteOK ==
  ASSUME BaseInv, NEW a \in Actors, DeleteOld(a) \/ DeleteCandidate(a)
  PROVE  BaseInv'
PROOF
<1>1. job[a].pc \in {"finish", "undo"} /\ UNCHANGED <<rev, lock, doc, exec, backup, exposed>>
  BY DEF DeleteOld, DeleteCandidate, At
<1>2. /\ Target(a) \in Docs /\ a \notin TextDocs /\ rev < 0 /\ lock = a /\ job[a] \in Jobs
      /\ job[a].pc \in Holding
  BY <1>1, TargetFacts DEF SpecialHolding, Holding
<1> DEFINE d == Target(a)
<1>3. /\ backup \in [Docs -> Backups] /\ points \in [Docs -> SUBSET (Nat \union {Hole})]
      /\ points[d] \subseteq Generations(d) /\ backup[d].gens \subseteq Generations(d)
      /\ Types /\ rev' \in Int /\ exposed' \subseteq Docs
  BY <1>1, <1>2 DEF BaseInv, Types, Names
<1>4. PICK P : P \subseteq Generations(d) /\ points' = [points EXCEPT ![d] = P]
  <2>1. \/ points' = [points EXCEPT ![d] = points[d] \ exec[d][job[a].g].old]
        \/ points' = [points EXCEPT ![d] = points[d] \ {job[a].g}]
        \/ points' = points
    BY DEF DeleteOld, DeleteCandidate
  <2>2. CASE points' = points
    <3>1. points' = [points EXCEPT ![d] = points[d]]
      BY <1>3, <2>2
    <3>2. QED
      BY <1>3, <3>1
  <2>3. CASE points' = [points EXCEPT ![d] = points[d] \ exec[d][job[a].g].old]
    <3>1. points[d] \ exec[d][job[a].g].old \subseteq Generations(d)
      BY <1>3
    <3>2. QED
      BY <2>3, <3>1
  <2>4. CASE points' = [points EXCEPT ![d] = points[d] \ {job[a].g}]
    <3>1. points[d] \ {job[a].g} \subseteq Generations(d)
      BY <1>3
    <3>2. QED
      BY <2>4, <3>1
  <2>5. QED
    BY <2>1, <2>2, <2>3, <2>4
<1>5. backup' = [backup EXCEPT ![d] = backup[d]] /\ backup[d] \in Backups
  BY <1>1, <1>2, <1>3
<1>6. PICK pc \in {"finishing", "undoing"} : Step(a, pc, job[a].why, job[a].recovered)
  <2>1. Goto(a, "finishing") \/ Goto(a, "undoing")
    BY DEF DeleteOld, DeleteCandidate
  <2>2. QED
    BY <1>3, <2>1, JobForms
<1>7. JobsOK
  <2>0. ~(rev' >= 0) /\ lock' = lock
    BY <1>1, <1>2, <1>3
  <2>1. /\ LockMove(a, pc) /\ pc \in PCs /\ pc \notin TextHolding \union {"committed"}
        /\ job[a].pc \notin Past /\ job[a].pc # "idle"
    BY <1>1, <1>2, <2>0
    DEF LockMove, Locking, Holding, TextHolding, SpecialHolding, PCs, Waiting, Past
  <2>2. job[a].why \in {"none", "busy", "unbound"} \union Whys /\ job[a].recovered \in BOOLEAN
    BY <1>2 DEF Jobs
  <2>3. Grows
    BY <1>1, NoGrowth
  <2>4. QED
    BY <1>2, <1>3, <1>6, <2>1, <2>2, <2>3, StepOK DEF Grows, JobsOK
<1>8. QED
  BY <1>1, <1>2, <1>3, <1>4, <1>5, <1>7, OneStore DEF JobsOK

\* The transaction that closes the execution and opens the fence.
LEMMA SettleOK ==
  ASSUME BaseInv, NEW a \in Actors, FinishTx(a) \/ AbortTx(a) \/ (a = Rec /\ ResumeTx)
  PROVE  BaseInv'
PROOF
<1>1. /\ job[a].pc \in {"finishing", "undoing", "resume"}
      /\ \E next \in {"done", "failed", "idle"} :
            Settle(a, next) /\ (next = "idle" => a = Rec)
  BY DEF FinishTx, AbortTx, ResumeTx, At
<1> DEFINE d == Target(a)
           g == job[a].g
<1>2. /\ d \in Docs /\ d \notin TextDocs /\ a \notin TextDocs /\ lock = a /\ job[a] \in Jobs
      /\ g \in 1..Len(exec[d]) /\ job[a].pc \in Locking /\ job[a].pc \notin Past
  BY <1>1, TargetFacts DEF SpecialHolding, Holding, Locking, Past
<1>3. DocFacts(d) /\ Types
  BY <1>2, DocFactsHold DEF BaseInv
<1>4. lock' = None /\ UNCHANGED stores /\ rev' \in Int /\ exposed' \subseteq Docs
  BY <1>1, OpenFacts DEF Settle
<1>5. Grows
  <2>1. CASE FinishTx(a)
    <3>1. exec' = [exec EXCEPT ![d][g].st = "completed"]
      BY <2>1 DEF FinishTx
    <3>2. Edit(d, g, [exec[d][g] EXCEPT !.st = "completed"])
      BY <1>2, <3>1, EditForms
    <3>3. QED
      BY <1>2, <3>2, EditOK
  <2>2. CASE AbortTx(a)
    <3> DEFINE f == [exec[d][g] EXCEPT !.st = "error", !.phase = "aborted"]
    <3>1. exec' = [exec EXCEPT ![d][g] = f]
      BY <2>2 DEF AbortTx
    <3>2. f \in Executions
      BY <1>2, <1>3, Fields DEF DocFacts
    <3> HIDE DEF f
    <3>3. QED
      BY <1>2, <3>1, <3>2, EditOK DEF Edit
  <2>3. CASE ResumeTx /\ a = Rec
    <3>1. exec' = [exec EXCEPT ![d][g] = NewExec]
      BY <2>3 DEF ResumeTx
    <3>2. QED
      BY <1>2, <3>1, NewExecution, EditOK DEF Edit
  <2>4. QED
    BY <2>1, <2>2, <2>3
<1>6. NewRow(d)
  <2>1. \/ doc' = [doc EXCEPT ![d].mark = 0]
        \/ doc' = [doc EXCEPT ![d].st = "error", ![d].link = 0, ![d].mark = 0]
        \/ doc' = [doc EXCEPT ![d].st = "waiting", ![d].mark = 0]
    BY DEF FinishTx, AbortTx, ResumeTx
  <2> HIDE DEF d
  <2>2. /\ doc' \in [Docs -> Rows] /\ \A e \in Docs : e # d => doc'[e] = doc[e]
        /\ doc'[d].link \in {doc[d].link, 0} /\ doc'[d].mark = 0
        /\ doc'[d].pg = doc[d].pg
    <3>1. CASE doc' = [doc EXCEPT ![d].mark = 0]
      BY <1>2, <1>3, <3>1 DEF DocFacts, Rows
    <3>2. CASE doc' = [doc EXCEPT ![d].st = "error", ![d].link = 0, ![d].mark = 0]
      BY <1>2, <1>3, <3>2 DEF DocFacts, Rows
    <3>3. CASE doc' = [doc EXCEPT ![d].st = "waiting", ![d].mark = 0]
      BY <1>2, <1>3, <3>3 DEF DocFacts, Rows
    <3>4. QED
      BY <2>1, <3>1, <3>2, <3>3
  <2>3. QED
    BY <1>2, <1>5, <2>2, OldRow, RowNames
<1>7. JobsOK
  <2>1. CASE a = Rec
    <3>1. job' = [job EXCEPT ![a] = Free(a)]
      BY <1>1, <2>1 DEF Settle
    <3>2. QED
      BY <1>2, <1>4, <1>5, <3>1, FreeOK DEF Grows, JobsOK
  <2>2. CASE a # Rec
    <3>1. PICK pc \in {"done", "failed"} : Goto(a, pc)
      BY <1>1, <2>2 DEF Settle, Goto
    <3>2. Step(a, pc, job[a].why, job[a].recovered)
      BY <1>3, <3>1, JobForms
    <3>3. job[a].why \in {"none", "busy", "unbound"} \union Whys /\ job[a].recovered \in BOOLEAN
      BY <1>2 DEF Jobs
    <3>4. /\ LockMove(a, pc) /\ pc \in PCs /\ pc \notin TextHolding \union {"committed"}
          /\ pc \notin SpecialHolding \union {"pinned", "aborting"} /\ job[a].pc # "idle"
      BY <1>2, <1>4 DEF LockMove, Locking, Holding, TextHolding, SpecialHolding, PCs, Waiting, Past
    <3>5. QED
      BY <1>2, <1>4, <1>5, <3>2, <3>3, <3>4, StepOK DEF Grows, JobsOK
  <2>3. QED
    BY <2>1, <2>2
<1>8. QED
  BY <1>2, <1>4, <1>5, <1>6, <1>7, RowOK

-----------------------------------------------------------------------------
(* The invariant holds.                                                    *)

\* The invariant holds initially.
LEMMA BaseInit == Init => BaseInv
PROOF
<1> SUFFICES ASSUME Init PROVE BaseInv
  OBVIOUS
<1>1. Docs \subseteq Actors /\ Rec \notin Docs /\ None \notin Actors
  BY PublicationAssumption DEF Actors, Docs, Rec, None
<1>2. \A a \in Actors : Free(a) \in Jobs
  BY DEF Free, Jobs, PCs, Waiting, Actors
<1>3. \A d \in Docs : exec[d] = <<>> /\ Len(exec[d]) = 0 /\ exec[d] \in Seq(Executions)
  BY DEF Init
<1>4. Types
  <2>1. NoBackup \in Backups
    BY DEF NoBackup, Backups
  <2>2. exec \in [Docs -> Seq(Executions)] /\ job \in [Actors -> Jobs]
    BY <1>2, <1>3 DEF Init
  <2>3. QED
    BY <2>1, <2>2 DEF Init, Types
<1>5. Names
  BY <1>3 DEF Init, Names, Generations, NoBackup
<1>6. \A a \in Actors : job[a].pc = "idle"
  BY DEF Init, Free
<1>7. JobInv
  <2>1. \A d \in Docs : job[d].d = d
    BY <1>1 DEF Init, Free
  <2>2. Rec \in Actors
    BY DEF Actors
  <2>3. QED
    BY <1>6, <2>1, <2>2 DEF JobInv, TextHolding, SpecialHolding
<1>8. LockInv
  BY <1>1, <1>6 DEF LockInv, Init, Holding, TextHolding, SpecialHolding
<1>9. QED
  BY <1>4, <1>5, <1>7, <1>8 DEF BaseInv

\* Every step keeps the invariant.
LEMMA BaseStep == BaseInv /\ [Next]_vars => BaseInv'
PROOF
<1> SUFFICES ASSUME BaseInv, [Next]_vars PROVE BaseInv'
  OBVIOUS
<1>1. \A d \in Docs : d \in Actors
  BY DEF Actors
<1>2. Rec \in Actors
  BY DEF Actors
<1>3. CASE UNCHANGED vars
  <2>1. UNCHANGED <<rev, lock, doc, exec, stores, job, exposed>>
    BY <1>3 DEF vars, stores
  <2>2. Grows
    BY <2>1, NoGrowth
  <2>3. JobsOK /\ rev' \in Int
    BY <2>1, <2>2, SameJobs
  <2>4. exposed' \subseteq Docs
    BY <2>1 DEF BaseInv, Types
  <2>5. QED
    BY <2>1, <2>3, <2>4, StoresStay DEF JobsOK
<1>4. CASE Recover
  BY <1>2, <1>4, SettleOK, DeleteOK, RecoverUnboundOK, RecoverFencedOK, DieOK
  DEF Recover, Undo, FinishRefused
<1>5. CASE Fault
  <2>1. CASE \E a \in Actors : Crash(a)
    BY <2>1, DieOK DEF Crash
  <2>2. CASE \E d \in Docs : CleanupCancelled(d) \/ RestoreFails(d) \/ PrepareFails(d)
    <3>1. "error" \in Whys
      BY DEF Whys
    <3>2. QED
      BY <2>2, <3>1, MovesOK
  <2>3. CASE \E d \in Docs : \E why \in Whys :
                TextFail(d, why) \/ SpecialFail(d, why) \/ CommitLost(d, why)
    BY <2>3, MovesOK, CommitOK
  <2>4. QED
    BY <1>5, <2>1, <2>2, <2>3 DEF Fault
<1>6. ASSUME NEW d \in Docs, Consume(d) PROVE BaseInv'
  <2>1. "error" \in Whys
    BY DEF Whys
  <2>2. CASE Claim(d) \/ TextLease(d) \/ TextBusy(d) \/ PublishRefused(d) \/ SpecialNoLease(d)
    BY <2>2, StatusOK
  <2>3. CASE Ensure(d) \/ CloseFailed(d) \/ CloseCompleted(d)
    BY <2>3, EnsureOK, CloseOK
  <2>4. CASE \/ BackupFirst(d) \/ BackupRest(d) \/ UpsertSome(d) \/ UpsertRest(d)
             \/ Restore(d) \/ UpsertCandidate(d)
    BY <2>4, WritesOK
  <2>5. CASE BackupReuse(d) \/ BackupRefused(d) \/ RecordRefused(d) \/ AbortNoLease(d)
    BY <2>1, <2>5, MovesOK
  <2>6. CASE TextCommit(d)
    BY <2>1, <2>6, CommitOK
  <2>7. CASE TextCleanup(d) \/ TextAbort(d)
    BY <2>7, TextEndOK
  <2>8. CASE Record(d) \/ Freeze(d) \/ PointsWritten(d) \/ SpecialCommit(d)
    BY <2>8, ManifestOK
  <2>9. CASE SpecialLease(d) \/ AbortLease(d)
    BY <2>9, SpecialLeaseOK
  <2>10. QED
    BY <1>6, <2>2, <2>3, <2>4, <2>5, <2>6, <2>7, <2>8, <2>9 DEF Consume
<1>7. ASSUME NEW d \in Docs,
             Undo(d) \/ ClaimStuck(d) \/ \E replay \in BOOLEAN : Enqueue(d, replay)
      PROVE  BaseInv'
  <2>1. CASE Undo(d)
    BY <1>1, <2>1, DeleteOK, SettleOK DEF Undo
  <2>2. CASE ClaimStuck(d)
    BY <2>2, QueueOK
  <2>3. CASE \E replay \in BOOLEAN : Enqueue(d, replay)
    BY <2>3, QueueOK
  <2>4. QED
    BY <1>7, <2>1, <2>2, <2>3
<1>8. QED
  BY <1>3, <1>4, <1>5, <1>6, <1>7 DEF Next

\* The invariant holds in every reachable state.
LEMMA BaseHolds == Spec => []BaseInv
  BY BaseInit, BaseStep, PTL DEF Spec

\* Types for every set of documents: every reference of a document or a store
\* exists, and whoever holds the publication lock is behind the fence, but for
\* a text publication past its commit.
THEOREM PublicationTypes == Spec => []TypeOK
PROOF
<1>1. BaseInv => TypeOK
  <2> SUFFICES ASSUME BaseInv PROVE TypeOK
    OBVIOUS
  <2>1. rev \in Int /\ lock \in Actors \union {None}
    BY DEF BaseInv, Types, LockInv
  <2>2. \A a \in Actors : lock = a => rev < 0 \/ At(a, {"committed", "restore", "abort"})
    BY <2>1 DEF BaseInv, LockInv, At
  <2>3. QED
    BY <2>1, <2>2 DEF BaseInv, Types, Names, Generations, TypeOK
<1>2. QED
  BY <1>1, BaseHolds, PTL

-----------------------------------------------------------------------------
(* The refinement of the read fence.                                       *)

\* What retrieval reads is not touched.
SameContent == points' = points /\ \A d \in Docs : doc'[d].pg = doc[d].pg

\* What a step may do to the fence and to what is read behind it.
FenceMove ==
  \/ rev' = rev /\ SameContent
  \/ rev >= 0 /\ rev' = -(rev + 1) /\ SameContent
  \/ rev < 0 /\ rev' \in {rev, -rev}

\* A publisher with the lock is behind the fence, if no text commit loses its
\* answer.
LEMMA Fenced ==
  ASSUME BaseInv, LossyDocs \cap TextDocs = {}, NEW a \in Actors, job[a].pc \in Holding
  PROVE  rev < 0
  BY DEF BaseInv, LockInv, Types

\* Writing other fields of a row leaves the served generation.
LEMMA ServedStays ==
  ASSUME BaseInv, NEW d \in Docs,
         \/ doc' = doc
         \/ \E x : doc' = [doc EXCEPT ![d].st = x]
         \/ \E x : doc' = [doc EXCEPT ![d].link = x]
         \/ \E x : doc' = [doc EXCEPT ![d].mark = x]
         \/ \E x, y : doc' = [doc EXCEPT ![d].st = x, ![d].link = y]
  PROVE  \A c \in Docs : doc'[c].pg = doc[c].pg
PROOF
<1>1. doc \in [Docs -> Rows]
  BY DEF BaseInv, Types, Rows
<1>2. ASSUME NEW x, doc' = [doc EXCEPT ![d].st = x]
      PROVE  \A c \in Docs : doc'[c].pg = doc[c].pg
  <2>1. doc'[d] = [doc[d] EXCEPT !.st = x] /\ \A c \in Docs : c # d => doc'[c] = doc[c]
    BY <1>1, <1>2
  <2>2. doc[d] \in Rows
    BY <1>1
  <2>3. [doc[d] EXCEPT !.st = x].pg = doc[d].pg
    BY <2>2 DEF Rows
  <2>4. QED
    BY <2>1, <2>3
<1>3. ASSUME NEW x, doc' = [doc EXCEPT ![d].link = x]
      PROVE  \A c \in Docs : doc'[c].pg = doc[c].pg
  <2>1. doc'[d] = [doc[d] EXCEPT !.link = x] /\ \A c \in Docs : c # d => doc'[c] = doc[c]
    BY <1>1, <1>3
  <2>2. doc[d] \in Rows
    BY <1>1
  <2>3. [doc[d] EXCEPT !.link = x].pg = doc[d].pg
    BY <2>2 DEF Rows
  <2>4. QED
    BY <2>1, <2>3
<1>4. ASSUME NEW x, doc' = [doc EXCEPT ![d].mark = x]
      PROVE  \A c \in Docs : doc'[c].pg = doc[c].pg
  <2>1. doc'[d] = [doc[d] EXCEPT !.mark = x] /\ \A c \in Docs : c # d => doc'[c] = doc[c]
    BY <1>1, <1>4
  <2>2. doc[d] \in Rows
    BY <1>1
  <2>3. [doc[d] EXCEPT !.mark = x].pg = doc[d].pg
    BY <2>2 DEF Rows
  <2>4. QED
    BY <2>1, <2>3
<1>5. ASSUME NEW x, NEW y, doc' = [doc EXCEPT ![d].st = x, ![d].link = y]
      PROVE  \A c \in Docs : doc'[c].pg = doc[c].pg
  <2>1. doc'[d] = [doc[d] EXCEPT !.st = x, !.link = y] /\ \A c \in Docs : c # d => doc'[c] = doc[c]
    BY <1>1, <1>5
  <2>2. doc[d] \in Rows
    BY <1>1
  <2>3. [doc[d] EXCEPT !.st = x, !.link = y].pg = doc[d].pg
    BY <2>2 DEF Rows
  <2>4. QED
    BY <2>1, <2>3
<1>6. QED
  BY <1>2, <1>3, <1>4, <1>5

\* The lease: the fence closes, or was closed.
LEMMA LeaseMoves ==
  ASSUME BaseInv, NEW a, Lease(a), SameContent
  PROVE  FenceMove
  BY DEF BaseInv, Types, Lease, FenceMove

\* Every step is a step of the fence.
LEMMA FenceSteps ==
  ASSUME BaseInv, LossyDocs \cap TextDocs = {}, [Next]_vars
  PROVE  FenceMove
PROOF
<1>1. \A d \in Docs : d \in Actors
  BY DEF Actors
<1>2. Rec \in Actors /\ rev \in Int
  BY DEF Actors, BaseInv, Types
<1> USE DEF stores
<1>3. CASE UNCHANGED vars
  BY <1>3 DEF vars, FenceMove, SameContent
<1>4. ASSUME NEW a \in Actors, job[a].pc \in Holding, rev' \in {rev, -rev}
      PROVE  FenceMove
  BY <1>4, Fenced DEF FenceMove
<1>5. ASSUME NEW a \in Actors, Undo(a) \/ (a = Rec /\ ResumeTx)
      PROVE  FenceMove
  <2>1. job[a].pc \in Holding
    BY <1>5 DEF Undo, DeleteOld, DeleteCandidate, FinishTx, AbortTx, ResumeTx, At, Holding, SpecialHolding
  <2>2. rev' \in {rev, -rev}
    BY <1>5 DEF Undo, DeleteOld, DeleteCandidate, FinishTx, AbortTx, ResumeTx, Settle, OpenFence
  <2>3. QED
    BY <1>4, <2>1, <2>2
<1>6. ASSUME NEW d \in Docs, RecoverUnbound(d) \/ RecoverFenced(d)
      PROVE  FenceMove
  <2>1. SameContent /\ Lease(Rec)
    BY <1>6 DEF RecoverUnbound, RecoverFenced, SameContent
  <2>2. QED
    BY <2>1, LeaseMoves
<1>7. ASSUME rev' = rev, points' = points, doc' = doc
      PROVE  FenceMove
  BY <1>7 DEF FenceMove, SameContent
<1>8. ASSUME Fault PROVE FenceMove
  <2>1. CASE \E a \in Actors : Crash(a)
    BY <1>7, <2>1 DEF Crash, Die
  <2>2. CASE \E d \in Docs : \/ CleanupCancelled(d) \/ RestoreFails(d) \/ PrepareFails(d)
                             \/ \E why \in Whys : TextFail(d, why) \/ SpecialFail(d, why)
    BY <1>7, <2>2 DEF CleanupCancelled, RestoreFails, PrepareFails, TextFail, SpecialFail
  <2>3. ASSUME NEW d \in Docs, NEW why \in Whys, CommitLost(d, why) PROVE FenceMove
    <3>1. job[d].pc \in Holding
      BY <2>3 DEF CommitLost, TextCommitted, SpecialCommitted, At, Holding, TextHolding, SpecialHolding
    <3>2. rev' \in {rev, -rev}
      BY <2>3 DEF CommitLost, TextCommitted, OpenFence
    <3>3. QED
      BY <1>1, <1>4, <3>1, <3>2
  <2>4. QED
    BY <1>8, <2>1, <2>2, <2>3 DEF Fault
<1>9. ASSUME NEW d \in Docs, Consume(d) PROVE FenceMove
  <2>1. CASE RecordRefused(d) \/ AbortNoLease(d) \/ CloseCompleted(d) \/ BackupReuse(d)
             \/ BackupRefused(d) \/ BackupFirst(d) \/ BackupRest(d) \/ TextCleanup(d)
    BY <1>7, <2>1 DEF RecordRefused, AbortNoLease, CloseCompleted, BackupReuse, BackupRefused,
                      BackupFirst, BackupRest, TextCleanup
  <2>2. CASE Claim(d) \/ TextBusy(d) \/ PublishRefused(d) \/ SpecialNoLease(d)
             \/ TextLease(d) \/ SpecialLease(d)
    <3>1. points' = points /\ \E x : doc' = [doc EXCEPT ![d].st = x]
      BY <2>2 DEF Claim, TextBusy, PublishRefused, SpecialNoLease, TextLease, SpecialLease
    <3>2. SameContent
      BY <3>1, ServedStays DEF SameContent
    <3>3. rev' = rev \/ Lease(d)
      BY <2>2 DEF Claim, TextBusy, PublishRefused, SpecialNoLease, TextLease, SpecialLease
    <3>4. QED
      BY <3>2, <3>3, LeaseMoves DEF FenceMove
  <2>3. CASE Ensure(d)
    <3>1. points' = points /\ rev' = rev /\ \E x : doc' = [doc EXCEPT ![d].link = x]
      BY <2>3 DEF Ensure
    <3>2. QED
      BY <3>1, ServedStays DEF FenceMove, SameContent
  <2>4. CASE Record(d)
    <3>1. points' = points /\ rev' = rev /\ doc' = [doc EXCEPT ![d].mark = job[d].g]
      BY <2>4 DEF Record
    <3>2. QED
      BY <3>1, ServedStays DEF FenceMove, SameContent
  <2>5. CASE CloseFailed(d)
    <3>1. /\ points' = points /\ rev' = rev
          /\ \/ doc' = doc \/ doc' = [doc EXCEPT ![d].st = "waiting"]
             \/ doc' = [doc EXCEPT ![d].st = "error", ![d].link = 0]
      BY <2>5 DEF CloseFailed
    <3>2. QED
      BY <3>1, ServedStays DEF FenceMove, SameContent
  <2>6. CASE AbortLease(d)
    <3>1. SameContent /\ Lease(d)
      BY <2>6 DEF AbortLease, SameContent
    <3>2. QED
      BY <3>1, LeaseMoves
  <2>7. CASE UpsertSome(d) \/ UpsertRest(d) \/ TextCommit(d) \/ Restore(d) \/ TextAbort(d)
             \/ Freeze(d) \/ UpsertCandidate(d) \/ PointsWritten(d) \/ SpecialCommit(d)
    <3>1. job[d].pc \in Holding
      BY <2>7 DEF UpsertSome, UpsertRest, TextCommit, TextCommitted, Restore, TextAbort, Freeze,
                  UpsertCandidate, PointsWritten, SpecialCommit, SpecialCommitted, At,
                  Holding, TextHolding, SpecialHolding
    <3>2. rev' \in {rev, -rev}
      BY <2>7 DEF UpsertSome, UpsertRest, TextCommit, TextCommitted, Restore, TextAbort, Freeze,
                  UpsertCandidate, PointsWritten, SpecialCommit, OpenFence
    <3>3. QED
      BY <1>1, <1>4, <3>1, <3>2
  <2>8. QED
    BY <1>9, <2>1, <2>2, <2>3, <2>4, <2>5, <2>6, <2>7 DEF Consume
<1>10. ASSUME NEW d \in Docs, ClaimStuck(d) \/ \E replay \in BOOLEAN : Enqueue(d, replay)
       PROVE  FenceMove
  <2>1. points' = points /\ rev' = rev /\ \E x, y : doc' = [doc EXCEPT ![d].st = x, ![d].link = y]
    BY <1>10 DEF ClaimStuck, Enqueue
  <2>2. QED
    BY <2>1, ServedStays DEF FenceMove, SameContent
<1>11. CASE FinishRefused
  BY <1>7, <1>11 DEF FinishRefused, Die
<1>12. QED
  BY <1>1, <1>2, <1>3, <1>5, <1>6, <1>8, <1>9, <1>10, <1>11 DEF Next, Recover

\* What the documents hold is what the fence protects.
LEMMA ContentTypes ==
  ASSUME BaseInv
  PROVE  [points |-> points, rows |-> [d \in Docs |-> doc[d].pg]] \in Fence!Contents
PROOF
<1>1. points \in [Docs -> SUBSET (Nat \union {Hole})] /\ doc \in [Docs -> Rows]
  BY DEF BaseInv, Types, Rows
<1>2. points \in [Docs -> SUBSET Int]
  BY <1>1 DEF Hole
<1>3. [d \in Docs |-> doc[d].pg] \in [Docs -> Nat]
  BY <1>1 DEF Rows
<1>4. QED
  BY <1>2, <1>3 DEF Fence!Contents

\* Index publication implements the read fence, for every set of documents and
\* whatever dies or fails where, as long as no text commit loses its answer:
\* points change only behind a negative revision, rows only behind it or with
\* its opening, and no revision comes back.
THEOREM PublicationImplementsFence ==
  ASSUME LossyDocs \cap TextDocs = {}
  PROVE  Spec => ImplementsFence
PROOF
<1> DEFINE held == [points |-> points, rows |-> [d \in Docs |-> doc[d].pg]]
<1>1. Init => Fence!FenceInit
  <2> SUFFICES ASSUME Init PROVE Fence!FenceInit
    OBVIOUS
  <2>1. held \in Fence!Contents
    BY BaseInit, ContentTypes
  <2>2. QED
    BY <2>1 DEF Fence!FenceInit, Init
<1>2. BaseInv /\ BaseInv' /\ [Next]_vars => [Fence!FenceNext]_Fence!fence
  <2> SUFFICES ASSUME BaseInv, BaseInv', [Next]_vars PROVE [Fence!FenceNext]_Fence!fence
    OBVIOUS
  <2>1. held' \in Fence!Contents
    <3>1. points' \in [Docs -> SUBSET (Nat \union {Hole})] /\ doc' \in [Docs -> Rows]
      BY DEF BaseInv, Types, Rows
    <3>2. points' \in [Docs -> SUBSET Int]
      BY <3>1 DEF Hole
    <3>3. [d \in Docs |-> doc'[d].pg] \in [Docs -> Nat]
      BY <3>1 DEF Rows
    <3>4. QED
      BY <3>2, <3>3 DEF Fence!Contents
  <2>2. SameContent => held' = held
    BY DEF SameContent
  <2>3. FenceMove
    BY FenceSteps
  <2> HIDE DEF held
  <2>4. QED
    BY <2>1, <2>2, <2>3 DEF FenceMove, Fence!FenceNext, Fence!EnterFence, Fence!LeaveFence,
       Fence!WriteBehindFence, Fence!fence, held
<1>3. QED
  BY <1>1, <1>2, BaseHolds, PTL DEF Spec, ImplementsFence, Fence!FenceSpec

=============================================================================
