---------------------- MODULE EmbeddingMigrationProofs ----------------------
(***************************************************************************)
(* The migration's tables, its pointer and its evidence for every number   *)
(* of segments, collections, workers, requests, jobs and faults.           *)
(***************************************************************************)
EXTENDS EmbeddingMigration, SequenceTheorems, TLAPS

-----------------------------------------------------------------------------
(* The type invariant, table by table.                                     *)

BindingStates == {"shadow", "serving", "retained", "retired"}
JobStates == {"queued", "running", "succeeded", "failed"}

\* The corpus, the collections and the history; a publication under way leaves
\* room for the revision it ends with.
World ==
    /\ corpus \in Text /\ rev \in 0..MaxRev /\ ptr \in Colls
    /\ pub \in {None} \union [seg : Segs, ver : Versions \union {0}]
    /\ coll \in [Colls -> {NoColl} \union Text]
    /\ purges \subseteq Colls /\ missed \in [Colls -> SUBSET Segs] /\ faults \in 0..MaxFaults
    /\ pub # None => rev < MaxRev

\* Bindings, migrations and receipts.
Tables ==
    /\ bnd \in Seq(BindingType) /\ mig \in Seq(MigType) /\ receipts \in Seq(Text)
    /\ Len(receipts) = Len(mig)
    /\ \A m \in 1..Len(mig) : mig[m].src \in 1..Len(bnd) /\ mig[m].tgt \in 1..Len(bnd)

\* The action jobs.
Queue ==
    /\ jobs \in Seq(JobType)
    /\ \A j \in 1..Len(jobs) :
          /\ jobs[j].state = "running" <=> jobs[j].owner \in Workers
          /\ jobs[j].mig \in 1..Len(mig)

\* The workers.
Crew ==
    /\ wk \in [Workers -> {Idle} \union BusyType]
    /\ \A w \in Workers : wk[w] # Idle => wk[w].job \in 1..Len(jobs)

\* The start requests.
Requests ==
    /\ starts \in [Starters -> {Idle, Done} \union RequestType]
    /\ \A o \in Starters : starts[o].pc \notin {"idle", "done"} =>
          /\ starts[o].src \in 1..Len(bnd)
          /\ starts[o].bind \in 1..Len(bnd) \/ (starts[o].bind = 0 /\ starts[o].pc # "begin")

\* The exclusive lease: no publication runs while a cutover holds it.
Lease ==
    /\ cut \in {None} \union CutType
    /\ cut # None => cut.mig \in 1..Len(mig) /\ pub = None

TypeInv == World /\ Tables /\ Queue /\ Crew /\ Requests /\ Lease

\* The parts are the module's type invariant.
LEMMA TypeParts == TypeInv => TypeOK
PROOF
<1> SUFFICES ASSUME TypeInv PROVE TypeOK
  OBVIOUS
<1>1. /\ DOMAIN bnd = 1..Len(bnd) /\ DOMAIN mig = 1..Len(mig)
      /\ DOMAIN jobs = 1..Len(jobs)
  BY DEF TypeInv, Tables, Queue
<1>2. References
  BY <1>1 DEF TypeInv, Tables, Queue, Crew, Requests, Lease, References
<1>3. QED
  BY <1>1, <1>2 DEF TypeInv, World, Tables, Queue, Crew, Requests, Lease, TypeOK

-----------------------------------------------------------------------------
(* Rows and their edits.                                                   *)

\* What a row of a table is.
LEMMA Rows ==
  ASSUME TypeInv
  PROVE  /\ DOMAIN bnd = 1..Len(bnd) /\ Len(bnd) \in Nat
         /\ DOMAIN mig = 1..Len(mig) /\ Len(mig) \in Nat
         /\ DOMAIN receipts = 1..Len(mig) /\ DOMAIN jobs = 1..Len(jobs) /\ Len(jobs) \in Nat
         /\ \A b \in 1..Len(bnd) : bnd[b] \in BindingType
         /\ \A m \in 1..Len(mig) : /\ mig[m] \in MigType /\ receipts[m] \in Text
                                   /\ Target(m) \in Colls
         /\ \A j \in 1..Len(jobs) : jobs[j] \in JobType
PROOF
<1>1. /\ bnd \in Seq(BindingType) /\ mig \in Seq(MigType) /\ receipts \in Seq(Text)
      /\ Len(receipts) = Len(mig) /\ jobs \in Seq(JobType)
  BY DEF TypeInv, Tables, Queue
<1>0. \A b \in 1..Len(bnd) : bnd[b] \in BindingType
  BY <1>1
<1>2. \A b \in 1..Len(bnd) : bnd[b] \in BindingType /\ bnd[b].coll \in Colls
  BY <1>0 DEF BindingType
<1>3. \A m \in 1..Len(mig) : mig[m].tgt \in 1..Len(bnd)
  BY DEF TypeInv, Tables
<1>4. \A m \in 1..Len(mig) : mig[m] \in MigType /\ receipts[m] \in Text
  BY <1>1
<1>5. \A j \in 1..Len(jobs) : jobs[j] \in JobType
  BY <1>1
<1>6. /\ DOMAIN bnd = 1..Len(bnd) /\ Len(bnd) \in Nat
      /\ DOMAIN mig = 1..Len(mig) /\ Len(mig) \in Nat
      /\ DOMAIN receipts = 1..Len(mig) /\ DOMAIN jobs = 1..Len(jobs) /\ Len(jobs) \in Nat
  BY <1>1
<1>7. QED
  BY <1>2, <1>3, <1>4, <1>5, <1>6 DEF Target

\* The state of one binding is set.
LEMMA BindingEdit ==
  ASSUME NEW s \in Seq(BindingType), NEW b \in 1..Len(s), NEW st \in BindingStates
  PROVE  /\ [s EXCEPT ![b].state = st] \in Seq(BindingType)
         /\ Len([s EXCEPT ![b].state = st]) = Len(s)
         /\ \A x \in 1..Len(s) :
              /\ [s EXCEPT ![b].state = st][x].coll = s[x].coll
              /\ [s EXCEPT ![b].state = st][x].state = IF x = b THEN st ELSE s[x].state
PROOF
<1> DEFINE r == [s[b] EXCEPT !.state = st]
<1>1. \A x \in 1..Len(s) : s[x] \in BindingType
  OBVIOUS
<1>2. r \in BindingType /\ r.coll = s[b].coll /\ r.state = st
  BY <1>1 DEF BindingType, BindingStates
<1>3. [s EXCEPT ![b].state = st] = [s EXCEPT ![b] = r]
  OBVIOUS
<1> HIDE DEF r
<1>4. QED
  BY <1>2, <1>3, ExceptSeq

\* One migration is replaced by a row with the same source and target.
LEMMA MigEdit ==
  ASSUME TypeInv, NEW m \in 1..Len(mig), NEW r \in MigType,
         mig' = [mig EXCEPT ![m] = r], r.src = mig[m].src, r.tgt = mig[m].tgt
  PROVE  /\ mig' \in Seq(MigType) /\ Len(mig') = Len(mig)
         /\ mig'[m] = r /\ \A n \in 1..Len(mig) : n # m => mig'[n] = mig[n]
         /\ \A n \in 1..Len(mig) : mig'[n].src = mig[n].src /\ mig'[n].tgt = mig[n].tgt
PROOF
<1>1. mig \in Seq(MigType)
  BY DEF TypeInv, Tables
<1>2. /\ mig' \in Seq(MigType) /\ Len(mig') = Len(mig)
      /\ \A n \in 1..Len(mig) : mig'[n] = IF n = m THEN r ELSE mig[n]
  BY <1>1, ExceptSeq
<1>3. QED
  BY <1>2

\* transition_migration.
LEMMA StateEdit ==
  ASSUME TypeInv, NEW m \in 1..Len(mig), NEW st \in MigStates, SetState(m, st)
  PROVE  /\ mig' \in Seq(MigType) /\ Len(mig') = Len(mig)
         /\ \A n \in 1..Len(mig) : n # m => mig'[n] = mig[n]
         /\ \A n \in 1..Len(mig) : /\ mig'[n].src = mig[n].src /\ mig'[n].tgt = mig[n].tgt
                                   /\ mig'[n].gate = mig[n].gate
         /\ mig'[m].state = st
PROOF
<1> DEFINE r == [mig[m] EXCEPT !.state = st]
<1>1. mig[m] \in MigType
  BY Rows
<1>2. /\ r \in MigType /\ r.src = mig[m].src /\ r.tgt = mig[m].tgt
      /\ r.gate = mig[m].gate /\ r.state = st
  BY <1>1 DEF MigType
<1>3. mig' = [mig EXCEPT ![m] = r]
  BY DEF SetState
<1> HIDE DEF r
<1>4. /\ mig' \in Seq(MigType) /\ Len(mig') = Len(mig)
      /\ mig'[m] = r /\ \A n \in 1..Len(mig) : n # m => mig'[n] = mig[n]
      /\ \A n \in 1..Len(mig) : mig'[n].src = mig[n].src /\ mig'[n].tgt = mig[n].tgt
  BY <1>2, <1>3, MigEdit
<1>5. \A n \in 1..Len(mig) : mig'[n].gate = mig[n].gate
  BY <1>2, <1>4
<1>6. QED
  BY <1>2, <1>4, <1>5

\* One job is replaced by a row of the same migration.
LEMMA JobEdit ==
  ASSUME TypeInv, NEW j \in 1..Len(jobs), NEW r \in JobType,
         jobs' = [jobs EXCEPT ![j] = r], r.mig = jobs[j].mig,
         r.state = "running" <=> r.owner \in Workers, Len(mig') = Len(mig)
  PROVE  Queue' /\ Len(jobs') = Len(jobs)
         /\ jobs'[j] = r /\ \A i \in 1..Len(jobs) : i # j => jobs'[i] = jobs[i]
PROOF
<1>1. jobs \in Seq(JobType)
  BY DEF TypeInv, Queue
<1>2. /\ jobs' \in Seq(JobType) /\ Len(jobs') = Len(jobs)
      /\ \A i \in 1..Len(jobs) : jobs'[i] = IF i = j THEN r ELSE jobs[i]
  BY <1>1, ExceptSeq
<1>3. ASSUME NEW i \in 1..Len(jobs)
      PROVE  /\ jobs'[i].state = "running" <=> jobs'[i].owner \in Workers
             /\ jobs'[i].mig \in 1..Len(mig)
  <2>1. CASE i = j
    BY <1>2, <2>1 DEF TypeInv, Queue
  <2>2. CASE i # j
    BY <1>2, <2>2 DEF TypeInv, Queue
  <2>3. QED
    BY <2>1, <2>2
<1>4. Queue'
  BY <1>2, <1>3 DEF Queue
<1>5. QED
  BY <1>2, <1>4

\* A worker that is not idle works on a job of a migration.
LEMMA Busy ==
  ASSUME TypeInv, NEW w \in Workers, wk[w].pc # "idle" \/ wk[w] # Idle
  PROVE  /\ wk[w] \in BusyType /\ wk[w] # Idle
         /\ wk[w].job \in 1..Len(jobs) /\ MigOf(w) \in 1..Len(mig)
PROOF
<1>1. wk[w] # Idle
  BY DEF Idle
<1>2. wk[w] \in BusyType /\ wk[w].job \in 1..Len(jobs)
  BY <1>1 DEF TypeInv, Crew
<1>3. jobs[wk[w].job].mig \in 1..Len(mig)
  BY <1>2 DEF TypeInv, Queue
<1>4. QED
  BY <1>1, <1>2, <1>3 DEF MigOf

\* Texts: no text, and a page laid over a text.
LEMMA Texts ==
  /\ Blank \in Text
  /\ \A f, g \in Text : [s \in Segs |-> IF f[s] # 0 THEN f[s] ELSE g[s]] \in Text
PROOF
<1>1. Blank \in Text
  BY DEF Blank, Text
<1>2. ASSUME NEW f \in Text, NEW g \in Text
      PROVE  [s \in Segs |-> IF f[s] # 0 THEN f[s] ELSE g[s]] \in Text
  BY DEF Text
<1>3. QED
  BY <1>1, <1>2

\* A worker at a step that holds nothing.
LEMMA AtType ==
  ASSUME NEW j \in Nat, NEW pc \in PCs
  PROVE  /\ At(j, pc) \in BusyType /\ At(j, pc).job = j /\ At(j, pc).pc = pc
         /\ At(j, pc).page = Blank
PROOF
<1>1. Blank \in Text /\ 0 \in Int /\ None \in {None} \union Evidence
  BY Texts
<1>2. At(j, pc) \in BusyType
  BY <1>1 DEF At, BusyType
<1>3. QED
  BY <1>2 DEF At, BusyType

\* A worker that collects its evidence for the verdict it pins.
LEMMA AtPinned ==
  ASSUME NEW r \in BusyType, NEW p \in {None} \union Evidence
  PROVE  /\ [r EXCEPT !.pin = p] \in BusyType
         /\ [r EXCEPT !.pin = p].job = r.job /\ [r EXCEPT !.pin = p].pc = r.pc
         /\ [r EXCEPT !.pin = p, !.judged = TRUE] \in BusyType
         /\ [r EXCEPT !.pin = p, !.judged = TRUE].job = r.job
         /\ [r EXCEPT !.pin = p, !.judged = TRUE].pc = r.pc
  BY DEF BusyType

\* A busy record is not the idle one.
LEMMA NotIdle == \A r \in BusyType : r # Idle /\ r.pc # "idle"
  BY DEF BusyType, Idle, PCs

\* One worker moves on with its job, or stops.
LEMMA CrewEdit ==
  ASSUME TypeInv, NEW w \in Workers, NEW r, wk' = [wk EXCEPT ![w] = r],
         r = Idle \/ (r \in BusyType /\ r.job \in 1..Len(jobs)),
         Len(jobs') = Len(jobs)
  PROVE  Crew' /\ wk'[w] = r /\ \A x \in Workers : x # w => wk'[x] = wk[x]
PROOF
<1>1. wk \in [Workers -> {Idle} \union BusyType]
  BY DEF TypeInv, Crew
<1>2. wk' \in [Workers -> {Idle} \union BusyType]
  BY <1>1
<1>3. \A x \in Workers : wk'[x] # Idle => wk'[x].job \in 1..Len(jobs)
  BY <1>1 DEF TypeInv, Crew
<1>4. QED
  BY <1>1, <1>2, <1>3 DEF Crew

-----------------------------------------------------------------------------
(* What a step does to the migrations and the bindings.                    *)

Judged == {"ready", "completed", "rolled_back"}

\* A cutover transaction flips the dataset to the target of m.
CutsOver(m) ==
    /\ cut # None /\ m = cut.mig /\ CutoverAllowed(m, cut.scope)
    /\ ptr' = Target(m) /\ CutoverCommit

\* A migration keeps its bindings and its verdict, is judged once it is ready,
\* is completed by its cutover only, and stays abandoned.
MigMove(m) ==
    /\ mig'[m].src = mig[m].src /\ mig'[m].tgt = mig[m].tgt
    /\ mig[m].state = "abandoned" => mig'[m].state = "abandoned"
    /\ mig'[m].gate = None => mig[m].gate = None
    /\ mig'[m].state \in Judged => mig[m].state \in Judged \/ mig'[m].gate # None
    /\ mig[m].state = "ready" /\ mig'[m].state = "completed" => CutsOver(m)

MigMoves ==
    /\ mig' \in Seq(MigType) /\ Len(mig') >= Len(mig)
    /\ \A m \in 1..Len(mig) : MigMove(m)

\* A binding keeps its collection, and a retired one stays retired.
BndMoves ==
    /\ bnd' \in Seq(BindingType) /\ Len(bnd') >= Len(bnd)
    /\ \A b \in 1..Len(bnd) : /\ bnd'[b].coll = bnd[b].coll
                              /\ bnd[b].state = "retired" => bnd'[b].state = "retired"

Good == TypeInv' /\ MigMoves /\ BndMoves

\* What a step leaves alone keeps its type.
LEMMA Frames ==
  ASSUME TypeInv
  PROVE  /\ UNCHANGED <<corpus, rev, pub, ptr, coll, purges, faults, missed>> => World'
         /\ UNCHANGED <<bnd, mig, receipts>> => Tables'
         /\ jobs' = jobs /\ Len(mig') >= Len(mig) => Queue'
         /\ wk' = wk /\ Len(jobs') >= Len(jobs) => Crew'
         /\ starts' = starts /\ Len(bnd') >= Len(bnd) => Requests'
         /\ cut' = cut /\ pub' = pub /\ Len(mig') >= Len(mig) => Lease'
PROOF
<1>0. Len(mig) \in Nat /\ Len(jobs) \in Nat /\ Len(bnd) \in Nat
  BY Rows
<1>1. UNCHANGED <<corpus, rev, pub, ptr, coll, purges, faults, missed>> => World'
  BY DEF TypeInv, World
<1>2. UNCHANGED <<bnd, mig, receipts>> => Tables'
  BY DEF TypeInv, Tables
<1>3. ASSUME jobs' = jobs, Len(mig') >= Len(mig) PROVE Queue'
  <2>1. \A i \in 1..Len(mig) : i \in 1..Len(mig')
    BY <1>0, <1>3
  <2>2. QED
    BY <1>3, <2>1 DEF TypeInv, Queue
<1>4. ASSUME wk' = wk, Len(jobs') >= Len(jobs) PROVE Crew'
  <2>1. \A i \in 1..Len(jobs) : i \in 1..Len(jobs')
    BY <1>0, <1>4
  <2>2. QED
    BY <1>4, <2>1 DEF TypeInv, Crew
<1>5. ASSUME starts' = starts, Len(bnd') >= Len(bnd) PROVE Requests'
  <2>1. \A i \in 1..Len(bnd) : i \in 1..Len(bnd')
    BY <1>0, <1>5
  <2>2. QED
    BY <1>5, <2>1 DEF TypeInv, Requests
<1>6. ASSUME cut' = cut, pub' = pub, Len(mig') >= Len(mig) PROVE Lease'
  <2>1. \A i \in 1..Len(mig) : i \in 1..Len(mig')
    BY <1>0, <1>6
  <2>2. QED
    BY <1>6, <2>1 DEF TypeInv, Lease
<1>7. QED
  BY <1>1, <1>2, <1>3, <1>4, <1>5, <1>6

\* Migrations and bindings that stay as they are.
LEMMA Same ==
  ASSUME TypeInv
  PROVE  /\ mig' = mig => MigMoves
         /\ bnd' = bnd => BndMoves
         /\ \A m \in 1..Len(mig) : mig'[m] = mig[m] => MigMove(m)
PROOF
<1>1. mig \in Seq(MigType) /\ bnd \in Seq(BindingType) /\ Len(mig) \in Nat /\ Len(bnd) \in Nat
  BY Rows DEF TypeInv, Tables
<1>2. ASSUME NEW m \in 1..Len(mig), mig'[m] = mig[m] PROVE MigMove(m)
  BY <1>2 DEF MigMove
<1>3. ASSUME mig' = mig PROVE MigMoves
  BY <1>1, <1>2, <1>3 DEF MigMoves
<1>4. bnd' = bnd => BndMoves
  BY <1>1 DEF BndMoves
<1>5. QED
  BY <1>2, <1>3, <1>4

\* transition_migration to a state that needs no verdict.
LEMMA StateMoves ==
  ASSUME TypeInv, NEW m \in 1..Len(mig), NEW st \in MigStates, SetState(m, st),
         mig[m].state # "abandoned" \/ st = "abandoned",
         st \in Judged => mig[m].state \in Judged,
         mig[m].state = "ready" /\ st = "completed" => CutsOver(m)
  PROVE  MigMoves /\ Len(mig') = Len(mig)
PROOF
<1>1. /\ mig' \in Seq(MigType) /\ Len(mig') = Len(mig)
      /\ \A n \in 1..Len(mig) : n # m => mig'[n] = mig[n]
      /\ \A n \in 1..Len(mig) : /\ mig'[n].src = mig[n].src /\ mig'[n].tgt = mig[n].tgt
                                /\ mig'[n].gate = mig[n].gate
      /\ mig'[m].state = st
  BY StateEdit
<1>2. MigMove(m)
  BY <1>1 DEF MigMove
<1>3. \A n \in 1..Len(mig) : n # m => MigMove(n)
  BY <1>1, Same
<1>4. Len(mig) \in Nat
  BY Rows
<1>5. QED
  BY <1>1, <1>2, <1>3, <1>4 DEF MigMoves

\* Tables whose migrations were moved on.
LEMMA MigTables ==
  ASSUME TypeInv, MigMoves, Len(mig') = Len(mig), Len(bnd') >= Len(bnd),
         bnd' \in Seq(BindingType), receipts' \in Seq(Text), Len(receipts') = Len(receipts)
  PROVE  Tables'
PROOF
<1>1. Len(mig) \in Nat /\ Len(bnd) \in Nat
  BY Rows
<1>2. \A m \in 1..Len(mig) : mig'[m].src = mig[m].src /\ mig'[m].tgt = mig[m].tgt
  BY DEF MigMoves, MigMove
<1>3. \A b \in 1..Len(bnd) : b \in 1..Len(bnd')
  BY <1>1
<1>4. \A m \in 1..Len(mig) : mig'[m].src \in 1..Len(bnd') /\ mig'[m].tgt \in 1..Len(bnd')
  BY <1>2, <1>3 DEF TypeInv, Tables
<1>5. Len(receipts) = Len(mig)
  BY DEF TypeInv, Tables
<1>6. QED
  BY <1>4, <1>5 DEF Tables, MigMoves

-----------------------------------------------------------------------------
(* Ingestion.                                                              *)

\* The steps of a publication.
LEMMA PublishTypes ==
  ASSUME TypeInv, PublishBegin \/ PublishCommit \/ PublishAbort
  PROVE  Good
PROOF
<1>1. /\ UNCHANGED <<ptr, bnd, mig, receipts, jobs, wk, starts, cut, purges, faults>>
      /\ Len(mig') >= Len(mig) /\ Len(jobs') >= Len(jobs) /\ Len(bnd') >= Len(bnd)
  BY Rows DEF PublishBegin, PublishCommit, PublishAbort
<1>2. Tables' /\ Queue' /\ Crew' /\ Requests' /\ MigMoves /\ BndMoves
  BY <1>1, Frames, Same
<1>3. MaxRev \in Nat
  BY EmbeddingAssumption
<1>4. World' /\ Lease'
  <2>1. CASE PublishBegin
    <3>1. cut = None /\ cut' = None /\ rev < MaxRev
      BY <2>1 DEF PublishBegin
    <3>2. pub' \in [seg : Segs, ver : Versions \union {0}]
      BY <2>1 DEF PublishBegin
    <3>3. QED
      BY <2>1, <3>1, <3>2 DEF PublishBegin, TypeInv, World, Lease
  <2>2. CASE PublishCommit
    <3>1. pub # None /\ pub \in [seg : Segs, ver : Versions \union {0}]
      BY <2>2 DEF PublishCommit, TypeInv, World
    <3>2. cut = None /\ rev + 1 \in 0..MaxRev
      BY <1>3, <3>1 DEF TypeInv, Lease, World
    <3>3. corpus' \in Text
      BY <2>2, <3>1 DEF PublishCommit, TypeInv, World, Text
    <3>4. ptr \in Colls /\ coll[ptr] \in Text /\ coll \in [Colls -> {NoColl} \union Text]
      BY <2>2 DEF PublishCommit, TypeInv, World
    <3>5. [coll[ptr] EXCEPT ![pub.seg] = pub.ver] \in Text
      BY <3>1, <3>4 DEF Text
    <3>6. coll' = [coll EXCEPT ![ptr] = [coll[ptr] EXCEPT ![pub.seg] = pub.ver]]
      BY <2>2 DEF PublishCommit
    <3>7. coll' \in [Colls -> {NoColl} \union Text]
      BY <3>4, <3>5, <3>6
    <3>8. missed' \in [Colls -> SUBSET Segs]
      BY <2>2, <3>1 DEF PublishCommit, TypeInv, World
    <3>9. World'
      BY <1>1, <2>2, <3>2, <3>3, <3>7, <3>8 DEF PublishCommit, TypeInv, World
    <3>10. QED
      BY <1>1, <2>2, <3>2, <3>9 DEF Lease, TypeInv
  <2>3. CASE PublishAbort
    <3>1. cut = None /\ rev + 1 \in 0..MaxRev
      BY <1>3, <2>3 DEF PublishAbort, TypeInv, Lease, World
    <3>2. QED
      BY <1>1, <2>3, <3>1 DEF PublishAbort, TypeInv, World, Lease
  <2>4. QED
    BY <2>1, <2>2, <2>3
<1>5. QED
  BY <1>2, <1>4 DEF Good, TypeInv

-----------------------------------------------------------------------------
(* Start requests.                                                         *)

\* A request moves on.
LEMMA RequestEdit ==
  ASSUME TypeInv, NEW o \in Starters, NEW r, starts' = [starts EXCEPT ![o] = r],
         Len(bnd') >= Len(bnd),
         \/ r \in {Idle, Done}
         \/ /\ r \in RequestType /\ r.src \in 1..Len(bnd')
            /\ r.bind \in 1..Len(bnd') \/ (r.bind = 0 /\ r.pc # "begin")
  PROVE  Requests'
PROOF
<1>1. starts \in [Starters -> {Idle, Done} \union RequestType]
  BY DEF TypeInv, Requests
<1>2. starts' \in [Starters -> {Idle, Done} \union RequestType]
  BY <1>1
<1>3. Len(bnd) \in Nat
  BY Rows
<1>4. \A b \in 1..Len(bnd) : b \in 1..Len(bnd')
  BY <1>3
<1>5. Idle.pc = "idle" /\ Done.pc = "done"
  BY DEF Idle, Done
<1>6. ASSUME NEW p \in Starters, starts'[p].pc \notin {"idle", "done"}
      PROVE  /\ starts'[p].src \in 1..Len(bnd')
             /\ starts'[p].bind \in 1..Len(bnd')
                \/ (starts'[p].bind = 0 /\ starts'[p].pc # "begin")
  <2>1. CASE p = o
    BY <1>1, <1>5, <1>6, <2>1
  <2>2. CASE p # o
    BY <1>1, <1>4, <1>6, <2>2 DEF TypeInv, Requests
  <2>3. QED
    BY <2>1, <2>2
<1>7. QED
  BY <1>2, <1>6 DEF Requests

\* A request that ends.
LEMMA RequestEnds ==
  ASSUME TypeInv, NEW o \in Starters, starts' = [starts EXCEPT ![o] = Done],
         Len(bnd') >= Len(bnd)
  PROVE  Requests'
PROOF
<1>1. Done \in {Idle, Done}
  OBVIOUS
<1>2. QED
  BY <1>1, RequestEdit

\* A request that goes on.
LEMMA RequestGoes ==
  ASSUME TypeInv, NEW o \in Starters, NEW r \in RequestType,
         starts' = [starts EXCEPT ![o] = r], Len(bnd') >= Len(bnd),
         r.src \in 1..Len(bnd'),
         r.bind \in 1..Len(bnd') \/ (r.bind = 0 /\ r.pc # "begin")
  PROVE  Requests'
PROOF
<1>1. \/ r \in {Idle, Done}
      \/ /\ r \in RequestType /\ r.src \in 1..Len(bnd')
         /\ r.bind \in 1..Len(bnd') \/ (r.bind = 0 /\ r.pc # "begin")
  OBVIOUS
<1>2. QED
  BY <1>1, RequestEdit

\* A request under way.
LEMMA RequestRow ==
  ASSUME TypeInv, NEW o \in Starters, starts[o].pc \notin {"idle", "done"}
  PROVE  /\ starts[o] \in RequestType /\ starts[o].src \in 1..Len(bnd)
         /\ starts[o].bind \in 1..Len(bnd) \/ (starts[o].bind = 0 /\ starts[o].pc # "begin")
         /\ starts[o].coll \in Colls
PROOF
<1>1. starts[o] \in {Idle, Done} \union RequestType
  BY DEF TypeInv, Requests
<1>2. starts[o] \in RequestType
  BY <1>1 DEF Idle, Done
<1>3. starts[o].coll \in Colls
  BY <1>2 DEF RequestType, Colls
<1>4. QED
  BY <1>2, <1>3 DEF TypeInv, Requests

\* The binding a new migration starts from.
LEMMA ServingExists ==
  ASSUME TypeInv, PointerIsServing
  PROVE  ServingBinding \in 1..Len(bnd)
PROOF
<1>1. DOMAIN bnd = 1..Len(bnd)
  BY Rows
<1>2. \E b \in DOMAIN bnd : bnd[b].state = "serving"
  BY DEF PointerIsServing
<1>3. QED
  BY <1>1, <1>2 DEF ServingBinding

\* The steps of start_migration.
LEMMA StartTypes ==
  ASSUME TypeInv, PointerIsServing, Start
  PROVE  Good
PROOF
<1>0. PICK o \in Starters :
        \/ \E c \in Targets : StartLookup(o, c) \/ StartReopen(o, c)
        \/ StartEnsure(o) \/ StartBind(o) \/ StartOrphan(o) \/ StartBegin(o) \/ StartCrash(o)
  BY DEF Start
<1>o. o \in Starters
  BY <1>0
<1>l. Len(mig) \in Nat /\ Len(jobs) \in Nat /\ Len(bnd) \in Nat
  BY Rows
<1>1. ASSUME NEW c \in Targets, StartLookup(o, c) PROVE Good
  <2>1. /\ UNCHANGED <<corpus, rev, pub, ptr, coll, bnd, mig, receipts, jobs, wk,
                       cut, purges, faults, missed>>
        /\ \E b \in Reserving(c) \union {0} :
             starts' = [starts EXCEPT ![o] = [pc |-> "ensure", coll |-> c,
                                              bind |-> b, src |-> ServingBinding]]
    BY <1>1 DEF StartLookup
  <2>2. PICK b \in Reserving(c) \union {0} :
          starts' = [starts EXCEPT ![o] = [pc |-> "ensure", coll |-> c,
                                           bind |-> b, src |-> ServingBinding]]
    BY <2>1
  <2>3. b \in 1..Len(bnd) \/ b = 0
    BY Rows DEF Reserving
  <2> DEFINE r == [pc |-> "ensure", coll |-> c, bind |-> b, src |-> ServingBinding]
  <2>4. r \in RequestType /\ r.src \in 1..Len(bnd) /\ r.bind = b /\ r.pc = "ensure"
    BY <1>l, <2>3, ServingExists DEF RequestType
  <2>5. starts' = [starts EXCEPT ![o] = r]
    BY <2>2
  <2> HIDE DEF r
  <2>8. /\ Len(bnd') >= Len(bnd) /\ r.src \in 1..Len(bnd')
        /\ r.bind \in 1..Len(bnd') \/ (r.bind = 0 /\ r.pc # "begin")
    BY <1>l, <2>1, <2>3, <2>4
  <2>6. Requests'
    BY <1>o, <2>4, <2>5, <2>8, RequestGoes
  <2>7. QED
    BY <1>l, <2>1, <2>6, Frames, Same DEF Good, TypeInv
<1>2. ASSUME NEW c \in Targets, StartReopen(o, c) PROVE Good
  <2>1. /\ UNCHANGED <<corpus, rev, pub, ptr, coll, bnd, receipts, jobs, wk,
                       cut, purges, faults, missed>>
        /\ starts' = [starts EXCEPT ![o] = Done]
    BY <1>2 DEF StartReopen
  <2>2. PICK m \in 1..Len(mig) : mig[m].state = "rolled_back" /\ SetState(m, "backfilling")
    BY <1>2, Rows DEF StartReopen
  <2>3. "backfilling" \in MigStates /\ "backfilling" \notin Judged
    BY DEF MigStates, Abandonable, Live, Judged
  <2>4. MigMoves /\ Len(mig') = Len(mig)
    BY <2>2, <2>3, StateMoves
  <2>n. Len(bnd') >= Len(bnd)
    BY <1>l, <2>1
  <2>5. Requests'
    BY <1>o, <2>1, <2>n, RequestEnds
  <2>6. Tables'
    BY <1>l, <2>1, <2>4, MigTables DEF TypeInv, Tables
  <2>7. QED
    BY <1>l, <2>1, <2>4, <2>5, <2>6, Frames, Same DEF Good, TypeInv
<1>3. CASE StartEnsure(o)
  <2>1. /\ UNCHANGED <<corpus, rev, pub, ptr, bnd, mig, receipts, jobs, wk,
                       cut, purges, faults, missed>>
        /\ starts[o].pc = "ensure"
    BY <1>3 DEF StartEnsure
  <2>2. /\ starts[o] \in RequestType /\ starts[o].src \in 1..Len(bnd)
        /\ starts[o].bind \in 1..Len(bnd) \/ (starts[o].bind = 0 /\ starts[o].pc # "begin")
        /\ starts[o].coll \in Colls
    BY <1>o, <2>1, RequestRow
  <2> DEFINE r == [starts[o] EXCEPT !.pc = IF starts[o].bind = 0 THEN "bind" ELSE "begin"]
  <2>3. /\ r \in RequestType /\ r.src = starts[o].src /\ r.bind = starts[o].bind
        /\ r.bind = 0 => r.pc # "begin"
    BY <2>2 DEF RequestType
  <2>4. starts' = [starts EXCEPT ![o] = r]
    BY <1>3 DEF StartEnsure
  <2> HIDE DEF r
  <2>5. r.src \in 1..Len(bnd') /\ (r.bind \in 1..Len(bnd') \/ (r.bind = 0 /\ r.pc # "begin"))
    BY <2>1, <2>2, <2>3
  <2>n. Len(bnd') >= Len(bnd)
    BY <1>l, <2>1
  <2>6. Requests'
    BY <1>o, <2>3, <2>4, <2>5, <2>n, RequestGoes
  <2>7. coll' \in [Colls -> {NoColl} \union Text]
    BY <1>3, <2>2, Texts DEF StartEnsure, TypeInv, World
  <2>8. World'
    BY <2>1, <2>7 DEF TypeInv, World
  <2>9. QED
    BY <1>l, <2>1, <2>6, <2>8, Frames, Same DEF Good, TypeInv
<1>4. CASE StartBind(o)
  <2>1. /\ UNCHANGED <<corpus, rev, pub, ptr, coll, mig, receipts, jobs, wk,
                       cut, purges, faults, missed>>
        /\ starts[o].pc = "bind"
    BY <1>4 DEF StartBind
  <2>2. /\ starts[o] \in RequestType /\ starts[o].src \in 1..Len(bnd)
        /\ starts[o].bind \in 1..Len(bnd) \/ (starts[o].bind = 0 /\ starts[o].pc # "begin")
        /\ starts[o].coll \in Colls
    BY <1>o, <2>1, RequestRow
  <2>3. CASE /\ bnd' = Append(bnd, [coll |-> starts[o].coll, state |-> "shadow"])
             /\ starts' = [starts EXCEPT ![o] = [@ EXCEPT !.pc = "begin", !.bind = Len(bnd) + 1]]
    <3> DEFINE b == [coll |-> starts[o].coll, state |-> "shadow"]
    <3> DEFINE r == [starts[o] EXCEPT !.pc = "begin", !.bind = Len(bnd) + 1]
    <3>1. b \in BindingType
      BY <2>2 DEF BindingType
    <3>2. bnd' = Append(bnd, b) /\ bnd \in Seq(BindingType)
      BY <2>3 DEF TypeInv, Tables
    <3> HIDE DEF b
    <3>3. /\ bnd' \in Seq(BindingType) /\ Len(bnd') = Len(bnd) + 1
          /\ \A x \in 1..Len(bnd) : bnd'[x] = bnd[x]
      BY <3>1, <3>2, AppendProperties
    <3>12. Len(bnd) + 1 \in Nat
      BY <1>l
    <3>4. r \in RequestType /\ r.src = starts[o].src /\ r.bind = Len(bnd) + 1
      BY <2>2, <3>12 DEF RequestType
    <3>5. starts' = [starts EXCEPT ![o] = r]
      BY <2>3
    <3> HIDE DEF r
    <3>6. r.src \in 1..Len(bnd') /\ r.bind \in 1..Len(bnd')
      BY <1>l, <2>2, <3>3, <3>4
    <3>n. Len(bnd') >= Len(bnd)
      BY <1>l, <3>3
    <3>7. Requests'
      BY <1>o, <3>4, <3>5, <3>6, <3>n, RequestGoes
    <3>8. BndMoves
      BY <1>l, <3>3 DEF BndMoves
    <3>9. MigMoves /\ Len(mig') = Len(mig)
      BY <2>1, Same
    <3>10. Tables'
      BY <1>l, <2>1, <3>3, <3>9, MigTables DEF TypeInv, Tables
    <3>11. QED
      BY <1>l, <2>1, <3>3, <3>7, <3>8, <3>9, <3>10, Frames DEF Good, TypeInv
  <2>4. CASE starts' = [starts EXCEPT ![o].pc = "orphan"] /\ bnd' = bnd
    <3> DEFINE r == [starts[o] EXCEPT !.pc = "orphan"]
    <3>1. /\ r \in RequestType /\ r.src = starts[o].src /\ r.bind = starts[o].bind
          /\ r.pc = "orphan"
      BY <2>2 DEF RequestType
    <3>2. starts' = [starts EXCEPT ![o] = r]
      BY <2>4
    <3> HIDE DEF r
    <3>3. r.src \in 1..Len(bnd') /\ (r.bind \in 1..Len(bnd') \/ (r.bind = 0 /\ r.pc # "begin"))
      BY <2>2, <2>4, <3>1
    <3>n. Len(bnd') >= Len(bnd)
      BY <1>l, <2>4
    <3>4. Requests'
      BY <1>o, <3>1, <3>2, <3>3, <3>n, RequestGoes
    <3>5. QED
      BY <1>l, <2>1, <2>4, <3>4, Frames, Same DEF Good, TypeInv
  <2>5. QED
    BY <1>4, <2>3, <2>4 DEF StartBind
<1>5. CASE StartOrphan(o) \/ StartCrash(o)
  <2>1. /\ UNCHANGED <<corpus, rev, pub, ptr, coll, bnd, mig, receipts, jobs, wk,
                       cut, missed>>
        /\ starts' = [starts EXCEPT ![o] = Done] /\ starts[o].pc \notin {"idle", "done"}
    BY <1>5 DEF StartOrphan, StartCrash
  <2>n. Len(bnd') >= Len(bnd)
    BY <1>l, <2>1
  <2>2. Requests'
    BY <1>o, <2>1, <2>n, RequestEnds
  <2>3. starts[o].coll \in Colls
    BY <1>o, <2>1, RequestRow
  <2>4. purges' \subseteq Colls /\ faults' \in 0..MaxFaults
    BY <1>5, <2>3, EmbeddingAssumption DEF StartOrphan, StartCrash, TypeInv, World
  <2>5. World'
    BY <2>1, <2>4 DEF TypeInv, World
  <2>6. QED
    BY <1>l, <2>1, <2>2, <2>5, Frames, Same DEF Good, TypeInv
<1>6. CASE StartBegin(o)
  <2>1. /\ UNCHANGED <<corpus, rev, pub, ptr, coll, bnd, jobs, wk, cut, purges, faults, missed>>
        /\ starts' = [starts EXCEPT ![o] = Done] /\ starts[o].pc = "begin"
    BY <1>6 DEF StartBegin
  <2>n. Len(bnd') >= Len(bnd)
    BY <1>l, <2>1
  <2>2. Requests'
    BY <1>o, <2>1, <2>n, RequestEnds
  <2>3. CASE UNCHANGED <<mig, receipts>>
    BY <1>l, <2>1, <2>2, <2>3, Frames, Same DEF Good, TypeInv
  <2>4. CASE /\ mig' = Append(mig, [src |-> starts[o].src, tgt |-> starts[o].bind,
                                    state |-> "shadow_build", ver |-> None,
                                    vjob |-> 0, gate |-> None])
             /\ receipts' = Append(receipts, Blank)
    <3> DEFINE r == [src |-> starts[o].src, tgt |-> starts[o].bind, state |-> "shadow_build",
                     ver |-> None, vjob |-> 0, gate |-> None]
    <3>1. starts[o].src \in 1..Len(bnd) /\ starts[o].bind \in 1..Len(bnd)
      BY <1>o, <2>1, RequestRow
    <3>2. "shadow_build" \in MigStates
      BY DEF MigStates, Abandonable, Live
    <3>3. r \in MigType /\ r.src \in 1..Len(bnd) /\ r.tgt \in 1..Len(bnd)
      BY <1>l, <3>1, <3>2 DEF MigType
    <3>4. mig' = Append(mig, r)
      BY <2>4
    <3> HIDE DEF r
    <3>5. mig \in Seq(MigType) /\ receipts \in Seq(Text) /\ Len(receipts) = Len(mig)
      BY DEF TypeInv, Tables
    <3>6. /\ mig' \in Seq(MigType) /\ Len(mig') = Len(mig) + 1 /\ mig'[Len(mig) + 1] = r
          /\ \A m \in 1..Len(mig) : mig'[m] = mig[m]
      BY <3>3, <3>4, <3>5, AppendProperties
    <3>7. receipts' \in Seq(Text) /\ Len(receipts') = Len(receipts) + 1
      BY <2>4, <3>5, Texts, AppendProperties
    <3>8. ASSUME NEW m \in 1..Len(mig')
          PROVE  mig'[m].src \in 1..Len(bnd) /\ mig'[m].tgt \in 1..Len(bnd)
      <4>1. CASE m = Len(mig) + 1
        BY <3>3, <3>6, <4>1
      <4>2. CASE m \in 1..Len(mig)
        BY <3>6, <4>2 DEF TypeInv, Tables
      <4>3. QED
        BY <1>l, <3>6, <4>1, <4>2
    <3>9. Tables'
      BY <2>1, <3>5, <3>6, <3>7, <3>8 DEF TypeInv, Tables
    <3>10. MigMoves
      BY <1>l, <3>6, Same DEF MigMoves
    <3>11. QED
      BY <1>l, <2>1, <2>2, <3>6, <3>9, <3>10, Frames, Same DEF Good, TypeInv
  <2>5. QED
    BY <1>6, <2>3, <2>4 DEF StartBegin
<1>7. QED
  BY <1>0, <1>1, <1>2, <1>3, <1>4, <1>5, <1>6

-----------------------------------------------------------------------------
(* The operator: pointer and cleanup.                                      *)

\* What a step does to the state of the bindings.
SetBindings(a, sa, b, sb) ==
    /\ bnd' \in Seq(BindingType) /\ Len(bnd') = Len(bnd)
    /\ \A x \in 1..Len(bnd) :
         /\ bnd'[x].coll = bnd[x].coll
         /\ bnd'[x].state = IF x = b THEN sb ELSE IF x = a THEN sa ELSE bnd[x].state

\* The states of two bindings are set, as a cutover and a rollback do.
LEMMA TwoEdits ==
  ASSUME bnd \in Seq(BindingType), NEW a \in 1..Len(bnd), NEW b \in 1..Len(bnd),
         NEW sa \in BindingStates, NEW sb \in BindingStates,
         bnd' = [bnd EXCEPT ![a].state = sa, ![b].state = sb]
  PROVE  SetBindings(a, sa, b, sb)
PROOF
<1> DEFINE h == [bnd EXCEPT ![a].state = sa]
<1>1. /\ h \in Seq(BindingType) /\ Len(h) = Len(bnd)
      /\ \A x \in 1..Len(bnd) : /\ h[x].coll = bnd[x].coll
                                /\ h[x].state = IF x = a THEN sa ELSE bnd[x].state
  BY BindingEdit
<1>2. bnd' = [h EXCEPT ![b].state = sb]
  OBVIOUS
<1> HIDE DEF h
<1>3. b \in 1..Len(h)
  BY <1>1
<1>4. /\ [h EXCEPT ![b].state = sb] \in Seq(BindingType)
      /\ Len([h EXCEPT ![b].state = sb]) = Len(h)
      /\ \A x \in 1..Len(h) :
           /\ [h EXCEPT ![b].state = sb][x].coll = h[x].coll
           /\ [h EXCEPT ![b].state = sb][x].state = IF x = b THEN sb ELSE h[x].state
  BY <1>1, <1>3, BindingEdit
<1>5. /\ bnd' \in Seq(BindingType) /\ Len(bnd') = Len(h)
      /\ \A x \in 1..Len(h) : /\ bnd'[x].coll = h[x].coll
                              /\ bnd'[x].state = IF x = b THEN sb ELSE h[x].state
  BY <1>2, <1>4
<1>6. QED
  BY <1>1, <1>5 DEF SetBindings

\* The bindings of a migration.
LEMMA Ends ==
  ASSUME TypeInv, NEW m \in 1..Len(mig)
  PROVE  /\ mig[m].src \in 1..Len(bnd) /\ mig[m].tgt \in 1..Len(bnd)
         /\ mig[m] \in MigType /\ Target(m) \in Colls /\ bnd[mig[m].src].coll \in Colls
PROOF
<1>1. mig[m].src \in 1..Len(bnd) /\ mig[m].tgt \in 1..Len(bnd)
  BY DEF TypeInv, Tables
<1>2. bnd[mig[m].src] \in BindingType
  BY <1>1, Rows
<1>3. QED
  BY <1>1, <1>2, Rows DEF BindingType

\* A cutover transaction that goes through.
LEMMA CutoverBindings ==
  ASSUME TypeInv, NEW m \in 1..Len(mig),
         bnd' = [bnd EXCEPT ![mig[m].src].state = "retained", ![mig[m].tgt].state = "serving"]
  PROVE  SetBindings(mig[m].src, "retained", mig[m].tgt, "serving")
PROOF
<1>1. mig[m].src \in 1..Len(bnd) /\ mig[m].tgt \in 1..Len(bnd) /\ bnd \in Seq(BindingType)
  BY Ends DEF TypeInv, Tables
<1>2. "retained" \in BindingStates /\ "serving" \in BindingStates
  BY DEF BindingStates
<1>3. QED
  BY <1>1, <1>2, TwoEdits, Zenon

\* A rollback.
LEMMA RollbackBindings ==
  ASSUME TypeInv, NEW m \in 1..Len(mig), NEW st \in {"shadow", "retired"},
         bnd' = [bnd EXCEPT ![mig[m].tgt].state = st, ![mig[m].src].state = "serving"]
  PROVE  SetBindings(mig[m].tgt, st, mig[m].src, "serving")
PROOF
<1>1. mig[m].src \in 1..Len(bnd) /\ mig[m].tgt \in 1..Len(bnd) /\ bnd \in Seq(BindingType)
  BY Ends DEF TypeInv, Tables
<1>2. st \in BindingStates /\ "serving" \in BindingStates
  BY DEF BindingStates
<1>3. QED
  BY <1>1, <1>2, TwoEdits, Zenon

\* One binding is retired.
LEMMA RetireBinding ==
  ASSUME TypeInv, NEW b \in 1..Len(bnd), bnd' = [bnd EXCEPT ![b].state = "retired"]
  PROVE  SetBindings(b, "retired", b, "retired")
PROOF
<1>1. "retired" \in BindingStates /\ bnd \in Seq(BindingType)
  BY DEF BindingStates, TypeInv, Tables
<1>2. QED
  BY <1>1, BindingEdit DEF SetBindings

\* Bindings that were not retired before may be set.
LEMMA BindingMoves ==
  ASSUME TypeInv, NEW a \in 1..Len(bnd), NEW b \in 1..Len(bnd), NEW sa, NEW sb,
         SetBindings(a, sa, b, sb),
         bnd[a].state # "retired" \/ sa = "retired",
         bnd[b].state # "retired" \/ sb = "retired"
  PROVE  BndMoves /\ Len(bnd') = Len(bnd)
PROOF
<1>1. Len(bnd) \in Nat
  BY Rows
<1>2. ASSUME NEW x \in 1..Len(bnd), bnd[x].state = "retired" PROVE bnd'[x].state = "retired"
  BY <1>2 DEF SetBindings
<1>3. QED
  BY <1>1, <1>2 DEF SetBindings, BndMoves

\* Tables whose receipts were dropped or kept.
LEMMA ReceiptTypes ==
  ASSUME TypeInv, NEW m \in 1..Len(mig), NEW t \in Text,
         receipts' = receipts \/ receipts' = [receipts EXCEPT ![m] = t]
  PROVE  receipts' \in Seq(Text) /\ Len(receipts') = Len(receipts)
PROOF
<1>1. receipts \in Seq(Text) /\ m \in 1..Len(receipts)
  BY DEF TypeInv, Tables
<1>2. QED
  BY <1>1, ExceptSeq

\* A cutover.
LEMMA CutoverTypes ==
  ASSUME TypeInv, CutoverCommit \/ \E m \in DOMAIN mig : CutoverScan(m)
  PROVE  Good
PROOF
<1>l. Len(mig) \in Nat /\ Len(jobs) \in Nat /\ Len(bnd) \in Nat /\ DOMAIN mig = 1..Len(mig)
  BY Rows
<1>1. ASSUME NEW m \in 1..Len(mig), CutoverScan(m) PROVE Good
  <2>1. /\ UNCHANGED <<corpus, rev, pub, ptr, coll, bnd, mig, receipts, jobs, wk,
                       starts, purges, faults>>
        /\ pub = None /\ cut' = [mig |-> m, scope |-> coll[Target(m)]]
        /\ coll[Target(m)] # NoColl
        /\ missed' = IF bnd[mig[m].tgt].state = "shadow"
                     THEN [missed EXCEPT ![Target(m)] = {}] ELSE missed
    BY <1>1 DEF CutoverScan, Unlocked
  <2>2. Target(m) \in Colls
    BY Ends
  <2>3. coll[Target(m)] \in Text
    BY <2>1, <2>2 DEF TypeInv, World
  <2>4. cut' \in CutType /\ cut'.mig = m
    BY <1>l, <2>1, <2>3 DEF CutType
  <2>5. Lease'
    BY <1>l, <2>1, <2>4 DEF Lease
  <2>6. missed' \in [Colls -> SUBSET Segs]
    BY <2>1, <2>2 DEF TypeInv, World
  <2>7. World'
    BY <2>1, <2>6 DEF TypeInv, World
  <2>8. QED
    BY <1>l, <2>1, <2>5, <2>7, Frames, Same DEF Good, TypeInv
<1>2. CASE CutoverCommit
  <2>1. /\ UNCHANGED <<corpus, rev, pub, coll, receipts, jobs, wk, starts, purges, faults, missed>>
        /\ cut # None /\ cut' = None
    BY <1>2 DEF CutoverCommit
  <2>2. cut.mig \in 1..Len(mig)
    BY <2>1 DEF TypeInv, Lease
  <2>3. Lease'
    BY <2>1 DEF Lease
  <2>4. CASE UNCHANGED <<ptr, bnd, mig>>
    <3>1. World'
      BY <2>1, <2>4 DEF TypeInv, World
    <3>2. QED
      BY <1>l, <2>1, <2>3, <2>4, <3>1, Frames, Same DEF Good, TypeInv
  <2>5. ASSUME NEW m \in 1..Len(mig), m = cut.mig, CutoverAllowed(m, cut.scope),
               ptr' = Target(m),
               bnd' = [bnd EXCEPT ![mig[m].src].state = "retained",
                                  ![mig[m].tgt].state = "serving"],
               SetState(m, "completed")
        PROVE  Good
    <3>1. mig[m].src \in 1..Len(bnd) /\ mig[m].tgt \in 1..Len(bnd) /\ Target(m) \in Colls
      BY Ends
    <3>2. SetBindings(mig[m].src, "retained", mig[m].tgt, "serving")
      BY <2>5, CutoverBindings
    <3>3. bnd[mig[m].src].state = "serving" /\ bnd[mig[m].tgt].state = "shadow"
          /\ mig[m].state = "ready"
      BY <2>5 DEF CutoverAllowed
    <3>4. BndMoves /\ Len(bnd') = Len(bnd)
      BY <3>1, <3>2, <3>3, BindingMoves
    <3>5. CutsOver(m)
      BY <1>2, <2>1, <2>5 DEF CutsOver
    <3>6. "completed" \in MigStates /\ "completed" \in Judged /\ "ready" \in Judged
      BY DEF MigStates, Judged
    <3>7. MigMoves /\ Len(mig') = Len(mig)
      BY <2>5, <3>3, <3>5, <3>6, StateMoves
    <3>8. bnd' \in Seq(BindingType)
      BY <3>2 DEF SetBindings
    <3>9. Tables'
      BY <1>l, <2>1, <3>4, <3>7, <3>8, MigTables DEF TypeInv, Tables
    <3>10. World'
      BY <2>1, <2>5, <3>1 DEF TypeInv, World
    <3>11. Queue' /\ Crew' /\ Requests'
      BY <1>l, <2>1, <3>4, <3>7, Frames
    <3>12. QED
      BY <2>3, <3>4, <3>7, <3>9, <3>10, <3>11 DEF Good, TypeInv
  <2>6. QED
    BY <1>2, <2>2, <2>4, <2>5 DEF CutoverCommit
<1>3. QED
  BY <1>l, <1>1, <1>2

\* A rollback.
LEMMA RollbackTypes ==
  ASSUME TypeInv, NEW m \in 1..Len(mig), NEW keep \in BOOLEAN, Rollback(m, keep)
  PROVE  Good
PROOF
<1>l. Len(mig) \in Nat /\ Len(jobs) \in Nat /\ Len(bnd) \in Nat
  BY Rows
<1> DEFINE st == IF keep THEN "shadow" ELSE "retired"
<1>1. /\ UNCHANGED <<corpus, rev, pub, coll, jobs, wk, starts, cut, faults, missed>>
      /\ mig[m].state = "completed" /\ ptr' = bnd[mig[m].src].coll
      /\ bnd[mig[m].src].state = "retained" /\ bnd[mig[m].tgt].state = "serving"
      /\ bnd' = [bnd EXCEPT ![mig[m].tgt].state = st, ![mig[m].src].state = "serving"]
      /\ SetState(m, "rolled_back")
      /\ receipts' = receipts \/ receipts' = [receipts EXCEPT ![m] = Blank]
      /\ purges' \subseteq purges \union {Target(m)}
  BY DEF Rollback
<1>2. /\ mig[m].src \in 1..Len(bnd) /\ mig[m].tgt \in 1..Len(bnd) /\ Target(m) \in Colls
      /\ bnd[mig[m].src].coll \in Colls
  BY Ends
<1>3. st \in {"shadow", "retired"}
  OBVIOUS
<1> HIDE DEF st
<1>4. SetBindings(mig[m].tgt, st, mig[m].src, "serving")
  BY <1>1, <1>3, RollbackBindings
<1>5. BndMoves /\ Len(bnd') = Len(bnd)
  BY <1>1, <1>2, <1>4, BindingMoves
<1>6. "rolled_back" \in MigStates /\ "completed" \in Judged
  BY DEF MigStates, Abandonable, Judged
<1>7. MigMoves /\ Len(mig') = Len(mig)
  BY <1>1, <1>6, StateMoves
<1>8. bnd' \in Seq(BindingType)
  BY <1>4 DEF SetBindings
<1>9. receipts' \in Seq(Text) /\ Len(receipts') = Len(receipts)
  BY <1>1, Texts, ReceiptTypes
<1>10. Tables'
  BY <1>l, <1>5, <1>7, <1>8, <1>9, MigTables
<1>11. World'
  BY <1>1, <1>2 DEF TypeInv, World
<1>12. Queue' /\ Crew' /\ Requests' /\ Lease'
  BY <1>l, <1>1, <1>5, <1>7, Frames
<1>13. QED
  BY <1>5, <1>7, <1>10, <1>11, <1>12 DEF Good, TypeInv

\* reclaim_expired and the deletions.
LEMMA CleanupTypes ==
  ASSUME TypeInv,
         (\E b \in DOMAIN bnd : Reclaim(b)) \/ (\E c \in Colls : Purge(c))
  PROVE  Good
PROOF
<1>l. Len(mig) \in Nat /\ Len(jobs) \in Nat /\ Len(bnd) \in Nat /\ DOMAIN bnd = 1..Len(bnd)
  BY Rows
<1>1. ASSUME NEW b \in 1..Len(bnd), Reclaim(b) PROVE Good
  <2>1. /\ UNCHANGED <<corpus, rev, pub, ptr, coll, mig, receipts, jobs, wk, starts, cut,
                       faults, missed>>
        /\ bnd' = [bnd EXCEPT ![b].state = "retired"]
        /\ purges' = purges \union {bnd[b].coll}
    BY <1>1 DEF Reclaim
  <2>2. SetBindings(b, "retired", b, "retired")
    BY <2>1, RetireBinding
  <2>3. BndMoves /\ Len(bnd') = Len(bnd)
    BY <2>2, BindingMoves
  <2>4. bnd' \in Seq(BindingType)
    BY <2>2 DEF SetBindings
  <2>5. MigMoves /\ Len(mig') = Len(mig)
    BY <2>1, Same
  <2>6. Tables'
    BY <1>l, <2>1, <2>3, <2>4, <2>5, MigTables DEF TypeInv, Tables
  <2>7. bnd[b] \in BindingType
    BY Rows
  <2>8. bnd[b].coll \in Colls
    BY <2>7 DEF BindingType
  <2>9. World'
    BY <2>1, <2>8 DEF TypeInv, World
  <2>10. Queue' /\ Crew' /\ Requests' /\ Lease'
    BY <1>l, <2>1, <2>3, <2>5, Frames
  <2>11. QED
    BY <2>3, <2>5, <2>6, <2>9, <2>10 DEF Good, TypeInv
<1>2. ASSUME NEW c \in Colls, Purge(c) PROVE Good
  <2>1. /\ UNCHANGED <<corpus, rev, pub, ptr, bnd, mig, receipts, jobs, wk, starts, cut, faults>>
        /\ purges' = purges \ {c}
        /\ \/ coll' = [coll EXCEPT ![c] = NoColl] /\ missed' = [missed EXCEPT ![c] = Segs]
           \/ coll' = coll /\ missed' = missed
    BY <1>2 DEF Purge
  <2>2. coll' \in [Colls -> {NoColl} \union Text] /\ missed' \in [Colls -> SUBSET Segs]
    BY <2>1 DEF TypeInv, World
  <2>3. World'
    BY <2>1, <2>2 DEF TypeInv, World
  <2>4. QED
    BY <1>l, <2>1, <2>3, Frames, Same DEF Good, TypeInv
<1>3. QED
  BY <1>l, <1>1, <1>2

-----------------------------------------------------------------------------
(* The action queue.                                                       *)

\* A job keeps its migration and its action; a failed one is at most queued
\* anew, a succeeded one stays as it is.
JobMove(j) ==
    /\ jobs'[j].mig = jobs[j].mig /\ jobs'[j].action = jobs[j].action
    /\ jobs[j].state = "failed" => jobs'[j].state \in {"failed", "queued"}
    /\ jobs[j].state = "succeeded" => jobs'[j].state = "succeeded"

JobMoves ==
    /\ Len(jobs') >= Len(jobs)
    /\ \A j \in 1..Len(jobs) : JobMove(j)

\* Jobs that stay as they are.
LEMMA SameJobs ==
  ASSUME TypeInv
  PROVE  /\ jobs' = jobs => JobMoves
         /\ \A j \in 1..Len(jobs) : jobs'[j] = jobs[j] => JobMove(j)
PROOF
<1>1. Len(jobs) \in Nat
  BY Rows
<1>2. \A j \in 1..Len(jobs) : jobs'[j] = jobs[j] => JobMove(j)
  BY DEF JobMove
<1>3. QED
  BY <1>1, <1>2 DEF JobMoves

\* A job of the queue is replaced by a row of the same migration and action.
LEMMA JobReplaced ==
  ASSUME TypeInv, NEW j \in 1..Len(jobs), NEW r \in JobType,
         jobs' = [jobs EXCEPT ![j] = r], r.mig = jobs[j].mig, r.action = jobs[j].action,
         r.state = "running" <=> r.owner \in Workers, Len(mig') = Len(mig),
         jobs[j].state \in {"queued", "running"} \/ (jobs[j].state = "failed" /\ r.state = "queued")
  PROVE  Queue' /\ Len(jobs') = Len(jobs) /\ JobMoves
PROOF
<1>1. /\ Queue' /\ Len(jobs') = Len(jobs)
      /\ jobs'[j] = r /\ \A i \in 1..Len(jobs) : i # j => jobs'[i] = jobs[i]
  BY JobEdit
<1>2. JobMove(j)
  BY <1>1 DEF JobMove
<1>3. \A i \in 1..Len(jobs) : i # j => JobMove(i)
  BY <1>1, SameJobs
<1>4. Len(jobs) \in Nat
  BY Rows
<1>5. QED
  BY <1>1, <1>2, <1>3, <1>4 DEF JobMoves

\* An active job ends or is queued anew.
LEMMA SettledTypes ==
  ASSUME TypeInv, NEW j \in 1..Len(jobs), NEW st \in {"queued", "succeeded", "failed"},
         jobs' = Settled(j, st), jobs[j].state \in {"queued", "running"},
         Len(mig') = Len(mig)
  PROVE  Queue' /\ Len(jobs') = Len(jobs) /\ JobMoves
PROOF
<1> DEFINE r == [jobs[j] EXCEPT !.state = st, !.owner = None]
<1>1. jobs[j] \in JobType
  BY Rows
<1>2. /\ r \in JobType /\ r.mig = jobs[j].mig /\ r.action = jobs[j].action
      /\ r.state = st /\ r.owner = None
  BY <1>1 DEF JobType
<1>3. jobs' = [jobs EXCEPT ![j] = r]
  BY DEF Settled
<1> HIDE DEF r
<1>4. r.state = "running" <=> r.owner \in Workers
  BY <1>2, EmbeddingAssumption
<1>5. QED
  BY <1>2, <1>3, <1>4, JobReplaced

\* abort fails the queued jobs of its migration.
LEMMA AbortJobs ==
  ASSUME TypeInv, NEW m \in 1..Len(mig), Abort(m), Len(mig') = Len(mig)
  PROVE  Queue' /\ Len(jobs') = Len(jobs) /\ JobMoves
PROOF
<1>1. DOMAIN jobs = 1..Len(jobs) /\ Len(jobs) \in Nat
  BY Rows
<1> DEFINE n == Len(jobs)
<1>2. ASSUME NEW j \in 1..n
      PROVE  /\ jobs'[j] \in JobType /\ JobMove(j)
             /\ jobs'[j].state = "running" <=> jobs'[j].owner \in Workers
             /\ jobs'[j].mig = jobs[j].mig
  <2>1. /\ jobs[j] \in JobType /\ jobs[j].mig \in 1..Len(mig)
        /\ jobs[j].state = "running" <=> jobs[j].owner \in Workers
    BY Rows DEF TypeInv, Queue
  <2>2. CASE j \in ActiveJobs /\ jobs[j].mig = m
    <3>1. jobs[j].state = "queued" /\ jobs'[j] = [jobs[j] EXCEPT !.state = "failed"]
      BY <1>1, <2>2 DEF Abort
    <3>2. /\ jobs'[j] \in JobType /\ jobs'[j].mig = jobs[j].mig
          /\ jobs'[j].action = jobs[j].action /\ jobs'[j].state = "failed"
          /\ jobs'[j].owner = jobs[j].owner
      BY <2>1, <3>1 DEF JobType
    <3>3. QED
      BY <2>1, <3>1, <3>2 DEF JobMove
  <2>3. CASE ~ (j \in ActiveJobs /\ jobs[j].mig = m)
    <3>1. jobs'[j] = jobs[j]
      BY <1>1, <2>3 DEF Abort
    <3>2. QED
      BY <2>1, <3>1, SameJobs
  <2>4. QED
    BY <2>2, <2>3
<1>3. jobs' = [j \in 1..n |-> jobs'[j]]
  BY <1>1 DEF Abort
<1>4. jobs' \in Seq(JobType) /\ Len(jobs') = n
  BY <1>1, <1>2, <1>3
<1>5. \A j \in 1..n : jobs'[j].mig \in 1..Len(mig)
  BY <1>2 DEF TypeInv, Queue
<1>6. Queue'
  BY <1>2, <1>4, <1>5 DEF Queue
<1>7. QED
  BY <1>1, <1>2, <1>4, <1>6 DEF JobMoves

\* abort.
LEMMA AbortTypes ==
  ASSUME TypeInv, NEW m \in 1..Len(mig), Abort(m)
  PROVE  Good /\ JobMoves
PROOF
<1>l. Len(mig) \in Nat /\ Len(jobs) \in Nat /\ Len(bnd) \in Nat
  BY Rows
<1>1. /\ UNCHANGED <<corpus, rev, pub, ptr, coll, wk, starts, cut, faults, missed>>
      /\ bnd' = IF bnd[mig[m].tgt].state = "shadow"
                THEN [bnd EXCEPT ![mig[m].tgt].state = "retired"] ELSE bnd
      /\ SetState(m, "abandoned") /\ receipts' = [receipts EXCEPT ![m] = Blank]
      /\ purges' = purges \union {Target(m)}
  BY DEF Abort
<1>2. mig[m].tgt \in 1..Len(bnd) /\ Target(m) \in Colls
  BY Ends
<1>3. "abandoned" \in MigStates /\ "abandoned" \notin Judged
  BY DEF MigStates, Judged
<1>4. MigMoves /\ Len(mig') = Len(mig)
  BY <1>1, <1>3, StateMoves
<1>5. BndMoves /\ Len(bnd') = Len(bnd) /\ bnd' \in Seq(BindingType)
  <2>1. CASE bnd' = bnd
    BY <2>1, Same DEF TypeInv, Tables
  <2>2. CASE bnd' = [bnd EXCEPT ![mig[m].tgt].state = "retired"]
    <3>1. SetBindings(mig[m].tgt, "retired", mig[m].tgt, "retired")
      BY <1>2, <2>2, RetireBinding
    <3>2. BndMoves
      BY <1>2, <3>1, BindingMoves
    <3>3. QED
      BY <3>1, <3>2 DEF SetBindings
  <2>3. QED
    BY <1>1, <2>1, <2>2
<1>6. receipts' \in Seq(Text) /\ Len(receipts') = Len(receipts)
  BY <1>1, Texts, ReceiptTypes
<1>7. Tables'
  BY <1>l, <1>4, <1>5, <1>6, MigTables
<1>8. World'
  BY <1>1, <1>2 DEF TypeInv, World
<1>9. Queue' /\ Len(jobs') = Len(jobs) /\ JobMoves
  BY <1>4, AbortJobs
<1>10. Crew' /\ Requests' /\ Lease'
  BY <1>l, <1>1, <1>4, <1>5, <1>9, Frames
<1>11. QED
  BY <1>4, <1>5, <1>7, <1>8, <1>9, <1>10 DEF Good, TypeInv

\* A step of the queue alone.
LEMMA QueueStep ==
  ASSUME TypeInv, Queue', Crew', Len(jobs') >= Len(jobs), faults' \in 0..MaxFaults,
         UNCHANGED <<corpus, rev, pub, ptr, coll, bnd, mig, receipts, starts, cut,
                     purges, missed>>
  PROVE  Good
PROOF
<1>1. World'
  BY DEF TypeInv, World
<1>2. Len(mig) \in Nat /\ Len(bnd) \in Nat
  BY Rows
<1>3. Tables' /\ Requests' /\ Lease' /\ MigMoves /\ BndMoves
  BY <1>2, Frames, Same
<1>4. QED
  BY <1>1, <1>3 DEF Good, TypeInv

\* enqueue_action_job and cancel_scoped_action_job.
LEMMA QueueTypes ==
  ASSUME TypeInv,
         \/ \E m \in DOMAIN mig, a \in Actions : EnqueueAction(m, a)
         \/ \E j \in DOMAIN jobs : CancelJob(j)
  PROVE  Good /\ JobMoves
PROOF
<1>l. /\ Len(mig) \in Nat /\ Len(jobs) \in Nat /\ DOMAIN mig = 1..Len(mig)
      /\ DOMAIN jobs = 1..Len(jobs)
  BY Rows
<1>1. ASSUME NEW j \in 1..Len(jobs), CancelJob(j) PROVE Good /\ JobMoves
  <2>1. /\ jobs' = Settled(j, "failed") /\ jobs[j].state \in {"queued", "running"}
        /\ UNCHANGED <<corpus, rev, pub, ptr, coll, bnd, mig, receipts, wk, starts,
                       cut, purges, missed>>
    BY <1>1 DEF CancelJob, ActiveJobs
  <2>2. faults' \in 0..MaxFaults
    BY <1>1, EmbeddingAssumption DEF CancelJob, TypeInv, World
  <2>3. Queue' /\ Len(jobs') = Len(jobs) /\ JobMoves
    BY <2>1, SettledTypes
  <2>4. Crew'
    BY <1>l, <2>1, <2>3, Frames
  <2>5. QED
    BY <1>l, <2>1, <2>2, <2>3, <2>4, QueueStep
<1>2. ASSUME NEW m \in 1..Len(mig), NEW a \in Actions, EnqueueAction(m, a)
      PROVE  Good /\ JobMoves
  <2>1. UNCHANGED <<corpus, rev, pub, ptr, coll, bnd, mig, receipts, wk, starts,
                    cut, purges, faults, missed>>
    BY <1>2 DEF EnqueueAction
  <2>2. faults' \in 0..MaxFaults
    BY <2>1 DEF TypeInv, World
  <2>3. ASSUME NEW j \in 1..Len(jobs), jobs[j].state = "failed",
               jobs' = [jobs EXCEPT ![j].state = "queued"]
        PROVE  Queue' /\ Len(jobs') >= Len(jobs) /\ JobMoves
    <3> DEFINE r == [jobs[j] EXCEPT !.state = "queued"]
    <3>1. /\ jobs[j] \in JobType
          /\ jobs[j].state = "running" <=> jobs[j].owner \in Workers
      BY Rows DEF TypeInv, Queue
    <3>2. /\ r \in JobType /\ r.mig = jobs[j].mig /\ r.action = jobs[j].action
          /\ r.state = "queued" /\ r.owner = jobs[j].owner
      BY <3>1 DEF JobType
    <3>3. jobs' = [jobs EXCEPT ![j] = r]
      BY <2>3
    <3> HIDE DEF r
    <3>4. r.state = "running" <=> r.owner \in Workers
      BY <2>3, <3>1, <3>2
    <3>5. Queue' /\ Len(jobs') = Len(jobs) /\ JobMoves
      BY <2>1, <2>3, <3>2, <3>3, <3>4, JobReplaced
    <3>6. QED
      BY <1>l, <3>5
  <2>4. ASSUME jobs' = Append(jobs, [mig |-> m, action |-> a, state |-> "queued", owner |-> None])
        PROVE  Queue' /\ Len(jobs') >= Len(jobs) /\ JobMoves
    <3> DEFINE r == [mig |-> m, action |-> a, state |-> "queued", owner |-> None]
    <3>1. r \in JobType /\ r.mig = m /\ r.state = "queued" /\ r.owner = None
      BY <1>l DEF JobType
    <3>2. jobs' = Append(jobs, r)
      BY <2>4
    <3> HIDE DEF r
    <3>3. jobs \in Seq(JobType)
      BY DEF TypeInv, Queue
    <3>4. /\ jobs' \in Seq(JobType) /\ Len(jobs') = Len(jobs) + 1
          /\ jobs'[Len(jobs) + 1] = r /\ \A j \in 1..Len(jobs) : jobs'[j] = jobs[j]
      BY <3>1, <3>2, <3>3, AppendProperties
    <3>5. ASSUME NEW j \in 1..Len(jobs')
          PROVE  /\ jobs'[j].state = "running" <=> jobs'[j].owner \in Workers
                 /\ jobs'[j].mig \in 1..Len(mig)
      <4>1. CASE j = Len(jobs) + 1
        BY <3>1, <3>4, <4>1, EmbeddingAssumption
      <4>2. CASE j \in 1..Len(jobs)
        BY <3>4, <4>2 DEF TypeInv, Queue
      <4>3. QED
        BY <1>l, <3>4, <4>1, <4>2
    <3>6. Queue'
      BY <2>1, <3>4, <3>5 DEF Queue
    <3>7. JobMoves
      BY <1>l, <3>4, SameJobs DEF JobMoves
    <3>8. QED
      BY <1>l, <3>4, <3>6, <3>7
  <2>5. Queue' /\ Len(jobs') >= Len(jobs) /\ JobMoves
    BY <1>l, <1>2, <2>3, <2>4 DEF EnqueueAction
  <2>6. Crew'
    BY <1>l, <2>1, <2>5, Frames
  <2>7. QED
    BY <2>1, <2>2, <2>5, <2>6, QueueStep
<1>3. QED
  BY <1>l, <1>1, <1>2

-----------------------------------------------------------------------------
(* The workers.                                                            *)

\* A worker stops.
LEMMA CrewIdle ==
  ASSUME TypeInv, NEW w \in Workers, wk' = [wk EXCEPT ![w] = Idle], Len(jobs') = Len(jobs)
  PROVE  Crew'
  BY CrewEdit

\* A worker goes on.
LEMMA CrewBusy ==
  ASSUME TypeInv, NEW w \in Workers, NEW r \in BusyType, wk' = [wk EXCEPT ![w] = r],
         r.job \in 1..Len(jobs), Len(jobs') = Len(jobs)
  PROVE  Crew' /\ wk'[w] = r
  BY CrewEdit

\* A worker goes on holding nothing.
LEMMA CrewGoto ==
  ASSUME TypeInv, NEW w \in Workers, wk[w] # Idle, NEW pc \in PCs, Goto(w, pc),
         Len(jobs') = Len(jobs)
  PROVE  Crew' /\ wk'[w] = At(wk[w].job, pc)
PROOF
<1>1. wk[w].job \in 1..Len(jobs) /\ Len(jobs) \in Nat
  BY Busy, Rows
<1>n. wk[w].job \in Nat
  BY <1>1
<1>2. At(wk[w].job, pc) \in BusyType /\ At(wk[w].job, pc).job = wk[w].job
  BY <1>n, AtType
<1>3. wk' = [wk EXCEPT ![w] = At(wk[w].job, pc)]
  BY DEF Goto
<1>4. QED
  BY <1>1, <1>2, <1>3, CrewBusy

\* A verdict is a record.
LEMMA VerdictIsRow == \A v \in Verdict : v # None
  BY DEF Verdict, None

\* record_gate_verdict.
LEMMA VerdictMoves ==
  ASSUME TypeInv, NEW m \in 1..Len(mig), NEW st \in {"ready", "gate_failed"},
         NEW v \in Verdict, mig[m].state = "gating",
         mig' = [mig EXCEPT ![m] = [@ EXCEPT !.state = st, !.gate = v]]
  PROVE  MigMoves /\ Len(mig') = Len(mig)
PROOF
<1> DEFINE r == [mig[m] EXCEPT !.state = st, !.gate = v]
<1>0. mig \in Seq(MigType) /\ Len(mig) \in Nat /\ mig[m] \in MigType
  BY Rows DEF TypeInv, Tables
<1>1. {"ready", "gate_failed"} \subseteq MigStates
  BY DEF MigStates, Abandonable, Live
<1>2. /\ r \in MigType /\ r.src = mig[m].src /\ r.tgt = mig[m].tgt
      /\ r.state = st /\ r.gate = v
  BY <1>0, <1>1 DEF MigType
<1>3. mig' = [mig EXCEPT ![m] = r]
  BY <1>0
<1> HIDE DEF r
<1>4. /\ mig' \in Seq(MigType) /\ Len(mig') = Len(mig)
      /\ mig'[m] = r /\ \A n \in 1..Len(mig) : n # m => mig'[n] = mig[n]
  BY <1>2, <1>3, MigEdit
<1>5. MigMove(m)
  BY <1>2, <1>4, VerdictIsRow DEF MigMove
<1>6. \A n \in 1..Len(mig) : n # m => MigMove(n)
  BY <1>4, Same
<1>7. QED
  BY <1>0, <1>4, <1>5, <1>6 DEF MigMoves

\* update_totals: verify pins its evidence.
LEMMA EvidenceMoves ==
  ASSUME TypeInv, NEW m \in 1..Len(mig), NEW j \in Nat, NEW e \in Evidence,
         mig' = [mig EXCEPT ![m] = [@ EXCEPT !.vjob = j, !.ver = e]]
  PROVE  MigMoves /\ Len(mig') = Len(mig)
PROOF
<1> DEFINE r == [mig[m] EXCEPT !.vjob = j, !.ver = e]
<1>0. mig \in Seq(MigType) /\ Len(mig) \in Nat /\ mig[m] \in MigType
  BY Rows DEF TypeInv, Tables
<1>2. /\ r \in MigType /\ r.src = mig[m].src /\ r.tgt = mig[m].tgt
      /\ r.state = mig[m].state /\ r.gate = mig[m].gate
  BY <1>0 DEF MigType
<1>3. mig' = [mig EXCEPT ![m] = r]
  BY <1>0
<1> HIDE DEF r
<1>4. /\ mig' \in Seq(MigType) /\ Len(mig') = Len(mig)
      /\ mig'[m] = r /\ \A n \in 1..Len(mig) : n # m => mig'[n] = mig[n]
  BY <1>2, <1>3, MigEdit
<1>5. MigMove(m)
  BY <1>2, <1>4 DEF MigMove
<1>6. \A n \in 1..Len(mig) : n # m => MigMove(n)
  BY <1>4, Same
<1>7. QED
  BY <1>0, <1>4, <1>5, <1>6 DEF MigMoves

\* A worker's step on its migration and the collection.
LEMMA WorkerStepTypes ==
  ASSUME TypeInv, Crew', World', MigMoves, Len(mig') = Len(mig),
         receipts' \in Seq(Text), Len(receipts') = Len(receipts),
         UNCHANGED <<pub, bnd, jobs, starts, cut>>
  PROVE  Good
PROOF
<1>1. Len(mig) \in Nat /\ Len(bnd) \in Nat /\ Len(jobs) \in Nat
  BY Rows
<1>2. bnd' \in Seq(BindingType) /\ Len(bnd') >= Len(bnd)
  BY <1>1 DEF TypeInv, Tables
<1>3. Tables'
  BY <1>2, MigTables
<1>4. Queue' /\ Requests' /\ Lease' /\ BndMoves
  BY <1>1, Frames, Same
<1>5. QED
  BY <1>3, <1>4 DEF Good, TypeInv

\* What most worker steps leave alone.
LEMMA WorkerFrame ==
  ASSUME TypeInv, Crew', MigMoves, Len(mig') = Len(mig),
         UNCHANGED <<corpus, rev, pub, ptr, coll, bnd, receipts, jobs, starts, cut,
                     purges, faults, missed>>
  PROVE  Good
PROOF
<1>1. World'
  BY Frames
<1>2. receipts' \in Seq(Text) /\ Len(receipts') = Len(receipts)
  BY DEF TypeInv, Tables
<1>3. QED
  BY <1>1, <1>2, WorkerStepTypes

\* A failed evidence check.
LEMMA EvidenceFailTypes ==
  ASSUME TypeInv, NEW w \in Workers, wk[w] # Idle, EvidenceFails(w), jobs' = jobs
  PROVE  /\ Crew' /\ MigMoves /\ Len(mig') = Len(mig)
         /\ wk'[w] = At(wk[w].job, "fail")
PROOF
<1>1. MigOf(w) \in 1..Len(mig) /\ wk[w].job \in 1..Len(jobs) /\ wk[w] \in BusyType
  BY Busy
<1>2. Goto(w, "fail") /\ "fail" \in PCs
  BY DEF EvidenceFails, PCs
<1>3. Crew' /\ wk'[w] = At(wk[w].job, "fail")
  BY <1>2, CrewGoto
<1>4. CASE mig' = mig
  BY <1>3, <1>4, Same
<1>5. CASE mig' # mig
  <2> DEFINE v == [passed |-> FALSE, rev |-> -1, scope |-> Blank,
                   job |-> IF wk[w].judged THEN wk[w].job ELSE 0]
  <2>1. /\ mig[MigOf(w)].state = "gating"
        /\ mig' = [mig EXCEPT ![MigOf(w)] = [@ EXCEPT !.state = "gate_failed", !.gate = v]]
    BY <1>5 DEF EvidenceFails, FailVerdict
  <2>2. Len(jobs) \in Nat /\ Blank \in Text
    BY Rows, Texts
  <2>3. v \in Verdict
    BY <1>1, <2>2 DEF Verdict
  <2> HIDE DEF v
  <2>4. MigMoves /\ Len(mig') = Len(mig)
    BY <1>1, <2>1, <2>3, VerdictMoves
  <2>5. QED
    BY <1>3, <2>4
<1>6. QED
  BY <1>4, <1>5

\* The steps of a backfill.
LEMMA BackfillTypes ==
  ASSUME TypeInv, NEW w \in Workers,
         BackfillBegin(w) \/ BackfillList(w) \/ BackfillUpsert(w) \/ BackfillReceipt(w)
  PROVE  Good
PROOF
<1>0. wk[w].pc # "idle"
  BY DEF BackfillBegin, BackfillList, BackfillUpsert, BackfillReceipt
<1>1. wk[w] # Idle /\ UNCHANGED <<corpus, rev, pub, ptr, bnd, jobs, starts, cut, purges, faults>>
  BY <1>0, Busy DEF BackfillBegin, BackfillList, BackfillUpsert, BackfillReceipt
<1>2. /\ wk[w] \in BusyType /\ wk[w].job \in 1..Len(jobs) /\ MigOf(w) \in 1..Len(mig)
      /\ Len(jobs') = Len(jobs)
  BY <1>1, Busy
<1>3. Target(MigOf(w)) \in Colls /\ mig[MigOf(w)] \in MigType
  BY <1>2, Ends
<1>4. wk[w].page \in Text /\ wk[w].text \in Text
  BY <1>2 DEF BusyType
<1>5. {"list", "fail", "finish", "upsert", "receipt"} \subseteq PCs
  BY DEF PCs
<1>6. /\ {"backfilling", "failed"} \subseteq MigStates
      /\ "backfilling" \notin Judged /\ "failed" \notin Judged
      /\ "abandoned" \notin BackfillEntry
  BY DEF MigStates, Abandonable, Live, Judged, BackfillEntry
<1>7. CASE BackfillBegin(w)
  <2>0. UNCHANGED <<coll, receipts, missed>>
    BY <1>7 DEF BackfillBegin
  <2>1. Crew'
    <3>1. Goto(w, "list") \/ Goto(w, "fail")
      BY <1>7 DEF BackfillBegin
    <3>2. QED
      BY <1>1, <1>2, <1>5, <3>1, CrewGoto
  <2>2. mig' = mig \/ (mig[MigOf(w)].state \in BackfillEntry /\ SetState(MigOf(w), "backfilling"))
    BY <1>7 DEF BackfillBegin
  <2>3. MigMoves /\ Len(mig') = Len(mig)
    <3>1. CASE mig' = mig
      BY <3>1, Same
    <3>2. CASE mig[MigOf(w)].state \in BackfillEntry /\ SetState(MigOf(w), "backfilling")
      BY <1>2, <1>6, <3>2, StateMoves
    <3>3. QED
      BY <2>2, <3>1, <3>2
  <2>4. QED
    BY <1>1, <2>0, <2>1, <2>3, WorkerFrame
<1>8. CASE BackfillList(w)
  <2>0. UNCHANGED <<coll, receipts, missed, mig>>
    BY <1>8 DEF BackfillList
  <2>1. ASSUME Goto(w, "finish") PROVE Crew'
    BY <1>1, <1>2, <1>5, <2>1, CrewGoto
  <2>2. ASSUME NEW page \in SUBSET Pending(MigOf(w)),
               wk' = [wk EXCEPT ![w] = [@ EXCEPT !.pc = "upsert",
                         !.page = [s \in Segs |-> IF s \in page THEN corpus[s] ELSE 0]]]
        PROVE  Crew'
    <3> DEFINE t == [s \in Segs |-> IF s \in page THEN corpus[s] ELSE 0]
               r == [wk[w] EXCEPT !.pc = "upsert", !.page = t]
    <3>1. t \in Text
      BY DEF TypeInv, World, Text
    <3>2. wk' = [wk EXCEPT ![w] = r]
      BY <2>2 DEF TypeInv, Crew
    <3> HIDE DEF t
    <3>3. r \in BusyType /\ r.job = wk[w].job
      BY <1>2, <1>5, <3>1 DEF BusyType
    <3> HIDE DEF r
    <3>4. QED
      BY <1>2, <3>2, <3>3, CrewBusy
  <2>3. Crew'
    BY <1>8, <2>1, <2>2 DEF BackfillList
  <2>4. MigMoves /\ Len(mig') = Len(mig)
    BY <2>0, Same
  <2>5. QED
    BY <1>1, <2>0, <2>3, <2>4, WorkerFrame
<1>9. CASE BackfillUpsert(w)
  <2>0. receipts' = receipts /\ receipts' \in Seq(Text)
    BY <1>9 DEF BackfillUpsert, TypeInv, Tables
  <2> DEFINE c == Target(MigOf(w))
             t == [s \in Segs |-> IF wk[w].page[s] # 0 THEN wk[w].page[s] ELSE coll[c][s]]
             h == {s \in Segs : wk[w].page[s] # 0}
  <2>1. CASE /\ coll[c] # NoColl /\ coll' = [coll EXCEPT ![c] = t]
             /\ wk' = [wk EXCEPT ![w].pc = "receipt"]
             /\ missed' = [missed EXCEPT ![c] = @ \union h]
             /\ mig' = mig
    <3>0. coll[c] \in Text
      BY <1>3, <2>1 DEF TypeInv, World
    <3>1. t \in Text
      BY <1>4, <3>0, Texts
    <3>2. coll' \in [Colls -> {NoColl} \union Text]
      BY <1>3, <2>1, <3>1 DEF TypeInv, World
    <3>3. missed' \in [Colls -> SUBSET Segs]
      BY <1>3, <2>1 DEF TypeInv, World
    <3>4. World'
      BY <1>1, <3>2, <3>3 DEF TypeInv, World
    <3> DEFINE r == [wk[w] EXCEPT !.pc = "receipt"]
    <3>5. r \in BusyType /\ r.job = wk[w].job
      BY <1>2, <1>5 DEF BusyType
    <3>6. wk' = [wk EXCEPT ![w] = r]
      BY <2>1
    <3> HIDE DEF r
    <3>7. Crew'
      BY <1>2, <3>5, <3>6, CrewBusy
    <3>8. MigMoves /\ Len(mig') = Len(mig)
      BY <2>1, Same
    <3>9. QED
      BY <1>1, <2>0, <3>4, <3>7, <3>8, WorkerStepTypes
  <2>2. CASE /\ Goto(w, "fail") /\ UNCHANGED <<coll, missed>>
             /\ \/ mig' = mig
                \/ /\ mig[MigOf(w)].state \in {"shadow_build", "backfilling"}
                   /\ SetState(MigOf(w), "failed")
    <3>1. Crew'
      BY <1>1, <1>2, <1>5, <2>2, CrewGoto
    <3>2. MigMoves /\ Len(mig') = Len(mig)
      <4>1. CASE mig' = mig
        BY <4>1, Same
      <4>2. CASE /\ mig[MigOf(w)].state \in {"shadow_build", "backfilling"}
                 /\ SetState(MigOf(w), "failed")
        BY <1>2, <1>6, <4>2, StateMoves
      <4>3. QED
        BY <2>2, <4>1, <4>2
    <3>3. QED
      BY <1>1, <2>0, <2>2, <3>1, <3>2, WorkerFrame
  <2>3. QED
    BY <1>9, <2>1, <2>2 DEF BackfillUpsert
<1>10. CASE BackfillReceipt(w)
  <2> DEFINE t == [s \in Segs |-> IF wk[w].page[s] # 0 THEN wk[w].page[s]
                                  ELSE receipts[MigOf(w)][s]]
  <2>1. /\ receipts' = [receipts EXCEPT ![MigOf(w)] = t] /\ Goto(w, "list")
        /\ UNCHANGED <<coll, missed, mig>>
    BY <1>10 DEF BackfillReceipt
  <2>2. receipts[MigOf(w)] \in Text
    BY <1>2, Rows
  <2>3. t \in Text
    BY <1>4, <2>2, Texts
  <2> HIDE DEF t
  <2>4. receipts' \in Seq(Text) /\ Len(receipts') = Len(receipts)
    BY <1>2, <2>1, <2>3, ReceiptTypes
  <2>5. Crew'
    BY <1>1, <1>2, <1>5, <2>1, CrewGoto
  <2>6. MigMoves /\ Len(mig') = Len(mig) /\ World'
    BY <1>1, <2>1, Same, Frames
  <2>7. QED
    BY <1>1, <2>4, <2>5, <2>6, WorkerStepTypes
<1>11. QED
  BY <1>7, <1>8, <1>9, <1>10

\* The steps of verify and gate.
LEMMA EvidenceTypes ==
  ASSUME TypeInv, NEW w \in Workers,
         \/ CollectPending(w) \/ CollectAuthority(w) \/ CollectScope(w) \/ VerifyMove(w)
         \/ GateBegin(w) \/ GateEvaluate(w) \/ GateRecord(w)
  PROVE  Good
PROOF
<1>0. wk[w].pc # "idle"
  BY DEF CollectPending, CollectAuthority, CollectScope, VerifyMove, GateBegin,
         GateEvaluate, GateRecord
<1>1. wk[w] # Idle
  BY <1>0, Busy
<1>2. UNCHANGED <<corpus, rev, pub, ptr, coll, bnd, receipts, jobs, starts, cut,
                  purges, faults, missed>>
  BY DEF CollectPending, CollectAuthority, CollectScope, VerifyMove, GateBegin,
         GateEvaluate, GateRecord
<1>3. /\ wk[w] \in BusyType /\ wk[w].job \in 1..Len(jobs) /\ MigOf(w) \in 1..Len(mig)
      /\ Len(jobs') = Len(jobs) /\ wk[w].job \in Nat
  BY <1>1, <1>2, Busy, Rows
<1>4. /\ wk[w].text \in Text /\ wk[w].rev \in Int /\ wk[w].pin \in {None} \union Evidence
      /\ mig[MigOf(w)] \in MigType
  BY <1>3, Rows DEF BusyType
<1>5. {"authority", "scan", "pending", "move", "finish", "fail", "record", "evaluate"} \subseteq PCs
  BY DEF PCs
<1>6. /\ {"verified", "gating"} \subseteq MigStates
      /\ "verified" \notin Judged /\ "gating" \notin Judged
  BY DEF MigStates, Abandonable, Live, Judged
<1>7. SUFFICES Crew' /\ MigMoves /\ Len(mig') = Len(mig)
  BY <1>2, WorkerFrame
<1>8. ASSUME NEW r \in BusyType, wk' = [wk EXCEPT ![w] = r], r.job = wk[w].job PROVE Crew'
  BY <1>3, <1>8, CrewBusy
<1>9. \A pc \in PCs : Goto(w, pc) => Crew'
  BY <1>1, <1>3, CrewGoto
<1>10. mig' = mig => MigMoves /\ Len(mig') = Len(mig)
  BY Same
<1>11. EvidenceFails(w) => Crew' /\ MigMoves /\ Len(mig') = Len(mig)
  BY <1>1, <1>2, EvidenceFailTypes
<1>p. "pending" \in PCs
  BY DEF PCs
<1>q. At(wk[w].job, "pending") \in BusyType /\ At(wk[w].job, "pending").job = wk[w].job
  <2>1. wk[w].job \in Nat
    BY <1>3
  <2>2. QED
    BY <2>1, <1>p, AtType
<1>12. CASE CollectPending(w)
  <2> DEFINE p == Pending(MigOf(w)) # {}
             r == [wk[w] EXCEPT !.pc = "authority", !.pending = p]
  <2>1. wk' = [wk EXCEPT ![w] = r] /\ mig' = mig
    BY <1>12 DEF CollectPending
  <2>2. p \in BOOLEAN
    OBVIOUS
  <2> HIDE DEF p
  <2>3. r \in BusyType /\ r.job = wk[w].job
    BY <1>3, <1>5, <2>2 DEF BusyType
  <2> HIDE DEF r
  <2>4. QED
    BY <1>8, <1>10, <2>1, <2>3
<1>13. CASE CollectAuthority(w)
  <2>1. CASE /\ wk' = [wk EXCEPT ![w] = [@ EXCEPT !.pc = "scan", !.rev = rev, !.text = corpus]]
             /\ mig' = mig
    <3> DEFINE r == [wk[w] EXCEPT !.pc = "scan", !.rev = rev, !.text = corpus]
    <3>1. rev \in Int /\ corpus \in Text
      BY DEF TypeInv, World
    <3>2. r \in BusyType /\ r.job = wk[w].job
      BY <1>3, <1>5, <3>1 DEF BusyType
    <3>3. wk' = [wk EXCEPT ![w] = r]
      BY <2>1
    <3> HIDE DEF r
    <3>4. QED
      BY <1>8, <1>10, <2>1, <3>2, <3>3
  <2>2. QED
    BY <1>11, <1>13, <2>1 DEF CollectAuthority
<1>14. CASE CollectScope(w)
  <2> DEFINE scope == coll[Target(MigOf(w))]
             e == [rev |-> wk[w].rev, scope |-> scope]
             next == IF wk[w].judged THEN "record" ELSE "evaluate"
  <2>1. CASE /\ EvidenceAgrees(w, scope) /\ Goto(w, "move")
             /\ mig' = [mig EXCEPT ![MigOf(w)] = [@ EXCEPT !.vjob = wk[w].job, !.ver = e]]
    <3>1. scope \in Text
      BY <1>4, <2>1 DEF EvidenceAgrees
    <3>2. e \in Evidence
      BY <1>4, <3>1 DEF Evidence
    <3> HIDE DEF e
    <3>3. MigMoves /\ Len(mig') = Len(mig)
      BY <1>3, <2>1, <3>2, EvidenceMoves
    <3>4. QED
      BY <1>5, <1>9, <2>1, <3>3
  <2>2. CASE wk' = [wk EXCEPT ![w].pc = next] /\ mig' = mig
    <3> DEFINE r == [wk[w] EXCEPT !.pc = next]
    <3>1. next \in PCs
      BY <1>5
    <3>2. wk' = [wk EXCEPT ![w] = r]
      BY <2>2
    <3> HIDE DEF next
    <3>3. r \in BusyType /\ r.job = wk[w].job
      BY <1>3, <3>1 DEF BusyType
    <3> HIDE DEF r
    <3>4. QED
      BY <1>8, <1>10, <2>2, <3>2, <3>3
  <2>3. QED
    BY <1>11, <1>14, <2>1, <2>2 DEF CollectScope
<1>15. CASE VerifyMove(w)
  <2>1. Goto(w, "finish") \/ Goto(w, "fail")
    BY <1>15 DEF VerifyMove
  <2>2. CASE mig' = mig
    BY <1>5, <1>9, <1>10, <2>1, <2>2
  <2>3. CASE /\ mig[MigOf(w)].state \in {"backfilling", "verified", "failed"}
             /\ SetState(MigOf(w), "verified")
    <3>1. MigMoves /\ Len(mig') = Len(mig)
      BY <1>3, <1>6, <2>3, StateMoves
    <3>2. QED
      BY <1>5, <1>9, <2>1, <3>1
  <2>4. QED
    BY <1>15, <2>2, <2>3 DEF VerifyMove
<1>16. CASE GateBegin(w)
  <2>1. Crew'
    <3>1. CASE wk' = [wk EXCEPT ![w] = [At(wk[w].job, "pending") EXCEPT !.pin = mig[MigOf(w)].ver]]
      <4> DEFINE r == [At(wk[w].job, "pending") EXCEPT !.pin = mig[MigOf(w)].ver]
      <4>1. mig[MigOf(w)].ver \in {None} \union Evidence
        BY <1>4 DEF MigType
      <4>2. r \in BusyType /\ r.job = wk[w].job
        BY <1>q, <4>1, AtPinned
      <4>3. wk' = [wk EXCEPT ![w] = r]
        BY <3>1
      <4> HIDE DEF r
      <4>4. QED
        BY <1>8, <4>2, <4>3
    <3>2. CASE wk' = [wk EXCEPT ![w] = At(wk[w].job, "fail")]
      BY <1>5, <1>9, <3>2 DEF Goto
    <3>3. QED
      BY <1>16, <3>1, <3>2 DEF GateBegin
  <2>2. CASE mig' = mig
    BY <1>10, <2>1, <2>2
  <2>3. CASE /\ mig[MigOf(w)].state \in {"verified", "gate_failed", "gating"}
             /\ SetState(MigOf(w), "gating")
    <3>1. MigMoves /\ Len(mig') = Len(mig)
      BY <1>3, <1>6, <2>3, StateMoves
    <3>2. QED
      BY <2>1, <3>1
  <2>4. QED
    BY <1>16, <2>2, <2>3 DEF GateBegin
<1>17. CASE GateEvaluate(w)
  <2>1. CASE /\ wk' = [wk EXCEPT ![w] = [At(wk[w].job, "pending") EXCEPT
                                !.pin = wk[w].pin, !.judged = TRUE]]
             /\ mig' = mig
    <3> DEFINE r == [At(wk[w].job, "pending") EXCEPT !.pin = wk[w].pin, !.judged = TRUE]
    <3>1. r \in BusyType /\ r.job = wk[w].job
      BY <1>4, <1>q, AtPinned
    <3>2. wk' = [wk EXCEPT ![w] = r]
      BY <2>1
    <3> HIDE DEF r
    <3>3. QED
      BY <1>8, <1>10, <2>1, <3>1, <3>2
  <2>2. QED
    BY <1>11, <1>17, <2>1 DEF GateEvaluate
<1>18. CASE GateRecord(w)
  <2>1. Goto(w, "finish") \/ Goto(w, "fail")
    BY <1>18 DEF GateRecord
  <2>2. CASE mig' = mig
    BY <1>5, <1>9, <1>10, <2>1, <2>2
  <2>3. ASSUME NEW passed \in BOOLEAN, mig[MigOf(w)].state = "gating",
               mig' = [mig EXCEPT ![MigOf(w)] = [@ EXCEPT
                          !.state = IF passed THEN "ready" ELSE "gate_failed",
                          !.gate = [passed |-> passed, rev |-> wk[w].rev,
                                    scope |-> wk[w].text, job |-> wk[w].job]]]
        PROVE  Crew' /\ MigMoves /\ Len(mig') = Len(mig)
    <3> DEFINE v == [passed |-> passed, rev |-> wk[w].rev, scope |-> wk[w].text,
                     job |-> wk[w].job]
               st == IF passed THEN "ready" ELSE "gate_failed"
    <3>1. v \in Verdict
      BY <1>3, <1>4 DEF Verdict
    <3>2. st \in {"ready", "gate_failed"}
      OBVIOUS
    <3>3. mig' = [mig EXCEPT ![MigOf(w)] = [@ EXCEPT !.state = st, !.gate = v]]
      BY <2>3
    <3> HIDE DEF v, st
    <3>4. MigMoves /\ Len(mig') = Len(mig)
      BY <1>3, <2>3, <3>1, <3>2, <3>3, VerdictMoves
    <3>5. QED
      BY <1>5, <1>9, <2>1, <3>4
  <2>4. QED
    BY <1>18, <2>2, <2>3 DEF GateRecord
<1>19. QED
  BY <1>12, <1>13, <1>14, <1>15, <1>16, <1>17, <1>18

\* claim_next_action_job, and the end of a worker's job.
LEMMA JobTypes ==
  ASSUME TypeInv, NEW w \in Workers,
         \/ ClaimSome(w) \/ FinishJob(w) \/ FailJob(w) \/ HeartbeatLost(w)
         \/ WorkerStop(w) \/ WorkerCrash(w)
  PROVE  Good /\ JobMoves
PROOF
<1>l. Len(mig) \in Nat /\ Len(jobs) \in Nat /\ DOMAIN jobs = 1..Len(jobs)
  BY Rows
<1>1. ASSUME NEW j \in 1..Len(jobs), Claim(w, j) PROVE Good /\ JobMoves
  <2> DEFINE r == [jobs[j] EXCEPT !.state = "running", !.owner = w]
  <2>0. jobs[j] \in JobType
    BY Rows
  <2>1. /\ r \in JobType /\ r.mig = jobs[j].mig /\ r.action = jobs[j].action
        /\ r.state = "running" /\ r.owner = w
    BY <2>0 DEF JobType
  <2>2. /\ jobs' = [jobs EXCEPT ![j] = r] /\ jobs[j].state \in {"queued", "running"}
        /\ UNCHANGED <<corpus, rev, pub, ptr, coll, bnd, mig, receipts, starts, cut,
                       purges, missed>>
    BY <1>1 DEF Claim
  <2>3. faults' \in 0..MaxFaults
    BY <1>1, EmbeddingAssumption DEF Claim, TypeInv, World
  <2> HIDE DEF r
  <2>4. Queue' /\ Len(jobs') = Len(jobs) /\ JobMoves
    BY <2>1, <2>2, JobReplaced
  <2>5. PICK pc \in PCs : wk' = [wk EXCEPT ![w] = At(j, pc)]
    <3> DEFINE first == CASE jobs[j].action = "backfill" -> "backfill"
                          [] jobs[j].action = "verify"   -> "pending"
                          [] jobs[j].action = "gate"     -> "gating"
               pc == IF jobs[j].state = "running" /\ Recognised(j) THEN "finish" ELSE first
    <3>1. jobs[j].action \in {"backfill", "verify", "gate"}
      BY <2>0 DEF JobType, Actions
    <3>2. first \in {"backfill", "pending", "gating"}
      BY <3>1
    <3>3. wk' = [wk EXCEPT ![w] = At(j, pc)]
      BY <1>1 DEF Claim
    <3>4. pc \in PCs
      BY <3>2 DEF PCs
    <3>5. QED
      BY <3>3, <3>4
  <2>n. j \in Nat /\ pc \in PCs
    BY <1>l, <2>5
  <2>6. At(j, pc) \in BusyType /\ At(j, pc).job = j
    BY <2>n, AtType
  <2>7. Crew'
    BY <2>4, <2>5, <2>6, CrewBusy
  <2>8. QED
    BY <1>l, <2>2, <2>3, <2>4, <2>7, QueueStep
<1>2. CASE FinishJob(w) \/ FailJob(w) \/ HeartbeatLost(w) \/ WorkerStop(w) \/ WorkerCrash(w)
  <2>1. /\ wk' = [wk EXCEPT ![w] = Idle]
        /\ UNCHANGED <<corpus, rev, pub, ptr, coll, bnd, mig, receipts, starts, cut,
                       purges, missed>>
        /\ wk[w].pc # "idle" \/ wk[w] # Idle
    BY <1>2 DEF FinishJob, FailJob, HeartbeatLost, WorkerStop, WorkerCrash
  <2>2. wk[w].job \in 1..Len(jobs)
    BY <2>1, Busy
  <2>3. faults' \in 0..MaxFaults
    BY <1>2, EmbeddingAssumption DEF FinishJob, FailJob, HeartbeatLost, WorkerStop,
                                     WorkerCrash, TypeInv, World
  <2>4. \/ jobs' = jobs
        \/ /\ jobs[wk[w].job].state = "running"
           /\ \E st \in {"queued", "succeeded", "failed"} : jobs' = Settled(wk[w].job, st)
    BY <1>2 DEF FinishJob, FailJob, HeartbeatLost, WorkerStop, WorkerCrash, Owns
  <2>5. Queue' /\ Len(jobs') = Len(jobs) /\ JobMoves
    <3>1. CASE jobs' = jobs
      BY <1>l, <2>1, <3>1, Frames, SameJobs
    <3>2. ASSUME NEW st \in {"queued", "succeeded", "failed"},
                 jobs[wk[w].job].state = "running", jobs' = Settled(wk[w].job, st)
          PROVE  Queue' /\ Len(jobs') = Len(jobs) /\ JobMoves
      BY <2>1, <2>2, <3>2, SettledTypes
    <3>3. QED
      BY <2>4, <3>1, <3>2
  <2>6. Crew'
    BY <2>1, <2>5, CrewIdle
  <2>7. QED
    BY <1>l, <2>1, <2>3, <2>5, <2>6, QueueStep
<1>3. QED
  BY <1>l, <1>1, <1>2 DEF ClaimSome

-----------------------------------------------------------------------------
(* Types and settled jobs.                                                 *)

\* The first state.
LEMMA TypeInit == Init => TypeInv
PROOF
<1> SUFFICES ASSUME Init PROVE TypeInv
  OBVIOUS
<1>1. PICK v \in Versions : corpus = [s \in Segs |-> v]
  BY DEF Init
<1>2. corpus \in Text
  BY <1>1 DEF Text
<1>3. /\ coll = [c \in Colls |-> IF c = Base THEN corpus ELSE NoColl]
      /\ missed = [c \in Colls |-> IF c = Base THEN {} ELSE Segs]
      /\ rev = 0 /\ pub = None /\ ptr = Base /\ purges = {} /\ faults = 0
      /\ bnd = <<[coll |-> Base, state |-> "serving"]>>
      /\ mig = <<>> /\ receipts = <<>> /\ jobs = <<>> /\ cut = None
      /\ wk = [w \in Workers |-> Idle] /\ starts = [o \in Starters |-> Idle]
  BY DEF Init
<1>4. Base \in Colls /\ MaxRev \in Nat /\ MaxFaults \in Nat
  BY EmbeddingAssumption DEF Colls
<1>5. World
  BY <1>2, <1>3, <1>4 DEF World
<1>6. [coll |-> Base, state |-> "serving"] \in BindingType
  BY <1>4 DEF BindingType
<1>7. Tables
  BY <1>3, <1>6 DEF Tables
<1>8. Queue /\ Crew /\ Lease
  BY <1>3 DEF Queue, Crew, Lease
<1>9. Requests
  BY <1>3 DEF Requests, Idle
<1>10. QED
  BY <1>5, <1>7, <1>8, <1>9 DEF TypeInv

\* The steps that write the job table.
LEMMA JobTable ==
  ASSUME Next
  PROVE  \/ jobs' = jobs
         \/ \E m \in DOMAIN mig : Abort(m) \/ \E a \in Actions : EnqueueAction(m, a)
         \/ \E j \in DOMAIN jobs : CancelJob(j)
         \/ \E w \in Workers : \/ ClaimSome(w) \/ FinishJob(w) \/ FailJob(w)
                               \/ HeartbeatLost(w) \/ WorkerStop(w) \/ WorkerCrash(w)
PROOF
<1>1. CASE PublishBegin \/ PublishCommit \/ PublishAbort
  BY <1>1 DEF PublishBegin, PublishCommit, PublishAbort
<1>2. CASE Start
  BY <1>2 DEF Start, StartLookup, StartReopen, StartEnsure, StartBind, StartOrphan,
              StartBegin, StartCrash
<1>3. CASE Operator
  BY <1>3 DEF Operator, CutoverScan, CutoverCommit, Rollback, Reclaim, Purge
<1>4. ASSUME NEW w \in Workers, ClaimSome(w) \/ WorkerStep(w) \/ WorkerStop(w) \/ WorkerCrash(w)
      PROVE  \/ jobs' = jobs \/ ClaimSome(w) \/ FinishJob(w) \/ FailJob(w)
             \/ HeartbeatLost(w) \/ WorkerStop(w) \/ WorkerCrash(w)
  BY <1>4 DEF WorkerStep, BackfillBegin, BackfillList, BackfillUpsert, BackfillReceipt,
              CollectPending, CollectAuthority, CollectScope, VerifyMove, GateBegin,
              GateEvaluate, GateRecord
<1>5. QED
  BY <1>1, <1>2, <1>3, <1>4 DEF Next

\* Every step keeps the types and moves migrations, bindings and jobs on.
LEMMA TypeStep == TypeInv /\ PointerIsServing /\ [Next]_vars => Good /\ JobMoves
PROOF
<1> SUFFICES ASSUME TypeInv, PointerIsServing, [Next]_vars PROVE Good /\ JobMoves
  OBVIOUS
<1>l. /\ Len(mig) \in Nat /\ Len(jobs) \in Nat /\ Len(bnd) \in Nat
      /\ DOMAIN mig = 1..Len(mig) /\ DOMAIN jobs = 1..Len(jobs)
  BY Rows
<1>1. CASE UNCHANGED vars
  <2>1. UNCHANGED <<corpus, rev, pub, ptr, coll, bnd, mig, receipts, jobs, wk, starts,
                    cut, purges, faults, missed>>
    BY <1>1 DEF vars
  <2>2. QED
    BY <1>l, <2>1, Frames, Same, SameJobs DEF Good, TypeInv
<1>2. CASE Next
  <2>1. ASSUME PublishBegin \/ PublishCommit \/ PublishAbort PROVE Good
    BY <2>1, PublishTypes
  <2>2. ASSUME Start PROVE Good
    BY <2>2, StartTypes
  <2>3. ASSUME Operator PROVE Good
    <3>1. ASSUME NEW m \in 1..Len(mig), NEW keep \in BOOLEAN, Rollback(m, keep) PROVE Good
      BY <3>1, RollbackTypes
    <3>2. ASSUME NEW m \in 1..Len(mig), Abort(m) PROVE Good
      BY <3>2, AbortTypes
    <3>3. ASSUME NEW m \in 1..Len(mig), NEW a \in Actions, EnqueueAction(m, a) PROVE Good
      BY <1>l, <3>3, QueueTypes
    <3>4. QED
      BY <1>l, <2>3, <3>1, <3>2, <3>3, CutoverTypes, CleanupTypes, QueueTypes DEF Operator
  <2>4. ASSUME NEW w \in Workers, ClaimSome(w) \/ WorkerStep(w) \/ WorkerStop(w) \/ WorkerCrash(w)
        PROVE  Good
    BY <2>4, BackfillTypes, EvidenceTypes, JobTypes DEF WorkerStep
  <2>5. Good
    BY <1>2, <2>1, <2>2, <2>3, <2>4 DEF Next
  <2>6. JobMoves
    <3>1. CASE jobs' = jobs
      BY <3>1, SameJobs
    <3>2. ASSUME NEW m \in 1..Len(mig), Abort(m) PROVE JobMoves
      BY <3>2, AbortTypes
    <3>3. ASSUME NEW m \in 1..Len(mig), NEW a \in Actions, EnqueueAction(m, a) PROVE JobMoves
      BY <1>l, <3>3, QueueTypes
    <3>4. ASSUME NEW j \in 1..Len(jobs), CancelJob(j) PROVE JobMoves
      BY <1>l, <3>4, QueueTypes
    <3>5. ASSUME NEW w \in Workers,
                 \/ ClaimSome(w) \/ FinishJob(w) \/ FailJob(w)
                 \/ HeartbeatLost(w) \/ WorkerStop(w) \/ WorkerCrash(w)
          PROVE  JobMoves
      BY <3>5, JobTypes
    <3>6. QED
      BY <1>2, <1>l, <3>1, <3>2, <3>3, <3>4, <3>5, JobTable
  <2>7. QED
    BY <2>5, <2>6
<1>3. QED
  BY <1>1, <1>2

-----------------------------------------------------------------------------
(* The pointer.                                                            *)

\* The bindings keep their collections and serve or not as before, and a new
\* one does not serve.
SameServing ==
    /\ bnd' \in Seq(BindingType) /\ Len(bnd') >= Len(bnd)
    /\ \A x \in 1..Len(bnd) : /\ bnd'[x].coll = bnd[x].coll
                              /\ bnd'[x].state = "serving" <=> bnd[x].state = "serving"
    /\ \A x \in 1..Len(bnd') : x \in 1..Len(bnd) \/ bnd'[x].state # "serving"

\* A step that keeps the pointer and what serves.
LEMMA PointerKept ==
  ASSUME TypeInv, PointerIsServing, ptr' = ptr, SameServing
  PROVE  PointerIsServing'
PROOF
<1>1. DOMAIN bnd = 1..Len(bnd) /\ Len(bnd) \in Nat
  BY Rows
<1>2. DOMAIN bnd' = 1..Len(bnd') /\ Len(bnd') \in Nat
  BY DEF SameServing
<1>3. PICK b \in 1..Len(bnd) :
        bnd[b].coll = ptr /\ {x \in 1..Len(bnd) : bnd[x].state = "serving"} = {b}
  BY <1>1 DEF PointerIsServing
<1>4. b \in 1..Len(bnd') /\ bnd'[b].coll = ptr' /\ bnd'[b].state = "serving"
  BY <1>1, <1>2, <1>3 DEF SameServing
<1>5. \A x \in 1..Len(bnd') : bnd'[x].state = "serving" => x = b
  BY <1>3 DEF SameServing
<1>6. {x \in 1..Len(bnd') : bnd'[x].state = "serving"} = {b}
  BY <1>4, <1>5
<1>7. QED
  BY <1>2, <1>4, <1>6 DEF PointerIsServing

\* A step that makes one binding serve instead of another.
LEMMA PointerFlips ==
  ASSUME TypeInv, PointerIsServing, NEW a \in 1..Len(bnd), NEW b \in 1..Len(bnd), NEW sa,
         bnd[a].state = "serving", bnd[b].state # "serving", sa # "serving",
         SetBindings(a, sa, b, "serving"), ptr' = bnd[b].coll
  PROVE  PointerIsServing'
PROOF
<1>1. DOMAIN bnd = 1..Len(bnd)
  BY Rows
<1>2. \A x \in 1..Len(bnd) : bnd[x].state = "serving" => x = a
  BY <1>1 DEF PointerIsServing
<1>3. DOMAIN bnd' = 1..Len(bnd) /\ bnd'[b].coll = ptr' /\ bnd'[b].state = "serving"
  BY DEF SetBindings
<1>4. \A x \in 1..Len(bnd) : bnd'[x].state = "serving" => x = b
  BY <1>2 DEF SetBindings
<1>5. {x \in 1..Len(bnd) : bnd'[x].state = "serving"} = {b}
  BY <1>3, <1>4
<1>6. QED
  BY <1>3, <1>5 DEF PointerIsServing

\* The steps that write the bindings or the pointer.
LEMMA BindingTable ==
  ASSUME [Next]_vars
  PROVE  \/ UNCHANGED <<bnd, ptr>>
         \/ \E o \in Starters : StartBind(o)
         \/ CutoverCommit
         \/ \E m \in DOMAIN mig : Abort(m) \/ \E keep \in BOOLEAN : Rollback(m, keep)
         \/ \E b \in DOMAIN bnd : Reclaim(b)
PROOF
<1>0. CASE UNCHANGED vars
  BY <1>0 DEF vars
<1>1. CASE PublishBegin \/ PublishCommit \/ PublishAbort
  BY <1>1 DEF PublishBegin, PublishCommit, PublishAbort
<1>2. CASE Start
  BY <1>2 DEF Start, StartLookup, StartReopen, StartEnsure, StartOrphan, StartBegin, StartCrash
<1>3. CASE Operator
  BY <1>3 DEF Operator, CutoverScan, Purge, EnqueueAction, CancelJob
<1>4. ASSUME NEW w \in Workers, ClaimSome(w) \/ WorkerStep(w) \/ WorkerStop(w) \/ WorkerCrash(w)
      PROVE  UNCHANGED <<bnd, ptr>>
  BY <1>4 DEF WorkerStep, BackfillBegin, BackfillList, BackfillUpsert, BackfillReceipt,
              CollectPending, CollectAuthority, CollectScope, VerifyMove, GateBegin,
              GateEvaluate, GateRecord, ClaimSome, Claim, FinishJob, FailJob,
              HeartbeatLost, WorkerStop, WorkerCrash
<1>5. QED
  BY <1>0, <1>1, <1>2, <1>3, <1>4 DEF Next

\* create_binding appends a shadow, or changes nothing.
LEMMA BindEffect ==
  ASSUME TypeInv, NEW o \in Starters, StartBind(o)
  PROVE  /\ ptr' = ptr
         /\ \/ bnd' = bnd
            \/ /\ Reserving(starts[o].coll) = {} /\ bnd' \in Seq(BindingType)
               /\ Len(bnd') = Len(bnd) + 1
               /\ bnd'[Len(bnd) + 1] = [coll |-> starts[o].coll, state |-> "shadow"]
               /\ \A x \in 1..Len(bnd) : bnd'[x] = bnd[x]
PROOF
<1>1. ptr' = ptr /\ starts[o].pc = "bind"
  BY DEF StartBind
<1>2. CASE bnd' = bnd
  BY <1>1, <1>2
<1>3. CASE /\ Reserving(starts[o].coll) = {}
           /\ bnd' = Append(bnd, [coll |-> starts[o].coll, state |-> "shadow"])
  <2> DEFINE r == [coll |-> starts[o].coll, state |-> "shadow"]
  <2>1. starts[o].coll \in Colls
    BY <1>1, RequestRow
  <2>2. r \in BindingType
    BY <2>1 DEF BindingType
  <2>3. bnd \in Seq(BindingType) /\ bnd' = Append(bnd, r)
    BY <1>3 DEF TypeInv, Tables
  <2> HIDE DEF r
  <2>4. /\ bnd' \in Seq(BindingType) /\ Len(bnd') = Len(bnd) + 1
        /\ bnd'[Len(bnd) + 1] = r /\ \A x \in 1..Len(bnd) : bnd'[x] = bnd[x]
    BY <2>2, <2>3, AppendProperties
  <2>5. QED
    BY <1>1, <1>3, <2>4 DEF r
<1>4. QED
  BY <1>2, <1>3 DEF StartBind

\* What abort does to the bindings.
LEMMA AbortBindings ==
  ASSUME TypeInv, NEW m \in 1..Len(mig), Abort(m)
  PROVE  /\ ptr' = ptr
         /\ \/ bnd' = bnd /\ bnd[mig[m].tgt].state # "shadow"
            \/ /\ bnd[mig[m].tgt].state = "shadow"
               /\ SetBindings(mig[m].tgt, "retired", mig[m].tgt, "retired")
PROOF
<1>1. mig[m].tgt \in 1..Len(bnd)
  BY Ends
<1>2. QED
  BY <1>1, RetireBinding DEF Abort

\* Every step keeps the pointer at the one serving binding.
LEMMA PointerStep == TypeInv /\ PointerIsServing /\ [Next]_vars => PointerIsServing'
PROOF
<1> SUFFICES ASSUME TypeInv, PointerIsServing, [Next]_vars PROVE PointerIsServing'
  OBVIOUS
<1>l. /\ Len(bnd) \in Nat /\ DOMAIN mig = 1..Len(mig) /\ DOMAIN bnd = 1..Len(bnd)
      /\ bnd \in Seq(BindingType)
  BY Rows DEF TypeInv, Tables
<1>1. ASSUME UNCHANGED <<bnd, ptr>> PROVE PointerIsServing'
  BY <1>1 DEF PointerIsServing
<1>2. ASSUME NEW o \in Starters, StartBind(o) PROVE PointerIsServing'
  <2>1. CASE UNCHANGED <<bnd, ptr>>
    BY <1>1, <2>1
  <2>2. CASE /\ bnd' \in Seq(BindingType) /\ Len(bnd') = Len(bnd) + 1
             /\ bnd'[Len(bnd) + 1] = [coll |-> starts[o].coll, state |-> "shadow"]
             /\ \A x \in 1..Len(bnd) : bnd'[x] = bnd[x]
             /\ ptr' = ptr
    <3>1. SameServing
      BY <1>l, <2>2 DEF SameServing
    <3>2. QED
      BY <2>2, <3>1, PointerKept
  <2>3. QED
    BY <1>2, <2>1, <2>2, BindEffect
<1>3. ASSUME CutoverCommit PROVE PointerIsServing'
  <2>1. CASE UNCHANGED <<bnd, ptr>>
    BY <1>1, <2>1
  <2>2. cut.mig \in 1..Len(mig)
    BY <1>3 DEF CutoverCommit, TypeInv, Lease
  <2>3. ASSUME NEW m \in 1..Len(mig), CutoverAllowed(m, cut.scope), ptr' = Target(m),
               bnd' = [bnd EXCEPT ![mig[m].src].state = "retained",
                                  ![mig[m].tgt].state = "serving"]
        PROVE  PointerIsServing'
    <3>1. mig[m].src \in 1..Len(bnd) /\ mig[m].tgt \in 1..Len(bnd)
      BY Ends
    <3>2. SetBindings(mig[m].src, "retained", mig[m].tgt, "serving")
      BY <2>3, CutoverBindings
    <3>3. /\ bnd[mig[m].src].state = "serving" /\ bnd[mig[m].tgt].state = "shadow"
          /\ ptr' = bnd[mig[m].tgt].coll
      BY <2>3 DEF CutoverAllowed, Target
    <3>4. QED
      BY <3>1, <3>2, <3>3, PointerFlips
  <2>4. QED
    BY <1>3, <2>1, <2>2, <2>3 DEF CutoverCommit
<1>4. ASSUME NEW m \in 1..Len(mig), NEW keep \in BOOLEAN, Rollback(m, keep)
      PROVE  PointerIsServing'
  <2> DEFINE st == IF keep THEN "shadow" ELSE "retired"
  <2>1. mig[m].src \in 1..Len(bnd) /\ mig[m].tgt \in 1..Len(bnd)
    BY Ends
  <2>2. /\ bnd[mig[m].src].state = "retained" /\ bnd[mig[m].tgt].state = "serving"
        /\ ptr' = bnd[mig[m].src].coll
        /\ bnd' = [bnd EXCEPT ![mig[m].tgt].state = st, ![mig[m].src].state = "serving"]
    BY <1>4 DEF Rollback
  <2>3. st \in {"shadow", "retired"} /\ st # "serving"
    OBVIOUS
  <2> HIDE DEF st
  <2>4. SetBindings(mig[m].tgt, st, mig[m].src, "serving")
    BY <2>2, <2>3, RollbackBindings
  <2>5. QED
    BY <2>1, <2>2, <2>3, <2>4, PointerFlips
<1>5. ASSUME NEW b \in 1..Len(bnd), bnd[b].state # "serving", ptr' = ptr,
             SetBindings(b, "retired", b, "retired")
      PROVE  PointerIsServing'
  <2>1. SameServing
    BY <1>l, <1>5 DEF SetBindings, SameServing
  <2>2. QED
    BY <1>5, <2>1, PointerKept
<1>6. ASSUME NEW m \in 1..Len(mig), Abort(m) PROVE PointerIsServing'
  <2>1. mig[m].tgt \in 1..Len(bnd)
    BY Ends
  <2>2. CASE UNCHANGED <<bnd, ptr>>
    BY <1>1, <2>2
  <2>3. CASE /\ bnd[mig[m].tgt].state = "shadow" /\ ptr' = ptr
             /\ SetBindings(mig[m].tgt, "retired", mig[m].tgt, "retired")
    BY <1>5, <2>1, <2>3
  <2>4. QED
    BY <1>6, <2>2, <2>3, AbortBindings
<1>7. ASSUME NEW b \in 1..Len(bnd), Reclaim(b) PROVE PointerIsServing'
  <2>1. /\ bnd' = [bnd EXCEPT ![b].state = "retired"] /\ ptr' = ptr
        /\ bnd[b].state = "retained"
    BY <1>7 DEF Reclaim
  <2>2. SetBindings(b, "retired", b, "retired")
    BY <2>1, RetireBinding
  <2>3. QED
    BY <1>5, <2>1, <2>2
<1>8. QED
  BY <1>l, <1>1, <1>2, <1>3, <1>4, <1>6, <1>7, BindingTable

\* The types and the pointer hold together: a start request reads the serving
\* binding, which exists because the pointer is right.
BaseInv == TypeInv /\ PointerIsServing

\* The first state serves the base collection.
LEMMA BaseInit == Init => BaseInv
PROOF
<1> SUFFICES ASSUME Init PROVE PointerIsServing
  BY TypeInit DEF BaseInv
<1>1. bnd = <<[coll |-> Base, state |-> "serving"]>> /\ ptr = Base
  BY DEF Init
<1>2. DOMAIN bnd = {1} /\ bnd[1].coll = ptr /\ bnd[1].state = "serving"
  BY <1>1
<1>3. QED
  BY <1>2 DEF PointerIsServing

\* Types and pointer hold in every state.
LEMMA BaseInvariance == Spec => []BaseInv
PROOF
<1>1. BaseInv /\ [Next]_vars => BaseInv'
  BY TypeStep, PointerStep DEF BaseInv, Good
<1>2. QED
  BY BaseInit, <1>1, PTL DEF Spec

\* Rows, points, requests and worker records keep their types, and every row
\* refers to rows that exist, through every interleaving of ingestion, start
\* requests, operator actions, crashes and late workers.
THEOREM EmbeddingTypes == Spec => []TypeOK
PROOF
<1>1. BaseInv => TypeOK
  BY TypeParts DEF BaseInv
<1>2. QED
  BY BaseInvariance, <1>1, PTL

\* However cutover, rollback, abort, reclaim_expired and start_migration
\* interleave, datasets.collection_name names the one serving binding.
THEOREM PointerServes == Spec => []PointerIsServing
PROOF
<1>1. BaseInv => PointerIsServing
  BY DEF BaseInv
<1>2. QED
  BY BaseInvariance, <1>1, PTL

\* finish_action_job and fail_action_job are fenced by the claim token: a late
\* worker never settles a job a second time.
THEOREM SettledStay == Spec => SettledJobsStay
PROOF
<1> DEFINE Stays == \A j \in DOMAIN jobs :
                      /\ jobs[j].state = "failed" => jobs'[j].state \in {"failed", "queued"}
                      /\ jobs[j].state = "succeeded" => jobs'[j].state = "succeeded"
<1>1. BaseInv /\ [Next]_vars => Stays
  <2> SUFFICES ASSUME BaseInv, [Next]_vars PROVE Stays
    OBVIOUS
  <2>1. JobMoves
    BY TypeStep DEF BaseInv
  <2>2. DOMAIN jobs = 1..Len(jobs)
    BY Rows DEF BaseInv
  <2>3. QED
    BY <2>1, <2>2 DEF JobMoves, JobMove
<1>2. BaseInv /\ [Next]_vars => [Stays]_vars
  BY <1>1
<1>3. QED
  BY <1>2, BaseInvariance, PTL DEF Spec, SettledJobsStay

-----------------------------------------------------------------------------
(* What serves, what was judged, and what a cutover scanned.               *)

\* Of the bindings of one name only the last may be in use: create_binding is
\* refused while a binding that is not retired reserves the name.
NameInv ==
    \A a, b \in 1..Len(bnd) :
        a < b /\ bnd[a].coll = bnd[b].coll => bnd[a].state = "retired"

\* A migration that is or was ready has a verdict.
VerdictInv == \A m \in 1..Len(mig) : mig[m].state \in Judged => mig[m].gate # None

\* Collection c holds the corpus except for what it missed.
Holds(c) == \A s \in Segs \ missed[c] : coll[c] # NoColl /\ coll[c][s] = corpus[s]

\* The collection that serves holds the corpus, and so does every one kept for
\* a rollback.
ServedInv ==
    \A b \in 1..Len(bnd) : bnd[b].state \in {"serving", "retained"} => Holds(bnd[b].coll)

\* Under the exclusive lease nothing but a purge touches the scanned target.
CutInv ==
    cut # None =>
        /\ cut.scope # NoColl
        /\ bnd[mig[cut.mig].tgt].state = "shadow" =>
              \/ missed[Target(cut.mig)] = Segs
              \/ coll[Target(cut.mig)] = cut.scope

-----------------------------------------------------------------------------
(* Receipts and points.                                                    *)

\* What is going to be deleted was bound.
PurgeInv ==
    /\ \A c \in purges : \E b \in 1..Len(bnd) : bnd[b].coll = c
    /\ \A o \in Starters : starts[o].pc = "orphan" =>
          \E b \in 1..Len(bnd) : bnd[b].coll = starts[o].coll

\* The first shadow of a name is not deleted before it was judged.
CleanInv == \A b \in 1..Len(bnd) : Unjudged(b) => bnd[b].coll \notin purges

\* Every segment of text t has a point in the target of m.
Points(m, t) ==
    \A s \in Segs : t[s] # 0 => coll[Target(m)] # NoColl /\ coll[Target(m)][s] # 0

\* So it is for the receipts of an unjudged first shadow, and for the page of a
\* worker that is about to record it.
ReceiptInv == \A m \in 1..Len(mig) : Unjudged(mig[m].tgt) => Points(m, receipts[m])
PageInv ==
    \A w \in Workers :
        wk[w].pc = "receipt" /\ Unjudged(mig[MigOf(w)].tgt) => Points(MigOf(w), wk[w].page)

-----------------------------------------------------------------------------
(* The steps by what they write.                                           *)

\* The steps that write the corpus, a collection or the history.
LEMMA ContentSteps ==
  ASSUME [Next]_vars
  PROVE  \/ UNCHANGED <<corpus, coll, missed>>
         \/ PublishCommit
         \/ \E o \in Starters : StartEnsure(o)
         \/ \E m \in DOMAIN mig : CutoverScan(m)
         \/ \E c \in Colls : Purge(c)
         \/ \E w \in Workers : BackfillUpsert(w)
PROOF
<1>0. CASE UNCHANGED vars
  BY <1>0 DEF vars
<1>1. CASE PublishBegin \/ PublishCommit \/ PublishAbort
  BY <1>1 DEF PublishBegin, PublishAbort
<1>2. CASE Start
  BY <1>2 DEF Start, StartLookup, StartReopen, StartBind, StartOrphan, StartBegin, StartCrash
<1>3. CASE Operator
  BY <1>3 DEF Operator, CutoverCommit, Rollback, Abort, Reclaim, EnqueueAction, CancelJob
<1>4. ASSUME NEW w \in Workers, ClaimSome(w) \/ WorkerStep(w) \/ WorkerStop(w) \/ WorkerCrash(w)
      PROVE  UNCHANGED <<corpus, coll, missed>> \/ BackfillUpsert(w)
  BY <1>4 DEF WorkerStep, BackfillBegin, BackfillList, BackfillReceipt,
              CollectPending, CollectAuthority, CollectScope, VerifyMove, GateBegin,
              GateEvaluate, GateRecord, ClaimSome, Claim, FinishJob, FailJob,
              HeartbeatLost, WorkerStop, WorkerCrash
<1>5. QED
  BY <1>0, <1>1, <1>2, <1>3, <1>4 DEF Next

\* The steps that take or release the exclusive lease.
LEMMA LeaseSteps ==
  ASSUME [Next]_vars
  PROVE  cut' = cut \/ cut' = None \/ \E m \in DOMAIN mig : CutoverScan(m)
PROOF
<1>0. CASE UNCHANGED vars
  BY <1>0 DEF vars
<1>1. CASE PublishBegin \/ PublishCommit \/ PublishAbort
  BY <1>1 DEF PublishBegin, PublishCommit, PublishAbort
<1>2. CASE Start
  BY <1>2 DEF Start, StartLookup, StartReopen, StartEnsure, StartBind, StartOrphan,
              StartBegin, StartCrash
<1>3. CASE Operator
  BY <1>3 DEF Operator, CutoverCommit, Rollback, Abort, Reclaim, Purge, EnqueueAction, CancelJob
<1>4. ASSUME NEW w \in Workers, ClaimSome(w) \/ WorkerStep(w) \/ WorkerStop(w) \/ WorkerCrash(w)
      PROVE  cut' = cut
  BY <1>4 DEF WorkerStep, BackfillBegin, BackfillList, BackfillUpsert, BackfillReceipt,
              CollectPending, CollectAuthority, CollectScope, VerifyMove, GateBegin,
              GateEvaluate, GateRecord, ClaimSome, Claim, FinishJob, FailJob,
              HeartbeatLost, WorkerStop, WorkerCrash
<1>5. QED
  BY <1>0, <1>1, <1>2, <1>3, <1>4 DEF Next

\* Only begin_migration inserts a migration.
LEMMA MigrationSteps ==
  ASSUME [Next]_vars
  PROVE  DOMAIN mig' = DOMAIN mig \/ \E o \in Starters : StartBegin(o)
PROOF
<1>0. CASE UNCHANGED vars
  BY <1>0 DEF vars
<1>1. CASE PublishBegin \/ PublishCommit \/ PublishAbort
  BY <1>1 DEF PublishBegin, PublishCommit, PublishAbort
<1>2. CASE Start
  BY <1>2 DEF Start, StartLookup, StartReopen, StartEnsure, StartBind, StartOrphan,
              StartCrash, SetState
<1>3. CASE Operator
  BY <1>3 DEF Operator, CutoverScan, CutoverCommit, Rollback, Abort, Reclaim, Purge,
              EnqueueAction, CancelJob, SetState
<1>4. ASSUME NEW w \in Workers, ClaimSome(w) \/ WorkerStep(w) \/ WorkerStop(w) \/ WorkerCrash(w)
      PROVE  DOMAIN mig' = DOMAIN mig
  <2>1. CASE \/ BackfillBegin(w) \/ BackfillList(w) \/ BackfillUpsert(w) \/ BackfillReceipt(w)
             \/ VerifyMove(w) \/ GateBegin(w)
    BY <2>1 DEF BackfillBegin, BackfillList, BackfillUpsert, BackfillReceipt, VerifyMove,
                GateBegin, SetState
  <2>2. EvidenceFails(w) => DOMAIN mig' = DOMAIN mig
    BY DEF EvidenceFails, FailVerdict
  <2>3. CASE CollectPending(w) \/ CollectAuthority(w) \/ CollectScope(w) \/ GateEvaluate(w)
    BY <2>2, <2>3 DEF CollectPending, CollectAuthority, CollectScope, GateEvaluate
  <2>4. CASE GateRecord(w)
    BY <2>4 DEF GateRecord
  <2>5. CASE \/ ClaimSome(w) \/ FinishJob(w) \/ FailJob(w) \/ HeartbeatLost(w)
             \/ WorkerStop(w) \/ WorkerCrash(w)
    BY <2>5 DEF ClaimSome, Claim, FinishJob, FailJob, HeartbeatLost, WorkerStop, WorkerCrash
  <2>6. QED
    BY <1>4, <2>1, <2>3, <2>4, <2>5 DEF WorkerStep
<1>5. QED
  BY <1>0, <1>1, <1>2, <1>3, <1>4 DEF Next

\* A row of the next state is one of this state or the one begin_migration
\* inserts.
LEMMA NewMigration ==
  ASSUME BaseInv, [Next]_vars, NEW m \in 1..Len(mig')
  PROVE  \/ m \in 1..Len(mig)
         \/ /\ m = Len(mig) + 1 /\ mig'[m].state = "shadow_build" /\ mig'[m].gate = None
            /\ receipts' = Append(receipts, Blank)
            /\ UNCHANGED <<coll, bnd, jobs, wk, purges>>
PROOF
<1>1. TypeInv /\ TypeInv'
  BY TypeStep DEF BaseInv, Good
<1>2. /\ DOMAIN mig = 1..Len(mig) /\ Len(mig) \in Nat /\ mig \in Seq(MigType)
      /\ mig' \in Seq(MigType)
  BY <1>1, Rows DEF TypeInv, Tables
<1>3. DOMAIN mig' = 1..Len(mig')
  BY <1>2
<1>4. CASE DOMAIN mig' = DOMAIN mig
  BY <1>2, <1>3, <1>4
<1>5. ASSUME NEW o \in Starters, StartBegin(o), DOMAIN mig' # DOMAIN mig
      PROVE  \/ m \in 1..Len(mig)
             \/ /\ m = Len(mig) + 1 /\ mig'[m].state = "shadow_build" /\ mig'[m].gate = None
                /\ receipts' = Append(receipts, Blank)
                /\ UNCHANGED <<coll, bnd, jobs, wk, purges>>
  <2> DEFINE r == [src |-> starts[o].src, tgt |-> starts[o].bind, state |-> "shadow_build",
                   ver |-> None, vjob |-> 0, gate |-> None]
  <2>1. /\ mig' = Append(mig, r) /\ receipts' = Append(receipts, Blank)
        /\ UNCHANGED <<coll, bnd, jobs, wk, purges>>
    BY <1>5 DEF StartBegin
  <2>2. r.state = "shadow_build" /\ r.gate = None
    OBVIOUS
  <2> HIDE DEF r
  <2>3. Len(mig') = Len(mig) + 1 /\ mig'[Len(mig) + 1] = r
    BY <1>2, <2>1
  <2>4. QED
    BY <1>2, <2>1, <2>2, <2>3
<1>6. QED
  BY <1>4, <1>5, MigrationSteps

-----------------------------------------------------------------------------
(* Names and verdicts.                                                     *)

\* A binding of the next state is one of this state, or the shadow that
\* create_binding inserts under a name nobody reserves.
LEMMA NewBinding ==
  ASSUME BaseInv, [Next]_vars, NEW b \in 1..Len(bnd')
  PROVE  \/ b \in 1..Len(bnd)
         \/ /\ b = Len(bnd) + 1 /\ bnd'[b].state = "shadow" /\ Reserving(bnd'[b].coll) = {}
            /\ \E o \in Starters : StartBind(o) /\ bnd'[b].coll = starts[o].coll
PROOF
<1>1. TypeInv /\ Len(bnd) \in Nat /\ DOMAIN mig = 1..Len(mig) /\ DOMAIN bnd = 1..Len(bnd)
  BY Rows DEF BaseInv
<1>2. CASE bnd' = bnd
  BY <1>2
<1>3. ASSUME NEW o \in Starters, StartBind(o), bnd' # bnd
      PROVE  \/ b \in 1..Len(bnd)
             \/ /\ b = Len(bnd) + 1 /\ bnd'[b].state = "shadow"
                /\ Reserving(bnd'[b].coll) = {} /\ bnd'[b].coll = starts[o].coll
  <2>1. /\ Reserving(starts[o].coll) = {} /\ bnd' \in Seq(BindingType)
        /\ Len(bnd') = Len(bnd) + 1
        /\ bnd'[Len(bnd) + 1] = [coll |-> starts[o].coll, state |-> "shadow"]
    BY <1>1, <1>3, BindEffect
  <2>2. QED
    BY <1>1, <2>1
<1>5. ASSUME CutoverCommit PROVE b \in 1..Len(bnd)
  <2>1. cut.mig \in 1..Len(mig)
    BY <1>1, <1>5 DEF CutoverCommit, TypeInv, Lease
  <2>2. mig[cut.mig].src \in 1..Len(bnd) /\ mig[cut.mig].tgt \in 1..Len(bnd)
    BY <1>1, <2>1, Ends
  <2>3. CASE bnd' = [bnd EXCEPT ![mig[cut.mig].src].state = "retained",
                                ![mig[cut.mig].tgt].state = "serving"]
    <3>1. SetBindings(mig[cut.mig].src, "retained", mig[cut.mig].tgt, "serving")
      BY <1>1, <2>1, <2>3, CutoverBindings
    <3>2. QED
      BY <3>1 DEF SetBindings
  <2>4. QED
    BY <1>2, <1>5, <2>3 DEF CutoverCommit
<1>6. ASSUME NEW m \in 1..Len(mig), NEW keep \in BOOLEAN, Rollback(m, keep)
      PROVE  b \in 1..Len(bnd)
  <2> DEFINE st == IF keep THEN "shadow" ELSE "retired"
  <2>1. bnd' = [bnd EXCEPT ![mig[m].tgt].state = st, ![mig[m].src].state = "serving"]
    BY <1>6 DEF Rollback
  <2>2. st \in {"shadow", "retired"}
    OBVIOUS
  <2> HIDE DEF st
  <2>3. SetBindings(mig[m].tgt, st, mig[m].src, "serving")
    BY <1>1, <2>1, <2>2, RollbackBindings
  <2>4. QED
    BY <2>3 DEF SetBindings
<1>7. ASSUME NEW m \in 1..Len(mig), Abort(m) PROVE b \in 1..Len(bnd)
  <2>1. bnd' = bnd \/ SetBindings(mig[m].tgt, "retired", mig[m].tgt, "retired")
    BY <1>1, <1>7, AbortBindings
  <2>2. QED
    BY <2>1 DEF SetBindings
<1>8. ASSUME NEW c \in 1..Len(bnd), Reclaim(c) PROVE b \in 1..Len(bnd)
  <2>1. SetBindings(c, "retired", c, "retired")
    BY <1>1, <1>8, RetireBinding DEF Reclaim
  <2>2. QED
    BY <2>1 DEF SetBindings
<1>9. QED
  BY <1>1, <1>2, <1>3, <1>5, <1>6, <1>7, <1>8, BindingTable

\* A name is not taken while a binding reserves it.
LEMMA NameStep == BaseInv /\ NameInv /\ [Next]_vars => NameInv'
PROOF
<1> SUFFICES ASSUME BaseInv, NameInv, [Next]_vars,
                    NEW a \in 1..Len(bnd'), NEW b \in 1..Len(bnd'),
                    a < b, bnd'[a].coll = bnd'[b].coll
             PROVE  bnd'[a].state = "retired"
  BY DEF NameInv
<1>1. BndMoves /\ TypeInv
  BY TypeStep DEF BaseInv, Good
<1>2. Len(bnd) \in Nat /\ DOMAIN bnd = 1..Len(bnd)
  BY <1>1, Rows
<1>3. a \in 1..Len(bnd)
  <2>1. a \in 1..Len(bnd) \/ a = Len(bnd) + 1
    BY NewBinding
  <2>2. b \in 1..Len(bnd) \/ b = Len(bnd) + 1
    BY NewBinding
  <2>3. QED
    BY <1>2, <2>1, <2>2
<1>4. bnd'[a].coll = bnd[a].coll /\ (bnd[a].state = "retired" => bnd'[a].state = "retired")
  BY <1>1, <1>3 DEF BndMoves
<1>5. CASE b \in 1..Len(bnd)
  <2>1. bnd'[b].coll = bnd[b].coll
    BY <1>1, <1>5 DEF BndMoves
  <2>2. QED
    BY <1>3, <1>4, <1>5, <2>1 DEF NameInv
<1>6. CASE b \notin 1..Len(bnd)
  <2>1. Reserving(bnd'[b].coll) = {}
    BY <1>6, NewBinding
  <2>2. bnd[a].state = "retired"
    BY <1>2, <1>3, <1>4, <2>1 DEF Reserving
  <2>3. QED
    BY <1>4, <2>2
<1>7. QED
  BY <1>5, <1>6

\* Of two bindings of one name, one is retired.
LEMMA OneInUse ==
  ASSUME BaseInv, NameInv, NEW a \in 1..Len(bnd), NEW b \in 1..Len(bnd),
         bnd[a].coll = bnd[b].coll, bnd[a].state # "retired", bnd[b].state # "retired"
  PROVE  a = b
PROOF
<1>1. a < b \/ b < a \/ a = b
  BY Rows DEF BaseInv
<1>2. QED
  BY <1>1 DEF NameInv

\* A verdict is not lost.
LEMMA VerdictStep == BaseInv /\ VerdictInv /\ [Next]_vars => VerdictInv'
PROOF
<1> SUFFICES ASSUME BaseInv, VerdictInv, [Next]_vars, NEW m \in 1..Len(mig'),
                    mig'[m].state \in Judged
             PROVE  mig'[m].gate # None
  BY DEF VerdictInv
<1>1. MigMoves
  BY TypeStep DEF BaseInv, Good
<1>2. m \in 1..Len(mig)
  BY NewMigration DEF Judged
<1>3. MigMove(m)
  BY <1>1, <1>2 DEF MigMoves
<1>4. QED
  BY <1>2, <1>3 DEF MigMove, VerdictInv

-----------------------------------------------------------------------------
(* What serves holds the corpus.                                           *)

\* A publication, a purge, a backfill and ensure_collection leave every
\* collection with the corpus, except for what they count as missed.
LEMMA HoldsKept ==
  ASSUME TypeInv, NEW c \in Colls, Holds(c),
         \/ UNCHANGED <<corpus, coll, missed>>
         \/ PublishCommit
         \/ \E o \in Starters : StartEnsure(o)
         \/ \E d \in Colls : Purge(d)
         \/ \E w \in Workers : BackfillUpsert(w)
  PROVE  Holds(c)'
PROOF
<1>0. /\ corpus \in Text /\ ptr \in Colls /\ coll \in [Colls -> {NoColl} \union Text]
      /\ missed \in [Colls -> SUBSET Segs]
  BY DEF TypeInv, World
<1> SUFFICES ASSUME NEW s \in Segs, s \notin missed'[c]
             PROVE  coll'[c] # NoColl /\ coll'[c][s] = corpus'[s]
  BY DEF Holds
<1>1. CASE UNCHANGED <<corpus, coll, missed>>
  BY <1>1 DEF Holds
<1>2. CASE PublishCommit
  <2>1. /\ pub # None /\ pub \in [seg : Segs, ver : Versions \union {0}]
        /\ coll[ptr] \in Text /\ coll[ptr] # NoColl
    BY <1>0, <1>2 DEF PublishCommit, TypeInv, World
  <2>2. /\ corpus' = [corpus EXCEPT ![pub.seg] = pub.ver]
        /\ coll' = [coll EXCEPT ![ptr] = [coll[ptr] EXCEPT ![pub.seg] = pub.ver]]
        /\ missed' = [d \in Colls |-> IF d = ptr THEN missed[d] \ {pub.seg}
                                                 ELSE missed[d] \union {pub.seg}]
    BY <1>2 DEF PublishCommit
  <2>3. pub.seg \in Segs
    BY <2>1
  <2>4. CASE c = ptr
    <3>1. coll'[c] = [coll[ptr] EXCEPT ![pub.seg] = pub.ver]
      BY <1>0, <2>2, <2>4
    <3>2. [coll[ptr] EXCEPT ![pub.seg] = pub.ver] # NoColl
      <4>1. DOMAIN [coll[ptr] EXCEPT ![pub.seg] = pub.ver] = Segs /\ Segs # {}
        BY <2>1, <2>3 DEF Text
      <4>2. DOMAIN NoColl = {}
        BY DEF NoColl
      <4>3. QED
        BY <4>1, <4>2
    <3>3. CASE s = pub.seg
      BY <1>0, <2>1, <2>2, <3>1, <3>2, <3>3 DEF Text
    <3>4. CASE s # pub.seg
      <4>1. s \notin missed[c]
        BY <2>2, <2>4, <3>4
      <4>2. coll[c][s] = corpus[s]
        BY <4>1 DEF Holds
      <4>3. QED
        BY <1>0, <2>1, <2>2, <2>4, <3>1, <3>2, <3>4, <4>2 DEF Text
    <3>5. QED
      BY <3>3, <3>4
  <2>5. CASE c # ptr
    <3>1. s \notin missed[c] /\ s # pub.seg
      BY <2>2, <2>5
    <3>2. coll'[c] = coll[c] /\ corpus'[s] = corpus[s]
      BY <1>0, <2>2, <2>5, <3>1 DEF Text
    <3>3. QED
      BY <3>1, <3>2 DEF Holds
  <2>6. QED
    BY <2>4, <2>5
<1>3. ASSUME NEW o \in Starters, StartEnsure(o)
      PROVE  coll'[c] # NoColl /\ coll'[c][s] = corpus'[s]
  <2>1. /\ coll' = [coll EXCEPT ![starts[o].coll] = IF @ = NoColl THEN Blank ELSE @]
        /\ missed' = missed /\ corpus' = corpus
    BY <1>3 DEF StartEnsure
  <2>2. coll[c] # NoColl /\ coll[c][s] = corpus[s]
    BY <2>1 DEF Holds
  <2>3. coll'[c] = coll[c]
    BY <1>0, <2>1, <2>2
  <2>4. QED
    BY <2>1, <2>2, <2>3
<1>4. ASSUME NEW d \in Colls, Purge(d)
      PROVE  coll'[c] # NoColl /\ coll'[c][s] = corpus'[s]
  <2>1. /\ corpus' = corpus
        /\ \/ UNCHANGED <<coll, missed>>
           \/ coll' = [coll EXCEPT ![d] = NoColl] /\ missed' = [missed EXCEPT ![d] = Segs]
    BY <1>4 DEF Purge
  <2>2. CASE c = d /\ missed' = [missed EXCEPT ![d] = Segs]
    BY <1>0, <2>2
  <2>3. CASE UNCHANGED <<coll, missed>> \/ c # d
    <3>1. coll'[c] = coll[c] /\ missed'[c] = missed[c]
      BY <1>0, <2>1, <2>3
    <3>2. QED
      BY <2>1, <3>1 DEF Holds
  <2>4. QED
    BY <2>1, <2>2, <2>3
<1>5. ASSUME NEW w \in Workers, BackfillUpsert(w)
      PROVE  coll'[c] # NoColl /\ coll'[c][s] = corpus'[s]
  <2> DEFINE d == Target(MigOf(w))
             t == [x \in Segs |-> IF wk[w].page[x] # 0 THEN wk[w].page[x] ELSE coll[d][x]]
             h == {x \in Segs : wk[w].page[x] # 0}
  <2>1. /\ corpus' = corpus
        /\ \/ UNCHANGED <<coll, missed>>
           \/ coll' = [coll EXCEPT ![d] = t] /\ missed' = [missed EXCEPT ![d] = @ \union h]
    BY <1>5 DEF BackfillUpsert
  <2>2. CASE c = d /\ coll' = [coll EXCEPT ![d] = t] /\ missed' = [missed EXCEPT ![d] = @ \union h]
    <3>1. s \notin missed[c] /\ wk[w].page[s] = 0
      BY <1>0, <2>2
    <3>2. coll'[c] = t /\ t[s] = coll[c][s]
      BY <1>0, <2>2, <3>1
    <3>3. t # NoColl
      <4>1. DOMAIN t = Segs /\ Segs # {}
        OBVIOUS
      <4>2. DOMAIN NoColl = {}
        BY DEF NoColl
      <4>3. QED
        BY <4>1, <4>2
    <3>4. QED
      BY <2>1, <3>1, <3>2, <3>3 DEF Holds
  <2>3. CASE UNCHANGED <<coll, missed>> \/ c # d
    <3>1. coll'[c] = coll[c] /\ missed'[c] = missed[c]
      BY <1>0, <2>1, <2>3
    <3>2. QED
      BY <2>1, <3>1 DEF Holds
  <2>4. QED
    BY <2>1, <2>2, <2>3
<1>6. QED
  BY <1>1, <1>2, <1>3, <1>4, <1>5

\* Outside a cutover that goes through, a binding serves or is kept only if it
\* did before.
LEMMA StillServed ==
  ASSUME BaseInv, [Next]_vars, NEW b \in 1..Len(bnd'), bnd'[b].state \in {"serving", "retained"}
  PROVE  /\ b \in 1..Len(bnd)
         /\ \/ bnd[b].state \in {"serving", "retained"}
            \/ /\ CutoverCommit /\ cut # None /\ cut.mig \in 1..Len(mig)
               /\ CutoverAllowed(cut.mig, cut.scope) /\ b = mig[cut.mig].tgt
PROOF
<1>1. /\ TypeInv /\ Len(bnd) \in Nat /\ DOMAIN mig = 1..Len(mig)
      /\ DOMAIN bnd = 1..Len(bnd)
  BY Rows DEF BaseInv
<1>2. b \in 1..Len(bnd)
  BY NewBinding
<1>3. CASE bnd' = bnd
  BY <1>2, <1>3
<1>4. ASSUME NEW o \in Starters, StartBind(o) PROVE bnd[b].state \in {"serving", "retained"}
  BY <1>1, <1>2, <1>4, BindEffect
<1>5. ASSUME CutoverCommit, bnd' # bnd
      PROVE  \/ bnd[b].state \in {"serving", "retained"}
             \/ /\ cut # None /\ cut.mig \in 1..Len(mig)
                /\ CutoverAllowed(cut.mig, cut.scope) /\ b = mig[cut.mig].tgt
  <2>1. /\ cut # None /\ CutoverAllowed(cut.mig, cut.scope)
        /\ bnd' = [bnd EXCEPT ![mig[cut.mig].src].state = "retained",
                              ![mig[cut.mig].tgt].state = "serving"]
    BY <1>5 DEF CutoverCommit
  <2>2. cut.mig \in 1..Len(mig)
    BY <1>1, <2>1 DEF TypeInv, Lease
  <2>3. SetBindings(mig[cut.mig].src, "retained", mig[cut.mig].tgt, "serving")
    BY <1>1, <2>1, <2>2, CutoverBindings
  <2>4. bnd[mig[cut.mig].src].state = "serving"
    BY <2>1 DEF CutoverAllowed
  <2>5. QED
    BY <1>2, <2>1, <2>2, <2>3, <2>4 DEF SetBindings
<1>6. ASSUME NEW m \in 1..Len(mig), NEW keep \in BOOLEAN, Rollback(m, keep)
      PROVE  bnd[b].state \in {"serving", "retained"}
  <2> DEFINE st == IF keep THEN "shadow" ELSE "retired"
  <2>1. /\ bnd' = [bnd EXCEPT ![mig[m].tgt].state = st, ![mig[m].src].state = "serving"]
        /\ bnd[mig[m].src].state = "retained"
    BY <1>6 DEF Rollback
  <2>2. st \in {"shadow", "retired"}
    OBVIOUS
  <2> HIDE DEF st
  <2>3. SetBindings(mig[m].tgt, st, mig[m].src, "serving")
    BY <1>1, <2>1, <2>2, RollbackBindings
  <2>4. QED
    BY <1>2, <2>1, <2>2, <2>3 DEF SetBindings
<1>7. ASSUME NEW m \in 1..Len(mig), Abort(m) PROVE bnd[b].state \in {"serving", "retained"}
  <2>1. bnd' = bnd \/ SetBindings(mig[m].tgt, "retired", mig[m].tgt, "retired")
    BY <1>1, <1>7, AbortBindings
  <2>2. QED
    BY <1>2, <2>1 DEF SetBindings
<1>8. ASSUME NEW c \in 1..Len(bnd), Reclaim(c) PROVE bnd[b].state \in {"serving", "retained"}
  <2>1. SetBindings(c, "retired", c, "retired")
    BY <1>1, <1>8, RetireBinding DEF Reclaim
  <2>2. QED
    BY <1>2, <2>1 DEF SetBindings
<1>9. QED
  BY <1>1, <1>2, <1>3, <1>4, <1>5, <1>6, <1>7, <1>8, BindingTable

\* What a cutover serves holds the corpus.
LEMMA CutoverHolds ==
  ASSUME BaseInv, CutInv, cut # None, cut.mig \in 1..Len(mig),
         CutoverAllowed(cut.mig, cut.scope)
  PROVE  /\ Holds(Target(cut.mig))
         /\ coll[Target(cut.mig)] = corpus \/ missed[Target(cut.mig)] = Segs
PROOF
<1>1. /\ cut.scope = corpus /\ cut.scope # NoColl
      /\ bnd[mig[cut.mig].tgt].state = "shadow"
  BY DEF CutoverAllowed, CutInv
<1>2. coll[Target(cut.mig)] = cut.scope \/ missed[Target(cut.mig)] = Segs
  BY <1>1 DEF CutInv
<1>3. QED
  BY <1>1, <1>2 DEF Holds

\* A cutover serves the corpus, and everything else keeps what it held.
LEMMA ServedStep ==
  BaseInv /\ NameInv /\ CutInv /\ ServedInv /\ [Next]_vars => ServedInv'
PROOF
<1> SUFFICES ASSUME BaseInv, NameInv, CutInv, ServedInv, [Next]_vars,
                    NEW b \in 1..Len(bnd'), bnd'[b].state \in {"serving", "retained"},
                    NEW c, c = bnd'[b].coll
             PROVE  Holds(c)'
  BY DEF ServedInv, Holds
<1>1. TypeInv /\ BndMoves /\ DOMAIN mig = 1..Len(mig)
  BY TypeStep, Rows DEF BaseInv, Good
<1>2. b \in 1..Len(bnd)
  BY StillServed
<1>3. bnd'[b].coll = bnd[b].coll /\ bnd[b] \in BindingType
  BY <1>1, <1>2, Rows DEF BndMoves
<1>4. c \in Colls /\ c = bnd[b].coll
  BY <1>3 DEF BindingType
<1>5. CASE bnd[b].state \notin {"serving", "retained"}
  <2>1. /\ CutoverCommit /\ cut # None /\ cut.mig \in 1..Len(mig)
        /\ CutoverAllowed(cut.mig, cut.scope) /\ b = mig[cut.mig].tgt
    BY <1>5, StillServed
  <2>2. Holds(Target(cut.mig))
    BY <2>1, CutoverHolds
  <2>3. Holds(c) /\ UNCHANGED <<corpus, coll, missed>>
    BY <1>4, <2>1, <2>2 DEF CutoverCommit, Target
  <2>4. QED
    BY <2>3 DEF Holds
<1>6. CASE bnd[b].state \in {"serving", "retained"}
  <2>1. Holds(c)
    BY <1>2, <1>4, <1>6 DEF ServedInv
  <2>2. ASSUME NEW m \in 1..Len(mig), CutoverScan(m) PROVE Holds(c)'
    <3>1. /\ UNCHANGED <<corpus, coll>> /\ mig[m].tgt \in 1..Len(bnd)
          /\ \/ missed' = missed
             \/ /\ missed' = [missed EXCEPT ![Target(m)] = {}]
                /\ bnd[mig[m].tgt].state = "shadow"
      BY <1>1, <2>2, Ends DEF CutoverScan
    <3>2. CASE missed' = missed
      BY <2>1, <3>1, <3>2 DEF Holds
    <3>3. CASE /\ missed' = [missed EXCEPT ![Target(m)] = {}]
               /\ bnd[mig[m].tgt].state = "shadow"
      <4>1. c # Target(m)
        <5>1. SUFFICES ASSUME bnd[b].coll = bnd[mig[m].tgt].coll PROVE FALSE
          BY <1>4 DEF Target
        <5>2. b = mig[m].tgt
          BY <1>2, <1>6, <3>1, <3>3, <5>1, OneInUse
        <5>3. QED
          BY <1>6, <3>3, <5>2
      <4>2. missed'[c] = missed[c]
        BY <1>1, <1>4, <3>3, <4>1 DEF TypeInv, World
      <4>3. QED
        BY <2>1, <3>1, <4>2 DEF Holds
    <3>4. QED
      BY <3>1, <3>2, <3>3
  <2>3. CASE ~ \E m \in DOMAIN mig : CutoverScan(m)
    <3>1. \/ UNCHANGED <<corpus, coll, missed>>
          \/ PublishCommit
          \/ \E o \in Starters : StartEnsure(o)
          \/ \E d \in Colls : Purge(d)
          \/ \E w \in Workers : BackfillUpsert(w)
      BY <2>3, ContentSteps
    <3>2. QED
      BY <1>1, <1>4, <2>1, <3>1, HoldsKept
  <2>4. QED
    BY <1>1, <1>3, <2>2, <2>3
<1>7. QED
  BY <1>5, <1>6

\* While a cutover holds the lease, only a purge, which counts everything as
\* missed, and ensure_collection, which keeps what exists, touch its target.
LEMMA ScanKept ==
  ASSUME BaseInv, [Next]_vars, cut # None, cut' = cut, NEW c \in Colls, NEW t,
         t # NoColl, missed[c] = Segs \/ coll[c] = t
  PROVE  missed'[c] = Segs \/ coll'[c] = t
PROOF
<1>1. /\ pub = None /\ coll \in [Colls -> {NoColl} \union Text]
      /\ missed \in [Colls -> SUBSET Segs]
  BY DEF BaseInv, TypeInv, World, Lease
<1>2. CASE UNCHANGED <<corpus, coll, missed>>
  BY <1>2
<1>3. CASE PublishCommit
  BY <1>1, <1>3 DEF PublishCommit
<1>4. ASSUME NEW o \in Starters, StartEnsure(o) PROVE missed'[c] = Segs \/ coll'[c] = t
  <2>1. /\ coll' = [coll EXCEPT ![starts[o].coll] = IF @ = NoColl THEN Blank ELSE @]
        /\ missed' = missed
    BY <1>4 DEF StartEnsure
  <2>2. CASE coll[c] = NoColl
    BY <2>1, <2>2
  <2>3. CASE coll[c] # NoColl
    <3>1. coll'[c] = coll[c]
      BY <1>1, <2>1, <2>3
    <3>2. QED
      BY <2>1, <3>1
  <2>4. QED
    BY <2>2, <2>3
<1>5. ASSUME NEW m \in DOMAIN mig, CutoverScan(m) PROVE FALSE
  BY <1>5 DEF CutoverScan, Unlocked
<1>6. ASSUME NEW d \in Colls, Purge(d) PROVE missed'[c] = Segs \/ coll'[c] = t
  BY <1>1, <1>6 DEF Purge
<1>7. ASSUME NEW w \in Workers, BackfillUpsert(w) PROVE missed'[c] = Segs \/ coll'[c] = t
  BY <1>7 DEF BackfillUpsert
<1>8. QED
  BY <1>2, <1>3, <1>4, <1>5, <1>6, <1>7, ContentSteps

\* While a cutover holds the lease, no binding changes.
LEMMA LeaseKeepsBindings ==
  ASSUME [Next]_vars, cut # None, cut' = cut
  PROVE  bnd' = bnd
PROOF
<1>1. ~ \E b \in DOMAIN bnd : Reclaim(b)
  BY DEF Reclaim, Unlocked
<1>2. ~ \E m \in DOMAIN mig : Abort(m) \/ \E keep \in BOOLEAN : Rollback(m, keep)
  BY DEF Abort, Rollback, Unlocked
<1>3. ~ CutoverCommit /\ ~ \E o \in Starters : StartBind(o)
  BY DEF CutoverCommit, StartBind, Unlocked
<1>4. QED
  BY <1>1, <1>2, <1>3, BindingTable

\* The scanned target.
LEMMA CutStep == BaseInv /\ CutInv /\ [Next]_vars => CutInv'
PROOF
<1> SUFFICES ASSUME BaseInv, CutInv, [Next]_vars, cut' # None PROVE CutInv'
  BY DEF CutInv
<1>1. /\ TypeInv /\ MigMoves /\ DOMAIN mig = 1..Len(mig)
  BY TypeStep, Rows DEF BaseInv, Good
<1>2. ASSUME NEW m \in 1..Len(mig), CutoverScan(m) PROVE CutInv'
  <2>1. /\ UNCHANGED <<coll, bnd, mig>> /\ coll[Target(m)] # NoColl
        /\ cut' = [mig |-> m, scope |-> coll[Target(m)]]
    BY <1>2 DEF CutoverScan
  <2>2. cut'.mig = m /\ cut'.scope = coll[Target(m)]
    BY <2>1
  <2>3. Target(cut.mig)' = Target(m)
    BY <2>1, <2>2 DEF Target
  <2>4. QED
    BY <2>1, <2>2, <2>3 DEF CutInv
<1>3. CASE cut' = cut
  <2>1. cut.mig \in 1..Len(mig) /\ cut.scope # NoColl
    BY <1>1, <1>3 DEF TypeInv, Lease, CutInv
  <2>2. mig'[cut.mig].tgt = mig[cut.mig].tgt
    BY <1>1, <2>1 DEF MigMoves, MigMove
  <2>3. bnd' = bnd
    BY <1>3, LeaseKeepsBindings
  <2>4. Target(cut.mig)' = Target(cut.mig) /\ Target(cut.mig) \in Colls
    BY <1>1, <1>3, <2>1, <2>2, <2>3, Ends DEF Target
  <2>5. ASSUME bnd[mig[cut.mig].tgt].state = "shadow"
        PROVE  missed'[Target(cut.mig)] = Segs \/ coll'[Target(cut.mig)] = cut.scope
    <3>1. missed[Target(cut.mig)] = Segs \/ coll[Target(cut.mig)] = cut.scope
      BY <1>3, <2>5 DEF CutInv
    <3>2. QED
      BY <1>3, <2>1, <2>4, <3>1, ScanKept
  <2>6. QED
    BY <1>3, <2>1, <2>2, <2>3, <2>4, <2>5 DEF CutInv
<1>4. QED
  BY <1>1, <1>2, <1>3, LeaseSteps

\* What makes the serving collection right.
ServingInv == BaseInv /\ NameInv /\ VerdictInv /\ CutInv /\ ServedInv

\* At first the base collection holds the corpus.
LEMMA ServingInit == Init => ServingInv
PROOF
<1> SUFFICES ASSUME Init PROVE NameInv /\ VerdictInv /\ CutInv /\ ServedInv
  BY BaseInit DEF ServingInv
<1>1. /\ coll = [c \in Colls |-> IF c = Base THEN corpus ELSE NoColl]
      /\ bnd = <<[coll |-> Base, state |-> "serving"]>>
      /\ mig = <<>> /\ cut = None
      /\ missed = [c \in Colls |-> IF c = Base THEN {} ELSE Segs]
  BY DEF Init
<1>2. Base \in Colls
  BY DEF Colls
<1>3. PICK v \in Versions : corpus = [s \in Segs |-> v]
  BY DEF Init
<1>4. Holds(Base)
  <2> SUFFICES ASSUME NEW s \in Segs PROVE coll[Base] # NoColl /\ coll[Base][s] = corpus[s]
    BY DEF Holds
  <2>1. coll[Base] = corpus /\ DOMAIN corpus = Segs /\ Segs # {}
    BY <1>1, <1>2, <1>3
  <2>2. DOMAIN NoColl = {}
    BY DEF NoColl
  <2>3. QED
    BY <2>1, <2>2
<1>5. Len(bnd) = 1 /\ bnd[1].coll = Base /\ Len(mig) = 0
  BY <1>1
<1>6. NameInv /\ VerdictInv /\ CutInv
  BY <1>1, <1>5 DEF NameInv, VerdictInv, CutInv
<1>7. ServedInv
  BY <1>4, <1>5 DEF ServedInv
<1>8. QED
  BY <1>6, <1>7

\* The serving invariant holds in every state.
LEMMA ServingInvariance == Spec => []ServingInv
PROOF
<1>1. ServingInv /\ [Next]_vars => ServingInv'
  BY TypeStep, PointerStep, NameStep, VerdictStep, CutStep, ServedStep
     DEF ServingInv, BaseInv, Good
<1>2. QED
  BY ServingInit, <1>1, PTL DEF Spec

\* Queries are answered from the corpus: the collection the dataset points at
\* holds every segment that was not edited while another generation served,
\* written by a late worker or deleted by a leftover purge.
THEOREM ServesTheCorpus == Spec => []ServedMatchesCorpus
PROOF
<1>1. ServingInv => ServedMatchesCorpus
  <2> SUFFICES ASSUME ServingInv PROVE ServedMatchesCorpus
    OBVIOUS
  <2>1. PICK b \in DOMAIN bnd : bnd[b].coll = ptr /\ bnd[b].state = "serving"
    BY DEF ServingInv, BaseInv, PointerIsServing
  <2>2. b \in 1..Len(bnd)
    BY <2>1, Rows DEF ServingInv, BaseInv
  <2>3. Holds(ptr)
    BY <2>1, <2>2 DEF ServingInv, ServedInv
  <2>4. QED
    BY <2>3 DEF Holds, ServedMatchesCorpus
<1>2. QED
  BY ServingInvariance, <1>1, PTL

\* The cutover transaction flips the dataset to a target that holds the corpus
\* of that moment at the revision the gate passed.
THEOREM FlipServesTheCorpus == Spec => CutoverServesCorpus
PROOF
<1> DEFINE Flip == \A m \in DOMAIN mig :
                     mig[m].state = "ready" /\ mig'[m].state = "completed"
                     => /\ coll[ptr'] = corpus \/ missed[ptr'] = Segs
                        /\ mig[m].gate.rev = rev /\ pub = None
<1>1. ServingInv /\ [Next]_vars => Flip
  <2> SUFFICES ASSUME ServingInv, [Next]_vars, NEW m \in DOMAIN mig,
                      mig[m].state = "ready", mig'[m].state = "completed"
               PROVE  /\ coll[ptr'] = corpus \/ missed[ptr'] = Segs
                      /\ mig[m].gate.rev = rev /\ pub = None
    OBVIOUS
  <2>1. MigMoves /\ m \in 1..Len(mig)
    BY TypeStep, Rows DEF ServingInv, BaseInv, Good
  <2>2. CutsOver(m)
    BY <2>1 DEF MigMoves, MigMove
  <2>3. /\ cut # None /\ m = cut.mig /\ CutoverAllowed(m, cut.scope) /\ ptr' = Target(m)
    BY <2>2 DEF CutsOver
  <2>4. coll[Target(m)] = corpus \/ missed[Target(m)] = Segs
    BY <2>1, <2>3, CutoverHolds DEF ServingInv
  <2>5. mig[m].gate.rev = rev /\ pub = None
    BY <2>3 DEF CutoverAllowed, ServingInv, BaseInv, TypeInv, Lease
  <2>6. QED
    BY <2>3, <2>4, <2>5
<1>2. ServingInv /\ [Next]_vars => [Flip]_vars
  BY <1>1
<1>3. QED
  BY <1>2, ServingInvariance, PTL DEF Spec, CutoverServesCorpus

-----------------------------------------------------------------------------
(* Purges.                                                                 *)

\* The steps that schedule a deletion.
LEMMA PurgeSteps ==
  ASSUME [Next]_vars
  PROVE  \/ purges' \subseteq purges
         \/ \E o \in Starters : StartOrphan(o)
         \/ \E m \in DOMAIN mig : Abort(m) \/ \E keep \in BOOLEAN : Rollback(m, keep)
         \/ \E b \in DOMAIN bnd : Reclaim(b)
PROOF
<1>0. CASE UNCHANGED vars
  BY <1>0 DEF vars
<1>1. CASE PublishBegin \/ PublishCommit \/ PublishAbort
  BY <1>1 DEF PublishBegin, PublishCommit, PublishAbort
<1>2. CASE Start
  BY <1>2 DEF Start, StartLookup, StartReopen, StartEnsure, StartBind, StartBegin, StartCrash
<1>3. CASE Operator
  BY <1>3 DEF Operator, CutoverScan, CutoverCommit, Purge, EnqueueAction, CancelJob
<1>4. ASSUME NEW w \in Workers, ClaimSome(w) \/ WorkerStep(w) \/ WorkerStop(w) \/ WorkerCrash(w)
      PROVE  purges' = purges
  BY <1>4 DEF WorkerStep, BackfillBegin, BackfillList, BackfillUpsert, BackfillReceipt,
              CollectPending, CollectAuthority, CollectScope, VerifyMove, GateBegin,
              GateEvaluate, GateRecord, ClaimSome, Claim, FinishJob, FailJob,
              HeartbeatLost, WorkerStop, WorkerCrash
<1>5. QED
  BY <1>0, <1>1, <1>2, <1>3, <1>4 DEF Next

\* The steps that move a start request.
LEMMA RequestSteps ==
  ASSUME [Next]_vars
  PROVE  \/ starts' = starts
         \/ \E o \in Starters :
              \/ \E c \in Targets : StartLookup(o, c) \/ StartReopen(o, c)
              \/ StartEnsure(o) \/ StartBind(o) \/ StartOrphan(o) \/ StartBegin(o)
              \/ StartCrash(o)
PROOF
<1>0. CASE UNCHANGED vars
  BY <1>0 DEF vars
<1>1. CASE PublishBegin \/ PublishCommit \/ PublishAbort
  BY <1>1 DEF PublishBegin, PublishCommit, PublishAbort
<1>2. CASE Start
  BY <1>2 DEF Start
<1>3. CASE Operator
  BY <1>3 DEF Operator, CutoverScan, CutoverCommit, Rollback, Abort, Reclaim, Purge,
              EnqueueAction, CancelJob
<1>4. ASSUME NEW w \in Workers, ClaimSome(w) \/ WorkerStep(w) \/ WorkerStop(w) \/ WorkerCrash(w)
      PROVE  starts' = starts
  BY <1>4 DEF WorkerStep, BackfillBegin, BackfillList, BackfillUpsert, BackfillReceipt,
              CollectPending, CollectAuthority, CollectScope, VerifyMove, GateBegin,
              GateEvaluate, GateRecord, ClaimSome, Claim, FinishJob, FailJob,
              HeartbeatLost, WorkerStop, WorkerCrash
<1>5. QED
  BY <1>0, <1>1, <1>2, <1>3, <1>4 DEF Next

\* A request turns to its orphan because a binding reserves the name.
LEMMA OrphanStep ==
  ASSUME BaseInv, [Next]_vars, NEW o \in Starters, starts'[o].pc = "orphan"
  PROVE  \/ starts'[o] = starts[o]
         \/ starts'[o].coll = starts[o].coll /\ Reserving(starts[o].coll) # {}
PROOF
<1>1. starts \in [Starters -> {Idle, Done} \union RequestType] /\ TypeInv
  BY DEF BaseInv, TypeInv, Requests
<1>2. Done.pc = "done"
  BY DEF Done
<1>3. CASE starts' = starts
  BY <1>3
<1>5. ASSUME NEW p \in Starters, NEW c \in Targets, StartLookup(p, c)
      PROVE  starts'[o] = starts[o]
  <2>1. PICK b \in Reserving(c) \union {0} :
          starts' = [starts EXCEPT ![p] = [pc |-> "ensure", coll |-> c,
                                           bind |-> b, src |-> ServingBinding]]
    BY <1>5 DEF StartLookup
  <2>2. QED
    BY <1>1, <2>1
<1>6. ASSUME NEW p \in Starters, starts' = [starts EXCEPT ![p] = Done]
      PROVE  starts'[o] = starts[o]
  BY <1>1, <1>2, <1>6
<1>7. ASSUME NEW p \in Starters, StartEnsure(p) PROVE starts'[o] = starts[o]
  <2>1. starts[p] \in RequestType
    BY <1>1, <1>7 DEF StartEnsure, Idle, Done
  <2>2. starts' = [starts EXCEPT ![p].pc = IF starts[p].bind = 0 THEN "bind" ELSE "begin"]
    BY <1>7 DEF StartEnsure
  <2>3. CASE p = o
    <3>1. starts'[o].pc \in {"bind", "begin"}
      BY <1>1, <2>1, <2>2, <2>3 DEF RequestType
    <3>2. QED
      BY <3>1
  <2>4. CASE p # o
    BY <1>1, <2>2, <2>4
  <2>5. QED
    BY <2>3, <2>4
<1>8. ASSUME NEW p \in Starters, StartBind(p)
      PROVE  \/ starts'[o] = starts[o]
             \/ starts'[o].coll = starts[o].coll /\ Reserving(starts[o].coll) # {}
  <2>1. starts[p] \in RequestType
    BY <1>1, <1>8 DEF StartBind, Idle, Done
  <2>2. CASE p # o
    BY <1>1, <1>8, <2>2 DEF StartBind
  <2>3. CASE p = o
    <3>1. CASE starts' = [starts EXCEPT ![p] = [@ EXCEPT !.pc = "begin", !.bind = Len(bnd) + 1]]
      <4>1. starts'[o].pc = "begin"
        BY <1>1, <2>1, <2>3, <3>1 DEF RequestType
      <4>2. QED
        BY <4>1
    <3>2. CASE /\ Reserving(starts[p].coll) # {}
               /\ starts' = [starts EXCEPT ![p].pc = "orphan"]
      <4>1. starts'[o].coll = starts[o].coll
        BY <1>1, <2>1, <2>3, <3>2 DEF RequestType
      <4>2. QED
        BY <2>3, <3>2, <4>1
    <3>3. QED
      BY <1>8, <3>1, <3>2 DEF StartBind
  <2>4. QED
    BY <2>2, <2>3
<1>9. ASSUME NEW p \in Starters,
             \/ \E c \in Targets : StartReopen(p, c)
             \/ StartOrphan(p) \/ StartBegin(p) \/ StartCrash(p)
      PROVE  starts'[o] = starts[o]
  <2>1. starts' = [starts EXCEPT ![p] = Done]
    BY <1>9 DEF StartReopen, StartOrphan, StartBegin, StartCrash
  <2>2. QED
    BY <1>6, <2>1
<1>10. QED
  BY <1>3, <1>5, <1>7, <1>8, <1>9, RequestSteps

\* What is going to be deleted was bound.
LEMMA PurgeStep == BaseInv /\ PurgeInv /\ [Next]_vars => PurgeInv'
PROOF
<1> SUFFICES ASSUME BaseInv, PurgeInv, [Next]_vars PROVE PurgeInv'
  OBVIOUS
<1>1. /\ TypeInv /\ BndMoves /\ DOMAIN bnd = 1..Len(bnd) /\ Len(bnd) \in Nat
      /\ DOMAIN mig = 1..Len(mig)
  BY TypeStep, Rows DEF BaseInv, Good
<1>2. \A b \in 1..Len(bnd) : b \in 1..Len(bnd') /\ bnd'[b].coll = bnd[b].coll
  BY <1>1 DEF BndMoves
<1>3. ASSUME NEW c \in purges' PROVE \E b \in 1..Len(bnd) : bnd[b].coll = c
  <2>1. CASE c \in purges
    BY <2>1 DEF PurgeInv
  <2>2. ASSUME NEW o \in Starters, StartOrphan(o), c \notin purges
        PROVE  \E b \in 1..Len(bnd) : bnd[b].coll = c
    <3>1. starts[o].pc = "orphan" /\ c = starts[o].coll
      BY <2>2 DEF StartOrphan
    <3>2. QED
      BY <3>1 DEF PurgeInv
  <2>3. ASSUME NEW m \in 1..Len(mig),
               Abort(m) \/ \E keep \in BOOLEAN : Rollback(m, keep), c \notin purges
        PROVE  \E b \in 1..Len(bnd) : bnd[b].coll = c
    <3>0. purges' \subseteq purges \union {Target(m)}
      <4>1. ASSUME Abort(m) PROVE purges' \subseteq purges \union {Target(m)}
        BY <4>1 DEF Abort
      <4>2. ASSUME NEW keep \in BOOLEAN, Rollback(m, keep)
            PROVE  purges' \subseteq purges \union {Target(m)}
        BY <4>2 DEF Rollback
      <4>3. QED
        BY <2>3, <4>1, <4>2
    <3>1. c = Target(m)
      BY <2>3, <3>0
    <3>2. mig[m].tgt \in 1..Len(bnd)
      BY <1>1, Ends
    <3>3. QED
      BY <3>1, <3>2 DEF Target
  <2>4. ASSUME NEW b \in 1..Len(bnd), Reclaim(b), c \notin purges
        PROVE  bnd[b].coll = c
    BY <2>4 DEF Reclaim
  <2>5. QED
    BY <1>1, <2>1, <2>2, <2>3, <2>4, PurgeSteps
<1>4. ASSUME NEW o \in Starters, starts'[o].pc = "orphan"
      PROVE  \E b \in 1..Len(bnd) : bnd[b].coll = starts'[o].coll
  <2>1. CASE starts'[o] = starts[o]
    BY <1>4, <2>1 DEF PurgeInv
  <2>2. CASE starts'[o].coll = starts[o].coll /\ Reserving(starts[o].coll) # {}
    BY <1>1, <2>2 DEF Reserving
  <2>3. QED
    BY <1>4, <2>1, <2>2, OrphanStep
<1>5. \A c \in purges' : \E b \in 1..Len(bnd') : bnd'[b].coll = c
  BY <1>2, <1>3
<1>6. \A o \in Starters : starts'[o].pc = "orphan" =>
         \E b \in 1..Len(bnd') : bnd'[b].coll = starts'[o].coll
  BY <1>2, <1>4
<1>7. QED
  BY <1>5, <1>6 DEF PurgeInv

-----------------------------------------------------------------------------
(* The first shadow of a name.                                             *)

\* Only a rollback turns a binding that was there into a shadow.
LEMMA ShadowBack ==
  ASSUME BaseInv, [Next]_vars, NEW b \in 1..Len(bnd), bnd'[b].state = "shadow"
  PROVE  \/ bnd[b].state = "shadow"
         \/ \E m \in 1..Len(mig) : mig[m].tgt = b /\ mig[m].state = "completed"
PROOF
<1>1. /\ TypeInv /\ Len(bnd) \in Nat /\ DOMAIN mig = 1..Len(mig)
      /\ DOMAIN bnd = 1..Len(bnd)
  BY Rows DEF BaseInv
<1>2. CASE bnd' = bnd
  BY <1>2
<1>3. ASSUME NEW o \in Starters, StartBind(o) PROVE bnd[b].state = "shadow"
  BY <1>1, <1>3, BindEffect
<1>4. ASSUME CutoverCommit, bnd' # bnd PROVE bnd[b].state = "shadow"
  <2>1. /\ cut # None
        /\ bnd' = [bnd EXCEPT ![mig[cut.mig].src].state = "retained",
                              ![mig[cut.mig].tgt].state = "serving"]
    BY <1>4 DEF CutoverCommit
  <2>2. cut.mig \in 1..Len(mig)
    BY <1>1, <2>1 DEF TypeInv, Lease
  <2>3. SetBindings(mig[cut.mig].src, "retained", mig[cut.mig].tgt, "serving")
    BY <1>1, <2>1, <2>2, CutoverBindings
  <2>4. QED
    BY <2>3 DEF SetBindings
<1>5. ASSUME NEW m \in 1..Len(mig), NEW keep \in BOOLEAN, Rollback(m, keep)
      PROVE  bnd[b].state = "shadow" \/ (mig[m].tgt = b /\ mig[m].state = "completed")
  <2> DEFINE st == IF keep THEN "shadow" ELSE "retired"
  <2>1. /\ bnd' = [bnd EXCEPT ![mig[m].tgt].state = st, ![mig[m].src].state = "serving"]
        /\ mig[m].state = "completed"
    BY <1>5 DEF Rollback
  <2>2. st \in {"shadow", "retired"}
    OBVIOUS
  <2> HIDE DEF st
  <2>3. SetBindings(mig[m].tgt, st, mig[m].src, "serving")
    BY <1>1, <2>1, <2>2, RollbackBindings
  <2>4. QED
    BY <2>1, <2>3 DEF SetBindings
<1>6. ASSUME NEW m \in 1..Len(mig), Abort(m) PROVE bnd[b].state = "shadow"
  <2>1. bnd' = bnd \/ SetBindings(mig[m].tgt, "retired", mig[m].tgt, "retired")
    BY <1>1, <1>6, AbortBindings
  <2>2. QED
    BY <2>1 DEF SetBindings
<1>7. ASSUME NEW c \in 1..Len(bnd), Reclaim(c) PROVE bnd[b].state = "shadow"
  <2>1. SetBindings(c, "retired", c, "retired")
    BY <1>1, <1>7, RetireBinding DEF Reclaim
  <2>2. QED
    BY <2>1 DEF SetBindings
<1>8. QED
  BY <1>1, <1>2, <1>3, <1>4, <1>5, <1>6, <1>7, BindingTable

\* An unjudged first shadow was one before: a rollback to a shadow comes after
\* a verdict, and verdicts stay.
LEMMA UnjudgedBack ==
  ASSUME BaseInv, VerdictInv, [Next]_vars, NEW b \in 1..Len(bnd), Unjudged(b)'
  PROVE  Unjudged(b)
PROOF
<1>1. /\ TypeInv /\ TypeInv' /\ MigMoves /\ BndMoves
  BY TypeStep DEF BaseInv, Good
<1>2. /\ DOMAIN mig = 1..Len(mig) /\ Len(mig) \in Nat
      /\ DOMAIN bnd = 1..Len(bnd) /\ Len(bnd) \in Nat
  BY <1>1, Rows
<1>3. DOMAIN mig' = 1..Len(mig') /\ DOMAIN bnd' = 1..Len(bnd')
  BY <1>1 DEF MigMoves, BndMoves
<1>4. /\ bnd'[b].state = "shadow"
      /\ \A m \in DOMAIN mig' : mig'[m].tgt = b => mig'[m].gate = None
      /\ \A a \in DOMAIN bnd' : a < b => bnd'[a].coll # bnd'[b].coll
  BY DEF Unjudged
<1>5. ASSUME NEW m \in 1..Len(mig), mig[m].tgt = b PROVE mig[m].gate = None
  <2>1. m \in DOMAIN mig'
    BY <1>1, <1>2, <1>3 DEF MigMoves
  <2>2. mig'[m].tgt = mig[m].tgt /\ (mig'[m].gate = None => mig[m].gate = None)
    BY <1>1 DEF MigMoves, MigMove
  <2>3. QED
    BY <1>4, <1>5, <2>1, <2>2
<1>6. bnd[b].state = "shadow"
  <2>1. ASSUME NEW m \in 1..Len(mig), mig[m].tgt = b, mig[m].state = "completed" PROVE FALSE
    BY <1>5, <2>1 DEF VerdictInv, Judged
  <2>2. QED
    BY <1>4, <2>1, ShadowBack
<1>7. ASSUME NEW a \in 1..Len(bnd), a < b PROVE bnd[a].coll # bnd[b].coll
  <2>1. a \in DOMAIN bnd' /\ bnd'[a].coll = bnd[a].coll /\ bnd'[b].coll = bnd[b].coll
    BY <1>1, <1>2, <1>3 DEF BndMoves
  <2>2. QED
    BY <1>4, <1>7, <2>1
<1>8. QED
  BY <1>2, <1>5, <1>6, <1>7 DEF Unjudged

\* No other binding of its name is in use.
LEMMA FirstIsLast ==
  ASSUME BaseInv, NameInv, NEW b \in 1..Len(bnd), Unjudged(b), NEW a \in 1..Len(bnd),
         bnd[a].coll = bnd[b].coll
  PROVE  a = b
PROOF
<1>1. DOMAIN bnd = 1..Len(bnd) /\ Len(bnd) \in Nat
  BY Rows DEF BaseInv
<1>2. ~ (a < b)
  BY <1>1 DEF Unjudged
<1>3. ~ (b < a)
  BY DEF NameInv, Unjudged
<1>4. QED
  BY <1>1, <1>2, <1>3

\* The first shadow of a name is not deleted before it was judged.
LEMMA CleanStep ==
  BaseInv /\ NameInv /\ VerdictInv /\ PurgeInv /\ CleanInv /\ [Next]_vars => CleanInv'
PROOF
<1> SUFFICES ASSUME BaseInv, NameInv, VerdictInv, PurgeInv, CleanInv, [Next]_vars,
                    NEW b \in 1..Len(bnd'), Unjudged(b)'
             PROVE  bnd'[b].coll \notin purges'
  BY DEF CleanInv
<1>1. /\ TypeInv /\ BndMoves /\ DOMAIN bnd = 1..Len(bnd) /\ Len(bnd) \in Nat
      /\ DOMAIN mig = 1..Len(mig)
  BY TypeStep, Rows DEF BaseInv, Good
<1>2. DOMAIN bnd' = 1..Len(bnd') /\ bnd'[b].state = "shadow"
      /\ \A a \in DOMAIN bnd' : a < b => bnd'[a].coll # bnd'[b].coll
  BY <1>1 DEF BndMoves, Unjudged
<1>3. CASE b \notin 1..Len(bnd)
  <2>1. b = Len(bnd) + 1 /\ \E o \in Starters : StartBind(o)
    BY <1>3, NewBinding
  <2>2. purges' = purges
    BY <2>1 DEF StartBind
  <2>3. \A a \in 1..Len(bnd) : bnd[a].coll # bnd'[b].coll
    <3>1. \A a \in 1..Len(bnd) : a \in DOMAIN bnd' /\ a < b /\ bnd'[a].coll = bnd[a].coll
      BY <1>1, <1>2, <2>1 DEF BndMoves
    <3>2. QED
      BY <1>2, <3>1
  <2>4. QED
    BY <2>2, <2>3 DEF PurgeInv
<1>4. CASE b \in 1..Len(bnd)
  <2>1. Unjudged(b) /\ bnd'[b].coll = bnd[b].coll
    BY <1>1, <1>4, UnjudgedBack DEF BndMoves
  <2>2. bnd[b].coll \notin purges /\ bnd[b].state = "shadow"
    BY <1>4, <2>1 DEF CleanInv, Unjudged
  <2>3. \A a \in 1..Len(bnd) : bnd[a].coll = bnd[b].coll => a = b
    BY <1>4, <2>1, FirstIsLast
  <2>4. CASE purges' \subseteq purges
    BY <2>1, <2>2, <2>4
  <2>5. ASSUME NEW o \in Starters, StartOrphan(o) PROVE bnd[b].coll \notin purges'
    <3>1. b \in Reserving(bnd[b].coll)
      BY <1>1, <1>4, <2>2 DEF Reserving
    <3>2. QED
      BY <2>2, <2>5, <3>1 DEF StartOrphan
  <2>6. ASSUME NEW m \in 1..Len(mig), Abort(m) PROVE bnd[b].coll \notin purges'
    <3>1. mig[m].tgt \in 1..Len(bnd) /\ purges' = purges \union {Target(m)}
      BY <1>1, <2>6, Ends DEF Abort
    <3>2. mig[m].tgt # b
      <4>1. SUFFICES ASSUME mig[m].tgt = b PROVE FALSE
        OBVIOUS
      <4>2. SetBindings(b, "retired", b, "retired")
        BY <1>1, <2>2, <2>6, <4>1, AbortBindings
      <4>3. QED
        BY <1>2, <1>4, <4>2 DEF SetBindings
    <3>3. QED
      BY <2>2, <2>3, <3>1, <3>2 DEF Target
  <2>7. ASSUME NEW m \in 1..Len(mig), NEW keep \in BOOLEAN, Rollback(m, keep)
        PROVE  bnd[b].coll \notin purges'
    <3>1. /\ purges' \subseteq purges \union {Target(m)} /\ bnd[mig[m].tgt].state = "serving"
          /\ mig[m].tgt \in 1..Len(bnd)
      BY <1>1, <2>7, Ends DEF Rollback
    <3>2. mig[m].tgt # b
      BY <2>2, <3>1
    <3>3. QED
      BY <2>2, <2>3, <3>1, <3>2 DEF Target
  <2>8. ASSUME NEW a \in 1..Len(bnd), Reclaim(a) PROVE bnd[b].coll \notin purges'
    <3>1. purges' = purges \union {bnd[a].coll} /\ bnd[a].state = "retained"
      BY <2>8 DEF Reclaim
    <3>2. QED
      BY <2>2, <2>3, <3>1
  <2>9. QED
    BY <1>1, <2>1, <2>4, <2>5, <2>6, <2>7, <2>8, PurgeSteps
<1>5. QED
  BY <1>3, <1>4

-----------------------------------------------------------------------------
(* Receipts follow points.                                                 *)

\* A point of an unjudged first shadow stays: the shadow does not serve, so no
\* publication removes it, and it is not deleted.
LEMMA PointKept ==
  ASSUME BaseInv, NameInv, CleanInv, [Next]_vars, NEW b \in 1..Len(bnd), Unjudged(b),
         NEW c, c = bnd[b].coll, NEW s \in Segs, coll[c] # NoColl, coll[c][s] # 0
  PROVE  coll'[c] # NoColl /\ coll'[c][s] # 0
PROOF
<1>1. /\ TypeInv /\ coll \in [Colls -> {NoColl} \union Text] /\ bnd[b] \in BindingType
  BY Rows DEF BaseInv, TypeInv, World
<1>2. c \in Colls /\ bnd[b].state = "shadow" /\ c \notin purges
  BY <1>1 DEF BindingType, Unjudged, CleanInv
<1>3. CASE UNCHANGED <<corpus, coll, missed>>
  BY <1>3
<1>4. CASE PublishCommit
  <2>1. PICK a \in DOMAIN bnd : bnd[a].coll = ptr /\ bnd[a].state = "serving"
    BY DEF BaseInv, PointerIsServing
  <2>2. a \in 1..Len(bnd) /\ a # b
    BY <1>1, <1>2, <2>1, Rows
  <2>3. c # ptr
    BY <2>1, <2>2, FirstIsLast
  <2>4. coll'[c] = coll[c]
    BY <1>1, <1>2, <1>4, <2>3 DEF PublishCommit
  <2>5. QED
    BY <2>4
<1>5. ASSUME NEW o \in Starters, StartEnsure(o) PROVE coll'[c] = coll[c]
  BY <1>1, <1>2, <1>5 DEF StartEnsure
<1>6. ASSUME NEW m \in DOMAIN mig, CutoverScan(m) PROVE coll'[c] = coll[c]
  BY <1>6 DEF CutoverScan
<1>7. ASSUME NEW d \in Colls, Purge(d) PROVE coll'[c] = coll[c]
  BY <1>1, <1>2, <1>7 DEF Purge
<1>8. ASSUME NEW w \in Workers, BackfillUpsert(w) PROVE coll'[c] # NoColl /\ coll'[c][s] # 0
  <2> DEFINE d == Target(MigOf(w))
             t == [x \in Segs |-> IF wk[w].page[x] # 0 THEN wk[w].page[x] ELSE coll[d][x]]
  <2>1. coll' = coll \/ coll' = [coll EXCEPT ![d] = t]
    BY <1>8 DEF BackfillUpsert
  <2>2. CASE c = d /\ coll' = [coll EXCEPT ![d] = t]
    <3>1. coll'[c] = t /\ t[s] # 0
      BY <1>1, <1>2, <2>2
    <3>2. DOMAIN t = Segs /\ Segs # {} /\ DOMAIN NoColl = {}
      BY DEF NoColl
    <3>3. QED
      BY <3>1, <3>2
  <2>3. CASE coll' = coll \/ (c # d /\ coll' = [coll EXCEPT ![d] = t])
    <3>1. coll'[c] = coll[c]
      BY <1>1, <1>2, <2>3
    <3>2. QED
      BY <3>1
  <2>4. QED
    BY <2>1, <2>2, <2>3
<1>9. QED
  BY <1>3, <1>4, <1>5, <1>6, <1>7, <1>8, ContentSteps

\* Points stay for a whole text.
LEMMA PointsKept ==
  ASSUME BaseInv, NameInv, VerdictInv, CleanInv, [Next]_vars, NEW m \in 1..Len(mig),
         Unjudged(mig[m].tgt), NEW t, Points(m, t)
  PROVE  \A s \in Segs : t[s] # 0 => coll'[Target(m)'] # NoColl /\ coll'[Target(m)'][s] # 0
PROOF
<1>1. TypeInv /\ MigMoves /\ BndMoves
  BY TypeStep DEF BaseInv, Good
<1>2. mig[m].tgt \in 1..Len(bnd) /\ mig'[m].tgt = mig[m].tgt
  BY <1>1, Ends DEF MigMoves, MigMove
<1>3. PICK c : c = Target(m)
  OBVIOUS
<1>4. Target(m)' = c /\ c = bnd[mig[m].tgt].coll
  BY <1>1, <1>2, <1>3 DEF Target, BndMoves
<1>5. ASSUME NEW s \in Segs, t[s] # 0 PROVE coll'[c] # NoColl /\ coll'[c][s] # 0
  <2>1. coll[c] # NoColl /\ coll[c][s] # 0
    BY <1>3, <1>5 DEF Points
  <2>2. QED
    BY <1>2, <1>4, <2>1, PointKept
<1>6. QED
  BY <1>4, <1>5

\* An unjudged target of the next state, for a migration of this state.
LEMMA TargetBack ==
  ASSUME BaseInv, VerdictInv, [Next]_vars, NEW m \in 1..Len(mig),
         NEW b, b = mig'[m].tgt, Unjudged(b)'
  PROVE  Unjudged(mig[m].tgt)
PROOF
<1>1. TypeInv /\ MigMoves
  BY TypeStep DEF BaseInv, Good
<1>2. mig[m].tgt \in 1..Len(bnd) /\ b = mig[m].tgt
  BY <1>1, Ends DEF MigMoves, MigMove
<1>3. b \in 1..Len(bnd)
  BY <1>2
<1>4. Unjudged(b)
  BY <1>3, UnjudgedBack
<1>5. QED
  BY <1>2, <1>4

\* The steps that write receipts.
LEMMA ReceiptSteps ==
  ASSUME BaseInv, [Next]_vars, NEW m \in 1..Len(mig)
  PROVE  \/ receipts'[m] = receipts[m] \/ receipts'[m] = Blank
         \/ \E w \in Workers : BackfillReceipt(w) /\ MigOf(w) = m
PROOF
<1>1. /\ TypeInv /\ receipts \in Seq(Text) /\ m \in 1..Len(receipts)
      /\ DOMAIN receipts = 1..Len(mig) /\ DOMAIN mig = 1..Len(mig) /\ Len(receipts) = Len(mig)
  BY Rows DEF BaseInv, TypeInv, Tables
<1>0. CASE UNCHANGED vars
  BY <1>0 DEF vars
<1>2. CASE PublishBegin \/ PublishCommit \/ PublishAbort
  BY <1>2 DEF PublishBegin, PublishCommit, PublishAbort
<1>3. ASSUME NEW o \in Starters, StartBegin(o) PROVE receipts'[m] = receipts[m]
  <2>1. receipts' = receipts \/ receipts' = Append(receipts, Blank)
    BY <1>3 DEF StartBegin
  <2>2. QED
    BY <1>1, <2>1, Texts, AppendProperties
<1>4. CASE Start
  BY <1>3, <1>4 DEF Start, StartLookup, StartReopen, StartEnsure, StartBind, StartOrphan,
                    StartCrash
<1>5. ASSUME NEW n \in DOMAIN mig, Abort(n) \/ \E keep \in BOOLEAN : Rollback(n, keep)
      PROVE  receipts'[m] = receipts[m] \/ receipts'[m] = Blank
  <2>1. receipts' = receipts \/ receipts' = [receipts EXCEPT ![n] = Blank]
    BY <1>5 DEF Abort, Rollback
  <2>2. QED
    BY <1>1, <2>1
<1>6. CASE Operator
  BY <1>5, <1>6 DEF Operator, CutoverScan, CutoverCommit, Reclaim, Purge, EnqueueAction, CancelJob
<1>7. ASSUME NEW w \in Workers, BackfillReceipt(w)
      PROVE  receipts'[m] = receipts[m] \/ MigOf(w) = m
  <2> DEFINE t == [s \in Segs |-> IF wk[w].page[s] # 0 THEN wk[w].page[s]
                                  ELSE receipts[MigOf(w)][s]]
  <2>1. receipts' = [receipts EXCEPT ![MigOf(w)] = t]
    BY <1>7 DEF BackfillReceipt
  <2> HIDE DEF t
  <2>2. QED
    BY <1>1, <2>1
<1>8. ASSUME NEW w \in Workers, ClaimSome(w) \/ WorkerStep(w) \/ WorkerStop(w) \/ WorkerCrash(w)
      PROVE  receipts' = receipts \/ BackfillReceipt(w)
  BY <1>8 DEF WorkerStep, BackfillBegin, BackfillList, BackfillUpsert,
              CollectPending, CollectAuthority, CollectScope, VerifyMove, GateBegin,
              GateEvaluate, GateRecord, ClaimSome, Claim, FinishJob, FailJob,
              HeartbeatLost, WorkerStop, WorkerCrash
<1>9. QED
  BY <1>0, <1>2, <1>4, <1>6, <1>7, <1>8 DEF Next

\* record_progress_receipts comes after the points.
LEMMA ReceiptStep ==
  BaseInv /\ NameInv /\ VerdictInv /\ CleanInv /\ ReceiptInv /\ PageInv /\ [Next]_vars
  => ReceiptInv'
PROOF
<1> SUFFICES ASSUME BaseInv, NameInv, VerdictInv, CleanInv, ReceiptInv, PageInv, [Next]_vars,
                    NEW m \in 1..Len(mig'), NEW b, b = mig'[m].tgt, Unjudged(b)',
                    NEW s \in Segs, receipts'[m][s] # 0
             PROVE  coll'[Target(m)'] # NoColl /\ coll'[Target(m)'][s] # 0
  BY DEF ReceiptInv, Points, Unjudged
<1>1. /\ TypeInv /\ receipts \in Seq(Text) /\ Len(receipts) = Len(mig)
      /\ DOMAIN receipts = 1..Len(mig) /\ Len(mig) \in Nat
  BY Rows DEF BaseInv, TypeInv, Tables
<1>2. Blank[s] = 0
  BY DEF Blank
<1>3. CASE m \notin 1..Len(mig)
  <2>1. m = Len(mig) + 1 /\ receipts' = Append(receipts, Blank)
    BY <1>3, NewMigration
  <2>2. receipts'[m] = Blank
    BY <1>1, <2>1, Texts, AppendProperties
  <2>3. QED
    BY <1>2, <2>2
<1>4. CASE m \in 1..Len(mig)
  <2>1. Unjudged(mig[m].tgt)
    BY <1>4, TargetBack
  <2>2. Points(m, receipts[m])
    BY <1>4, <2>1 DEF ReceiptInv
  <2>3. CASE receipts'[m] = receipts[m]
    <3>1. \A x \in Segs : receipts[m][x] # 0 =>
            coll'[Target(m)'] # NoColl /\ coll'[Target(m)'][x] # 0
      BY <1>4, <2>1, <2>2, PointsKept
    <3>2. QED
      BY <2>3, <3>1
  <2>4. CASE receipts'[m] = Blank
    BY <1>2, <2>4
  <2>5. ASSUME NEW w \in Workers, BackfillReceipt(w), MigOf(w) = m
        PROVE  coll'[Target(m)'] # NoColl /\ coll'[Target(m)'][s] # 0
    <3> DEFINE t == [x \in Segs |-> IF wk[w].page[x] # 0 THEN wk[w].page[x] ELSE receipts[m][x]]
    <3>1. /\ receipts' = [receipts EXCEPT ![m] = t] /\ UNCHANGED <<coll, bnd, mig>>
          /\ wk[w].pc = "receipt"
      BY <2>5 DEF BackfillReceipt
    <3>2. receipts'[m] = t
      BY <1>1, <1>4, <3>1
    <3>3. wk[w].page[s] # 0 \/ receipts[m][s] # 0
      BY <3>2
    <3>4. Points(m, wk[w].page)
      BY <2>1, <2>5, <3>1 DEF PageInv
    <3>5. coll[Target(m)] # NoColl /\ coll[Target(m)][s] # 0
      BY <2>2, <3>3, <3>4 DEF Points
    <3>6. Target(m)' = Target(m)
      BY <3>1 DEF Target
    <3>7. QED
      BY <3>1, <3>5, <3>6
  <2>6. QED
    BY <1>4, <2>3, <2>4, <2>5, ReceiptSteps
<1>5. QED
  BY <1>3, <1>4

\* A worker is about to record a page only after it wrote the page's points.
LEMMA PageSteps ==
  ASSUME BaseInv, [Next]_vars, NEW w \in Workers, wk'[w].pc = "receipt"
  PROVE  \/ wk'[w] = wk[w]
         \/ /\ BackfillUpsert(w) /\ wk'[w].page = wk[w].page /\ wk'[w].job = wk[w].job
            /\ mig' = mig /\ coll[Target(MigOf(w))] # NoColl
            /\ coll' = [coll EXCEPT ![Target(MigOf(w))] =
                          [s \in Segs |-> IF wk[w].page[s] # 0 THEN wk[w].page[s] ELSE @[s]]]
PROOF
<1>1. TypeInv /\ wk \in [Workers -> {Idle} \union BusyType] /\ Idle.pc = "idle"
  BY DEF BaseInv, TypeInv, Crew, Idle
<1>2. \A j, pc : At(j, pc).pc = pc
  BY DEF At
<1>0. CASE UNCHANGED vars
  BY <1>0 DEF vars
<1>3. CASE PublishBegin \/ PublishCommit \/ PublishAbort
  BY <1>3 DEF PublishBegin, PublishCommit, PublishAbort
<1>4. CASE Start
  BY <1>4 DEF Start, StartLookup, StartReopen, StartEnsure, StartBind, StartOrphan,
              StartBegin, StartCrash
<1>5. CASE Operator
  BY <1>5 DEF Operator, CutoverScan, CutoverCommit, Rollback, Abort, Reclaim, Purge,
              EnqueueAction, CancelJob
<1>6. ASSUME NEW x \in Workers, x # w, NEW r, wk' = [wk EXCEPT ![x] = r]
      PROVE  wk'[w] = wk[w]
  BY <1>1, <1>6
<1>7. ASSUME NEW pc, pc # "receipt", NEW x \in Workers, Goto(x, pc) PROVE wk'[w] = wk[w]
  <2>1. wk' = [wk EXCEPT ![x] = At(wk[x].job, pc)] /\ At(wk[x].job, pc).pc = pc
    BY <1>2, <1>7 DEF Goto
  <2>2. CASE x = w
    BY <1>1, <1>7, <2>1, <2>2
  <2>3. CASE x # w
    BY <1>6, <2>1, <2>3
  <2>4. QED
    BY <2>2, <2>3
<1>8. ASSUME NEW x \in Workers, EvidenceFails(x) PROVE wk'[w] = wk[w]
  BY <1>7, <1>8 DEF EvidenceFails
<1>9. ASSUME NEW x \in Workers, NEW r \in BusyType, r.pc # "receipt",
             wk' = [wk EXCEPT ![x] = r]
      PROVE  wk'[w] = wk[w]
  <2>1. CASE x = w
    BY <1>1, <1>9, <2>1
  <2>2. CASE x # w
    BY <1>6, <1>9, <2>2
  <2>3. QED
    BY <2>1, <2>2
<1>10. ASSUME NEW x \in Workers, wk' = [wk EXCEPT ![x] = Idle] PROVE wk'[w] = wk[w]
  BY <1>1, <1>10
<1>11. ASSUME NEW x \in Workers,
              BackfillBegin(x) \/ BackfillReceipt(x) \/ VerifyMove(x) \/ GateRecord(x)
       PROVE  wk'[w] = wk[w]
  <2>1. Goto(x, "list") \/ Goto(x, "fail") \/ Goto(x, "finish")
    BY <1>11 DEF BackfillBegin, BackfillReceipt, VerifyMove, GateRecord
  <2>2. QED
    BY <1>7, <2>1
<1>12. ASSUME NEW x \in Workers, BackfillList(x) PROVE wk'[w] = wk[w]
  <2>1. wk[x] \in BusyType
    BY <1>1, <1>12, Busy DEF BackfillList
  <2>2. ASSUME NEW t, wk' = [wk EXCEPT ![x] = [@ EXCEPT !.pc = "upsert", !.page = t]]
        PROVE  wk'[w] = wk[w]
    <3>1. CASE x = w
      <4>1. wk'[w].pc = "upsert"
        BY <1>1, <2>1, <2>2, <3>1 DEF BusyType
      <4>2. QED
        BY <4>1
    <3>2. CASE x # w
      BY <1>1, <2>2, <3>2
    <3>3. QED
      BY <3>1, <3>2
  <2>3. QED
    BY <1>7, <1>12, <2>2 DEF BackfillList
<1>13. ASSUME NEW x \in Workers, CollectPending(x) PROVE wk'[w] = wk[w]
  <2>1. wk[x] \in BusyType
    BY <1>1, <1>13, Busy DEF CollectPending
  <2>2. PICK p : wk' = [wk EXCEPT ![x] = [@ EXCEPT !.pc = "authority", !.pending = p]]
    BY <1>13 DEF CollectPending
  <2>3. CASE x = w
    <3>1. wk'[w].pc = "authority"
      BY <1>1, <2>1, <2>2, <2>3 DEF BusyType
    <3>2. QED
      BY <3>1
  <2>4. CASE x # w
    BY <1>1, <2>2, <2>4
  <2>5. QED
    BY <2>3, <2>4
<1>14. ASSUME NEW x \in Workers, CollectAuthority(x) PROVE wk'[w] = wk[w]
  <2>1. wk[x] \in BusyType
    BY <1>1, <1>14, Busy DEF CollectAuthority
  <2>2. CASE wk' = [wk EXCEPT ![x] = [@ EXCEPT !.pc = "scan", !.rev = rev, !.text = corpus]]
    <3>1. CASE x = w
      <4>1. wk'[w].pc = "scan"
        BY <1>1, <2>1, <2>2, <3>1 DEF BusyType
      <4>2. QED
        BY <4>1
    <3>2. CASE x # w
      BY <1>1, <2>2, <3>2
    <3>3. QED
      BY <3>1, <3>2
  <2>3. QED
    BY <1>8, <1>14, <2>2 DEF CollectAuthority
<1>15. ASSUME NEW x \in Workers, CollectScope(x) PROVE wk'[w] = wk[w]
  <2>1. wk[x] \in BusyType
    BY <1>1, <1>15, Busy DEF CollectScope
  <2>2. CASE wk' = [wk EXCEPT ![x].pc = IF wk[x].judged THEN "record" ELSE "evaluate"]
    <3>1. CASE x = w
      <4>1. wk'[w].pc \in {"record", "evaluate"}
        BY <1>1, <2>1, <2>2, <3>1 DEF BusyType
      <4>2. QED
        BY <4>1
    <3>2. CASE x # w
      BY <1>1, <2>2, <3>2
    <3>3. QED
      BY <3>1, <3>2
  <2>3. CASE Goto(x, "move")
    BY <1>7, <2>3
  <2>4. QED
    BY <1>8, <1>15, <2>2, <2>3 DEF CollectScope
<1>16. ASSUME NEW x \in Workers, GateBegin(x) \/ GateEvaluate(x) PROVE wk'[w] = wk[w]
  <2>1. \A j, p : /\ [At(j, "pending") EXCEPT !.pin = p].pc = "pending"
                  /\ [At(j, "pending") EXCEPT !.pin = p, !.judged = TRUE].pc = "pending"
    BY DEF At
  <2>2. ASSUME NEW r, r.pc # "receipt", wk' = [wk EXCEPT ![x] = r] PROVE wk'[w] = wk[w]
    BY <1>1, <2>2
  <2>3. CASE GateBegin(x)
    <3>1. \/ wk' = [wk EXCEPT ![x] = [At(wk[x].job, "pending") EXCEPT !.pin = mig[MigOf(x)].ver]]
          \/ Goto(x, "fail")
      BY <2>3 DEF GateBegin, Goto
    <3>2. QED
      BY <1>7, <2>1, <2>2, <3>1
  <2>4. CASE GateEvaluate(x)
    <3>1. \/ wk' = [wk EXCEPT ![x] = [At(wk[x].job, "pending") EXCEPT
                                        !.pin = wk[x].pin, !.judged = TRUE]]
          \/ EvidenceFails(x)
      BY <2>4 DEF GateEvaluate
    <3>2. QED
      BY <1>8, <2>1, <2>2, <3>1
  <2>5. QED
    BY <1>16, <2>3, <2>4
<1>17. ASSUME NEW x \in Workers, ClaimSome(x) PROVE wk'[w] = wk[w]
  <2>1. PICK j \in DOMAIN jobs : Claim(x, j)
    BY <1>17 DEF ClaimSome
  <2> DEFINE first == CASE jobs[j].action = "backfill" -> "backfill"
                        [] jobs[j].action = "verify"   -> "pending"
                        [] jobs[j].action = "gate"     -> "gating"
             pc == IF jobs[j].state = "running" /\ Recognised(j) THEN "finish" ELSE first
  <2>2. j \in 1..Len(jobs) /\ jobs[j] \in JobType
    BY <1>1, <2>1, Rows
  <2>3. jobs[j].action \in {"backfill", "verify", "gate"}
    BY <2>2 DEF JobType, Actions
  <2>4. wk' = [wk EXCEPT ![x] = At(j, pc)]
    BY <2>1 DEF Claim
  <2>5. pc # "receipt"
    BY <2>3
  <2> HIDE DEF pc
  <2>6. At(j, pc).pc = pc
    BY <1>2
  <2>7. QED
    BY <1>1, <2>4, <2>5, <2>6
<1>18. ASSUME NEW x \in Workers,
              \/ FinishJob(x) \/ FailJob(x) \/ HeartbeatLost(x)
              \/ WorkerStop(x) \/ WorkerCrash(x)
       PROVE  wk'[w] = wk[w]
  BY <1>10, <1>18 DEF FinishJob, FailJob, HeartbeatLost, WorkerStop, WorkerCrash
<1>19. ASSUME NEW x \in Workers, BackfillUpsert(x), wk'[w] # wk[w]
       PROVE  /\ x = w /\ wk'[w].page = wk[w].page /\ wk'[w].job = wk[w].job
              /\ mig' = mig /\ coll[Target(MigOf(w))] # NoColl
              /\ coll' = [coll EXCEPT ![Target(MigOf(w))] =
                            [s \in Segs |-> IF wk[w].page[s] # 0 THEN wk[w].page[s] ELSE @[s]]]
  <2>1. wk[x] \in BusyType
    BY <1>1, <1>19, Busy DEF BackfillUpsert
  <2>2. ~ Goto(x, "fail")
    BY <1>7, <1>19
  <2>3. /\ wk' = [wk EXCEPT ![x].pc = "receipt"] /\ mig' = mig
        /\ coll[Target(MigOf(x))] # NoColl
        /\ coll' = [coll EXCEPT ![Target(MigOf(x))] =
                      [s \in Segs |-> IF wk[x].page[s] # 0 THEN wk[x].page[s] ELSE @[s]]]
    BY <1>19, <2>2 DEF BackfillUpsert
  <2>4. x = w
    BY <1>1, <1>19, <2>3
  <2>5. wk'[w].page = wk[w].page /\ wk'[w].job = wk[w].job
    BY <1>1, <2>1, <2>3, <2>4 DEF BusyType
  <2>6. QED
    BY <2>3, <2>4, <2>5
<1>20. ASSUME NEW x \in Workers, ClaimSome(x) \/ WorkerStep(x) \/ WorkerStop(x) \/ WorkerCrash(x)
       PROVE  wk'[w] = wk[w] \/ BackfillUpsert(x)
  BY <1>11, <1>12, <1>13, <1>14, <1>15, <1>16, <1>17, <1>18, <1>20 DEF WorkerStep
<1>21. QED
  BY <1>0, <1>3, <1>4, <1>5, <1>19, <1>20 DEF Next

\* The page of a worker that is about to record it has its points.
LEMMA PageStep ==
  BaseInv /\ NameInv /\ VerdictInv /\ CleanInv /\ PageInv /\ [Next]_vars => PageInv'
PROOF
<1> SUFFICES ASSUME BaseInv, NameInv, VerdictInv, CleanInv, PageInv, [Next]_vars,
                    NEW w \in Workers, wk'[w].pc = "receipt",
                    NEW n, n = jobs'[wk'[w].job].mig, NEW b, b = mig'[n].tgt, Unjudged(b)',
                    NEW s \in Segs, wk'[w].page[s] # 0
             PROVE  coll'[Target(n)'] # NoColl /\ coll'[Target(n)'][s] # 0
  BY DEF PageInv, Points, Unjudged, MigOf, Target
<1>1. TypeInv /\ JobMoves /\ MigMoves
  BY TypeStep DEF BaseInv, Good
<1>2. wk[w].pc # "idle" => /\ wk[w].job \in 1..Len(jobs) /\ MigOf(w) \in 1..Len(mig)
                           /\ wk[w] \in BusyType
  BY <1>1, Busy
<1>3. wk[w].job \in 1..Len(jobs) => jobs'[wk[w].job].mig = MigOf(w)
  BY <1>1 DEF JobMoves, JobMove, MigOf
<1>4. CASE wk'[w] = wk[w]
  <2>1. n = MigOf(w) /\ n \in 1..Len(mig)
    BY <1>2, <1>3, <1>4
  <2>2. Unjudged(mig[n].tgt)
    BY <2>1, TargetBack
  <2>3. Points(n, wk[w].page)
    BY <1>4, <2>1, <2>2 DEF PageInv
  <2>4. \A x \in Segs : wk[w].page[x] # 0 =>
          coll'[Target(n)'] # NoColl /\ coll'[Target(n)'][x] # 0
    BY <2>1, <2>2, <2>3, PointsKept
  <2>5. QED
    BY <1>4, <2>4
<1>5. CASE /\ BackfillUpsert(w) /\ wk'[w].page = wk[w].page /\ wk'[w].job = wk[w].job
           /\ mig' = mig /\ coll[Target(MigOf(w))] # NoColl
           /\ coll' = [coll EXCEPT ![Target(MigOf(w))] =
                         [x \in Segs |-> IF wk[w].page[x] # 0 THEN wk[w].page[x] ELSE @[x]]]
  <2>1. wk[w].pc # "idle" /\ bnd' = bnd
    BY <1>5 DEF BackfillUpsert
  <2>2. n = MigOf(w) /\ n \in 1..Len(mig)
    BY <1>2, <1>3, <1>5, <2>1
  <2>3. Target(n)' = Target(n) /\ Target(n) \in Colls
    BY <1>1, <1>5, <2>1, <2>2, Ends DEF Target
  <2> DEFINE t == [x \in Segs |-> IF wk[w].page[x] # 0 THEN wk[w].page[x] ELSE coll[Target(n)][x]]
  <2>4. coll'[Target(n)] = t
    BY <1>1, <1>5, <2>2, <2>3 DEF TypeInv, World
  <2>5. DOMAIN t = Segs /\ Segs # {} /\ DOMAIN NoColl = {} /\ t[s] # 0
    BY <1>5 DEF NoColl
  <2>6. QED
    BY <2>3, <2>4, <2>5
<1>6. QED
  BY <1>4, <1>5, PageSteps

\* What makes the receipts right.
FirstInv ==
    /\ BaseInv /\ NameInv /\ VerdictInv
    /\ PurgeInv /\ CleanInv /\ ReceiptInv /\ PageInv

\* At first there are neither shadows nor purges.
LEMMA FirstInit == Init => FirstInv
PROOF
<1> SUFFICES ASSUME Init PROVE PurgeInv /\ CleanInv /\ ReceiptInv /\ PageInv
  BY ServingInit DEF FirstInv, ServingInv
<1>1. /\ mig = <<>> /\ purges = {} /\ wk = [w \in Workers |-> Idle]
      /\ starts = [o \in Starters |-> Idle] /\ Idle.pc = "idle" /\ Len(mig) = 0
  BY DEF Init, Idle
<1>2. PurgeInv /\ CleanInv
  BY <1>1 DEF PurgeInv, CleanInv
<1>3. ReceiptInv /\ PageInv
  BY <1>1 DEF ReceiptInv, PageInv
<1>4. QED
  BY <1>2, <1>3

\* In the first generation of a collection name, until a migration into it is
\* judged, record_progress_receipts never records a segment whose point is not
\* in the shadow, whatever workers stall, crash or take over.
THEOREM ReceiptsFollowPoints == Spec => []ReceiptsHavePoints
PROOF
<1>1. FirstInv /\ [Next]_vars => FirstInv'
  BY TypeStep, PointerStep, NameStep, VerdictStep, PurgeStep, CleanStep, ReceiptStep, PageStep
     DEF FirstInv, BaseInv, Good
<1>2. FirstInv => ReceiptsHavePoints
  <2> SUFFICES ASSUME FirstInv PROVE ReceiptsHavePoints
    OBVIOUS
  <2>1. DOMAIN mig = 1..Len(mig)
    BY Rows DEF FirstInv, BaseInv
  <2>2. QED
    BY <2>1 DEF FirstInv, ReceiptInv, Points, ReceiptsHavePoints
<1>3. QED
  BY FirstInit, <1>1, <1>2, PTL DEF Spec
=============================================================================
