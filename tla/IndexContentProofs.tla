------------------------- MODULE IndexContentProofs -------------------------
(***************************************************************************)
(* What Qdrant holds of a document, for every set of documents and every   *)
(* number of requests, crashes and failed calls: with the fence open, the  *)
(* generation PostgreSQL serves; behind it, that generation whole in the   *)
(* collection or in the backups.                                           *)
(***************************************************************************)
EXTENDS IndexPublicationProofs

-----------------------------------------------------------------------------
(* The invariant of one document.                                          *)

Served(d) == {doc[d].pg}
Phase(d, n) == exec[d][n].phase
Bound(d, n) == exec[d][n].bound

\* Executions and manifests: the marked execution is the only one with a
\* manifest that still runs or is not yet decided; a manifest that is bound to
\* the fence closed now is the marked one.
ManifestInv(d) ==
  \A n \in DOMAIN exec[d] :
    /\ Phase(d, n) # "none" /\ n # doc[d].mark => exec[d][n].st # "running"
    /\ Phase(d, n) = "none" => Bound(d, n) = 0
    /\ Bound(d, n) <= Mag
    /\ Bound(d, n) = 0 => Phase(d, n) \in {"none", "preparing"}
    /\ Phase(d, n) \in {"preparing", "prepared", "points_written"} => n = doc[d].mark
    /\ rev < 0 /\ Bound(d, n) = Mag => n = doc[d].mark /\ Phase(d, n) \in Unfinished

Before == {"run", "pinned", "aborting"}
Publishing == {"freezing", "prepared", "upserted", "rows"}
Undoing == {"undo", "undoing"}

\* An execution that may still be published is not the one served, and a
\* document whose consumer has not committed is not completed.
FreshInv(d) ==
  /\ Running(d, doc[d].link) =>
       /\ Phase(d, doc[d].link) # "committed" => doc[d].link # doc[d].pg
       /\ doc[d].st # "completed" => Phase(d, doc[d].link) # "committed"
  /\ doc[d].mark # 0 /\ Phase(d, doc[d].mark) # "committed" => doc[d].mark # doc[d].pg
  /\ job[d].pc \in Before => job[d].g # doc[d].pg
  /\ job[d].pc \in {"claimed"} \union Before \union Publishing \union Undoing =>
       doc[d].st # "completed"

\* A manifest past its preparation, behind the fence it is bound to.
Late(d) == /\ doc[d].mark # 0 /\ rev < 0 /\ Bound(d, doc[d].mark) = Mag
           /\ Phase(d, doc[d].mark) \in {"prepared", "points_written", "committed"}

\* Nobody consumes the execution of such a manifest again.
ConsumerInv(d) ==
  /\ Late(d) /\ job[d].pc \in Before => job[d].g # doc[d].mark
  /\ Late(d) /\ doc[d].link = doc[d].mark =>
       /\ doc[d].st # "waiting" /\ job[d].pc # "claimed"
       /\ ~(job[d].pc = "failed" /\ job[d].why = "busy")
  /\ job[d].pc \in Before =>
       Phase(d, job[d].g) \in {"none", "preparing"} \/ job[d].g = doc[d].mark
  /\ job[d].pc \in Before \union Publishing \union Undoing => doc[d].link \in {job[d].g, 0}
  /\ job[d].pc \in Publishing => doc[d].st = "indexing"

\* A text document: untouched, or whole in the backups of this publication.
TextInv(d) ==
  /\ backup[d].at <= Mag
  /\ backup[d].at = 0 => ~backup[d].full
  /\ job[d].pc = "backing" => backup[d].at = Mag
  /\ d \notin exposed =>
       /\ rev >= 0 => points[d] = Served(d)
       /\ points[d] = Served(d) \/ (backup[d].full /\ backup[d].gens = Served(d))
       /\ rev < 0 /\ backup[d].at = Mag => backup[d].gens = Served(d)
       /\ job[d].pc = "leased" /\ ~job[d].recovered => points[d] = Served(d)
       /\ job[d].pc = "backing" => points[d] = Served(d)
       /\ job[d].pc \in {"backed", "half", "written", "restore"} =>
            backup[d].full /\ backup[d].gens = Served(d)
       /\ job[d].pc = "written" => points[d] = {job[d].g}
       /\ job[d].pc = "abort" => points[d] = Served(d)

\* A special document: what the phase of its bound manifest allows.
Manifest(d, n) ==
  /\ Phase(d, n) \in Unfinished
  /\ Phase(d, n) = "preparing" => points[d] = Served(d)
  /\ Phase(d, n) \in {"prepared", "points_written"} =>
       /\ exec[d][n].old = Served(d)
       /\ Served(d) \subseteq points[d] /\ points[d] \subseteq Served(d) \union {n}
  /\ Phase(d, n) = "committed" =>
       /\ doc[d].pg = n /\ n \in points[d] /\ n \notin exec[d][n].old
       /\ points[d] \subseteq exec[d][n].old \union {n}

SpecialInv(d) ==
  d \notin exposed =>
    LET n == doc[d].mark IN
    /\ n = 0 \/ Bound(d, n) = 0 => points[d] = Served(d)
    /\ n # 0 /\ Bound(d, n) # 0 => rev < 0 /\ Bound(d, n) = Mag /\ Manifest(d, n)

DocInv(d) ==
  /\ ManifestInv(d) /\ FreshInv(d) /\ ConsumerInv(d)
  /\ d \in TextDocs => TextInv(d)
  /\ d \in SpecialDocs => SpecialInv(d)

-----------------------------------------------------------------------------
(* The invariant of the holder of a special publication: it works on the   *)
(* marked execution, at the phase its manifest records.                    *)

HolderInv(a) ==
  job[a].pc \in SpecialHolding =>
    LET d == job[a].d   n == job[a].g IN
    /\ n = doc[d].mark /\ Bound(d, n) = Mag
    /\ job[a].pc \in {"freezing", "resume"} => Phase(d, n) = "preparing"
    /\ job[a].pc \in {"prepared", "upserted"} => Phase(d, n) = "prepared"
    /\ job[a].pc = "rows" => Phase(d, n) = "points_written"
    /\ job[a].pc \in {"finish", "finishing"} => Phase(d, n) = "committed"
    /\ job[a].pc \in Undoing =>
         /\ Phase(d, n) \in {"preparing", "prepared", "points_written"}
         /\ a = Rec => Phase(d, n) # "preparing"
    /\ job[a].pc \in {"upserted", "rows"} => n \in points[d]
    /\ job[a].pc \in {"finishing", "undoing"} /\ d \notin exposed => points[d] = Served(d)

ContentInv == /\ \A d \in Docs : DocInv(d)
              /\ \A a \in Actors : HolderInv(a)

-----------------------------------------------------------------------------
(* Documents and holders that a step leaves alone.                         *)

\* What a step may do to the fence, seen from document c.
Around(c) ==
  \/ rev' = rev /\ (c \notin exposed' => c \notin exposed)
  \/ /\ rev >= 0 /\ rev' = -(rev + 1) /\ job[c].pc \notin Holding
     /\ c \notin exposed' => c \notin exposed
  \/ /\ rev < 0 /\ rev' = -rev /\ job[c].pc \notin Holding
     /\ c \notin exposed' => /\ points[c] = Served(c)
                             /\ doc[c].mark = 0 \/ Bound(c, doc[c].mark) = 0

\* The types that the lemmas below rest on.
LEMMA DocTypes ==
  ASSUME BaseInv, NEW c \in Docs
  PROVE  /\ rev \in Int /\ Mag \in Nat /\ c \in Actors /\ job[c] \in Jobs /\ job[c].d = c
         /\ doc[c] \in Rows /\ backup[c] \in Backups /\ points[c] \subseteq Nat \union {Hole}
         /\ Len(exec[c]) \in Nat /\ DOMAIN exec[c] = 1..Len(exec[c])
         /\ \A n \in DOMAIN exec[c] : exec[c][n] \in Executions
         /\ \A n \in DOMAIN exec[c] : Bound(c, n) \in Nat
         /\ doc[c].link \in 0..Len(exec[c]) /\ doc[c].mark \in 0..Len(exec[c])
         /\ doc[c].pg \in 0..Len(exec[c])
         /\ (c \in TextDocs <=> c \notin SpecialDocs)
         /\ (c \in TextDocs => doc[c].mark = 0)
         /\ (job[c].pc \notin Past => job[c].g \in DOMAIN exec[c])
PROOF
<1>1. DocFacts(c)
  BY DocFactsHold
<1>2. Mag \in Nat
  BY <1>1 DEF Mag, DocFacts
<1>3. backup[c] \in Backups /\ points[c] \subseteq Nat \union {Hole}
  BY DEF BaseInv, Types
<1>4. \A n \in DOMAIN exec[c] : exec[c][n] \in Executions
  BY <1>1 DEF DocFacts
<1>5. \A n \in DOMAIN exec[c] : Bound(c, n) \in Nat
  BY <1>4 DEF Executions, Bound
<1>6. QED
  BY <1>1, <1>2, <1>3, <1>4, <1>5, OldRow DEF DocFacts

\* A document that a step leaves alone keeps its invariant.
LEMMA OtherDoc ==
  ASSUME BaseInv, NEW c \in Docs, DocInv(c), rev' \in Int,
         doc'[c] = doc[c], exec'[c] = exec[c], points'[c] = points[c],
         backup'[c] = backup[c], job'[c] = job[c], Around(c)
  PROVE  DocInv(c)'
PROOF
<1>1. /\ rev \in Int /\ Mag \in Nat /\ \A n \in DOMAIN exec[c] : Bound(c, n) \in Nat
      /\ backup[c] \in Backups /\ (c \in TextDocs <=> c \notin SpecialDocs)
      /\ backup[c].at \in Nat
      /\ doc[c].mark \in 0..Len(exec[c]) /\ DOMAIN exec[c] = 1..Len(exec[c])
  BY DocTypes DEF Backups
<1>2. \/ Mag' = Mag /\ rev' = rev
      \/ Mag' = Mag + 1 /\ rev >= 0 /\ rev' < 0 /\ job[c].pc \notin Holding
      \/ Mag' = Mag /\ rev < 0 /\ rev' >= 0 /\ job[c].pc \notin Holding
  BY <1>1 DEF Around, Mag
<1>3. ManifestInv(c)'
  <2> SUFFICES ASSUME NEW n \in DOMAIN exec[c]
               PROVE  /\ Phase(c, n) # "none" /\ n # doc[c].mark => exec[c][n].st # "running"
                      /\ Phase(c, n) = "none" => Bound(c, n) = 0
                      /\ Bound(c, n) <= Mag'
                      /\ Bound(c, n) = 0 => Phase(c, n) \in {"none", "preparing"}
                      /\ Phase(c, n) \in {"preparing", "prepared", "points_written"} =>
                           n = doc[c].mark
                      /\ rev' < 0 /\ Bound(c, n) = Mag' =>
                           n = doc[c].mark /\ Phase(c, n) \in Unfinished
    BY DEF ManifestInv, Phase, Bound
  <2>1. ManifestInv(c) /\ Bound(c, n) \in Nat
    BY <1>1 DEF DocInv
  <2>2. QED
    BY <1>1, <1>2, <2>1 DEF ManifestInv
<1>4. FreshInv(c)'
  BY DEF DocInv, FreshInv, Running, Phase
<1>5. ConsumerInv(c)'
  <2>1. doc[c].mark # 0 => Bound(c, doc[c].mark) \in Nat /\ Bound(c, doc[c].mark) <= Mag
    BY <1>1 DEF DocInv, ManifestInv
  <2>2. Late(c)' => Late(c)
    BY <1>1, <1>2, <2>1 DEF Late, Phase, Bound
  <2>3. QED
    BY <2>2 DEF DocInv, ConsumerInv, Phase, Bound
<1>6. ASSUME c \in TextDocs PROVE TextInv(c)'
  <2>1. TextInv(c)
    BY <1>6 DEF DocInv
  <2>2. CASE rev' = rev /\ (c \notin exposed' => c \notin exposed)
    <3>1. Mag' = Mag
      BY <2>2 DEF Mag
    <3>2. QED
      BY <2>1, <2>2, <3>1 DEF TextInv, Served
  <2>3. CASE job[c].pc \notin Holding /\ ~(rev' = rev /\ (c \notin exposed' => c \notin exposed))
    <3>1. job[c].pc \notin {"leased", "backing", "backed", "half", "written", "restore", "abort"}
      BY <2>3 DEF Holding, TextHolding
    <3>2. CASE rev >= 0 /\ rev' = -(rev + 1) /\ (c \notin exposed' => c \notin exposed)
      <4>1. Mag' = Mag + 1 /\ ~(rev' >= 0)
        BY <1>1, <3>2 DEF Mag
      <4>2. backup[c].at <= Mag' /\ backup[c].at # Mag'
        BY <1>1, <2>1, <4>1 DEF TextInv
      <4>3. QED
        BY <2>1, <3>1, <3>2, <4>1, <4>2 DEF TextInv, Served
    <3>3. CASE rev < 0 /\ rev' = -rev /\ (c \notin exposed' => points[c] = Served(c))
      <4>1. Mag' = Mag /\ ~(rev' < 0)
        BY <1>1, <3>3 DEF Mag
      <4>2. QED
        BY <2>1, <3>1, <3>3, <4>1 DEF TextInv, Served
    <3>4. QED
      BY <2>3, <3>2, <3>3 DEF Around
  <2>4. QED
    BY <2>2, <2>3 DEF Around
<1>7. ASSUME c \in SpecialDocs PROVE SpecialInv(c)'
  <2>1. SpecialInv(c)
    BY <1>7 DEF DocInv
  <2>2. CASE rev' = rev /\ (c \notin exposed' => c \notin exposed)
    <3>1. Mag' = Mag
      BY <2>2 DEF Mag
    <3>2. QED
      BY <2>1, <2>2, <3>1 DEF SpecialInv, Served, Manifest, Phase, Bound
  <2>3. CASE rev >= 0 /\ (c \notin exposed' => c \notin exposed)
    <3>1. c \notin exposed => doc[c].mark = 0 \/ Bound(c, doc[c].mark) = 0
      BY <1>1, <2>1, <2>3 DEF SpecialInv
    <3>2. QED
      BY <2>1, <2>3, <3>1 DEF SpecialInv, Served, Bound
  <2>4. CASE c \notin exposed' => /\ points[c] = Served(c)
                                  /\ doc[c].mark = 0 \/ Bound(c, doc[c].mark) = 0
    BY <2>4 DEF SpecialInv, Served, Bound
  <2>5. QED
    BY <2>2, <2>3, <2>4 DEF Around
<1>8. QED
  BY <1>3, <1>4, <1>5, <1>6, <1>7 DEF DocInv

\* A special publication has one holder.
LEMMA OneHolder ==
  ASSUME BaseInv, NEW a \in Actors, NEW b \in Actors, a # b,
         job[a].pc \in Locking \/ lock = None
  PROVE  job[b].pc \notin Holding
PROOF
<1>1. None \notin Actors
  BY PublicationAssumption DEF Actors, Docs, Rec, None
<1>2. job[b].pc \in Holding => lock = b
  BY DEF BaseInv, LockInv
<1>3. job[a].pc \in Locking => lock = a
  BY DEF BaseInv, LockInv, Locking
<1>4. QED
  BY <1>1, <1>2, <1>3

\* A holder that a step leaves alone keeps its invariant.
LEMMA OtherHolder ==
  ASSUME BaseInv, NEW b \in Actors, HolderInv(b), job'[b] = job[b],
         job[b].pc \in SpecialHolding =>
           LET d == job[b].d   n == job[b].g IN
           /\ rev' = rev /\ doc'[d].mark = doc[d].mark /\ doc'[d].pg = doc[d].pg
           /\ Phase(d, n)' = Phase(d, n) /\ Bound(d, n)' = Bound(d, n)
           /\ points'[d] = points[d] /\ (d \notin exposed' => d \notin exposed)
  PROVE  HolderInv(b)'
PROOF
<1>1. rev' = rev => Mag' = Mag
  BY DEF Mag
<1>2. CASE job[b].pc \notin SpecialHolding
  BY <1>2 DEF HolderInv
<1>3. CASE job[b].pc \in SpecialHolding
  <2> DEFINE d == job[b].d
             n == job[b].g
  <2>1. job'[b].d = d /\ job'[b].g = n /\ job'[b].pc = job[b].pc
    OBVIOUS
  <2>2. /\ Mag' = Mag /\ doc'[d].mark = doc[d].mark /\ doc'[d].pg = doc[d].pg
        /\ exec'[d][n].phase = exec[d][n].phase /\ exec'[d][n].bound = exec[d][n].bound
        /\ points'[d] = points[d] /\ (d \notin exposed' => d \notin exposed)
    BY <1>1, <1>3 DEF Phase, Bound
  <2> HIDE DEF d, n
  <2>3. QED
    BY <1>3, <2>1, <2>2 DEF HolderInv, Phase, Bound, Served, d, n
<1>4. QED
  BY <1>2, <1>3

-----------------------------------------------------------------------------
(* Steps of an actor a that change document d.                             *)

\* The step touches no other document and no other job.
Local(a, d) ==
  /\ a = d \/ a = Rec
  /\ \A b \in Actors : b # a => job'[b] = job[b]
  /\ \A c \in Docs : c # d => /\ doc'[c] = doc[c] /\ exec'[c] = exec[c]
                              /\ points'[c] = points[c] /\ backup'[c] = backup[c]
                              /\ Around(c)

\* What another holder relies on stays.
Undisturbed(a, d) ==
  \A b \in Actors : b # a /\ job[b].pc \in SpecialHolding =>
    /\ rev' = rev /\ \A c \in Docs : c \notin exposed' => c \notin exposed
    /\ job[b].d = d =>
         /\ doc'[d].mark = doc[d].mark /\ doc'[d].pg = doc[d].pg
         /\ Phase(d, job[b].g)' = Phase(d, job[b].g)
         /\ Bound(d, job[b].g)' = Bound(d, job[b].g)
         /\ points'[d] = points[d]

\* Then the rest of the invariant stays.
LEMMA LocalStep ==
  ASSUME BaseInv, ContentInv, rev' \in Int, NEW d \in Docs, NEW a \in Actors,
         Local(a, d), Undisturbed(a, d), DocInv(d)', HolderInv(a)'
  PROVE  ContentInv'
PROOF
<1>1. Rec \notin Docs /\ Docs \subseteq Actors
  BY PublicationAssumption DEF Docs, Rec, Actors
<1>2. ASSUME NEW c \in Docs PROVE DocInv(c)'
  <2>1. CASE c = d
    BY <2>1
  <2>2. CASE c # d
    <3>1. DocInv(c) /\ job'[c] = job[c]
      BY <1>1, <2>2 DEF ContentInv, Local
    <3>2. QED
      BY <2>2, <3>1, OtherDoc DEF Local
  <2>3. QED
    BY <2>1, <2>2
<1>3. ASSUME NEW b \in Actors PROVE HolderInv(b)'
  <2>1. CASE b = a
    BY <2>1
  <2>2. CASE b # a
    <3>1. HolderInv(b) /\ job'[b] = job[b]
      BY <2>2 DEF ContentInv, Local
    <3>2. ASSUME job[b].pc \in SpecialHolding
          PROVE  LET e == job[b].d   n == job[b].g IN
                 /\ rev' = rev /\ doc'[e].mark = doc[e].mark /\ doc'[e].pg = doc[e].pg
                 /\ Phase(e, n)' = Phase(e, n) /\ Bound(e, n)' = Bound(e, n)
                 /\ points'[e] = points[e] /\ (e \notin exposed' => e \notin exposed)
      <4>1. job[b].d \in Docs
        BY <3>2, TargetFacts DEF Target
      <4>2. CASE job[b].d = d
        BY <2>2, <3>1, <3>2, <4>1, <4>2 DEF Undisturbed, Phase, Bound
      <4>3. CASE job[b].d # d
        BY <2>2, <3>2, <4>1, <4>3 DEF Undisturbed, Local, Phase, Bound
      <4>4. QED
        BY <4>2, <4>3
    <3>3. QED
      BY <3>1, <3>2, OtherHolder
  <2>3. QED
    BY <2>1, <2>2
<1>4. QED
  BY <1>2, <1>3 DEF ContentInv

\* Behind the lock nobody else holds a publication.
LEMMA Alone ==
  ASSUME BaseInv, NEW a \in Actors, NEW d, job[a].pc \in Locking \/ lock = None
  PROVE  /\ Undisturbed(a, d)
         /\ \A c \in Docs : c # a => job[c].pc \notin Holding
PROOF
<1>1. \A b \in Actors : b # a => job[b].pc \notin Holding
  BY OneHolder
<1>2. SpecialHolding \subseteq Holding /\ Docs \subseteq Actors
  BY DEF Holding, Actors
<1>3. QED
  BY <1>1, <1>2 DEF Undisturbed

\* Executions that are only closed or added.
ExecKeeps(d) ==
  \A n \in DOMAIN exec'[d] :
    \/ /\ n \in DOMAIN exec[d] /\ exec'[d][n].old = exec[d][n].old
       /\ Phase(d, n)' = Phase(d, n) /\ Bound(d, n)' = Bound(d, n)
       /\ exec'[d][n].st = "running" => exec[d][n].st = "running"
    \/ n \notin DOMAIN exec[d] /\ exec'[d][n] = NewExec

\* Steps outside the lock that leave the stores and the marker: what remains
\* is to show of the consumer.
LEMMA QuietStep ==
  ASSUME BaseInv, ContentInv, NEW d \in Docs,
         UNCHANGED <<rev, points, backup, exposed>>,
         \A b \in Actors : b # d => job'[b] = job[b],
         \A c \in Docs : c # d => doc'[c] = doc[c] /\ exec'[c] = exec[c],
         doc'[d].pg = doc[d].pg, doc'[d].mark = doc[d].mark,
         ExecKeeps(d), DOMAIN exec[d] \subseteq DOMAIN exec'[d],
         job[d].pc \notin SpecialHolding, job'[d].pc \notin Holding,
         FreshInv(d)', ConsumerInv(d)'
  PROVE  ContentInv'
PROOF
<1>1. /\ rev' \in Int /\ Mag' = Mag /\ Mag \in Nat /\ d \in Actors
      /\ doc[d].mark \in 0..Len(exec[d]) /\ DOMAIN exec[d] = 1..Len(exec[d])
      /\ doc[d].mark # 0 => doc[d].mark \in DOMAIN exec[d]
      /\ rev \in Int
  BY DocTypes DEF Mag
<1>2. DocInv(d) /\ ManifestInv(d)
  BY DEF ContentInv, DocInv
<1>3. ManifestInv(d)'
  <2> SUFFICES ASSUME NEW n \in DOMAIN exec'[d]
               PROVE  /\ Phase(d, n)' # "none" /\ n # doc'[d].mark => exec'[d][n].st # "running"
                      /\ Phase(d, n)' = "none" => Bound(d, n)' = 0
                      /\ Bound(d, n)' <= Mag'
                      /\ Bound(d, n)' = 0 => Phase(d, n)' \in {"none", "preparing"}
                      /\ Phase(d, n)' \in {"preparing", "prepared", "points_written"} =>
                           n = doc'[d].mark
                      /\ rev' < 0 /\ Bound(d, n)' = Mag' =>
                           n = doc'[d].mark /\ Phase(d, n)' \in Unfinished
    BY DEF ManifestInv, Phase, Bound
  <2>1. CASE n \in DOMAIN exec[d] /\ ~(exec'[d][n] = NewExec /\ n \notin DOMAIN exec[d])
    BY <1>1, <1>2, <2>1 DEF ManifestInv, ExecKeeps
  <2>2. CASE exec'[d][n] = NewExec
    <3>1. Phase(d, n)' = "none" /\ Bound(d, n)' = 0
      BY <2>2 DEF Phase, Bound, NewExec
    <3>2. rev' < 0 => Mag' # 0
      BY <1>1 DEF Mag
    <3>3. QED
      BY <1>1, <3>1, <3>2
  <2>3. QED
    BY <2>1, <2>2 DEF ExecKeeps
<1>4. d \in TextDocs => TextInv(d)'
  <2>1. job'[d].pc \notin {"leased", "backing", "backed", "half", "written", "restore", "abort"}
    BY DEF Holding, TextHolding
  <2>2. QED
    BY <1>1, <1>2, <2>1 DEF DocInv, TextInv, Served
<1>5. d \in SpecialDocs => SpecialInv(d)'
  <2> SUFFICES ASSUME d \in SpecialDocs, d \notin exposed PROVE SpecialInv(d)'
    BY DEF SpecialInv
  <2>1. SpecialInv(d)
    BY <1>2 DEF DocInv
  <2> DEFINE m == doc[d].mark
  <2>2. CASE m = 0
    BY <2>1, <2>2 DEF SpecialInv, Served
  <2>3. CASE m # 0
    <3>1. /\ m \in DOMAIN exec'[d] /\ exec'[d][m].old = exec[d][m].old
          /\ exec'[d][m].phase = exec[d][m].phase /\ exec'[d][m].bound = exec[d][m].bound
      BY <1>1, <2>3 DEF ExecKeeps, Phase, Bound
    <3> HIDE DEF m
    <3>2. QED
      BY <1>1, <2>1, <2>3, <3>1 DEF SpecialInv, Served, Manifest, Phase, Bound, m
  <2>4. QED
    BY <2>2, <2>3
<1>6. HolderInv(d)'
  BY DEF HolderInv, Holding
<1>7. Local(d, d)
  BY DEF Local, Around
<1>8. Undisturbed(d, d)
  <2> SUFFICES ASSUME NEW b \in Actors, b # d, job[b].pc \in SpecialHolding, job[b].d = d
               PROVE  /\ Phase(d, job[b].g)' = Phase(d, job[b].g)
                      /\ Bound(d, job[b].g)' = Bound(d, job[b].g)
    BY DEF Undisturbed
  <2>1. job[b].g \in DOMAIN exec[d]
    BY <1>1, TargetFacts DEF Target
  <2>2. QED
    BY <2>1 DEF ExecKeeps
<1>9. QED
  BY <1>1, <1>3, <1>4, <1>5, <1>6, <1>7, <1>8, LocalStep DEF DocInv

\* A consumer that moves on before its publication, or out of it.
LEMMA Calm ==
  ASSUME BaseInv, NEW d \in Docs, DocInv(d), rev' = rev, exec'[d] = exec[d],
         doc'[d].link = doc[d].link, doc'[d].mark = doc[d].mark, doc'[d].pg = doc[d].pg,
         doc'[d].st = doc[d].st \/ (doc'[d].st \in InFlight /\ doc[d].st # "completed"),
         job'[d].g = job[d].g,
         job'[d].pc \in Before => job[d].pc \in Before,
         job'[d].pc = "claimed" => doc[d].st = "waiting" /\ doc'[d].st # "waiting",
         job'[d].pc \notin Publishing \union Undoing,
         job'[d].pc = "failed" /\ job'[d].why = "busy" => job[d].pc \in Before
  PROVE  FreshInv(d)' /\ ConsumerInv(d)'
PROOF
<1>1. FreshInv(d) /\ ConsumerInv(d)
  BY DEF DocInv
<1>2. "completed" \notin InFlight /\ "waiting" \notin InFlight
  BY DEF InFlight
<1>3. "claimed" \notin Before
  BY DEF Before
<1>4. FreshInv(d)'
  BY <1>1, <1>2 DEF FreshInv, Running, Phase
<1>5. Late(d)' <=> Late(d)
  BY DEF Late, Mag, Phase, Bound
<1>6. job[d].pc \in Before => job[d].g # 0
  BY DocTypes DEF Past, Before
<1>7. Late(d) => doc[d].mark # 0
  BY DEF Late
<1>8. ConsumerInv(d)'
  BY <1>1, <1>2, <1>3, <1>5, <1>6, <1>7 DEF ConsumerInv, Phase
<1>9. QED
  BY <1>4, <1>8

\* The executions stay.
LEMMA ExecStay ==
  ASSUME NEW d, exec'[d] = exec[d]
  PROVE  ExecKeeps(d) /\ DOMAIN exec[d] \subseteq DOMAIN exec'[d]
  BY DEF ExecKeeps, Phase, Bound

\* The frame of a consumer's step.
LEMMA StepFrame ==
  ASSUME BaseInv, NEW a \in Actors, NEW pc, NEW why, NEW rec, Step(a, pc, why, rec)
  PROVE  /\ \A b \in Actors : b # a => job'[b] = job[b]
         /\ job'[a].pc = pc /\ job'[a].why = why /\ job'[a].recovered = rec
         /\ job'[a].g = job[a].g /\ job'[a].d = job[a].d
PROOF
<1>1. job \in [Actors -> Jobs]
  BY DEF BaseInv, Types
<1>2. QED
  BY <1>1 DEF Step

\* Refusals and failures outside the lock.
LEMMA RefusalsKeep ==
  ASSUME BaseInv, ContentInv, NEW d \in Docs, NEW why \in Whys,
         \/ RecordRefused(d) \/ AbortNoLease(d)
         \/ TextFail(d, why) /\ job[d].pc \in {"claimed", "run"}
         \/ SpecialFail(d, why) /\ job[d].pc \in {"claimed", "run", "pinned"}
         \/ PrepareFails(d) /\ job[d].pc = "pinned"
  PROVE  ContentInv'
PROOF
<1>0. DocInv(d) /\ d \in Actors /\ Types /\ doc \in [Docs -> Rows]
  BY DocTypes DEF ContentInv, BaseInv, Types, Rows
<1>1. /\ UNCHANGED <<rev, doc, exec, points, backup, exposed>>
      /\ job[d].pc \in {"claimed"} \union Before
  BY DEF RecordRefused, AbortNoLease, TextFail, SpecialFail, PrepareFails, At, stores, Before
<1>2. PICK pc, w :
        /\ pc \in {"failed", "aborting"} /\ Step(d, pc, w, job[d].recovered)
        /\ pc = "aborting" \/ w = "busy" => job[d].pc \in Before
  <2>1. CASE RecordRefused(d)
    <3>1. Step(d, "failed", "error", job[d].recovered)
      BY <1>0, <2>1, JobForms DEF RecordRefused
    <3>2. QED
      BY <3>1
  <2>2. CASE AbortNoLease(d)
    <3> DEFINE w == IF lock # None THEN "busy" ELSE "error"
    <3>1. Step(d, "failed", w, job[d].recovered) /\ job[d].pc = "aborting"
      BY <1>0, <2>2, JobForms DEF AbortNoLease, At
    <3>2. QED
      BY <3>1 DEF Before
  <2>3. CASE TextFail(d, why) /\ job[d].pc \in {"claimed", "run"}
    <3>1. Step(d, "failed", why, job[d].recovered)
      BY <1>0, <2>3, JobForms DEF TextFail, At
    <3>2. why # "busy"
      BY DEF Whys
    <3>3. QED
      BY <3>1, <3>2
  <2>4. CASE SpecialFail(d, why) /\ job[d].pc \in {"claimed", "run", "pinned"}
    <3>1. Step(d, "failed", why, job[d].recovered)
      BY <1>0, <2>4, JobForms DEF SpecialFail, At
    <3>2. why # "busy"
      BY DEF Whys
    <3>3. QED
      BY <3>1, <3>2
  <2>5. CASE PrepareFails(d) /\ job[d].pc = "pinned"
    <3>1. Step(d, "aborting", "error", job[d].recovered)
      BY <1>0, <2>5, JobForms DEF PrepareFails
    <3>2. QED
      BY <2>5, <3>1 DEF Before
  <2>6. QED
    BY <2>1, <2>2, <2>3, <2>4, <2>5
<1>3. /\ \A b \in Actors : b # d => job'[b] = job[b]
      /\ job'[d].pc = pc /\ job'[d].why = w /\ job'[d].g = job[d].g
  BY <1>0, <1>2, StepFrame
<1>4. FreshInv(d)' /\ ConsumerInv(d)'
  <2>1. pc \notin Publishing \union Undoing /\ pc # "claimed"
    BY <1>2 DEF Publishing, Undoing
  <2>2. pc \in Before => pc = "aborting"
    BY <1>2 DEF Before
  <2>3. QED
    BY <1>0, <1>1, <1>2, <1>3, <2>1, <2>2, Calm
<1>5. job[d].pc \notin SpecialHolding /\ job'[d].pc \notin Holding
  BY <1>1, <1>2, <1>3 DEF Before, SpecialHolding, Holding, TextHolding
<1>6. QED
  BY <1>1, <1>3, <1>4, <1>5, ExecStay, QuietStep

\* Steps before a publication that set the status.
LEMMA StatusKeeps ==
  ASSUME BaseInv, ContentInv, NEW d \in Docs,
         Claim(d) \/ TextBusy(d) \/ PublishRefused(d) \/ SpecialNoLease(d)
  PROVE  ContentInv'
PROOF
<1>0. DocInv(d) /\ d \in Actors /\ Types /\ doc \in [Docs -> Rows] /\ FreshInv(d)
  BY DocTypes DEF ContentInv, BaseInv, Types, Rows, DocInv
<1>1. UNCHANGED <<rev, exec, points, backup, exposed>>
  BY DEF Claim, TextBusy, PublishRefused, SpecialNoLease, stores
<1>2. PICK st \in InFlight : doc' = [doc EXCEPT ![d].st = st]
  BY DEF Claim, TextBusy, PublishRefused, SpecialNoLease, InFlight
<1>3. /\ \A c \in Docs : c # d => doc'[c] = doc[c]
      /\ doc'[d].st = st /\ doc'[d].link = doc[d].link /\ doc'[d].mark = doc[d].mark
      /\ doc'[d].pg = doc[d].pg
  BY <1>0, <1>2 DEF Rows
<1>4. PICK pc, w :
        /\ pc \in {"claimed", "failed", "aborting"} /\ Step(d, pc, w, job[d].recovered)
        /\ pc = "claimed" => job[d].pc = "idle" /\ doc[d].st = "waiting"
        /\ pc # "claimed" => job[d].pc \in Before
  <2>1. CASE Claim(d)
    <3>1. Step(d, "claimed", job[d].why, job[d].recovered) /\ job[d].pc = "idle"
          /\ doc[d].st = "waiting"
      BY <1>0, <2>1, JobForms DEF Claim, LeaseFree
    <3>2. QED
      BY <3>1
  <2>2. CASE TextBusy(d)
    <3>1. Step(d, "failed", "busy", job[d].recovered) /\ job[d].pc \in Before
      BY <1>0, <2>2, JobForms DEF TextBusy, At, Before
    <3>2. QED
      BY <3>1
  <2>3. CASE PublishRefused(d)
    <3>1. Step(d, "failed", "error", job[d].recovered) /\ job[d].pc \in Before
      BY <1>0, <2>3, JobForms DEF PublishRefused, At, Before
    <3>2. QED
      BY <3>1
  <2>4. CASE SpecialNoLease(d)
    <3> DEFINE w == IF lock # None THEN "busy" ELSE "error"
    <3>1. Step(d, "aborting", w, job[d].recovered) /\ job[d].pc \in Before
      BY <1>0, <2>4, JobForms DEF SpecialNoLease, At, Before
    <3>2. QED
      BY <3>1
  <2>5. QED
    BY <2>1, <2>2, <2>3, <2>4
<1>5. /\ \A b \in Actors : b # d => job'[b] = job[b]
      /\ job'[d].pc = pc /\ job'[d].why = w /\ job'[d].g = job[d].g
  BY <1>0, <1>4, StepFrame
<1>6. doc[d].st # "completed"
  BY <1>0, <1>4 DEF FreshInv
<1>7. FreshInv(d)' /\ ConsumerInv(d)'
  <2>1. pc \notin Publishing \union Undoing /\ (pc \in Before => pc = "aborting")
    BY <1>4 DEF Publishing, Undoing, Before
  <2>2. st # "waiting"
    BY DEF InFlight
  <2>3. QED
    BY <1>0, <1>1, <1>3, <1>4, <1>5, <1>6, <2>1, <2>2, Calm
<1>8. job[d].pc \notin SpecialHolding /\ job'[d].pc \notin Holding
  BY <1>4, <1>5 DEF Before, SpecialHolding, Holding, TextHolding
<1>9. QED
  BY <1>1, <1>3, <1>5, <1>7, <1>8, ExecStay, QuietStep

\* A list of executions whose members were only closed.
Closes(s, d) ==
  /\ s \in Seq(Executions) /\ Len(s) = Len(exec[d])
  /\ \A n \in 1..Len(exec[d]) :
       /\ s[n].old = exec[d][n].old /\ s[n].phase = exec[d][n].phase
       /\ s[n].bound = exec[d][n].bound
       /\ s[n].st = "running" => exec[d][n].st = "running"

\* One execution is closed.
LEMMA CloseOne ==
  ASSUME BaseInv, NEW d \in Docs, NEW n \in 1..Len(exec[d]), NEW x \in {"completed", "error"}
  PROVE  Closes([exec[d] EXCEPT ![n].st = x], d)
PROOF
<1>1. exec[d] \in Seq(Executions) /\ exec[d][n] \in Executions
  BY DocTypes, Lengths DEF BaseInv
<1> DEFINE e == [exec[d][n] EXCEPT !.st = x]
           s == [exec[d] EXCEPT ![n] = e]
<1>2. e \in Executions /\ e.st = x /\ e.old = exec[d][n].old /\ e.phase = exec[d][n].phase
      /\ e.bound = exec[d][n].bound
  BY <1>1 DEF Executions
<1>3. [exec[d] EXCEPT ![n].st = x] = s
  OBVIOUS
<1> HIDE DEF e
<1>4. s \in Seq(Executions) /\ Len(s) = Len(exec[d])
  BY <1>1, <1>2, EditOne
<1>5. s[n] = e /\ \A m \in 1..Len(exec[d]) : m # n => s[m] = exec[d][m]
  BY <1>1
<1> HIDE DEF s
<1>6. Closes(s, d)
  BY <1>2, <1>4, <1>5 DEF Closes
<1>7. QED
  BY <1>3, <1>6

\* Closing no execution.
LEMMA CloseNone ==
  ASSUME BaseInv, NEW d \in Docs
  PROVE  Closes(exec[d], d)
  BY Lengths DEF Closes, BaseInv

\* Executions are closed.
LEMMA CloseKeeps ==
  ASSUME BaseInv, NEW d \in Docs, NEW s, Closes(s, d), exec' = [exec EXCEPT ![d] = s]
  PROVE  /\ ExecKeeps(d) /\ DOMAIN exec'[d] = DOMAIN exec[d]
         /\ \A c \in Docs : c # d => exec'[c] = exec[c]
PROOF
<1>1. exec \in [Docs -> Seq(Executions)]
  BY DEF BaseInv, Types
<1>2. exec'[d] = s /\ \A c \in Docs : c # d => exec'[c] = exec[c]
  BY <1>1
<1>3. DOMAIN s = 1..Len(exec[d]) /\ DOMAIN exec[d] = 1..Len(exec[d])
  BY DocTypes DEF Closes
<1>4. QED
  BY <1>2, <1>3 DEF ExecKeeps, Closes, Phase, Bound

\* A new one is added.
LEMMA AddKeeps ==
  ASSUME BaseInv, NEW d \in Docs, NEW s, Closes(s, d),
         exec' = [exec EXCEPT ![d] = Append(s, NewExec)]
  PROVE  /\ ExecKeeps(d) /\ DOMAIN exec[d] \subseteq DOMAIN exec'[d]
         /\ \A c \in Docs : c # d => exec'[c] = exec[c]
         /\ exec'[d][Len(exec[d]) + 1] = NewExec
PROOF
<1>1. exec \in [Docs -> Seq(Executions)] /\ Len(exec[d]) \in Nat
  BY DocTypes DEF BaseInv, Types
<1>2. exec'[d] = Append(s, NewExec) /\ \A c \in Docs : c # d => exec'[c] = exec[c]
  BY <1>1
<1>3. /\ DOMAIN Append(s, NewExec) = 1..(Len(exec[d]) + 1)
      /\ \A n \in 1..Len(exec[d]) : Append(s, NewExec)[n] = s[n]
      /\ Append(s, NewExec)[Len(exec[d]) + 1] = NewExec
  BY AddOne DEF Closes
<1>4. DOMAIN exec[d] = 1..Len(exec[d])
  BY DocTypes
<1>5. ASSUME NEW n \in DOMAIN exec'[d]
      PROVE  \/ /\ n \in DOMAIN exec[d] /\ exec'[d][n].old = exec[d][n].old
                /\ exec'[d][n].phase = exec[d][n].phase /\ exec'[d][n].bound = exec[d][n].bound
                /\ exec'[d][n].st = "running" => exec[d][n].st = "running"
             \/ n \notin DOMAIN exec[d] /\ exec'[d][n] = NewExec
  <2>1. n \in 1..Len(exec[d]) \/ n = Len(exec[d]) + 1
    BY <1>1, <1>2, <1>3, <1>5
  <2>2. CASE n \in 1..Len(exec[d])
    BY <1>2, <1>3, <1>4, <2>2 DEF Closes
  <2>3. CASE n = Len(exec[d]) + 1
    BY <1>1, <1>2, <1>3, <1>4, <2>3
  <2>4. QED
    BY <2>1, <2>2, <2>3
<1>6. QED
  BY <1>1, <1>2, <1>3, <1>4, <1>5 DEF ExecKeeps, Phase, Bound

\* The document is linked to a new execution, or to none.
LEMMA NewLink ==
  ASSUME BaseInv, NEW d \in Docs, DocInv(d), rev' = rev,
         ExecKeeps(d), DOMAIN exec[d] \subseteq DOMAIN exec'[d],
         \/ doc'[d].link = 0
         \/ doc'[d].link = Len(exec[d]) + 1 /\ exec'[d][Len(exec[d]) + 1] = NewExec,
         doc'[d].mark = doc[d].mark, doc'[d].pg = doc[d].pg, 0 \notin DOMAIN exec'[d],
         \/ job'[d].pc = "idle"
         \/ /\ job'[d].pc = "run" /\ job'[d].g = doc'[d].link /\ doc'[d].link # 0
            /\ doc'[d].st # "completed"
  PROVE  FreshInv(d)' /\ ConsumerInv(d)'
PROOF
<1>1. /\ FreshInv(d) /\ ConsumerInv(d) /\ Len(exec[d]) \in Nat
      /\ doc[d].mark \in 0..Len(exec[d]) /\ doc[d].pg \in 0..Len(exec[d])
      /\ DOMAIN exec[d] = 1..Len(exec[d])
  BY DocTypes DEF DocInv
<1>2. doc[d].mark # 0 => /\ Phase(d, doc[d].mark)' = Phase(d, doc[d].mark)
                         /\ Bound(d, doc[d].mark)' = Bound(d, doc[d].mark)
  BY <1>1 DEF ExecKeeps, Phase, Bound
<1>3. doc'[d].link # 0 => /\ Phase(d, doc[d].link)' = "none" /\ doc'[d].link # doc[d].pg
                          /\ doc'[d].link # doc[d].mark
  BY <1>1 DEF Phase, NewExec
<1>4. job'[d].pc \notin {"claimed", "pinned", "aborting", "failed"} \union Publishing \union Undoing
  BY DEF Publishing, Undoing
<1>5. job'[d].pc = "run" => Phase(d, job[d].g)' = "none"
  BY <1>3 DEF Phase
<1>6. doc'[d].link = 0 => ~Running(d, doc[d].link)'
  BY DEF Running
<1>7. FreshInv(d)'
  BY <1>1, <1>2, <1>3, <1>4, <1>6 DEF FreshInv, Before, Phase
<1>8. Late(d)' => doc[d].mark # 0
  BY DEF Late
<1>9. ConsumerInv(d)'
  BY <1>3, <1>4, <1>5, <1>8 DEF ConsumerInv, Before
<1>10. QED
  BY <1>7, <1>9

\* The queue, and the consumer taking an execution.
LEMMA QueueKeeps ==
  ASSUME BaseInv, BaseInv', ContentInv, NEW d \in Docs, NEW replay \in BOOLEAN,
         Enqueue(d, replay) \/ ClaimStuck(d) \/ Ensure(d)
  PROVE  ContentInv'
PROOF
<1>0. /\ DocInv(d) /\ FreshInv(d) /\ ConsumerInv(d) /\ ManifestInv(d)
      /\ d \in Actors /\ doc \in [Docs -> Rows] /\ job \in [Actors -> Jobs]
      /\ exec \in [Docs -> Seq(Executions)] /\ DOMAIN exec[d] = 1..Len(exec[d])
      /\ Len(exec[d]) \in Nat
  BY DocTypes DEF ContentInv, DocInv, BaseInv, Types, Rows
<1>1. UNCHANGED <<rev, points, backup, exposed>>
  BY DEF Enqueue, ClaimStuck, Ensure, stores
<1>2. 0 \notin DOMAIN exec'[d]
  <2>1. exec'[d] \in Seq(Executions)
    BY DEF BaseInv, Types
  <2>2. QED
    BY <2>1
<1>3. ASSUME Enqueue(d, replay) \/ ClaimStuck(d)
      PROVE  ContentInv'
  <2>1. job' = job /\ job[d].pc = "idle"
    BY <1>3 DEF Enqueue, ClaimStuck, LeaseFree
  <2>2. PICK st \in {"waiting", "error"}, link \in {0, Len(exec[d]) + 1} :
          /\ doc' = [doc EXCEPT ![d].st = st, ![d].link = link]
          /\ \/ exec' = exec /\ link = 0
             \/ \E s : Closes(s, d) /\ exec' = [exec EXCEPT ![d] = Append(s, NewExec)]
    <3>1. CASE Enqueue(d, replay) /\ replay
      <4>1. /\ doc' = [doc EXCEPT ![d].st = "waiting", ![d].link = Len(exec[d]) + 1]
            /\ exec' = [exec EXCEPT ![d] = Append(exec[d], NewExec)]
        BY <3>1 DEF Enqueue
      <4>2. QED
        BY <4>1, CloseNone
    <3>2. CASE Enqueue(d, replay) /\ ~replay
      <4>1. doc' = [doc EXCEPT ![d].st = "waiting", ![d].link = 0] /\ exec' = exec
        BY <3>2 DEF Enqueue
      <4>2. QED
        BY <4>1
    <3>3. CASE ClaimStuck(d) /\ Running(d, doc[d].link)
      <4> DEFINE s == [exec[d] EXCEPT ![doc[d].link].st = "error"]
      <4>1. /\ doc' = [doc EXCEPT ![d].st = "waiting", ![d].link = Len(exec[d]) + 1]
            /\ exec' = [exec EXCEPT ![d] = Append(s, NewExec)]
        BY <3>3 DEF ClaimStuck
      <4>2. Closes(s, d)
        BY <1>0, <3>3, CloseOne DEF Running
      <4> HIDE DEF s
      <4>3. QED
        BY <4>1, <4>2
    <3>4. CASE ClaimStuck(d) /\ ~Running(d, doc[d].link)
      <4>1. doc' = [doc EXCEPT ![d].st = "error", ![d].link = 0] /\ exec' = exec
        BY <3>4 DEF ClaimStuck
      <4>2. QED
        BY <4>1
    <3>5. QED
      BY <1>3, <3>1, <3>2, <3>3, <3>4
  <2>3. /\ \A c \in Docs : c # d => doc'[c] = doc[c]
        /\ doc'[d].st = st /\ doc'[d].link = link /\ doc'[d].mark = doc[d].mark
        /\ doc'[d].pg = doc[d].pg
    BY <1>0, <2>2 DEF Rows
  <2>4. /\ ExecKeeps(d) /\ DOMAIN exec[d] \subseteq DOMAIN exec'[d]
        /\ \A c \in Docs : c # d => exec'[c] = exec[c]
        /\ link # 0 => exec'[d][Len(exec[d]) + 1] = NewExec
    BY <2>2, AddKeeps, ExecStay
  <2>5. FreshInv(d)' /\ ConsumerInv(d)'
    BY <1>0, <1>1, <1>2, <2>1, <2>2, <2>3, <2>4, NewLink
  <2>6. QED
    BY <1>1, <2>1, <2>3, <2>4, <2>5, QuietStep DEF SpecialHolding, Holding, TextHolding
<1>4. ASSUME Ensure(d) PROVE ContentInv'
  <2> DEFINE g == IF Running(d, doc[d].link) THEN doc[d].link ELSE Len(exec[d]) + 1
  <2>1. /\ doc' = [doc EXCEPT ![d].link = g] /\ job[d].pc = "claimed"
        /\ job' = [job EXCEPT ![d].pc = "run", ![d].g = g]
    BY <1>4 DEF Ensure, At
  <2>2. g \in Nat /\ (Running(d, doc[d].link) => g = doc[d].link)
        /\ (~Running(d, doc[d].link) => g = Len(exec[d]) + 1)
    BY <1>0 DEF Rows
  <2> HIDE DEF g
  <2>3. /\ \A c \in Docs : c # d => doc'[c] = doc[c]
        /\ doc'[d].st = doc[d].st /\ doc'[d].link = g /\ doc'[d].mark = doc[d].mark
        /\ doc'[d].pg = doc[d].pg
    BY <1>0, <2>1, <2>2 DEF Rows
  <2>4. /\ \A b \in Actors : b # d => job'[b] = job[b]
        /\ job'[d].pc = "run" /\ job'[d].g = g
    BY <1>0, <2>1 DEF Jobs
  <2>5. doc[d].st # "completed"
    BY <1>0, <2>1 DEF FreshInv
  <2>6. CASE ~Running(d, doc[d].link)
    <3>1. exec' = [exec EXCEPT ![d] = Append(exec[d], NewExec)]
      BY <1>4, <2>6 DEF Ensure
    <3>2. /\ ExecKeeps(d) /\ DOMAIN exec[d] \subseteq DOMAIN exec'[d]
          /\ \A c \in Docs : c # d => exec'[c] = exec[c]
          /\ exec'[d][Len(exec[d]) + 1] = NewExec
      BY <3>1, AddKeeps, CloseNone
    <3>3. g = Len(exec[d]) + 1 /\ g # 0
      BY <1>0, <2>2, <2>6
    <3>4. FreshInv(d)' /\ ConsumerInv(d)'
      BY <1>0, <1>1, <1>2, <2>3, <2>4, <2>5, <3>2, <3>3, NewLink
    <3>5. QED
      BY <1>1, <2>1, <2>3, <2>4, <3>2, <3>4, QuietStep DEF SpecialHolding, Holding, TextHolding
  <2>7. CASE Running(d, doc[d].link)
    <3>1. exec' = exec /\ g = doc[d].link /\ g \in DOMAIN exec[d]
      BY <1>4, <2>2, <2>7 DEF Ensure, Running
    <3>2. Phase(d, g) # "committed" /\ g # doc[d].pg
      BY <1>0, <2>5, <2>7, <3>1 DEF FreshInv
    <3>3. Phase(d, g) = "none" \/ g = doc[d].mark
      BY <1>0, <2>7, <3>1 DEF ManifestInv, Running
    <3>4. Late(d)' <=> Late(d)
      BY <1>1, <2>3, <3>1 DEF Late, Mag, Phase, Bound
    <3>5. Late(d) => g # doc[d].mark
      BY <1>0, <2>1, <3>1 DEF ConsumerInv
    <3>6. FreshInv(d)'
      BY <1>0, <2>3, <2>4, <2>5, <3>1, <3>2 DEF FreshInv, Running, Phase
    <3>7. ConsumerInv(d)'
      BY <2>3, <2>4, <3>1, <3>3, <3>4, <3>5 DEF ConsumerInv, Phase, Before, Publishing, Undoing
    <3>8. QED
      BY <1>1, <2>1, <2>3, <2>4, <3>1, <3>6, <3>7, ExecStay, QuietStep
      DEF SpecialHolding, Holding, TextHolding
  <2>8. QED
    BY <2>6, <2>7
<1>5. QED
  BY <1>3, <1>4

\* How a consumer closes its job.
LEMMA EndKeeps ==
  ASSUME BaseInv, ContentInv, NEW d \in Docs, CloseFailed(d) \/ CloseCompleted(d)
  PROVE  ContentInv'
PROOF
<1>0. /\ DocInv(d) /\ FreshInv(d) /\ ConsumerInv(d)
      /\ d \in Actors /\ doc \in [Docs -> Rows] /\ job \in [Actors -> Jobs]
      /\ exec \in [Docs -> Seq(Executions)] /\ DOMAIN exec[d] = 1..Len(exec[d])
      /\ doc[d].mark \in 0..Len(exec[d]) /\ 0 \notin DOMAIN exec[d]
  BY DocTypes DEF ContentInv, DocInv, BaseInv, Types, Rows
<1>1. /\ UNCHANGED <<rev, points, backup, exposed>> /\ job[d].pc \in {"failed", "done"}
      /\ job' = [job EXCEPT ![d] = Free(d)]
  BY DEF CloseFailed, CloseCompleted, stores, At
<1>2. job'[d].pc = "idle" /\ \A b \in Actors : b # d => job'[b] = job[b]
  BY <1>0, <1>1 DEF Free
<1>3. PICK s : Closes(s, d) /\ exec' = [exec EXCEPT ![d] = s]
  <2>1. \/ exec' = exec
        \/ /\ Running(d, job[d].g)
           /\ \E x \in {"completed", "error"} : exec' = [exec EXCEPT ![d][job[d].g].st = x]
    BY DEF CloseFailed, CloseCompleted
  <2>2. CASE exec' = exec
    <3>1. exec' = [exec EXCEPT ![d] = exec[d]]
      BY <1>0, <2>2
    <3>2. QED
      BY <3>1, CloseNone
  <2>3. ASSUME NEW x \in {"completed", "error"}, exec' = [exec EXCEPT ![d][job[d].g].st = x],
               Running(d, job[d].g)
        PROVE  \E s : Closes(s, d) /\ exec' = [exec EXCEPT ![d] = s]
    <3>1. job[d].g \in 1..Len(exec[d])
      BY <1>0, <2>3 DEF Running
    <3>2. Closes([exec[d] EXCEPT ![job[d].g].st = x], d)
      BY <3>1, CloseOne
    <3>3. exec' = [exec EXCEPT ![d] = [exec[d] EXCEPT ![job[d].g].st = x]]
      BY <2>3
    <3>4. QED
      BY <3>2, <3>3
  <2>4. QED
    BY <2>1, <2>2, <2>3
<1>4. /\ ExecKeeps(d) /\ DOMAIN exec'[d] = DOMAIN exec[d]
      /\ \A c \in Docs : c # d => exec'[c] = exec[c]
  BY <1>3, CloseKeeps
<1>5. \/ doc' = doc
      \/ /\ doc' = [doc EXCEPT ![d].st = "waiting"] /\ doc[d].st \in InFlight
         /\ \/ job[d].pc = "failed" /\ job[d].why = "busy"
            \/ ~(rev < 0 /\ doc[d].mark # 0)
      \/ doc' = [doc EXCEPT ![d].st = "error", ![d].link = 0]
  BY DEF CloseFailed, CloseCompleted, At
<1>6. /\ \A c \in Docs : c # d => doc'[c] = doc[c]
      /\ doc'[d].mark = doc[d].mark /\ doc'[d].pg = doc[d].pg
      /\ doc'[d].link \in {doc[d].link, 0}
      /\ doc'[d].link # 0 => doc'[d].st = doc[d].st \/ doc[d].st \in InFlight
      /\ doc'[d].st = "waiting" /\ doc'[d].link # 0 =>
                                \/ doc[d].st = "waiting"
                                \/ job[d].pc = "failed" /\ job[d].why = "busy"
                                \/ ~(rev < 0 /\ doc[d].mark # 0)
  <2>1. CASE doc' = doc
    BY <2>1
  <2>2. CASE /\ doc' = [doc EXCEPT ![d].st = "waiting"] /\ doc[d].st \in InFlight
             /\ \/ job[d].pc = "failed" /\ job[d].why = "busy"
                \/ ~(rev < 0 /\ doc[d].mark # 0)
    BY <1>0, <2>2 DEF Rows
  <2>3. CASE doc' = [doc EXCEPT ![d].st = "error", ![d].link = 0]
    BY <1>0, <2>3 DEF Rows
  <2>4. QED
    BY <1>5, <2>1, <2>2, <2>3
<1>7. \A n \in DOMAIN exec[d] : /\ Phase(d, n)' = Phase(d, n) /\ Bound(d, n)' = Bound(d, n)
                                /\ Running(d, n)' => Running(d, n)
  BY <1>4 DEF ExecKeeps, Running, Phase, Bound
<1>8. doc[d].mark # 0 => doc[d].mark \in DOMAIN exec[d]
  BY <1>0
<1>9. FreshInv(d)'
  <2>1. "completed" \notin InFlight
    BY DEF InFlight
  <2>2. Running(d, doc[d].link)' => /\ doc'[d].link = doc[d].link /\ doc[d].link \in DOMAIN exec[d]
                                    /\ doc'[d].link # 0
    BY <1>0, <1>4, <1>6 DEF Running
  <2>3. QED
    BY <1>0, <1>2, <1>6, <1>7, <1>8, <2>1, <2>2
    DEF FreshInv, Before, Publishing, Undoing, Phase, Running
<1>10. ConsumerInv(d)'
  <2>1. Late(d)' <=> Late(d)
    BY <1>1, <1>6, <1>7, <1>8 DEF Late, Mag, Phase, Bound
  <2>2. Late(d) => rev < 0 /\ doc[d].mark # 0
    BY DEF Late
  <2>3. QED
    BY <1>0, <1>2, <1>6, <2>1, <2>2 DEF ConsumerInv, Before, Publishing, Undoing
<1>11. QED
  BY <1>1, <1>2, <1>4, <1>6, <1>9, <1>10, QuietStep DEF SpecialHolding, Holding, TextHolding

-----------------------------------------------------------------------------
(* Steps behind the lock.                                                  *)

\* What such a step does to the fence, seen from the other documents.
LEMMA FenceAround ==
  ASSUME BaseInv, NEW a \in Actors, NEW d \in Docs, a = d \/ a = Rec,
         job[a].pc \in Locking \/ lock = None,
         \/ rev' = rev /\ exposed \subseteq exposed'
         \/ Lease(a) /\ exposed' = exposed
         \/ OpenFence(d) /\ \A c \in Docs : c # d => doc'[c] = doc[c]
  PROVE  \A c \in Docs : c # d => Around(c)
PROOF
<1> SUFFICES ASSUME NEW c \in Docs, c # d PROVE Around(c)
  OBVIOUS
<1>1. c # a /\ rev \in Int
  BY PublicationAssumption DEF Docs, Rec, BaseInv, Types
<1>2. job[c].pc \notin Holding
  BY <1>1, Alone
<1>3. CASE rev' = rev /\ exposed \subseteq exposed'
  BY <1>3 DEF Around
<1>4. CASE Lease(a) /\ exposed' = exposed
  BY <1>1, <1>2, <1>4 DEF Around, Lease
<1>5. CASE OpenFence(d) /\ doc'[c] = doc[c]
  <2>1. rev < 0 /\ rev' = -rev
    BY <1>5 DEF OpenFence
  <2>2. c \notin exposed' => /\ points[c] = {doc[c].pg}
                             /\ doc[c].mark = 0 \/ exec[c][doc[c].mark].bound = 0
    BY <1>5 DEF OpenFence
  <2>3. QED
    BY <1>2, <2>1, <2>2 DEF Around, Served, Bound
<1>6. QED
  BY <1>3, <1>4, <1>5

\* So only the document and the actor of the step are left to look at.
LEMMA SoloStep ==
  ASSUME BaseInv, ContentInv, rev' \in Int, NEW a \in Actors, NEW d \in Docs, a = d \/ a = Rec,
         job[a].pc \in Locking \/ lock = None,
         \A b \in Actors : b # a => job'[b] = job[b],
         \A c \in Docs : c # d => /\ doc'[c] = doc[c] /\ exec'[c] = exec[c]
                                  /\ points'[c] = points[c] /\ backup'[c] = backup[c],
         \A c \in Docs : c # d => Around(c),
         DocInv(d)', HolderInv(a)'
  PROVE  ContentInv'
PROOF
<1>1. Local(a, d)
  BY DEF Local
<1>2. Undisturbed(a, d)
  BY Alone
<1>3. QED
  BY <1>1, <1>2, LocalStep

\* The revision stays, turns negative and advances, or turns positive.
Turns == \/ rev' = rev
         \/ rev >= 0 /\ rev' = -(rev + 1)
         \/ rev < 0 /\ rev' = -rev

\* Executions and their marker stay.
LEMMA SameManifests ==
  ASSUME BaseInv, NEW d \in Docs, ManifestInv(d), exec'[d] = exec[d],
         doc'[d].mark = doc[d].mark, Turns
  PROVE  ManifestInv(d)'
PROOF
<1>1. rev \in Int /\ Mag \in Nat /\ \A n \in DOMAIN exec[d] : Bound(d, n) \in Nat
  BY DocTypes
<1>2. \/ Mag' = Mag /\ rev' = rev
      \/ Mag' = Mag + 1 /\ rev >= 0 /\ rev' < 0
      \/ Mag' = Mag /\ rev < 0 /\ ~(rev' < 0)
  BY <1>1 DEF Turns, Mag
<1> SUFFICES ASSUME NEW n \in DOMAIN exec[d]
             PROVE  /\ Phase(d, n) # "none" /\ n # doc[d].mark => exec[d][n].st # "running"
                    /\ Phase(d, n) = "none" => Bound(d, n) = 0
                    /\ Bound(d, n) <= Mag'
                    /\ Bound(d, n) = 0 => Phase(d, n) \in {"none", "preparing"}
                    /\ Phase(d, n) \in {"preparing", "prepared", "points_written"} =>
                         n = doc[d].mark
                    /\ rev' < 0 /\ Bound(d, n) = Mag' =>
                         n = doc[d].mark /\ Phase(d, n) \in Unfinished
  BY DEF ManifestInv, Phase, Bound
<1>3. Bound(d, n) \in Nat
  BY <1>1
<1>4. QED
  BY <1>1, <1>2, <1>3 DEF ManifestInv

\* Steps of a text publication: what remains is to show of the points.
LEMMA TextStep ==
  ASSUME BaseInv, BaseInv', ContentInv, NEW d \in TextDocs,
         job[d].pc \in Locking \/ lock = None,
         \A b \in Actors : b # d => job'[b] = job[b],
         job'[d].pc \in TextHolding \union {"committed", "failed", "done"},
         exec' = exec, Turns,
         \A c \in Docs : c # d => /\ doc'[c] = doc[c] /\ points'[c] = points[c]
                                  /\ backup'[c] = backup[c] /\ Around(c),
         \/ doc'[d].link = 0
         \/ /\ doc'[d].link = doc[d].link /\ doc'[d].pg = doc[d].pg
            /\ doc'[d].st = doc[d].st \/ doc[d].st # "completed",
         TextInv(d)'
  PROVE  ContentInv'
PROOF
<1>1. d \in Docs /\ d \notin SpecialDocs /\ d \in Actors
  BY PublicationAssumption DEF Docs, Actors
<1>2. DocInv(d) /\ ManifestInv(d) /\ FreshInv(d) /\ ConsumerInv(d)
  BY <1>1 DEF ContentInv, DocInv
<1>3. doc[d].mark = 0 /\ doc'[d].mark = 0 /\ rev' \in Int
  BY <1>1 DEF BaseInv, Names, Types
<1>4. ManifestInv(d)'
  BY <1>1, <1>2, <1>3, SameManifests
<1>5. job'[d].pc \notin {"claimed"} \union Before \union Publishing \union Undoing
  BY DEF TextHolding, Before, Publishing, Undoing
<1>6. 0 \notin DOMAIN exec[d]
  BY <1>1, DocTypes
<1>7. FreshInv(d)'
  BY <1>2, <1>3, <1>5, <1>6 DEF FreshInv, Running, Phase
<1>8. ConsumerInv(d)'
  <2>1. ~Late(d)'
    BY <1>3 DEF Late
  <2>2. QED
    BY <1>5, <2>1 DEF ConsumerInv
<1>9. HolderInv(d)'
  BY DEF HolderInv, TextHolding, SpecialHolding
<1>10. DocInv(d)'
  BY <1>1, <1>4, <1>7, <1>8 DEF DocInv
<1>11. QED
  BY <1>1, <1>3, <1>9, <1>10, SoloStep

\* The text documents: nobody else's commit is in doubt, so whoever holds the
\* lock holds the fence.
LEMMA TextFacts ==
  ASSUME BaseInv, ContentInv, LossyDocs \cap TextDocs = {}, NEW d \in Docs,
         job[d].pc \in TextHolding
  PROVE  /\ d \in TextDocs /\ rev < 0 /\ ~(rev >= 0) /\ Mag = -rev /\ Mag \in Nat /\ Mag # 0
         /\ job[d].pc \in Locking /\ TextInv(d) /\ rev \in Int
PROOF
<1>1. d \in Actors /\ rev \in Int /\ Mag \in Nat
  BY DocTypes
<1>2. d \in TextDocs
  BY <1>1 DEF BaseInv, JobInv
<1>3. rev < 0
  BY <1>1, <1>2 DEF BaseInv, LockInv, Holding
<1>4. QED
  BY <1>1, <1>2, <1>3 DEF Mag, ContentInv, DocInv, Locking, Holding

\* The lease of a text publication.
LEMMA TextLeaseKeeps ==
  ASSUME BaseInv, BaseInv', ContentInv, NEW d \in Docs, TextLease(d)
  PROVE  ContentInv'
PROOF
<1>0. /\ d \in TextDocs /\ d \in Actors /\ rev \in Int /\ Mag \in Nat /\ TextInv(d)
      /\ backup[d].at \in Nat /\ FreshInv(d) /\ doc \in [Docs -> Rows] /\ Types
  BY DocTypes DEF TextLease, ContentInv, DocInv, Backups, BaseInv, Types, Rows
<1>1. /\ lock = None /\ Lease(d) /\ job[d].pc = "run" /\ UNCHANGED <<exec, points, backup, exposed>>
      /\ doc' = [doc EXCEPT ![d].st = "indexing"]
      /\ job' = [job EXCEPT ![d].pc = "leased", ![d].recovered = rev < 0]
  BY DEF TextLease, Lease, At, stores
<1>2. Step(d, "leased", job[d].why, rev < 0)
  BY <1>0, <1>1, JobForms
<1>3. /\ \A b \in Actors : b # d => job'[b] = job[b]
      /\ job'[d].pc = "leased" /\ job'[d].recovered = (rev < 0)
  BY <1>0, <1>2, StepFrame
<1>4. /\ \A c \in Docs : c # d => doc'[c] = doc[c]
      /\ doc'[d].link = doc[d].link /\ doc'[d].pg = doc[d].pg
  BY <1>0, <1>1 DEF Rows
<1>5. Turns
  BY <1>0, <1>1 DEF Turns, Lease
<1>6. doc[d].st # "completed"
  BY <1>0, <1>1 DEF FreshInv, Before
<1>7. \A c \in Docs : c # d => Around(c)
  BY <1>0, <1>1, FenceAround
<1>8. TextInv(d)'
  <2>1. \/ rev < 0 /\ rev' = rev /\ Mag' = Mag
        \/ ~(rev < 0) /\ rev >= 0 /\ ~(rev' >= 0) /\ Mag' = Mag + 1
    BY <1>0, <1>1 DEF Lease, Mag
  <2>2. backup[d].at <= Mag
    BY <1>0 DEF TextInv
  <2>3. CASE rev < 0 /\ rev' = rev /\ Mag' = Mag
    BY <1>0, <1>1, <1>3, <1>4, <2>3 DEF TextInv, Served
  <2>4. CASE ~(rev < 0) /\ rev >= 0 /\ ~(rev' >= 0) /\ Mag' = Mag + 1
    <3>1. backup[d].at <= Mag' /\ backup[d].at # Mag'
      BY <1>0, <2>2, <2>4
    <3>2. QED
      BY <1>0, <1>1, <1>3, <1>4, <2>4, <3>1 DEF TextInv, Served
  <2>5. QED
    BY <2>1, <2>3, <2>4
<1>9. QED
  BY <1>0, <1>1, <1>3, <1>4, <1>5, <1>6, <1>7, <1>8, TextStep DEF TextHolding

\* Backups, upserts, the restoration and the failures of a text publication.
LEMMA TextWorkKeeps ==
  ASSUME BaseInv, BaseInv', ContentInv, LossyDocs \cap TextDocs = {}, NEW d \in Docs,
         NEW why \in Whys,
         \/ BackupFirst(d) \/ BackupRest(d) \/ BackupReuse(d) \/ BackupRefused(d)
         \/ UpsertSome(d) \/ UpsertRest(d) \/ Restore(d) \/ RestoreFails(d)
         \/ TextFail(d, why) /\ job[d].pc \in TextHolding
  PROVE  ContentInv'
PROOF
<1>0. /\ UNCHANGED <<rev, doc, exec>> /\ job[d].pc \in TextHolding
      /\ \/ exposed' = exposed
         \/ exposed' = exposed \union {d}
  BY DEF BackupFirst, BackupRest, BackupReuse, BackupRefused, UpsertSome, UpsertRest, Restore,
         RestoreFails, TextFail, At, TextHolding
<1>1. /\ d \in TextDocs /\ rev < 0 /\ ~(rev >= 0) /\ Mag = -rev /\ Mag \in Nat /\ Mag # 0
      /\ job[d].pc \in Locking /\ TextInv(d) /\ rev \in Int
  BY <1>0, TextFacts
<1>2. /\ d \in Actors /\ Types /\ backup[d].at \in Nat /\ backup \in [Docs -> Backups]
      /\ points \in [Docs -> SUBSET (Nat \union {Hole})] /\ Mag' = Mag
  BY <1>0, DocTypes DEF BaseInv, Types, Backups, Mag
<1>3. PICK pc, w : /\ pc \in TextHolding \union {"failed"}
                   /\ Step(d, pc, w, job[d].recovered)
  <2>1. \/ \E pc \in TextHolding : Goto(d, pc)
        \/ \E w : Leave(d, w)
        \/ \E pc \in TextHolding : job' = [job EXCEPT ![d].pc = pc, ![d].why = why]
    BY <1>0 DEF BackupFirst, BackupRest, BackupReuse, BackupRefused, UpsertSome, UpsertRest,
           Restore, RestoreFails, TextFail, TextHolding
  <2>2. QED
    BY <1>2, <2>1, JobForms
<1>4. /\ \A b \in Actors : b # d => job'[b] = job[b]
      /\ job'[d].pc = pc /\ job'[d].recovered = job[d].recovered /\ job'[d].g = job[d].g
  BY <1>2, <1>3, StepFrame
<1>5. \A c \in Docs : c # d => points'[c] = points[c] /\ backup'[c] = backup[c]
  BY <1>2 DEF BackupFirst, BackupRest, BackupReuse, BackupRefused, UpsertSome, UpsertRest,
         Restore, RestoreFails, TextFail, stores
<1>6. \A c \in Docs : c # d => Around(c)
  BY <1>0, <1>1, <1>2, FenceAround
<1>7. SUFFICES TextInv(d)'
  BY <1>0, <1>1, <1>2, <1>3, <1>4, <1>5, <1>6, TextStep DEF Turns
<1>8. job[d] \in Jobs /\ job'[d] \in Jobs
  BY <1>2 DEF BaseInv, Types
<1>9. CASE BackupFirst(d)
  <2>1. /\ backup'[d].at = Mag /\ ~backup'[d].full /\ backup'[d].gens = points[d]
        /\ points' = points /\ exposed' = exposed /\ job[d].pc = "leased" /\ ~Reuses(d)
    BY <1>2, <1>9 DEF BackupFirst, At
  <2>2. job'[d].pc = "backing"
    BY <1>2, <1>8, <1>9 DEF BackupFirst, Goto, Jobs, Types
  <2>3. d \notin exposed => points[d] = Served(d)
    BY <1>1, <2>1 DEF Reuses, TextInv
  <2>4. QED
    BY <1>0, <1>1, <1>2, <2>1, <2>2, <2>3 DEF TextInv, Served
<1>10. CASE BackupRest(d)
  <2>1. /\ backup'[d].at = backup[d].at /\ backup'[d].full /\ backup'[d].gens = backup[d].gens
        /\ points' = points /\ exposed' = exposed /\ job[d].pc = "backing"
    BY <1>2, <1>10 DEF BackupRest, At, Backups
  <2>2. job'[d].pc = "backed"
    BY <1>2, <1>8, <1>10 DEF BackupRest, Goto, Jobs, Types
  <2>3. d \notin exposed => backup[d].gens = Served(d) /\ points[d] = Served(d)
    BY <1>1, <2>1 DEF TextInv
  <2>4. backup[d].at # 0
    BY <1>1, <2>1 DEF TextInv
  <2>5. QED
    BY <1>0, <1>1, <1>2, <2>1, <2>2, <2>3, <2>4 DEF TextInv, Served
<1>11. CASE BackupReuse(d)
  <2>1. /\ backup' = backup /\ points' = points /\ job[d].pc = "leased" /\ backup[d].at # 0
        /\ ~(backup[d].at < Mag)
        /\ exposed' = IF backup[d].full THEN exposed ELSE exposed \union {d}
    BY <1>11 DEF BackupReuse, At, Reuses, Foreign, stores
  <2>2. job'[d].pc = "backed"
    BY <1>2, <1>8, <1>11 DEF BackupReuse, Goto, Jobs, Types
  <2>3. backup[d].at <= Mag
    BY <1>1 DEF TextInv
  <2>4. backup[d].at = Mag
    BY <1>1, <1>2, <2>1, <2>3
  <2>5. d \notin exposed' => d \notin exposed /\ backup[d].full
    BY <2>1
  <2>6. QED
    BY <1>0, <1>1, <1>2, <2>1, <2>2, <2>4, <2>5 DEF TextInv, Served
<1>12. CASE BackupRefused(d) \/ RestoreFails(d)
  <2>1. backup' = backup /\ points' = points /\ exposed' = exposed
    BY <1>12 DEF BackupRefused, RestoreFails, stores
  <2>2. job'[d].pc = "failed"
    BY <1>2, <1>8, <1>12 DEF BackupRefused, RestoreFails, Leave, Jobs, Types
  <2>3. QED
    BY <1>0, <1>1, <1>2, <2>1, <2>2 DEF TextInv, Served
<1>13. CASE UpsertSome(d) \/ UpsertRest(d)
  <2>1. backup' = backup /\ exposed' = exposed /\ job[d].pc \in {"backed", "half"}
    BY <1>13 DEF UpsertSome, UpsertRest, At
  <2>2. \/ job'[d].pc = "half"
        \/ job'[d].pc = "written" /\ points'[d] = {job[d].g}
    BY <1>2, <1>8, <1>13 DEF UpsertSome, UpsertRest, Goto, Jobs, Types
  <2>3. QED
    BY <1>0, <1>1, <1>2, <1>4, <2>1, <2>2 DEF TextInv, Served
<1>14. CASE Restore(d)
  <2>1. /\ backup' = backup /\ exposed' = exposed /\ job[d].pc = "restore"
        /\ points' = [points EXCEPT ![d] = IF backup[d].full THEN backup[d].gens ELSE {Hole}]
    BY <1>14 DEF Restore, At
  <2>2. job'[d].pc = "abort"
    BY <1>2, <1>8, <1>14 DEF Restore, Goto, Jobs, Types
  <2>3. d \notin exposed => backup[d].full /\ backup[d].gens = Served(d)
    BY <1>1, <2>1 DEF TextInv
  <2>4. d \notin exposed => points'[d] = Served(d)
    BY <1>2, <2>1, <2>3
  <2>5. QED
    BY <1>0, <1>1, <1>2, <2>1, <2>2, <2>3, <2>4 DEF TextInv, Served
<1>15. CASE TextFail(d, why) /\ job[d].pc \in TextHolding
  <2>1. backup' = backup /\ points' = points /\ exposed' = exposed
    BY <1>15 DEF TextFail, stores
  <2>2. \/ job'[d].pc = "failed"
        \/ /\ job'[d].pc = "abort"
           /\ \/ job[d].pc = "leased" /\ ~job[d].recovered
              \/ job[d].pc = "backing"
        \/ job'[d].pc = "restore" /\ job[d].pc \in {"backed", "half", "written"}
    BY <1>2, <1>8, <1>15 DEF TextFail, Leave, At, TextHolding, Jobs, Types
  <2>3. QED
    BY <1>0, <1>1, <1>2, <2>1, <2>2 DEF TextInv, Served
<1>16. QED
  BY <1>9, <1>10, <1>11, <1>12, <1>13, <1>14, <1>15

\* What opening the fence says of the document that opens it.
LEMMA OpenedDoc ==
  ASSUME BaseInv, NEW d \in Docs, OpenFence(d)
  PROVE  d \notin exposed' => d \notin exposed \/ points[d] = {doc'[d].pg}
  BY DEF OpenFence

\* The commit of a text publication, its cleanup and its abort.
LEMMA TextEndKeeps ==
  ASSUME BaseInv, BaseInv', ContentInv, LossyDocs \cap TextDocs = {}, NEW d \in Docs,
         TextCommit(d) \/ TextAbort(d)
  PROVE  ContentInv'
PROOF
<1>0. job[d].pc \in TextHolding /\ UNCHANGED <<exec, points>>
  BY DEF TextCommit, TextCommitted, TextAbort, At, TextHolding, stores
<1>1. /\ d \in TextDocs /\ rev < 0 /\ ~(rev >= 0) /\ Mag = -rev /\ Mag \in Nat /\ Mag # 0
      /\ job[d].pc \in Locking /\ TextInv(d) /\ rev \in Int
  BY <1>0, TextFacts
<1>2. /\ d \in Actors /\ Types /\ backup[d].at \in Nat /\ backup \in [Docs -> Backups]
      /\ doc \in [Docs -> Rows] /\ job[d] \in Jobs
  BY DocTypes DEF BaseInv, Types, Backups, Rows
<1>3. OpenFence(d)
  BY <1>1 DEF TextCommit, TextCommitted, TextAbort
<1>4. rev' = -rev /\ Mag' = Mag /\ rev' >= 0 /\ ~(rev' < 0) /\ Turns
  BY <1>1, <1>3 DEF OpenFence, Mag, Turns
<1>5. d \notin exposed' => d \notin exposed \/ points[d] = {doc'[d].pg}
  BY <1>3, OpenedDoc
<1>6. CASE TextCommit(d)
  <2>1. /\ doc' = [doc EXCEPT ![d].st = "completed", ![d].link = 0, ![d].pg = job[d].g]
        /\ backup' = backup /\ job[d].pc = "written"
    BY <1>6 DEF TextCommit, TextCommitted, At, stores
  <2>2. /\ \A c \in Docs : c # d => doc'[c] = doc[c]
        /\ doc'[d].link = 0 /\ doc'[d].pg = job[d].g
    BY <1>2, <2>1 DEF Rows
  <2>3. Step(d, "committed", job[d].why, job[d].recovered)
    BY <1>2, <1>6, JobForms DEF TextCommit
  <2>4. job'[d].pc = "committed" /\ \A b \in Actors : b # d => job'[b] = job[b]
    BY <1>2, <2>3, StepFrame
  <2>5. d \notin exposed => points[d] = {job[d].g}
    BY <1>1, <2>1 DEF TextInv
  <2>6. d \notin exposed' => points[d] = {doc'[d].pg}
    BY <1>5, <2>2, <2>5
  <2>7. TextInv(d)'
    BY <1>0, <1>1, <1>4, <2>1, <2>4, <2>6 DEF TextInv, Served
  <2>8. \A c \in Docs : c # d => Around(c)
    BY <1>1, <1>2, <1>3, <2>2, FenceAround
  <2>9. QED
    BY <1>0, <1>1, <1>4, <2>1, <2>2, <2>4, <2>7, <2>8, TextStep
<1>7. CASE TextAbort(d)
  <2>1. doc' = doc /\ DropBackup(d) /\ job[d].pc = "abort"
    BY <1>1, <1>7 DEF TextAbort, At
  <2>2. /\ \A c \in Docs : c # d => backup'[c] = backup[c]
        /\ \/ backup'[d] = backup[d]
           \/ backup'[d] = NoBackup
    BY <1>2, <2>1 DEF DropBackup
  <2>3. Step(d, "failed", job[d].why, job[d].recovered)
    BY <1>2, <1>7, JobForms DEF TextAbort
  <2>4. job'[d].pc = "failed" /\ \A b \in Actors : b # d => job'[b] = job[b]
    BY <1>2, <2>3, StepFrame
  <2>5. d \notin exposed => points[d] = Served(d)
    BY <1>1, <2>1 DEF TextInv
  <2>6. d \notin exposed' => points[d] = {doc'[d].pg}
    BY <1>5, <2>1, <2>5 DEF Served
  <2>7. backup'[d].at <= Mag /\ (backup'[d].at = 0 => ~backup'[d].full)
    BY <1>1, <1>2, <2>2 DEF TextInv, NoBackup
  <2>8. TextInv(d)'
    BY <1>0, <1>4, <2>4, <2>6, <2>7 DEF TextInv, Served
  <2>9. \A c \in Docs : c # d => Around(c)
    BY <1>1, <1>2, <1>3, <2>1, FenceAround
  <2>10. QED
    BY <1>0, <1>1, <1>4, <2>1, <2>2, <2>4, <2>8, <2>9, TextStep
<1>8. QED
  BY <1>6, <1>7

\* The backups go, or are left, after the commit.
LEMMA TextCleanupKeeps ==
  ASSUME BaseInv, BaseInv', ContentInv, NEW d \in Docs,
         TextCleanup(d) \/ CleanupCancelled(d)
  PROVE  ContentInv'
PROOF
<1>1. /\ job[d].pc = "committed"
      /\ DropBackup(d) \/ UNCHANGED backup
      /\ Goto(d, "done") \/ Leave(d, "cancel")
      /\ UNCHANGED <<rev, doc, exec, points, exposed>>
  BY DEF TextCleanup, CleanupCancelled, At, stores
<1>2. /\ d \in Actors /\ Types /\ backup[d].at \in Nat /\ backup \in [Docs -> Backups]
      /\ rev \in Int /\ Mag \in Nat /\ Mag' = Mag
  BY <1>1, DocTypes DEF BaseInv, Types, Backups, Mag
<1>3. d \in TextDocs /\ rev >= 0 /\ ~(rev < 0) /\ job[d].pc \in Locking
  BY <1>1, <1>2 DEF BaseInv, JobInv, LockInv, Locking
<1>4. TextInv(d)
  BY <1>3 DEF ContentInv, DocInv
<1>5. /\ \A c \in Docs : c # d => backup'[c] = backup[c]
      /\ \/ backup'[d] = backup[d]
         \/ backup'[d] = NoBackup
  BY <1>1, <1>2 DEF DropBackup
<1>6. /\ job'[d].pc \in {"done", "failed"}
      /\ \A b \in Actors : b # d => job'[b] = job[b]
  <2>1. CASE Goto(d, "done")
    BY <1>2, <2>1, JobForms, StepFrame
  <2>2. CASE Leave(d, "cancel")
    BY <1>2, <2>2, JobForms, StepFrame
  <2>3. QED
    BY <1>1, <2>1, <2>2
<1>7. job'[d].pc \in TextHolding \union {"committed", "failed", "done"}
  BY <1>6
<1>8. backup'[d].at <= Mag /\ (backup'[d].at = 0 => ~backup'[d].full)
  BY <1>2, <1>4, <1>5 DEF TextInv, NoBackup
<1>9. d \notin exposed => points[d] = Served(d)
  BY <1>3, <1>4 DEF TextInv
<1>10. TextInv(d)'
  BY <1>1, <1>2, <1>3, <1>6, <1>8, <1>9 DEF TextInv, Served
<1>11. \A c \in Docs : c # d => Around(c)
  BY <1>1, <1>2, <1>3, FenceAround
<1>12. QED
  BY <1>1, <1>3, <1>5, <1>6, <1>7, <1>10, <1>11, TextStep DEF Turns

-----------------------------------------------------------------------------
(* Special publications.                                                   *)

\* What the holder of one knows.
LEMMA HolderFacts ==
  ASSUME BaseInv, ContentInv, NEW a \in Actors, job[a].pc \in SpecialHolding,
         NEW d, d = job[a].d, NEW n, n = job[a].g
  PROVE  /\ d \in Docs /\ d \in SpecialDocs /\ d \notin TextDocs /\ (a = d \/ a = Rec)
         /\ n \in DOMAIN exec[d] /\ n \in 1..Len(exec[d]) /\ n \in Nat /\ n # 0
         /\ exec[d][n] \in Executions
         /\ n = doc[d].mark /\ Bound(d, n) = Mag
         /\ rev \in Int /\ rev < 0 /\ ~(rev >= 0) /\ Mag \in Nat /\ Mag # 0
         /\ job[a].pc \in Locking /\ job[a] \in Jobs /\ HolderInv(a)
         /\ DocInv(d) /\ ManifestInv(d) /\ FreshInv(d) /\ ConsumerInv(d) /\ SpecialInv(d)
         /\ (d \notin exposed => Manifest(d, n))
PROOF
<1>1. /\ d \in Docs /\ d \in SpecialDocs /\ d \notin TextDocs /\ rev < 0 /\ job[a] \in Jobs
      /\ n \in 1..Len(exec[d])
  BY TargetFacts DEF Target
<1>2. rev \in Int /\ Mag \in Nat /\ DOMAIN exec[d] = 1..Len(exec[d]) /\ Len(exec[d]) \in Nat
      /\ exec[d][n] \in Executions
  BY <1>1, DocTypes
<1>3. HolderInv(a) /\ n = doc[d].mark /\ Bound(d, n) = Mag
  BY DEF ContentInv, HolderInv
<1>4. a = d \/ a = Rec
  BY DEF BaseInv, JobInv, Actors
<1>5. Mag # 0 /\ ~(rev >= 0)
  BY <1>1, <1>2 DEF Mag
<1>6. DocInv(d) /\ ManifestInv(d) /\ FreshInv(d) /\ ConsumerInv(d) /\ SpecialInv(d)
  BY <1>1 DEF ContentInv, DocInv
<1>7. n # 0 /\ n \in Nat
  BY <1>1, <1>2
<1>8. d \notin exposed => Manifest(d, n)
  BY <1>3, <1>5, <1>6, <1>7 DEF SpecialInv
<1>9. job[a].pc \in Locking
  BY DEF Locking, Holding
<1>10. QED
  BY <1>1, <1>2, <1>3, <1>4, <1>5, <1>6, <1>7, <1>8, <1>9

\* The executions of a document but for n stay.
OneEdit(d, n) ==
  /\ DOMAIN exec'[d] = DOMAIN exec[d]
  /\ \A m \in DOMAIN exec[d] : m # n => exec'[d][m] = exec[d][m]
  /\ \A c \in Docs : c # d => exec'[c] = exec[c]

\* Editing one.
LEMMA EditFrame ==
  ASSUME BaseInv, NEW d \in Docs, NEW n, NEW e, Edit(d, n, e)
  PROVE  OneEdit(d, n) /\ exec'[d][n] = e
PROOF
<1>1. Types /\ DOMAIN exec[d] = 1..Len(exec[d])
  BY DocTypes DEF BaseInv
<1>2. n \in 1..Len(exec[d]) /\ e \in Executions /\ exec' = [exec EXCEPT ![d][n] = e]
  BY DEF Edit
<1>3. QED
  BY <1>1, <1>2, ExecEdit DEF OneEdit

\* The marked manifest moves on behind the fence it is bound to.
LEMMA MarkedEdit ==
  ASSUME BaseInv, NEW d \in Docs, NEW n \in DOMAIN exec[d], ManifestInv(d), OneEdit(d, n),
         doc[d].mark = n, doc'[d].mark = n,
         exec'[d][n].phase \in Unfinished, exec'[d][n].bound = Mag',
         Turns, rev' < 0
  PROVE  ManifestInv(d)'
PROOF
<1>1. /\ rev \in Int /\ Mag \in Nat /\ \A m \in DOMAIN exec[d] : Bound(d, m) \in Nat
  BY DocTypes
<1>2. \/ Mag' = Mag /\ rev' = rev
      \/ Mag' = Mag + 1 /\ rev >= 0
  BY <1>1 DEF Turns, Mag
<1>3. Mag' \in Nat /\ Mag' # 0
  BY <1>1, <1>2 DEF Mag, Turns
<1> SUFFICES ASSUME NEW m \in DOMAIN exec[d]
             PROVE  /\ exec'[d][m].phase # "none" /\ m # n => exec'[d][m].st # "running"
                    /\ exec'[d][m].phase = "none" => exec'[d][m].bound = 0
                    /\ exec'[d][m].bound <= Mag'
                    /\ exec'[d][m].bound = 0 => exec'[d][m].phase \in {"none", "preparing"}
                    /\ exec'[d][m].phase \in {"preparing", "prepared", "points_written"} =>
                         m = n
                    /\ rev' < 0 /\ exec'[d][m].bound = Mag' =>
                         m = n /\ exec'[d][m].phase \in Unfinished
  BY DEF ManifestInv, Phase, Bound, OneEdit
<1>4. CASE m = n
  <2>1. "none" \notin Unfinished
    BY DEF Unfinished
  <2>2. QED
    BY <1>3, <1>4, <2>1
<1>5. CASE m # n
  <2>1. exec'[d][m] = exec[d][m] /\ Bound(d, m) \in Nat
    BY <1>1, <1>5 DEF OneEdit
  <2>2. QED
    BY <1>1, <1>2, <1>5, <2>1 DEF ManifestInv, Phase, Bound
<1>6. QED
  BY <1>4, <1>5

\* A publication moves on: the old points are frozen, the candidate is written.
LEMMA PublishKeeps ==
  ASSUME BaseInv, BaseInv', ContentInv, NEW d \in Docs,
         Freeze(d) \/ UpsertCandidate(d) \/ PointsWritten(d)
  PROVE  ContentInv'
PROOF
<1> DEFINE n == job[d].g
<1>1. /\ job[d].pc \in {"freezing", "prepared", "upserted"} /\ UNCHANGED <<rev, doc, backup, exposed>>
      /\ Mag' = Mag
  BY DEF Freeze, UpsertCandidate, PointsWritten, At, stores, Mag
<1>2. job[d].pc \in SpecialHolding /\ d \in Actors /\ job[d].d = d /\ Types
  BY <1>1, DocTypes DEF SpecialHolding, BaseInv
<1>3. /\ d \in SpecialDocs /\ d \notin TextDocs
      /\ n \in DOMAIN exec[d] /\ n \in 1..Len(exec[d]) /\ n \in Nat /\ n # 0
      /\ exec[d][n] \in Executions
      /\ n = doc[d].mark /\ Bound(d, n) = Mag
      /\ rev \in Int /\ rev < 0 /\ ~(rev >= 0) /\ Mag \in Nat /\ Mag # 0
      /\ job[d].pc \in Locking /\ job[d] \in Jobs /\ HolderInv(d)
      /\ ManifestInv(d) /\ FreshInv(d) /\ ConsumerInv(d) /\ SpecialInv(d)
      /\ (d \notin exposed => Manifest(d, n))
  BY <1>2, HolderFacts
<1> HIDE DEF n
<1>4. /\ points \in [Docs -> SUBSET (Nat \union {Hole})] /\ points[d] \in SUBSET (Nat \union {Hole})
  BY DEF BaseInv, Types
<1>5. /\ doc[d].st = "indexing" /\ doc[d].link \in {n, 0} /\ n # doc[d].pg
      /\ Phase(d, n) \in {"preparing", "prepared"} /\ Phase(d, n) # "committed"
      /\ (job[d].pc = "freezing" => Phase(d, n) = "preparing")
      /\ (job[d].pc # "freezing" => Phase(d, n) = "prepared")
      /\ (job[d].pc = "upserted" => n \in points[d])
  <2>1. /\ (job[d].pc = "freezing" => Phase(d, n) = "preparing")
        /\ (job[d].pc # "freezing" => Phase(d, n) = "prepared")
        /\ (job[d].pc = "upserted" => n \in points[d])
    BY <1>1, <1>2, <1>3 DEF HolderInv, n
  <2>2. doc[d].st = "indexing" /\ doc[d].link \in {n, 0}
    BY <1>1, <1>3 DEF ConsumerInv, Publishing, n
  <2>3. QED
    BY <1>1, <1>3, <2>1, <2>2 DEF FreshInv
<1>6. PICK pc \in {"prepared", "upserted", "rows"} :
        /\ Step(d, pc, job[d].why, job[d].recovered)
        /\ \/ pc = "prepared" /\ Freeze(d)
           \/ pc = "upserted" /\ UpsertCandidate(d)
           \/ pc = "rows" /\ PointsWritten(d)
  BY <1>2, JobForms DEF Freeze, UpsertCandidate, PointsWritten
<1>7. /\ \A b \in Actors : b # d => job'[b] = job[b]
      /\ job'[d].pc = pc /\ job'[d].g = n /\ job'[d].d = d /\ job'[d].why = job[d].why
  BY <1>2, <1>6, StepFrame DEF n
<1>8. /\ OneEdit(d, n) /\ exec'[d][n].bound = Mag /\ exec'[d][n].st = exec[d][n].st
      /\ \/ /\ pc = "prepared" /\ exec'[d][n].phase = "prepared" /\ exec'[d][n].old = points[d]
            /\ points' = points /\ Phase(d, n) = "preparing"
         \/ /\ pc = "upserted" /\ exec'[d][n].phase = "prepared"
            /\ exec'[d][n].old = exec[d][n].old /\ Phase(d, n) = "prepared"
            /\ points' = [points EXCEPT ![d] = points[d] \union {n}]
         \/ /\ pc = "rows" /\ exec'[d][n].phase = "points_written"
            /\ exec'[d][n].old = exec[d][n].old /\ Phase(d, n) = "prepared" /\ points' = points
            /\ n \in points[d]
  <2>1. CASE Freeze(d) /\ pc = "prepared"
    <3> DEFINE e == [exec[d][n] EXCEPT !.phase = "prepared", !.old = points[d]]
    <3>1. exec' = [exec EXCEPT ![d][n] = e] /\ points' = points /\ job[d].pc = "freezing"
      BY <2>1 DEF Freeze, stores, At, n
    <3>2. e \in Executions
      BY <1>3, <1>4, Fields DEF Unfinished
    <3>3. e.phase = "prepared" /\ e.old = points[d] /\ e.st = exec[d][n].st
          /\ e.bound = exec[d][n].bound
      BY <1>3 DEF Executions
    <3> HIDE DEF e
    <3>4. OneEdit(d, n) /\ exec'[d][n] = e
      BY <1>3, <3>1, <3>2, EditFrame DEF Edit
    <3>5. QED
      BY <1>3, <1>5, <2>1, <3>1, <3>3, <3>4 DEF Bound
  <2>2. CASE UpsertCandidate(d) /\ pc = "upserted"
    <3>1. /\ exec' = exec /\ points' = [points EXCEPT ![d] = points[d] \union {n}]
          /\ job[d].pc = "prepared"
      BY <2>2 DEF UpsertCandidate, At, n
    <3>2. QED
      BY <1>3, <1>5, <2>2, <3>1 DEF OneEdit, Bound, Phase
  <2>3. CASE PointsWritten(d) /\ pc = "rows"
    <3> DEFINE e == [exec[d][n] EXCEPT !.phase = "points_written"]
    <3>1. exec' = [exec EXCEPT ![d][n].phase = "points_written"] /\ points' = points
          /\ job[d].pc = "upserted"
      BY <2>3 DEF PointsWritten, stores, At, n
    <3>2. Edit(d, n, e)
      BY <1>3, <3>1, EditForms DEF Unfinished
    <3>3. e.phase = "points_written" /\ e.old = exec[d][n].old /\ e.st = exec[d][n].st
          /\ e.bound = exec[d][n].bound
      BY <1>3 DEF Executions
    <3> HIDE DEF e
    <3>4. OneEdit(d, n) /\ exec'[d][n] = e
      BY <3>2, EditFrame
    <3>5. QED
      BY <1>3, <1>5, <2>3, <3>1, <3>3, <3>4 DEF Bound
  <2>4. QED
    BY <1>6, <2>1, <2>2, <2>3
<1>9. exec'[d][n].phase \in {"prepared", "points_written"} /\ points[d] \subseteq points'[d]
      /\ points'[d] \subseteq points[d] \union {n}
      /\ \A c \in Docs : c # d => points'[c] = points[c]
  BY <1>4, <1>8
<1>10. ManifestInv(d)'
  <2>1. exec'[d][n].phase \in Unfinished
    BY <1>9 DEF Unfinished
  <2>2. QED
    BY <1>1, <1>3, <1>8, <2>1, MarkedEdit DEF Turns
<1>11. FreshInv(d)'
  <2>1. \A m \in DOMAIN exec[d] : Running(d, m)' <=> Running(d, m)
    BY <1>3, <1>8 DEF OneEdit, Running
  <2>2. Running(d, doc[d].link)' => doc[d].link = n
    BY <1>1, <1>3, <1>5, <1>8, DocTypes DEF Running, OneEdit
  <2>3. QED
    BY <1>1, <1>3, <1>5, <1>7, <1>9, <2>2 DEF FreshInv, Phase, Before, Publishing, Undoing
<1>12. ConsumerInv(d)'
  BY <1>1, <1>5, <1>7 DEF ConsumerInv, Before, Publishing, Undoing
<1>13. SpecialInv(d)'
  <2> SUFFICES ASSUME d \notin exposed PROVE SpecialInv(d)'
    BY <1>1 DEF SpecialInv
  <2>1. Manifest(d, n)
    BY <1>3
  <2>2. exec'[d][n].old = Served(d) /\ Served(d) \subseteq points'[d]
        /\ points'[d] \subseteq Served(d) \union {n}
    BY <1>8, <1>9, <2>1 DEF Manifest
  <2>3. Manifest(d, doc[d].mark)'
    BY <1>1, <1>3, <1>9, <2>2 DEF Manifest, Phase, Served, Unfinished
  <2>4. QED
    BY <1>1, <1>3, <1>8, <2>3 DEF SpecialInv, Bound
<1>14. HolderInv(d)'
  <2>1. /\ pc \in {"prepared", "upserted"} => exec'[d][n].phase = "prepared"
        /\ pc = "rows" => exec'[d][n].phase = "points_written"
        /\ pc \in {"upserted", "rows"} => n \in points'[d]
    BY <1>4, <1>8
  <2>2. QED
    BY <1>1, <1>3, <1>7, <1>8, <2>1 DEF HolderInv, Phase, Bound, Undoing
<1>15. \A c \in Docs : c # d => Around(c)
  BY <1>1, <1>2, <1>3, FenceAround
<1>16. DocInv(d)'
  BY <1>3, <1>10, <1>11, <1>12, <1>13 DEF DocInv
<1>17. QED
  BY <1>1, <1>2, <1>3, <1>7, <1>8, <1>9, <1>14, <1>15, <1>16, SoloStep DEF OneEdit

\* The commit of a special publication, whether its answer arrives or not.
LEMMA CommitKeeps ==
  ASSUME BaseInv, BaseInv', ContentInv, LossyDocs \cap TextDocs = {}, NEW d \in Docs,
         NEW why \in Whys, SpecialCommit(d) \/ CommitLost(d, why)
  PROVE  ContentInv'
PROOF
<1> DEFINE n == job[d].g
<1>1. SpecialCommitted(d) /\ UNCHANGED <<rev, points, backup, exposed>> /\ Mag' = Mag
  BY DEF SpecialCommit, CommitLost, stores, Mag
<1>2. job[d].pc = "rows" /\ job[d].pc \in SpecialHolding /\ d \in Actors /\ job[d].d = d /\ Types
      /\ doc \in [Docs -> Rows]
  BY <1>1, DocTypes DEF SpecialCommitted, At, SpecialHolding, BaseInv, Types, Rows
<1>3. /\ d \in SpecialDocs /\ d \notin TextDocs
      /\ n \in DOMAIN exec[d] /\ n \in 1..Len(exec[d]) /\ n \in Nat /\ n # 0
      /\ exec[d][n] \in Executions
      /\ n = doc[d].mark /\ Bound(d, n) = Mag
      /\ rev \in Int /\ rev < 0 /\ ~(rev >= 0) /\ Mag \in Nat /\ Mag # 0
      /\ job[d].pc \in Locking /\ job[d] \in Jobs /\ HolderInv(d)
      /\ ManifestInv(d) /\ FreshInv(d) /\ ConsumerInv(d) /\ SpecialInv(d)
      /\ (d \notin exposed => Manifest(d, n))
  BY <1>2, HolderFacts
<1> HIDE DEF n
<1>4. doc[d].link \in {n, 0} /\ Phase(d, n) = "points_written" /\ n \in points[d]
      /\ n # doc[d].pg
  <2>1. Phase(d, n) = "points_written" /\ n \in points[d]
    BY <1>2, <1>3 DEF HolderInv, n
  <2>2. doc[d].link \in {n, 0}
    BY <1>2, <1>3 DEF ConsumerInv, Publishing, n
  <2>3. QED
    BY <1>3, <2>1, <2>2 DEF FreshInv
<1>5. /\ \A c \in Docs : c # d => doc'[c] = doc[c]
      /\ doc'[d].st = "completed" /\ doc'[d].link = doc[d].link /\ doc'[d].mark = n
      /\ doc'[d].pg = n
  BY <1>1, <1>2, <1>3 DEF SpecialCommitted, Rows, n
<1>6. PICK pc \in {"finish", "failed"}, w \in Whys \union {job[d].why} :
        /\ Step(d, pc, w, job[d].recovered)
        /\ pc = "failed" => w \in Whys
  <2>1. CASE SpecialCommit(d)
    <3>1. Step(d, "finish", job[d].why, job[d].recovered)
      BY <1>2, <2>1, JobForms DEF SpecialCommit
    <3>2. QED
      BY <3>1
  <2>2. CASE CommitLost(d, why)
    <3>1. job' = [job EXCEPT ![d].why = why, ![d].pc = "failed"]
      BY <1>3, <2>2 DEF CommitLost
    <3>2. Step(d, "failed", why, job[d].recovered)
      BY <1>2, <3>1, JobForms
    <3>3. QED
      BY <3>2
  <2>3. QED
    BY <2>1, <2>2
<1>7. /\ \A b \in Actors : b # d => job'[b] = job[b]
      /\ job'[d].pc = pc /\ job'[d].g = n /\ job'[d].d = d /\ job'[d].why = w
  BY <1>2, <1>6, StepFrame DEF n
<1>8. OneEdit(d, n) /\ exec'[d][n].phase = "committed" /\ exec'[d][n].bound = Mag
      /\ exec'[d][n].old = exec[d][n].old
  <2> DEFINE e == [exec[d][n] EXCEPT !.phase = "committed"]
  <2>1. exec' = [exec EXCEPT ![d][n].phase = "committed"]
    BY <1>1 DEF SpecialCommitted, n
  <2>2. Edit(d, n, e)
    BY <1>3, <2>1, EditForms DEF Unfinished
  <2>3. e.phase = "committed" /\ e.old = exec[d][n].old /\ e.bound = exec[d][n].bound
    BY <1>3 DEF Executions
  <2> HIDE DEF e
  <2>4. OneEdit(d, n) /\ exec'[d][n] = e
    BY <2>2, EditFrame
  <2>5. QED
    BY <1>3, <2>3, <2>4 DEF Bound
<1>9. ManifestInv(d)'
  <2>1. exec'[d][n].phase \in Unfinished
    BY <1>8 DEF Unfinished
  <2>2. QED
    BY <1>1, <1>3, <1>5, <1>8, <2>1, MarkedEdit DEF Turns
<1>10. FreshInv(d)'
  <2>1. Running(d, doc[d].link)' => doc[d].link = n
    <3>1. 0 \notin DOMAIN exec'[d]
      BY <1>8, DocTypes DEF OneEdit
    <3>2. QED
      BY <1>4, <1>5, <3>1 DEF Running
  <2>2. QED
    BY <1>5, <1>7, <1>8, <2>1 DEF FreshInv, Phase, Before, Publishing, Undoing
<1>11. ConsumerInv(d)'
  <2>1. ~(pc = "failed" /\ w = "busy")
    BY <1>6 DEF Whys
  <2>2. QED
    BY <1>5, <1>7, <2>1 DEF ConsumerInv, Before, Publishing, Undoing
<1>12. SpecialInv(d)'
  <2> SUFFICES ASSUME d \notin exposed PROVE SpecialInv(d)'
    BY <1>1 DEF SpecialInv
  <2>1. exec[d][n].old = Served(d) /\ points[d] \subseteq Served(d) \union {n}
    BY <1>3, <1>4 DEF Manifest
  <2>2. n \notin exec[d][n].old
    BY <1>4, <2>1 DEF Served
  <2>3. Manifest(d, doc[d].mark)'
    BY <1>1, <1>4, <1>5, <1>8, <2>1, <2>2 DEF Manifest, Phase, Unfinished
  <2>4. QED
    BY <1>1, <1>3, <1>5, <1>8, <2>3 DEF SpecialInv, Bound
<1>13. HolderInv(d)'
  BY <1>1, <1>5, <1>7, <1>8 DEF HolderInv, Phase, Bound, Undoing, SpecialHolding
<1>14. \A c \in Docs : c # d => Around(c)
  BY <1>1, <1>2, <1>3, FenceAround
<1>15. DocInv(d)'
  BY <1>3, <1>9, <1>10, <1>11, <1>12 DEF DocInv
<1>16. QED
  BY <1>1, <1>2, <1>3, <1>5, <1>7, <1>8, <1>13, <1>14, <1>15, SoloStep DEF OneEdit

\* A special publication fails behind the fence.
LEMMA SpecialFailKeeps ==
  ASSUME BaseInv, BaseInv', ContentInv, NEW d \in Docs, NEW why \in Whys,
         \/ SpecialFail(d, why) /\ job[d].pc \in SpecialHolding
         \/ PrepareFails(d) /\ job[d].pc = "freezing"
  PROVE  ContentInv'
PROOF
<1> DEFINE n == job[d].g
<1>1. UNCHANGED <<rev, doc, exec, points, backup, exposed>> /\ Mag' = Mag
  BY DEF SpecialFail, PrepareFails, stores, Mag
<1>2. job[d].pc \in SpecialHolding /\ d \in Actors /\ job[d].d = d /\ Types
  BY DocTypes DEF SpecialHolding, BaseInv
<1>3. /\ d \in SpecialDocs /\ d \notin TextDocs
      /\ n \in DOMAIN exec[d] /\ n = doc[d].mark /\ n # 0 /\ Bound(d, n) = Mag
      /\ rev \in Int /\ rev < 0 /\ ~(rev >= 0) /\ Mag \in Nat /\ Mag # 0
      /\ job[d].pc \in Locking /\ job[d] \in Jobs /\ HolderInv(d)
      /\ ManifestInv(d) /\ FreshInv(d) /\ ConsumerInv(d) /\ SpecialInv(d)
  BY <1>2, HolderFacts
<1> HIDE DEF n
<1>4. PICK pc \in {"undo", "aborting", "failed"}, w \in Whys :
        /\ Step(d, pc, w, job[d].recovered)
        /\ pc = "undo" => job[d].pc \in Publishing
        /\ pc = "aborting" => job[d].pc \in {"freezing"} \union Undoing /\ Phase(d, n) = "preparing"
  <2>1. CASE PrepareFails(d)
    <3>1. Step(d, "aborting", "error", job[d].recovered)
      BY <1>2, <2>1, JobForms DEF PrepareFails
    <3>2. Phase(d, n) = "preparing" /\ job[d].pc = "freezing"
      BY <1>2, <2>1 DEF PrepareFails, Phase, n, At, SpecialHolding
    <3>3. QED
      BY <3>1, <3>2 DEF Whys
  <2>2. CASE /\ SpecialFail(d, why) /\ At(d, {"freezing", "prepared", "upserted", "rows"})
             /\ job' = [job EXCEPT ![d].pc = "undo", ![d].why = why]
    <3>1. Step(d, "undo", why, job[d].recovered) /\ job[d].pc \in Publishing
      BY <1>2, <2>2, JobForms DEF Publishing, At
    <3>2. QED
      BY <3>1
  <2>3. CASE /\ At(d, {"finish", "undo", "finishing", "undoing"})
             /\ \E pc \in {"aborting", "failed"} :
                  /\ job' = [job EXCEPT ![d].why = why, ![d].pc = pc]
                  /\ pc = "aborting" => exec[d][n].phase = "preparing"
    <3>1. PICK pc \in {"aborting", "failed"} :
            /\ job' = [job EXCEPT ![d].why = why, ![d].pc = pc]
            /\ pc = "aborting" => exec[d][n].phase = "preparing"
      BY <2>3
    <3>2. Step(d, pc, why, job[d].recovered)
      BY <1>2, <3>1, JobForms
    <3>3. job[d].pc \in {"finish", "finishing"} => Phase(d, n) = "committed"
      BY <1>2, <1>3 DEF HolderInv, n
    <3>4. QED
      BY <2>3, <3>1, <3>2, <3>3 DEF At, Undoing, Phase
  <2>4. QED
    BY <1>2, <2>1, <2>2, <2>3 DEF SpecialFail, At, SpecialHolding, n
<1>5. /\ \A b \in Actors : b # d => job'[b] = job[b]
      /\ job'[d].pc = pc /\ job'[d].g = n /\ job'[d].d = d /\ job'[d].why = w
  BY <1>2, <1>4, StepFrame DEF n
<1>6. job[d].pc \in Publishing \union Undoing => doc[d].link \in {n, 0} /\ doc[d].st # "completed"
  BY <1>3 DEF ConsumerInv, FreshInv, n
<1>7. job[d].pc \in Publishing => Phase(d, n) \in {"preparing", "prepared", "points_written"}
  BY <1>2, <1>3 DEF HolderInv, Publishing, n
<1>8. ManifestInv(d)'
  BY <1>1, <1>3, SameManifests DEF Turns
<1>9. "freezing" \in Publishing /\ "undo" \notin Before \union Publishing /\ "undo" \in Undoing
      /\ "failed" \notin Before \union Publishing \union Undoing
      /\ "aborting" \notin Publishing \union Undoing
  BY DEF Publishing, Before, Undoing
<1>10. FreshInv(d)'
  <2>1. pc = "aborting" => n # doc[d].pg
    BY <1>3, <1>4 DEF FreshInv
  <2>2. FreshInv(d)' <=>
          /\ Running(d, doc[d].link) =>
               /\ Phase(d, doc[d].link) # "committed" => doc[d].link # doc[d].pg
               /\ doc[d].st # "completed" => Phase(d, doc[d].link) # "committed"
          /\ doc[d].mark # 0 /\ Phase(d, doc[d].mark) # "committed" => doc[d].mark # doc[d].pg
          /\ pc \in Before => n # doc[d].pg
          /\ pc \in {"claimed"} \union Before \union Publishing \union Undoing =>
               doc[d].st # "completed"
    BY <1>1, <1>5 DEF FreshInv, Running, Phase
  <2>3. pc # "failed" => doc[d].st # "completed"
    BY <1>4, <1>6, <1>9
  <2>4. QED
    BY <1>3, <1>4, <1>9, <2>1, <2>2, <2>3 DEF FreshInv
<1>11. ConsumerInv(d)'
  <2>1. w # "busy"
    BY DEF Whys
  <2>2. Late(d)' <=> Late(d)
    BY <1>1 DEF Late, Phase, Bound
  <2>3. pc = "aborting" => ~Late(d)
    BY <1>3, <1>4 DEF Late
  <2>4. pc # "failed" => doc[d].link \in {n, 0}
    BY <1>4, <1>6, <1>9
  <2>5. QED
    BY <1>1, <1>3, <1>4, <1>5, <1>9, <2>1, <2>2, <2>3, <2>4 DEF ConsumerInv
<1>12. SpecialInv(d)'
  BY <1>1, <1>3 DEF SpecialInv, Manifest, Phase, Bound, Served
<1>13. HolderInv(d)'
  <2>1. PublicationAssumption /\ d # Rec
    BY PublicationAssumption DEF Docs, Rec
  <2>2. pc = "undo" => Phase(d, n) \in {"preparing", "prepared", "points_written"}
    BY <1>4, <1>7
  <2>3. QED
    BY <1>1, <1>3, <1>5, <2>1, <2>2 DEF HolderInv, Phase, Bound, Undoing, SpecialHolding
<1>14. \A c \in Docs : c # d => Around(c)
  BY <1>1, <1>2, <1>3, FenceAround
<1>15. DocInv(d)'
  BY <1>3, <1>8, <1>10, <1>11, <1>12 DEF DocInv
<1>16. QED
  BY <1>1, <1>2, <1>3, <1>5, <1>13, <1>14, <1>15, SoloStep

\* The points of the old generation or of the candidate are deleted.
LEMMA DeleteKeeps ==
  ASSUME BaseInv, BaseInv', ContentInv, NEW a \in Actors, DeleteOld(a) \/ DeleteCandidate(a)
  PROVE  ContentInv'
PROOF
<1>0. PICK d, n : d = job[a].d /\ n = job[a].g
  OBVIOUS
<1>1. UNCHANGED <<rev, doc, exec, backup, exposed>> /\ Mag' = Mag
  BY DEF DeleteOld, DeleteCandidate, Mag
<1>2. job[a].pc \in {"finish", "undo"} /\ job[a].pc \in SpecialHolding /\ Types
  BY DEF DeleteOld, DeleteCandidate, At, SpecialHolding, BaseInv
<1>3. /\ d \in Docs /\ d \in SpecialDocs /\ d \notin TextDocs /\ (a = d \/ a = Rec)
      /\ n \in DOMAIN exec[d] /\ n # 0 /\ n = doc[d].mark /\ Bound(d, n) = Mag
      /\ rev \in Int /\ rev < 0 /\ ~(rev >= 0) /\ Mag \in Nat /\ Mag # 0
      /\ job[a].pc \in Locking /\ job[a] \in Jobs /\ HolderInv(a)
      /\ ManifestInv(d) /\ FreshInv(d) /\ ConsumerInv(d) /\ SpecialInv(d)
      /\ (d \notin exposed => Manifest(d, n))
  BY <1>0, <1>2, HolderFacts
<1>4. /\ points \in [Docs -> SUBSET (Nat \union {Hole})]
      /\ (job[a].pc = "finish" => Phase(d, n) = "committed")
      /\ (job[a].pc = "undo" => /\ Phase(d, n) \in {"preparing", "prepared", "points_written"}
                                /\ a = Rec => Phase(d, n) # "preparing")
  BY <1>0, <1>2, <1>3 DEF HolderInv, Undoing, BaseInv, Types
<1>5. PICK pc \in {"finishing", "undoing"} :
        /\ Step(a, pc, job[a].why, job[a].recovered)
        /\ \/ pc = "finishing" /\ DeleteOld(a) /\ job[a].pc = "finish"
           \/ pc = "undoing" /\ DeleteCandidate(a) /\ job[a].pc = "undo"
  BY <1>2, JobForms DEF DeleteOld, DeleteCandidate, At
<1>6. /\ \A b \in Actors : b # a => job'[b] = job[b]
      /\ job'[a].pc = pc /\ job'[a].g = n /\ job'[a].d = d /\ job'[a].why = job[a].why
  BY <1>0, <1>5, StepFrame
<1>7. /\ (pc = "finishing" => points' = [points EXCEPT ![d] = points[d] \ exec[d][n].old])
      /\ (pc = "undoing" => points' = IF Phase(d, n) \in {"prepared", "points_written"}
                                      THEN [points EXCEPT ![d] = points[d] \ {n}] ELSE points)
  BY <1>0, <1>5 DEF DeleteOld, DeleteCandidate, Target, Phase
<1>8. \A c \in Docs : c # d => points'[c] = points[c]
  BY <1>4, <1>5, <1>7
<1>9. ASSUME d \notin exposed PROVE points'[d] = Served(d) /\ Manifest(d, doc[d].mark)'
  <2>1. Manifest(d, n) /\ (Phase(d, n) # "committed" => n # doc[d].pg)
    BY <1>3, <1>9 DEF FreshInv
  <2>2. CASE pc = "finishing"
    <3>1. points'[d] = points[d] \ exec[d][n].old /\ Phase(d, n) = "committed"
      BY <1>3, <1>4, <1>5, <1>7, <2>2
    <3>2. /\ doc[d].pg = n /\ n \in points[d] /\ n \notin exec[d][n].old
          /\ points[d] \subseteq exec[d][n].old \union {n}
      BY <2>1, <3>1 DEF Manifest
    <3>3. points'[d] = Served(d)
      BY <3>1, <3>2 DEF Served
    <3>4. QED
      BY <1>1, <1>3, <3>1, <3>2, <3>3 DEF Manifest, Phase, Served, Unfinished
  <2>3. CASE pc = "undoing"
    <3>1. CASE Phase(d, n) = "preparing"
      BY <1>1, <1>3, <1>7, <2>1, <2>3, <3>1 DEF Manifest, Phase, Served
    <3>2. CASE Phase(d, n) \in {"prepared", "points_written"}
      <4>1. points'[d] = points[d] \ {n} /\ n # doc[d].pg
        BY <1>3, <1>4, <1>7, <2>1, <2>3, <3>2
      <4>2. /\ exec[d][n].old = Served(d) /\ Served(d) \subseteq points[d]
            /\ points[d] \subseteq Served(d) \union {n}
        BY <2>1, <3>2 DEF Manifest
      <4>3. points'[d] = Served(d)
        BY <4>1, <4>2 DEF Served
      <4>4. QED
        BY <1>1, <1>3, <3>2, <4>2, <4>3 DEF Manifest, Phase, Served, Unfinished
    <3>3. QED
      BY <1>4, <1>5, <2>3, <3>1, <3>2
  <2>4. QED
    BY <2>2, <2>3
<1>10. ManifestInv(d)'
  BY <1>1, <1>3, SameManifests DEF Turns
<1>11. /\ job'[d].g = job[d].g /\ job'[d].why = job[d].why
       /\ \/ job'[d].pc = job[d].pc
          \/ job'[d].pc = "finishing"
          \/ job'[d].pc = "undoing" /\ job[d].pc = "undo"
  BY <1>0, <1>3, <1>5, <1>6 DEF Actors
<1>12. FreshInv(d)'
  BY <1>1, <1>3, <1>11 DEF FreshInv, Running, Phase, Before, Publishing, Undoing
<1>13. ConsumerInv(d)'
  <2>1. Late(d)' <=> Late(d)
    BY <1>1 DEF Late, Phase, Bound
  <2>2. QED
    BY <1>1, <1>3, <1>11, <2>1 DEF ConsumerInv, Phase, Before, Publishing, Undoing
<1>14. SpecialInv(d)'
  BY <1>1, <1>3, <1>9 DEF SpecialInv, Bound
<1>15. HolderInv(a)'
  <2>1. d \notin exposed' => points'[d] = Served(d)'
    BY <1>1, <1>9 DEF Served
  <2>2. /\ (pc = "finishing" => Phase(d, n) = "committed")
        /\ (pc = "undoing" => /\ Phase(d, n) \in {"preparing", "prepared", "points_written"}
                              /\ a = Rec => Phase(d, n) # "preparing")
    BY <1>4, <1>5
  <2>3. QED
    BY <1>1, <1>3, <1>6, <2>1, <2>2 DEF HolderInv, Phase, Bound, Undoing, Served
<1>16. \A c \in Docs : c # d => Around(c)
  BY <1>1, <1>3, FenceAround
<1>17. DocInv(d)'
  BY <1>3, <1>10, <1>12, <1>13, <1>14 DEF DocInv
<1>18. QED
  BY <1>1, <1>3, <1>6, <1>8, <1>15, <1>16, <1>17, SoloStep

\* The transaction that closes or resets the execution and opens the fence.
LEMMA SettleKeeps ==
  ASSUME BaseInv, BaseInv', ContentInv, NEW a \in Actors,
         FinishTx(a) \/ AbortTx(a) \/ (a = Rec /\ ResumeTx)
  PROVE  ContentInv'
PROOF
<1>0. PICK d, n : d = job[a].d /\ n = job[a].g
  OBVIOUS
<1>1. /\ OpenFence(d) /\ UNCHANGED <<points, backup>>
      /\ job[a].pc \in {"finishing", "undoing", "resume"}
      /\ (FinishTx(a) => job[a].pc = "finishing") /\ (AbortTx(a) => job[a].pc = "undoing")
      /\ (ResumeTx /\ a = Rec => job[a].pc = "resume")
  BY <1>0 DEF FinishTx, AbortTx, ResumeTx, Settle, At, Target, stores
<1>2. job[a].pc \in SpecialHolding /\ Types /\ doc \in [Docs -> Rows]
      /\ job \in [Actors -> Jobs]
  BY <1>1 DEF SpecialHolding, BaseInv, Types, Rows
<1>3. /\ d \in Docs /\ d \in SpecialDocs /\ d \notin TextDocs /\ (a = d \/ a = Rec)
      /\ n \in DOMAIN exec[d] /\ n \in 1..Len(exec[d]) /\ n # 0 /\ n = doc[d].mark
      /\ exec[d][n] \in Executions /\ Bound(d, n) = Mag
      /\ rev \in Int /\ rev < 0 /\ ~(rev >= 0) /\ Mag \in Nat /\ Mag # 0
      /\ job[a].pc \in Locking /\ job[a] \in Jobs /\ HolderInv(a)
      /\ ManifestInv(d) /\ FreshInv(d) /\ ConsumerInv(d) /\ SpecialInv(d)
      /\ (d \notin exposed => Manifest(d, n))
  BY <1>0, <1>2, HolderFacts
<1>4. rev' = -rev /\ rev' \in Int /\ Mag' = Mag /\ rev' >= 0 /\ ~(rev' < 0)
  BY <1>1, <1>3 DEF OpenFence, Mag
<1>5. /\ (job[a].pc = "finishing" => Phase(d, n) = "committed")
      /\ (job[a].pc = "undoing" => /\ Phase(d, n) \in {"preparing", "prepared", "points_written"}
                                   /\ a = Rec => Phase(d, n) # "preparing")
      /\ (job[a].pc = "resume" => Phase(d, n) = "preparing")
      /\ (job[a].pc \in {"finishing", "undoing"} /\ d \notin exposed => points[d] = Served(d))
  BY <1>0, <1>2, <1>3 DEF HolderInv, Undoing
<1>6. /\ \A b \in Actors : b # a => job'[b] = job[b]
      /\ job'[a].pc \in {"done", "failed", "idle"}
  BY <1>2 DEF FinishTx, AbortTx, ResumeTx, Settle, Free, Jobs
<1>7. /\ \A c \in Docs : c # d => doc'[c] = doc[c]
      /\ doc'[d].mark = 0 /\ doc'[d].pg = doc[d].pg /\ doc'[d].link \in {doc[d].link, 0}
      /\ doc'[d].st = doc[d].st \/ doc'[d].st \in {"error", "waiting"}
      /\ OneEdit(d, n)
      /\ \/ /\ job[a].pc = "finishing" /\ exec'[d][n].st = "completed"
            /\ exec'[d][n].phase = "committed" /\ exec'[d][n].bound = Mag
         \/ /\ job[a].pc = "undoing" /\ exec'[d][n].st = "error"
            /\ exec'[d][n].phase = "aborted" /\ exec'[d][n].bound = Mag
         \/ /\ job[a].pc = "resume" /\ exec'[d][n] = NewExec /\ a = Rec
  <2>1. CASE FinishTx(a)
    <3> DEFINE e == [exec[d][n] EXCEPT !.st = "completed"]
    <3>1. /\ exec' = [exec EXCEPT ![d][n].st = "completed"] /\ doc' = [doc EXCEPT ![d].mark = 0]
      BY <1>0, <2>1 DEF FinishTx, Target
    <3>2. Edit(d, n, e)
      BY <1>3, <3>1, EditForms
    <3>3. e.st = "completed" /\ e.phase = exec[d][n].phase /\ e.bound = exec[d][n].bound
      BY <1>3 DEF Executions
    <3> HIDE DEF e
    <3>4. OneEdit(d, n) /\ exec'[d][n] = e
      BY <1>3, <3>2, EditFrame
    <3>5. /\ \A c \in Docs : c # d => doc'[c] = doc[c]
          /\ doc'[d].mark = 0 /\ doc'[d].pg = doc[d].pg /\ doc'[d].link = doc[d].link
          /\ doc'[d].st = doc[d].st
      BY <1>2, <1>3, <3>1 DEF Rows
    <3>6. QED
      BY <1>1, <1>3, <1>5, <2>1, <3>3, <3>4, <3>5 DEF Phase, Bound
  <2>2. CASE AbortTx(a)
    <3> DEFINE e == [exec[d][n] EXCEPT !.st = "error", !.phase = "aborted"]
    <3>1. /\ exec' = [exec EXCEPT ![d][n] = e]
          /\ doc' = [doc EXCEPT ![d].st = "error", ![d].link = 0, ![d].mark = 0]
      BY <1>0, <2>2 DEF AbortTx, Target
    <3>2. e \in Executions
      BY <1>3, Fields
    <3>3. e.st = "error" /\ e.phase = "aborted" /\ e.bound = exec[d][n].bound
      BY <1>3 DEF Executions
    <3> HIDE DEF e
    <3>4. OneEdit(d, n) /\ exec'[d][n] = e
      BY <1>3, <3>1, <3>2, EditFrame DEF Edit
    <3>5. /\ \A c \in Docs : c # d => doc'[c] = doc[c]
          /\ doc'[d].mark = 0 /\ doc'[d].pg = doc[d].pg /\ doc'[d].link = 0
          /\ doc'[d].st = "error"
      BY <1>2, <1>3, <3>1 DEF Rows
    <3>6. QED
      BY <1>1, <1>3, <2>2, <3>3, <3>4, <3>5 DEF Bound
  <2>3. CASE a = Rec /\ ResumeTx
    <3>1. /\ exec' = [exec EXCEPT ![d][n] = NewExec]
          /\ doc' = [doc EXCEPT ![d].st = "waiting", ![d].mark = 0]
      BY <1>0, <2>3 DEF ResumeTx, Target
    <3>2. OneEdit(d, n) /\ exec'[d][n] = NewExec
      BY <1>3, <3>1, NewExecution, EditFrame DEF Edit
    <3>3. /\ \A c \in Docs : c # d => doc'[c] = doc[c]
          /\ doc'[d].mark = 0 /\ doc'[d].pg = doc[d].pg /\ doc'[d].link = doc[d].link
          /\ doc'[d].st = "waiting"
      BY <1>2, <1>3, <3>1 DEF Rows
    <3>4. QED
      BY <1>1, <2>3, <3>2, <3>3
  <2>4. QED
    BY <2>1, <2>2, <2>3
<1>8. /\ NewExec.phase = "none" /\ NewExec.bound = 0 /\ NewExec.st = "running"
  BY DEF NewExec
<1>9. ManifestInv(d)'
  <2> SUFFICES ASSUME NEW m \in DOMAIN exec[d]
               PROVE  /\ exec'[d][m].phase # "none" => exec'[d][m].st # "running"
                      /\ exec'[d][m].phase = "none" => exec'[d][m].bound = 0
                      /\ exec'[d][m].bound <= Mag
                      /\ exec'[d][m].bound = 0 => exec'[d][m].phase \in {"none", "preparing"}
                      /\ exec'[d][m].phase \notin {"preparing", "prepared", "points_written"}
    BY <1>4, <1>7 DEF ManifestInv, Phase, Bound, OneEdit
  <2>1. CASE m = n
    BY <1>3, <1>7, <1>8, <2>1
  <2>2. CASE m # n
    <3>1. exec'[d][m] = exec[d][m]
      BY <1>7, <2>2 DEF OneEdit
    <3>2. QED
      BY <1>3, <2>2, <3>1 DEF ManifestInv, Phase, Bound
  <2>3. QED
    BY <2>1, <2>2
<1>10. 0 \notin DOMAIN exec'[d]
  BY <1>3, <1>7, DocTypes DEF OneEdit
<1>11. \/ a = Rec /\ job'[d] = job[d] /\ job[d].pc \notin Publishing \union Undoing
       \/ job'[d].pc \in {"done", "failed", "idle"}
  <2>1. CASE a = d
    BY <1>6, <2>1
  <2>2. CASE a # d
    <3>1. d \in Actors /\ job[d].pc \notin Holding
      BY <1>3, <2>2, OneHolder DEF Actors
    <3>2. QED
      BY <1>3, <1>6, <2>2, <3>1 DEF Holding, SpecialHolding, Publishing, Undoing
  <2>3. QED
    BY <2>1, <2>2
<1>12. {"done", "failed", "idle"} \cap ({"claimed"} \union Before \union Publishing \union Undoing) = {}
  BY DEF Before, Publishing, Undoing
<1>13. FreshInv(d)'
  <2>1. ASSUME Running(d, doc[d].link)'
        PROVE  doc'[d].link # doc[d].pg /\ Phase(d, doc[d].link)' # "committed"
    <3>1. doc'[d].link = doc[d].link /\ doc[d].link \in DOMAIN exec[d]
      BY <1>7, <1>10, <2>1 DEF Running, OneEdit
    <3>2. CASE doc[d].link = n
      <4>1. job[a].pc = "resume" /\ exec'[d][n] = NewExec
        BY <1>7, <2>1, <3>1, <3>2 DEF Running
      <4>2. n # doc[d].pg
        BY <1>3, <1>5, <4>1 DEF FreshInv
      <4>3. QED
        BY <1>8, <3>1, <3>2, <4>1, <4>2 DEF Phase
    <3>3. CASE doc[d].link # n
      <4>1. exec'[d][doc[d].link] = exec[d][doc[d].link]
        BY <1>7, <3>1, <3>3 DEF OneEdit
      <4>2. Running(d, doc[d].link)
        BY <2>1, <3>1, <4>1 DEF Running
      <4>3. Phase(d, doc[d].link) = "none"
        BY <1>3, <3>1, <3>3, <4>2 DEF ManifestInv, Running
      <4>4. QED
        BY <1>3, <3>1, <4>1, <4>2, <4>3 DEF FreshInv, Phase
    <3>4. QED
      BY <3>2, <3>3
  <2>2. /\ job'[d].pc \in Before => job'[d].g # doc[d].pg
        /\ job'[d].pc \in {"claimed"} \union Before \union Publishing \union Undoing =>
             doc'[d].st # "completed"
    BY <1>3, <1>7, <1>11, <1>12 DEF FreshInv
  <2>3. QED
    BY <1>7, <2>1, <2>2 DEF FreshInv
<1>14. ConsumerInv(d)'
  <2>1. ~Late(d)'
    BY <1>7 DEF Late
  <2>2. ASSUME job'[d].pc \in Before
        PROVE  /\ exec'[d][job'[d].g].phase \in {"none", "preparing"}
               /\ doc'[d].link \in {job'[d].g, 0}
    <3>1. a = Rec /\ job'[d] = job[d] /\ job[d].pc \in Before
      BY <1>11, <1>12, <2>2
    <3>2. doc[d].link \in {job[d].g, 0} /\ job[d].g \in DOMAIN exec[d]
      BY <1>3, <3>1, DocTypes DEF ConsumerInv, Past, Before
    <3>3. CASE job[d].g = n
      <4>1. ~Late(d)
        BY <1>3, <3>1, <3>3 DEF ConsumerInv
      <4>2. Phase(d, n) \notin {"prepared", "points_written", "committed"}
        BY <1>3, <4>1 DEF Late
      <4>3. job[a].pc = "resume"
        BY <1>1, <1>5, <3>1, <4>2
      <4>4. QED
        BY <1>7, <1>8, <3>1, <3>2, <3>3, <4>3
    <3>4. CASE job[d].g # n
      <4>1. exec'[d][job[d].g] = exec[d][job[d].g]
        BY <1>7, <3>2, <3>4 DEF OneEdit
      <4>2. QED
        BY <1>3, <1>7, <3>1, <3>2, <3>4, <4>1 DEF ConsumerInv, Phase
    <3>5. QED
      BY <3>3, <3>4
  <2>3. job'[d].pc \notin Publishing \union Undoing
    BY <1>11, <1>12
  <2>4. QED
    BY <2>1, <2>2, <2>3 DEF ConsumerInv, Phase
<1>15. SpecialInv(d)'
  <2>1. d \notin exposed => points[d] = Served(d)
    BY <1>1, <1>3, <1>5 DEF Manifest
  <2>2. d \notin exposed' => points[d] = {doc'[d].pg}
    BY <1>1, <1>3, <1>7, <2>1, OpenedDoc DEF Served
  <2>3. QED
    BY <1>1, <1>7, <2>2 DEF SpecialInv, Served
<1>16. HolderInv(a)'
  BY <1>6 DEF HolderInv, SpecialHolding
<1>17. \A c \in Docs : c # d => Around(c)
  BY <1>1, <1>3, <1>7, FenceAround
<1>18. DocInv(d)'
  BY <1>3, <1>9, <1>13, <1>14, <1>15 DEF DocInv
<1>19. QED
  BY <1>1, <1>3, <1>4, <1>6, <1>7, <1>16, <1>17, <1>18, SoloStep DEF OneEdit

\* A fresh lease binds the marked preparation to the revision it closes.
LEMMA BindFacts ==
  ASSUME BaseInv, ContentInv, NEW a \in Actors, NEW d \in Docs, d \in SpecialDocs,
         NEW n \in DOMAIN exec[d], rev >= 0, Lease(a), Bindable(d, n), Bind(d, n)
  PROVE  /\ n = doc[d].mark /\ n # 0 /\ Turns /\ rev' < 0 /\ ~(rev' >= 0) /\ rev' \in Int
         /\ lock = None /\ OneEdit(d, n) /\ Phase(d, n) = "preparing"
         /\ exec'[d][n].bound = Mag' /\ exec'[d][n].phase = "preparing"
         /\ exec'[d][n].st = exec[d][n].st /\ exec'[d][n].old = exec[d][n].old
         /\ (d \notin exposed => points[d] = Served(d))
PROOF
<1>1. /\ ManifestInv(d) /\ SpecialInv(d) /\ rev \in Int /\ exec[d][n] \in Executions
      /\ DOMAIN exec[d] = 1..Len(exec[d]) /\ Len(exec[d]) \in Nat
  BY DocTypes DEF ContentInv, DocInv
<1>2. Phase(d, n) = "preparing" /\ Bound(d, n) = 0
  BY DEF Bindable, Phase, Bound
<1>3. n = doc[d].mark /\ n # 0
  BY <1>1, <1>2 DEF ManifestInv
<1>4. Turns /\ rev' < 0 /\ rev' \in Int /\ lock = None /\ ~(rev' >= 0) /\ Mag' = -rev'
  BY <1>1 DEF Lease, Turns, Mag
<1> DEFINE e == [exec[d][n] EXCEPT !.bound = -rev']
<1>5. Edit(d, n, e)
  BY <1>1, <1>4, BindOK
<1>6. e.bound = Mag' /\ e.phase = exec[d][n].phase /\ e.st = exec[d][n].st
      /\ e.old = exec[d][n].old
  BY <1>1, <1>4 DEF Executions
<1> HIDE DEF e
<1>7. OneEdit(d, n) /\ exec'[d][n] = e
  BY <1>5, EditFrame
<1>8. d \notin exposed => points[d] = Served(d)
  BY <1>1, <1>2, <1>3 DEF SpecialInv
<1>9. QED
  BY <1>2, <1>3, <1>4, <1>6, <1>7, <1>8 DEF Phase

\* So a preparation gets its fence, from its consumer or the recovery loop.
LEMMA BindKeeps ==
  ASSUME BaseInv, BaseInv', ContentInv, NEW a \in Actors, NEW d \in Docs, a = d \/ a = Rec,
         d \in SpecialDocs, NEW n \in DOMAIN exec[d],
         rev >= 0, Lease(a), Bindable(d, n), Bind(d, n),
         UNCHANGED <<points, backup, exposed>>,
         \A c \in Docs : c # d => doc'[c] = doc[c],
         doc'[d].mark = doc[d].mark, doc'[d].link = doc[d].link, doc'[d].pg = doc[d].pg,
         \/ doc'[d].st = doc[d].st
         \/ doc[d].st # "completed" /\ doc'[d].st = "indexing",
         \A b \in Actors : b # a => job'[b] = job[b],
         job'[a].d = d, job'[a].g = n,
         \/ /\ a = d /\ job[d].pc \in Before /\ job[d].g = n
            /\ \/ job'[d].pc = "freezing" /\ doc'[d].st = "indexing"
               \/ job'[d].pc = "undo"
         \/ a = Rec /\ job[d].pc = "idle" /\ job'[Rec].pc = "resume"
  PROVE  ContentInv'
PROOF
<1>1. /\ n = doc[d].mark /\ n # 0 /\ Turns /\ rev' < 0 /\ ~(rev' >= 0) /\ rev' \in Int
      /\ lock = None /\ OneEdit(d, n) /\ Phase(d, n) = "preparing"
      /\ exec'[d][n].bound = Mag' /\ exec'[d][n].phase = "preparing"
      /\ exec'[d][n].st = exec[d][n].st /\ exec'[d][n].old = exec[d][n].old
      /\ (d \notin exposed => points[d] = Served(d))
  BY BindFacts
<1>2. ManifestInv(d) /\ FreshInv(d) /\ ConsumerInv(d) /\ d \in Actors /\ d # Rec /\ d \notin TextDocs
  BY DocTypes, PublicationAssumption DEF ContentInv, DocInv, Docs, Rec
<1>3. ManifestInv(d)'
  <2>1. exec'[d][n].phase \in Unfinished
    BY <1>1 DEF Unfinished
  <2>2. QED
    BY <1>1, <1>2, <2>1, MarkedEdit
<1>4. \A m \in DOMAIN exec[d] : /\ exec'[d][m].phase = exec[d][m].phase
                                /\ exec'[d][m].st = exec[d][m].st
  BY <1>1 DEF OneEdit, Phase
<1>5. job'[d].pc \in {"freezing", "undo", "idle"}
  BY <1>2
<1>6. (job'[d].pc # "idle" => doc'[d].st # "completed" /\ doc[d].link \in {n, 0} /\ job'[d].g = n)
  BY <1>2 DEF FreshInv, ConsumerInv
<1>7. FreshInv(d)'
  <2>1. Running(d, doc[d].link)' <=> Running(d, doc[d].link)
    BY <1>1, <1>4 DEF Running, OneEdit
  <2>2. Running(d, doc[d].link) => Phase(d, doc[d].link)' = Phase(d, doc[d].link)
    BY <1>4 DEF Running, Phase
  <2>3. Phase(d, doc[d].mark)' = Phase(d, doc[d].mark)
    BY <1>1, <1>4 DEF Phase
  <2>4. job'[d].pc \notin Before \union {"claimed"}
    BY <1>5 DEF Before
  <2>5. job'[d].pc = "idle" => job'[d].pc \notin Publishing \union Undoing
    BY DEF Publishing, Undoing
  <2>6. /\ (Running(d, doc[d].link)' =>
              /\ Phase(d, doc[d].link)' # "committed" => doc'[d].link # doc'[d].pg
              /\ doc'[d].st # "completed" => Phase(d, doc[d].link)' # "committed")
    BY <1>2, <2>1, <2>2 DEF FreshInv
  <2>7. /\ doc'[d].mark # 0 /\ Phase(d, doc[d].mark)' # "committed" => doc'[d].mark # doc'[d].pg
    BY <1>2, <2>3 DEF FreshInv
  <2>8. QED
    BY <1>6, <2>4, <2>5, <2>6, <2>7 DEF FreshInv
<1>8. ConsumerInv(d)'
  <2>1. ~Late(d)'
    BY <1>1 DEF Late, Phase
  <2>2. job'[d].pc = "freezing" => doc'[d].st = "indexing"
    BY <1>2
  <2>3. QED
    BY <1>5, <1>6, <2>1, <2>2 DEF ConsumerInv, Before, Publishing, Undoing
<1>9. SpecialInv(d)'
  <2>1. d \notin exposed => Manifest(d, doc[d].mark)'
    BY <1>1 DEF Manifest, Phase, Unfinished, Served
  <2>2. Mag' # 0
    BY <1>1 DEF Mag
  <2>3. QED
    BY <1>1, <2>1, <2>2 DEF SpecialInv, Bound
<1>10. HolderInv(a)'
  <2>1. job'[a].pc \in {"freezing", "undo", "resume"} /\ (job'[a].pc = "undo" => a # Rec)
    BY <1>2
  <2>2. QED
    BY <1>1, <2>1 DEF HolderInv, Phase, Bound, Undoing
<1>11. \A c \in Docs : c # d => Around(c)
  BY <1>1, FenceAround
<1>12. DocInv(d)'
  BY <1>2, <1>3, <1>7, <1>8, <1>9 DEF DocInv
<1>13. QED
  BY <1>1, <1>10, <1>11, <1>12, SoloStep DEF OneEdit

\* The owner of the fence closed now, and its phase.
LEMMA OwnerBound ==
  ASSUME BaseInv, ContentInv, NEW d \in Docs, NEW n, ValidOwner(d, n), rev < 0
  PROVE  /\ n \in DOMAIN exec[d] /\ n # 0 /\ doc[d].mark = n /\ doc[d].link = n
         /\ Bound(d, n) = Mag /\ Phase(d, n) \in Unfinished /\ d \in SpecialDocs
PROOF
<1>1. /\ n \in 1..Len(exec[d]) /\ doc[d].mark = n /\ doc[d].link = n
      /\ exec[d][n].phase \in Unfinished /\ Mag <= exec[d][n].bound
  BY OwnerFacts
<1>2. /\ DOMAIN exec[d] = 1..Len(exec[d]) /\ Len(exec[d]) \in Nat /\ Mag \in Nat /\ ManifestInv(d)
      /\ \A m \in DOMAIN exec[d] : Bound(d, m) \in Nat
      /\ (d \in TextDocs => doc[d].mark = 0) /\ (d \in TextDocs <=> d \notin SpecialDocs)
  BY DocTypes DEF ContentInv, DocInv
<1>3. n # 0 /\ n \in DOMAIN exec[d] /\ d \in SpecialDocs
  BY <1>1, <1>2
<1>4. Bound(d, n) \in Nat /\ Bound(d, n) <= Mag /\ Mag <= Bound(d, n)
  BY <1>1, <1>2, <1>3 DEF ManifestInv, Bound
<1>5. Bound(d, n) = Mag
  BY <1>2, <1>4
<1>6. QED
  BY <1>1, <1>3, <1>5 DEF Phase

\* The leases of a special publication and of its abort.
LEMMA SpecialLeaseKeeps ==
  ASSUME BaseInv, BaseInv', ContentInv, NEW d \in Docs, SpecialLease(d) \/ AbortLease(d)
  PROVE  ContentInv'
PROOF
<1>0. PICK n : n = job[d].g
  OBVIOUS
<1>1. job[d].pc \in {"pinned", "aborting"} /\ job[d].pc \in Before /\ Lease(d)
      /\ UNCHANGED <<points, backup, exposed>>
  BY DEF SpecialLease, AbortLease, At, Before, stores
<1>2. /\ d \in Actors /\ job[d].d = d /\ n \in DOMAIN exec[d] /\ Types /\ doc \in [Docs -> Rows]
      /\ DOMAIN exec[d] = 1..Len(exec[d])
      /\ d \in SpecialDocs /\ FreshInv(d) /\ ConsumerInv(d) /\ ManifestInv(d) /\ SpecialInv(d)
      /\ rev \in Int /\ Mag \in Nat
  <2>1. d \in SpecialDocs
    BY <1>1, DocTypes DEF BaseInv, JobInv
  <2>2. QED
    BY <1>0, <1>1, <2>1, DocTypes DEF Past, Rows, BaseInv, Types, ContentInv, DocInv
<1>3. doc[d].st # "completed"
  BY <1>1, <1>2 DEF FreshInv
<1>4. PICK pc \in {"freezing", "undo"}, rec \in BOOLEAN :
        /\ Step(d, pc, job[d].why, rec)
        /\ \/ pc = "freezing" /\ SpecialLease(d)
           \/ pc = "undo" /\ AbortLease(d)
  <2>1. CASE SpecialLease(d)
    <3>1. Step(d, "freezing", job[d].why, job[d].recovered) /\ job[d].recovered \in BOOLEAN
      BY <1>2, <2>1, JobForms DEF SpecialLease, Jobs
    <3>2. QED
      BY <2>1, <3>1
  <2>2. CASE AbortLease(d)
    <3>1. Step(d, "undo", job[d].why, TRUE)
      BY <1>2, <2>2, JobForms DEF AbortLease
    <3>2. QED
      BY <2>2, <3>1
  <2>3. QED
    BY <2>1, <2>2
<1>5. /\ \A b \in Actors : b # d => job'[b] = job[b]
      /\ job'[d].pc = pc /\ job'[d].g = n /\ job'[d].d = d
  BY <1>0, <1>2, <1>4, StepFrame
<1>6. /\ \A c \in Docs : c # d => doc'[c] = doc[c]
      /\ doc'[d].mark = doc[d].mark /\ doc'[d].link = doc[d].link /\ doc'[d].pg = doc[d].pg
      /\ doc'[d].st \in {doc[d].st, "indexing"}
      /\ pc = "freezing" => doc'[d].st = "indexing"
      /\ pc = "undo" => doc' = doc
  <2>1. CASE pc = "freezing"
    BY <1>2, <1>4, <2>1 DEF SpecialLease, Rows
  <2>2. CASE pc = "undo"
    BY <1>4, <2>2 DEF AbortLease
  <2>3. QED
    BY <2>1, <2>2
<1>7. CASE rev >= 0 /\ Bindable(d, n) /\ Bind(d, n)
  BY <1>0, <1>1, <1>2, <1>3, <1>4, <1>5, <1>6, <1>7, BindKeeps
<1>8. CASE pc = "undo" /\ rev < 0 /\ ValidOwner(d, n) /\ exec' = exec
  <2>1. /\ n # 0 /\ doc[d].mark = n /\ doc[d].link = n
        /\ Bound(d, n) = Mag /\ Phase(d, n) \in Unfinished
    BY <1>8, OwnerBound
  <2>2. Phase(d, n) = "preparing" /\ ~Late(d)
    <3>1. ~Late(d)
      BY <1>0, <1>1, <1>2, <2>1 DEF ConsumerInv
    <3>2. QED
      BY <1>8, <2>1, <3>1 DEF Late, Unfinished
  <2>3. rev' = rev /\ Mag' = Mag /\ lock = None /\ rev' \in Int
    BY <1>1, <1>2, <1>8 DEF Lease, Mag
  <2>4. ManifestInv(d)'
    BY <1>2, <1>6, <1>8, <2>3, SameManifests DEF Turns
  <2>5. FreshInv(d)'
    BY <1>2, <1>3, <1>5, <1>6, <1>8 DEF FreshInv, Running, Phase, Before
  <2>6. ConsumerInv(d)'
    <3>1. ~Late(d)'
      BY <1>6, <1>8, <2>2, <2>3 DEF Late, Phase, Bound
    <3>2. QED
      BY <1>5, <1>6, <1>8, <2>1, <3>1 DEF ConsumerInv, Before, Publishing
  <2>7. SpecialInv(d)'
    BY <1>1, <1>2, <1>6, <1>8, <2>3 DEF SpecialInv, Manifest, Phase, Bound, Served
  <2>8. d # Rec /\ d \notin TextDocs
    BY <1>2, PublicationAssumption DEF Docs, Rec
  <2>9. HolderInv(d)'
    BY <1>5, <1>6, <1>8, <2>1, <2>2, <2>3, <2>8 DEF HolderInv, Phase, Bound, Undoing
  <2>10. \A c \in Docs : c # d => Around(c)
    BY <1>1, <1>2, <2>3, FenceAround
  <2>11. DocInv(d)'
    BY <2>4, <2>5, <2>6, <2>7, <2>8 DEF DocInv
  <2>12. QED
    BY <1>1, <1>2, <1>5, <1>6, <1>8, <2>3, <2>9, <2>10, <2>11, SoloStep
<1>9. QED
  BY <1>0, <1>4, <1>7, <1>8 DEF SpecialLease, AbortLease

\* The recovery loop takes a preparation, or the owner of the fence, over.
LEMMA RecoverKeeps ==
  ASSUME BaseInv, BaseInv', ContentInv, NEW d \in Docs, RecoverUnbound(d) \/ RecoverFenced(d)
  PROVE  ContentInv'
PROOF
<1>0. PICK n : n = doc[d].mark
  OBVIOUS
<1>1. /\ Rec \in Actors /\ Rec \notin Docs /\ Lease(Rec) /\ job \in [Actors -> Jobs]
      /\ UNCHANGED <<doc, points, backup, exposed>>
      /\ DOMAIN exec[d] = 1..Len(exec[d]) /\ (d \in TextDocs => doc[d].mark = 0)
      /\ (d \in TextDocs <=> d \notin SpecialDocs) /\ rev \in Int
      /\ lock = None
  BY DocTypes, PublicationAssumption
  DEF RecoverUnbound, RecoverFenced, Actors, Docs, Rec, BaseInv, Types, stores, Lease
<1>2. CASE RecoverUnbound(d)
  <2>1. /\ n # 0 /\ n \in DOMAIN exec[d] /\ rev >= 0 /\ Bindable(d, n) /\ Bind(d, n)
        /\ job[d].pc = "idle"
        /\ job' = [job EXCEPT ![Rec] = [pc |-> "resume", d |-> d, g |-> n,
                                        recovered |-> FALSE, why |-> "unbound"]]
    BY <1>0, <1>2 DEF RecoverUnbound, Running, LeaseFree
  <2>2. /\ \A b \in Actors : b # Rec => job'[b] = job[b]
        /\ job'[Rec].pc = "resume" /\ job'[Rec].d = d /\ job'[Rec].g = n
    BY <1>1, <2>1
  <2>3. d \in SpecialDocs
    BY <1>0, <1>1, <2>1
  <2>4. QED
    BY <1>0, <1>1, <2>1, <2>2, <2>3, BindKeeps
<1>3. CASE RecoverFenced(d)
  <2>1. /\ rev < 0 /\ ValidOwner(d, n) /\ exec' = exec
        /\ job' = [job EXCEPT ![Rec] = [pc |-> RecoveryStep(exec[d][n].phase), d |-> d, g |-> n,
                                        recovered |-> FALSE, why |-> "none"]]
    BY <1>0, <1>3 DEF RecoverFenced
  <2>2. /\ \A b \in Actors : b # Rec => job'[b] = job[b]
        /\ job'[Rec].pc = RecoveryStep(Phase(d, n)) /\ job'[Rec].d = d /\ job'[Rec].g = n
    BY <1>1, <2>1 DEF Phase
  <2>3. /\ doc[d].mark = n /\ Bound(d, n) = Mag /\ Phase(d, n) \in Unfinished
    BY <2>1, OwnerBound
  <2>4. rev' = rev /\ Mag' = Mag /\ rev' \in Int
    BY <1>1, <2>1 DEF Lease, Mag
  <2>5. \/ job'[Rec].pc = "finish" /\ Phase(d, n) = "committed"
        \/ job'[Rec].pc = "resume" /\ Phase(d, n) = "preparing"
        \/ job'[Rec].pc = "undo" /\ Phase(d, n) \in {"prepared", "points_written"}
    BY <2>2, <2>3 DEF RecoveryStep, Unfinished
  <2>6. HolderInv(Rec)'
    BY <1>1, <2>1, <2>2, <2>3, <2>4, <2>5 DEF HolderInv, Phase, Bound, Undoing
  <2>7. \A c \in Docs : Around(c)
    BY <1>1, <2>4 DEF Around
  <2>8. DocInv(d) /\ job'[d] = job[d]
    BY <1>1, <2>2 DEF ContentInv, Actors
  <2>9. DocInv(d)'
    BY <1>1, <2>1, <2>4, <2>7, <2>8, OtherDoc
  <2>10. QED
    BY <1>1, <2>1, <2>2, <2>4, <2>6, <2>7, <2>9, SoloStep
<1>4. QED
  BY <1>2, <1>3

\* A process dies.
LEMMA DieKeeps ==
  ASSUME BaseInv, ContentInv, NEW a \in Actors, Die(a)
  PROVE  ContentInv'
PROOF
<1>1. /\ UNCHANGED <<rev, doc, exec, points, backup, exposed>> /\ Mag' = Mag /\ rev' \in Int
      /\ \A b \in Actors : b # a => job'[b] = job[b]
      /\ job'[a].pc = "idle"
  BY DEF Die, stores, Mag, Free, BaseInv, Types
<1>2. HolderInv(a)'
  BY <1>1 DEF HolderInv, SpecialHolding
<1>3. ASSUME NEW d \in Docs PROVE DocInv(d)'
  <2>1. DocInv(d) /\ d \in Actors
    BY DocTypes DEF ContentInv
  <2>2. CASE d # a
    BY <1>1, <2>1, <2>2, OtherDoc DEF Around
  <2>3. CASE d = a
    <3>1. job'[d].pc \notin {"claimed"} \union Before \union Publishing \union Undoing
      BY <1>1, <2>3 DEF Before, Publishing, Undoing
    <3>2. ManifestInv(d)'
      BY <1>1, <2>1, SameManifests DEF DocInv, Turns
    <3>3. FreshInv(d)'
      BY <1>1, <2>1, <3>1 DEF DocInv, FreshInv, Running, Phase
    <3>4. ConsumerInv(d)'
      <4>1. Late(d)' <=> Late(d)
        BY <1>1 DEF Late, Phase, Bound
      <4>2. QED
        BY <1>1, <2>1, <2>3, <3>1, <4>1 DEF DocInv, ConsumerInv
    <3>5. d \in TextDocs => TextInv(d)'
      BY <1>1, <2>1, <2>3 DEF DocInv, TextInv, Served
    <3>6. d \in SpecialDocs => SpecialInv(d)'
      BY <1>1, <2>1 DEF DocInv, SpecialInv, Served, Manifest, Phase, Bound
    <3>7. QED
      BY <3>2, <3>3, <3>4, <3>5, <3>6 DEF DocInv
  <2>4. QED
    BY <2>2, <2>3
<1>4. ASSUME NEW b \in Actors PROVE HolderInv(b)'
  <2>1. CASE b = a
    BY <1>2, <2>1
  <2>2. CASE b # a
    <3>1. HolderInv(b) /\ job'[b] = job[b]
      BY <1>1, <2>2 DEF ContentInv
    <3>2. QED
      BY <1>1, <3>1, OtherHolder DEF Phase, Bound
  <2>3. QED
    BY <2>1, <2>2
<1>5. QED
  BY <1>3, <1>4 DEF ContentInv

\* A generation is pinned.
LEMMA RecordKeeps ==
  ASSUME BaseInv, BaseInv', ContentInv, NEW d \in Docs, Record(d)
  PROVE  ContentInv'
PROOF
<1>0. PICK n : n = job[d].g
  OBVIOUS
<1>1. /\ d \in SpecialDocs /\ job[d].pc = "run" /\ doc[d].mark \in {0, n}
      /\ exec' = [exec EXCEPT ![d][n].phase = IF @ = "none" THEN "preparing" ELSE @]
      /\ doc' = [doc EXCEPT ![d].mark = n] /\ Goto(d, "pinned")
      /\ UNCHANGED <<rev, points, backup, exposed>> /\ Mag' = Mag
  BY <1>0 DEF Record, At, stores, Mag
<1>2. /\ d \in Actors /\ d \notin TextDocs /\ n \in DOMAIN exec[d] /\ n # 0 /\ Types
      /\ n \in 1..Len(exec[d]) /\ exec[d][n] \in Executions
      /\ doc \in [Docs -> Rows] /\ rev \in Int /\ rev' \in Int /\ Mag \in Nat
      /\ FreshInv(d) /\ ConsumerInv(d) /\ ManifestInv(d) /\ SpecialInv(d)
      /\ \A m \in DOMAIN exec[d] : Bound(d, m) \in Nat
  BY <1>0, <1>1, DocTypes DEF Past, Rows, BaseInv, Types, ContentInv, DocInv
<1> DEFINE x == IF exec[d][n].phase = "none" THEN "preparing" ELSE exec[d][n].phase
           e == [exec[d][n] EXCEPT !.phase = x]
<1>3. x \in Unfinished \union {"none", "aborted"} /\ exec' = [exec EXCEPT ![d][n].phase = x]
  BY <1>1, <1>2 DEF Executions, Unfinished
<1>4. x # "none" /\ (Phase(d, n) # "none" => x = Phase(d, n))
      /\ (Phase(d, n) = "none" => x = "preparing")
  BY DEF Phase
<1> HIDE DEF x
<1>5. Edit(d, n, e)
  BY <1>2, <1>3, EditForms
<1>6. e.phase = x /\ e.st = exec[d][n].st /\ e.bound = exec[d][n].bound /\ e.old = exec[d][n].old
  BY <1>2 DEF Executions
<1> HIDE DEF e
<1>7. OneEdit(d, n) /\ exec'[d][n] = e
  BY <1>5, EditFrame
<1>8. /\ \A c \in Docs : c # d => doc'[c] = doc[c]
      /\ doc'[d].mark = n /\ doc'[d].link = doc[d].link /\ doc'[d].pg = doc[d].pg
      /\ doc'[d].st = doc[d].st
  BY <1>1, <1>2 DEF Rows
<1>9. Step(d, "pinned", job[d].why, job[d].recovered)
  BY <1>1, <1>2, JobForms
<1>10. /\ \A b \in Actors : b # d => job'[b] = job[b]
       /\ job'[d].pc = "pinned" /\ job'[d].g = n
  BY <1>0, <1>2, <1>9, StepFrame
<1>11. /\ n # doc[d].pg /\ doc[d].st # "completed" /\ doc[d].link \in {n, 0}
       /\ Phase(d, n) \in {"none", "preparing"} \/ n = doc[d].mark
       /\ (Late(d) => n # doc[d].mark)
  BY <1>0, <1>1, <1>2 DEF FreshInv, ConsumerInv, Before
<1>12. /\ (Phase(d, n) = "none" => Bound(d, n) = 0)
       /\ (doc[d].mark = 0 => Phase(d, n) = "none" /\ Bound(d, n) = 0)
  BY <1>2, <1>11 DEF ManifestInv
<1>13. ManifestInv(d)'
  <2> SUFFICES ASSUME NEW m \in DOMAIN exec[d]
               PROVE  /\ exec'[d][m].phase # "none" /\ m # n => exec'[d][m].st # "running"
                      /\ exec'[d][m].phase = "none" => exec'[d][m].bound = 0
                      /\ exec'[d][m].bound <= Mag
                      /\ exec'[d][m].bound = 0 => exec'[d][m].phase \in {"none", "preparing"}
                      /\ exec'[d][m].phase \in {"preparing", "prepared", "points_written"} =>
                           m = n
                      /\ rev < 0 /\ exec'[d][m].bound = Mag =>
                           m = n /\ exec'[d][m].phase \in Unfinished
    BY <1>1, <1>7, <1>8 DEF ManifestInv, Phase, Bound, OneEdit
  <2>1. CASE m = n
    BY <1>2, <1>4, <1>6, <1>7, <1>12, <2>1 DEF ManifestInv, Phase, Bound, Unfinished
  <2>2. CASE m # n
    <3>1. exec'[d][m] = exec[d][m]
      BY <1>7, <2>2 DEF OneEdit
    <3>2. m # doc[d].mark
      BY <1>1, <1>2, <2>2, DocTypes
    <3>3. QED
      BY <1>2, <2>2, <3>1, <3>2 DEF ManifestInv, Phase, Bound
  <2>3. QED
    BY <2>1, <2>2
<1>14. FreshInv(d)'
  <2>1. Running(d, doc[d].link)' => doc[d].link = n /\ Running(d, n)
    <3>1. 0 \notin DOMAIN exec'[d]
      BY <1>2, <1>7, DocTypes DEF OneEdit
    <3>2. QED
      BY <1>2, <1>6, <1>7, <1>8, <1>11, <3>1 DEF Running
  <2>2. Running(d, doc[d].link)' => x # "committed"
    BY <1>2, <1>4, <1>11, <2>1 DEF FreshInv
  <2>3. QED
    BY <1>6, <1>7, <1>8, <1>10, <1>11, <2>1, <2>2 DEF FreshInv, Phase, Before, Publishing, Undoing
<1>15. ConsumerInv(d)'
  <2>1. ~Late(d)'
    <3>1. CASE Phase(d, n) = "none"
      <4>1. exec'[d][n].phase = "preparing"
        BY <1>4, <1>6, <1>7, <3>1
      <4>2. QED
        BY <1>8, <4>1 DEF Late, Phase
    <3>2. CASE Phase(d, n) # "none"
      <4>1. n = doc[d].mark
        BY <1>1, <1>12, <3>2
      <4>2. ~Late(d)
        BY <1>11, <4>1
      <4>3. QED
        BY <1>1, <1>4, <1>6, <1>7, <1>8, <3>2, <4>1, <4>2 DEF Late, Phase, Bound
    <3>3. QED
      BY <3>1, <3>2
  <2>2. QED
    BY <1>8, <1>10, <1>11, <2>1 DEF ConsumerInv, Before, Publishing, Undoing
<1>16. SpecialInv(d)'
  <2> SUFFICES ASSUME d \notin exposed PROVE SpecialInv(d)'
    BY <1>1 DEF SpecialInv
  <2>1. CASE Bound(d, n) = 0
    <3>1. points[d] = Served(d)
      BY <1>1, <1>2, <1>12, <2>1 DEF SpecialInv
    <3>2. QED
      BY <1>1, <1>6, <1>7, <1>8, <2>1, <3>1 DEF SpecialInv, Bound, Served
  <2>2. CASE Bound(d, n) # 0
    <3>1. n = doc[d].mark /\ x = Phase(d, n)
      BY <1>1, <1>4, <1>12, <2>2
    <3>2. rev < 0 /\ Bound(d, n) = Mag /\ Manifest(d, n)
      BY <1>2, <2>2, <3>1 DEF SpecialInv
    <3>3. Manifest(d, doc[d].mark)'
      BY <1>1, <1>6, <1>7, <1>8, <3>1, <3>2 DEF Manifest, Phase, Served
    <3>4. QED
      BY <1>1, <1>2, <1>6, <1>7, <1>8, <2>2, <3>2, <3>3 DEF SpecialInv, Bound
  <2>3. QED
    BY <2>1, <2>2
<1>17. HolderInv(d)'
  BY <1>10 DEF HolderInv, SpecialHolding
<1>18. Local(d, d)
  BY <1>1, <1>7, <1>8, <1>10 DEF Local, Around, OneEdit
<1>19. Undisturbed(d, d)
  <2> SUFFICES ASSUME NEW b \in Actors, b # d, job[b].pc \in SpecialHolding, job[b].d = d
               PROVE  /\ doc'[d].mark = doc[d].mark
                      /\ Phase(d, job[b].g)' = Phase(d, job[b].g)
                      /\ Bound(d, job[b].g)' = Bound(d, job[b].g)
    BY <1>1, <1>8 DEF Undisturbed
  <2>1. job[b].g = doc[d].mark /\ job[b].g # 0 /\ Bound(d, job[b].g) = Mag /\ Mag # 0
    BY HolderFacts
  <2>2. job[b].g = n /\ job'[b] = job[b] /\ doc[d].mark = n
    BY <1>1, <1>10, <2>1
  <2>3. Phase(d, n) # "none"
    BY <1>12, <2>1, <2>2
  <2>4. QED
    BY <1>4, <1>6, <1>7, <1>8, <2>2, <2>3 DEF Phase, Bound
<1>20. DocInv(d)'
  BY <1>2, <1>13, <1>14, <1>15, <1>16 DEF DocInv
<1>21. QED
  BY <1>2, <1>17, <1>18, <1>19, <1>20, LocalStep

-----------------------------------------------------------------------------
(* Every step.                                                             *)

\* The invariant of the content holds initially.
LEMMA ContentInit == Init => ContentInv
PROOF
<1> SUFFICES ASSUME Init PROVE ContentInv
  OBVIOUS
<1>1. BaseInv
  BY BaseInit
<1>2. \A a \in Actors : job[a].pc = "idle"
  BY DEF Init, Free
<1>3. \A a \in Actors : HolderInv(a)
  BY <1>2 DEF HolderInv, SpecialHolding
<1>4. ASSUME NEW d \in Docs PROVE DocInv(d)
  <2>1. /\ doc[d].st = "completed" /\ doc[d].link = 0 /\ doc[d].mark = 0 /\ doc[d].pg = 0
        /\ exec[d] = <<>> /\ points[d] = {0} /\ backup[d] = NoBackup /\ rev = 0 /\ ~(rev < 0)
        /\ job[d].pc = "idle" /\ Mag = 0
    <3>1. rev = 0 /\ ~(rev < 0) /\ Mag = 0
      BY DEF Init, Mag
    <3>2. QED
      BY <1>2, <3>1 DEF Init, Actors
  <2>2. DOMAIN exec[d] = {}
    BY <2>1
  <2>3. ManifestInv(d)
    BY <2>2 DEF ManifestInv
  <2>4. FreshInv(d)
    BY <2>1, <2>2 DEF FreshInv, Running, Before, Publishing, Undoing
  <2>5. ConsumerInv(d)
    BY <2>1 DEF ConsumerInv, Late, Before, Publishing, Undoing
  <2>6. TextInv(d)
    BY <2>1 DEF TextInv, NoBackup, Served
  <2>7. SpecialInv(d)
    BY <2>1 DEF SpecialInv, Served
  <2>8. QED
    BY <2>3, <2>4, <2>5, <2>6, <2>7 DEF DocInv
<1>5. QED
  BY <1>3, <1>4 DEF ContentInv

\* A stuttering step.
LEMMA ContentStutter == ASSUME BaseInv, ContentInv, UNCHANGED vars PROVE ContentInv'
PROOF
<1>1. UNCHANGED <<rev, doc, exec, points, backup, job, exposed>> /\ rev' \in Int
  BY DEF vars, BaseInv, Types
<1>2. ASSUME NEW d \in Docs PROVE DocInv(d)'
  <2>1. DocInv(d)
    BY DEF ContentInv
  <2>2. QED
    BY <1>1, <2>1, OtherDoc DEF Around
<1>3. ASSUME NEW b \in Actors PROVE HolderInv(b)'
  <2>1. HolderInv(b)
    BY DEF ContentInv
  <2>2. QED
    BY <1>1, <2>1, OtherHolder DEF Phase, Bound
<1>4. QED
  BY <1>2, <1>3 DEF ContentInv

\* Failures, by where the consumer stands.
LEMMA FaultKeeps ==
  ASSUME BaseInv, BaseInv', ContentInv, LossyDocs \cap TextDocs = {}, Fault
  PROVE  ContentInv'
PROOF
<1>1. "error" \in Whys
  BY DEF Whys
<1>2. CASE \E a \in Actors : Crash(a)
  BY <1>2, DieKeeps DEF Crash
<1>3. ASSUME NEW d \in Docs, RestoreFails(d) PROVE ContentInv'
  BY <1>1, <1>3, TextWorkKeeps
<1>4. ASSUME NEW d \in Docs, PrepareFails(d) PROVE ContentInv'
  <2>1. job[d].pc \in {"pinned", "freezing"}
    BY <1>4 DEF PrepareFails, At
  <2>2. QED
    BY <1>1, <1>4, <2>1, RefusalsKeep, SpecialFailKeeps
<1>5. ASSUME NEW d \in Docs, NEW why \in Whys, TextFail(d, why) PROVE ContentInv'
  <2>1. job[d].pc \in {"claimed", "run"} \/ job[d].pc \in TextHolding
    BY <1>5 DEF TextFail, At, TextHolding
  <2>2. QED
    BY <1>5, <2>1, RefusalsKeep, TextWorkKeeps
<1>6. ASSUME NEW d \in Docs, NEW why \in Whys, SpecialFail(d, why) PROVE ContentInv'
  <2>1. job[d].pc \in {"claimed", "run", "pinned"} \/ job[d].pc \in SpecialHolding
    BY <1>6 DEF SpecialFail, At, SpecialHolding
  <2>2. QED
    BY <1>6, <2>1, RefusalsKeep, SpecialFailKeeps
<1>7. ASSUME NEW d \in Docs, NEW why \in Whys, CommitLost(d, why) PROVE ContentInv'
  BY <1>7, CommitKeeps
<1>8. ASSUME NEW d \in Docs, CleanupCancelled(d) PROVE ContentInv'
  BY <1>8, TextCleanupKeeps
<1>9. QED
  BY <1>2, <1>3, <1>4, <1>5, <1>6, <1>7, <1>8 DEF Fault

\* The invariant is inductive beside BaseInv.
LEMMA ContentStep ==
  ASSUME LossyDocs \cap TextDocs = {}
  PROVE  BaseInv /\ BaseInv' /\ ContentInv /\ [Next]_vars => ContentInv'
PROOF
<1> SUFFICES ASSUME BaseInv, BaseInv', ContentInv, [Next]_vars PROVE ContentInv'
  OBVIOUS
<1>1. Docs \subseteq Actors /\ Rec \in Actors /\ "error" \in Whys /\ TRUE \in BOOLEAN
  BY DEF Actors, Whys
<1>2. CASE UNCHANGED vars
  BY <1>2, ContentStutter
<1>3. CASE Recover
  <2>1. FinishRefused => ContentInv'
    BY <1>1, DieKeeps DEF FinishRefused
  <2>2. QED
    BY <1>1, <1>3, <2>1, SettleKeeps, DeleteKeeps, RecoverKeeps DEF Recover, Undo
<1>4. CASE Fault
  BY <1>4, FaultKeeps
<1>5. ASSUME NEW d \in Docs, Consume(d) PROVE ContentInv'
  <2>1. CASE Claim(d) \/ TextBusy(d) \/ PublishRefused(d) \/ SpecialNoLease(d)
    BY <2>1, StatusKeeps
  <2>2. CASE Ensure(d)
    BY <1>1, <2>2, QueueKeeps
  <2>3. CASE CloseFailed(d) \/ CloseCompleted(d)
    BY <2>3, EndKeeps
  <2>4. CASE TextLease(d) \/ TextCleanup(d)
    BY <2>4, TextLeaseKeeps, TextCleanupKeeps
  <2>5. CASE \/ BackupFirst(d) \/ BackupRest(d) \/ BackupReuse(d) \/ BackupRefused(d)
             \/ UpsertSome(d) \/ UpsertRest(d) \/ Restore(d)
    BY <1>1, <2>5, TextWorkKeeps
  <2>6. CASE TextCommit(d) \/ TextAbort(d)
    BY <2>6, TextEndKeeps
  <2>7. CASE RecordRefused(d) \/ AbortNoLease(d)
    BY <1>1, <2>7, RefusalsKeep
  <2>8. CASE Record(d)
    BY <2>8, RecordKeeps
  <2>9. CASE SpecialLease(d) \/ AbortLease(d)
    BY <2>9, SpecialLeaseKeeps
  <2>10. CASE Freeze(d) \/ UpsertCandidate(d) \/ PointsWritten(d)
    BY <2>10, PublishKeeps
  <2>11. CASE SpecialCommit(d)
    BY <1>1, <2>11, CommitKeeps
  <2>12. QED
    BY <1>5, <2>1, <2>2, <2>3, <2>4, <2>5, <2>6, <2>7, <2>8, <2>9, <2>10, <2>11 DEF Consume
<1>6. ASSUME NEW d \in Docs,
             Undo(d) \/ ClaimStuck(d) \/ \E replay \in BOOLEAN : Enqueue(d, replay)
      PROVE  ContentInv'
  <2>1. CASE Undo(d)
    BY <1>1, <2>1, DeleteKeeps, SettleKeeps DEF Undo
  <2>2. CASE ClaimStuck(d)
    BY <1>1, <2>2, QueueKeeps
  <2>3. CASE \E replay \in BOOLEAN : Enqueue(d, replay)
    BY <2>3, QueueKeeps
  <2>4. QED
    BY <1>6, <2>1, <2>2, <2>3
<1>7. QED
  BY <1>2, <1>3, <1>4, <1>5, <1>6 DEF Next

\* It holds in every reachable state.
LEMMA ContentHolds ==
  ASSUME LossyDocs \cap TextDocs = {}
  PROVE  Spec => [](BaseInv /\ ContentInv)
PROOF
<1>1. Init => ContentInv
  BY ContentInit
<1>2. BaseInv /\ BaseInv' /\ ContentInv /\ [Next]_vars => ContentInv'
  BY ContentStep
<1>3. QED
  BY <1>1, <1>2, BaseHolds, PTL DEF Spec

\* Unless the commit of a text publication can lose its answer, with the fence
\* open Qdrant holds of every document exactly the generation that PostgreSQL
\* serves, except of one that another document's commit uncovered behind the
\* shared fence or that was taken back from half-written backups: whatever
\* crashes, fails or is retried, at any number of documents and generations.
THEOREM OpenFenceIsClean ==
  ASSUME LossyDocs \cap TextDocs = {}
  PROVE  Spec => []OpenFenceServesOneGeneration
PROOF
<1>1. BaseInv /\ ContentInv => OpenFenceServesOneGeneration
  <2> SUFFICES ASSUME BaseInv, ContentInv, rev >= 0, NEW d \in Docs \ exposed
               PROVE  points[d] = {doc[d].pg}
    BY DEF OpenFenceServesOneGeneration
  <2>1. DocInv(d) /\ rev \in Int /\ (d \in TextDocs <=> d \notin SpecialDocs)
    BY DocTypes DEF ContentInv
  <2>2. CASE d \in TextDocs
    BY <2>1, <2>2 DEF DocInv, TextInv, Served
  <2>3. CASE d \in SpecialDocs
    BY <2>1, <2>3 DEF DocInv, SpecialInv, Served
  <2>4. QED
    BY <2>1, <2>2, <2>3
<1>2. QED
  BY <1>1, ContentHolds, PTL

\* And behind the fence too the served generation is never lost: it is in
\* Qdrant, or for a text document whole in the backups of the publication.
THEOREM ServedIsKept ==
  ASSUME LossyDocs \cap TextDocs = {}
  PROVE  Spec => []ServedGenerationIsKept
PROOF
<1>1. BaseInv /\ ContentInv => ServedGenerationIsKept
  <2> SUFFICES ASSUME BaseInv, ContentInv, NEW d \in Docs \ exposed
               PROVE  IF d \in TextDocs
                      THEN \/ points[d] = {doc[d].pg}
                           \/ backup[d].full /\ backup[d].gens = {doc[d].pg}
                      ELSE doc[d].pg \in points[d]
    BY DEF ServedGenerationIsKept
  <2>1. DocInv(d) /\ (d \in TextDocs <=> d \notin SpecialDocs)
    BY DocTypes DEF ContentInv
  <2>2. CASE d \in TextDocs
    BY <2>1, <2>2 DEF DocInv, TextInv, Served
  <2>3. CASE d \notin TextDocs
    BY <2>1, <2>3 DEF DocInv, SpecialInv, Served, Manifest, Unfinished
  <2>4. QED
    BY <2>2, <2>3
<1>2. QED
  BY <1>1, ContentHolds, PTL

=============================================================================
