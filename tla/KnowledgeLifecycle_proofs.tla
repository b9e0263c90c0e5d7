----------------------- MODULE KnowledgeLifecycle_proofs -----------------------
(***************************************************************************)
(* Proofs about KnowledgeLifecycle for every number of requests, workers   *)
(* and versions.                                                           *)
(***************************************************************************)
EXTENDS KnowledgeLifecycle, FiniteSetTheorems, TLAPS

-----------------------------------------------------------------------------
(* The parts of the inductive invariant.                                   *)

\* A request past its first read works on a version of the document.
Targeted == \A e \in Editors : epc[e] # "idle" => target[e] \in Versions

\* A worker holds a version exactly while it runs the indexing job.
Held == \A w \in Workers : IF wpc[w] = "idle" THEN doing[w] = 0
                           ELSE doing[w] \in Versions

IInv == TypeOK /\ Targeted /\ Held /\ PublishedHasJob

-----------------------------------------------------------------------------
LEMMA PublishedRowsType ==
  ASSUME TypeOK, NEW e \in Editors
  PROVE  PublishedRows(e) \in [Versions -> Statuses]
BY DEF TypeOK, PublishedRows, Statuses

LEMMA IndexedType ==
  ASSUME TypeOK, NEW w \in Workers
  PROVE  Indexed(w) \in [Versions -> Statuses]
BY DEF TypeOK, Indexed, Statuses

\* What a request's commit leaves published was published before or is its
\* target.
LEMMA CommitPublishes ==
  ASSUME TypeOK, NEW e \in Editors, NEW v \in Versions,
         PublishedRows(e)[v] = "published"
  PROVE  v = target[e] \/ status[v] = "published"
BY DEF TypeOK, PublishedRows

\* A version the job has left published was published before, and is another one
\* or one the job had loaded as READY.
LEMMA IndexedLeaves ==
  ASSUME TypeOK, NEW w \in Workers, NEW v \in Versions,
         Indexed(w)[v] = "published"
  PROVE  status[v] = "published" /\ (v = doing[w] => seen[w] = "ready")
BY DEF TypeOK, Indexed

-----------------------------------------------------------------------------
LEMMA TypeStep == TypeOK /\ Targeted /\ Held /\ [Next]_vars => TypeOK'
<1> SUFFICES ASSUME TypeOK, Targeted, Held, [Next]_vars PROVE TypeOK'
  OBVIOUS
<1> USE ConstantAssumption
    DEF TypeOK, Statuses, Versions, Answered, JobDone, editorVars, workerVars
<1>1. ASSUME NEW e \in Editors, NewDraft(e) PROVE TypeOK'
  BY <1>1 DEF NewDraft
<1>2. ASSUME NEW e \in Editors, InsertDraft(e) PROVE TypeOK'
  <2>1. status' \in [Versions -> Statuses]
    BY <1>2 DEF InsertDraft
  <2> QED
    BY <1>2, <2>1 DEF InsertDraft
<1>3. ASSUME NEW e \in Editors, SelectPublished(e) PROVE TypeOK'
  BY <1>3 DEF SelectPublished, Published
<1>4. ASSUME NEW e \in Editors, CommitPublish(e) PROVE TypeOK'
  BY <1>4, PublishedRowsType DEF CommitPublish
<1>5. ASSUME NEW e \in Editors, EnqueueIndexing(e) PROVE TypeOK'
  <2>1. queue' \in [Versions -> Nat]
    BY <1>5 DEF EnqueueIndexing, Targeted
  <2> QED
    BY <1>5, <2>1 DEF EnqueueIndexing
<1>6. ASSUME NEW e \in Editors, RequestFails(e) PROVE TypeOK'
  <2>1. status' \in [Versions -> Statuses]
    BY <1>6, PublishedRowsType DEF RequestFails
  <2>2. hit' \subseteq Versions
    BY <1>6 DEF RequestFails, Targeted
  <2>3. target[e] \in Versions /\ queue[target[e]] + 1 \in Nat
    BY <1>6 DEF RequestFails, Targeted
  <2>4. queue' \in [Versions -> Nat]
    BY <1>6, <2>3 DEF RequestFails
  <2> QED
    BY <1>6, <2>1, <2>2, <2>4 DEF RequestFails
<1>7. ASSUME NEW e \in Editors, NEW v \in Versions, NEW op \in {"publish", "rollback"},
             Open(e, v, op)
      PROVE  TypeOK'
  BY <1>7 DEF Open
<1>8. ASSUME NEW w \in Workers, NEW v \in Versions, Start(w, v) PROVE TypeOK'
  BY <1>8 DEF Start
<1>9. ASSUME NEW w \in Workers, Load(w) PROVE TypeOK'
  BY <1>9 DEF Load, Held
<1>10. ASSUME NEW w \in Workers, CommitIndex(w) PROVE TypeOK'
  BY <1>10, IndexedType DEF CommitIndex
<1>11. ASSUME NEW w \in Workers, IndexingFails(w) PROVE TypeOK'
  <2>1. status' \in [Versions -> Statuses]
    BY <1>11, IndexedType DEF IndexingFails
  <2>2. hit' \subseteq Versions
    BY <1>11 DEF IndexingFails, Held
  <2> QED
    BY <1>11, <2>1, <2>2 DEF IndexingFails
<1>12. CASE UNCHANGED vars
  BY <1>12 DEF vars
<1> QED
  BY <1>1, <1>2, <1>3, <1>4, <1>5, <1>6, <1>7, <1>8, <1>9, <1>10, <1>11, <1>12
     DEF Next, EditorStep, WorkerStep

LEMMA PlacesStep == TypeOK /\ Targeted /\ Held /\ [Next]_vars => Targeted' /\ Held'
<1> SUFFICES ASSUME TypeOK, Targeted, Held, [Next]_vars PROVE Targeted' /\ Held'
  OBVIOUS
<1> USE DEF TypeOK, Targeted, Held, Versions, Answered, JobDone, editorVars, workerVars
<1>1. ASSUME NEW e \in Editors, NewDraft(e) PROVE Targeted' /\ Held'
  BY <1>1 DEF NewDraft
<1>2. ASSUME NEW e \in Editors, InsertDraft(e) PROVE Targeted' /\ Held'
  BY <1>2 DEF InsertDraft
<1>3. ASSUME NEW e \in Editors, SelectPublished(e) PROVE Targeted' /\ Held'
  BY <1>3 DEF SelectPublished
<1>4. ASSUME NEW e \in Editors, CommitPublish(e) PROVE Targeted' /\ Held'
  BY <1>4 DEF CommitPublish
<1>5. ASSUME NEW e \in Editors, EnqueueIndexing(e) PROVE Targeted' /\ Held'
  BY <1>5 DEF EnqueueIndexing
<1>6. ASSUME NEW e \in Editors, RequestFails(e) PROVE Targeted' /\ Held'
  BY <1>6 DEF RequestFails
<1>7. ASSUME NEW e \in Editors, NEW v \in Versions, NEW op \in {"publish", "rollback"},
             Open(e, v, op)
      PROVE  Targeted' /\ Held'
  BY <1>7 DEF Open
<1>8. ASSUME NEW w \in Workers, NEW v \in Versions, Start(w, v) PROVE Targeted' /\ Held'
  BY <1>8 DEF Start
<1>9. ASSUME NEW w \in Workers, Load(w) PROVE Targeted' /\ Held'
  BY <1>9 DEF Load
<1>10. ASSUME NEW w \in Workers, CommitIndex(w) PROVE Targeted' /\ Held'
  BY <1>10 DEF CommitIndex
<1>11. ASSUME NEW w \in Workers, IndexingFails(w) PROVE Targeted' /\ Held'
  BY <1>11 DEF IndexingFails
<1>12. CASE UNCHANGED vars
  BY <1>12 DEF vars
<1> QED
  BY <1>1, <1>2, <1>3, <1>4, <1>5, <1>6, <1>7, <1>8, <1>9, <1>10, <1>11, <1>12
     DEF Next, EditorStep, WorkerStep

\* The job a published version waits for.
Awaits(v) ==
  \/ \E e \in Editors : epc[e] = "enqueue" /\ target[e] = v
  \/ queue[v] > 0
  \/ \E w \in Workers : doing[w] = v /\ (wpc[w] = "load" \/ seen[w] # "ready")

LEMMA JobStep == IInv /\ [Next]_vars => PublishedHasJob'
<1> SUFFICES ASSUME IInv, [Next]_vars,
                    NEW v \in Versions, status'[v] = "published", v \notin hit'
             PROVE  Awaits(v)'
  BY DEF PublishedHasJob, Published, Awaits
\* Whatever was published before had its job.
<1>0. status[v] = "published" /\ v \notin hit => Awaits(v)
  BY DEF IInv, PublishedHasJob, Published, Awaits
<1> USE DEF IInv, TypeOK, Answered, JobDone, editorVars, workerVars
<1>1. ASSUME NEW e \in Editors, NewDraft(e) PROVE Awaits(v)'
  BY <1>0, <1>1 DEF NewDraft, Awaits
<1>2. ASSUME NEW e \in Editors, InsertDraft(e) PROVE Awaits(v)'
  BY <1>0, <1>2 DEF InsertDraft, Awaits
<1>3. ASSUME NEW e \in Editors, SelectPublished(e) PROVE Awaits(v)'
  BY <1>0, <1>3 DEF SelectPublished, Awaits
<1>4. ASSUME NEW e \in Editors, CommitPublish(e) PROVE Awaits(v)'
  <2>1. v = target[e] \/ status[v] = "published"
    BY <1>4, CommitPublishes DEF CommitPublish
  <2>2. CASE v = target[e]
    BY <1>4, <2>2 DEF CommitPublish, Awaits
  <2>3. CASE status[v] = "published"
    BY <1>0, <1>4, <2>3 DEF CommitPublish, Awaits
  <2> QED
    BY <2>1, <2>2, <2>3
<1>5. ASSUME NEW e \in Editors, EnqueueIndexing(e) PROVE Awaits(v)'
  <2>1. CASE v = target[e]
    BY <1>5, <2>1 DEF EnqueueIndexing, Awaits
  <2>2. CASE v # target[e]
    BY <1>0, <1>5, <2>2 DEF EnqueueIndexing, Awaits
  <2> QED
    BY <2>1, <2>2
\* A failed commit or enqueue puts the target among the versions that were hit.
<1>6. ASSUME NEW e \in Editors, RequestFails(e) PROVE Awaits(v)'
  <2>1. v \notin hit /\ (epc[e] \in {"commit", "enqueue"} => v # target[e])
    BY <1>6 DEF RequestFails
  <2>2. status[v] = "published"
    BY <1>6, <2>1, CommitPublishes DEF RequestFails
  <2>3. queue[v] > 0 => queue'[v] > 0
    BY <1>6 DEF RequestFails
  <2> QED
    BY <1>0, <1>6, <2>1, <2>2, <2>3 DEF RequestFails, Awaits
<1>7. ASSUME NEW e \in Editors, NEW u \in Versions, NEW op \in {"publish", "rollback"},
             Open(e, u, op)
      PROVE  Awaits(v)'
  BY <1>0, <1>7 DEF Open, Awaits
<1>8. ASSUME NEW w \in Workers, NEW u \in Versions, Start(w, u) PROVE Awaits(v)'
  <2>1. CASE u = v
    BY <1>8, <2>1 DEF Start, Awaits
  <2>2. CASE u # v
    BY <1>0, <1>8, <2>2 DEF Start, Awaits, Held, Versions
  <2> QED
    BY <2>1, <2>2
\* A job that loads a published version will not take it for READY.
<1>9. ASSUME NEW w \in Workers, Load(w) PROVE Awaits(v)'
  BY <1>0, <1>9 DEF Load, Awaits
<1>10. ASSUME NEW w \in Workers, CommitIndex(w) PROVE Awaits(v)'
  <2>1. status[v] = "published" /\ (v = doing[w] => seen[w] = "ready")
    BY <1>10, IndexedLeaves DEF CommitIndex
  <2> QED
    BY <1>0, <1>10, <2>1 DEF CommitIndex, Awaits
<1>11. ASSUME NEW w \in Workers, IndexingFails(w) PROVE Awaits(v)'
  <2>1. status[v] = "published" /\ v # doing[w] /\ v \notin hit
    BY <1>11, IndexedLeaves DEF IndexingFails
  <2> QED
    BY <1>0, <1>11, <2>1 DEF IndexingFails, Awaits
<1>12. CASE UNCHANGED vars
  BY <1>0, <1>12 DEF vars, Awaits
<1> QED
  BY <1>1, <1>2, <1>3, <1>4, <1>5, <1>6, <1>7, <1>8, <1>9, <1>10, <1>11, <1>12
     DEF Next, EditorStep, WorkerStep

-----------------------------------------------------------------------------
LEMMA InitIInv == Init => IInv
BY ConstantAssumption
   DEF Init, IInv, TypeOK, Targeted, Held, PublishedHasJob, Published, Statuses, Versions

\* Every reachable state satisfies the inductive invariant.
THEOREM Invariance == Spec => []IInv
<1>1. IInv /\ [Next]_vars => IInv'
  BY TypeStep, PlacesStep, JobStep DEF IInv
<1> QED
  BY InitIInv, <1>1, PTL DEF Spec

\* The state of requests, jobs and version rows stays within TypeOK.
THEOREM TypeCorrect == Spec => []TypeOK
<1>1. IInv => TypeOK
  BY DEF IInv
<1> QED
  BY Invariance, <1>1, PTL

\* A published version always has an indexing job ahead of it, unless a failure
\* hit its enqueue or its job: however many requests publish, republish and roll
\* back it and its siblings, and however many workers index it at once.
THEOREM PublishedVersionsHaveJobs == Spec => []PublishedHasJob
<1>1. IInv => PublishedHasJob
  BY DEF IInv
<1> QED
  BY Invariance, <1>1, PTL
-----------------------------------------------------------------------------
(* Each published version has an owner, the request that wrote it last, and *)
(* no request owns two: what it published before it has selected since.    *)

\* A request about to commit archives what it owns, its target excepted.
Owned(owner) ==
  /\ \A u, v \in Published : owner[u] = owner[v] => u = v
  /\ \A e \in Editors : epc[e] = "commit" =>
       \A v \in Published : owner[v] = e => v \in others[e] \cup {target[e]}

OwnInv == \E owner \in [Published -> Editors] : Owned(owner)

\* Owners remain when no version is published and no request reaches its commit.
LEMMA OwnersKept ==
  ASSUME OwnInv, Published' \subseteq Published,
         \A e \in Editors : epc'[e] = "commit" =>
           epc[e] = "commit" /\ others'[e] = others[e] /\ target'[e] = target[e]
  PROVE  OwnInv'
<1>1. PICK owner \in [Published -> Editors] : Owned(owner)
  BY DEF OwnInv
<1> DEFINE kept == [v \in Published' |-> owner[v]]
<1>2. kept \in [Published' -> Editors] /\ \A v \in Published' : kept[v] = owner[v] /\ v \in Published
  BY <1>1
<1> HIDE DEF kept
<1>3. \A u, v \in Published' : kept[u] = kept[v] => u = v
  BY <1>1, <1>2 DEF Owned
<1>4. ASSUME NEW e \in Editors, epc'[e] = "commit", NEW v \in Published', kept[v] = e
      PROVE  v \in others'[e] \cup {target'[e]}
  BY <1>1, <1>2, <1>4 DEF Owned
<1> QED
  BY <1>2, <1>3, <1>4 DEF OwnInv, Owned

LEMMA OwnersSelected ==
  ASSUME TypeOK, OwnInv, NEW e \in Editors, SelectPublished(e)
  PROVE  OwnInv'
<1>1. PICK owner \in [Published -> Editors] : Owned(owner)
  BY DEF OwnInv
<1>2. Published' = Published /\ target' = target
  BY DEF SelectPublished, Published
<1>3. others'[e] = Published \ {target[e]}
  BY DEF SelectPublished, TypeOK
<1>4. ASSUME NEW f \in Editors, f # e
      PROVE  epc'[f] = epc[f] /\ others'[f] = others[f]
  BY <1>4 DEF SelectPublished, TypeOK
<1>5. ASSUME NEW f \in Editors, epc'[f] = "commit", NEW v \in Published, owner[v] = f
      PROVE  v \in others'[f] \cup {target'[f]}
  BY <1>1, <1>2, <1>3, <1>4, <1>5 DEF Owned
<1>6. \A u, v \in Published' : owner[u] = owner[v] => u = v
  BY <1>1, <1>2 DEF Owned
<1> QED
  BY <1>1, <1>2, <1>5, <1>6 DEF OwnInv, Owned

\* A commit makes its request the owner of the target and of nothing else.
LEMMA OwnersCommitted ==
  ASSUME TypeOK, OwnInv, NEW e \in Editors, epc[e] = "commit", status' = PublishedRows(e),
         epc'[e] # "commit",
         \A f \in Editors \ {e} : epc'[f] = epc[f] /\ others'[f] = others[f] /\ target'[f] = target[f]
  PROVE  OwnInv'
<1>1. PICK owner \in [Published -> Editors] : Owned(owner)
  BY DEF OwnInv
<1> DEFINE writes == loaded[e] # "published"
           next == [v \in Published' |-> IF v = target[e] /\ writes THEN e ELSE owner[v]]
<1>2. \A v \in Published' : (v = target[e] /\ writes) \/ (v \in Published /\ v \notin others[e])
  BY DEF Published, PublishedRows
<1>3. /\ next \in [Published' -> Editors]
      /\ \A v \in Published' : next[v] = IF v = target[e] /\ writes THEN e ELSE owner[v]
  BY <1>1, <1>2
<1> HIDE DEF next
\* What it owned before is the target or archived.
<1>4. \A v \in Published' : next[v] = e => v = target[e]
  BY <1>1, <1>2, <1>3 DEF Owned
<1>5. ASSUME NEW u \in Published', NEW v \in Published', next[u] = next[v] PROVE u = v
  <2>1. CASE next[u] = e
    BY <1>4, <1>5, <2>1
  <2>2. CASE next[u] # e
    BY <1>1, <1>2, <1>3, <1>5, <2>2 DEF Owned
  <2> QED
    BY <2>1, <2>2
<1>6. ASSUME NEW f \in Editors, epc'[f] = "commit", NEW v \in Published', next[v] = f
      PROVE  v \in others'[f] \cup {target'[f]}
  <2>1. f # e /\ epc[f] = "commit" /\ others'[f] = others[f] /\ target'[f] = target[f]
    BY <1>6
  <2>2. v \in Published /\ owner[v] = f
    BY <1>2, <1>3, <1>6, <2>1
  <2> QED
    BY <1>1, <2>1, <2>2 DEF Owned
<1> QED
  BY <1>3, <1>5, <1>6 DEF OwnInv, Owned

LEMMA OwnStep == IInv /\ OwnInv /\ [Next]_vars => OwnInv'
<1> SUFFICES ASSUME IInv, OwnInv, [Next]_vars PROVE OwnInv'
  OBVIOUS
<1>0. TypeOK
  BY DEF IInv
<1> USE DEF Answered, JobDone, editorVars, workerVars
<1>1. ASSUME NEW e \in Editors, NewDraft(e) PROVE OwnInv'
  <2>1. Published' = Published /\ others' = others
    BY <1>1 DEF NewDraft, Published
  <2>2. \A f \in Editors : epc'[f] = "commit" => epc[f] = "commit" /\ target'[f] = target[f]
    BY <1>0, <1>1 DEF NewDraft, TypeOK
  <2> QED
    BY <2>1, <2>2, OwnersKept
<1>2. ASSUME NEW e \in Editors, InsertDraft(e) PROVE OwnInv'
  <2>1. Published' \subseteq Published
    BY <1>0, <1>2 DEF InsertDraft, Published, TypeOK
  <2>2. \A f \in Editors : epc'[f] = "commit" =>
          epc[f] = "commit" /\ others'[f] = others[f] /\ target'[f] = target[f]
    BY <1>0, <1>2 DEF InsertDraft, TypeOK
  <2> QED
    BY <2>1, <2>2, OwnersKept
<1>3. ASSUME NEW e \in Editors, SelectPublished(e) PROVE OwnInv'
  BY <1>0, <1>3, OwnersSelected
<1>4. ASSUME NEW e \in Editors, CommitPublish(e) PROVE OwnInv'
  <2>1. /\ epc[e] = "commit" /\ status' = PublishedRows(e) /\ epc'[e] # "commit"
        /\ \A f \in Editors \ {e} : epc'[f] = epc[f] /\ others'[f] = others[f] /\ target'[f] = target[f]
    BY <1>0, <1>4 DEF CommitPublish, TypeOK
  <2> QED
    BY <1>0, <2>1, OwnersCommitted
<1>5. ASSUME NEW e \in Editors, EnqueueIndexing(e) PROVE OwnInv'
  <2>1. Published' = Published
    BY <1>5 DEF EnqueueIndexing, Published
  <2>2. \A f \in Editors : epc'[f] = "commit" =>
          epc[f] = "commit" /\ others'[f] = others[f] /\ target'[f] = target[f]
    BY <1>0, <1>5 DEF EnqueueIndexing, TypeOK
  <2> QED
    BY <2>1, <2>2, OwnersKept
<1>6. ASSUME NEW e \in Editors, RequestFails(e) PROVE OwnInv'
  <2>1. /\ epc'[e] # "commit"
        /\ \A f \in Editors \ {e} : epc'[f] = epc[f] /\ others'[f] = others[f] /\ target'[f] = target[f]
    BY <1>0, <1>6 DEF RequestFails, TypeOK
  <2>2. CASE epc[e] = "commit" /\ status' = PublishedRows(e)
    BY <1>0, <2>1, <2>2, OwnersCommitted
  <2>3. CASE status' = status
    <3>1. Published' = Published
      BY <2>3 DEF Published
    <3> QED
      BY <2>1, <3>1, OwnersKept
  <2> QED
    BY <1>6, <2>2, <2>3 DEF RequestFails
<1>7. ASSUME NEW e \in Editors, NEW v \in Versions, NEW op \in {"publish", "rollback"},
             Open(e, v, op)
      PROVE  OwnInv'
  <2>1. Published' = Published /\ others' = others
    BY <1>7 DEF Open, Published
  <2>2. \A f \in Editors : epc'[f] = "commit" => epc[f] = "commit" /\ target'[f] = target[f]
    BY <1>0, <1>7 DEF Open, TypeOK
  <2> QED
    BY <2>1, <2>2, OwnersKept
\* A job publishes nothing.
<1>8. ASSUME UNCHANGED editorVars, Published' \subseteq Published PROVE OwnInv'
  <2>1. epc' = epc /\ others' = others /\ target' = target
    BY <1>8
  <2> QED
    BY <1>8, <2>1, OwnersKept
<1>9. ASSUME NEW w \in Workers, (\E v \in Versions : Start(w, v)) \/ Load(w) PROVE OwnInv'
  <2>1. Published' = Published
    BY <1>9 DEF Start, Load, Published
  <2> QED
    BY <1>8, <1>9, <2>1 DEF Start, Load
<1>10. ASSUME NEW w \in Workers, CommitIndex(w) \/ IndexingFails(w) PROVE OwnInv'
  <2>1. status' = status \/ status' = Indexed(w)
    BY <1>10 DEF CommitIndex, IndexingFails
  <2>2. Published' \subseteq Published
    BY <1>0, <2>1, IndexedLeaves DEF Published
  <2> QED
    BY <1>8, <1>10, <2>2 DEF CommitIndex, IndexingFails
<1>11. CASE UNCHANGED vars
  <2>1. Published' = Published
    BY <1>11 DEF vars, Published
  <2> QED
    BY <1>8, <1>11, <2>1 DEF vars
<1> QED
  BY <1>1, <1>2, <1>3, <1>4, <1>5, <1>6, <1>7, <1>9, <1>10, <1>11
     DEF Next, EditorStep, WorkerStep

LEMMA InitOwn == Init => OwnInv
<1> SUFFICES ASSUME Init PROVE OwnInv
  OBVIOUS
<1>1. Published = {}
  BY DEF Init, Published
<1>2. [v \in {} |-> v] \in [Published -> Editors]
  BY <1>1
<1>3. Owned([v \in {} |-> v])
  BY <1>1 DEF Init, Owned
<1> QED
  BY <1>2, <1>3 DEF OwnInv

LEMMA OwnersBound == OwnInv => PublishedBounded
<1> SUFFICES ASSUME OwnInv PROVE Cardinality(Published) <= Cardinality(Editors)
  BY DEF PublishedBounded
<1>1. PICK owner \in [Published -> Editors] : Owned(owner)
  BY DEF OwnInv
<1>2. owner \in Injection(Published, Editors)
  BY <1>1 DEF Owned, Injection, IsInjective
<1> QED
  BY <1>2, FS_Injection, ConstantAssumption

\* However requests overlap and fail, no more versions of a document say "published"
\* at once than requests are in progress at once: every request archives what it
\* published before when it publishes again.
THEOREM PublishedVersionsBounded == Spec => []PublishedBounded
<1>1. OwnInv /\ IInv /\ [Next]_vars => OwnInv'
  BY OwnStep
<1> QED
  BY Invariance, InitOwn, <1>1, OwnersBound, PTL DEF Spec
=============================================================================
