------------------------- MODULE Provisioning_proofs -------------------------
(***************************************************************************)
(* Proofs about Provisioning for every number of requests, workers and     *)
(* groups and every quota.                                                 *)
(***************************************************************************)
EXTENDS Provisioning, FiniteSetTheorems, TLAPS

USE ProvisioningAssumption

-----------------------------------------------------------------------------
(* The parts of the inductive invariants.                                  *)

Taking(r) == req[r].pc \in {"free", "bind"}
Building(r) == req[r].pc \in {"build", "enqueue"}

\* A request that is about to bind a group has a number of its own, and no row yet.
Fresh ==
  /\ \A r \in Requests : Taking(r) =>
       /\ req[r].id \in Bindings /\ req[r].id <= asked["bind"]
       /\ binding[req[r].id].status = "absent"
       /\ \A s \in Requests : Taking(s) /\ req[s].id = req[r].id => s = r
  /\ \A b \in Bindings : b > asked["bind"] => binding[b].status = "absent"

\* What an unbind request has loaded can only have become inactive.
Leaving ==
  \A r \in Requests : req[r].pc = "unbind" =>
    /\ req[r].id \in Bindings /\ binding[req[r].id].status # "absent"
    /\ req[r].loaded = "inactive" => binding[req[r].id].status = "inactive"

\* The partial unique index.
OneActive ==
  \A b, c \in Bindings :
    binding[b].status = "active" /\ binding[c].status = "active" /\ binding[b].group = binding[c].group
      => b = c

BindInv == Fresh /\ Leaving /\ OneActive /\ BindingsAgree

-----------------------------------------------------------------------------
(* Types.                                                                  *)

LEMMA IdleType == Idle.pc = "idle" /\ Idle.id = 0 /\ Idle.group \in Groups /\ Idle.others = {}
                  /\ Idle = [pc |-> "idle", id |-> 0, group |-> Idle.group, loaded |-> "absent", others |-> {}]
BY DEF Idle, NoBinding

RequestStates == {"idle", "draft", "select", "publish", "free", "bind", "notify", "unbind", "build", "enqueue"}
RequestRows == [pc : RequestStates, id : Nat, group : Groups,
                loaded : VersionStates \cup {"active", "inactive"}, others : SUBSET Versions]

LEMMA CountType == Cardinality({v \in Versions : version[v] # "absent"}) + 1 \in Nat
<1>1. IsFiniteSet(Versions)
  <2>1. Quota["draft"] \in Nat
    BY DEF Kinds
  <2> QED
    BY <2>1, FS_Interval DEF Versions
<1>2. IsFiniteSet({v \in Versions : version[v] # "absent"})
  BY <1>1, FS_Subset
<1> QED
  BY <1>2, FS_CardinalityType

\* A request that is opened, goes on or is answered has a row of the right type.
LEMMA OpenType ==
  ASSUME TypeOK, NEW r \in Requests, NEW kind \in Kinds, NEW read \in RequestRows, Open(r, kind, read)
  PROVE  req' \in [Requests -> RequestRows] /\ asked' \in [Kinds -> Nat]
BY DEF TypeOK, Open, RequestRows, RequestStates

LEMMA GoesType ==
  ASSUME TypeOK, NEW r \in Requests, NEW pc \in RequestStates, Goes(r, pc)
  PROVE  req' \in [Requests -> RequestRows]
BY DEF TypeOK, Goes, RequestRows, RequestStates

LEMMA AnsweredType ==
  ASSUME TypeOK, NEW r \in Requests, Answered(r)
  PROVE  req' \in [Requests -> RequestRows]
<1>1. Idle \in RequestRows
  BY DEF Idle, NoBinding, RequestRows, RequestStates, VersionStates
<1> QED
  BY <1>1 DEF TypeOK, Answered, RequestRows, RequestStates

BindingRows == [group : Groups, status : {"absent", "active", "inactive"}, agent : {"none", "healthy", "stopped"}]

LEMMA BoundType ==
  ASSUME TypeOK, NEW r \in Requests, Bound(r)
  PROVE  binding' \in [Bindings -> BindingRows]
BY DEF TypeOK, Bound, BindingRows

LEMMA UnboundType ==
  ASSUME TypeOK, NEW r \in Requests
  PROVE  Unbound(r) \in [Bindings -> BindingRows]
<1> DEFINE once == [binding EXCEPT ![req[r].id].status = "inactive"]
<1>1. binding \in [Bindings -> BindingRows]
  BY DEF TypeOK, BindingRows
<1>2. once \in [Bindings -> BindingRows]
  BY <1>1 DEF BindingRows
<1> HIDE DEF once
<1>3. [once EXCEPT ![req[r].id].agent = "stopped"] \in [Bindings -> BindingRows]
  BY <1>2 DEF BindingRows
<1> QED
  BY <1>1, <1>3 DEF Unbound, once

LEMMA RepublishedType ==
  ASSUME TypeOK, NEW r \in Requests
  PROVE  Republished(r) \in [Versions -> VersionStates]
BY DEF TypeOK, Republished, VersionStates

\* Numbers that requests and workers carry are those of rows.
Numbered ==
  /\ \A r \in Requests : req[r].pc \in {"free", "bind"} => req[r].id \in Bindings
  /\ \A r \in Requests : Building(r) => req[r].id \in Builds
  /\ \A w \in Workers : wpc[w] # "idle" => doing[w] \in Builds
  /\ \A w \in Workers : wpc[w] = "idle" => doing[w] = 0

Typed == TypeOK /\ Numbered

LEMMA TypeStep == Typed /\ [Next]_vars => TypeOK'
<1> SUFFICES ASSUME TypeOK, Numbered, [Next]_vars PROVE TypeOK'
  BY DEF Typed
<1> USE DEF Kinds, RequestRows, RequestStates, VersionStates, BindingRows, rowVars, workerVars
<1>1. ASSUME NEW r \in Requests, Draft(r) PROVE TypeOK'
  <2> DEFINE read == [Idle EXCEPT !.pc = "draft", !.id = Cardinality({v \in Versions : version[v] # "absent"}) + 1]
  <2>1. read \in RequestRows
    BY CountType DEF TypeOK, Idle, NoBinding
  <2>2. Open(r, "draft", read)
    BY <1>1 DEF Draft
  <2> HIDE DEF read
  <2>3. req' \in [Requests -> RequestRows] /\ asked' \in [Kinds -> Nat]
    BY <2>1, <2>2, OpenType
  <2> QED
    BY <1>1, <2>3 DEF Draft, TypeOK
<1>2. ASSUME NEW r \in Requests, AskBuild(r) PROVE TypeOK'
  <2> DEFINE read == [Idle EXCEPT !.pc = "build", !.id = asked["build"] + 1]
  <2>1. read \in RequestRows
    <3>1. asked["build"] + 1 \in Nat
      BY DEF TypeOK
    <3> QED
      BY <3>1 DEF Idle, NoBinding
  <2>2. Open(r, "build", read)
    BY <1>2 DEF AskBuild
  <2> HIDE DEF read
  <2>3. req' \in [Requests -> RequestRows] /\ asked' \in [Kinds -> Nat]
    BY <2>1, <2>2, OpenType
  <2> QED
    BY <1>2, <2>3 DEF AskBuild, TypeOK
<1>3. ASSUME NEW r \in Requests, NEW v \in Versions, Publish(r, v) PROVE TypeOK'
  <2> DEFINE read == [Idle EXCEPT !.pc = "select", !.id = v, !.loaded = version[v]]
  <2>1. read \in RequestRows
    <3>1. v \in Nat
      BY DEF Versions
    <3>2. version[v] \in VersionStates
      BY DEF TypeOK
    <3> QED
      BY <3>1, <3>2 DEF Idle, NoBinding
  <2>2. Open(r, "publish", read)
    BY <1>3 DEF Publish
  <2> HIDE DEF read
  <2>3. req' \in [Requests -> RequestRows] /\ asked' \in [Kinds -> Nat]
    BY <2>1, <2>2, OpenType
  <2> QED
    BY <1>3, <2>3 DEF Publish, TypeOK
<1>4. ASSUME NEW r \in Requests, NEW g \in Groups, Bind(r, g) PROVE TypeOK'
  <2> DEFINE read == [Idle EXCEPT !.pc = "free", !.id = asked["bind"] + 1, !.group = g]
  <2>1. read \in RequestRows
    <3>1. asked["bind"] + 1 \in Nat
      BY DEF TypeOK
    <3> QED
      BY <3>1 DEF Idle, NoBinding
  <2>2. Open(r, "bind", read)
    BY <1>4 DEF Bind
  <2> HIDE DEF read
  <2>3. req' \in [Requests -> RequestRows] /\ asked' \in [Kinds -> Nat]
    BY <2>1, <2>2, OpenType
  <2> QED
    BY <1>4, <2>3 DEF Bind, TypeOK
<1>5. ASSUME NEW r \in Requests, NEW b \in Bindings, Unbind(r, b) PROVE TypeOK'
  <2> DEFINE read == [Idle EXCEPT !.pc = "unbind", !.id = b, !.loaded = binding[b].status]
  <2>1. read \in RequestRows
    <3>1. b \in Nat /\ binding[b].status \in {"absent", "active", "inactive"}
      BY DEF TypeOK, Bindings
    <3> QED
      BY <3>1 DEF Idle, NoBinding
  <2>2. Open(r, "unbind", read)
    BY <1>5 DEF Unbind
  <2> HIDE DEF read
  <2>3. req' \in [Requests -> RequestRows] /\ asked' \in [Kinds -> Nat]
    BY <2>1, <2>2, OpenType
  <2> QED
    BY <1>5, <2>3 DEF Unbind, TypeOK
<1>6. ASSUME NEW r \in Requests, InsertDraft(r) PROVE TypeOK'
  <2>1. version' \in [Versions -> VersionStates]
    BY <1>6 DEF InsertDraft, TypeOK
  <2> QED
    BY <1>6, <2>1, AnsweredType DEF InsertDraft, TypeOK
<1>7. ASSUME NEW r \in Requests, SelectPublished(r) PROVE TypeOK'
  <2>1. Published \ {req[r].id} \in SUBSET Versions
    BY DEF Published
  <2>2. req' \in [Requests -> RequestRows]
    BY <1>7, <2>1 DEF SelectPublished, TypeOK
  <2> QED
    BY <1>7, <2>2 DEF SelectPublished, TypeOK
<1>8. ASSUME NEW r \in Requests, CommitPublish(r) PROVE TypeOK'
  BY <1>8, AnsweredType, RepublishedType DEF CommitPublish, TypeOK
<1>9. ASSUME NEW r \in Requests, CheckFree(r) PROVE TypeOK'
  BY <1>9, AnsweredType, GoesType DEF CheckFree, TypeOK
<1>10. ASSUME NEW r \in Requests, CommitBind(r) PROVE TypeOK'
  <2>1. CASE Conflict(req[r].group)
    BY <1>10, <2>1, AnsweredType DEF CommitBind, TypeOK
  <2>2. CASE ~Conflict(req[r].group)
    <3>1. noticed' \subseteq Bindings
      BY <1>10, <2>2 DEF CommitBind, Bound, TypeOK, Numbered
    <3> QED
      BY <1>10, <2>2, <3>1, GoesType, BoundType DEF CommitBind, Bound, TypeOK
  <2> QED
    BY <2>1, <2>2
<1>11. ASSUME NEW r \in Requests, Notify(r) PROVE TypeOK'
  BY <1>11, AnsweredType DEF Notify, TypeOK
<1>12. ASSUME NEW r \in Requests, CommitUnbind(r) PROVE TypeOK'
  BY <1>12, AnsweredType, UnboundType DEF CommitUnbind, TypeOK
<1>13. ASSUME NEW r \in Requests, CommitBuild(r) PROVE TypeOK'
  <2>1. build' \in [Builds -> BuildStates]
    BY <1>13 DEF CommitBuild, TypeOK, BuildStates
  <2> QED
    BY <1>13, <2>1, GoesType DEF CommitBuild, TypeOK
<1>14. ASSUME NEW r \in Requests, EnqueueBuild(r) PROVE TypeOK'
  <2>1. jobs' \subseteq Builds
    BY <1>14 DEF EnqueueBuild, TypeOK, Numbered, Building
  <2> QED
    BY <1>14, <2>1, AnsweredType DEF EnqueueBuild, TypeOK
<1>15. ASSUME NEW r \in Requests, RequestFails(r) PROVE TypeOK'
  <2>1. version' \in [Versions -> VersionStates]
    BY <1>15, RepublishedType DEF RequestFails, TypeOK, Bound
  <2>2. binding' \in [Bindings -> BindingRows] /\ noticed' \subseteq Bindings
    BY <1>15, BoundType DEF RequestFails, TypeOK, Bound, Numbered
  <2>3. build' \in [Builds -> BuildStates]
    BY <1>15 DEF RequestFails, TypeOK, Bound, BuildStates
  <2>4. jobs' \subseteq Builds /\ dropped' \subseteq Builds
    BY <1>15 DEF RequestFails, TypeOK, Bound, Numbered, Building
  <2> QED
    BY <1>15, <2>1, <2>2, <2>3, <2>4, AnsweredType DEF RequestFails, TypeOK
<1>16. ASSUME NEW w \in Workers, MarkRunning(w) PROVE TypeOK'
  BY <1>16 DEF MarkRunning, StepTo, TypeOK, BuildStates
<1>17. ASSUME NEW w \in Workers, Docker(w) PROVE TypeOK'
  BY <1>17 DEF Docker, StepTo, TypeOK, Numbered
<1>18. ASSUME NEW w \in Workers, CommitOutcome(w) PROVE TypeOK'
  BY <1>18 DEF CommitOutcome, Outcome, JobDone, StepTo, TypeOK, BuildStates
<1>19. ASSUME NEW w \in Workers, LogTooLong(w) PROVE TypeOK'
  BY <1>19 DEF LogTooLong, JobDone, StepTo, TypeOK, Numbered
<1>20. ASSUME NEW w \in Workers, JobFails(w) PROVE TypeOK'
  BY <1>20 DEF JobFails, Outcome, JobDone, StepTo, TypeOK, Numbered, BuildStates
<1>21. ASSUME NEW w \in Workers, NEW b \in Builds, Start(w, b) PROVE TypeOK'
  BY <1>21 DEF Start, StepTo, TypeOK
<1>22. CASE UNCHANGED vars
  BY <1>22 DEF vars, TypeOK
<1> QED
  BY <1>1, <1>2, <1>3, <1>4, <1>5, <1>6, <1>7, <1>8, <1>9, <1>10, <1>11, <1>12, <1>13, <1>14, <1>15,
     <1>16, <1>17, <1>18, <1>19, <1>20, <1>21, <1>22
     DEF Next, RequestStep, WorkerStep

\* What a step of one request does to its row, and that it leaves the others alone.
Only(r) == \A s \in Requests \ {r} : req'[s] = req[s]

LEMMA OnlyOpen ==
  ASSUME TypeOK, NEW r \in Requests, NEW kind \in Kinds, NEW read, Open(r, kind, read)
  PROVE  /\ Only(r) /\ req'[r] = read /\ req[r].pc = "idle"
         /\ asked[kind] < Quota[kind] /\ asked'[kind] = asked[kind] + 1
         /\ \A k \in Kinds \ {kind} : asked'[k] = asked[k]
BY DEF TypeOK, Open, Only

LEMMA OnlyGoes ==
  ASSUME TypeOK, NEW r \in Requests, NEW pc, Goes(r, pc)
  PROVE  Only(r) /\ req'[r].pc = pc /\ req'[r].id = req[r].id
BY DEF TypeOK, Goes, Only

LEMMA OnlyAnswered ==
  ASSUME TypeOK, NEW r \in Requests, Answered(r)
  PROVE  Only(r) /\ req'[r].pc = "idle"
BY DEF TypeOK, Answered, Only, Idle

LEMMA NumberedStep == Typed /\ [Next]_vars => Numbered'
<1> SUFFICES ASSUME TypeOK, Numbered, [Next]_vars PROVE Numbered'
  BY DEF Typed
<1> USE DEF Kinds, rowVars, workerVars, Numbered, Building
<1>a. ASSUME NEW r \in Requests, Only(r), UNCHANGED workerVars,
             \/ req'[r].pc \notin {"free", "bind", "build", "enqueue"}
             \/ req'[r].pc \in {"free", "bind"} /\ req'[r].id \in Bindings
             \/ req'[r].pc \in {"build", "enqueue"} /\ req'[r].id \in Builds
      PROVE  Numbered'
  <2>1. UNCHANGED <<wpc, doing>>
    BY <1>a
  <2>2. ASSUME NEW s \in Requests PROVE req'[s] = req[s] \/ s = r
    BY <1>a DEF Only
  <2> QED
    BY <1>a, <2>1, <2>2
<1>1. ASSUME NEW r \in Requests, Draft(r) PROVE Numbered'
  <2> DEFINE read == [Idle EXCEPT !.pc = "draft", !.id = Cardinality({v \in Versions : version[v] # "absent"}) + 1]
  <2>0. Open(r, "draft", read)
    BY <1>1 DEF Draft
  <2>1. Only(r) /\ req'[r] = read
    <3> HIDE DEF read
    <3> QED
      BY <2>0, OnlyOpen
  <2>2. req'[r].pc = "draft"
    BY <2>1 DEF Idle
  <2> QED
    BY <1>1, <1>a, <2>1, <2>2 DEF Draft
<1>2. ASSUME NEW r \in Requests, AskBuild(r) PROVE Numbered'
  <2> DEFINE read == [Idle EXCEPT !.pc = "build", !.id = asked["build"] + 1]
  <2>0. Open(r, "build", read)
    BY <1>2 DEF AskBuild
  <2>1. Only(r) /\ req'[r] = read /\ asked["build"] < Quota["build"]
    <3> HIDE DEF read
    <3> QED
      BY <2>0, OnlyOpen
  <2>2. req'[r].pc = "build" /\ req'[r].id = asked["build"] + 1
    BY <2>1 DEF Idle
  <2>3. asked["build"] + 1 \in Builds
    BY <2>1 DEF TypeOK, Builds
  <2> QED
    BY <1>2, <1>a, <2>1, <2>2, <2>3 DEF AskBuild
<1>3. ASSUME NEW r \in Requests, NEW v \in Versions, Publish(r, v) PROVE Numbered'
  <2> DEFINE read == [Idle EXCEPT !.pc = "select", !.id = v, !.loaded = version[v]]
  <2>0. Open(r, "publish", read)
    BY <1>3 DEF Publish
  <2>1. Only(r) /\ req'[r] = read
    <3> HIDE DEF read
    <3> QED
      BY <2>0, OnlyOpen
  <2>2. req'[r].pc = "select"
    BY <2>1 DEF Idle
  <2> QED
    BY <1>3, <1>a, <2>1, <2>2 DEF Publish
<1>4. ASSUME NEW r \in Requests, NEW g \in Groups, Bind(r, g) PROVE Numbered'
  <2> DEFINE read == [Idle EXCEPT !.pc = "free", !.id = asked["bind"] + 1, !.group = g]
  <2>0. Open(r, "bind", read)
    BY <1>4 DEF Bind
  <2>1. Only(r) /\ req'[r] = read /\ asked["bind"] < Quota["bind"]
    <3> HIDE DEF read
    <3> QED
      BY <2>0, OnlyOpen
  <2>2. req'[r].pc = "free" /\ req'[r].id = asked["bind"] + 1
    BY <2>1 DEF Idle
  <2>3. asked["bind"] + 1 \in Bindings
    BY <2>1 DEF TypeOK, Bindings
  <2> QED
    BY <1>4, <1>a, <2>1, <2>2, <2>3 DEF Bind
<1>5. ASSUME NEW r \in Requests, NEW b \in Bindings, Unbind(r, b) PROVE Numbered'
  <2> DEFINE read == [Idle EXCEPT !.pc = "unbind", !.id = b, !.loaded = binding[b].status]
  <2>0. Open(r, "unbind", read)
    BY <1>5 DEF Unbind
  <2>1. Only(r) /\ req'[r] = read
    <3> HIDE DEF read
    <3> QED
      BY <2>0, OnlyOpen
  <2>2. req'[r].pc = "unbind"
    BY <2>1 DEF Idle
  <2> QED
    BY <1>5, <1>a, <2>1, <2>2 DEF Unbind
<1>6. ASSUME NEW r \in Requests, InsertDraft(r) PROVE Numbered'
  BY <1>6, <1>a, OnlyAnswered DEF InsertDraft
<1>7. ASSUME NEW r \in Requests, SelectPublished(r) PROVE Numbered'
  <2>1. Only(r) /\ req'[r].pc = "publish"
    BY <1>7 DEF SelectPublished, Only, TypeOK
  <2> QED
    BY <1>7, <1>a, <2>1 DEF SelectPublished
<1>8. ASSUME NEW r \in Requests, CommitPublish(r) PROVE Numbered'
  BY <1>8, <1>a, OnlyAnswered DEF CommitPublish
<1>9. ASSUME NEW r \in Requests, CheckFree(r) PROVE Numbered'
  BY <1>9, <1>a, OnlyAnswered, OnlyGoes DEF CheckFree
<1>10. ASSUME NEW r \in Requests, CommitBind(r) PROVE Numbered'
  BY <1>10, <1>a, OnlyAnswered, OnlyGoes DEF CommitBind
<1>11. ASSUME NEW r \in Requests, Notify(r) PROVE Numbered'
  BY <1>11, <1>a, OnlyAnswered DEF Notify
<1>12. ASSUME NEW r \in Requests, CommitUnbind(r) PROVE Numbered'
  BY <1>12, <1>a, OnlyAnswered DEF CommitUnbind
<1>13. ASSUME NEW r \in Requests, CommitBuild(r) PROVE Numbered'
  BY <1>13, <1>a, OnlyGoes DEF CommitBuild
<1>14. ASSUME NEW r \in Requests, EnqueueBuild(r) PROVE Numbered'
  BY <1>14, <1>a, OnlyAnswered DEF EnqueueBuild
<1>15. ASSUME NEW r \in Requests, RequestFails(r) PROVE Numbered'
  BY <1>15, <1>a, OnlyAnswered DEF RequestFails
<1>16. ASSUME NEW w \in Workers, WorkerStep(w) \/ LogTooLong(w) \/ JobFails(w) PROVE Numbered'
  BY <1>16 DEF WorkerStep, MarkRunning, Docker, CommitOutcome, LogTooLong, JobFails, JobDone, StepTo, TypeOK
<1>17. ASSUME NEW w \in Workers, NEW b \in Builds, Start(w, b) PROVE Numbered'
  BY <1>17 DEF Start, StepTo, TypeOK
<1>18. CASE UNCHANGED vars
  BY <1>18 DEF vars
<1> QED
  BY <1>1, <1>2, <1>3, <1>4, <1>5, <1>6, <1>7, <1>8, <1>9, <1>10, <1>11, <1>12, <1>13, <1>14, <1>15,
     <1>16, <1>17, <1>18 DEF Next, RequestStep

LEMMA TypedInit == Init => Typed
<1> SUFFICES ASSUME Init PROVE Typed
  OBVIOUS
<1>1. Numbered
  BY DEF Init, Numbered, Building, Idle
<1>2. req \in [Requests -> RequestRows] /\ binding \in [Bindings -> BindingRows]
  BY DEF Init, Idle, NoBinding, RequestRows, RequestStates, VersionStates, BindingRows
<1> QED
  BY <1>1, <1>2 DEF Init, Typed, TypeOK, RequestRows, RequestStates, VersionStates, BuildStates, BindingRows

LEMMA TypedNext == Typed /\ [Next]_vars => Typed'
BY TypeStep, NumberedStep DEF Typed

\* Every variable keeps its type, for any number of requests, workers and groups.
THEOREM TypeCorrect == Spec => []TypeOK
<1>1. Typed => TypeOK
  BY DEF Typed
<1> QED
  BY <1>1, TypedInit, TypedNext, PTL DEF Spec

-----------------------------------------------------------------------------
(* Bindings: a step binds a group, unbinds one, begins either, or leaves   *)
(* the rows and the requests that will change them alone.                  *)

Steady ==
  /\ UNCHANGED <<binding, noticed>> /\ asked'["bind"] = asked["bind"]
  /\ \A r \in Requests :
       /\ req'[r].pc \in {"free", "bind"} => req[r].pc \in {"free", "bind"} /\ req'[r].id = req[r].id
       /\ req'[r].pc = "unbind" => req'[r] = req[r]

Taken(r) ==
  /\ req[r].pc = "bind" /\ ~Conflict(req[r].group)
  /\ Bound(r) /\ Only(r) /\ req'[r].pc \in {"notify", "idle"}
  /\ UNCHANGED asked

LEMMA KindsOfSteps ==
  ASSUME TypeOK, [Next]_vars
  PROVE  \/ Steady
         \/ \E r \in Requests : \/ Taken(r) \/ CommitUnbind(r)
                               \/ \E g \in Groups : Bind(r, g)
                               \/ \E b \in Bindings : Unbind(r, b)
<1> USE DEF Kinds, rowVars, workerVars
<1>a. ASSUME NEW r \in Requests, Only(r), UNCHANGED <<binding, noticed>>, asked'["bind"] = asked["bind"],
             \/ req'[r].pc \notin {"free", "bind", "unbind"}
             \/ req'[r].pc = "bind" /\ req[r].pc = "free" /\ req'[r].id = req[r].id
      PROVE  Steady
  BY <1>a DEF Steady, Only
<1>1. ASSUME NEW r \in Requests, Draft(r) PROVE Steady
  <2> DEFINE read == [Idle EXCEPT !.pc = "draft", !.id = Cardinality({v \in Versions : version[v] # "absent"}) + 1]
  <2>0. Open(r, "draft", read)
    BY <1>1 DEF Draft
  <2>1. Only(r) /\ req'[r] = read /\ asked'["bind"] = asked["bind"]
    <3> HIDE DEF read
    <3> QED
      BY <2>0, OnlyOpen
  <2>2. req'[r].pc = "draft"
    BY <2>1 DEF Idle
  <2> QED
    BY <1>1, <1>a, <2>1, <2>2 DEF Draft
<1>2. ASSUME NEW r \in Requests, AskBuild(r) PROVE Steady
  <2> DEFINE read == [Idle EXCEPT !.pc = "build", !.id = asked["build"] + 1]
  <2>0. Open(r, "build", read)
    BY <1>2 DEF AskBuild
  <2>1. Only(r) /\ req'[r] = read /\ asked'["bind"] = asked["bind"]
    <3> HIDE DEF read
    <3> QED
      BY <2>0, OnlyOpen
  <2>2. req'[r].pc = "build"
    BY <2>1 DEF Idle
  <2> QED
    BY <1>2, <1>a, <2>1, <2>2 DEF AskBuild
<1>3. ASSUME NEW r \in Requests, NEW v \in Versions, Publish(r, v) PROVE Steady
  <2> DEFINE read == [Idle EXCEPT !.pc = "select", !.id = v, !.loaded = version[v]]
  <2>0. Open(r, "publish", read)
    BY <1>3 DEF Publish
  <2>1. Only(r) /\ req'[r] = read /\ asked'["bind"] = asked["bind"]
    <3> HIDE DEF read
    <3> QED
      BY <2>0, OnlyOpen
  <2>2. req'[r].pc = "select"
    BY <2>1 DEF Idle
  <2> QED
    BY <1>3, <1>a, <2>1, <2>2 DEF Publish
<1>6. ASSUME NEW r \in Requests, InsertDraft(r) PROVE Steady
  BY <1>6, <1>a, OnlyAnswered DEF InsertDraft
<1>7. ASSUME NEW r \in Requests, SelectPublished(r) PROVE Steady
  <2>1. Only(r) /\ req'[r].pc = "publish"
    BY <1>7 DEF SelectPublished, Only, TypeOK
  <2> QED
    BY <1>7, <1>a, <2>1 DEF SelectPublished
<1>8. ASSUME NEW r \in Requests, CommitPublish(r) PROVE Steady
  BY <1>8, <1>a, OnlyAnswered DEF CommitPublish
<1>9. ASSUME NEW r \in Requests, CheckFree(r) PROVE Steady
  BY <1>9, <1>a, OnlyAnswered, OnlyGoes DEF CheckFree
<1>10. ASSUME NEW r \in Requests, CommitBind(r) PROVE Steady \/ Taken(r)
  BY <1>10, <1>a, OnlyAnswered, OnlyGoes DEF CommitBind, Taken
<1>11. ASSUME NEW r \in Requests, Notify(r) PROVE Steady
  BY <1>11, <1>a, OnlyAnswered DEF Notify
<1>13. ASSUME NEW r \in Requests, CommitBuild(r) PROVE Steady
  BY <1>13, <1>a, OnlyGoes DEF CommitBuild
<1>14. ASSUME NEW r \in Requests, EnqueueBuild(r) PROVE Steady
  BY <1>14, <1>a, OnlyAnswered DEF EnqueueBuild
<1>15. ASSUME NEW r \in Requests, RequestFails(r) PROVE Steady \/ Taken(r)
  <2>1. Only(r) /\ req'[r].pc = "idle" /\ UNCHANGED asked
    BY <1>15, OnlyAnswered DEF RequestFails
  <2>2. \/ UNCHANGED <<binding, noticed>>
        \/ req[r].pc = "bind" /\ ~Conflict(req[r].group) /\ Bound(r)
    BY <1>15 DEF RequestFails
  <2> QED
    BY <1>a, <2>1, <2>2 DEF Taken
<1>16. ASSUME NEW w \in Workers, WorkerStep(w) \/ LogTooLong(w) \/ JobFails(w) PROVE Steady
  BY <1>16 DEF WorkerStep, MarkRunning, Docker, CommitOutcome, LogTooLong, JobFails, JobDone, StepTo, Steady
<1>17. ASSUME NEW w \in Workers, NEW b \in Builds, Start(w, b) PROVE Steady
  BY <1>17 DEF Start, StepTo, Steady
<1>18. CASE UNCHANGED vars
  BY <1>18 DEF vars, Steady
<1> QED
  BY <1>1, <1>2, <1>3, <1>6, <1>7, <1>8, <1>9, <1>10, <1>11, <1>13, <1>14, <1>15, <1>16, <1>17, <1>18
     DEF Next, RequestStep

LEMMA SteadyStep ==
  ASSUME Typed, BindInv, Steady
  PROVE  BindInv'
<1>1. Fresh'
  BY DEF BindInv, Fresh, Taking, Steady, Typed, TypeOK
<1>2. Leaving'
  <2> SUFFICES ASSUME NEW r \in Requests, req'[r].pc = "unbind"
               PROVE  /\ req'[r].id \in Bindings /\ binding'[req'[r].id].status # "absent"
                      /\ req'[r].loaded = "inactive" => binding'[req'[r].id].status = "inactive"
    BY DEF Leaving
  <2>1. req'[r] = req[r] /\ binding' = binding
    BY DEF Steady
  <2> QED
    BY <2>1 DEF BindInv, Leaving
<1>3. OneActive' /\ BindingsAgree'
  BY DEF BindInv, OneActive, BindingsAgree, Steady
<1> QED
  BY <1>1, <1>2, <1>3 DEF BindInv

LEMMA BindStep ==
  ASSUME Typed, BindInv, NEW r \in Requests, NEW g \in Groups, Bind(r, g)
  PROVE  BindInv'
<1> DEFINE read == [Idle EXCEPT !.pc = "free", !.id = asked["bind"] + 1, !.group = g]
<1>1. /\ Only(r) /\ req'[r] = read /\ req[r].pc = "idle"
      /\ asked["bind"] < Quota["bind"] /\ asked'["bind"] = asked["bind"] + 1
  BY OnlyOpen DEF Bind, Typed, Kinds
<1>2. req'[r].pc = "free" /\ req'[r].id = asked["bind"] + 1
  BY <1>1 DEF Idle
<1> HIDE DEF read
<1>3. asked["bind"] \in Nat /\ Quota["bind"] \in Nat
  BY DEF Typed, TypeOK, Kinds
<1>4. UNCHANGED <<binding, noticed>>
  BY DEF Bind, rowVars
<1>5. \A s \in Requests : s # r => req'[s] = req[s]
  BY <1>1 DEF Only
<1>6. asked["bind"] + 1 \in Bindings /\ binding[asked["bind"] + 1].status = "absent"
  BY <1>1, <1>3 DEF Bindings, BindInv, Fresh
<1>7. Fresh'
  <2>1. \A b \in Bindings : b > asked'["bind"] => binding'[b].status = "absent"
    BY <1>1, <1>3, <1>4 DEF BindInv, Fresh, Bindings
  <2>2. \A s \in Requests : req[s].pc \in {"free", "bind"} =>
          req[s].id \in Bindings /\ req[s].id <= asked["bind"] /\ req[s].id # asked["bind"] + 1
    BY <1>3 DEF BindInv, Fresh, Taking, Bindings
  <2>3. \A s \in Requests : req'[s].pc \in {"free", "bind"} =>
          /\ req'[s].id \in Bindings /\ req'[s].id <= asked'["bind"]
          /\ binding'[req'[s].id].status = "absent"
    <3> SUFFICES ASSUME NEW s \in Requests, req'[s].pc \in {"free", "bind"}
                 PROVE  /\ req'[s].id \in Bindings /\ req'[s].id <= asked'["bind"]
                        /\ binding'[req'[s].id].status = "absent"
      OBVIOUS
    <3>1. CASE s = r
      BY <1>1, <1>2, <1>3, <1>4, <1>6, <3>1
    <3>2. CASE s # r
      <4>1. /\ req'[s] = req[s] /\ req[s].id \in Bindings /\ req[s].id <= asked["bind"]
            /\ binding[req[s].id].status = "absent"
        BY <1>5, <2>2, <3>2 DEF BindInv, Fresh, Taking
      <4> QED
        BY <1>1, <1>3, <1>4, <4>1 DEF Bindings
    <3> QED
      BY <3>1, <3>2
  <2>4. \A s, t \in Requests : req'[s].pc \in {"free", "bind"} /\ req'[t].pc \in {"free", "bind"}
                              /\ req'[t].id = req'[s].id => t = s
    BY <1>2, <1>5, <2>2 DEF BindInv, Fresh, Taking
  <2> QED
    BY <2>1, <2>3, <2>4 DEF Fresh, Taking
<1>8. Leaving'
  BY <1>2, <1>4, <1>5 DEF BindInv, Leaving
<1> QED
  BY <1>4, <1>7, <1>8 DEF BindInv, OneActive, BindingsAgree

LEMMA BoundStep ==
  ASSUME Typed, BindInv, NEW r \in Requests, Taken(r)
  PROVE  BindInv'
<1> DEFINE b == req[r].id  g == req[r].group
<1>1. b \in Bindings /\ binding[b].status = "absent" /\ g \in Groups
  BY DEF BindInv, Fresh, Taking, Taken, Typed, TypeOK
<1>2. /\ binding' = [binding EXCEPT ![b] = [group |-> g, status |-> "active", agent |-> "healthy"]]
      /\ noticed' = noticed \cup {b}
  BY DEF Taken, Bound
<1>3. /\ binding'[b] = [group |-> g, status |-> "active", agent |-> "healthy"]
      /\ \A c \in Bindings : c # b => binding'[c] = binding[c]
  BY <1>1, <1>2 DEF Typed, TypeOK
<1>4. /\ \A s \in Requests : s # r => req'[s] = req[s]
      /\ req'[r].pc \in {"notify", "idle"}
  BY DEF Taken, Only
<1> HIDE DEF b, g
<1>5. Fresh'
  <2>1. \A s \in Requests : s # r /\ req[s].pc \in {"free", "bind"} => req[s].id # b
    BY DEF BindInv, Fresh, Taking, Taken, b
  <2>2. b <= asked["bind"]
    BY DEF BindInv, Fresh, Taking, Taken, b
  <2>3. \A c \in Bindings : c > asked["bind"] => binding'[c].status = "absent"
    <3> SUFFICES ASSUME NEW c \in Bindings, c > asked["bind"] PROVE binding'[c].status = "absent"
      OBVIOUS
    <3>1. c # b
      BY <1>1, <2>2 DEF Bindings, Typed, TypeOK, Kinds
    <3> QED
      BY <1>3, <3>1 DEF BindInv, Fresh
  <2>4. asked' = asked
    BY DEF Taken
  <2> QED
    BY <1>3, <1>4, <2>1, <2>3, <2>4 DEF BindInv, Fresh, Taking
<1>6. Leaving'
  BY <1>1, <1>3, <1>4 DEF BindInv, Leaving
<1>7. OneActive'
  <2>1. \A c \in Bindings : binding[c].group = g => binding[c].status # "active"
    BY DEF Taken, Conflict, Active, g
  <2> QED
    BY <1>3, <2>1 DEF BindInv, OneActive
<1>8. BindingsAgree'
  BY <1>1, <1>2, <1>3 DEF BindInv, BindingsAgree
<1> QED
  BY <1>5, <1>6, <1>7, <1>8 DEF BindInv

LEMMA UnbindStep ==
  ASSUME Typed, BindInv, NEW r \in Requests, NEW b \in Bindings, Unbind(r, b)
  PROVE  BindInv'
<1> DEFINE read == [Idle EXCEPT !.pc = "unbind", !.id = b, !.loaded = binding[b].status]
<1>1. Only(r) /\ req'[r] = read /\ asked'["bind"] = asked["bind"]
  BY OnlyOpen DEF Unbind, Typed, Kinds
<1>2. req'[r].pc = "unbind" /\ req'[r].id = b /\ req'[r].loaded = binding[b].status
  BY <1>1 DEF Idle
<1>3. UNCHANGED <<binding, noticed>> /\ binding[b].status # "absent"
  BY DEF Unbind, rowVars
<1>4. \A s \in Requests : s # r => req'[s] = req[s]
  BY <1>1 DEF Only
<1> HIDE DEF read
<1>5. Fresh'
  BY <1>1, <1>2, <1>3, <1>4 DEF BindInv, Fresh, Taking
<1>6. Leaving'
  BY <1>2, <1>3, <1>4 DEF BindInv, Leaving
<1> QED
  BY <1>3, <1>5, <1>6 DEF BindInv, OneActive, BindingsAgree

\* What a commit of an unbinding leaves of the rows.
LEMMA UnboundRows ==
  ASSUME Typed, BindInv, NEW r \in Requests, CommitUnbind(r)
  PROVE  /\ req[r].id \in Bindings
         /\ \A c \in Bindings : c # req[r].id => binding'[c] = binding[c]
         /\ \/ binding' = binding /\ binding[req[r].id].status = "inactive"
            \/ binding'[req[r].id] = [binding[req[r].id] EXCEPT !.status = "inactive", !.agent = "stopped"]
<1>1. req[r].id \in Bindings
  BY DEF BindInv, Leaving, CommitUnbind
<1>2. CASE req[r].loaded = "inactive"
  BY <1>1, <1>2 DEF BindInv, Leaving, CommitUnbind, Unbound
<1>3. CASE req[r].loaded # "inactive"
  BY <1>1, <1>3 DEF CommitUnbind, Unbound, Typed, TypeOK
<1> QED
  BY <1>1, <1>2, <1>3

LEMMA CommitUnbindStep ==
  ASSUME Typed, BindInv, NEW r \in Requests, CommitUnbind(r)
  PROVE  BindInv'
<1> DEFINE b == req[r].id
<1>1. /\ b \in Bindings
      /\ \A c \in Bindings : c # b => binding'[c] = binding[c]
      /\ binding'[b].status = "inactive" /\ binding[b].status # "absent"
      /\ binding'[b].group = binding[b].group /\ binding'[b].agent # "healthy"
  <2>1. binding[b].status # "absent" /\ b \in Bindings
    BY DEF BindInv, Leaving, CommitUnbind
  <2>2. binding[b] \in BindingRows
    BY <2>1 DEF Typed, TypeOK, BindingRows
  <2>3. binding[b].status = "inactive" => binding[b].agent # "healthy"
    BY <2>1 DEF BindInv, BindingsAgree
  <2> QED
    BY <2>1, <2>2, <2>3, UnboundRows DEF BindingRows
<1>2. noticed' = noticed /\ asked' = asked
  BY DEF CommitUnbind
<1>3. Only(r) /\ req'[r].pc = "idle"
  BY OnlyAnswered DEF CommitUnbind, Typed
<1>4. \A s \in Requests : s # r => req'[s] = req[s]
  BY <1>3 DEF Only
<1> HIDE DEF b
<1>5. Fresh'
  BY <1>1, <1>2, <1>3, <1>4 DEF BindInv, Fresh, Taking
<1>6. Leaving'
  BY <1>1, <1>3, <1>4 DEF BindInv, Leaving
<1>7. OneActive'
  BY <1>1 DEF BindInv, OneActive
<1>8. BindingsAgree'
  BY <1>1, <1>2 DEF BindInv, BindingsAgree
<1> QED
  BY <1>5, <1>6, <1>7, <1>8 DEF BindInv

LEMMA BindInit == Init => BindInv
BY DEF Init, BindInv, Fresh, Taking, Leaving, OneActive, BindingsAgree, Idle, NoBinding

LEMMA BindNext == Typed /\ BindInv /\ [Next]_vars => BindInv'
BY KindsOfSteps, SteadyStep, BindStep, BoundStep, UnbindStep, CommitUnbindStep DEF Typed

\* Binding and agent change together and the notice comes with the binding, for any
\* number of groups, bindings and concurrent requests.
THEOREM BindingsAndAgentsAgree == Spec => []BindingsAgree
<1>1. BindInv => BindingsAgree
  BY DEF BindInv
<1> QED
  BY <1>1, TypedInit, TypedNext, BindInit, BindNext, PTL DEF Spec

-----------------------------------------------------------------------------
(* The refinement: the commit of a binding is Take, that of an unbinding   *)
(* of an active one is Leave, and everything else stutters.                *)

Holders == [g \in Groups |-> Holder(g)]

\* The element of a singleton, the one that CHOOSE takes otherwise.
Pick(S) == IF S = {} THEN Nobody ELSE CHOOSE b \in S : TRUE

LEMMA HolderPicks ==
  /\ Pick({}) = Nobody /\ \A b : Pick({b}) = b
  /\ \A g : Holder(g) = Pick(Active(g)) /\ Holder(g)' = Pick(Active(g)')
BY DEF Pick, Holder

LEMMA SameHolders ==
  ASSUME \A b \in Bindings : /\ binding'[b].status = "active" <=> binding[b].status = "active"
                            /\ binding'[b].group = binding[b].group
  PROVE  Holders' = Holders
<1>1. \A g \in Groups : Active(g)' = Active(g)
  BY DEF Active
<1>2. \A g \in Groups : Holder(g)' = Holder(g)
  BY <1>1, HolderPicks
<1> QED
  BY <1>2 DEF Holders

LEMMA HolderOfActive ==
  ASSUME BindInv, NEW b \in Bindings, binding[b].status = "active"
  PROVE  Holder(binding[b].group) = b
<1>1. Active(binding[b].group) = {b}
  BY DEF BindInv, OneActive, Active
<1> QED
  BY <1>1, HolderPicks

LEMMA BoundTakes ==
  ASSUME Typed, BindInv, BindInv', NEW r \in Requests, Taken(r)
  PROVE  Reg!Next
<1>0. /\ req[r].id \in Bindings /\ binding[req[r].id].status = "absent"
      /\ req[r].group \in Groups /\ req[r].id \notin noticed
  BY DEF BindInv, Fresh, Taking, Taken, Typed, TypeOK, BindingsAgree
<1>1. PICK b \in Bindings, g \in Groups :
        b = req[r].id /\ g = req[r].group /\ binding[b].status = "absent" /\ b \notin noticed
  BY <1>0
<1>2. /\ binding'[b] = [group |-> g, status |-> "active", agent |-> "healthy"]
      /\ \A c \in Bindings : c # b => binding'[c] = binding[c]
      /\ noticed' = noticed \cup {b}
  BY <1>1 DEF Taken, Bound, Typed, TypeOK
<1>3. Active(g) = {}
  BY <1>1 DEF Taken, Conflict
<1>4. Holder(g)' = b
  <2>1. Active(g)' = {b}
    BY <1>1, <1>2, <1>3 DEF Active
  <2> QED
    BY <2>1, HolderPicks
<1>5. \A h \in Groups : h # g => Holder(h)' = Holder(h)
  <2>1. \A h \in Groups : h # g => Active(h)' = Active(h)
    BY <1>1, <1>2 DEF Active
  <2> QED
    BY <2>1, HolderPicks
<1>6. Holders' = [Holders EXCEPT ![g] = b]
  BY <1>1, <1>4, <1>5 DEF Holders
<1>7. Reg!Take(g, b)
  BY <1>1, <1>2, <1>3, <1>6, HolderPicks DEF Reg!Take, Holders
<1> QED
  BY <1>1, <1>7 DEF Reg!Next

LEMMA UnbindLeaves ==
  ASSUME Typed, BindInv, BindInv', NEW r \in Requests, CommitUnbind(r)
  PROVE  Reg!Next \/ UNCHANGED <<Holders, noticed>>
<1>0. req[r].id \in Bindings /\ binding[req[r].id] \in BindingRows
  BY UnboundRows DEF Typed, TypeOK, BindingRows
<1>a. PICK b \in Bindings, g \in Groups : b = req[r].id /\ g = binding[b].group
  BY <1>0 DEF BindingRows
<1>1. /\ noticed' = noticed
      /\ \A c \in Bindings : c # b => binding'[c] = binding[c]
      /\ binding'[b].group = g /\ binding'[b].status = "inactive"
  BY <1>0, <1>a, UnboundRows DEF BindingRows, CommitUnbind
<1>2. CASE binding[b].status = "active"
  <2>1. Holder(g) = b
    BY <1>a, <1>2, HolderOfActive
  <2>2. Active(g) = {b}
    BY <1>a, <1>2 DEF BindInv, OneActive, Active
  <2>3. Active(g)' = {}
    BY <1>1, <2>2 DEF Active
  <2>4. \A h \in Groups : h # g => Active(h)' = Active(h)
    BY <1>a, <1>1 DEF Active
  <2>5. Holders' = [Holders EXCEPT ![g] = Nobody]
    <3>1. Holder(g)' = Nobody /\ \A h \in Groups : h # g => Holder(h)' = Holder(h)
      BY <2>3, <2>4, HolderPicks
    <3> QED
      BY <1>1, <3>1 DEF Holders
  <2>6. b # Nobody
    BY <1>1, <2>1 DEF Bindings
  <2>7. Reg!Leave(g)
    BY <1>1, <2>1, <2>5, <2>6 DEF Reg!Leave, Holders
  <2> QED
    BY <1>1, <2>7 DEF Reg!Next
<1>3. CASE binding[b].status # "active"
  <2>1. \A c \in Bindings : /\ binding'[c].status = "active" <=> binding[c].status = "active"
                           /\ binding'[c].group = binding[c].group
    BY <1>a, <1>1, <1>3
  <2> QED
    BY <1>1, <2>1, SameHolders
<1> QED
  BY <1>2, <1>3

\* The bindings, with all their concurrent requests and failures, implement the
\* register: a group is bound once at a time, each binding together with its notice.
THEOREM BindingsImplementRegister == Spec => ImplementsRegister
<1>1. Init => Reg!Init
  <2> SUFFICES ASSUME Init PROVE Reg!Init
    OBVIOUS
  <2>1. \A g \in Groups : Active(g) = {}
    BY DEF Init, Active, NoBinding
  <2> QED
    BY <2>1 DEF Init, Reg!Init, Holder
<1>2. Typed /\ BindInv /\ BindInv' /\ [Next]_vars => [Reg!Next]_<<Holders, noticed>>
  <2> SUFFICES ASSUME Typed, BindInv, BindInv', [Next]_vars
               PROVE  Reg!Next \/ UNCHANGED <<Holders, noticed>>
    OBVIOUS
  <2>1. ASSUME UNCHANGED <<binding, noticed>> PROVE UNCHANGED <<Holders, noticed>>
    BY <2>1, SameHolders
  <2>2. ASSUME Steady PROVE UNCHANGED <<binding, noticed>>
    BY <2>2 DEF Steady
  <2>3. ASSUME NEW r \in Requests, NEW g \in Groups, Bind(r, g) PROVE UNCHANGED <<binding, noticed>>
    BY <2>3 DEF Bind, rowVars
  <2>4. ASSUME NEW r \in Requests, NEW b \in Bindings, Unbind(r, b) PROVE UNCHANGED <<binding, noticed>>
    BY <2>4 DEF Unbind, rowVars
  <2> QED
    BY <2>1, <2>2, <2>3, <2>4, KindsOfSteps, BoundTakes, UnbindLeaves DEF Typed
<1>3. Reg!Spec <=> Reg!Init /\ [][Reg!Next]_<<Holders, noticed>>
  BY DEF Reg!Spec, Holders
<1> QED
  BY <1>1, <1>2, <1>3, TypedInit, TypedNext, BindInit, BindNext, PTL DEF Spec, ImplementsRegister

-----------------------------------------------------------------------------
(* Builds: a build has its number from one request, its job from the same  *)
(* request, and at most one worker.                                        *)

Works(w) == wpc[w] # "idle"

\* A request that is about to insert a build, or to enqueue it.
Requested ==
  /\ \A r \in Requests : Building(r) =>
       /\ req[r].id <= asked["build"] /\ req[r].id \notin jobs
       /\ \A w \in Workers : Works(w) => doing[w] # req[r].id
       /\ build[req[r].id] = IF req[r].pc = "build" THEN "absent" ELSE "queued"
       /\ \A s \in Requests : Building(s) /\ req[s].id = req[r].id => s = r
  /\ \A b \in Builds : b > asked["build"] => build[b] = "absent"

\* A build with a job in the queue, and one that a worker has taken.
Worked ==
  /\ \A b \in jobs : build[b] = "queued" /\ \A w \in Workers : Works(w) => doing[w] # b
  /\ \A w \in Workers : Works(w) =>
       /\ build[doing[w]] = IF wpc[w] = "load" THEN "queued" ELSE "running"
       /\ wpc[w] = "built" => doing[w] \in images
       /\ \A v \in Workers : Works(v) /\ doing[v] = doing[w] => v = w

BuildInv == Requested /\ Worked /\ BuildsAccounted

\* A step that changes nothing of the builds and of the requests for them.
Unbuilt ==
  /\ UNCHANGED <<build, jobs, images, workerVars, dropped>> /\ asked'["build"] = asked["build"]
  /\ \A r \in Requests :
       /\ req'[r].pc \in {"build", "enqueue"} => req'[r] = req[r]
       /\ req[r].pc = "enqueue" => req'[r] = req[r]

LEMMA UnbuiltStep ==
  ASSUME Typed, BuildInv, Unbuilt
  PROVE  BuildInv'
<1> USE DEF Unbuilt, workerVars
<1>1. Requested'
  BY DEF BuildInv, Requested, Building, Works
<1>2. Worked'
  BY DEF BuildInv, Worked, Works
<1>3. BuildsAccounted'
  BY DEF BuildInv, BuildsAccounted
<1> QED
  BY <1>1, <1>2, <1>3 DEF BuildInv

LEMMA AskBuildStep ==
  ASSUME Typed, BuildInv, NEW r \in Requests, AskBuild(r)
  PROVE  BuildInv'
<1> DEFINE read == [Idle EXCEPT !.pc = "build", !.id = asked["build"] + 1]
<1>1. /\ Only(r) /\ req'[r] = read /\ req[r].pc = "idle"
      /\ asked["build"] < Quota["build"] /\ asked'["build"] = asked["build"] + 1
  BY OnlyOpen DEF AskBuild, Typed, Kinds
<1>2. req'[r].pc = "build" /\ req'[r].id = asked["build"] + 1
  BY <1>1 DEF Idle
<1> HIDE DEF read
<1>3. asked["build"] \in Nat /\ Quota["build"] \in Nat
  BY DEF Typed, TypeOK, Kinds
<1>4. UNCHANGED <<build, jobs, images, wpc, doing, dropped>>
  BY DEF AskBuild, rowVars, workerVars
<1>5. \A s \in Requests : s # r => req'[s] = req[s]
  BY <1>1 DEF Only
<1>6. asked["build"] + 1 \in Builds /\ build[asked["build"] + 1] = "absent"
  BY <1>1, <1>3 DEF Builds, BuildInv, Requested
<1>7. Requested'
  <2>1. \A b \in Builds : b > asked'["build"] => build'[b] = "absent"
    BY <1>1, <1>3, <1>4 DEF BuildInv, Requested, Builds
  <2>2. asked["build"] + 1 \notin jobs
    BY <1>6 DEF BuildInv, Worked
  <2>3. \A w \in Workers : wpc[w] # "idle" => doing[w] # asked["build"] + 1
    BY <1>6 DEF BuildInv, Worked, Works
  <2>4. \A s \in Requests : req[s].pc \in {"build", "enqueue"} =>
          req[s].id <= asked["build"] /\ req[s].id \in Builds /\ req[s].id # asked["build"] + 1
    BY <1>3 DEF BuildInv, Requested, Building, Builds, Typed, Numbered
  <2>5. ASSUME NEW s \in Requests, req'[s].pc \in {"build", "enqueue"}
        PROVE  /\ req'[s].id <= asked'["build"] /\ req'[s].id \notin jobs'
               /\ \A w \in Workers : wpc'[w] # "idle" => doing'[w] # req'[s].id
               /\ build'[req'[s].id] = IF req'[s].pc = "build" THEN "absent" ELSE "queued"
    <3>1. CASE s = r
      BY <1>1, <1>2, <1>3, <1>4, <1>6, <2>2, <2>3, <3>1
    <3>2. CASE s # r
      <4>1. req'[s] = req[s] /\ req[s].pc \in {"build", "enqueue"}
        BY <1>5, <2>5, <3>2
      <4>2. req[s].id <= asked'["build"]
        BY <1>1, <1>3, <2>4, <4>1 DEF Builds
      <4> QED
        BY <1>4, <4>1, <4>2 DEF BuildInv, Requested, Building, Works
    <3> QED
      BY <3>1, <3>2
  <2>6. \A s, t \in Requests : req'[s].pc \in {"build", "enqueue"} /\ req'[t].pc \in {"build", "enqueue"}
                              /\ req'[t].id = req'[s].id => t = s
    BY <1>2, <1>5, <2>4 DEF BuildInv, Requested, Building
  <2> QED
    BY <2>1, <2>5, <2>6 DEF Requested, Building, Works
<1>8. Worked'
  BY <1>4 DEF BuildInv, Worked, Works
<1>9. BuildsAccounted'
  BY <1>1, <1>4, <1>5 DEF BuildInv, BuildsAccounted
<1> QED
  BY <1>7, <1>8, <1>9 DEF BuildInv

\* The request of b leaves the build with a row and with or without a job: whichever
\* way, it goes no further unless it is about to enqueue.
LEMMA RequestedStep ==
  ASSUME Typed, BuildInv, NEW r \in Requests, Building(r), Only(r),
         UNCHANGED <<images, workerVars>>, asked'["build"] = asked["build"],
         \/ /\ req'[r].pc = "enqueue" /\ req'[r].id = req[r].id /\ req[r].pc = "build"
            /\ build' = [build EXCEPT ![req[r].id] = "queued"] /\ UNCHANGED <<jobs, dropped>>
         \/ /\ req'[r].pc = "idle" /\ req[r].pc = "enqueue"
            /\ jobs' = jobs \cup {req[r].id} /\ dropped \subseteq dropped' /\ UNCHANGED build
         \/ /\ req'[r].pc = "idle" /\ req[r].id \in dropped' /\ dropped \subseteq dropped'
            /\ UNCHANGED jobs
            /\ \/ UNCHANGED build
               \/ req[r].pc = "build" /\ build' = [build EXCEPT ![req[r].id] = "queued"]
  PROVE  BuildInv'
<1> USE DEF workerVars
<1>a. req[r].id \in Builds /\ req[r].pc \in {"build", "enqueue"}
  BY DEF Typed, Numbered, Building
<1>b. /\ req[r].id <= asked["build"] /\ req[r].id \notin jobs
      /\ \A w \in Workers : Works(w) => doing[w] # req[r].id
      /\ build[req[r].id] = IF req[r].pc = "build" THEN "absent" ELSE "queued"
  BY DEF BuildInv, Requested
<1>c. \A s \in Requests : req[s].pc \in {"build", "enqueue"} /\ req[s].id = req[r].id => s = r
  BY DEF BuildInv, Requested, Building
<1>0. /\ req[r].id \in Builds /\ req[r].id <= asked["build"] /\ req[r].id \notin jobs
      /\ \A w \in Workers : wpc[w] # "idle" => doing[w] # req[r].id
      /\ build[req[r].id] = IF req[r].pc = "build" THEN "absent" ELSE "queued"
      /\ \A s \in Requests : req[s].pc \in {"build", "enqueue"} /\ req[s].id = req[r].id => s = r
  BY <1>a, <1>b, <1>c DEF Works
<1>1. PICK b \in Builds : /\ b = req[r].id /\ b <= asked["build"] /\ b \notin jobs
                          /\ \A w \in Workers : wpc[w] # "idle" => doing[w] # b
                          /\ build[b] = IF req[r].pc = "build" THEN "absent" ELSE "queued"
                          /\ \A s \in Requests : req[s].pc \in {"build", "enqueue"} /\ req[s].id = b => s = r
  BY <1>0
<1>2. /\ \A c \in Builds : c # b => build'[c] = build[c]
      /\ (build'[b] = build[b] \/ (req[r].pc = "build" /\ build'[b] = "queued"))
      /\ \A s \in Requests : s # r => req'[s] = req[s]
  BY <1>1 DEF Only, Typed, TypeOK
<1>3. \A c \in Builds : c > asked["build"] => c # b
  BY <1>1 DEF Builds, Typed, TypeOK, Kinds
<1>4. Requested'
  <2>1. \A c \in Builds : c > asked'["build"] => build'[c] = "absent"
    BY <1>2, <1>3 DEF BuildInv, Requested
  <2>2. ASSUME NEW s \in Requests, req'[s].pc \in {"build", "enqueue"}
        PROVE  /\ req'[s].id <= asked'["build"] /\ req'[s].id \notin jobs'
               /\ \A w \in Workers : wpc'[w] # "idle" => doing'[w] # req'[s].id
               /\ build'[req'[s].id] = IF req'[s].pc = "build" THEN "absent" ELSE "queued"
    <3>1. CASE s = r
      BY <1>1, <2>2, <3>1 DEF Typed, TypeOK
    <3>2. CASE s # r
      <4>1. req'[s] = req[s] /\ req[s].id \in Builds /\ req[s].id # b
        BY <1>1, <1>2, <2>2, <3>2 DEF Typed, Numbered, Building
      <4> QED
        BY <1>1, <1>2, <2>2, <4>1 DEF BuildInv, Requested, Building, Works
    <3> QED
      BY <3>1, <3>2
  <2>3. \A s, t \in Requests : req'[s].pc \in {"build", "enqueue"} /\ req'[t].pc \in {"build", "enqueue"}
                              /\ req'[t].id = req'[s].id => t = s
    BY <1>1, <1>2 DEF BuildInv, Requested, Building
  <2> QED
    BY <2>1, <2>2, <2>3 DEF Requested, Building, Works
<1>5. Worked'
  <2>1. ASSUME NEW c \in jobs' PROVE build'[c] = "queued" /\ \A w \in Workers : wpc'[w] # "idle" => doing'[w] # c
    <3>1. CASE c = b
      BY <1>1, <1>2, <2>1, <3>1
    <3>2. CASE c # b
      BY <1>1, <1>2, <2>1, <3>2 DEF BuildInv, Worked, Works, Typed, TypeOK
    <3> QED
      BY <3>1, <3>2
  <2>2. \A w \in Workers : wpc[w] # "idle" => build'[doing[w]] = build[doing[w]]
    BY <1>1, <1>2 DEF Typed, Numbered
  <2> QED
    BY <2>1, <2>2 DEF BuildInv, Worked, Works
<1>6. BuildsAccounted'
  <2>1. ASSUME NEW c \in Builds, c # b
        PROVE  /\ build'[c] = build[c]
               /\ c \in jobs => c \in jobs'
               /\ c \in dropped => c \in dropped'
               /\ \A s \in Requests : req[s].pc = "enqueue" /\ req[s].id = c => req'[s] = req[s]
    BY <1>1, <1>2, <2>1
  <2>2. build'[b] # "succeeded" /\ build'[b] # "running"
    BY <1>1, <1>2
  <2>3. \/ build'[b] = "absent" \/ b \in dropped' \/ b \in jobs' \/ (req'[r].pc = "enqueue" /\ req'[r].id = b)
    BY <1>1, <1>2
  <2>4. ASSUME NEW c \in Builds, c # b
        PROVE  /\ build'[c] = "succeeded" => c \in images'
               /\ build'[c] = "queued" /\ c \notin dropped' =>
                    \/ c \in jobs'
                    \/ \E s \in Requests : req'[s].pc = "enqueue" /\ req'[s].id = c
                    \/ \E w \in Workers : doing'[w] = c /\ wpc'[w] = "load"
               /\ build'[c] = "running" /\ c \notin dropped' =>
                    \E w \in Workers : doing'[w] = c /\ wpc'[w] # "load"
    <3>1. /\ build[c] = "succeeded" => c \in images
          /\ build[c] = "queued" /\ c \notin dropped =>
                \/ c \in jobs
                \/ \E s \in Requests : req[s].pc = "enqueue" /\ req[s].id = c
                \/ \E w \in Workers : doing[w] = c /\ wpc[w] = "load"
          /\ build[c] = "running" /\ c \notin dropped => \E w \in Workers : doing[w] = c /\ wpc[w] # "load"
      BY DEF BuildInv, BuildsAccounted
    <3> QED
      BY <2>1, <2>4, <3>1
  <2> QED
    BY <2>2, <2>3, <2>4 DEF BuildsAccounted
<1> QED
  BY <1>4, <1>5, <1>6 DEF BuildInv

LEMMA StartStep ==
  ASSUME Typed, BuildInv, NEW w \in Workers, NEW b \in Builds, Start(w, b)
  PROVE  BuildInv'
<1>1. /\ wpc'[w] = "load" /\ doing'[w] = b /\ wpc[w] = "idle" /\ b \in jobs /\ jobs' = jobs \ {b}
      /\ \A v \in Workers : v # w => wpc'[v] = wpc[v] /\ doing'[v] = doing[v]
      /\ UNCHANGED <<build, asked, req, images, dropped>>
  BY DEF Start, StepTo, Typed, TypeOK, rowVars
<1>2. build[b] = "queued" /\ \A v \in Workers : wpc[v] # "idle" => doing[v] # b
  BY <1>1 DEF BuildInv, Worked, Works
<1>3. \A r \in Requests : req[r].pc \in {"build", "enqueue"} => req[r].id # b
  BY <1>1 DEF BuildInv, Requested, Building
<1>4. Requested'
  BY <1>1, <1>3 DEF BuildInv, Requested, Building, Works
<1>5. Worked'
  BY <1>1, <1>2 DEF BuildInv, Worked, Works
<1>6. BuildsAccounted'
  <2>1. ASSUME NEW c \in Builds, c # b
        PROVE  /\ c \in jobs => c \in jobs'
               /\ \A v \in Workers : wpc[v] # "idle" /\ doing[v] = c => wpc'[v] = wpc[v] /\ doing'[v] = c
    BY <1>1, <2>1
  <2>2. \A v \in Workers : wpc[v] = "load" => wpc[v] # "idle"
    OBVIOUS
  <2>3. ASSUME NEW c \in Builds, c # b
        PROVE  /\ build'[c] = "succeeded" => c \in images'
               /\ build'[c] = "queued" /\ c \notin dropped' =>
                    \/ c \in jobs'
                    \/ \E r \in Requests : req'[r].pc = "enqueue" /\ req'[r].id = c
                    \/ \E v \in Workers : doing'[v] = c /\ wpc'[v] = "load"
               /\ build'[c] = "running" /\ c \notin dropped' =>
                    \E v \in Workers : doing'[v] = c /\ wpc'[v] # "load"
    <3>1. build[c] = "running" /\ c \notin dropped => \E v \in Workers : doing[v] = c /\ wpc[v] # "load"
      BY DEF BuildInv, BuildsAccounted
    <3>2. \A v \in Workers : doing[v] = c => wpc[v] # "idle"
      BY DEF Typed, Numbered, Builds
    <3> QED
      BY <1>1, <2>1, <2>2, <2>3, <3>1, <3>2 DEF BuildInv, BuildsAccounted
  <2> QED
    BY <1>1, <1>2, <2>3 DEF BuildsAccounted
<1> QED
  BY <1>4, <1>5, <1>6 DEF BuildInv

\* A worker goes on with its build, or leaves it settled or dropped.
LEMMA WorkedStep ==
  ASSUME Typed, BuildInv, NEW w \in Workers, NEW b \in Builds, b = doing[w], wpc[w] # "idle",
         \A v \in Workers : v # w => wpc'[v] = wpc[v] /\ doing'[v] = doing[v],
         \A c \in Builds : c # b => build'[c] = build[c],
         UNCHANGED <<asked, req, jobs>>, images \subseteq images', dropped \subseteq dropped',
         \/ /\ doing'[w] = b /\ wpc'[w] \in {"docker", "built", "broken"} /\ build'[b] = "running"
            /\ wpc'[w] = "built" => b \in images'
         \/ /\ wpc'[w] = "idle"
            /\ build'[b] = "succeeded" => b \in images'
            /\ b \in dropped' \/ build'[b] \in {"failed", "succeeded"}
  PROVE  BuildInv'
<1>1. /\ b \notin jobs /\ build[b] \in {"queued", "running"}
      /\ \A v \in Workers : wpc[v] # "idle" /\ doing[v] = b => v = w
      /\ \A r \in Requests : req[r].pc \in {"build", "enqueue"} => req[r].id # b
  BY DEF BuildInv, Requested, Worked, Building, Works
<1>2. \A r \in Requests : req[r].pc \in {"build", "enqueue"} => req[r].id \in Builds
  BY DEF Typed, Numbered, Building
<1>3. Requested'
  <2>1. \A c \in Builds : c > asked'["build"] => build'[c] = "absent"
    BY <1>1 DEF BuildInv, Requested
  <2>2. ASSUME NEW r \in Requests, req[r].pc \in {"build", "enqueue"}, NEW v \in Workers, wpc'[v] # "idle"
        PROVE  doing'[v] # req[r].id
    BY <1>1, <2>2 DEF BuildInv, Requested, Building, Works
  <2>3. \A r \in Requests : req[r].pc \in {"build", "enqueue"} => build'[req[r].id] = build[req[r].id]
    BY <1>1, <1>2
  <2> QED
    BY <2>1, <2>2, <2>3 DEF BuildInv, Requested, Building, Works
<1>4. Worked'
  <2>1. ASSUME NEW c \in jobs PROVE build'[c] = "queued" /\ \A v \in Workers : wpc'[v] # "idle" => doing'[v] # c
    BY <1>1, <2>1 DEF BuildInv, Worked, Works, Typed, TypeOK
  <2>2. ASSUME NEW v \in Workers, v # w, wpc'[v] # "idle"
        PROVE  /\ build'[doing'[v]] = IF wpc'[v] = "load" THEN "queued" ELSE "running"
               /\ wpc'[v] = "built" => doing'[v] \in images'
               /\ doing'[v] # b
    <3>1. doing[v] \in Builds /\ doing[v] # b /\ wpc[v] # "idle" /\ doing'[v] = doing[v]
      BY <1>1, <2>2 DEF Typed, Numbered
    <3> QED
      BY <2>2, <3>1 DEF BuildInv, Worked, Works
  <2>3. \A v, u \in Workers : wpc'[v] # "idle" /\ wpc'[u] # "idle" /\ doing'[v] = doing'[u] => v = u
    BY <1>1 DEF BuildInv, Worked, Works
  <2> QED
    BY <2>1, <2>2, <2>3 DEF Worked, Works
<1>5. BuildsAccounted'
  <2>1. ASSUME NEW c \in Builds, c # b
        PROVE  /\ build'[c] = "succeeded" => c \in images'
               /\ build'[c] = "queued" /\ c \notin dropped' =>
                    \/ c \in jobs'
                    \/ \E r \in Requests : req'[r].pc = "enqueue" /\ req'[r].id = c
                    \/ \E v \in Workers : doing'[v] = c /\ wpc'[v] = "load"
               /\ build'[c] = "running" /\ c \notin dropped' =>
                    \E v \in Workers : doing'[v] = c /\ wpc'[v] # "load"
    BY <2>1 DEF BuildInv, BuildsAccounted
  <2>2. build'[b] = "succeeded" => b \in images'
    OBVIOUS
  <2>3. build'[b] = "queued" => b \in dropped'
    OBVIOUS
  <2>4. build'[b] = "running" /\ b \notin dropped' => doing'[w] = b /\ wpc'[w] # "load"
    OBVIOUS
  <2> QED
    BY <2>1, <2>2, <2>3, <2>4 DEF BuildsAccounted
<1> QED
  BY <1>3, <1>4, <1>5 DEF BuildInv

LEMMA WorkerBuilds ==
  ASSUME Typed, BuildInv, NEW w \in Workers, WorkerStep(w) \/ LogTooLong(w) \/ JobFails(w)
  PROVE  BuildInv'
<1> USE DEF StepTo, JobDone, rowVars
<1>1. wpc[w] # "idle" /\ doing[w] \in Builds
  BY DEF WorkerStep, MarkRunning, Docker, CommitOutcome, LogTooLong, JobFails, Typed, Numbered
<1>2. PICK b \in Builds : b = doing[w]
  BY <1>1
<1>3. /\ \A v \in Workers : v # w => wpc'[v] = wpc[v] /\ doing'[v] = doing[v]
      /\ \A c \in Builds : c # b => build'[c] = build[c]
      /\ UNCHANGED <<asked, req, jobs>> /\ images \subseteq images' /\ dropped \subseteq dropped'
  BY <1>2 DEF WorkerStep, MarkRunning, Docker, CommitOutcome, LogTooLong, JobFails, Typed, TypeOK
<1>4. /\ build[b] = IF wpc[w] = "load" THEN "queued" ELSE "running"
      /\ wpc[w] = "built" => b \in images
  BY <1>1, <1>2 DEF BuildInv, Worked, Works
<1>5. ASSUME MarkRunning(w) \/ Docker(w)
      PROVE  /\ doing'[w] = b /\ wpc'[w] \in {"docker", "built", "broken"} /\ build'[b] = "running"
             /\ wpc'[w] = "built" => b \in images'
  BY <1>2, <1>4, <1>5 DEF MarkRunning, Docker, Typed, TypeOK
<1>6. ASSUME CommitOutcome(w) \/ LogTooLong(w) \/ JobFails(w)
      PROVE  /\ wpc'[w] = "idle"
             /\ build'[b] = "succeeded" => b \in images'
             /\ b \in dropped' \/ build'[b] \in {"failed", "succeeded"}
  <2>1. wpc'[w] = "idle" /\ UNCHANGED images
    BY <1>6 DEF CommitOutcome, LogTooLong, JobFails, Typed, TypeOK
  <2>2. build'[b] \in {build[b], "running", "failed"} \/ (build'[b] = "succeeded" /\ wpc[w] = "built")
    BY <1>2, <1>6 DEF CommitOutcome, LogTooLong, JobFails, Outcome, Typed, TypeOK
  <2>3. b \in dropped' \/ build'[b] \in {"failed", "succeeded"}
    BY <1>2, <1>6 DEF CommitOutcome, LogTooLong, JobFails, Outcome, Typed, TypeOK
  <2> QED
    BY <1>4, <2>1, <2>2, <2>3
<1> QED
  BY <1>1, <1>2, <1>3, <1>5, <1>6, WorkedStep DEF WorkerStep

LEMMA BuildRequests ==
  ASSUME Typed, BuildInv, NEW r \in Requests, Building(r),
         CommitBuild(r) \/ EnqueueBuild(r) \/ RequestFails(r)
  PROVE  BuildInv'
<1> USE DEF rowVars, Building
<1>1. CASE CommitBuild(r)
  <2>1. Only(r) /\ req'[r].pc = "enqueue" /\ req'[r].id = req[r].id
    BY <1>1, OnlyGoes DEF CommitBuild, Typed
  <2> QED
    BY <1>1, <2>1, RequestedStep DEF CommitBuild
<1>2. CASE EnqueueBuild(r)
  <2>1. Only(r) /\ req'[r].pc = "idle"
    BY <1>2, OnlyAnswered DEF EnqueueBuild, Typed
  <2> QED
    BY <1>2, <2>1, RequestedStep DEF EnqueueBuild
<1>3. CASE RequestFails(r)
  <2>1. Only(r) /\ req'[r].pc = "idle"
    BY <1>3, OnlyAnswered DEF RequestFails, Typed
  <2>2. /\ dropped' = dropped \cup {req[r].id} /\ UNCHANGED <<asked, images, workerVars>>
        /\ \/ UNCHANGED <<build, jobs>>
           \/ /\ req[r].pc = "build" /\ build' = [build EXCEPT ![req[r].id] = "queued"] /\ UNCHANGED jobs
           \/ /\ req[r].pc = "enqueue" /\ jobs' = jobs \cup {req[r].id} /\ UNCHANGED build
    BY <1>3 DEF RequestFails
  <2> QED
    BY <2>1, <2>2, RequestedStep
<1> QED
  BY <1>1, <1>2, <1>3

LEMMA OtherRequests ==
  ASSUME TypeOK, NEW r \in Requests, ~Building(r),
         \/ RequestStep(r) \/ RequestFails(r) \/ Draft(r)
         \/ \E v \in Versions : Publish(r, v)
         \/ \E g \in Groups : Bind(r, g)
         \/ \E b \in Bindings : Unbind(r, b)
  PROVE  Unbuilt
<1> USE DEF rowVars, Building, Kinds
<1>a. ASSUME Only(r), req'[r].pc \notin {"build", "enqueue"},
             UNCHANGED <<build, jobs, images, workerVars, dropped>>, asked'["build"] = asked["build"]
      PROVE  Unbuilt
  BY <1>a DEF Unbuilt, Only
<1>1. ASSUME Draft(r) PROVE Unbuilt
  <2> DEFINE read == [Idle EXCEPT !.pc = "draft", !.id = Cardinality({v \in Versions : version[v] # "absent"}) + 1]
  <2>0. Open(r, "draft", read)
    BY <1>1 DEF Draft
  <2>1. Only(r) /\ req'[r] = read /\ asked'["build"] = asked["build"]
    <3> HIDE DEF read
    <3> QED
      BY <2>0, OnlyOpen
  <2>2. req'[r].pc = "draft"
    BY <2>1 DEF Idle
  <2> QED
    BY <1>1, <1>a, <2>1, <2>2 DEF Draft
<1>2. ASSUME NEW v \in Versions, Publish(r, v) PROVE Unbuilt
  <2> DEFINE read == [Idle EXCEPT !.pc = "select", !.id = v, !.loaded = version[v]]
  <2>0. Open(r, "publish", read)
    BY <1>2 DEF Publish
  <2>1. Only(r) /\ req'[r] = read /\ asked'["build"] = asked["build"]
    <3> HIDE DEF read
    <3> QED
      BY <2>0, OnlyOpen
  <2>2. req'[r].pc = "select"
    BY <2>1 DEF Idle
  <2> QED
    BY <1>2, <1>a, <2>1, <2>2 DEF Publish
<1>3. ASSUME NEW g \in Groups, Bind(r, g) PROVE Unbuilt
  <2> DEFINE read == [Idle EXCEPT !.pc = "free", !.id = asked["bind"] + 1, !.group = g]
  <2>0. Open(r, "bind", read)
    BY <1>3 DEF Bind
  <2>1. Only(r) /\ req'[r] = read /\ asked'["build"] = asked["build"]
    <3> HIDE DEF read
    <3> QED
      BY <2>0, OnlyOpen
  <2>2. req'[r].pc = "free"
    BY <2>1 DEF Idle
  <2> QED
    BY <1>3, <1>a, <2>1, <2>2 DEF Bind
<1>4. ASSUME NEW b \in Bindings, Unbind(r, b) PROVE Unbuilt
  <2> DEFINE read == [Idle EXCEPT !.pc = "unbind", !.id = b, !.loaded = binding[b].status]
  <2>0. Open(r, "unbind", read)
    BY <1>4 DEF Unbind
  <2>1. Only(r) /\ req'[r] = read /\ asked'["build"] = asked["build"]
    <3> HIDE DEF read
    <3> QED
      BY <2>0, OnlyOpen
  <2>2. req'[r].pc = "unbind"
    BY <2>1 DEF Idle
  <2> QED
    BY <1>4, <1>a, <2>1, <2>2 DEF Unbind
<1>5. CASE RequestFails(r)
  <2>1. Only(r) /\ req'[r].pc = "idle"
    BY <1>5, OnlyAnswered DEF RequestFails
  <2>2. UNCHANGED <<build, jobs, images, workerVars, dropped, asked>>
    BY <1>5 DEF RequestFails, Bound
  <2> QED
    BY <1>a, <2>1, <2>2
<1>6. CASE InsertDraft(r) \/ CommitPublish(r) \/ CommitUnbind(r) \/ Notify(r)
  BY <1>6, <1>a, OnlyAnswered DEF InsertDraft, CommitPublish, CommitUnbind, Notify
<1>7. CASE SelectPublished(r)
  <2>1. Only(r) /\ req'[r].pc = "publish"
    BY <1>7 DEF SelectPublished, Only, TypeOK
  <2> QED
    BY <1>7, <1>a, <2>1 DEF SelectPublished
<1>8. CASE CheckFree(r) \/ CommitBind(r)
  BY <1>8, <1>a, OnlyAnswered, OnlyGoes DEF CheckFree, CommitBind, Bound
<1>9. CASE CommitBuild(r) \/ EnqueueBuild(r)
  BY <1>9 DEF CommitBuild, EnqueueBuild
<1> QED
  BY <1>1, <1>2, <1>3, <1>4, <1>5, <1>6, <1>7, <1>8, <1>9 DEF RequestStep

LEMMA BuildInit == Init => BuildInv
BY DEF Init, BuildInv, Requested, Worked, BuildsAccounted, Building, Works, Idle

LEMMA BuildNext == Typed /\ BuildInv /\ [Next]_vars => BuildInv'
<1> SUFFICES ASSUME Typed, BuildInv, [Next]_vars PROVE BuildInv'
  OBVIOUS
<1>1. ASSUME NEW r \in Requests,
             \/ RequestStep(r) \/ RequestFails(r) \/ Draft(r)
             \/ \E v \in Versions : Publish(r, v)
             \/ \E g \in Groups : Bind(r, g)
             \/ \E b \in Bindings : Unbind(r, b)
      PROVE  BuildInv'
  <2>1. CASE ~Building(r)
    BY <1>1, <2>1, OtherRequests, UnbuiltStep DEF Typed
  <2>2. CASE Building(r)
    <3>1. CommitBuild(r) \/ EnqueueBuild(r) \/ RequestFails(r)
      BY <1>1, <2>2 DEF Building, RequestStep, Draft, Publish, Bind, Unbind, Open, InsertDraft,
         SelectPublished, CommitPublish, CheckFree, CommitBind, Notify, CommitUnbind
    <3> QED
      BY <2>2, <3>1, BuildRequests
  <2> QED
    BY <2>1, <2>2
<1>2. CASE UNCHANGED vars
  <2>1. Unbuilt
    BY <1>2 DEF vars, rowVars, Unbuilt
  <2> QED
    BY <2>1, UnbuiltStep
<1> QED
  BY <1>1, <1>2, AskBuildStep, StartStep, WorkerBuilds DEF Next

\* A build that says succeeded has its image, and one that says queued or running has
\* somebody who will settle it unless a failure was met, for any number of builds,
\* requests and workers.
THEOREM BuildsAreAccounted == Spec => []BuildsAccounted
<1>1. BuildInv => BuildsAccounted
  BY DEF BuildInv
<1> QED
  BY <1>1, TypedInit, TypedNext, BuildInit, BuildNext, PTL DEF Spec
-----------------------------------------------------------------------------
(* Publications: while they do not overlap, the one in progress has        *)
(* selected exactly the other published versions.                          *)

Publisher(r) == req[r].pc \in {"select", "publish"}

AtMostOne == \A u, v \in Versions : version[u] = "published" /\ version[v] = "published" => u = v

\* Nothing is archived without a version published in its place.
Superseded == \A u \in Versions : version[u] = "archived" => \E v \in Versions : version[v] = "published"

\* The publication in progress is the only one and what it has read is still true.
Sole(r) ==
  /\ \A s \in Requests : Publisher(s) => s = r
  /\ req[r].loaded = version[req[r].id] /\ req[r].loaded # "absent"
  /\ req[r].pc = "publish" => req[r].others = Published \ {req[r].id}

PubInv ==
  /\ \A r \in Requests : Publisher(r) => req[r].id \in Versions
  /\ ~overlap => AtMostOne /\ Superseded /\ \A r \in Requests : Publisher(r) => Sole(r)

\* No step but those of a publication changes what is published or archived.
Unpublished ==
  /\ \A v \in Versions : version'[v] = version[v] \/ (version[v] = "absent" /\ version'[v] = "draft")
  /\ \A r \in Requests : req'[r].pc \in {"select", "publish"} => req'[r] = req[r]
  /\ UNCHANGED overlap

Committed(r) ==
  /\ req[r].pc = "publish" /\ version' = Republished(r)
  /\ Only(r) /\ req'[r].pc = "idle"
  /\ UNCHANGED overlap

LEMMA PublicationSteps ==
  ASSUME TypeOK, [Next]_vars
  PROVE  \/ Unpublished
         \/ \E r \in Requests : \/ SelectPublished(r) \/ Committed(r)
                               \/ \E v \in Versions : Publish(r, v)
<1> USE DEF Kinds, rowVars, workerVars
<1>a. ASSUME NEW r \in Requests, Only(r), UNCHANGED <<version, overlap>>, req'[r].pc \notin {"select", "publish"}
      PROVE  Unpublished
  BY <1>a DEF Unpublished, Only
<1>1. ASSUME NEW r \in Requests, Draft(r) PROVE Unpublished
  <2> DEFINE read == [Idle EXCEPT !.pc = "draft", !.id = Cardinality({v \in Versions : version[v] # "absent"}) + 1]
  <2>0. Open(r, "draft", read)
    BY <1>1 DEF Draft
  <2>1. Only(r) /\ req'[r] = read
    <3> HIDE DEF read
    <3> QED
      BY <2>0, OnlyOpen
  <2>2. req'[r].pc = "draft"
    BY <2>1 DEF Idle
  <2> QED
    BY <1>1, <1>a, <2>1, <2>2 DEF Draft
<1>2. ASSUME NEW r \in Requests, AskBuild(r) PROVE Unpublished
  <2> DEFINE read == [Idle EXCEPT !.pc = "build", !.id = asked["build"] + 1]
  <2>0. Open(r, "build", read)
    BY <1>2 DEF AskBuild
  <2>1. Only(r) /\ req'[r] = read
    <3> HIDE DEF read
    <3> QED
      BY <2>0, OnlyOpen
  <2>2. req'[r].pc = "build"
    BY <2>1 DEF Idle
  <2> QED
    BY <1>2, <1>a, <2>1, <2>2 DEF AskBuild
<1>3. ASSUME NEW r \in Requests, NEW g \in Groups, Bind(r, g) PROVE Unpublished
  <2> DEFINE read == [Idle EXCEPT !.pc = "free", !.id = asked["bind"] + 1, !.group = g]
  <2>0. Open(r, "bind", read)
    BY <1>3 DEF Bind
  <2>1. Only(r) /\ req'[r] = read
    <3> HIDE DEF read
    <3> QED
      BY <2>0, OnlyOpen
  <2>2. req'[r].pc = "free"
    BY <2>1 DEF Idle
  <2> QED
    BY <1>3, <1>a, <2>1, <2>2 DEF Bind
<1>4. ASSUME NEW r \in Requests, NEW b \in Bindings, Unbind(r, b) PROVE Unpublished
  <2> DEFINE read == [Idle EXCEPT !.pc = "unbind", !.id = b, !.loaded = binding[b].status]
  <2>0. Open(r, "unbind", read)
    BY <1>4 DEF Unbind
  <2>1. Only(r) /\ req'[r] = read
    <3> HIDE DEF read
    <3> QED
      BY <2>0, OnlyOpen
  <2>2. req'[r].pc = "unbind"
    BY <2>1 DEF Idle
  <2> QED
    BY <1>4, <1>a, <2>1, <2>2 DEF Unbind
<1>5. ASSUME NEW r \in Requests, InsertDraft(r) PROVE Unpublished
  <2>1. Only(r) /\ req'[r].pc = "idle"
    BY <1>5, OnlyAnswered DEF InsertDraft
  <2>2. \A v \in Versions : version'[v] = version[v] \/ (version[v] = "absent" /\ version'[v] = "draft")
    BY <1>5 DEF InsertDraft, TypeOK
  <2> QED
    BY <1>5, <2>1, <2>2 DEF InsertDraft, Unpublished, Only
<1>6. ASSUME NEW r \in Requests, CommitPublish(r) PROVE Committed(r)
  BY <1>6, OnlyAnswered DEF CommitPublish, Committed
<1>7. ASSUME NEW r \in Requests, CheckFree(r) PROVE Unpublished
  BY <1>7, <1>a, OnlyAnswered, OnlyGoes DEF CheckFree
<1>8. ASSUME NEW r \in Requests, CommitBind(r) PROVE Unpublished
  BY <1>8, <1>a, OnlyAnswered, OnlyGoes DEF CommitBind, Bound
<1>9. ASSUME NEW r \in Requests, Notify(r) PROVE Unpublished
  BY <1>9, <1>a, OnlyAnswered DEF Notify
<1>10. ASSUME NEW r \in Requests, CommitUnbind(r) PROVE Unpublished
  BY <1>10, <1>a, OnlyAnswered DEF CommitUnbind
<1>11. ASSUME NEW r \in Requests, CommitBuild(r) PROVE Unpublished
  BY <1>11, <1>a, OnlyGoes DEF CommitBuild
<1>12. ASSUME NEW r \in Requests, EnqueueBuild(r) PROVE Unpublished
  BY <1>12, <1>a, OnlyAnswered DEF EnqueueBuild
<1>13. ASSUME NEW r \in Requests, RequestFails(r) PROVE Unpublished \/ Committed(r)
  <2>1. Only(r) /\ req'[r].pc = "idle" /\ UNCHANGED overlap
    BY <1>13, OnlyAnswered DEF RequestFails
  <2>2. UNCHANGED version \/ (req[r].pc = "publish" /\ version' = Republished(r))
    BY <1>13 DEF RequestFails, Bound
  <2> QED
    BY <1>a, <2>1, <2>2 DEF Committed
<1>14. ASSUME NEW w \in Workers, WorkerStep(w) \/ LogTooLong(w) \/ JobFails(w) PROVE Unpublished
  BY <1>14 DEF WorkerStep, MarkRunning, Docker, CommitOutcome, LogTooLong, JobFails, Unpublished
<1>15. ASSUME NEW w \in Workers, NEW b \in Builds, Start(w, b) PROVE Unpublished
  BY <1>15 DEF Start, Unpublished
<1>16. CASE UNCHANGED vars
  BY <1>16 DEF vars, Unpublished
<1> QED
  BY <1>1, <1>2, <1>3, <1>4, <1>5, <1>6, <1>7, <1>8, <1>9, <1>10, <1>11, <1>12, <1>13, <1>14, <1>15, <1>16
     DEF Next, RequestStep

LEMMA UnpublishedStep ==
  ASSUME Typed, PubInv, Unpublished
  PROVE  PubInv'
<1>1. \A v \in Versions : /\ version'[v] = "published" <=> version[v] = "published"
                          /\ version'[v] = "archived" <=> version[v] = "archived"
                          /\ version[v] # "absent" => version'[v] = version[v]
  BY DEF Unpublished
<1>2. Published' = Published
  BY <1>1 DEF Published
<1>3. ASSUME NEW r \in Requests, Publisher(r)'
      PROVE  Publisher(r) /\ req'[r] = req[r] /\ req[r].id \in Versions
  BY <1>3 DEF Unpublished, Publisher, PubInv
<1>4. ASSUME ~overlap PROVE AtMostOne' /\ Superseded'
  <2>1. AtMostOne /\ Superseded
    BY <1>4 DEF PubInv
  <2> QED
    BY <1>1, <2>1 DEF AtMostOne, Superseded
<1>5. ASSUME ~overlap, NEW r \in Requests, Publisher(r)' PROVE Sole(r)'
  <2>1. Sole(r) /\ req'[r] = req[r] /\ req[r].id \in Versions
    BY <1>3, <1>5 DEF PubInv
  <2>2. version'[req[r].id] = version[req[r].id]
    BY <1>1, <2>1 DEF Sole
  <2>3. \A s \in Requests : Publisher(s)' => s = r
    BY <1>3, <2>1 DEF Sole
  <2> QED
    BY <1>2, <2>1, <2>2, <2>3 DEF Sole
<1> QED
  BY <1>3, <1>4, <1>5 DEF PubInv, Unpublished

LEMMA PublishStep ==
  ASSUME Typed, PubInv, NEW r \in Requests, NEW v \in Versions, Publish(r, v)
  PROVE  PubInv'
<1> DEFINE read == [Idle EXCEPT !.pc = "select", !.id = v, !.loaded = version[v]]
<1>0. Open(r, "publish", read) /\ UNCHANGED version /\ version[v] # "absent"
  BY DEF Publish, rowVars
<1>1. Only(r) /\ req'[r] = read
  <2> HIDE DEF read
  <2> QED
    BY <1>0, OnlyOpen DEF Typed, Kinds
<1>2. req'[r].pc = "select" /\ req'[r].id = v /\ req'[r].loaded = version[v]
  BY <1>1 DEF Idle
<1> HIDE DEF read
<1>3. \A s \in Requests : Publisher(s)' => s = r \/ (Publisher(s) /\ req'[s] = req[s])
  BY <1>1 DEF Only, Publisher
<1>4. ASSUME ~overlap'
      PROVE  ~overlap /\ \A s \in Requests : ~Publisher(s)
  BY <1>4 DEF Publish, Publishing, Publisher, Typed, TypeOK
<1>5. ASSUME ~overlap' PROVE AtMostOne' /\ Superseded' /\ Sole(r)'
  <2>1. AtMostOne' /\ Superseded'
    BY <1>0, <1>4, <1>5 DEF PubInv, AtMostOne, Superseded
  <2> QED
    BY <1>0, <1>2, <1>3, <1>4, <1>5, <2>1 DEF Sole
<1>6. \A s \in Requests : Publisher(s)' => req'[s].id \in Versions
  BY <1>2, <1>3 DEF PubInv
<1> QED
  BY <1>3, <1>4, <1>5, <1>6 DEF PubInv

LEMMA SelectStep ==
  ASSUME Typed, PubInv, NEW r \in Requests, SelectPublished(r)
  PROVE  PubInv'
<1>1. /\ UNCHANGED <<version, overlap>> /\ Publisher(r)
      /\ req'[r].pc = "publish" /\ req'[r].id = req[r].id /\ req'[r].loaded = req[r].loaded
      /\ req'[r].others = Published \ {req[r].id}
  BY DEF SelectPublished, rowVars, Publisher, Typed, TypeOK
<1>2. \A s \in Requests : s # r => req'[s] = req[s]
  BY DEF SelectPublished, Typed, TypeOK
<1>3. \A s \in Requests : Publisher(s)' => Publisher(s) /\ req'[s].id = req[s].id
  BY <1>1, <1>2 DEF Publisher
<1>4. Published' = Published
  BY <1>1 DEF Published
<1>5. ASSUME ~overlap, NEW s \in Requests, Publisher(s)' PROVE Sole(s)'
  <2>1. Sole(r) /\ s = r
    BY <1>1, <1>3, <1>5 DEF PubInv, Sole
  <2> QED
    BY <1>1, <1>3, <1>4, <2>1 DEF Sole
<1>6. ~overlap => AtMostOne' /\ Superseded'
  BY <1>1 DEF PubInv, AtMostOne, Superseded
<1> QED
  BY <1>1, <1>3, <1>5, <1>6 DEF PubInv

\* A publication that is alone leaves its target as the one published version.
LEMMA CommittedStep ==
  ASSUME Typed, PubInv, NEW r \in Requests, Committed(r)
  PROVE  PubInv'
<1>1. \A s \in Requests : Publisher(s)' => s # r /\ Publisher(s) /\ req'[s] = req[s]
  BY DEF Committed, Only, Publisher
<1>2. ASSUME ~overlap PROVE Sole(r) /\ AtMostOne /\ Superseded /\ req[r].id \in Versions
  BY <1>2 DEF PubInv, Committed, Publisher
<1>3. ASSUME ~overlap, NEW v \in Versions PROVE version'[v] = "published" <=> v = req[r].id
  <2>1. version'[v] = Republished(r)[v] /\ req[r].pc = "publish"
    BY DEF Committed
  <2>2. req[r].others = Published \ {req[r].id} /\ req[r].loaded = version[req[r].id]
    BY <1>2, <1>3, <2>1 DEF Sole
  <2> QED
    BY <2>1, <2>2 DEF Republished, Published
<1>4. ~overlap => AtMostOne' /\ Superseded'
  BY <1>2, <1>3 DEF AtMostOne, Superseded
<1>5. ~overlap => \A s \in Requests : ~Publisher(s)'
  BY <1>1, <1>2 DEF Sole
<1>6. UNCHANGED overlap
  BY DEF Committed
<1> QED
  BY <1>1, <1>4, <1>5, <1>6 DEF PubInv

LEMMA PubInit == Init => PubInv
BY DEF Init, PubInv, AtMostOne, Superseded, Publisher, Idle

LEMMA PubNext == Typed /\ PubInv /\ [Next]_vars => PubInv'
BY PublicationSteps, UnpublishedStep, PublishStep, SelectStep, CommittedStep DEF Typed

LEMMA PubImplies == TypeOK /\ PubInv => OnePublished
<1> SUFFICES ASSUME TypeOK, PubInv, ~overlap,
                    NEW u \in Versions, version[u] \notin {"absent", "draft"}
             PROVE  Cardinality(Published) = 1
  <2>1. (\A v \in Versions : version[v] \in {"absent", "draft"}) => Published = {}
    BY DEF Published
  <2> QED
    BY <2>1 DEF OnePublished
<1>1. PICK v \in Versions : version[v] = "published"
  BY DEF PubInv, Superseded, TypeOK, VersionStates
<1>2. Published = {v}
  BY <1>1 DEF PubInv, AtMostOne, Published
<1> QED
  BY <1>2, FS_Singleton

\* Publications and rollbacks that do not overlap leave exactly one version published
\* from the first one on, whatever drafts are inserted, requests fail and commits are
\* lost in between.
THEOREM OneVersionPublished == Spec => []OnePublished
<1>1. Typed => TypeOK
  BY DEF Typed
<1> QED
  BY <1>1, TypedInit, TypedNext, PubInit, PubNext, PubImplies, PTL DEF Spec
=============================================================================
