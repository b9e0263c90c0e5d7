------------------------- MODULE KnowledgeLifecycle -------------------------
(***************************************************************************)
(* The versions of one knowledge document: API requests that draft,        *)
(* publish and roll back, and the RQ job that indexes a version and makes  *)
(* it READY, the only status retrieval reads.                              *)
(*                                                                         *)
(* Requests and jobs run in sessions of their own at READ COMMITTED, with  *)
(* no row lock between what they read and what they commit.                *)
(***************************************************************************)
EXTENDS Naturals, FiniteSets

CONSTANTS
  Editors,       \* concurrent API requests
  Workers,       \* RQ worker processes
  MaxVersions,   \* bound: versions drafted
  MaxRequests    \* bound: publish and rollback requests made

ASSUME ConstantAssumption == MaxVersions \in Nat /\ MaxRequests \in Nat /\ IsFiniteSet(Editors)

Versions == 1..MaxVersions

VARIABLES
  status,    \* knowledge_versions.status by version_no; "absent" without a row
  requests,  \* publish and rollback requests so far
  epc,       \* where each request is
  target,    \* the version it creates or publishes; 0 for none
  loaded,    \* the status of the target in its session
  others,    \* the other PUBLISHED versions it has selected
  queue,     \* entries of the RQ queue for the indexing job of each version
  wpc,       \* where each worker is in process_knowledge_version_job
  doing,     \* the version it indexes; 0 for none
  seen,      \* the status of that version in its session
  hit        \* history: versions whose enqueue or indexing failed

editorVars == <<requests, epc, target, loaded, others>>
workerVars == <<wpc, doing, seen>>
vars == <<status, editorVars, queue, workerVars, hit>>

Statuses == {"absent", "draft", "published", "ready", "archived"}

Existing  == {v \in Versions : status[v] # "absent"}
Published == {v \in Versions : status[v] = "published"}

TypeOK ==
  /\ status \in [Versions -> Statuses]
  /\ requests \in 0..MaxRequests
  /\ epc \in [Editors -> {"idle", "draft", "select", "commit", "enqueue"}]
  /\ target \in [Editors -> 0..MaxVersions]
  /\ loaded \in [Editors -> Statuses]
  /\ others \in [Editors -> SUBSET Versions]
  /\ queue \in [Versions -> Nat]
  /\ wpc \in [Workers -> {"idle", "load", "commit"}]
  /\ doing \in [Workers -> 0..MaxVersions]
  /\ seen \in [Workers -> Statuses]
  /\ hit \subseteq Versions

Init ==
  /\ status = [v \in Versions |-> "absent"]
  /\ requests = 0
  /\ epc = [e \in Editors |-> "idle"]
  /\ target = [e \in Editors |-> 0]
  /\ loaded = [e \in Editors |-> "absent"]
  /\ others = [e \in Editors |-> {}]
  /\ queue = [v \in Versions |-> 0]
  /\ wpc = [w \in Workers |-> "idle"]
  /\ doing = [w \in Workers |-> 0]
  /\ seen = [w \in Workers |-> "absent"]
  /\ hit = {}

-----------------------------------------------------------------------------
(* The API requests.                                                       *)

Answered(e) == /\ epc' = [epc EXCEPT ![e] = "idle"]
               /\ target' = [target EXCEPT ![e] = 0]
               /\ loaded' = [loaded EXCEPT ![e] = "absent"]
               /\ others' = [others EXCEPT ![e] = {}]

\* create_knowledge_version_draft reads the highest version_no ...
NewDraft(e) ==
  LET no == Cardinality(Existing) + 1 IN
  /\ epc[e] = "idle" /\ no \in Versions
  /\ epc' = [epc EXCEPT ![e] = "draft"]
  /\ target' = [target EXCEPT ![e] = no]
  /\ UNCHANGED <<status, requests, loaded, others, queue, workerVars, hit>>

\* ... and inserts the next one, or is answered 409 when the number is taken.
InsertDraft(e) ==
  /\ epc[e] = "draft"
  /\ IF target[e] \in Existing THEN UNCHANGED status
     ELSE status' = [status EXCEPT ![target[e]] = "draft"]
  /\ Answered(e)
  /\ UNCHANGED <<requests, queue, workerVars, hit>>

\* An archived version is not published again, and only an archived or published
\* one is rolled back to.
Allowed(op, s) == IF op = "publish" THEN s \in {"draft", "published", "ready"}
                  ELSE s \in {"archived", "published"}

\* publish_knowledge_version and rollback_knowledge_version load the target ...
Open(e, v, op) ==
  /\ epc[e] = "idle" /\ requests < MaxRequests
  /\ Allowed(op, status[v])
  /\ requests' = requests + 1
  /\ epc' = [epc EXCEPT ![e] = "select"]
  /\ target' = [target EXCEPT ![e] = v]
  /\ loaded' = [loaded EXCEPT ![e] = status[v]]
  /\ UNCHANGED <<status, others, queue, workerVars, hit>>

SelectNone(e) ==
  /\ epc[e] = "select"
  /\ others' = [others EXCEPT ![e] = {}]
  /\ epc' = [epc EXCEPT ![e] = "commit"]
  /\ UNCHANGED <<status, requests, target, loaded, queue, workerVars, hit>>

\* ... select the other PUBLISHED versions (not the READY ones) ...
SelectPublished(e) ==
  /\ epc[e] = "select"
  /\ others' = [others EXCEPT ![e] = Published \ {target[e]}]
  /\ epc' = [epc EXCEPT ![e] = "commit"]
  /\ UNCHANGED <<status, requests, target, loaded, queue, workerVars, hit>>

\* What the request commits: the versions it selected are archived, whatever they
\* have become. A target that was loaded as PUBLISHED is not part of the UPDATE.
PublishedRows(e) ==
  [v \in Versions |->
     IF v \in others[e] THEN "archived"
     ELSE IF v = target[e] /\ loaded[e] # "published" THEN "published"
     ELSE status[v]]

\* ... and archive them and publish the target in one commit.
CommitPublish(e) ==
  /\ epc[e] = "commit"
  /\ status' = PublishedRows(e)
  /\ epc' = [epc EXCEPT ![e] = "enqueue"]
  /\ UNCHANGED <<requests, target, loaded, others, queue, workerVars, hit>>

EnqueueDrafts(e) ==
  /\ epc[e] = "enqueue"
  /\ queue' = IF loaded[e] = "draft" THEN [queue EXCEPT ![target[e]] = @ + 1] ELSE queue
  /\ Answered(e)
  /\ UNCHANGED <<status, requests, workerVars, hit>>

EnqueueIndexing(e) ==
  /\ epc[e] = "enqueue"
  /\ queue' = [queue EXCEPT ![target[e]] = @ + 1]
  /\ Answered(e)
  /\ UNCHANGED <<status, requests, workerVars, hit>>

\* The request dies, its commit fails (applied or not), or Redis fails, which is
\* logged and swallowed.
RequestFails(e) ==
  /\ epc[e] # "idle"
  /\ \/ UNCHANGED <<status, queue>>
     \/ epc[e] = "commit" /\ status' = PublishedRows(e) /\ UNCHANGED queue
     \/ /\ epc[e] = "enqueue" /\ UNCHANGED status
        /\ queue' = [queue EXCEPT ![target[e]] = @ + 1]
  /\ hit' = IF epc[e] \in {"commit", "enqueue"} THEN hit \cup {target[e]} ELSE hit
  /\ Answered(e)
  /\ UNCHANGED <<requests, workerVars>>

-----------------------------------------------------------------------------
(* process_knowledge_version_job, enqueued without Retry.                  *)

Start(w, v) ==
  /\ wpc[w] = "idle" /\ queue[v] > 0
  /\ queue' = [queue EXCEPT ![v] = @ - 1]
  /\ wpc' = [wpc EXCEPT ![w] = "load"]
  /\ doing' = [doing EXCEPT ![w] = v]
  /\ UNCHANGED <<status, editorVars, seen, hit>>

\* The job loads the version, whatever its status is, and embeds its text.
Load(w) ==
  /\ wpc[w] = "load"
  /\ seen' = [seen EXCEPT ![w] = status[doing[w]]]
  /\ wpc' = [wpc EXCEPT ![w] = "commit"]
  /\ UNCHANGED <<status, editorVars, queue, doing, hit>>

JobDone(w) == /\ wpc' = [wpc EXCEPT ![w] = "idle"]
              /\ doing' = [doing EXCEPT ![w] = 0]
              /\ seen' = [seen EXCEPT ![w] = "absent"]

MarkedProcessing(w) == [status EXCEPT ![doing[w]] = "processing"]

\* The embeddings are replaced and the status set to READY in one commit; a
\* version loaded as READY keeps the status it has got meanwhile.
Indexed(w) == [status EXCEPT ![doing[w]] = IF seen[w] = "ready" THEN @ ELSE "ready"]

CommitIndex(w) ==
  /\ wpc[w] = "commit"
  /\ status' = Indexed(w)
  /\ JobDone(w)
  /\ UNCHANGED <<editorVars, queue, hit>>

\* The embedding service or the database fails, or the worker dies.
IndexingFails(w) ==
  /\ wpc[w] # "idle"
  /\ \/ UNCHANGED status
     \/ wpc[w] = "commit" /\ status' = Indexed(w)
  /\ hit' = hit \cup {doing[w]}
  /\ JobDone(w)
  /\ UNCHANGED <<editorVars, queue>>

-----------------------------------------------------------------------------
EditorStep(e) == \/ InsertDraft(e) \/ SelectPublished(e)
                 \/ CommitPublish(e) \/ EnqueueIndexing(e)
WorkerStep(w) == Load(w) \/ CommitIndex(w)

Next ==
  \/ \E e \in Editors : \/ NewDraft(e) \/ EditorStep(e) \/ RequestFails(e)
                        \/ \E v \in Versions, op \in {"publish", "rollback"} : Open(e, v, op)
  \/ \E w \in Workers : \/ WorkerStep(w) \/ IndexingFails(w)
                        \/ \E v \in Versions : Start(w, v)

Spec == Init /\ [][Next]_vars

\* Requests in progress and running jobs go on, and workers take queued jobs.
Fairness ==
  /\ WF_vars(\E e \in Editors : EditorStep(e))
  /\ WF_vars(\E w \in Workers : WorkerStep(w))
  /\ WF_vars(\E w \in Workers, v \in Versions : Start(w, v))

FairSpec == Spec /\ Fairness
-----------------------------------------------------------------------------
\* Two requests may each publish a version without seeing the other's, but no
\* more versions are ever published at once than requests run concurrently: with
\* one editor, at most one.
PublishedBounded == Cardinality(Published) <= Cardinality(Editors)

\* A version that says "published" is on its way to READY: a request is about to
\* enqueue its job, the job is queued, or a worker has it and will write READY -
\* whatever other requests and jobs of the same version do in between.
PublishedHasJob ==
  \A v \in Published \ hit :
    \/ \E e \in Editors : epc[e] = "enqueue" /\ target[e] = v
    \/ queue[v] > 0
    \/ \E w \in Workers : doing[w] = v /\ (wpc[w] = "load" \/ seen[w] # "ready")

\* A published version is indexed or superseded, unless Redis, the embedding
\* service or the database failed.
PublishedIsIndexed ==
  \A v \in Versions :
    status[v] = "published" ~> status[v] \in {"ready", "archived"} \/ v \in hit

\* Archived versions are restored by a rollback only (the message of
\* KnowledgeLifecycleError in publish_knowledge_version).
ArchivedNeedsRollback ==
  [][\A v \in Versions :
       status[v] = "archived" /\ status'[v] # "archived"
         => \E e \in Editors : epc[e] = "commit" /\ target[e] = v]_vars
=============================================================================
