---------------------------- MODULE Provisioning ----------------------------
(***************************************************************************)
(* The administration of one template and of the groups bound to it:       *)
(* versions are drafted, published and rolled back, groups are bound to a  *)
(* published version and unbound, and images are built by an RQ job.       *)
(*                                                                         *)
(* Each request is a session of its own at READ COMMITTED: it reads, checks*)
(* and commits, with nothing locked in between.                            *)
(***************************************************************************)
EXTENDS Naturals, FiniteSets

CONSTANTS
  Requests,   \* concurrent API requests
  Workers,    \* RQ worker processes
  Groups,     \* provider groups
  Nobody,     \* holds a group without an active binding
  Quota       \* bound: how often each kind of request is made

Kinds == {"draft", "publish", "bind", "unbind", "build"}

ASSUME ProvisioningAssumption == Quota \in [Kinds -> Nat] /\ Groups # {} /\ Nobody \notin Nat

Versions == 1..Quota["draft"]
Bindings == 1..Quota["bind"]
Builds   == 1..Quota["build"]

VARIABLES
  version,    \* template_versions.status by version_no; "absent" without a row
  binding,    \* group_bindings with the agent_instances row of each
  noticed,    \* bindings whose activation intent is committed
  build,      \* template_builds
  asked,      \* requests made so far, of each kind
  req,        \* what each request has read and will write
  jobs,       \* builds with an entry in the RQ queue
  images,     \* builds whose image Docker has
  wpc,        \* where each worker is in process_template_build_job
  doing,      \* the build it works on; 0 for none
  overlap,    \* history: two publications of the template were in progress at once
  dropped     \* history: builds whose request or job failed on the way

rowVars    == <<version, binding, noticed, build>>
workerVars == <<wpc, doing>>
vars == <<rowVars, asked, req, jobs, images, workerVars, overlap, dropped>>

Published == {v \in Versions : version[v] = "published"}
Active(g) == {b \in Bindings : binding[b].group = g /\ binding[b].status = "active"}

NoBinding == [group |-> CHOOSE g \in Groups : TRUE, status |-> "absent", agent |-> "none"]
Idle == [pc |-> "idle", id |-> 0, group |-> NoBinding.group, loaded |-> "absent", others |-> {}]

VersionStates == {"absent", "draft", "published", "archived"}
BuildStates   == {"absent", "queued", "running", "succeeded", "failed"}

TypeOK ==
  /\ version \in [Versions -> VersionStates]
  /\ binding \in [Bindings -> [group : Groups, status : {"absent", "active", "inactive"},
                               agent : {"none", "healthy", "stopped"}]]
  /\ noticed \subseteq Bindings
  /\ build \in [Builds -> BuildStates]
  /\ asked \in [Kinds -> Nat]
  /\ req \in [Requests -> [pc : {"idle", "draft", "select", "publish", "free", "bind", "notify",
                                 "unbind", "build", "enqueue"},
                           id : Nat, group : Groups,
                           loaded : VersionStates \cup {"active", "inactive"},
                           others : SUBSET Versions]]
  /\ jobs \subseteq Builds /\ images \subseteq Builds
  /\ wpc \in [Workers -> {"idle", "load", "docker", "built", "broken"}]
  /\ doing \in [Workers -> {0} \cup Builds]
  /\ overlap \in BOOLEAN /\ dropped \subseteq Builds

Init ==
  /\ version = [v \in Versions |-> "absent"]
  /\ binding = [b \in Bindings |-> NoBinding]
  /\ noticed = {}
  /\ build = [b \in Builds |-> "absent"]
  /\ asked = [k \in Kinds |-> 0]
  /\ req = [r \in Requests |-> Idle]
  /\ jobs = {} /\ images = {}
  /\ wpc = [w \in Workers |-> "idle"]
  /\ doing = [w \in Workers |-> 0]
  /\ overlap = FALSE /\ dropped = {}

-----------------------------------------------------------------------------
\* An idle request becomes one of the given kind, with what it reads first.
Open(r, kind, read) ==
  /\ req[r].pc = "idle" /\ asked[kind] < Quota[kind]
  /\ asked' = [asked EXCEPT ![kind] = @ + 1]
  /\ req' = [req EXCEPT ![r] = read]

Goes(r, pc) == req' = [req EXCEPT ![r].pc = pc]
Answered(r) == req' = [req EXCEPT ![r] = Idle]

(* Templates.                                                              *)

\* create_template_version_draft reads the highest version_no and inserts the next:
\* a number taken meanwhile is a conflict.
Draft(r) ==
  /\ Open(r, "draft", [Idle EXCEPT !.pc = "draft", !.id = Cardinality({v \in Versions : version[v] # "absent"}) + 1])
  /\ UNCHANGED <<rowVars, jobs, images, workerVars, overlap, dropped>>

InsertDraft(r) ==
  LET v == req[r].id IN
  /\ req[r].pc = "draft"
  /\ version' = [version EXCEPT ![v] = IF @ = "absent" THEN "draft" ELSE @]
  /\ Answered(r)
  /\ UNCHANGED <<binding, noticed, build, asked, jobs, images, workerVars, overlap, dropped>>

Publishing == {r \in Requests : req[r].pc \in {"select", "publish"}}

\* publish_template_version takes anything but an archived version, and
\* rollback_template_version an archived or published one.
Publish(r, v) ==
  /\ version[v] \in {"draft", "published", "archived"}
  /\ Open(r, "publish", [Idle EXCEPT !.pc = "select", !.id = v, !.loaded = version[v]])
  /\ overlap' = (overlap \/ Publishing # {})
  /\ UNCHANGED <<rowVars, jobs, images, workerVars, dropped>>

\* Without the selection of the published versions.
SelectNone(r) ==
  /\ req[r].pc = "select"
  /\ req' = [req EXCEPT ![r].others = {}, ![r].pc = "publish"]
  /\ UNCHANGED <<rowVars, asked, jobs, images, workerVars, overlap, dropped>>

\* _archive_other_published_versions selects them ...
SelectPublished(r) ==
  /\ req[r].pc = "select"
  /\ req' = [req EXCEPT ![r].others = Published \ {req[r].id}, ![r].pc = "publish"]
  /\ UNCHANGED <<rowVars, asked, jobs, images, workerVars, overlap, dropped>>

\* ... and they are archived in the commit that publishes the target, unless the
\* target was loaded as PUBLISHED already: then its status is not written.
Republished(r) ==
  [v \in Versions |-> IF v \in req[r].others THEN "archived"
                      ELSE IF v = req[r].id /\ req[r].loaded # "published" THEN "published"
                      ELSE version[v]]

CommitPublish(r) ==
  /\ req[r].pc = "publish"
  /\ version' = Republished(r)
  /\ Answered(r)
  /\ UNCHANGED <<binding, noticed, build, asked, jobs, images, workerVars, overlap, dropped>>

-----------------------------------------------------------------------------
(* Bindings.                                                               *)

\* create_binding checks that the version is published ...
Bind(r, g) ==
  /\ Published # {}
  /\ Open(r, "bind", [Idle EXCEPT !.pc = "free", !.id = asked["bind"] + 1, !.group = g])
  /\ UNCHANGED <<rowVars, jobs, images, workerVars, overlap, dropped>>

\* ... and that the group has no active binding ...
CheckFree(r) ==
  /\ req[r].pc = "free"
  /\ IF Active(req[r].group) = {} THEN Goes(r, "bind") ELSE Answered(r)
  /\ UNCHANGED <<rowVars, asked, jobs, images, workerVars, overlap, dropped>>

\* The partial unique index on the group of the active bindings.
ConflictNever(g) == FALSE
Conflict(g) == Active(g) # {}

\* ... and commits the binding, its agent and its activation intent together, or
\* nothing when the unique index of the active bindings objects.
Bound(r) ==
  LET g == req[r].group  b == req[r].id IN
  /\ binding' = [binding EXCEPT ![b] = [group |-> g, status |-> "active", agent |-> "healthy"]]
  /\ noticed' = noticed \cup {b}
  /\ UNCHANGED <<version, build>>

CommitBind(r) ==
  /\ req[r].pc = "bind"
  /\ IF Conflict(req[r].group) THEN UNCHANGED rowVars /\ Answered(r) ELSE Bound(r) /\ Goes(r, "notify")
  /\ UNCHANGED <<asked, jobs, images, workerVars, overlap, dropped>>

\* The job of the notice is enqueued (OutboundDispatch goes on from there), or a
\* failure to do so is logged.
Notify(r) ==
  /\ req[r].pc = "notify"
  /\ Answered(r)
  /\ UNCHANGED <<rowVars, asked, jobs, images, workerVars, overlap, dropped>>

\* unbind loads a binding and its agent, whatever their status ...
Unbind(r, b) ==
  /\ binding[b].status # "absent"
  /\ Open(r, "unbind", [Idle EXCEPT !.pc = "unbind", !.id = b, !.loaded = binding[b].status])
  /\ UNCHANGED <<rowVars, jobs, images, workerVars, overlap, dropped>>

UnboundAgentKept(r) == [binding EXCEPT ![req[r].id].status = "inactive"]

\* ... and stops both: for one loaded as inactive there is nothing to write.
Unbound(r) ==
  IF req[r].loaded = "inactive" THEN binding
  ELSE [binding EXCEPT ![req[r].id].status = "inactive", ![req[r].id].agent = "stopped"]

CommitUnbind(r) ==
  /\ req[r].pc = "unbind"
  /\ binding' = Unbound(r)
  /\ Answered(r)
  /\ UNCHANGED <<version, noticed, build, asked, jobs, images, workerVars, overlap, dropped>>

-----------------------------------------------------------------------------
(* Builds.                                                                 *)

\* queue_template_build checks that the version is published ...
AskBuild(r) ==
  /\ Published # {}
  /\ Open(r, "build", [Idle EXCEPT !.pc = "build", !.id = asked["build"] + 1])
  /\ UNCHANGED <<rowVars, jobs, images, workerVars, overlap, dropped>>

\* ... commits the QUEUED row with its audit event ...
CommitBuild(r) ==
  /\ req[r].pc = "build"
  /\ build' = [build EXCEPT ![req[r].id] = "queued"]
  /\ Goes(r, "enqueue")
  /\ UNCHANGED <<version, binding, noticed, asked, jobs, images, workerVars, overlap, dropped>>

EnqueueNothing(r) ==
  /\ req[r].pc = "enqueue"
  /\ Answered(r)
  /\ UNCHANGED <<rowVars, asked, jobs, images, workerVars, overlap, dropped>>

\* ... and enqueues the job, without Retry.
EnqueueBuild(r) ==
  /\ req[r].pc = "enqueue"
  /\ jobs' = jobs \cup {req[r].id}
  /\ Answered(r)
  /\ UNCHANGED <<rowVars, asked, images, workerVars, overlap, dropped>>

\* A request dies, or the database or Redis fails under it: a commit may have been
\* applied all the same.
RequestFails(r) ==
  /\ req[r].pc # "idle"
  /\ \/ UNCHANGED <<rowVars, jobs>>
     \/ /\ req[r].pc = "publish" /\ version' = Republished(r)
        /\ UNCHANGED <<binding, noticed, build, jobs>>
     \/ req[r].pc = "bind" /\ ~Conflict(req[r].group) /\ Bound(r) /\ UNCHANGED jobs
     \/ /\ req[r].pc = "build" /\ build' = [build EXCEPT ![req[r].id] = "queued"]
        /\ UNCHANGED <<version, binding, noticed, jobs>>
     \/ req[r].pc = "enqueue" /\ jobs' = jobs \cup {req[r].id} /\ UNCHANGED rowVars
  /\ dropped' = IF req[r].pc \in {"build", "enqueue"} THEN dropped \cup {req[r].id} ELSE dropped
  /\ Answered(r)
  /\ UNCHANGED <<asked, images, workerVars, overlap>>

-----------------------------------------------------------------------------
(* process_template_build_job.                                             *)

StepTo(w, pc) == wpc' = [wpc EXCEPT ![w] = pc]
JobDone(w) == StepTo(w, "idle") /\ doing' = [doing EXCEPT ![w] = 0]

Start(w, b) ==
  /\ wpc[w] = "idle" /\ b \in jobs
  /\ jobs' = jobs \ {b}
  /\ StepTo(w, "load")
  /\ doing' = [doing EXCEPT ![w] = b]
  /\ UNCHANGED <<rowVars, asked, req, images, overlap, dropped>>

\* The row is loaded, whatever its status, and RUNNING committed before docker runs.
MarkRunning(w) ==
  /\ wpc[w] = "load"
  /\ build' = [build EXCEPT ![doing[w]] = "running"]
  /\ StepTo(w, "docker")
  /\ UNCHANGED <<version, binding, noticed, asked, req, jobs, images, doing, overlap, dropped>>

\* docker build exits with 0, and there is an image, or with an error.
Docker(w) ==
  /\ wpc[w] = "docker"
  /\ \/ images' = images \cup {doing[w]} /\ StepTo(w, "built")
     \/ UNCHANGED images /\ StepTo(w, "broken")
  /\ UNCHANGED <<rowVars, asked, req, jobs, doing, overlap, dropped>>

OutcomeUnread(w) == "succeeded"
OutcomeDone(w) == "done"

\* The exit code decides.
Outcome(w) == IF wpc[w] = "built" THEN "succeeded" ELSE "failed"

\* The status, the logs and an audit event are committed.
CommitOutcome(w) ==
  /\ wpc[w] \in {"built", "broken"}
  /\ build' = [build EXCEPT ![doing[w]] = Outcome(w)]
  /\ JobDone(w)
  /\ UNCHANGED <<version, binding, noticed, asked, req, jobs, images, overlap, dropped>>

\* The JSON of the command and of up to 8000 characters of output is longer than the
\* column for it: PostgreSQL refuses the commit, of a build that succeeded as of one
\* that failed, and the row stays RUNNING.
LogTooLong(w) ==
  /\ wpc[w] \in {"built", "broken"}
  /\ dropped' = dropped \cup {doing[w]}
  /\ JobDone(w)
  /\ UNCHANGED <<rowVars, asked, req, jobs, images, overlap>>

\* The job raises or is killed: its worker dies, docker is missing, RQ stops it after
\* 180 s, or the database fails.  Nothing marks the row: it keeps the status committed
\* last.
JobFails(w) ==
  /\ wpc[w] # "idle"
  /\ \/ UNCHANGED build
     \/ wpc[w] = "load" /\ build' = [build EXCEPT ![doing[w]] = "running"]
     \/ wpc[w] \in {"built", "broken"} /\ build' = [build EXCEPT ![doing[w]] = Outcome(w)]
  /\ dropped' = dropped \cup {doing[w]}
  /\ JobDone(w)
  /\ UNCHANGED <<version, binding, noticed, asked, req, jobs, images, overlap>>

-----------------------------------------------------------------------------
RequestStep(r) ==
  \/ InsertDraft(r) \/ SelectPublished(r) \/ CommitPublish(r)
  \/ CheckFree(r) \/ CommitBind(r) \/ Notify(r) \/ CommitUnbind(r)
  \/ CommitBuild(r) \/ EnqueueBuild(r)

WorkerStep(w) == MarkRunning(w) \/ Docker(w) \/ CommitOutcome(w)

Next ==
  \/ \E r \in Requests : \/ Draft(r) \/ AskBuild(r) \/ RequestStep(r) \/ RequestFails(r)
                         \/ \E v \in Versions : Publish(r, v)
                         \/ \E g \in Groups : Bind(r, g)
                         \/ \E b \in Bindings : Unbind(r, b)
  \/ \E w \in Workers : \/ WorkerStep(w) \/ LogTooLong(w) \/ JobFails(w)
                        \/ \E b \in Builds : Start(w, b)

Spec == Init /\ [][Next]_vars

\* Requests in progress and running jobs go on, and workers take queued jobs.
Fairness ==
  /\ \A r \in Requests : WF_vars(RequestStep(r))
  /\ \A w \in Workers : WF_vars(WorkerStep(w))
  /\ WF_vars(\E w \in Workers, b \in Builds : Start(w, b))

FairSpec == Spec /\ Fairness
-----------------------------------------------------------------------------
\* Publishing keeps one version published, from the first publication on: publish and
\* rollback archive the others and publish the target in one commit.  Requests that
\* overlap can leave two published versions, or none.
OnePublished ==
  ~overlap => IF \A v \in Versions : version[v] \in {"absent", "draft"} THEN Published = {}
              ELSE Cardinality(Published) = 1

\* A binding and its agent change together, and its activation notice exists from the
\* moment it is active, whatever is bound and unbound concurrently.
BindingsAgree ==
  \A b \in Bindings :
    /\ binding[b].status = "active" <=> binding[b].agent = "healthy"
    /\ binding[b].status = "absent" <=> b \notin noticed

\* The bindings implement the register of groups: no two requests bind one group.
Holder(g) == IF Active(g) = {} THEN Nobody ELSE CHOOSE b \in Active(g) : TRUE
Reg == INSTANCE Register WITH holder <- [g \in Groups |-> Holder(g)]
ImplementsRegister == Reg!Spec

\* A build that says succeeded has its image, and one that says queued or running has
\* a request or a job that will settle it, unless that failed.
BuildsAccounted ==
  \A b \in Builds :
    /\ build[b] = "succeeded" => b \in images
    /\ build[b] = "queued" /\ b \notin dropped =>
         \/ b \in jobs
         \/ \E r \in Requests : req[r].pc = "enqueue" /\ req[r].id = b
         \/ \E w \in Workers : doing[w] = b /\ wpc[w] = "load"
    /\ build[b] = "running" /\ b \notin dropped => \E w \in Workers : doing[w] = b /\ wpc[w] # "load"

\* Every queued build ends, with the same exception.
BuildsEnd ==
  \A b \in Builds : build[b] = "queued" ~> build[b] \in {"succeeded", "failed"} \/ b \in dropped
=============================================================================
