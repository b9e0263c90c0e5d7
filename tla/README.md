# A verification project for kuuna-support-agents

kuuna-support-agents answers questions in WhatsApp support groups. A gateway
bridges WhatsApp and an HTTP backend; the backend stores every message event in
PostgreSQL, and RQ workers run the agent, index knowledge, build runtime images,
process media and dispatch replies. What can go wrong lives between these
processes: there is no row lock anywhere (`SELECT ... FOR UPDATE` does not occur
in the code), every handler commits in several steps, and most steps are followed
by a call to Redis or HTTP that can fail on its own.

Sources below are under `src/backend/src/kuuna_backend/` unless they start with
`services/`, `apps/` or `infra/`.

## 1. Inventory

| component | state it keeps | operations | hard behaviour | what makes it correct |
|---|---|---|---|---|
| outbound dispatch (`domain/outbound`, `jobs/outbound_dispatch.py`, `api/routers/gateway.py`) | `outbound_intents` rows (status, attempt_count), RQ jobs with retries | create, enqueue, dispatch job, status callback | worker crash between gateway call and commit, lost answers, retries, two writers of one row | bounded sends, `sent` is true and final, no job left open |
| gateway (`services/gateway`) | the WhatsApp session; nothing per message | map and forward events, `POST /gateway/outbound` | an event delivered again, an event lost, a call served after its caller gave up | (promises are the backend's) |
| inbound ingest (`domain/messages`) | `messages`, `message_versions`, `media_assets` | `persist_inbound_event` | concurrent deliveries, commit then enqueue | gapless versions, created events once, no trigger forgotten |
| inbound execution (`jobs/ingest.py`, `domain/runtime`) | `runtime_runs`, the reply intent | `process_inbound_message_job` | a minutes-long call between reading the binding and using it, same job id queued twice | one reply per trigger, none for an unbound group |
| knowledge (`domain/knowledge`, `jobs/indexing.py`) | `knowledge_versions`, `embeddings` | draft, publish, rollback, index | publishes that do not see each other, late jobs | a published version gets indexed, superseded ones stay archived |
| templates (`domain/templates`) | `template_versions` | draft, publish, rollback | as for knowledge | one published version |
| template builds (`domain/template_builds`, `jobs/template_build.py`) | `template_builds` | queue, build job | commit then enqueue, a job killed in `docker build`, a log longer than its column | every build ends succeeded or failed |
| bindings (`domain/bindings`) | `group_bindings`, `agent_instances`, the activation intent | bind, unbind | check then insert, partial unique index, activation in one transaction | one active binding per group, activation all or nothing |
| media (`jobs/media_processing.py`, `api/routers/internal.py`) | `media_assets`, `transcripts`, S3 objects | job, reconcile, retry of failed, cleanup, preview backfill | enqueue before commit, two jobs of one asset | every asset ends ready or failed, ready stays ready |
| authentication (`domain/auth`, `api/security.py`) | `users` counters, issued tokens, the limiter's deques | login, change password, rate limit | lost updates of the counter, tokens that outlive a change of role, a clock read before the lock | lockout after the threshold, window respected, authority bounded by a token's lifetime and the time a login takes to date it |
| users (`domain/users`) | `users`, `user_roles`, `audit_events` | set roles, activate, hard delete | two replacements of one user's roles, triggers under a foreign key | roles of one request, deletion works |
| tool catalog (`domain/tools`) | tools | CRUD | concurrent inserts | uniqueness |
| runtime agent (`services/runtime-agent`) | none across requests; a container while it runs | run, failover, tool rounds, container | nested timeouts, an answer nobody waits for | bounded hops and rounds, only allowed tools, containers stop |
| retrieval, audit, dashboard, compose stack | read-only or append-only; deployment | | the dashboard repeats a POST over its backend URLs | |

How they interact: the gateway calls the backend over HTTP (`/gateway/inbound`,
and in the contract `/gateway/outbound/status`), the backend's workers call the
gateway (`/gateway/outbound`) and the runtime agent; API and workers share
PostgreSQL and hand work over through one RQ queue (`jobs/queue.py`). Every
hand-over is commit first, enqueue second, except in the retry of failed media.

The hazards of this code, each at its line with the properties aimed at it, are
listed in `PROJECT.json`.

## 2. Modules

| module | what it is |
|---|---|
| `Outbox` | what outbound dispatch promises about an intent, with queue, workers, gateway and failures hidden |
| `OutboundDispatch` | the dispatch pipeline; contains the refinement mapping to `Outbox` |
| `OutboundDispatch_proofs` | its theorems |
| `InboundPipeline` | from a delivered event to the committed reply intent, with the group's binding |
| `InboundPipeline_proofs` | its theorems |
| `KnowledgeLifecycle` | versions of one knowledge document, API requests and the indexing job |
| `KnowledgeLifecycle_proofs` | its theorems |
| `Provisioning` | template versions, bindings and builds: API requests and the build job |
| `Register` | what the bindings promise about the groups, with requests and races hidden; `Provisioning` contains the refinement mapping |
| `Provisioning_proofs` | their theorems |
| `MediaProcessing`, `MediaProcessing_proofs` | media assets: the job and the operations of the reconcile endpoint; theorems |
| `AgentReply` | how the reply to one message comes about: the job, the fallback models, the runtime agent with its container or its chain of models |
| `Access`, `Access_proofs` | accounts: logins and lockout, tokens, roles, deletion; theorems |
| `RateLimiter` | the sliding window in front of the logins |
| `MC...` | the instances TLC checks: the sets behind the constants. `MCWorkerJobs` and `MCAdministration` compose modules |
| `MCWorkerJobs_proofs` | theorems about `AgentReply`, and about its run beside the media assets |
| `MCAdministration_proofs` | theorems about `RateLimiter`, and about its run beside provisioning and accounts |

### OutboundDispatch

State: `status` and `attempts` are the columns of `outbound_intents`; `job` and
`retries` are what RQ keeps of the job; `pc`, `cur`, `seen`, `resp` are a worker
inside `dispatch_outbound_intent_job` (`seen` is the status its SQLAlchemy session
holds: assigning an equal value writes nothing, see `Written`); `delivered`
counts what the chat received, `orphans` the calls whose caller is gone,
`reports` the callbacks the gateway may deliver in any order and any number of
times. `hit` is a history variable: the intents whose dispatch met a crash or a
database error, which `SettledUnlessHit` excuses.

A run of the job is cut at its commits, at the HTTP call and at RQ's bookkeeping:
`Load`, `MarkSending`, `Answer`/`Timeout`, `Settle`, `End`. `Crash` may strike in
each of these places and `DbError` at each database access, with the commit
applied or not and the compensating `except` clause successful or not.
The parts of RQ the code relies on (`Start`, `JobFailed`, `Promote`, `End`) are
external: modelled from the arguments `jobs/queue.py` passes. `WithScheduler`
says whether a worker runs RQ's scheduler and `Reporting` whether the gateway
calls back, which the code in `services/gateway/src/ops_api.py` does not do and
the contract of `api/routers/gateway.py` allows.

### InboundPipeline

A delivery is one callback of the gateway; several may carry the same event.
`Read` and `Commit`/`Reject` are the two halves of `persist_inbound_event` (what
it reads, and its only commit, where the unique constraints decide), `Enqueue`
the call to RQ after it. Workers run `Load`, `Resolve`, `Reply`; the agent's time
is the gap between `Resolve` and `Reply`. `Bind`, `Unbind` and `BuildSucceeds`
are the dashboard's doing. `MsgOf` is the mapping of provider message ids: the
backend's contract tests post an edit under the id of the edited message, the
gateway's mapping gives it the id of its own protocol event, so both are instances.
History: `covered` (the newest version a reply was made from) and `excused`
(messages whose execution was skipped or failed).

### KnowledgeLifecycle

`NewDraft`/`InsertDraft`, and `Open`, `SelectPublished`, `CommitPublish`,
`EnqueueIndexing` are the steps of an API request between which others run;
publish and rollback differ in `Allowed` only. `Start`, `Load`, `CommitIndex` are
the job. Statuses carry the session rule above: a target loaded as published, or
a version loaded as ready, is not part of the UPDATE. `hit` holds the versions
whose commit, enqueue or indexing failed.

### Provisioning

`req[r]` is an API request with what it has read: `id` is a version number, a
binding or a build, `loaded` and `others` what the session holds. The dots in the
comments show where one handler is cut: between a read, the check that depends on
it, the commit and the call to RQ. The partial unique index is `Conflict`, the only
guard against two bindings of one group; the binding, its agent instance and its
activation intent are one commit (`Bound`). The build job is cut at its commits and
at `docker build`. RQ is given no retry for it, so whatever kills it (`JobFails`, and
`LogTooLong`: up to 8000 characters of output are put into a column of 1024)
leaves the row as it was; `dropped` is the history variable for these builds, and
`overlap` the one for publications in progress at once.

### MediaProcessing

`item` says of an upload only what the code branches on: its kind, the kind its
transcript is extracted by, whether inline bytes came with it and decode, and
whether there is a URL, a thumbnail, a caption. `seen[w]` is the job's session:
the status and the metadata as loaded, which it writes back whole, and the
transcript it selected. `Raise` may strike at every step of the job, with a
commit applied or not; `Recover`, `Blame`, `Mark` are its `except` clause. The
operations select rows and commit whatever these have become; the retry enqueues
before it commits. `contested` and `overtaken` excuse what collisions of sessions
do, `hit` what died.

### AgentReply

Each behaviour is about one message, as neither side keeps state between
requests. `pc` is the job, `apc` the runtime agent that goes on when the job has
ceased to wait. Timeouts may fire at any moment: the job's 12 s are over long
before the container's 120 s. `broken` is the transaction after a database error
that `retrieve_context` swallows; `run.long` an error text too long for its
column. Chains of models are sequences, folded into plans by `FailoverPlan` and
`Candidates` as the code does.

### Access and RateLimiter

A login is cut where its session reads, where it reads the clock and where it
commits: `Load`, then `FailLogin` or `Resolve` (the query for the roles), `Issue`
(the clock that dates the token, after one more query) and `Succeed`. Tokens are
records of user, role and expiry, as they are never looked up again. The history
variable `held` is the last moment at which each user held an administrator's role,
and `lag` the longest time from `Resolve` to `Issue` in a login of the user: a role
replaced in between is issued with a full lifetime, so that `AuthorityBounded` is
later by `lag`; without it the run refutes the bound. Role rows carry the number of
the request that inserted them, so that a mixture shows. Deletion meets the foreign
key of the audit events and the trigger that keeps them append-only. The limiter is a
module of its own: each thread reads the clock first and takes the limiter's lock
afterwards, so stamps may arrive out of order (`late`).

## 3. Runs

Every run finishes within two minutes on two cores. Deadlock is not checked: each
system may stop when producers, gateway and dashboard do nothing more.

| run | bounds | checks |
|---|---|---|
| `outbound_dispatch` | 1 reply, 1 activation, 2 workers, 2 retries, scheduler | `TypeOK`, `BoundedSends`, `AttemptsCoverSends`, `SentMeansDelivered`, `SettledUnlessHit`, `NoAttemptOnceSent`, `JobsEnd`, `ImplementsOutbox` |
| `outbound_reports` | the same with 1 retry and status reports | `BoundedSends`, `SentMeansDelivered`, `SettledUnlessHit` |
| `outbound_duplicates` | 1 retry | violates `NoDuplicateSend` |
| `outbound_no_scheduler` | 1 retry, no scheduler | violates `RetriesRun` |
| `inbound` | 4 deliveries (created twice, edit, delete of one message), 2 requests, 2 workers, 1 binding | `TypeOK`, `VersionHistory`, `CreatedOnce`, `RepliesBacked`, `TriggersAccountedFor`, `TriggersAnswered` |
| `inbound_unbind` | 3 deliveries | violates `NoReplyUnbound` |
| `inbound_edits` | an edit delivered twice, mapped as the gateway does | violates `EventAnsweredOnce` |
| `knowledge` | 3 versions, 2 editors, 3 publish or rollback requests, 1 worker | `TypeOK`, `PublishedBounded`, `PublishedHasJob`, `PublishedIsIndexed` |
| `knowledge_archived` | 2 versions, 1 editor, 1 worker | violates `ArchivedNeedsRollback` |
| `worker_jobs` | an asset of six makes, 2 workers, 2 operations (2 for voice messages, else 1); a message under every configuration | `TypesOK`, `BytesKept`, `SettledIsBacked`, `PendingAccounted`, `ReadyIsFinal`, `AssetsSettle`, `RunMatchesReply`, `AgentWithinBounds`, `AnsweredDespiteAgent`, `ContainersStop` |
| `administration` | 2 versions, 2 bindings of 1 group, 1 build, 2 requests, 1 worker; 2 users, 2 logins and 2 requests of administrators, of three at a time or of four in turns; 3 threads at the limiter | `TypesOK`, `OnePublished`, `BindingsAgree`, `BuildsAccounted`, `ImplementsRegister`, `BuildsEnd`, `AttemptsBounded`, `LockInTime`, `AuthorityBounded`, `RolesOfOneRequest` |
| `hard_delete` | the accounts of `administration` | violates `HardDeleteWorks` |

Why the bounds are enough. In `OutboundDispatch` intents do not share state but
the workers, so one of each kind shows every interaction; two workers make a
stale run and its rerun overlap; two retries separate "a retry", "another one"
and "none left". In `InboundPipeline` conflicts need two requests, and replies
that overtake each other two workers; the four deliveries of one message hold a
redelivery, an edit that may overtake the created event and a delete. In
`KnowledgeLifecycle` two requests that miss each other need two editors, and a
third version separates what each of them archives; the compose file runs one
worker. `MaxVersions` and `MaxRequests` cap what users do, the guards of
`NewDraft` and `Open` apply them.

`MCWorkerJobs` and `MCAdministration` are sums: their parts share no state in the
code (media jobs and replies meet in the queue only; templates, accounts and the
limiter not at all), so a behaviour of the composition is one of one part while the
others stay where they began, and the state space is the sum of theirs, not the
product. A property of a part is thus checked on all of its behaviours.
`ProcessMedia` and `Provision` bound the parts: two operations beside the jobs for
one make of upload (a voice message, which can fail, be retried and be cleaned up),
one for the others; publications or bindings at their quota, not both. Two
jobs and an operation make every pair of sessions meet on the row; two uploads
would only repeat it, since no step reads another asset. `Quota`, `Budgets`,
`MaxTime`, `MaxCalls` and `MaxOps` cap what users and clock do: a threshold and
a budget of attempts of 2, a window of 1 and a token lifetime of 2 are the
smallest values at which a counter is neither the first nor the last, and a
token can be younger and older than a change of role. `Budgets` trades
logins against other requests, so that both three logins and a login with two
administrators' requests occur. An administrator's request with a role lost during
the login takes four (two logins, the replacement and the request); those behaviours
have one login and one administrator under way at a time (`part = "turns"`).

Symmetry (of the workers) is used in `outbound_reports` only, which checks no
liveness.

What the passing runs show. Sends are bounded by the attempts and `sent` is never
a lie, whatever crashes and late calls do. The status of an intent that met no
failure is settled when its job ends. The inbound pipeline loses and invents no
trigger: each is answered or excused by a failure it met, and answers are made
from the version that triggered or a later one. Knowledge publishes may miss each
other but leave at most as many published versions as requests overlap, each with
a job on its way.

The bytes of an upload are kept as long as the asset has its row, although three kinds
of session write the metadata whole (the cleanup deletes a failed asset with them); what is pending has a job ahead and what is settled is backed,
unless sessions collide. A message is answered whatever agent, container and
models do, and the run says how; what can leave it without an answer is the
database, the process, a transport error to OpenAI and an error text longer than
its column. The bindings are a register, builds that nothing killed end, and
lockout, limiter and roles hold their promise where requests do not overlap, and
tokens whatever overlaps, up to the time a login takes to date one. That they may fail where requests do (`crossed`, `mixed`, `late`,
`overlap`) is how the code is written: nothing is locked between read and commit.

What the violated runs show: where the code and the repository's own documents
disagree (`findings` in `PROJECT.json`). The retry of a posted message posts it
again, since the gateway keeps no record of the intents it served; the compose
file's worker runs no scheduler, so retries with an interval never run; an
execution already past its binding check replies after an unbind; a redelivered
edit is executed again; a late indexing job revives an archived version; a user
who has logged in once cannot be deleted.

### Fairness

Weak fairness of steps the runtime takes by itself: a worker inside a job goes on
(`httpx` timeouts bound the wait for the gateway), an idle worker takes a queued
job, a request thread finishes its handler, RQ's scheduler promotes due retries
where one runs. Fairness is per worker or intent in `OutboundDispatch` and of the
pool elsewhere; in `AgentReply` of the job and of the agent, whose waits all have
timeouts. So `JobsEnd`, `TriggersAnswered`, `PublishedIsIndexed`, `BuildsEnd`,
`AssetsSettle` and `ContainersStop` rest on running processes only. Nothing is
assumed of the callers of the reconcile endpoint, of producers, gateway, dashboard, or of
failures: they may happen always or never.

## 4. Proofs

`tlapm` checks every step. Every invariant, action property and refinement the
passing runs check is a theorem; only liveness is not. Assumed are each module's
named assumptions on its constants, which TLC evaluates on every run:

* disjoint intent kinds, natural-number bounds, a group to bind;
* `IsFiniteSet(Editors)` in `KnowledgeLifecycle`: `PublishedBounded` compares
  cardinalities, and only finitely many requests are ever in progress at once;
* `AgentAssumption` in `MCWorkerJobs`: the default model and the agent's placeholder
  are models, an input asks for known tools, and its chain is a sequence of models
  and blank names.

`Access` and `RateLimiter` are instantiated rather than extended by their MC module,
so their settings are hypotheses of the theorems (`AccountSettings`,
`LimiterSettings`) instead.

`OutboundDispatch_proofs`. The inductive invariant `IInv` has five parts beside
`TypeOK`. `Owned`: a busy worker's job is started, and no two workers hold one.
`Budget`: attempts, retries left and the run to come stay within what the enqueue
allowed; without it the bound on sends is not inductive, as nothing relates a
waiting retry to attempts made. `Covered`: a call awaiting its answer is an attempt
no delivery accounts for. `Truthful`: whatever says "sent" (row, answer, report)
says so of a posted intent. `Undisturbed` (without reports): the session is up to
date, for only the worker changes the row. From these:

* `TypeCorrect`, `SendsAreBounded`, `AttemptsAccount`, `SentIsTrue`: for every
  set of intents and workers, any number of retries, with or without scheduler
  and reports;
* `SentIsNotRetried`, `PipelineImplementsOutbox`: when the gateway sends no
  reports. The refinement maps statuses to `Outbox` entries and shows each action
  to be one of its actions or a stutter. With reports it fails, since a report may
  reopen a confirmed intent.
* `JobsSettle`, with and without reports. `SettledUnlessHit` speaks of jobs RQ is
  done with and so is not inductive; `Settling` adds what their last step relies on:
  a worker about to return, or to raise with no retry left, has written how the
  intent ended, and one whose session found "sent" or "failed" in the row may leave
  it unwritten because a report only exchanges one of these for the other.

`InboundPipeline_proofs`. `VersionHistory` is not inductive: a request that is
about to write could hold any number. `Carrying` says that it is at most one above
the latest, which only grows, so a number no version has must be the next one
(`NewNumber`). `CreatedFirst` (a created event is only ever version 1) turns
`CreatedOnce` into a consequence of the numbering. `TriggersAccountedFor` needs
the numbering too, since a worker that loads the message must see the version that
triggered, and `Holding` (idle workers hold no message). `HistoryHasNoGaps`,
`CreatedStoredOnce` and `TriggersAreNotForgotten` hold for every set of
deliveries, events, messages, requests and workers. `RepliesAreBacked` counts:
replies, workers holding the message, queue entries and requests about to enqueue
against stored triggers. Each step moves one unit from one count to the next, and
only storing a trigger adds one on both sides. The sets of workers and requests may
be infinite, so `Backed` carries along that the busy ones are finite.

`KnowledgeLifecycle_proofs`. `PublishedHasJob` is nearly inductive: it needs that
a request past its first read has a version (`Targeted`) and that idle workers hold
none (`Held`). `TypeCorrect` and `PublishedVersionsHaveJobs` hold for every number
of editors, workers, versions and requests. `PublishedVersionsBounded` needs more
than a count: `OwnInv` says that there is an injection from published versions to
requests, the last writer of each, such that a request about to commit archives what
it owns apart from its target. A commit then hands over what it leaves published.

`Provisioning_proofs`. `BindInv` has three parts beside `BindingsAgree`: `Fresh` (a
request about to bind has a number of its own and no row yet), `Leaving` (what an
unbind request has loaded can only have become inactive meanwhile) and `OneActive`,
which is the index. Without `Leaving` an unbind could stop the agent of a binding
and not the binding, as the session leaves out what it finds unchanged. From it
`BindingsAndAgentsAgree`, and `BindingsImplementRegister`: every step maps to a
`Take`, a `Leave` or a stutter, for any number of groups and requests. `BuildInv`
adds to `BuildsAccounted` that requests and jobs for builds have numbers of their
own, whence `BuildsAreAccounted`. `PubInv`: while publications do not overlap, the one
in progress is alone, what it read is still true, and it has selected exactly the
other published versions; nothing is archived without a version published in its
place. That last part (`Superseded`) rules out that nothing is published after the
first publication. `OneVersionPublished` follows.

`MediaProcessing_proofs`. `BytesKept` is not inductive, since rows are written from
copies: `BytesInv` says of every copy that will be written back (a job's metadata, a
retry's) what `BytesKept` says of the row, and that a job which drops the inline
bytes has stored them. `PendInv` adds to `PendingAccounted` that an asset whose
retry is enqueued and uncommitted has a job that has not looked at the row yet:
that is what accounts for the row when the retry commits. `BytesAreKept` and
`PendingHasAJob` hold for every set of assets, uploads, workers and operations.
`SettledInv` is about the sessions of an uncontested asset: there is at most one,
a job's finds the row PENDING and its transcript as selected, an operation's finds it
FAILED (`Undisputed`), and a session has what its outcome will claim: the object,
the preview or the error (`Prepared`). `SettledAssetsAreBacked` follows, and so
does the action property `ReadyAssetsAreFinal`: whoever could undo READY would hold
an asset that is not READY.

`Access_proofs`. `AuthorityInv` follows the role of a login: when it was read its user
had it (`HeldSince`), the token is dated no more than `lag` later and expires a
lifetime after that (`HeldWithin`), and an accepted request lies before the expiry of
its token. `LagStep` shows that the date of a token is within `lag` of the query, and
both `held` and `lag` only grow, so no later step withdraws a bound;
`AuthorityIsBounded` follows. `RolesInv` says of two
replacements of one user's roles that the user is `mixed`, and of a single one
that the rows it will delete are all there are; `RolesAreOfOneRequest` follows.
`LockInv`: for a user outside `crossed` one session at most will write the account,
with a counter equal to the row's, and the failures in a row are at most that
counter, which stays below the threshold (`LocksComeInTime`, for thresholds above
0).

`MCAdministration_proofs`. The limiter's deque is a suffix of what was granted
(`Suffix`), whatever left it is older than the window of the latest stamp
(`Forgotten`), and stamps are sorted until a thread is `late` (`Sorted`). So a stamp
`MaxAttempts` before the newest was pruned, and `AttemptsAreBounded` for every budget,
window and number of threads. `BehavesAsProvisioning`, `BehavesAsLimiter` and
`BehavesAsAccounts` show that a behaviour of the run is one of each component, and
carry the components' theorems over to it (`TypesCorrect`, `LocksComeInTime`,
`AuthorityIsBounded`, `RolesAreOfOneRequest`, `ProvisioningInTheRun`). The accounts'
theorems are those of an instance of `Access_proofs`; `SameNext` shows its actions to
be the run's.

`MCWorkerJobs_proofs`. `AgentInv` joins `RunInv` (for each place in the job, which
statuses its run can have and which replies agree with it; a TIMEOUT anywhere means
that the container did time out), `ChainInv` (what was tried and what is still planned
are the failover plan, which is cut at the bound and starts with the chain) and
`FaultInv` (a job that raised or died has met a failure the agent cannot cause). Hence
`RunsMatchReplies`, `AgentStaysWithinBounds`, `EachModelTriedOnce` and
`AnsweredWhateverTheAgentDoes`, for every set of inputs, models and tools. The chain
without blank and repeated names is a fold, a recursive function on sets of positions.
Induction over it is not at hand, as the library's theorems take operators as
parameters; `FoldExists` and `DistinctPath` instead assume a least length at which the
function does not exist, or its value is no path of distinct models, and refute it
with the step below it. `BehavesAsMedia` and `BehavesAsAgent` carry them
and the media theorems over to the run.

Model-checked only: liveness (`JobsEnd`, `TriggersAnswered`, `PublishedIsIndexed`,
`BuildsEnd`, `AssetsSettle`, `ContainersStop`), which rests on fairness and ENABLED
and is out of the prover's reach. The runs that expect a violation show
counterexamples, which a proof has no part in.

## 5. Plan

Done, in order of weight: `OutboundDispatch` with `Outbox`, `InboundPipeline`,
`KnowledgeLifecycle`, `Provisioning` with `Register`, `MediaProcessing`, `Access`,
`RateLimiter` and `AgentReply`, all with proofs of every safety property. Left:

1. An abstract specification of a knowledge document (which versions are published,
   which of them ready) and the refinement from `KnowledgeLifecycle`.
2. The steps below the liveness properties that are safety: that no worker's progress
   is undone, as action properties with proofs.
3. A composition of execution and dispatch for the order of replies in a group.

## 6. Not modelled

Data that no property tells apart: retrieval's SQL and ranking, prompt and reply
texts, WhatsApp's protocol, media bytes, hashes and encodings. What retrieval's
failures do to the job is in `AgentReply`.

State that one insert under a unique key creates and nothing else competes for:
the creation of templates, of knowledge documents and of users. The tool catalog:
its default entries are inserted by concurrent requests under a unique key, and no
other part reads them while they change. The group scope of operators: it is
computed at login and read by listings only. Audit and run history: rows appended
in the transaction of what they record, and read-only listings.

Code nothing calls: `backfill_image_previews_from_raw` rewrites the metadata of
READY images. Configurations away from the default or out of its reach:
`media_processing_enabled=False`, which ends every job at once; with the default timeouts the TIMEOUT status of
a run is never saved, as the job's 12 s are over before the container's 120 s
(`AgentReply` lets any timeout be the first, since both are settings).

The dashboard's pages hold no state of their own; a server action repeats a failed
POST on the next backend URL, so a request may be made twice, which the
modules' repeated requests cover. In the gateway an event whose forwarding fails is
dropped; `InboundPipeline` has it as a delivery that never happens. Migrations,
scripts and the compose stack run outside the system, except for the worker
command and the constraints and triggers the modules cite.

Requirements the code does not attempt, met while modelling and checked by no run:
`src/plan/mvp/PRD.md:157` asks for one message at a time per group, while
`jobs/ingest.py:227` calls the agent without a lock on the group and one queue
serves all; `src/plan/mvp/PRD.md:155` caps the failover at two hops, which
`failover.py` does for the agent's chain (`AgentWithinBounds`) and the backend's own
fallback loop does not; and the exact lockout of
`src/tasks/_subagent_reports/taskA.md:19` ("after exactly
`auth_lockout_threshold` (default 5) consecutive failures") comes late where
concurrent logins write over each other's count (`crossed` in `Access`). These are the reason for the exceptions
in the properties, not properties of their own.
