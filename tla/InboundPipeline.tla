--------------------------- MODULE InboundPipeline ---------------------------
(***************************************************************************)
(* From a WhatsApp event to the reply intent, for one group: the API       *)
(* request that stores the event and enqueues an execution, and the RQ job *)
(* that resolves the group's binding, runs the agent and commits the reply *)
(* intent (which OutboundDispatch takes from there).                       *)
(*                                                                         *)
(* A delivery is one callback of the gateway. WhatsApp may deliver an event*)
(* again, and the requests of several deliveries run concurrently.         *)
(***************************************************************************)
EXTENDS Naturals, FiniteSets

CONSTANTS
  Deliveries,   \* callbacks of the gateway, each posted once to the backend
  Events,       \* the WhatsApp events
  EventOf,      \* EventOf[d]: the event a delivery carries
  Msgs,         \* provider message ids
  MsgOf,        \* MsgOf[e]: the id the gateway maps the event to
  Kind,         \* Kind[e]: "created", "edited" or "deleted"
  Triggering,   \* the events evaluate_trigger accepts (mention, reply, prefix)
  Requests,     \* threads serving POST /gateway/inbound
  Workers,      \* RQ worker processes
  Bindings,     \* group_bindings rows of the group
  NoDelivery, NoMsg, NoBinding

Kinds == {"created", "edited", "deleted"}

ASSUME ConstantAssumption ==
  /\ EventOf \in [Deliveries -> Events]
  /\ MsgOf \in [Events -> Msgs]
  /\ Kind \in [Events -> Kinds]
  /\ Triggering \subseteq Events
  /\ NoDelivery \notin Deliveries /\ NoMsg \notin Msgs /\ NoBinding \notin Bindings
  /\ IsFiniteSet(Deliveries)

VARIABLES
  posted,      \* deliveries the gateway has posted
  latest,      \* messages.latest_version_no; 0 while there is no row
  versions,    \* message_versions: the message, its number, the delivery stored
  rpc,         \* where each request is in persist_inbound_event
  delivery,    \* the delivery it carries
  number,      \* the version number it computed
  pending,     \* entries of the RQ queue for the execution job of each message
  wpc,         \* where each worker is in process_inbound_message_job
  msg,         \* the message it answers
  read,        \* the version number it loaded with the message
  active,      \* the group's active binding
  unused,      \* bindings not created yet
  built,       \* bindings whose template version has a succeeded build
  replies,     \* committed outbound intents that answer the message
  covered,     \* history: the highest version a committed reply was made from
  excused      \* history: messages whose execution was skipped or failed

ingestVars  == <<posted, latest, versions, rpc, delivery, number>>
workerVars  == <<wpc, msg, read>>
bindingVars == <<active, unused, built>>
replyVars   == <<replies, covered>>
vars == <<ingestVars, pending, workerVars, bindingVars, replyVars, excused>>

MsgFor(d) == MsgOf[EventOf[d]]

\* persist_inbound_event enqueues an execution for these.
Executes(d) == EventOf[d] \in Triggering /\ Kind[EventOf[d]] # "deleted"

VersionsOf(m) == {v \in versions : v.msg = m}
TriggersOf(m) == {v \in VersionsOf(m) : Executes(v.by)}

TypeOK ==
  /\ posted \subseteq Deliveries
  /\ latest \in [Msgs -> Nat]
  /\ versions \subseteq [msg : Msgs, no : Nat \ {0}, by : Deliveries]
  /\ rpc \in [Requests -> {"idle", "write", "enqueue"}]
  /\ delivery \in [Requests -> Deliveries \cup {NoDelivery}]
  /\ number \in [Requests -> Nat]
  /\ pending \in [Msgs -> Nat]
  /\ wpc \in [Workers -> {"idle", "load", "resolve", "agent"}]
  /\ msg \in [Workers -> Msgs \cup {NoMsg}]
  /\ read \in [Workers -> Nat]
  /\ active \in Bindings \cup {NoBinding}
  /\ unused \subseteq Bindings /\ built \subseteq Bindings
  /\ replies \in [Msgs -> Nat]
  /\ covered \in [Msgs -> Nat]
  /\ excused \subseteq Msgs

Init ==
  /\ posted = {}
  /\ latest = [m \in Msgs |-> 0]
  /\ versions = {}
  /\ rpc = [r \in Requests |-> "idle"]
  /\ delivery = [r \in Requests |-> NoDelivery]
  /\ number = [r \in Requests |-> 0]
  /\ pending = [m \in Msgs |-> 0]
  /\ wpc = [w \in Workers |-> "idle"]
  /\ msg = [w \in Workers |-> NoMsg]
  /\ read = [w \in Workers |-> 0]
  /\ active = NoBinding /\ unused = Bindings /\ built = {}
  /\ replies = [m \in Msgs |-> 0]
  /\ covered = [m \in Msgs |-> 0]
  /\ excused = {}

-----------------------------------------------------------------------------
(* persist_inbound_event.                                                  *)

Free(r) == /\ rpc' = [rpc EXCEPT ![r] = "idle"]
           /\ delivery' = [delivery EXCEPT ![r] = NoDelivery]
           /\ number' = [number EXCEPT ![r] = 0]

NeverDeduped(d) == FALSE

\* The request is answered at once: a message_created event of a stored message.
Deduped(d) == latest[MsgFor(d)] > 0 /\ Kind[EventOf[d]] = "created"

NotIncremented(d) == latest[MsgFor(d)]

NextNumber(d) == latest[MsgFor(d)] + 1

\* The request reads the message row and computes the number of the new version.
Read(r, d) ==
  /\ rpc[r] = "idle" /\ d \notin posted
  /\ posted' = posted \cup {d}
  /\ IF Deduped(d)
     THEN UNCHANGED <<rpc, delivery, number>>
     ELSE /\ rpc' = [rpc EXCEPT ![r] = "write"]
          /\ delivery' = [delivery EXCEPT ![r] = d]
          /\ number' = [number EXCEPT ![r] = NextNumber(d)]
  /\ UNCHANGED <<latest, versions, pending, workerVars, bindingVars, replyVars, excused>>

NeverConflict(r) == FALSE

\* uq_messages and uq_message_versions: the number computed from an older read
\* is taken, or another request has inserted the message row.
Conflict(r) == \E v \in VersionsOf(MsgFor(delivery[r])) : v.no = number[r]

Stored(r) ==
  LET m == MsgFor(delivery[r]) IN
  /\ versions' = versions \cup {[msg |-> m, no |-> number[r], by |-> delivery[r]]}
  /\ latest' = [latest EXCEPT ![m] = number[r]]

\* The single commit of the message, its version and its media rows.
Commit(r) ==
  /\ rpc[r] = "write" /\ ~Conflict(r)
  /\ Stored(r)
  /\ IF Executes(delivery[r])
     THEN rpc' = [rpc EXCEPT ![r] = "enqueue"] /\ UNCHANGED <<delivery, number>>
     ELSE Free(r)
  /\ UNCHANGED <<posted, pending, workerVars, bindingVars, replyVars, excused>>

\* IntegrityError: rollback and 500. The gateway logs the answer and goes on.
Reject(r) ==
  /\ rpc[r] = "write" /\ Conflict(r)
  /\ Free(r)
  /\ UNCHANGED <<posted, latest, versions, pending, workerVars, bindingVars,
                 replyVars, excused>>

EnqueueUnlessRunning(r) ==
  LET m == MsgFor(delivery[r]) IN
  /\ rpc[r] = "enqueue"
  /\ pending' = IF \E w \in Workers : msg[w] = m THEN pending
                ELSE [pending EXCEPT ![m] = @ + 1]
  /\ Free(r)
  /\ UNCHANGED <<posted, latest, versions, workerVars, bindingVars, replyVars, excused>>

\* enqueue_inbound_execution. The job id is made of the message id, and RQ takes
\* it again whatever the job of that id is doing.
Enqueue(r) ==
  /\ rpc[r] = "enqueue"
  /\ pending' = [pending EXCEPT ![MsgFor(delivery[r])] = @ + 1]
  /\ Free(r)
  /\ UNCHANGED <<posted, latest, versions, workerVars, bindingVars, replyVars, excused>>

\* A database error or a crash before, after or during the commit, or Redis fails
\* (swallowed), with or without having queued the job: the event may be stored
\* and never executed.
RequestFails(r) ==
  /\ rpc[r] # "idle"
  /\ \/ UNCHANGED <<latest, versions, pending>>
     \/ rpc[r] = "write" /\ ~Conflict(r) /\ Stored(r) /\ UNCHANGED pending
     \/ /\ rpc[r] = "enqueue" /\ UNCHANGED <<latest, versions>>
        /\ pending' = [pending EXCEPT ![MsgFor(delivery[r])] = @ + 1]
  /\ Free(r)
  /\ excused' = excused \cup {MsgFor(delivery[r])}
  /\ UNCHANGED <<posted, workerVars, bindingVars, replyVars>>

-----------------------------------------------------------------------------
(* process_inbound_message_job. RQ runs the job once for each queue entry; *)
(* it is enqueued without Retry.                                           *)

Start(w, m) ==
  /\ wpc[w] = "idle" /\ pending[m] > 0
  /\ pending' = [pending EXCEPT ![m] = @ - 1]
  /\ wpc' = [wpc EXCEPT ![w] = "load"]
  /\ msg' = [msg EXCEPT ![w] = m]
  /\ UNCHANGED <<ingestVars, read, bindingVars, replyVars, excused>>

Done(w) == /\ wpc' = [wpc EXCEPT ![w] = "idle"]
           /\ msg' = [msg EXCEPT ![w] = NoMsg]
           /\ read' = [read EXCEPT ![w] = 0]

\* The message row, with the number of the version the reply is made from.
Load(w) ==
  /\ wpc[w] = "load"
  /\ read' = [read EXCEPT ![w] = latest[msg[w]]]
  /\ wpc' = [wpc EXCEPT ![w] = "resolve"]
  /\ UNCHANGED <<ingestVars, pending, msg, bindingVars, replyVars, excused>>

Resolvable == active # NoBinding /\ active \in built

ResolveWaits(w) ==
  /\ wpc[w] = "resolve" /\ Resolvable
  /\ wpc' = [wpc EXCEPT ![w] = "agent"]
  /\ UNCHANGED <<ingestVars, pending, msg, read, bindingVars, replyVars, excused>>

\* resolve_runtime_target: no active binding or no succeeded build, no reply.
Resolve(w) ==
  /\ wpc[w] = "resolve"
  /\ IF Resolvable
     THEN wpc' = [wpc EXCEPT ![w] = "agent"] /\ UNCHANGED <<msg, read, excused>>
     ELSE Done(w) /\ excused' = excused \cup {msg[w]}
  /\ UNCHANGED <<ingestVars, pending, bindingVars, replyVars>>

\* _generate_agent_reply, up to minutes later, always comes up with a text (the
\* agent's, a model's, the confirmation or the fallback); then the run, its
\* audit event and the intent are committed at once.
Reply(w) ==
  /\ wpc[w] = "agent"
  /\ replies' = [replies EXCEPT ![msg[w]] = @ + 1]
  /\ covered' = [covered EXCEPT ![msg[w]] = IF @ < read[w] THEN read[w] ELSE @]
  /\ Done(w)
  /\ UNCHANGED <<ingestVars, pending, bindingVars, excused>>

RetriedFailure(w) ==
  /\ wpc[w] # "idle"
  /\ \/ UNCHANGED <<pending, replyVars>>
     \/ /\ wpc[w] = "agent"
        /\ replies' = [replies EXCEPT ![msg[w]] = @ + 1]
        /\ pending' = [pending EXCEPT ![msg[w]] = @ + 1]
        /\ UNCHANGED covered
  /\ Done(w)
  /\ excused' = excused \cup {msg[w]}
  /\ UNCHANGED <<ingestVars, bindingVars>>

\* The job raises or the worker dies; the reply's commit may have been applied.
ExecutionFails(w) ==
  /\ wpc[w] # "idle"
  /\ \/ UNCHANGED replyVars
     \/ /\ wpc[w] = "agent"
        /\ replies' = [replies EXCEPT ![msg[w]] = @ + 1]
        /\ UNCHANGED covered
  /\ Done(w)
  /\ excused' = excused \cup {msg[w]}
  /\ UNCHANGED <<ingestVars, pending, bindingVars>>

-----------------------------------------------------------------------------
(* The dashboard binds and unbinds the group; template builds succeed.     *)

Bind(b) ==
  /\ active = NoBinding /\ b \in unused
  /\ active' = b
  /\ unused' = unused \ {b}
  /\ UNCHANGED <<ingestVars, pending, workerVars, built, replyVars, excused>>

\* The binding becomes inactive and its agent instance stopped in one commit.
Unbind ==
  /\ active # NoBinding
  /\ active' = NoBinding
  /\ UNCHANGED <<ingestVars, pending, workerVars, unused, built, replyVars, excused>>

BuildSucceeds(b) ==
  /\ b \notin built
  /\ built' = built \cup {b}
  /\ UNCHANGED <<ingestVars, pending, workerVars, active, unused, replyVars, excused>>

-----------------------------------------------------------------------------
RequestStep(r) == Commit(r) \/ Reject(r) \/ Enqueue(r)
WorkerStep(w)  == Load(w) \/ Resolve(w) \/ Reply(w)

Next ==
  \/ \E r \in Requests : \/ RequestStep(r) \/ RequestFails(r)
                         \/ \E d \in Deliveries : Read(r, d)
  \/ \E w \in Workers : \/ WorkerStep(w) \/ ExecutionFails(w)
                        \/ \E m \in Msgs : Start(w, m)
  \/ \E b \in Bindings : Bind(b) \/ BuildSucceeds(b)
  \/ Unbind

Spec == Init /\ [][Next]_vars

\* Requests in progress and running jobs go on, and workers take queued jobs.
\* Nothing is assumed of the gateway or the dashboard.
Fairness ==
  /\ WF_vars(\E r \in Requests : RequestStep(r))
  /\ WF_vars(\E w \in Workers : WorkerStep(w))
  /\ WF_vars(\E w \in Workers, m \in Msgs : Start(w, m))

FairSpec == Spec /\ Fairness
-----------------------------------------------------------------------------
Executing(m)  == Cardinality({w \in Workers : msg[w] = m})
Enqueueing(m) == Cardinality({r \in Requests :
                                rpc[r] = "enqueue" /\ MsgFor(delivery[r]) = m})

\* The versions of a message are numbered 1, 2, ... with no gap and no number
\* twice, although each request computes the number from a row it read without
\* a lock (DATABASE_PLAN.md: versions are monotonic).
VersionHistory ==
  \A m \in Msgs :
    /\ {v.no : v \in VersionsOf(m)} = 1..latest[m]
    /\ \A u, v \in VersionsOf(m) : u.no = v.no => u = v

\* However often and however concurrently a created event is delivered, at most
\* one of its deliveries is stored.
CreatedOnce ==
  \A u, v \in versions :
    /\ EventOf[u.by] = EventOf[v.by]
    /\ Kind[EventOf[u.by]] = "created"
    => u = v

\* Replies made, being made, queued and about to be queued are never more than
\* the stored versions that triggered: a job is enqueued only after its version
\* is committed, and a job that fails is not run again.
RepliesBacked ==
  \A m \in Msgs :
    replies[m] + Executing(m) + pending[m] + Enqueueing(m)
      <= Cardinality(TriggersOf(m))

\* A stored trigger is not forgotten, nor answered from an older text: until a
\* reply is made from it or a later version, a request is about to enqueue it, a
\* job is queued, or a worker holds it or has not loaded the message yet.
TriggersAccountedFor ==
  \A v \in versions :
    Executes(v.by) /\ v.msg \notin excused =>
      \/ covered[v.msg] >= v.no
      \/ pending[v.msg] > 0
      \/ \E r \in Requests : rpc[r] = "enqueue" /\ delivery[r] = v.by
      \/ \E w \in Workers : msg[w] = v.msg /\ (wpc[w] = "load" \/ read[w] >= v.no)

\* A message with a stored trigger gets a reply or was excused: nothing blocks
\* behind another message, another worker or a dashboard change.
TriggersAnswered ==
  \A m \in Msgs : TriggersOf(m) # {} ~> replies[m] > 0 \/ m \in excused

\* No reply is made for a group that is not bound (integration plan, done
\* criteria).
NoReplyUnbound ==
  [][\A m \in Msgs : replies'[m] > replies[m] => active # NoBinding]_vars

\* An event is answered at most once, however often it is delivered (integration
\* plan, duplicate inbound events).
EventAnsweredOnce ==
  \A m \in Msgs : replies[m] <= Cardinality({EventOf[v.by] : v \in TriggersOf(m)})
=============================================================================
