-------------------------- MODULE OutboundDispatch --------------------------
(***************************************************************************)
(* The outbound pipeline: an intent row in PostgreSQL, the RQ job that     *)
(* dispatches it, the worker that runs the job, the gateway call that      *)
(* posts the message to the WhatsApp group, and the status callback.       *)
(*                                                                         *)
(* A worker's run of dispatch_outbound_intent_job is split where another   *)
(* process can see it or where it can die: at each database commit, at the *)
(* HTTP call, and at the moment RQ learns how the job ended.               *)
(***************************************************************************)
EXTENDS Naturals, FiniteSets

CONSTANTS
  Replies,        \* intents created by process_inbound_message_job
  Activations,    \* intents created by create_binding (enqueued without Retry)
  Workers,        \* RQ worker processes
  MaxRetries,     \* len(OUTBOUND_DISPATCH_RETRY_INTERVALS)
  WithScheduler,  \* does some worker run RQ's scheduler (--with-scheduler)?
  Reporting,      \* does the gateway call /gateway/outbound/status?
  NoIntent        \* the intent of an idle worker

Intents == Replies \cup Activations

ASSUME ConstantAssumption ==
  /\ Replies \cap Activations = {}
  /\ MaxRetries \in Nat
  /\ WithScheduler \in BOOLEAN
  /\ Reporting \in BOOLEAN
  /\ NoIntent \notin Intents

VARIABLES
  status,     \* outbound_intents.status; "absent" before the row exists
  attempts,   \* outbound_intents.attempt_count
  job,        \* the RQ job of each intent
  retries,    \* the job's retries_left
  pc,         \* where each worker is in dispatch_outbound_intent_job
  cur,        \* the intent it dispatches
  seen,       \* the status in the worker's SQLAlchemy session
  resp,       \* the outcome of its gateway call
  delivered,  \* messages of the intent posted to the chat
  orphans,    \* calls whose caller is gone and which the gateway may still serve
  reports,    \* status reports the gateway may still deliver, any number of times
  hit         \* history: intents whose dispatch met a crash or a database error

dbVars      == <<status, attempts>>
queueVars   == <<job, retries>>
workerVars  == <<pc, cur, seen, resp>>
gatewayVars == <<delivered, orphans, reports>>
vars == <<dbVars, queueVars, workerVars, gatewayVars, hit>>

Statuses  == {"absent", "pending", "sending", "sent", "failed"}
JobStates == {"none", "lost", "queued", "started", "scheduled", "finished", "failed"}
Places    == {"idle", "load", "mark", "call", "return", "raise"}
Outcomes  == {"none", "ok", "transient", "permanent"}
Verdicts  == {"sent", "failed", "retrying"}

TypeOK ==
  /\ status \in [Intents -> Statuses]
  /\ attempts \in [Intents -> Nat]
  /\ job \in [Intents -> JobStates]
  /\ retries \in [Intents -> Nat]
  /\ pc \in [Workers -> Places]
  /\ cur \in [Workers -> Intents \cup {NoIntent}]
  /\ seen \in [Workers -> Statuses]
  /\ resp \in [Workers -> Outcomes]
  /\ delivered \in [Intents -> Nat]
  /\ orphans \in [Intents -> Nat]
  /\ reports \in [Intents -> SUBSET Verdicts]
  /\ hit \in SUBSET Intents

Init ==
  /\ status = [i \in Intents |-> "absent"]
  /\ attempts = [i \in Intents |-> 0]
  /\ job = [i \in Intents |-> "none"]
  /\ retries = [i \in Intents |-> 0]
  /\ pc = [w \in Workers |-> "idle"]
  /\ cur = [w \in Workers |-> NoIntent]
  /\ seen = [w \in Workers |-> "absent"]
  /\ resp = [w \in Workers |-> "none"]
  /\ delivered = [i \in Intents |-> 0]
  /\ orphans = [i \in Intents |-> 0]
  /\ reports = [i \in Intents |-> {}]
  /\ hit = {}

-----------------------------------------------------------------------------
(* The producers: the inbound execution job and create_binding.            *)

\* create_outbound_intent: the row is committed before anything is enqueued.
Create(i) ==
  /\ status[i] = "absent"
  /\ status' = [status EXCEPT ![i] = "pending"]
  /\ UNCHANGED <<attempts, queueVars, workerVars, gatewayVars, hit>>

RetriesForAll(i) == MaxRetries

\* Only enqueue_outbound_dispatch passes a Retry; an activation job has none.
RetriesOf(i) == IF i \in Replies THEN MaxRetries ELSE 0

Enqueue(i) ==
  /\ status[i] = "pending" /\ job[i] = "none"
  /\ job' = [job EXCEPT ![i] = "queued"]
  /\ retries' = [retries EXCEPT ![i] = RetriesOf(i)]
  /\ UNCHANGED <<dbVars, workerVars, gatewayVars, hit>>

\* The call to Redis raises, with or without having queued the job (its answer
\* may be lost). The reply path marks the intent failed, unless that fails too;
\* the activation path only logs.
EnqueueFails(i) ==
  /\ status[i] = "pending" /\ job[i] = "none"
  /\ \/ job' = [job EXCEPT ![i] = "lost"] /\ UNCHANGED retries
     \/ /\ job' = [job EXCEPT ![i] = "queued"]
        /\ retries' = [retries EXCEPT ![i] = RetriesOf(i)]
  /\ \/ UNCHANGED status
     \/ i \in Replies /\ status' = [status EXCEPT ![i] = "failed"]
  /\ hit' = hit \cup {i}
  /\ UNCHANGED <<attempts, workerVars, gatewayVars>>

\* The producer dies between its commit and the enqueue: nothing sweeps
\* pending intents later.
ProducerCrash(i) ==
  /\ status[i] = "pending" /\ job[i] = "none"
  /\ job' = [job EXCEPT ![i] = "lost"]
  /\ hit' = hit \cup {i}
  /\ UNCHANGED <<dbVars, retries, workerVars, gatewayVars>>

-----------------------------------------------------------------------------
(* RQ, as the code uses it.                                                *)

Start(w, i) ==
  /\ pc[w] = "idle" /\ job[i] = "queued"
  /\ job' = [job EXCEPT ![i] = "started"]
  /\ pc' = [pc EXCEPT ![w] = "load"]
  /\ cur' = [cur EXCEPT ![w] = i]
  /\ UNCHANGED <<dbVars, retries, seen, resp, gatewayVars, hit>>

\* A job that raised, or whose worker died, is scheduled again while it has
\* retries left.
JobFailed(i) ==
  IF retries[i] > 0
  THEN /\ job' = [job EXCEPT ![i] = "scheduled"]
       /\ retries' = [retries EXCEPT ![i] = @ - 1]
  ELSE job' = [job EXCEPT ![i] = "failed"] /\ UNCHANGED retries

\* The retry intervals are positive, so a retry waits for RQ's scheduler.
Promote(i) ==
  /\ WithScheduler /\ job[i] = "scheduled"
  /\ job' = [job EXCEPT ![i] = "queued"]
  /\ UNCHANGED <<dbVars, retries, workerVars, gatewayVars, hit>>

Release(w) ==
  /\ pc' = [pc EXCEPT ![w] = "idle"]
  /\ cur' = [cur EXCEPT ![w] = NoIntent]
  /\ seen' = [seen EXCEPT ![w] = "absent"]
  /\ resp' = [resp EXCEPT ![w] = "none"]

\* RQ learns that the job function returned or raised.
End(w) ==
  /\ \/ /\ pc[w] = "return"
        /\ job' = [job EXCEPT ![cur[w]] = "finished"]
        /\ UNCHANGED retries
     \/ pc[w] = "raise" /\ JobFailed(cur[w])
  /\ Release(w)
  /\ UNCHANGED <<dbVars, gatewayVars, hit>>

\* The worker dies at any point of the job; a call in progress is dropped or
\* left behind at the gateway.
Crash(w) ==
  /\ pc[w] # "idle"
  /\ JobFailed(cur[w])
  /\ Release(w)
  /\ \/ UNCHANGED orphans
     \/ /\ pc[w] = "call" /\ resp[w] = "none"
        /\ orphans' = [orphans EXCEPT ![cur[w]] = @ + 1]
  /\ hit' = hit \cup {cur[w]}
  /\ UNCHANGED <<dbVars, delivered, reports>>

-----------------------------------------------------------------------------
(* dispatch_outbound_intent_job.                                           *)

Goto(w, p) == pc' = [pc EXCEPT ![w] = p]

LoadAnyStatus(w) ==
  /\ pc[w] = "load"
  /\ seen' = [seen EXCEPT ![w] = status[cur[w]]]
  /\ Goto(w, "mark")
  /\ UNCHANGED <<dbVars, queueVars, cur, resp, gatewayVars, hit>>

\* get_outbound_intent, and the early return for an intent already sent.
Load(w) ==
  /\ pc[w] = "load"
  /\ seen' = [seen EXCEPT ![w] = status[cur[w]]]
  /\ Goto(w, IF status[cur[w]] = "sent" THEN "return" ELSE "mark")
  /\ UNCHANGED <<dbVars, queueVars, cur, resp, gatewayVars, hit>>

\* The status the row gets when the session assigns st and commits. The session
\* holds the row it loaded: an assignment equal to the loaded value is not part
\* of the UPDATE, so it does not overwrite what another process has committed.
Written(w, st) == IF seen[w] = st THEN status[cur[w]] ELSE st

Commit(w, st) ==
  /\ status' = [status EXCEPT ![cur[w]] = Written(w, st)]
  /\ seen' = [seen EXCEPT ![w] = Written(w, st)]

MarkSendingUncounted(w) ==
  /\ pc[w] = "mark"
  /\ Commit(w, "sending")
  /\ Goto(w, "call")
  /\ UNCHANGED <<attempts, queueVars, cur, resp, gatewayVars, hit>>

\* mark_outbound_intent_sending commits, then the call to the gateway is on its
\* way.
MarkSending(w) ==
  /\ pc[w] = "mark"
  /\ Commit(w, "sending")
  /\ attempts' = [attempts EXCEPT ![cur[w]] = @ + 1]
  /\ Goto(w, "call")
  /\ UNCHANGED <<queueVars, cur, resp, gatewayVars, hit>>

NoTimeout(w) ==
  /\ pc[w] = "call" /\ resp[w] # "none"
  /\ resp' = [resp EXCEPT ![w] = "transient"]
  /\ UNCHANGED <<dbVars, queueVars, pc, cur, seen, gatewayVars, hit>>

\* httpx raises a transport error or its timeout: the request was lost, or it
\* is still at the gateway, or the answer was lost. Handled like a transient
\* HTTP status.
Timeout(w) ==
  /\ pc[w] = "call" /\ resp[w] # "transient"
  /\ resp' = [resp EXCEPT ![w] = "transient"]
  /\ \/ UNCHANGED orphans
     \/ resp[w] = "none" /\ orphans' = [orphans EXCEPT ![cur[w]] = @ + 1]
  /\ UNCHANGED <<dbVars, queueVars, pc, cur, seen, delivered, reports, hit>>

HasRetry(w) == retries[cur[w]] > 0

RetryingStatus(w) == IF resp[w] = "ok" THEN "sent"
                     ELSE IF resp[w] = "transient" /\ HasRetry(w) THEN "retrying"
                     ELSE "failed"

\* What the job makes of the gateway's answer: the status it commits, where a
\* retry keeps "sending", and whether the function then raises.
SettledStatus(w) == IF resp[w] = "ok" THEN "sent"
                    ELSE IF resp[w] = "transient" /\ HasRetry(w) THEN "sending"
                    ELSE "failed"

SettledEnd(w) == IF resp[w] = "transient" THEN "raise" ELSE "return"

SettleUnchecked(w) ==
  /\ pc[w] = "call" /\ resp[w] # "none"
  /\ Commit(w, IF resp[w] = "transient" THEN SettledStatus(w) ELSE "sent")
  /\ Goto(w, SettledEnd(w))
  /\ UNCHANGED <<attempts, queueVars, cur, resp, gatewayVars, hit>>

SettleAlwaysRetrying(w) ==
  /\ pc[w] = "call" /\ resp[w] # "none"
  /\ Commit(w, IF resp[w] = "transient" THEN "sending" ELSE SettledStatus(w))
  /\ Goto(w, SettledEnd(w))
  /\ UNCHANGED <<attempts, queueVars, cur, resp, gatewayVars, hit>>

Settle(w) ==
  /\ pc[w] = "call" /\ resp[w] # "none"
  /\ Commit(w, SettledStatus(w))
  /\ Goto(w, SettledEnd(w))
  /\ UNCHANGED <<attempts, queueVars, cur, resp, gatewayVars, hit>>

\* A database error while the session is about to commit st: the commit may have
\* been applied before the error or not.
HalfCommit(w, st, applied) == IF applied THEN Written(w, st) ELSE status[cur[w]]

\* After an error on the main path the last except clause reads the row afresh
\* and marks it failed, unless that fails too.
FailRow(w, st) == \E s \in {st, "failed"} : status' = [status EXCEPT ![cur[w]] = s]

\* A database error, after which the job raises. One inside the except clauses
\* of the gateway errors is not caught by the last clause.
DbError(w) ==
  /\ \/ pc[w] = "load" /\ FailRow(w, status[cur[w]]) /\ UNCHANGED attempts
     \/ /\ pc[w] = "mark"
        /\ \E applied \in BOOLEAN :
             /\ FailRow(w, HalfCommit(w, "sending", applied))
             /\ attempts' = [attempts EXCEPT ![cur[w]] = IF applied THEN @ + 1 ELSE @]
     \/ /\ pc[w] = "call" /\ resp[w] = "ok"
        /\ \E applied \in BOOLEAN : FailRow(w, HalfCommit(w, "sent", applied))
        /\ UNCHANGED attempts
     \/ /\ pc[w] = "call" /\ resp[w] \in {"transient", "permanent"}
        /\ \E applied \in BOOLEAN :
             status' = [status EXCEPT ![cur[w]] = HalfCommit(w, SettledStatus(w), applied)]
        /\ UNCHANGED attempts
  /\ Goto(w, "raise")
  /\ hit' = hit \cup {cur[w]}
  /\ UNCHANGED <<queueVars, cur, seen, resp, gatewayVars>>

-----------------------------------------------------------------------------
(* The gateway.                                                            *)

\* What a call may do: refuse it before sending (token, group jid, text), post
\* the message, or fail with 502, before or after WhatsApp took the message.
\* The endpoint keeps no record of the intents it has served.
Serve(i, outcome) ==
  /\ \/ outcome = "permanent" /\ UNCHANGED delivered
     \/ outcome = "transient" /\ UNCHANGED delivered
     \/ outcome \in {"ok", "transient"} /\ delivered' = [delivered EXCEPT ![i] = @ + 1]
  /\ \E r \in (IF outcome = "ok" THEN {"sent"} ELSE {"failed", "retrying"}) :
       reports' = IF Reporting THEN [reports EXCEPT ![i] = @ \cup {r}] ELSE reports

Answer(w) ==
  /\ pc[w] = "call" /\ resp[w] = "none"
  /\ \E outcome \in Outcomes \ {"none"} :
       /\ Serve(cur[w], outcome)
       /\ resp' = [resp EXCEPT ![w] = outcome]
  /\ UNCHANGED <<dbVars, queueVars, pc, cur, seen, orphans, hit>>

\* A call whose caller has timed out or died is served late.
AnswerNobody(i) ==
  /\ orphans[i] > 0
  /\ orphans' = [orphans EXCEPT ![i] = @ - 1]
  /\ \E outcome \in Outcomes \ {"none"} : Serve(i, outcome)
  /\ UNCHANGED <<dbVars, queueVars, workerVars, hit>>

ReportElseSent(i) ==
  /\ \E r \in reports[i] :
       status' = [status EXCEPT ![i] = IF r = "failed" THEN r ELSE "sent"]
  /\ UNCHANGED <<attempts, queueVars, workerVars, gatewayVars, hit>>

\* report_outbound_status: whatever the row says, it takes the reported status.
Report(i) ==
  /\ \E r \in reports[i] :
       status' = [status EXCEPT ![i] = IF r = "retrying" THEN "sending" ELSE r]
  /\ UNCHANGED <<attempts, queueVars, workerVars, gatewayVars, hit>>

-----------------------------------------------------------------------------
WorkerStep(w) == Load(w) \/ MarkSending(w) \/ Timeout(w) \/ Settle(w) \/ End(w)

Next ==
  \/ \E i \in Intents : \/ Create(i) \/ Enqueue(i) \/ EnqueueFails(i) \/ ProducerCrash(i)
                        \/ Promote(i) \/ AnswerNobody(i) \/ Report(i)
  \/ \E w \in Workers : \/ WorkerStep(w) \/ Crash(w) \/ DbError(w) \/ Answer(w)
                        \/ \E i \in Intents : Start(w, i)

Spec == Init /\ [][Next]_vars

\* A running worker keeps running its job, httpx bounds the wait for the
\* gateway, an idle worker takes queued jobs and RQ's scheduler, where one runs,
\* requeues due retries. Nothing is assumed of the producers or the gateway.
Fairness ==
  /\ \A w \in Workers : WF_vars(WorkerStep(w))
  /\ \A i \in Intents : /\ WF_vars(\E w \in Workers : Start(w, i))
                        /\ WF_vars(Promote(i))

FairSpec == Spec /\ Fairness
-----------------------------------------------------------------------------
\* The user sees at most one message per attempt, and the attempts are bounded:
\* a reply is posted at most MaxRetries + 1 times (first run and RQ's retries,
\* whatever crashes, timeouts or lost answers happen) and an activation notice,
\* which is enqueued without Retry, at most once.
BoundedSends ==
  /\ \A i \in Replies : delivered[i] <= MaxRetries + 1
  /\ \A i \in Activations : delivered[i] <= 1

\* attempt_count accounts for every message posted and for every call still
\* loose at the gateway, although it is committed by another process and before
\* the call: mark_outbound_intent_sending comes first.
AttemptsCoverSends ==
  \A i \in Intents : delivered[i] + orphans[i] <= attempts[i]

\* An intent recorded as sent was posted at least once: no error path and no
\* report makes the dashboard show a delivery that did not happen.
SentMeansDelivered ==
  \A i \in Intents : status[i] = "sent" => delivered[i] > 0

\* When RQ is done with the job, the intent says sent or failed, never
\* "sending" with nobody left to send it, unless a crash or a database error
\* hit its dispatch or the gateway reported "retrying".
SettledUnlessHit ==
  \A i \in Intents :
    job[i] \in {"finished", "failed"} /\ i \notin hit /\ "retrying" \notin reports[i]
      => status[i] \in {"sent", "failed"}

\* A new attempt is never made for an intent that is recorded as sent: the check
\* at the head of the job stops the rerun of a job whose worker died after
\* mark_outbound_intent_sent.
NoAttemptOnceSent ==
  [][\A i \in Intents : attempts'[i] > attempts[i] => status[i] # "sent"]_vars

\* Every job RQ has accepted comes to an end, through all its retries.
JobsEnd ==
  \A i \in Intents : job[i] = "queued" ~> job[i] \in {"finished", "failed"}

\* A retry RQ has planned is run: what the integration plan asks of transient
\* provider failures.
RetriesRun == \A i \in Intents : job[i] = "scheduled" ~> job[i] = "queued"

\* No intent is posted twice: what the product requirements ask of retries.
NoDuplicateSend == \A i \in Intents : delivered[i] <= 1

-----------------------------------------------------------------------------
(* The pipeline implements Outbox.                                         *)

EntryOf(s) == CASE s = "absent" -> "absent"
                [] s = "sent"   -> "confirmed"
                [] s = "failed" -> "rejected"
                [] OTHER        -> "open"

entryBar == [i \in Intents |-> EntryOf(status[i])]
limitBar == [i \in Intents |-> IF i \in Replies THEN MaxRetries + 1 ELSE 1]

Box == INSTANCE Outbox WITH entry <- entryBar, copies <- delivered, Limit <- limitBar

\* Every step of producers, queue, workers and gateway is a step of Outbox or
\* leaves it alone (when the gateway sends no reports).
ImplementsOutbox == Box!Spec
=============================================================================
