----------------------- MODULE OutboundDispatch_proofs -----------------------
(***************************************************************************)
(* Proofs about OutboundDispatch for every set of intents and workers and  *)
(* every number of retries.                                                *)
(***************************************************************************)
EXTENDS OutboundDispatch, TLAPS

-----------------------------------------------------------------------------
(* The parts of the inductive invariant.                                   *)

Busy(w) == pc[w] # "idle"

\* A worker in the middle of a job is the only one there, and RQ has the job as
\* started.
Owned ==
  /\ \A w \in Workers : Busy(w) => cur[w] \in Intents /\ job[cur[w]] = "started"
  /\ \A v, w \in Workers : Busy(v) /\ Busy(w) /\ cur[v] = cur[w] => v = w

\* Attempts made, retries left and the run still to come never exceed what the
\* enqueue allowed.
Budget ==
  /\ \A i \in Intents : attempts[i] + retries[i] <= RetriesOf(i) + 1
  /\ \A i \in Intents : job[i] \in {"queued", "scheduled"}
                          => attempts[i] + retries[i] <= RetriesOf(i)
  /\ \A i \in Intents : job[i] = "none" => attempts[i] = 0 /\ retries[i] = 0
  /\ \A w \in Workers : pc[w] \in {"load", "mark"}
                          => attempts[cur[w]] + retries[cur[w]] <= RetriesOf(cur[w])

\* A call that is still waiting for its answer is an attempt nothing posted or
\* loose accounts for yet.
Covered ==
  /\ AttemptsCoverSends
  /\ \A w \in Workers : pc[w] = "call" /\ resp[w] = "none"
                          => delivered[cur[w]] + orphans[cur[w]] < attempts[cur[w]]

\* Whatever says "sent" - the row, the answer a worker holds, a report - says so
\* of an intent that was posted.
Truthful ==
  /\ SentMeansDelivered
  /\ \A w \in Workers : pc[w] \in {"idle", "load", "mark"} => resp[w] = "none"
  /\ \A w \in Workers : pc[w] = "call" /\ resp[w] = "ok" => delivered[cur[w]] > 0
  /\ \A i \in Intents : "sent" \in reports[i] => delivered[i] > 0

\* Without reports nobody but the worker changes the row of a started job, so its
\* session is up to date.
Undisturbed ==
  /\ \A i \in Intents : reports[i] = {}
  /\ \A i \in Intents : status[i] = "absent" => job[i] = "none"
  /\ \A w \in Workers : pc[w] = "mark" => seen[w] = status[cur[w]] /\ seen[w] # "sent"
  /\ \A w \in Workers : pc[w] = "call" => seen[w] = "sending" /\ status[cur[w]] = "sending"

-----------------------------------------------------------------------------
LEMMA RetriesOfType == \A i \in Intents : RetriesOf(i) \in Nat
BY ConstantAssumption DEF RetriesOf

LEMMA SettledType ==
  \A w \in Workers : /\ SettledStatus(w) \in {"sent", "sending", "failed"}
                     /\ SettledEnd(w) \in {"return", "raise"}
                     /\ SettledStatus(w) = "sent" <=> resp[w] = "ok"
BY DEF SettledStatus, SettledEnd

LEMMA TypeStep == TypeOK /\ Owned /\ [Next]_vars => TypeOK'
<1> SUFFICES ASSUME TypeOK, Owned, [Next]_vars PROVE TypeOK'
  OBVIOUS
<1> USE RetriesOfType DEF TypeOK, Statuses, JobStates, Places, Outcomes, Verdicts,
        dbVars, queueVars, workerVars, gatewayVars
<1>1. ASSUME NEW i \in Intents, Create(i) PROVE TypeOK'
  BY <1>1 DEF Create
<1>2. ASSUME NEW i \in Intents, Enqueue(i) PROVE TypeOK'
  BY <1>2 DEF Enqueue
<1>3. ASSUME NEW i \in Intents, EnqueueFails(i) PROVE TypeOK'
  BY <1>3 DEF EnqueueFails
<1>4. ASSUME NEW i \in Intents, ProducerCrash(i) PROVE TypeOK'
  BY <1>4 DEF ProducerCrash
<1>5. ASSUME NEW i \in Intents, Promote(i) PROVE TypeOK'
  BY <1>5 DEF Promote
<1>6. ASSUME NEW i \in Intents, AnswerNobody(i) PROVE TypeOK'
  BY <1>6 DEF AnswerNobody, Serve
<1>7. ASSUME NEW i \in Intents, Report(i) PROVE TypeOK'
  BY <1>7 DEF Report
<1>8. ASSUME NEW w \in Workers, NEW i \in Intents, Start(w, i) PROVE TypeOK'
  BY <1>8 DEF Start
<1>9. ASSUME NEW w \in Workers, Load(w) PROVE TypeOK'
  BY <1>9 DEF Load, Goto, Owned, Busy
<1>10. ASSUME NEW w \in Workers, MarkSending(w) PROVE TypeOK'
  BY <1>10 DEF MarkSending, Commit, Written, Goto, Owned, Busy
<1>11. ASSUME NEW w \in Workers, Timeout(w) PROVE TypeOK'
  BY <1>11 DEF Timeout, Owned, Busy
<1>12. ASSUME NEW w \in Workers, Settle(w) PROVE TypeOK'
  BY <1>12, SettledType DEF Settle, Commit, Written, Goto, Owned, Busy
<1>13. ASSUME NEW w \in Workers, End(w) PROVE TypeOK'
  BY <1>13 DEF End, JobFailed, Release, Owned, Busy
<1>14. ASSUME NEW w \in Workers, Crash(w) PROVE TypeOK'
  BY <1>14 DEF Crash, JobFailed, Release, Owned, Busy
<1>15. ASSUME NEW w \in Workers, DbError(w) PROVE TypeOK'
  BY <1>15, SettledType DEF DbError, FailRow, HalfCommit, Written, Goto, Owned, Busy
<1>16. ASSUME NEW w \in Workers, Answer(w) PROVE TypeOK'
  BY <1>16 DEF Answer, Serve, Owned, Busy
<1>17. CASE UNCHANGED vars
  BY <1>17 DEF vars
<1> QED
  BY <1>1, <1>2, <1>3, <1>4, <1>5, <1>6, <1>7, <1>8, <1>9, <1>10, <1>11, <1>12,
     <1>13, <1>14, <1>15, <1>16, <1>17 DEF Next, WorkerStep
LEMMA OwnedStep == TypeOK /\ Owned /\ [Next]_vars => Owned'
<1> SUFFICES ASSUME TypeOK, Owned, [Next]_vars PROVE Owned'
  OBVIOUS
<1> USE DEF Owned, Busy, TypeOK, dbVars, queueVars, workerVars, gatewayVars
<1>1. ASSUME NEW i \in Intents, Create(i) PROVE Owned'
  BY <1>1 DEF Create
<1>2. ASSUME NEW i \in Intents, Enqueue(i) PROVE Owned'
  BY <1>2 DEF Enqueue
<1>3. ASSUME NEW i \in Intents, EnqueueFails(i) PROVE Owned'
  BY <1>3 DEF EnqueueFails
<1>4. ASSUME NEW i \in Intents, ProducerCrash(i) PROVE Owned'
  BY <1>4 DEF ProducerCrash
<1>5. ASSUME NEW i \in Intents, Promote(i) PROVE Owned'
  BY <1>5 DEF Promote
<1>6. ASSUME NEW i \in Intents, AnswerNobody(i) PROVE Owned'
  BY <1>6 DEF AnswerNobody, Serve
<1>7. ASSUME NEW i \in Intents, Report(i) PROVE Owned'
  BY <1>7 DEF Report
<1>8. ASSUME NEW w \in Workers, NEW i \in Intents, Start(w, i) PROVE Owned'
  BY <1>8 DEF Start
<1>9. ASSUME NEW w \in Workers, Load(w) PROVE Owned'
  BY <1>9 DEF Load, Goto
<1>10. ASSUME NEW w \in Workers, MarkSending(w) PROVE Owned'
  BY <1>10 DEF MarkSending, Commit, Written, Goto
<1>11. ASSUME NEW w \in Workers, Timeout(w) PROVE Owned'
  BY <1>11 DEF Timeout
<1>12. ASSUME NEW w \in Workers, Settle(w) PROVE Owned'
  BY <1>12, SettledType DEF Settle, Commit, Written, Goto
<1>13. ASSUME NEW w \in Workers, End(w) PROVE Owned'
  BY <1>13 DEF End, JobFailed, Release
<1>14. ASSUME NEW w \in Workers, Crash(w) PROVE Owned'
  BY <1>14 DEF Crash, JobFailed, Release
<1>15. ASSUME NEW w \in Workers, DbError(w) PROVE Owned'
  BY <1>15 DEF DbError, FailRow, HalfCommit, Written, Goto
<1>16. ASSUME NEW w \in Workers, Answer(w) PROVE Owned'
  BY <1>16 DEF Answer, Serve
<1>17. CASE UNCHANGED vars
  BY <1>17 DEF vars
<1> QED
  BY <1>1, <1>2, <1>3, <1>4, <1>5, <1>6, <1>7, <1>8, <1>9, <1>10, <1>11, <1>12, <1>13, <1>14, <1>15, <1>16, <1>17 DEF Next, WorkerStep

LEMMA BudgetStep == TypeOK /\ Owned /\ Budget /\ [Next]_vars => Budget'
<1> SUFFICES ASSUME TypeOK, Owned, Budget, [Next]_vars PROVE Budget'
  OBVIOUS
<1> USE RetriesOfType DEF Budget, Owned, Busy, TypeOK, dbVars, queueVars, workerVars, gatewayVars
<1>1. ASSUME NEW i \in Intents, Create(i) PROVE Budget'
  BY <1>1 DEF Create
<1>2. ASSUME NEW i \in Intents, Enqueue(i) PROVE Budget'
  BY <1>2 DEF Enqueue
<1>3. ASSUME NEW i \in Intents, EnqueueFails(i) PROVE Budget'
  <2>1. CASE job' = [job EXCEPT ![i] = "lost"] /\ UNCHANGED retries
    BY <1>3, <2>1 DEF EnqueueFails
  <2>2. CASE /\ job' = [job EXCEPT ![i] = "queued"]
             /\ retries' = [retries EXCEPT ![i] = RetriesOf(i)]
    <3>1. attempts[i] = 0 /\ RetriesOf(i) \in Nat
      BY <1>3 DEF EnqueueFails
    <3> QED
      BY <1>3, <2>2, <3>1 DEF EnqueueFails
  <2> QED
    BY <1>3, <2>1, <2>2 DEF EnqueueFails
<1>4. ASSUME NEW i \in Intents, ProducerCrash(i) PROVE Budget'
  BY <1>4 DEF ProducerCrash
<1>5. ASSUME NEW i \in Intents, Promote(i) PROVE Budget'
  BY <1>5 DEF Promote
<1>6. ASSUME NEW i \in Intents, AnswerNobody(i) PROVE Budget'
  BY <1>6 DEF AnswerNobody, Serve
<1>7. ASSUME NEW i \in Intents, Report(i) PROVE Budget'
  BY <1>7 DEF Report
<1>8. ASSUME NEW w \in Workers, NEW i \in Intents, Start(w, i) PROVE Budget'
  BY <1>8 DEF Start
<1>9. ASSUME NEW w \in Workers, Load(w) PROVE Budget'
  BY <1>9 DEF Load, Goto
<1>10. ASSUME NEW w \in Workers, MarkSending(w) PROVE Budget'
  BY <1>10 DEF MarkSending, Commit, Written, Goto
<1>11. ASSUME NEW w \in Workers, Timeout(w) PROVE Budget'
  BY <1>11 DEF Timeout
<1>12. ASSUME NEW w \in Workers, Settle(w) PROVE Budget'
  BY <1>12, SettledType DEF Settle, Commit, Written, Goto
<1>13. ASSUME NEW w \in Workers, End(w) PROVE Budget'
  BY <1>13 DEF End, JobFailed, Release
<1>14. ASSUME NEW w \in Workers, Crash(w) PROVE Budget'
  <2>1. CASE retries[cur[w]] > 0
    <3>1. /\ pc[w] # "idle"
          /\ job' = [job EXCEPT ![cur[w]] = "scheduled"]
          /\ retries' = [retries EXCEPT ![cur[w]] = @ - 1]
          /\ pc' = [pc EXCEPT ![w] = "idle"]
          /\ cur' = [cur EXCEPT ![w] = NoIntent]
          /\ UNCHANGED attempts
      BY <1>14, <2>1 DEF Crash, JobFailed, Release
    <3> QED
      BY <2>1, <3>1
  <2>2. CASE ~(retries[cur[w]] > 0)
    BY <1>14, <2>2 DEF Crash, JobFailed, Release
  <2> QED
    BY <2>1, <2>2
<1>15. ASSUME NEW w \in Workers, DbError(w) PROVE Budget'
  <2>1. CASE UNCHANGED attempts
    BY <1>15, <2>1 DEF DbError, Goto
  <2>2. CASE /\ pc[w] = "mark"
             /\ attempts' = [attempts EXCEPT ![cur[w]] = @ + 1]
    BY <1>15, <2>2 DEF DbError, Goto
  <2>3. UNCHANGED attempts \/ (/\ pc[w] = "mark"
                              /\ attempts' = [attempts EXCEPT ![cur[w]] = @ + 1])
    BY <1>15 DEF DbError
  <2> QED
    BY <2>1, <2>2, <2>3
<1>16. ASSUME NEW w \in Workers, Answer(w) PROVE Budget'
  BY <1>16 DEF Answer, Serve
<1>17. CASE UNCHANGED vars
  BY <1>17 DEF vars
<1> QED
  BY <1>1, <1>2, <1>3, <1>4, <1>5, <1>6, <1>7, <1>8, <1>9, <1>10, <1>11, <1>12, <1>13, <1>14, <1>15, <1>16, <1>17 DEF Next, WorkerStep

LEMMA CoveredStep == TypeOK /\ Owned /\ Covered /\ [Next]_vars => Covered'
<1> SUFFICES ASSUME TypeOK, Owned, Covered, [Next]_vars PROVE Covered'
  OBVIOUS
<1> USE DEF Covered, AttemptsCoverSends, Owned, Busy, TypeOK, dbVars, queueVars, workerVars, gatewayVars
<1>1. ASSUME NEW i \in Intents, Create(i) PROVE Covered'
  BY <1>1 DEF Create
<1>2. ASSUME NEW i \in Intents, Enqueue(i) PROVE Covered'
  BY <1>2 DEF Enqueue
<1>3. ASSUME NEW i \in Intents, EnqueueFails(i) PROVE Covered'
  BY <1>3 DEF EnqueueFails
<1>4. ASSUME NEW i \in Intents, ProducerCrash(i) PROVE Covered'
  BY <1>4 DEF ProducerCrash
<1>5. ASSUME NEW i \in Intents, Promote(i) PROVE Covered'
  BY <1>5 DEF Promote
<1>6. ASSUME NEW i \in Intents, AnswerNobody(i) PROVE Covered'
  BY <1>6 DEF AnswerNobody, Serve
<1>7. ASSUME NEW i \in Intents, Report(i) PROVE Covered'
  BY <1>7 DEF Report
<1>8. ASSUME NEW w \in Workers, NEW i \in Intents, Start(w, i) PROVE Covered'
  BY <1>8 DEF Start
<1>9. ASSUME NEW w \in Workers, Load(w) PROVE Covered'
  BY <1>9 DEF Load, Goto
<1>10. ASSUME NEW w \in Workers, MarkSending(w) PROVE Covered'
  BY <1>10 DEF MarkSending, Commit, Written, Goto
<1>11. ASSUME NEW w \in Workers, Timeout(w) PROVE Covered'
  BY <1>11 DEF Timeout
<1>12. ASSUME NEW w \in Workers, Settle(w) PROVE Covered'
  BY <1>12, SettledType DEF Settle, Commit, Written, Goto
<1>13. ASSUME NEW w \in Workers, End(w) PROVE Covered'
  BY <1>13 DEF End, JobFailed, Release
<1>14. ASSUME NEW w \in Workers, Crash(w) PROVE Covered'
  BY <1>14 DEF Crash, JobFailed, Release
<1>15. ASSUME NEW w \in Workers, DbError(w) PROVE Covered'
  BY <1>15 DEF DbError, FailRow, HalfCommit, Written, Goto
<1>16. ASSUME NEW w \in Workers, Answer(w) PROVE Covered'
  BY <1>16 DEF Answer, Serve
<1>17. CASE UNCHANGED vars
  BY <1>17 DEF vars
<1> QED
  BY <1>1, <1>2, <1>3, <1>4, <1>5, <1>6, <1>7, <1>8, <1>9, <1>10, <1>11, <1>12, <1>13, <1>14, <1>15, <1>16, <1>17 DEF Next, WorkerStep

LEMMA TruthfulStep == TypeOK /\ Owned /\ Truthful /\ [Next]_vars => Truthful'
<1> SUFFICES ASSUME TypeOK, Owned, Truthful, [Next]_vars PROVE Truthful'
  OBVIOUS
<1> USE DEF Truthful, SentMeansDelivered, Owned, Busy, Verdicts, Outcomes, TypeOK, dbVars, queueVars, workerVars, gatewayVars
<1>1. ASSUME NEW i \in Intents, Create(i) PROVE Truthful'
  BY <1>1 DEF Create
<1>2. ASSUME NEW i \in Intents, Enqueue(i) PROVE Truthful'
  BY <1>2 DEF Enqueue
<1>3. ASSUME NEW i \in Intents, EnqueueFails(i) PROVE Truthful'
  BY <1>3 DEF EnqueueFails
<1>4. ASSUME NEW i \in Intents, ProducerCrash(i) PROVE Truthful'
  BY <1>4 DEF ProducerCrash
<1>5. ASSUME NEW i \in Intents, Promote(i) PROVE Truthful'
  BY <1>5 DEF Promote
<1>6. ASSUME NEW i \in Intents, AnswerNobody(i) PROVE Truthful'
  BY <1>6 DEF AnswerNobody, Serve
<1>7. ASSUME NEW i \in Intents, Report(i) PROVE Truthful'
  BY <1>7 DEF Report
<1>8. ASSUME NEW w \in Workers, NEW i \in Intents, Start(w, i) PROVE Truthful'
  BY <1>8 DEF Start
<1>9. ASSUME NEW w \in Workers, Load(w) PROVE Truthful'
  BY <1>9 DEF Load, Goto
<1>10. ASSUME NEW w \in Workers, MarkSending(w) PROVE Truthful'
  BY <1>10 DEF MarkSending, Commit, Written, Goto
<1>11. ASSUME NEW w \in Workers, Timeout(w) PROVE Truthful'
  BY <1>11 DEF Timeout
<1>12. ASSUME NEW w \in Workers, Settle(w) PROVE Truthful'
  BY <1>12, SettledType DEF Settle, Commit, Written, Goto
<1>13. ASSUME NEW w \in Workers, End(w) PROVE Truthful'
  BY <1>13 DEF End, JobFailed, Release
<1>14. ASSUME NEW w \in Workers, Crash(w) PROVE Truthful'
  BY <1>14 DEF Crash, JobFailed, Release
<1>15. ASSUME NEW w \in Workers, DbError(w) PROVE Truthful'
  BY <1>15, SettledType DEF DbError, FailRow, HalfCommit, Written, Goto
<1>16. ASSUME NEW w \in Workers, Answer(w) PROVE Truthful'
  BY <1>16 DEF Answer, Serve
<1>17. CASE UNCHANGED vars
  BY <1>17 DEF vars
<1> QED
  BY <1>1, <1>2, <1>3, <1>4, <1>5, <1>6, <1>7, <1>8, <1>9, <1>10, <1>11, <1>12, <1>13, <1>14, <1>15, <1>16, <1>17 DEF Next, WorkerStep

LEMMA UndisturbedStep ==
  ~Reporting /\ TypeOK /\ Owned /\ Undisturbed /\ [Next]_vars => Undisturbed'
<1> SUFFICES ASSUME ~Reporting, TypeOK, Owned, Undisturbed, [Next]_vars PROVE Undisturbed'
  OBVIOUS
<1> USE DEF Undisturbed, Owned, Busy, Verdicts, Outcomes, TypeOK, dbVars, queueVars, workerVars, gatewayVars
<1>1. ASSUME NEW i \in Intents, Create(i) PROVE Undisturbed'
  BY <1>1 DEF Create
<1>2. ASSUME NEW i \in Intents, Enqueue(i) PROVE Undisturbed'
  BY <1>2 DEF Enqueue
<1>3. ASSUME NEW i \in Intents, EnqueueFails(i) PROVE Undisturbed'
  BY <1>3 DEF EnqueueFails
<1>4. ASSUME NEW i \in Intents, ProducerCrash(i) PROVE Undisturbed'
  BY <1>4 DEF ProducerCrash
<1>5. ASSUME NEW i \in Intents, Promote(i) PROVE Undisturbed'
  BY <1>5 DEF Promote
<1>6. ASSUME NEW i \in Intents, AnswerNobody(i) PROVE Undisturbed'
  BY <1>6 DEF AnswerNobody, Serve
<1>7. ASSUME NEW i \in Intents, Report(i) PROVE Undisturbed'
  BY <1>7 DEF Report
<1>8. ASSUME NEW w \in Workers, NEW i \in Intents, Start(w, i) PROVE Undisturbed'
  BY <1>8 DEF Start
<1>9. ASSUME NEW w \in Workers, Load(w) PROVE Undisturbed'
  BY <1>9 DEF Load, Goto
<1>10. ASSUME NEW w \in Workers, MarkSending(w) PROVE Undisturbed'
  BY <1>10 DEF MarkSending, Commit, Written, Goto
<1>11. ASSUME NEW w \in Workers, Timeout(w) PROVE Undisturbed'
  BY <1>11 DEF Timeout
<1>12. ASSUME NEW w \in Workers, Settle(w) PROVE Undisturbed'
  BY <1>12, SettledType DEF Settle, SettledStatus, Commit, Written, Goto
<1>13. ASSUME NEW w \in Workers, End(w) PROVE Undisturbed'
  BY <1>13 DEF End, JobFailed, Release
<1>14. ASSUME NEW w \in Workers, Crash(w) PROVE Undisturbed'
  BY <1>14 DEF Crash, JobFailed, Release
<1>15. ASSUME NEW w \in Workers, DbError(w) PROVE Undisturbed'
  BY <1>15, SettledType DEF DbError, FailRow, HalfCommit, Written, Goto
<1>16. ASSUME NEW w \in Workers, Answer(w) PROVE Undisturbed'
  BY <1>16 DEF Answer, Serve
<1>17. CASE UNCHANGED vars
  BY <1>17 DEF vars
<1> QED
  BY <1>1, <1>2, <1>3, <1>4, <1>5, <1>6, <1>7, <1>8, <1>9, <1>10, <1>11, <1>12, <1>13, <1>14, <1>15, <1>16, <1>17 DEF Next, WorkerStep

-----------------------------------------------------------------------------
IInv == TypeOK /\ Owned /\ Budget /\ Covered /\ Truthful

LEMMA InitInv == Init => IInv /\ (~Reporting => Undisturbed)
<1> SUFFICES ASSUME Init PROVE IInv /\ Undisturbed
  OBVIOUS
<1>1. TypeOK
  BY DEF Init, TypeOK, Statuses, JobStates, Places, Outcomes, Verdicts
<1>2. Owned /\ Budget
  BY RetriesOfType DEF Init, Owned, Busy, Budget
<1>3. Covered /\ Truthful /\ Undisturbed
  BY DEF Init, Covered, AttemptsCoverSends, Truthful, SentMeansDelivered, Undisturbed
<1> QED
  BY <1>1, <1>2, <1>3 DEF IInv

\* The strengthened invariant is inductive, so it holds in every reachable state.
THEOREM Invariance == Spec => []IInv
<1>1. IInv /\ [Next]_vars => IInv'
  BY TypeStep, OwnedStep, BudgetStep, CoveredStep, TruthfulStep DEF IInv
<1> QED
  BY <1>1, InitInv, PTL DEF Spec

\* Every variable keeps its type.
THEOREM TypeCorrect == Spec => []TypeOK
BY Invariance, PTL DEF IInv

\* However many replies, activations and workers there are, and whatever crashes,
\* timeouts, lost answers, database errors and reports happen, a reply is posted
\* at most MaxRetries + 1 times and an activation at most once.
THEOREM SendsAreBounded == Spec => []BoundedSends
<1>1. IInv => BoundedSends
  <2> SUFFICES ASSUME IInv PROVE BoundedSends
    OBVIOUS
  <2>1. \A i \in Intents : delivered[i] <= RetriesOf(i) + 1
    BY RetriesOfType DEF IInv, TypeOK, Budget, Covered, AttemptsCoverSends
  <2>2. \A i \in Activations : RetriesOf(i) = 0
    BY ConstantAssumption DEF RetriesOf
  <2> QED
    BY <2>1, <2>2, ConstantAssumption DEF BoundedSends, RetriesOf, Intents, IInv, TypeOK
<1> QED
  BY <1>1, Invariance, PTL

\* attempt_count never lags behind the messages posted and the calls at large.
THEOREM AttemptsAccount == Spec => []AttemptsCoverSends
BY Invariance, PTL DEF IInv, Covered

\* A row that says sent belongs to an intent that was posted.
THEOREM SentIsTrue == Spec => []SentMeansDelivered
BY Invariance, PTL DEF IInv, Truthful

LEMMA UndisturbedInv == ~Reporting => (Spec => []Undisturbed)
<1> SUFFICES ASSUME ~Reporting PROVE Spec => []Undisturbed
  OBVIOUS
<1>1. Init => Undisturbed
  BY InitInv
<1>2. IInv /\ Undisturbed /\ [Next]_vars => Undisturbed'
  BY UndisturbedStep DEF IInv
<1> QED
  BY <1>1, <1>2, Invariance, PTL DEF Spec

-----------------------------------------------------------------------------
(* What a job leaves behind, with and without reports.                     *)

\* No crash, database error or "retrying" has disturbed the dispatch of the intent.
Quiet(i) == i \notin hit /\ "retrying" \notin reports[i]
Ended(i) == status[i] \in {"sent", "failed"}

\* A job that will not be run again has written how it ended, and so has the report
\* a session has found in the row: reports only exchange one end for the other.
Settling ==
  /\ SettledUnlessHit
  /\ \A i \in Intents : status[i] = "absent" => job[i] = "none"
  /\ \A w \in Workers : Busy(w) /\ Quiet(cur[w]) =>
       /\ pc[w] = "return" => Ended(cur[w])
       /\ pc[w] = "raise" /\ retries[cur[w]] = 0 => Ended(cur[w])
       /\ pc[w] = "call" /\ seen[w] \in {"sent", "failed"} => Ended(cur[w])

LEMMA SettlingStep == TypeOK /\ Owned /\ Settling /\ [Next]_vars => Settling'
<1> SUFFICES ASSUME TypeOK, Owned, Settling, [Next]_vars PROVE Settling'
  OBVIOUS
<1> USE DEF Settling, SettledUnlessHit, Quiet, Ended, Owned, Busy, Verdicts, Outcomes, TypeOK,
            dbVars, queueVars, workerVars, gatewayVars
<1>1. ASSUME NEW i \in Intents, Create(i) PROVE Settling'
  BY <1>1 DEF Create
<1>2. ASSUME NEW i \in Intents, Enqueue(i) PROVE Settling'
  BY <1>2 DEF Enqueue
<1>3. ASSUME NEW i \in Intents, EnqueueFails(i) PROVE Settling'
  BY <1>3 DEF EnqueueFails
<1>4. ASSUME NEW i \in Intents, ProducerCrash(i) PROVE Settling'
  BY <1>4 DEF ProducerCrash
<1>5. ASSUME NEW i \in Intents, Promote(i) PROVE Settling'
  BY <1>5 DEF Promote
<1>6. ASSUME NEW i \in Intents, AnswerNobody(i) PROVE Settling'
  BY <1>6 DEF AnswerNobody, Serve
<1>7. ASSUME NEW i \in Intents, Report(i) PROVE Settling'
  BY <1>7 DEF Report
<1>8. ASSUME NEW w \in Workers, NEW i \in Intents, Start(w, i) PROVE Settling'
  BY <1>8 DEF Start
<1>9. ASSUME NEW w \in Workers, Load(w) PROVE Settling'
  BY <1>9 DEF Load, Goto
<1>10. ASSUME NEW w \in Workers, MarkSending(w) PROVE Settling'
  BY <1>10 DEF MarkSending, Commit, Written, Goto
<1>11. ASSUME NEW w \in Workers, Timeout(w) PROVE Settling'
  BY <1>11 DEF Timeout
<1>12. ASSUME NEW w \in Workers, Settle(w) PROVE Settling'
  BY <1>12, SettledType DEF Settle, SettledStatus, SettledEnd, HasRetry, Commit, Written, Goto
<1>13. ASSUME NEW w \in Workers, End(w) PROVE Settling'
  BY <1>13 DEF End, JobFailed, Release
<1>14. ASSUME NEW w \in Workers, Crash(w) PROVE Settling'
  BY <1>14 DEF Crash, JobFailed, Release
<1>15. ASSUME NEW w \in Workers, DbError(w) PROVE Settling'
  BY <1>15, SettledType DEF DbError, FailRow, HalfCommit, Written, Goto
<1>16. ASSUME NEW w \in Workers, Answer(w) PROVE Settling'
  BY <1>16 DEF Answer, Serve
<1>17. CASE UNCHANGED vars
  BY <1>17 DEF vars
<1> QED
  BY <1>1, <1>2, <1>3, <1>4, <1>5, <1>6, <1>7, <1>8, <1>9, <1>10, <1>11, <1>12, <1>13, <1>14, <1>15, <1>16, <1>17 DEF Next, WorkerStep

\* When RQ is done with a job its intent says how it ended, unless a crash, a database
\* error or a "retrying" report came in between, whether the gateway reports or not.
THEOREM JobsSettle == Spec => []SettledUnlessHit
<1>1. Init => Settling
  BY DEF Init, Settling, SettledUnlessHit, Busy
<1>2. IInv /\ Settling /\ [Next]_vars => Settling'
  BY SettlingStep DEF IInv
<1>3. Settling => SettledUnlessHit
  BY DEF Settling
<1> QED
  BY <1>1, <1>2, <1>3, Invariance, PTL DEF Spec

-----------------------------------------------------------------------------
(* Consequences of a gateway that sends no reports.                        *)

LEMMA AttemptStep ==
  TypeOK /\ Owned /\ Undisturbed /\ [Next]_vars
    => [\A i \in Intents : attempts'[i] > attempts[i] => status[i] # "sent"]_vars
<1> SUFFICES ASSUME TypeOK, Owned, Undisturbed, [Next]_vars,
                    NEW i \in Intents, attempts'[i] > attempts[i]
             PROVE  status[i] # "sent"
  OBVIOUS
<1> USE DEF TypeOK, Owned, Busy, Undisturbed
<1>1. PICK w \in Workers : MarkSending(w) \/ DbError(w)
  BY DEF Next, vars, dbVars, WorkerStep, Create, Enqueue, EnqueueFails, ProducerCrash,
         Promote, AnswerNobody, Report, Start, Load, Timeout, Settle, End, Crash, Answer
<1>2. pc[w] = "mark" /\ i = cur[w]
  <2>1. CASE MarkSending(w)
    BY <2>1 DEF MarkSending
  <2>2. CASE DbError(w)
    BY <2>2 DEF DbError
  <2> QED
    BY <1>1, <2>1, <2>2
<1> QED
  BY <1>2

\* Without reports, no attempt is ever made for an intent recorded as sent, even
\* when the job of a sent intent is run again after a crash.
THEOREM SentIsNotRetried == ~Reporting => (Spec => NoAttemptOnceSent)
<1> SUFFICES ASSUME ~Reporting PROVE Spec => NoAttemptOnceSent
  OBVIOUS
<1> QED
  BY AttemptStep, Invariance, UndisturbedInv, PTL DEF Spec, IInv, NoAttemptOnceSent

-----------------------------------------------------------------------------
(* OutboundDispatch implements Outbox.                                     *)

LEMMA RefinementInit == Init => Box!Init
BY DEF Init, Box!Init, entryBar, EntryOf

\* A write of one row is a change of that entry of the abstract state.
LEMMA RowChange ==
  ASSUME TypeOK, NEW i \in Intents, NEW s \in Statuses,
         status' = [status EXCEPT ![i] = s], delivered' = delivered
  PROVE  /\ entryBar' = [entryBar EXCEPT ![i] = EntryOf(s)]
         /\ entryBar[i] = EntryOf(status[i])
         /\ Box!Becomes(i, EntryOf(s))
BY DEF TypeOK, entryBar, Box!Becomes

\* The writes of a dispatched row that Outbox allows: anything may be written off;
\* a row that is not sent may be open again; sent needs a posted message.
LEMMA RowWrite ==
  ASSUME TypeOK, NEW i \in Intents, NEW s \in {"sending", "sent", "failed"},
         status[i] # "absent",
         s = "sending" => status[i] # "sent",
         s = "sent" => delivered[i] > 0,
         status' = [status EXCEPT ![i] = s], delivered' = delivered
  PROVE  [Box!Next]_(Box!vars)
<1> USE DEF EntryOf
<1>1. /\ entryBar' = [entryBar EXCEPT ![i] = EntryOf(s)]
      /\ entryBar[i] = EntryOf(status[i])
      /\ Box!Becomes(i, EntryOf(s))
  BY RowChange DEF Statuses
<1>2. status[i] \in Statuses /\ entryBar \in [Intents -> {"absent", "open", "confirmed", "rejected"}]
  BY DEF TypeOK, Statuses, entryBar
<1>3. CASE s = "failed"
  BY <1>1, <1>2, <1>3 DEF Box!Next, Box!Reject, Statuses
<1>4. CASE s = "sent"
  BY <1>1, <1>2, <1>4 DEF Box!Next, Box!Confirm, Statuses
<1>5. CASE s = "sending" /\ status[i] = "failed"
  BY <1>1, <1>2, <1>5 DEF Box!Next, Box!Reopen, Statuses
<1>6. CASE s = "sending" /\ status[i] # "failed"
  <2>1. entryBar' = entryBar
    BY <1>1, <1>2, <1>6 DEF Statuses
  <2> QED
    BY <2>1 DEF Box!vars
<1> QED
  BY <1>3, <1>4, <1>5, <1>6

\* Serving a call posts within the limit or changes nothing.
LEMMA ServeStep ==
  ASSUME TypeOK, Budget, NEW i \in Intents, NEW outcome \in Outcomes,
         status[i] # "absent", delivered[i] < attempts[i],
         Serve(i, outcome), UNCHANGED status
  PROVE  [Box!Next]_(Box!vars)
<1>1. entryBar' = entryBar /\ entryBar[i] # "absent"
  BY DEF TypeOK, Statuses, entryBar, EntryOf
<1>2. CASE UNCHANGED delivered
  BY <1>1, <1>2 DEF Box!vars
<1>3. CASE delivered' = [delivered EXCEPT ![i] = @ + 1]
  <2>1. delivered[i] < limitBar[i]
    BY RetriesOfType, ConstantAssumption DEF TypeOK, Budget, limitBar, RetriesOf
  <2> QED
    BY <1>1, <1>3, <2>1 DEF Box!Next, Box!Post
<1> QED
  BY <1>2, <1>3 DEF Serve

LEMMA RefinementStep == IInv /\ Undisturbed /\ [Next]_vars => [Box!Next]_(Box!vars)
<1> SUFFICES ASSUME IInv, Undisturbed, [Next]_vars PROVE [Box!Next]_(Box!vars)
  OBVIOUS
<1> USE DEF IInv
<1>1. ASSUME UNCHANGED <<status, delivered>> PROVE [Box!Next]_(Box!vars)
  BY <1>1 DEF Box!vars, entryBar
<1>2. ASSUME NEW w \in Workers, Busy(w)
      PROVE  cur[w] \in Intents /\ status[cur[w]] # "absent"
  BY <1>2 DEF Owned, Undisturbed
<1>3. ASSUME NEW i \in Intents, Create(i) PROVE [Box!Next]_(Box!vars)
  <2>1. /\ entryBar[i] = EntryOf(status[i])
        /\ Box!Becomes(i, EntryOf("pending"))
    BY <1>3, RowChange DEF Create, gatewayVars, Statuses
  <2> QED
    BY <1>3, <2>1 DEF Create, EntryOf, Box!Next, Box!Submit
<1>4. ASSUME NEW i \in Intents, EnqueueFails(i) PROVE [Box!Next]_(Box!vars)
  <2>1. CASE UNCHANGED status
    BY <1>1, <1>4, <2>1 DEF EnqueueFails, gatewayVars
  <2>2. CASE status' = [status EXCEPT ![i] = "failed"]
    BY <1>4, <2>2, RowWrite DEF EnqueueFails, gatewayVars
  <2> QED
    BY <1>4, <2>1, <2>2 DEF EnqueueFails
<1>5. ASSUME NEW i \in Intents, AnswerNobody(i) PROVE [Box!Next]_(Box!vars)
  <2>1. delivered[i] < attempts[i] /\ status[i] # "absent"
    BY <1>5 DEF AnswerNobody, Covered, AttemptsCoverSends, Budget, Undisturbed, TypeOK
  <2> QED
    BY <1>5, <2>1, ServeStep DEF AnswerNobody, dbVars
<1>6. ASSUME NEW w \in Workers, Answer(w) PROVE [Box!Next]_(Box!vars)
  <2>1. cur[w] \in Intents /\ status[cur[w]] # "absent"
    BY <1>2, <1>6 DEF Answer, Busy
  <2>2. delivered[cur[w]] < attempts[cur[w]]
    BY <1>6, <2>1 DEF Answer, Covered, TypeOK
  <2> QED
    BY <1>6, <2>1, <2>2, ServeStep DEF Answer, dbVars
<1>7. ASSUME NEW w \in Workers, MarkSending(w) PROVE [Box!Next]_(Box!vars)
  <2>1. cur[w] \in Intents /\ status[cur[w]] \notin {"absent", "sent"}
    BY <1>2, <1>7 DEF MarkSending, Busy, Undisturbed
  <2>2. status' = [status EXCEPT ![cur[w]] = "sending"]
    BY <1>7 DEF MarkSending, Commit, Written, Undisturbed
  <2> QED
    BY <1>7, <2>1, <2>2, RowWrite DEF MarkSending, gatewayVars
<1>8. ASSUME NEW w \in Workers, Settle(w) PROVE [Box!Next]_(Box!vars)
  <2>1. /\ cur[w] \in Intents /\ status[cur[w]] = "sending"
        /\ status' = [status EXCEPT ![cur[w]] = SettledStatus(w)]
    BY <1>2, <1>8 DEF Settle, Busy, Commit, Written, Undisturbed
  <2>2. SettledStatus(w) = "sent" => delivered[cur[w]] > 0
    BY <1>8 DEF Settle, SettledStatus, Truthful
  <2> QED
    BY <1>8, <2>1, <2>2, SettledType, RowWrite DEF Settle, gatewayVars
<1>9. ASSUME NEW w \in Workers, DbError(w) PROVE [Box!Next]_(Box!vars)
  <2>1. cur[w] \in Intents /\ status[cur[w]] # "absent" /\ delivered' = delivered
    BY <1>2, <1>9 DEF DbError, Busy, gatewayVars
  <2>2. CASE status' = [status EXCEPT ![cur[w]] = "failed"]
    BY <2>1, <2>2, RowWrite
  <2>3. CASE pc[w] = "load" /\ status' = [status EXCEPT ![cur[w]] = status[cur[w]]]
    BY <1>1, <2>1, <2>3 DEF TypeOK
  <2>4. CASE /\ pc[w] = "mark"
             /\ \E applied \in BOOLEAN :
                  status' = [status EXCEPT ![cur[w]] = HalfCommit(w, "sending", applied)]
    <3>1. status[cur[w]] # "sent"
      BY <2>4 DEF Undisturbed
    <3>2. \/ status' = status
          \/ status' = [status EXCEPT ![cur[w]] = "sending"]
      BY <2>1, <2>4 DEF HalfCommit, Written, TypeOK
    <3> QED
      BY <1>1, <2>1, <3>1, <3>2, RowWrite
  <2>5. CASE /\ pc[w] = "call" /\ resp[w] # "none"
             /\ \E applied \in BOOLEAN :
                  status' = [status EXCEPT ![cur[w]] = HalfCommit(w, SettledStatus(w), applied)]
    <3>1. status[cur[w]] = "sending"
      BY <2>5 DEF Undisturbed
    <3>2. SettledStatus(w) = "sent" => delivered[cur[w]] > 0
      BY <2>5 DEF SettledStatus, Truthful
    <3>3. \/ status' = status
          \/ status' = [status EXCEPT ![cur[w]] = SettledStatus(w)]
      BY <2>1, <2>5, <3>1 DEF HalfCommit, Written, TypeOK, Undisturbed
    <3> QED
      BY <1>1, <2>1, <3>1, <3>2, <3>3, SettledType, RowWrite
  <2> QED
    <3>1. resp[w] = "ok" => SettledStatus(w) = "sent"
      BY DEF SettledStatus
    <3> QED
      BY <1>9, <2>2, <2>3, <2>4, <2>5, <3>1 DEF DbError, FailRow
<1>10. CASE UNCHANGED vars
  BY <1>1, <1>10 DEF vars, dbVars, gatewayVars
<1>11. ASSUME NEW i \in Intents, Report(i) PROVE FALSE
  BY <1>11 DEF Report, Undisturbed
<1>12. ASSUME NEW w \in Workers,
              \/ Load(w) \/ Timeout(w) \/ End(w) \/ Crash(w)
              \/ \E i \in Intents : Start(w, i)
       PROVE  UNCHANGED <<status, delivered>>
  BY <1>12 DEF Load, Timeout, End, Crash, Start, dbVars, gatewayVars
<1>13. ASSUME NEW i \in Intents, Enqueue(i) \/ ProducerCrash(i) \/ Promote(i)
       PROVE  UNCHANGED <<status, delivered>>
  BY <1>13 DEF Enqueue, ProducerCrash, Promote, dbVars, gatewayVars
<1> QED
  BY <1>1, <1>3, <1>4, <1>5, <1>6, <1>7, <1>8, <1>9, <1>10, <1>11, <1>12, <1>13
  DEF Next, WorkerStep

\* Without reports, the whole pipeline - producers, queue, workers, gateway, and
\* every failure modelled - implements Outbox.
THEOREM PipelineImplementsOutbox == ~Reporting => (Spec => ImplementsOutbox)
<1> SUFFICES ASSUME ~Reporting PROVE Spec => ImplementsOutbox
  OBVIOUS
<1> QED
  BY RefinementInit, RefinementStep, Invariance, UndisturbedInv, PTL
  DEF Spec, ImplementsOutbox, Box!Spec
=============================================================================
