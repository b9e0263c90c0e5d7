------------------------ MODULE InboundPipeline_proofs ------------------------
(***************************************************************************)
(* Proofs about InboundPipeline for every set of deliveries, events,       *)
(* messages, requests and workers.                                         *)
(***************************************************************************)
EXTENDS InboundPipeline, FiniteSetTheorems, TLAPS

-----------------------------------------------------------------------------
(* The parts of the inductive invariant.                                   *)

\* A request that is not idle carries a delivery, and the number it will write is
\* at most one above the latest, which only grows while it waits.
Carrying ==
  /\ \A r \in Requests : rpc[r] # "idle" => delivery[r] \in Deliveries
  /\ \A r \in Requests : rpc[r] = "write" => number[r] \in 1..(latest[MsgFor(delivery[r])] + 1)

\* A worker holds a message exactly while it runs the execution job.
Holding == \A w \in Workers : IF wpc[w] = "idle" THEN msg[w] = NoMsg ELSE msg[w] \in Msgs

\* The versions of a message bear the numbers up to the latest, each once.
Numbered ==
  /\ \A v \in versions : v.msg = MsgFor(v.by) /\ v.no <= latest[v.msg]
  /\ \A m \in Msgs : \A n \in 1..latest[m] : \E v \in versions : v.msg = m /\ v.no = n
  /\ \A u, v \in versions : u.msg = v.msg /\ u.no = v.no => u = v

\* A created event is only ever the first version of its message.
CreatedFirst ==
  /\ \A v \in versions : Kind[EventOf[v.by]] = "created" => v.no = 1
  /\ \A r \in Requests :
       rpc[r] = "write" /\ Kind[EventOf[delivery[r]]] = "created" => number[r] = 1

IInv == TypeOK /\ Carrying /\ Holding /\ Numbered /\ CreatedFirst /\ TriggersAccountedFor

-----------------------------------------------------------------------------
LEMMA MsgForType == \A d \in Deliveries : MsgFor(d) \in Msgs /\ EventOf[d] \in Events
BY ConstantAssumption DEF MsgFor

\* Only the five steps of a request touch the rows of the inbound tables.
LEMMA IngestSteps ==
  ASSUME [Next]_vars
  PROVE  \/ UNCHANGED ingestVars
         \/ \E r \in Requests : \/ Commit(r) \/ Reject(r) \/ Enqueue(r) \/ RequestFails(r)
                                \/ \E d \in Deliveries : Read(r, d)
BY DEF Next, RequestStep, WorkerStep, vars, Start, Load, Resolve, Reply, ExecutionFails,
       Bind, Unbind, BuildSucceeds

\* Only the five steps of a worker change what it holds.
LEMMA WorkerSteps ==
  ASSUME [Next]_vars
  PROVE  \/ UNCHANGED workerVars
         \/ \E w \in Workers : \/ Load(w) \/ Resolve(w) \/ Reply(w) \/ ExecutionFails(w)
                               \/ \E m \in Msgs : Start(w, m)
BY DEF Next, RequestStep, WorkerStep, vars, Read, Commit, Reject, Enqueue, RequestFails,
       Bind, Unbind, BuildSucceeds

\* Where no other version has the number a request computed, it is the next one.
LEMMA NewNumber ==
  ASSUME TypeOK, Carrying, Numbered, NEW r \in Requests, rpc[r] = "write", ~Conflict(r)
  PROVE  number[r] = latest[MsgFor(delivery[r])] + 1
<1> DEFINE m == MsgFor(delivery[r])
<1>1. m \in Msgs /\ latest[m] \in Nat /\ number[r] \in 1..(latest[m] + 1)
  BY MsgForType DEF Carrying, TypeOK
<1>2. number[r] \notin 1..latest[m]
  BY <1>1 DEF Conflict, Numbered, VersionsOf
<1> QED
  BY <1>1, <1>2

-----------------------------------------------------------------------------
LEMMA TypeStep == TypeOK /\ Carrying /\ Holding /\ [Next]_vars => TypeOK'
<1> SUFFICES ASSUME TypeOK, Carrying, Holding, [Next]_vars PROVE TypeOK'
  OBVIOUS
<1> USE DEF TypeOK, ingestVars, workerVars, bindingVars, replyVars, Free, Done
<1>1. ASSUME NEW r \in Requests, NEW d \in Deliveries, Read(r, d) PROVE TypeOK'
  <2>1. NextNumber(d) \in Nat
    BY MsgForType DEF NextNumber
  <2> QED
    BY <1>1, <2>1 DEF Read
<1>2. ASSUME NEW r \in Requests, rpc[r] = "write", Stored(r)
      PROVE  /\ versions' \subseteq [msg : Msgs, no : Nat \ {0}, by : Deliveries]
             /\ latest' \in [Msgs -> Nat]
  <2>1. MsgFor(delivery[r]) \in Msgs /\ number[r] \in Nat \ {0} /\ delivery[r] \in Deliveries
    BY <1>2, MsgForType DEF Carrying
  <2> QED
    BY <1>2, <2>1 DEF Stored
<1>3. ASSUME NEW r \in Requests, Commit(r) PROVE TypeOK'
  BY <1>2, <1>3 DEF Commit
<1>4. ASSUME NEW r \in Requests, Reject(r) PROVE TypeOK'
  BY <1>4 DEF Reject
<1>5. ASSUME NEW r \in Requests, Enqueue(r) PROVE TypeOK'
  <2>1. MsgFor(delivery[r]) \in Msgs
    BY <1>5, MsgForType DEF Enqueue, Carrying
  <2>2. pending' \in [Msgs -> Nat]
    BY <1>5, <2>1 DEF Enqueue
  <2> QED
    BY <1>5, <2>2 DEF Enqueue
<1>6. ASSUME NEW r \in Requests, RequestFails(r) PROVE TypeOK'
  <2>1. MsgFor(delivery[r]) \in Msgs
    BY <1>6, MsgForType DEF RequestFails, Carrying
  <2>2. pending[MsgFor(delivery[r])] + 1 \in Nat
    BY <2>1
  <2>3. pending' \in [Msgs -> Nat]
    BY <1>6, <2>1, <2>2 DEF RequestFails
  <2>4. /\ versions' \subseteq [msg : Msgs, no : Nat \ {0}, by : Deliveries]
        /\ latest' \in [Msgs -> Nat]
    BY <1>2, <1>6 DEF RequestFails
  <2> QED
    BY <1>6, <2>1, <2>3, <2>4 DEF RequestFails
<1>7. ASSUME NEW w \in Workers, NEW m \in Msgs, Start(w, m) PROVE TypeOK'
  BY <1>7 DEF Start
<1>8. ASSUME NEW w \in Workers, Load(w) PROVE TypeOK'
  BY <1>8 DEF Load, Holding
<1>9. ASSUME NEW w \in Workers, Resolve(w) PROVE TypeOK'
  BY <1>9 DEF Resolve, Holding
<1>10. ASSUME NEW w \in Workers, Reply(w) PROVE TypeOK'
  <2>1. replies' \in [Msgs -> Nat] /\ covered' \in [Msgs -> Nat]
    BY <1>10 DEF Reply, Holding
  <2> QED
    BY <1>10, <2>1 DEF Reply
<1>11. ASSUME NEW w \in Workers, ExecutionFails(w) PROVE TypeOK'
  <2>1. replies' \in [Msgs -> Nat] /\ covered' \in [Msgs -> Nat]
    BY <1>11 DEF ExecutionFails, Holding
  <2> QED
    BY <1>11, <2>1 DEF ExecutionFails, Holding
<1>12. ASSUME NEW b \in Bindings, Bind(b) \/ BuildSucceeds(b) PROVE TypeOK'
  BY <1>12 DEF Bind, BuildSucceeds
<1>13. CASE Unbind
  BY <1>13 DEF Unbind
<1>14. CASE UNCHANGED vars
  BY <1>14 DEF vars
<1> QED
  BY <1>1, <1>3, <1>4, <1>5, <1>6, <1>7, <1>8, <1>9, <1>10, <1>11, <1>12, <1>13, <1>14
     DEF Next, RequestStep, WorkerStep

LEMMA HoldingStep == TypeOK /\ Holding /\ [Next]_vars => Holding'
<1> SUFFICES ASSUME TypeOK, Holding, [Next]_vars PROVE Holding'
  OBVIOUS
<1> USE DEF TypeOK, Holding, Done
<1>1. CASE UNCHANGED workerVars
  BY <1>1 DEF workerVars
<1>2. ASSUME NEW w \in Workers, NEW m \in Msgs, Start(w, m) PROVE Holding'
  BY <1>2 DEF Start
<1>3. ASSUME NEW w \in Workers, Load(w) PROVE Holding'
  BY <1>3 DEF Load
<1>4. ASSUME NEW w \in Workers, Resolve(w) PROVE Holding'
  BY <1>4 DEF Resolve
<1>5. ASSUME NEW w \in Workers, Reply(w) PROVE Holding'
  BY <1>5 DEF Reply
<1>6. ASSUME NEW w \in Workers, ExecutionFails(w) PROVE Holding'
  BY <1>6 DEF ExecutionFails
<1> QED
  BY WorkerSteps, <1>1, <1>2, <1>3, <1>4, <1>5, <1>6

\* The rows and the requests' places: what stays true of them while requests read,
\* write and fail in any order.
IngestInv == Carrying /\ Numbered /\ CreatedFirst

\* The request moves on to the enqueue or is answered.
Leaves(r) == \/ Free(r)
             \/ rpc' = [rpc EXCEPT ![r] = "enqueue"] /\ UNCHANGED <<delivery, number>>

LEMMA StoreStep ==
  ASSUME TypeOK, IngestInv, NEW r \in Requests, rpc[r] = "write", ~Conflict(r), Stored(r)
  PROVE  /\ Numbered'
         /\ \A v \in versions' : Kind[EventOf[v.by]] = "created" => v.no = 1
         /\ \A m \in Msgs : latest'[m] >= latest[m]
<1> DEFINE m == MsgFor(delivery[r])
           n == latest[m] + 1
           new == [msg |-> m, no |-> n, by |-> delivery[r]]
<1>1. /\ m \in Msgs /\ delivery[r] \in Deliveries /\ latest[m] \in Nat /\ number[r] = n
      /\ latest' = [latest EXCEPT ![m] = n] /\ versions' = versions \cup {new}
  BY MsgForType, NewNumber DEF IngestInv, Carrying, TypeOK, Stored
<1>2. \A v \in versions : /\ v.msg \in Msgs /\ v.no \in Nat
                          /\ v.msg = MsgFor(v.by) /\ v.no <= latest[v.msg]
  BY DEF IngestInv, Numbered, TypeOK
<1>3. \A k \in Msgs : latest'[k] = (IF k = m THEN n ELSE latest[k]) /\ latest[k] \in Nat
  BY <1>1 DEF TypeOK
<1> HIDE DEF m, n
<1>4. new.msg = m /\ new.no = n /\ new.by = delivery[r]
  OBVIOUS
<1>5. \A v \in versions' : v.msg = MsgFor(v.by) /\ v.no <= latest'[v.msg]
  BY <1>1, <1>2, <1>3, <1>4 DEF m, n
<1>6. ASSUME NEW k \in Msgs, NEW i \in 1..latest'[k]
      PROVE  \E v \in versions' : v.msg = k /\ v.no = i
  <2>1. CASE i \in 1..latest[k]
    BY <1>1, <2>1 DEF IngestInv, Numbered
  <2>2. CASE i \notin 1..latest[k]
    <3>1. k = m /\ i = n
      BY <1>3, <2>2, <1>6 DEF n
    <3> QED
      BY <1>1, <1>4, <3>1
  <2> QED
    BY <2>1, <2>2
<1>7. \A u, v \in versions' : u.msg = v.msg /\ u.no = v.no => u = v
  <2>1. \A v \in versions : v.msg = m => v.no # n
    BY <1>1, <1>2 DEF n
  <2> QED
    BY <1>1, <1>4, <2>1 DEF IngestInv, Numbered
<1>8. \A v \in versions' : Kind[EventOf[v.by]] = "created" => v.no = 1
  BY <1>1, <1>4 DEF IngestInv, CreatedFirst
<1>9. \A k \in Msgs : latest'[k] >= latest[k]
  BY <1>3 DEF n
<1> QED
  BY <1>5, <1>6, <1>7, <1>8, <1>9 DEF Numbered

LEMMA IngestStep == TypeOK /\ IngestInv /\ [Next]_vars => IngestInv'
<1> SUFFICES ASSUME TypeOK, IngestInv, [Next]_vars PROVE IngestInv'
  OBVIOUS
<1> USE DEF IngestInv
<1>1. CASE UNCHANGED ingestVars
  BY <1>1 DEF ingestVars, Carrying, Numbered, CreatedFirst
\* A created event is read as long as its message has no row.
<1>2. ASSUME NEW r \in Requests, NEW d \in Deliveries, Read(r, d) PROVE IngestInv'
  <2>1. MsgFor(d) \in Msgs /\ latest[MsgFor(d)] \in Nat
    BY MsgForType DEF TypeOK
  <2>2. Numbered'
    BY <1>2 DEF Read, Numbered
  <2>3. Carrying' /\ CreatedFirst'
    BY <1>2, <2>1 DEF Read, Carrying, CreatedFirst, NextNumber, Deduped, TypeOK
  <2> QED
    BY <2>2, <2>3
\* A request that leaves "write" without a commit leaves the rows alone.
<1>3. ASSUME NEW r \in Requests, Leaves(r), rpc[r] # "idle",
             \A m \in Msgs : latest'[m] >= latest[m] /\ latest'[m] \in Nat
      PROVE  /\ Carrying'
             /\ \A q \in Requests : rpc'[q] = "write"
                    /\ Kind[EventOf[delivery'[q]]] = "created" => number'[q] = 1
  <2>1. \A q \in Requests : rpc'[q] = "write" => /\ rpc[q] = "write" /\ number'[q] = number[q]
                                                 /\ delivery'[q] = delivery[q]
    BY <1>3 DEF Leaves, Free, TypeOK
  <2>2. \A q \in Requests : rpc'[q] # "idle" => rpc[q] # "idle" /\ delivery'[q] = delivery[q]
    BY <1>3 DEF Leaves, Free, TypeOK
  <2>3. \A q \in Requests : rpc[q] = "write" => delivery[q] \in Deliveries
                                                /\ MsgFor(delivery[q]) \in Msgs
    BY MsgForType DEF Carrying
  <2>4. ASSUME NEW q \in Requests, rpc'[q] = "write"
        PROVE  number'[q] \in 1..(latest'[MsgFor(delivery'[q])] + 1)
    <3> DEFINE k == MsgFor(delivery[q])
    <3>1. k \in Msgs /\ latest[k] \in Nat /\ latest'[k] \in Nat /\ latest'[k] >= latest[k]
      BY <1>3, <2>1, <2>3, <2>4 DEF TypeOK
    <3>2. number[q] \in 1..(latest[k] + 1)
      BY <2>1, <2>4 DEF Carrying
    <3> QED
      BY <2>1, <2>4, <3>1, <3>2 DEF MsgFor
  <2> QED
    BY <2>1, <2>2, <2>4 DEF Carrying, CreatedFirst
<1>4. ASSUME NEW r \in Requests, rpc[r] = "write", ~Conflict(r), Stored(r)
      PROVE  \A m \in Msgs : latest'[m] >= latest[m] /\ latest'[m] \in Nat
  <2>1. number[r] \in Nat
    BY DEF TypeOK
  <2>2. latest' \in [Msgs -> Nat]
    BY <1>4, <2>1 DEF Stored, TypeOK
  <2> QED
    BY <1>4, <2>2, StoreStep
<1>5. ASSUME UNCHANGED <<latest, versions>>
      PROVE  Numbered' /\ \A m \in Msgs : latest'[m] >= latest[m] /\ latest'[m] \in Nat
  BY <1>5 DEF Numbered, TypeOK
\* A request that has stored its version leaves "write" as well.
<1>6. ASSUME NEW r \in Requests, rpc[r] = "write", ~Conflict(r), Stored(r), Leaves(r)
      PROVE  IngestInv'
  <2>1. \A m \in Msgs : latest'[m] >= latest[m] /\ latest'[m] \in Nat
    BY <1>4, <1>6
  <2>2. rpc[r] # "idle"
    BY <1>6
  <2>3. /\ Carrying'
        /\ \A q \in Requests : rpc'[q] = "write"
              /\ Kind[EventOf[delivery'[q]]] = "created" => number'[q] = 1
    BY ONLY <1>3, <1>6, <2>1, <2>2
  <2>4. /\ Numbered'
        /\ \A v \in versions' : Kind[EventOf[v.by]] = "created" => v.no = 1
    BY StoreStep, <1>6
  <2> QED
    BY <2>3, <2>4 DEF CreatedFirst
<1>7. ASSUME NEW r \in Requests, rpc[r] # "idle", Leaves(r),
             UNCHANGED <<latest, versions>>
      PROVE  IngestInv'
  <2>1. Numbered' /\ \A m \in Msgs : latest'[m] >= latest[m] /\ latest'[m] \in Nat
    BY <1>5, <1>7
  <2>2. /\ Carrying'
        /\ \A q \in Requests : rpc'[q] = "write"
              /\ Kind[EventOf[delivery'[q]]] = "created" => number'[q] = 1
    BY ONLY <1>3, <1>7, <2>1
  <2> QED
    BY <1>7, <2>1, <2>2 DEF CreatedFirst
<1>8. ASSUME NEW r \in Requests, Commit(r) \/ Reject(r) \/ Enqueue(r) \/ RequestFails(r)
      PROVE  IngestInv'
  <2>1. CASE Commit(r)
    <3>1. rpc[r] = "write" /\ ~Conflict(r) /\ Stored(r) /\ Leaves(r)
      BY <2>1 DEF Commit, Leaves
    <3> QED
      BY <1>6, <3>1
  <2>2. CASE Reject(r) \/ Enqueue(r)
    <3>1. rpc[r] # "idle" /\ Leaves(r) /\ UNCHANGED <<latest, versions>>
      BY <2>2 DEF Reject, Enqueue, Leaves
    <3> QED
      BY <1>7, <3>1
  <2>3. CASE RequestFails(r)
    <3>1. rpc[r] # "idle" /\ Leaves(r)
      BY <2>3 DEF RequestFails, Leaves
    <3>2. \/ UNCHANGED <<latest, versions>>
          \/ rpc[r] = "write" /\ ~Conflict(r) /\ Stored(r)
      BY <2>3 DEF RequestFails
    <3> QED
      BY <1>6, <1>7, <3>1, <3>2
  <2> QED
    BY <1>8, <2>1, <2>2, <2>3
<1> QED
  BY IngestSteps, <1>1, <1>2, <1>8

-----------------------------------------------------------------------------
\* What TriggersAccountedFor says of one stored version.
Accounted(v) ==
  \/ covered[v.msg] >= v.no
  \/ pending[v.msg] > 0
  \/ \E r \in Requests : rpc[r] = "enqueue" /\ delivery[r] = v.by
  \/ \E w \in Workers : msg[w] = v.msg /\ (wpc[w] = "load" \/ read[w] >= v.no)

LEMMA TriggerStep == IInv /\ [Next]_vars => TriggersAccountedFor'
<1> SUFFICES ASSUME IInv, [Next]_vars,
                    NEW v \in versions', Executes(v.by), v.msg \notin excused'
             PROVE  Accounted(v)'
  BY DEF TriggersAccountedFor, Accounted, Executes
<1>1. \A u \in versions : /\ u.msg \in Msgs /\ u.no \in Nat /\ u.by \in Deliveries
                          /\ u.msg = MsgFor(u.by) /\ u.no <= latest[u.msg]
  BY DEF IInv, TypeOK, Numbered
\* A version stored before was accounted for, unless its message is excused.
<1>2. v \in versions /\ v.msg \notin excused => Accounted(v)
  BY DEF IInv, TriggersAccountedFor, Accounted
<1>3. IngestInv' /\ TypeOK' /\ TypeOK
  BY IngestStep, TypeStep DEF IInv, IngestInv
<1> USE DEF ingestVars, workerVars, bindingVars, replyVars
<1>4. ASSUME NEW r \in Requests, NEW d \in Deliveries, Read(r, d) PROVE Accounted(v)'
  BY <1>2, <1>3, <1>4 DEF Read, Accounted, TypeOK
\* The request that has stored a trigger is the one that will enqueue it.
<1>5. ASSUME NEW r \in Requests, Commit(r) PROVE Accounted(v)'
  <2>1. CASE v \in versions
    <3>1. rpc[r] = "write" /\ UNCHANGED <<excused, covered, pending, msg, wpc, read>>
      BY <1>5 DEF Commit
    <3>2. \A q \in Requests : rpc[q] = "enqueue" => rpc'[q] = "enqueue"
                                                    /\ delivery'[q] = delivery[q]
      BY <1>3, <1>5, <3>1 DEF Commit, Free, TypeOK
    <3> QED
      BY <1>2, <2>1, <3>1, <3>2 DEF Accounted
  <2>2. CASE v \notin versions
    <3>1. v.by = delivery[r]
      BY <1>5, <2>2 DEF Commit, Stored
    <3>2. rpc' = [rpc EXCEPT ![r] = "enqueue"] /\ UNCHANGED delivery
      BY <1>5, <3>1 DEF Commit
    <3> QED
      BY <1>3, <3>1, <3>2 DEF Accounted, TypeOK
  <2> QED
    BY <2>1, <2>2
<1>6. ASSUME NEW r \in Requests, Reject(r) PROVE Accounted(v)'
  BY <1>2, <1>3, <1>6 DEF Reject, Free, Accounted, TypeOK
<1>7. ASSUME NEW r \in Requests, Enqueue(r) PROVE Accounted(v)'
  <2>1. /\ rpc[r] = "enqueue" /\ Free(r) /\ v \in versions /\ v.msg \notin excused
        /\ UNCHANGED <<covered, msg, wpc, read>>
        /\ pending' = [pending EXCEPT ![MsgFor(delivery[r])] = @ + 1]
    BY <1>7 DEF Enqueue
  <2>2. v.msg \in Msgs /\ v.msg = MsgFor(v.by)
    BY <1>1, <2>1
  <2>3. CASE delivery[r] = v.by
    BY <1>3, <2>1, <2>2, <2>3 DEF Accounted, TypeOK
  <2>4. CASE delivery[r] # v.by
    <3>1. pending[v.msg] > 0 => pending'[v.msg] > 0
      BY <1>3, <2>1, <2>2 DEF TypeOK
    <3>2. \A q \in Requests : q # r => rpc'[q] = rpc[q] /\ delivery'[q] = delivery[q]
      BY <1>3, <2>1 DEF Free, TypeOK
    <3> QED
      BY <1>2, <2>1, <2>4, <3>1, <3>2 DEF Accounted
  <2> QED
    BY <2>3, <2>4
\* A request that fails excuses its message.
<1>8. ASSUME NEW r \in Requests, RequestFails(r) PROVE Accounted(v)'
  <2>1. /\ rpc[r] # "idle" /\ Free(r) /\ excused' = excused \cup {MsgFor(delivery[r])}
        /\ UNCHANGED <<covered, msg, wpc, read>>
        /\ \/ UNCHANGED pending
           \/ pending' = [pending EXCEPT ![MsgFor(delivery[r])] = @ + 1]
    BY <1>8 DEF RequestFails
  <2>2. v.msg = MsgFor(v.by) /\ v.msg # MsgFor(delivery[r]) /\ v.msg \notin excused
    BY <1>3, <2>1 DEF IngestInv, Numbered, MsgFor
  <2>3. v \in versions
    BY <1>8, <2>2 DEF RequestFails, Stored
  <2>4. v.msg \in Msgs /\ pending'[v.msg] = pending[v.msg]
    BY <1>1, <1>3, <2>1, <2>2, <2>3 DEF TypeOK
  <2>5. \A q \in Requests : q # r => rpc'[q] = rpc[q] /\ delivery'[q] = delivery[q]
    BY <1>3, <2>1 DEF Free, TypeOK
  <2>6. delivery[r] # v.by
    BY <2>2
  <2> QED
    BY <1>2, <2>1, <2>2, <2>3, <2>4, <2>5, <2>6 DEF Accounted
<1>9. ASSUME NEW w \in Workers, NEW m \in Msgs, Start(w, m) PROVE Accounted(v)'
  <2>1. /\ wpc[w] = "idle" /\ v \in versions /\ v.msg \notin excused /\ msg[w] = NoMsg
        /\ UNCHANGED <<covered, rpc, delivery, read>>
    BY <1>9 DEF Start, IInv, Holding
  <2>2. v.msg \in Msgs
    BY <1>1, <2>1
  <2>3. CASE m = v.msg
    BY <1>3, <1>9, <2>3 DEF Start, Accounted, TypeOK
  <2>4. CASE m # v.msg
    <3>1. pending'[v.msg] = pending[v.msg]
      BY <1>3, <1>9, <2>2, <2>4 DEF Start, TypeOK
    <3>2. \A x \in Workers : msg[x] = v.msg => msg'[x] = msg[x] /\ wpc'[x] = wpc[x]
      BY <1>3, <1>9, <2>1, <2>2, ConstantAssumption DEF Start, TypeOK
    <3> QED
      BY <1>2, <2>1, <3>1, <3>2 DEF Accounted
  <2> QED
    BY <2>3, <2>4
\* A worker that loads the message sees the version that is stored.
<1>10. ASSUME NEW w \in Workers, Load(w) PROVE Accounted(v)'
  <2>1. /\ v \in versions /\ v.msg \notin excused
        /\ UNCHANGED <<covered, pending, rpc, delivery, msg>>
        /\ read' = [read EXCEPT ![w] = latest[msg[w]]]
        /\ wpc' = [wpc EXCEPT ![w] = "resolve"]
    BY <1>10 DEF Load
  <2>2. \A x \in Workers : msg[x] = v.msg /\ (wpc[x] = "load" \/ read[x] >= v.no)
                            => wpc'[x] = "load" \/ read'[x] >= v.no
    BY <1>1, <1>3, <2>1 DEF TypeOK
  <2> QED
    BY <1>2, <2>1, <2>2 DEF Accounted
<1>11. ASSUME NEW w \in Workers, Resolve(w) PROVE Accounted(v)'
  <2>1. /\ v \in versions /\ v.msg \notin excused /\ wpc[w] = "resolve"
        /\ UNCHANGED <<covered, pending, rpc, delivery>>
    BY <1>11 DEF Resolve
  <2>2. \A x \in Workers : msg[x] = v.msg /\ (wpc[x] = "load" \/ read[x] >= v.no)
          => msg'[x] = v.msg /\ (wpc'[x] = "load" \/ read'[x] >= v.no)
    BY <1>3, <1>11, <2>1 DEF Resolve, Done, TypeOK
  <2> QED
    BY <1>2, <2>1, <2>2 DEF Accounted
\* The reply covers whatever the worker had read.
<1>12. ASSUME NEW w \in Workers, Reply(w) PROVE Accounted(v)'
  <2>1. /\ v \in versions /\ v.msg \notin excused /\ wpc[w] = "agent" /\ Done(w)
        /\ UNCHANGED <<pending, rpc, delivery>>
        /\ covered' = [covered EXCEPT ![msg[w]] = IF @ < read[w] THEN read[w] ELSE @]
    BY <1>12 DEF Reply
  <2>2. v.msg \in Msgs /\ v.no \in Nat /\ covered[v.msg] \in Nat /\ read[w] \in Nat
    BY <1>1, <1>3, <2>1 DEF TypeOK
  <2>3. covered[v.msg] >= v.no => covered'[v.msg] >= v.no
    BY <1>3, <2>1, <2>2 DEF TypeOK
  <2>4. msg[w] = v.msg /\ read[w] >= v.no => covered'[v.msg] >= v.no
    BY <1>3, <2>1, <2>2 DEF TypeOK
  <2>5. \A x \in Workers : x # w => msg'[x] = msg[x] /\ wpc'[x] = wpc[x] /\ read'[x] = read[x]
    BY <1>3, <2>1 DEF Done, TypeOK
  <2> QED
    BY <1>2, <2>1, <2>3, <2>4, <2>5 DEF Accounted
<1>13. ASSUME NEW w \in Workers, ExecutionFails(w) PROVE Accounted(v)'
  <2>1. /\ v \in versions /\ v.msg \notin excused /\ v.msg # msg[w] /\ Done(w)
        /\ UNCHANGED <<pending, rpc, delivery, covered>>
    BY <1>13 DEF ExecutionFails
  <2>2. \A x \in Workers : x # w => msg'[x] = msg[x] /\ wpc'[x] = wpc[x] /\ read'[x] = read[x]
    BY <1>3, <2>1 DEF Done, TypeOK
  <2> QED
    BY <1>2, <2>1, <2>2 DEF Accounted
<1>14. CASE \/ \E b \in Bindings : Bind(b) \/ BuildSucceeds(b)
            \/ Unbind \/ UNCHANGED vars
  <2>1. UNCHANGED <<ingestVars, pending, workerVars, covered, excused>>
    BY <1>14 DEF Bind, BuildSucceeds, Unbind, vars
  <2> QED
    BY <1>2, <2>1 DEF Accounted
<1> QED
  BY <1>4, <1>5, <1>6, <1>7, <1>8, <1>9, <1>10, <1>11, <1>12, <1>13, <1>14
     DEF Next, RequestStep, WorkerStep

-----------------------------------------------------------------------------
LEMMA InitIInv == Init => IInv
BY DEF Init, IInv, TypeOK, Carrying, Holding, Numbered, CreatedFirst, TriggersAccountedFor

\* Every reachable state satisfies the inductive invariant.
THEOREM Invariance == Spec => []IInv
<1>1. IInv /\ [Next]_vars => IInv'
  BY TypeStep, HoldingStep, IngestStep, TriggerStep DEF IInv, IngestInv
<1> QED
  BY InitIInv, <1>1, PTL DEF Spec

\* The state of requests, rows, queue and workers stays within TypeOK.
THEOREM TypeCorrect == Spec => []TypeOK
<1>1. IInv => TypeOK
  BY DEF IInv
<1> QED
  BY Invariance, <1>1, PTL

\* The version history of persist_inbound_event has no gap and no number twice,
\* although requests compute the numbers from rows they read without a lock.
THEOREM HistoryHasNoGaps == Spec => []VersionHistory
<1>1. ASSUME IInv PROVE VersionHistory
  <2> SUFFICES ASSUME NEW m \in Msgs
               PROVE  /\ {v.no : v \in VersionsOf(m)} = 1..latest[m]
                      /\ \A u, v \in VersionsOf(m) : u.no = v.no => u = v
    BY DEF VersionHistory
  <2>1. \A v \in VersionsOf(m) : v \in versions /\ v.msg = m /\ v.no \in Nat \ {0}
                                 /\ v.no <= latest[m]
    BY <1>1 DEF IInv, TypeOK, Numbered, VersionsOf
  <2>2. \A n \in 1..latest[m] : \E v \in VersionsOf(m) : v.no = n
    BY <1>1 DEF IInv, Numbered, VersionsOf
  <2>3. latest[m] \in Nat
    BY <1>1 DEF IInv, TypeOK
  <2>4. {v.no : v \in VersionsOf(m)} \subseteq 1..latest[m]
    BY <2>1, <2>3
  <2>5. 1..latest[m] \subseteq {v.no : v \in VersionsOf(m)}
    BY <2>2
  <2>6. \A u, v \in VersionsOf(m) : u.no = v.no => u = v
    BY <1>1, <2>1 DEF IInv, Numbered
  <2> QED
    BY <2>4, <2>5, <2>6
<1> QED
  BY Invariance, <1>1, PTL

\* However many requests deliver a created event at once, one of them at most is
\* stored.
THEOREM CreatedStoredOnce == Spec => []CreatedOnce
<1>1. ASSUME IInv PROVE CreatedOnce
  <2>1. \A v \in versions : v.msg = MsgOf[EventOf[v.by]]
    BY <1>1 DEF IInv, Numbered, MsgFor
  <2> QED
    BY <1>1, <2>1 DEF IInv, CreatedFirst, Numbered, CreatedOnce
<1> QED
  BY Invariance, <1>1, PTL

\* No stored trigger is forgotten or answered from an older text, unless a failure
\* or a missing binding excused its message.
THEOREM TriggersAreNotForgotten == Spec => []TriggersAccountedFor
<1>1. IInv => TriggersAccountedFor
  BY DEF IInv
<1> QED
  BY Invariance, <1>1, PTL
-----------------------------------------------------------------------------
(* Replies, running jobs, queue entries and requests about to enqueue are  *)
(* counted against the stored triggers of their message.                   *)

Holders(m)   == {w \in Workers : msg[w] = m}
Enqueuers(m) == {r \in Requests : rpc[r] = "enqueue" /\ MsgFor(delivery[r]) = m}

\* However many threads and workers there are, only finitely many are ever busy.
Backed(m) ==
  /\ IsFiniteSet(Holders(m)) /\ IsFiniteSet(Enqueuers(m)) /\ IsFiniteSet(TriggersOf(m))
  /\ replies[m] + Cardinality(Holders(m)) + pending[m] + Cardinality(Enqueuers(m))
       <= Cardinality(TriggersOf(m))

AllBacked == \A m \in Msgs : Backed(m)

LEMMA OneMore ==
  ASSUME NEW S, NEW x, IsFiniteSet(S), x \notin S
  PROVE  IsFiniteSet(S \cup {x}) /\ Cardinality(S \cup {x}) = Cardinality(S) + 1
BY FS_AddElement

LEMMA OneLess ==
  ASSUME NEW S, NEW x, IsFiniteSet(S)
  PROVE  /\ IsFiniteSet(S \ {x}) /\ Cardinality(S \ {x}) <= Cardinality(S)
         /\ x \in S => Cardinality(S \ {x}) = Cardinality(S) - 1
<1>1. Cardinality(S) \in Nat
  BY FS_CardinalityType
<1> QED
  BY <1>1, FS_RemoveElement

LEMMA BackedNats ==
  ASSUME TypeOK, NEW m \in Msgs, Backed(m)
  PROVE  /\ replies[m] \in Nat /\ pending[m] \in Nat
         /\ Cardinality(Holders(m)) \in Nat /\ Cardinality(Enqueuers(m)) \in Nat
         /\ Cardinality(TriggersOf(m)) \in Nat
BY FS_CardinalityType DEF TypeOK, Backed

\* A step of a request: it leaves the enqueue, and its job may be queued then, or it
\* enters it with a version of its own.
LEMMA RequestBacked ==
  ASSUME TypeOK, NEW m \in Msgs, Backed(m), NEW r \in Requests, NEW x,
         Holders(m)' = Holders(m), replies'[m] = replies[m],
         \/ /\ Enqueuers(m)' \in {Enqueuers(m), Enqueuers(m) \ {r}} /\ pending'[m] = pending[m]
            /\ TriggersOf(m)' \in {TriggersOf(m), TriggersOf(m) \cup {x}}
         \/ /\ r \in Enqueuers(m) /\ Enqueuers(m)' = Enqueuers(m) \ {r} /\ pending'[m] = pending[m] + 1
            /\ TriggersOf(m)' = TriggersOf(m)
         \/ /\ r \notin Enqueuers(m) /\ Enqueuers(m)' = Enqueuers(m) \cup {r} /\ pending'[m] = pending[m]
            /\ x \notin TriggersOf(m) /\ TriggersOf(m)' = TriggersOf(m) \cup {x}
  PROVE  Backed(m)'
<1> DEFINE E == Enqueuers(m)
           T == TriggersOf(m)
           H == Holders(m)
<1>1. /\ IsFiniteSet(E) /\ IsFiniteSet(T) /\ IsFiniteSet(H)
      /\ replies[m] + Cardinality(H) + pending[m] + Cardinality(E) <= Cardinality(T)
      /\ replies[m] \in Nat /\ pending[m] \in Nat
      /\ Cardinality(H) \in Nat /\ Cardinality(E) \in Nat /\ Cardinality(T) \in Nat
  BY BackedNats DEF Backed
<1>2. /\ IsFiniteSet(E \ {r}) /\ Cardinality(E \ {r}) \in Nat /\ Cardinality(E \ {r}) <= Cardinality(E)
      /\ r \in E => Cardinality(E \ {r}) = Cardinality(E) - 1
  BY <1>1, OneLess, FS_CardinalityType
<1>3. r \notin E => IsFiniteSet(E \cup {r}) /\ Cardinality(E \cup {r}) = Cardinality(E) + 1
  BY <1>1, OneMore
<1>4. /\ IsFiniteSet(T \cup {x}) /\ Cardinality(T \cup {x}) \in Nat
      /\ Cardinality(T) <= Cardinality(T \cup {x})
      /\ x \notin T => Cardinality(T \cup {x}) = Cardinality(T) + 1
  <2>1. CASE x \in T
    <3>1. T \cup {x} = T
      BY <2>1
    <3> QED
      BY <1>1, <2>1, <3>1
  <2>2. CASE x \notin T
    BY <1>1, <2>2, OneMore
  <2> QED
    BY <2>1, <2>2
<1> HIDE DEF E, T, H
<1>5. Backed(m)' <=> /\ IsFiniteSet(H') /\ IsFiniteSet(E') /\ IsFiniteSet(T')
                     /\ replies'[m] + Cardinality(H') + pending'[m] + Cardinality(E') <= Cardinality(T')
  BY DEF Backed, E, T, H
<1>6. H' = H /\ replies'[m] = replies[m]
  BY DEF H
<1>7. CASE /\ E' \in {E, E \ {r}} /\ pending'[m] = pending[m]
           /\ T' \in {T, T \cup {x}}
  <2>1. IsFiniteSet(E') /\ Cardinality(E') \in Nat /\ Cardinality(E') <= Cardinality(E)
    <3>1. CASE E' = E
      BY <1>1, <3>1
    <3>2. CASE E' = E \ {r}
      BY <1>2, <3>2
    <3> QED
      BY <1>7, <3>1, <3>2
  <2>2. IsFiniteSet(T') /\ Cardinality(T') \in Nat /\ Cardinality(T) <= Cardinality(T')
    <3>1. CASE T' = T
      BY <1>1, <3>1
    <3>2. CASE T' = T \cup {x}
      BY <1>4, <3>2
    <3> QED
      BY <1>7, <3>1, <3>2
  <2> QED
    BY <1>1, <1>5, <1>6, <1>7, <2>1, <2>2
<1>8. CASE r \in E /\ E' = E \ {r} /\ pending'[m] = pending[m] + 1 /\ T' = T
  BY <1>1, <1>2, <1>5, <1>6, <1>8
<1>9. CASE /\ r \notin E /\ E' = E \cup {r} /\ pending'[m] = pending[m]
           /\ x \notin T /\ T' = T \cup {x}
  BY <1>1, <1>3, <1>4, <1>5, <1>6, <1>9
<1> QED
  BY <1>7, <1>8, <1>9 DEF E, T

\* A step of a worker: it takes a job, it drops one, or a reply is made of it.
LEMMA WorkerBacked ==
  ASSUME TypeOK, NEW m \in Msgs, Backed(m), NEW w \in Workers,
         Enqueuers(m)' = Enqueuers(m), TriggersOf(m)' = TriggersOf(m),
         \/ /\ Holders(m)' \in {Holders(m), Holders(m) \ {w}} /\ pending'[m] = pending[m]
            /\ replies'[m] = replies[m]
         \/ /\ w \in Holders(m) /\ Holders(m)' = Holders(m) \ {w} /\ pending'[m] = pending[m]
            /\ replies'[m] = replies[m] + 1
         \/ /\ w \notin Holders(m) /\ Holders(m)' = Holders(m) \cup {w} /\ pending'[m] = pending[m] - 1
            /\ replies'[m] = replies[m]
  PROVE  Backed(m)'
<1> DEFINE E == Enqueuers(m)
           T == TriggersOf(m)
           H == Holders(m)
<1>1. /\ IsFiniteSet(E) /\ IsFiniteSet(T) /\ IsFiniteSet(H)
      /\ replies[m] + Cardinality(H) + pending[m] + Cardinality(E) <= Cardinality(T)
      /\ replies[m] \in Nat /\ pending[m] \in Nat
      /\ Cardinality(H) \in Nat /\ Cardinality(E) \in Nat /\ Cardinality(T) \in Nat
  BY BackedNats DEF Backed
<1>2. /\ IsFiniteSet(H \ {w}) /\ Cardinality(H \ {w}) \in Nat /\ Cardinality(H \ {w}) <= Cardinality(H)
      /\ w \in H => Cardinality(H \ {w}) = Cardinality(H) - 1
  BY <1>1, OneLess, FS_CardinalityType
<1>3. w \notin H => IsFiniteSet(H \cup {w}) /\ Cardinality(H \cup {w}) = Cardinality(H) + 1
  BY <1>1, OneMore
<1> HIDE DEF E, T, H
<1>4. Backed(m)' <=> /\ IsFiniteSet(H') /\ IsFiniteSet(E') /\ IsFiniteSet(T')
                     /\ replies'[m] + Cardinality(H') + pending'[m] + Cardinality(E') <= Cardinality(T')
  BY DEF Backed, E, T, H
<1>5. E' = E /\ T' = T
  BY DEF E, T
<1>6. CASE H' \in {H, H \ {w}} /\ pending'[m] = pending[m] /\ replies'[m] = replies[m]
  <2>1. IsFiniteSet(H') /\ Cardinality(H') \in Nat /\ Cardinality(H') <= Cardinality(H)
    <3>1. CASE H' = H
      BY <1>1, <3>1
    <3>2. CASE H' = H \ {w}
      BY <1>2, <3>2
    <3> QED
      BY <1>6, <3>1, <3>2
  <2> QED
    BY <1>1, <1>4, <1>5, <1>6, <2>1
<1>7. CASE w \in H /\ H' = H \ {w} /\ pending'[m] = pending[m] /\ replies'[m] = replies[m] + 1
  BY <1>1, <1>2, <1>4, <1>5, <1>7
<1>8. CASE w \notin H /\ H' = H \cup {w} /\ pending'[m] = pending[m] - 1 /\ replies'[m] = replies[m]
  BY <1>1, <1>3, <1>4, <1>5, <1>8
<1> QED
  BY <1>6, <1>7, <1>8 DEF H

\* A stored version is a trigger of its message only, and new.
LEMMA StoredTriggers ==
  ASSUME TypeOK, NEW r \in Requests, delivery[r] \in Deliveries, ~Conflict(r), Stored(r), NEW m \in Msgs
  PROVE  \E x : IF MsgFor(delivery[r]) = m /\ Executes(delivery[r])
                THEN x \notin TriggersOf(m) /\ TriggersOf(m)' = TriggersOf(m) \cup {x}
                ELSE TriggersOf(m)' = TriggersOf(m)
<1> DEFINE n == MsgFor(delivery[r])
           x == [msg |-> n, no |-> number[r], by |-> delivery[r]]
<1>1. versions' = versions \cup {x} /\ x.msg = n /\ x.by = delivery[r] /\ x.no = number[r]
  BY DEF Stored
<1>2. x \notin versions
  BY <1>1 DEF Conflict, VersionsOf
<1> HIDE DEF n, x
<1>3. TriggersOf(m)' = {v \in versions' : v.msg = m /\ Executes(v.by)}
  BY DEF TriggersOf, VersionsOf, Executes
<1>4. TriggersOf(m) = {v \in versions : v.msg = m /\ Executes(v.by)}
  BY DEF TriggersOf, VersionsOf
<1>5. CASE n = m /\ Executes(delivery[r])
  BY <1>1, <1>2, <1>3, <1>4, <1>5 DEF n
<1>6. CASE ~(n = m /\ Executes(delivery[r]))
  BY <1>1, <1>3, <1>4, <1>6 DEF n
<1> QED
  BY <1>5, <1>6

\* A request that is answered is about to enqueue nothing.
LEMMA FreedEnqueuers ==
  ASSUME TypeOK, NEW r \in Requests, Free(r), NEW m \in Msgs
  PROVE  Enqueuers(m)' = Enqueuers(m) \ {r}
<1>1. rpc'[r] = "idle" /\ \A q \in Requests : q # r => rpc'[q] = rpc[q] /\ delivery'[q] = delivery[q]
  BY DEF Free, TypeOK
<1> QED
  BY <1>1 DEF Enqueuers, MsgFor

LEMMA SameVersions ==
  ASSUME versions' = versions, NEW m \in Msgs
  PROVE  TriggersOf(m)' = TriggersOf(m)
BY DEF TriggersOf, VersionsOf, Executes

LEMMA DoneHolders ==
  ASSUME TypeOK, NEW w \in Workers, Done(w), NEW m \in Msgs
  PROVE  Holders(m)' = Holders(m) \ {w}
<1>1. msg'[w] = NoMsg /\ \A x \in Workers : x # w => msg'[x] = msg[x]
  BY DEF Done, TypeOK
<1> QED
  BY <1>1, ConstantAssumption DEF Holders

LEMMA BackedStep ==
  ASSUME IInv, [Next]_vars, NEW m \in Msgs, Backed(m)
  PROVE  Backed(m)'
<1>0. TypeOK /\ Carrying /\ Holding
  BY DEF IInv
<1>a. ASSUME UNCHANGED <<rpc, delivery>> PROVE Enqueuers(m)' = Enqueuers(m)
  BY <1>a DEF Enqueuers, MsgFor
<1>b. ASSUME UNCHANGED msg PROVE Holders(m)' = Holders(m)
  BY <1>b DEF Holders
\* Nothing that is counted changes.
<1>c. ASSUME Enqueuers(m)' = Enqueuers(m), Holders(m)' = Holders(m),
             UNCHANGED <<versions, pending, replies>>
      PROVE  Backed(m)'
  BY <1>c, SameVersions DEF Backed
<1> USE DEF ingestVars, workerVars, bindingVars, replyVars
<1>1. ASSUME NEW r \in Requests, NEW d \in Deliveries, Read(r, d) PROVE Backed(m)'
  <2>1. Holders(m)' = Holders(m) /\ UNCHANGED <<versions, pending, replies>>
    BY <1>1, <1>b DEF Read
  <2>2. /\ rpc[r] # "enqueue" /\ rpc'[r] # "enqueue"
        /\ \A q \in Requests : q # r => rpc'[q] = rpc[q] /\ delivery'[q] = delivery[q]
    BY <1>0, <1>1 DEF Read, TypeOK
  <2>3. Enqueuers(m)' = Enqueuers(m)
    BY <2>2 DEF Enqueuers, MsgFor
  <2> QED
    BY <1>c, <2>1, <2>3
<1>2. ASSUME NEW r \in Requests, Commit(r) PROVE Backed(m)'
  <2>1. /\ rpc[r] = "write" /\ ~Conflict(r) /\ Stored(r) /\ delivery[r] \in Deliveries
        /\ UNCHANGED <<pending, replies>> /\ Holders(m)' = Holders(m)
    BY <1>0, <1>2, <1>b DEF Commit, Carrying
  <2>2. PICK x : IF MsgFor(delivery[r]) = m /\ Executes(delivery[r])
                 THEN x \notin TriggersOf(m) /\ TriggersOf(m)' = TriggersOf(m) \cup {x}
                 ELSE TriggersOf(m)' = TriggersOf(m)
    BY <1>0, <2>1, StoredTriggers
  <2>3. r \notin Enqueuers(m)
    BY <2>1 DEF Enqueuers
  <2>4. CASE Executes(delivery[r])
    <3>1. /\ rpc'[r] = "enqueue" /\ delivery' = delivery
          /\ \A q \in Requests : q # r => rpc'[q] = rpc[q]
      BY <1>0, <1>2, <2>4 DEF Commit, TypeOK
    <3>2. Enqueuers(m)' = IF MsgFor(delivery[r]) = m THEN Enqueuers(m) \cup {r} ELSE Enqueuers(m)
      BY <2>1, <3>1 DEF Enqueuers, MsgFor
    <3> QED
      BY <1>0, <2>1, <2>2, <2>3, <2>4, <3>2, RequestBacked
  <2>5. CASE ~Executes(delivery[r])
    <3>1. Enqueuers(m)' = Enqueuers(m) \ {r}
      BY <1>0, <1>2, <2>5, FreedEnqueuers DEF Commit
    <3> QED
      BY <1>0, <2>1, <2>2, <2>5, <3>1, RequestBacked
  <2> QED
    BY <2>4, <2>5
\* A request that is answered without queuing its job.
<1>d. ASSUME NEW r \in Requests, Free(r), NEW x,
             TriggersOf(m)' \in {TriggersOf(m), TriggersOf(m) \cup {x}},
             UNCHANGED <<pending, replies, msg>>
      PROVE  Backed(m)'
  <2>1. Enqueuers(m)' = Enqueuers(m) \ {r} /\ Holders(m)' = Holders(m)
    BY <1>0, <1>b, <1>d, FreedEnqueuers
  <2> QED
    BY <1>0, <1>d, <2>1, RequestBacked
\* A request that has queued its job.
<1>e. ASSUME NEW r \in Requests, Free(r), rpc[r] = "enqueue", versions' = versions,
             pending' = [pending EXCEPT ![MsgFor(delivery[r])] = @ + 1],
             UNCHANGED <<replies, msg>>
      PROVE  Backed(m)'
  <2>1. Enqueuers(m)' = Enqueuers(m) \ {r} /\ Holders(m)' = Holders(m) /\ TriggersOf(m)' = TriggersOf(m)
    BY <1>0, <1>b, <1>e, FreedEnqueuers, SameVersions
  <2>2. r \in Enqueuers(m) <=> MsgFor(delivery[r]) = m
    BY <1>e DEF Enqueuers
  <2>3. pending'[m] = IF MsgFor(delivery[r]) = m THEN pending[m] + 1 ELSE pending[m]
    BY <1>0, <1>e DEF TypeOK
  <2> QED
    BY <1>0, <1>e, <2>1, <2>2, <2>3, RequestBacked
<1>3. ASSUME NEW r \in Requests, Reject(r) PROVE Backed(m)'
  BY <1>3, <1>d, SameVersions DEF Reject
<1>4. ASSUME NEW r \in Requests, Enqueue(r) PROVE Backed(m)'
  BY <1>4, <1>e DEF Enqueue
<1>5. ASSUME NEW r \in Requests, RequestFails(r) PROVE Backed(m)'
  <2>1. Free(r) /\ UNCHANGED <<replies, msg>>
    BY <1>5 DEF RequestFails
  <2>2. CASE UNCHANGED <<latest, versions, pending>>
    BY <1>d, <2>1, <2>2, SameVersions
  <2>3. CASE rpc[r] = "write" /\ ~Conflict(r) /\ Stored(r) /\ UNCHANGED pending
    <3>1. delivery[r] \in Deliveries
      BY <1>0, <2>3 DEF Carrying
    <3>2. PICK x : IF MsgFor(delivery[r]) = m /\ Executes(delivery[r])
                   THEN x \notin TriggersOf(m) /\ TriggersOf(m)' = TriggersOf(m) \cup {x}
                   ELSE TriggersOf(m)' = TriggersOf(m)
      BY <1>0, <2>3, <3>1, StoredTriggers
    <3> QED
      BY <1>d, <2>1, <2>3, <3>2
  <2>4. CASE /\ rpc[r] = "enqueue" /\ UNCHANGED <<latest, versions>>
             /\ pending' = [pending EXCEPT ![MsgFor(delivery[r])] = @ + 1]
    BY <1>e, <2>1, <2>4
  <2> QED
    BY <1>5, <2>2, <2>3, <2>4 DEF RequestFails
<1>6. ASSUME NEW w \in Workers, NEW n \in Msgs, Start(w, n) PROVE Backed(m)'
  <2>1. Enqueuers(m)' = Enqueuers(m) /\ TriggersOf(m)' = TriggersOf(m) /\ replies'[m] = replies[m]
    BY <1>6, <1>a, SameVersions DEF Start
  <2>2. msg[w] = NoMsg /\ msg'[w] = n /\ \A x \in Workers : x # w => msg'[x] = msg[x]
    BY <1>0, <1>6 DEF Start, Holding, TypeOK
  <2>3. w \notin Holders(m) /\ Holders(m)' = IF n = m THEN Holders(m) \cup {w} ELSE Holders(m)
    BY <2>2, ConstantAssumption DEF Holders
  <2>4. pending'[m] = IF n = m THEN pending[m] - 1 ELSE pending[m]
    BY <1>0, <1>6 DEF Start, TypeOK
  <2> QED
    BY <1>0, <2>1, <2>3, <2>4, WorkerBacked
<1>7. ASSUME NEW w \in Workers, Load(w) PROVE Backed(m)'
  BY <1>7, <1>a, <1>b, <1>c DEF Load
\* A worker that is done without a reply, and one that has made one.
<1>f. ASSUME NEW w \in Workers, Done(w), UNCHANGED <<ingestVars, pending>>,
             replies'[m] = replies[m] \/ (msg[w] = m /\ replies'[m] = replies[m] + 1)
      PROVE  Backed(m)'
  <2>1. /\ Enqueuers(m)' = Enqueuers(m) /\ TriggersOf(m)' = TriggersOf(m) /\ pending'[m] = pending[m]
        /\ Holders(m)' = Holders(m) \ {w} /\ (msg[w] = m => w \in Holders(m))
    BY <1>0, <1>f, <1>a, SameVersions, DoneHolders DEF Holders
  <2> QED
    BY <1>0, <1>f, <2>1, WorkerBacked
<1>8. ASSUME NEW w \in Workers, Resolve(w) PROVE Backed(m)'
  <2>1. UNCHANGED <<ingestVars, pending, replies>>
    BY <1>8 DEF Resolve
  <2>2. CASE Done(w)
    BY <1>f, <2>1, <2>2
  <2>3. CASE UNCHANGED msg
    BY <1>a, <1>b, <1>c, <2>1, <2>3
  <2> QED
    BY <1>8, <2>2, <2>3 DEF Resolve
<1>9. ASSUME NEW w \in Workers, Reply(w) \/ ExecutionFails(w) PROVE Backed(m)'
  <2>1. Done(w) /\ UNCHANGED <<ingestVars, pending>>
    BY <1>9 DEF Reply, ExecutionFails
  <2>2. replies' = replies \/ replies' = [replies EXCEPT ![msg[w]] = @ + 1]
    BY <1>9 DEF Reply, ExecutionFails
  <2>3. replies'[m] = replies[m] \/ (msg[w] = m /\ replies'[m] = replies[m] + 1)
    BY <1>0, <2>2 DEF TypeOK
  <2> QED
    BY <1>f, <2>1, <2>3
<1>10. CASE \/ \E b \in Bindings : Bind(b) \/ BuildSucceeds(b)
            \/ Unbind \/ UNCHANGED vars
  <2>1. UNCHANGED <<ingestVars, pending, workerVars, replies>>
    BY <1>10 DEF Bind, BuildSucceeds, Unbind, vars
  <2> QED
    BY <2>1, <1>a, <1>b, <1>c
<1> QED
  BY <1>1, <1>2, <1>3, <1>4, <1>5, <1>6, <1>7, <1>8, <1>9, <1>10 DEF Next, RequestStep, WorkerStep

LEMMA BackedInit == Init => AllBacked
<1> SUFFICES ASSUME Init, NEW m \in Msgs PROVE Backed(m)
  BY DEF AllBacked
<1>1. Holders(m) = {} /\ Enqueuers(m) = {} /\ TriggersOf(m) = {}
  BY ConstantAssumption DEF Init, Holders, Enqueuers, TriggersOf, VersionsOf
<1> QED
  BY <1>1, FS_EmptySet DEF Backed, Init

\* However requests, jobs and failures interleave, the replies a message got, is
\* getting and will get from the queue never outnumber its stored triggers.
THEOREM RepliesAreBacked == Spec => []RepliesBacked
<1>1. IInv /\ AllBacked /\ [Next]_vars => AllBacked'
  BY BackedStep DEF AllBacked
<1>2. AllBacked => RepliesBacked
  BY DEF AllBacked, Backed, RepliesBacked, Executing, Enqueueing, Holders, Enqueuers
<1> QED
  BY Invariance, BackedInit, <1>1, <1>2, PTL DEF Spec
=============================================================================
