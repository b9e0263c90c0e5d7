-------------------------- MODULE MCWorkerJobs_proofs --------------------------
(***************************************************************************)
(* Proofs about the reply of the runtime agent, and about the run that has *)
(* it and the media assets side by side, for every set of inputs, models   *)
(* and tools and every bound.                                              *)
(***************************************************************************)
EXTENDS MCWorkerJobs, MediaProcessing_proofs, SequenceTheorems, WellFoundedInduction

-----------------------------------------------------------------------------
(* A behaviour of the run is a behaviour of each of its parts.             *)

LEMMA StepOfEach ==
  [Step]_<<part, vars, agentVars>> => [Next]_vars /\ [Agent!Next]_(Agent!vars)
<1> SUFFICES ASSUME [Step]_<<part, vars, agentVars>>
             PROVE  [Next]_vars /\ [Agent!Next]_(Agent!vars)
  OBVIOUS
<1>1. UNCHANGED agentVars => UNCHANGED Agent!vars
  BY DEF agentVars, Agent!vars, Agent!jobVars, Agent!agentVars
<1> QED
  BY <1>1 DEF Step, ProcessMedia, MakeReply

\* Whatever the run does to the assets the component of media processing allows.
THEOREM BehavesAsMedia == WorkerJobs => Spec
<1>1. Begin => Init
  BY DEF Begin
<1> QED
  BY <1>1, StepOfEach, PTL DEF WorkerJobs, Spec

\* Whatever the run does to a reply the component of the runtime agent allows.
THEOREM BehavesAsAgent == WorkerJobs => Agent!Spec
<1>1. Begin => Agent!Init
  BY DEF Begin
<1> QED
  BY <1>1, StepOfEach, PTL DEF WorkerJobs, Agent!Spec
-----------------------------------------------------------------------------
(* Chains.  Distinct is a fold, that is a recursive function on sets of    *)
(* positions.  Instead of induction the least counterexample is shown not  *)
(* to exist.                                                               *)

Below == {p \in Nat \X Nat : p[1] < p[2]}

LEMMA Smallest ==
  ASSUME NEW T \in SUBSET Nat, T # {}
  PROVE  \E m \in T : \A k \in T : m <= k
<1>1. IsWellFoundedOn(Below, Nat)
  BY NatLessThanWellFounded DEF OpToRel, Below
<1>2. PICK m \in T : \A k \in T : ~(<<k, m>> \in Below)
  BY <1>1, WFMin
<1>3. \A k \in T : ~(k < m)
  BY <1>2 DEF Below
<1> QED
  BY <1>2, <1>3

LEMMA LargestIn ==
  ASSUME NEW k \in Nat, NEW s \in SUBSET (1..k), s # {}
  PROVE  Agent!Max(s) \in s /\ \A i \in s : Agent!Max(s) >= i
<1> DEFINE below == {k - i : i \in s}
<1>1. below \in SUBSET Nat /\ below # {}
  <2>1. PICK i \in s : TRUE
    OBVIOUS
  <2>2. k - i \in below
    OBVIOUS
  <2>3. \A j \in s : k - j \in Nat
    OBVIOUS
  <2> QED
    BY <2>2, <2>3
<1>2. PICK d \in below : \A e \in below : d <= e
  <2> HIDE DEF below
  <2> QED
    BY <1>1, Smallest
<1>3. PICK m \in s : d = k - m
  BY <1>2
<1>4. \A i \in s : k - m <= k - i
  BY <1>2, <1>3
<1>5. \A i \in s : m >= i
  BY <1>4
<1> QED
  BY <1>3, <1>5 DEF Agent!Max

LEMMA LastPosition ==
  ASSUME NEW k \in Nat
  PROVE  Agent!Max(1..(k + 1)) = k + 1 /\ (1..(k + 1)) \ {k + 1} = 1..k
<1> DEFINE m == Agent!Max(1..(k + 1))
<1>1. 1..(k + 1) # {} /\ 1..(k + 1) \in SUBSET (1..(k + 1)) /\ k + 1 \in 1..(k + 1)
  OBVIOUS
<1>2. m \in 1..(k + 1) /\ \A i \in 1..(k + 1) : m >= i
  <2>1. k + 1 \in Nat
    OBVIOUS
  <2> QED
    BY <1>1, <2>1, LargestIn
<1> HIDE DEF m
<1>3. m = k + 1
  BY <1>1, <1>2
<1> QED
  BY <1>3 DEF m

\* What one name of the chain does to the path.
Extended(path, m) == IF m = Blank \/ m \in Agent!ToSet(path) THEN path ELSE Append(path, m)

\* The recursion of the fold, on the subsets of the first k positions.
Folds(f, names, k) ==
  f = [s \in SUBSET (1..k) |->
         IF s = {} THEN <<>> ELSE Extended(f[s \ {Agent!Max(s)}], names[Agent!Max(s)])]

LEMMA FoldGrows ==
  ASSUME NEW names, NEW k \in Nat, NEW f, Folds(f, names, k)
  PROVE  \E g : Folds(g, names, k + 1)
<1> DEFINE Value(h, s) == IF s = {} THEN <<>> ELSE Extended(h[s \ {Agent!Max(s)}], names[Agent!Max(s)])
           g == [s \in SUBSET (1..(k + 1)) |-> Value(f, s)]
<1>1. \A s \in SUBSET (1..k) : f[s] = Value(f, s)
  BY DEF Folds
<1>2. ASSUME NEW s \in SUBSET (1..(k + 1)), s # {} PROVE s \ {Agent!Max(s)} \in SUBSET (1..k)
  <2>1. k + 1 \in Nat
    OBVIOUS
  <2>2. Agent!Max(s) \in s /\ \A i \in s : Agent!Max(s) >= i
    BY <1>2, <2>1, LargestIn
  <2> DEFINE m == Agent!Max(s)
  <2> HIDE DEF m
  <2>3. m \in s /\ \A i \in s : m >= i
    BY <2>2 DEF m
  <2>4. \A i \in s \ {m} : i \in 1..k
    BY <2>3
  <2> QED
    BY <2>4 DEF m
<1>3. \A s \in SUBSET (1..k) : s \in SUBSET (1..(k + 1))
  OBVIOUS
<1>4. \A s \in SUBSET (1..k) : g[s] = f[s]
  BY <1>1, <1>3
<1>5. \A s \in SUBSET (1..(k + 1)) : Value(f, s) = Value(g, s)
  <2> HIDE DEF g
  <2> QED
    BY <1>2, <1>4
<1>6. g = [s \in SUBSET (1..(k + 1)) |-> Value(g, s)]
  <2>1. \A h : (\A s \in SUBSET (1..(k + 1)) : Value(f, s) = Value(h, s)) =>
          [s \in SUBSET (1..(k + 1)) |-> Value(f, s)] = [s \in SUBSET (1..(k + 1)) |-> Value(h, s)]
    OBVIOUS
  <2> QED
    BY <1>5, <2>1
<1> HIDE DEF g
<1>7. Folds(g, names, k + 1)
  BY <1>6 DEF Folds
<1> QED
  BY <1>7

LEMMA FoldExists ==
  ASSUME NEW names, NEW n \in Nat
  PROVE  \E f : Folds(f, names, n)
<1> DEFINE unfolded == {k \in Nat : \A f : ~Folds(f, names, k)}
<1> SUFFICES ASSUME unfolded # {} PROVE FALSE
  OBVIOUS
<1>1. unfolded \in SUBSET Nat
  OBVIOUS
<1>2. PICK k \in unfolded : \A j \in unfolded : k <= j
  <2> HIDE DEF unfolded
  <2> QED
    BY <1>1, Smallest
<1>3. k # 0
  <2> DEFINE f == [s \in SUBSET (1..0) |-> <<>>]
  <2>1. \A s \in SUBSET (1..0) : s = {}
    OBVIOUS
  <2>2. Folds(f, names, 0)
    BY <2>1 DEF Folds
  <2> HIDE DEF f
  <2>3. 0 \notin unfolded
    BY <2>2
  <2> QED
    BY <2>3
<1>4. k - 1 \in Nat /\ (k - 1) + 1 = k /\ ~(k <= k - 1)
  BY <1>1, <1>2, <1>3
<1>5. PICK f : Folds(f, names, k - 1)
  BY <1>2, <1>4
<1>6. \E g : Folds(g, names, k)
  BY <1>4, <1>5, FoldGrows
<1> QED
  BY <1>2, <1>6

LEMMA DistinctFolds ==
  ASSUME NEW names, NEW n \in Nat, DOMAIN names = 1..n
  PROVE  \E f : Folds(f, names, n) /\ Agent!Distinct(names) = f[1..n]
<1>1. \E f : Folds(f, names, n)
  BY FoldExists
<1> DEFINE iter[s \in SUBSET (1..n)] ==
             IF s = {} THEN <<>> ELSE Extended(iter[s \ {Agent!Max(s)}], names[Agent!Max(s)])
<1>2. Folds(iter, names, n)
  BY <1>1 DEF Folds
<1>3. Agent!Distinct(names) = iter[1..n]
  BY DEF Agent!Distinct, Agent!FoldLeft, Agent!MapThenFoldSet, Extended
<1> QED
  BY <1>2, <1>3

\* A path of models, none of them twice.
Path(path) ==
  /\ path \in Seq(Models)
  /\ \A i, j \in 1..Len(path) : path[i] = path[j] => i = j

LEMMA ExtendedPath ==
  ASSUME NEW path, Path(path), NEW m \in Models \cup {Blank}
  PROVE  Path(Extended(path, m))
<1>1. CASE m = Blank \/ m \in Agent!ToSet(path)
  BY <1>1 DEF Extended
<1>2. CASE ~(m = Blank \/ m \in Agent!ToSet(path))
  <2>1. path \in Seq(Models) /\ m \in Models /\ Extended(path, m) = Append(path, m)
    BY <1>2 DEF Extended, Path
  <2>2. /\ Append(path, m) \in Seq(Models) /\ Len(Append(path, m)) = Len(path) + 1
        /\ \A i \in 1..Len(path) : Append(path, m)[i] = path[i]
        /\ Append(path, m)[Len(path) + 1] = m
    BY <2>1, AppendProperties
  <2>3. Len(path) \in Nat /\ \A i \in 1..Len(path) : path[i] # m
    BY <1>2, <2>1 DEF Agent!ToSet
  <2> DEFINE longer == Append(path, m)
  <2> HIDE DEF longer
  <2>4. /\ longer \in Seq(Models) /\ Len(longer) = Len(path) + 1 /\ longer[Len(path) + 1] = m
        /\ \A i \in 1..Len(path) : longer[i] = path[i]
    BY <2>2 DEF longer
  <2>5. \A i, j \in 1..Len(longer) : longer[i] = longer[j] => i = j
    <3> SUFFICES ASSUME NEW i \in 1..(Len(path) + 1), NEW j \in 1..(Len(path) + 1), longer[i] = longer[j]
                 PROVE  i = j
      BY <2>4
    <3>1. CASE i \in 1..Len(path) /\ j \in 1..Len(path)
      BY <2>4, <3>1 DEF Path
    <3>2. CASE i = Len(path) + 1 \/ j = Len(path) + 1
      BY <2>3, <2>4, <3>2
    <3> QED
      BY <2>3, <3>1, <3>2
  <2>6. Path(longer)
    BY <2>4, <2>5 DEF Path
  <2> QED
    BY <2>1, <2>6 DEF longer
<1> QED
  BY <1>1, <1>2

\* A chain without its blank and repeated names is a path.
LEMMA DistinctPath ==
  ASSUME NEW names \in Seq(Models \cup {Blank})
  PROVE  Path(Agent!Distinct(names))
<1>1. PICK n \in Nat : n = Len(names) /\ DOMAIN names = 1..n /\ \A i \in 1..n : names[i] \in Models \cup {Blank}
  OBVIOUS
<1>2. PICK f : Folds(f, names, n) /\ Agent!Distinct(names) = f[1..n]
  BY <1>1, DistinctFolds
<1> DEFINE wrong == {k \in 0..n : ~Path(f[1..k])}
<1> SUFFICES ASSUME wrong # {} PROVE FALSE
  BY <1>1, <1>2
<1>3. wrong \in SUBSET Nat
  OBVIOUS
<1>4. PICK k \in wrong : \A j \in wrong : k <= j
  <2> HIDE DEF wrong
  <2> QED
    BY <1>3, Smallest
<1>5. \A s \in SUBSET (1..n) :
        f[s] = IF s = {} THEN <<>> ELSE Extended(f[s \ {Agent!Max(s)}], names[Agent!Max(s)])
  BY <1>2 DEF Folds
<1>6. k # 0
  <2>1. 1..0 = {} /\ 1..0 \in SUBSET (1..n)
    OBVIOUS
  <2>2. f[1..0] = <<>>
    BY <1>5, <2>1
  <2>3. Path(<<>>)
    BY EmptySeq DEF Path
  <2>4. 0 \notin wrong
    BY <2>2, <2>3
  <2> QED
    BY <2>4
<1>7. PICK j \in Nat : k = j + 1 /\ j \in 0..n /\ k \in 1..n /\ ~(k <= j)
  <2>1. k \in 0..n
    OBVIOUS
  <2>2. k - 1 \in Nat /\ k = (k - 1) + 1 /\ k - 1 \in 0..n /\ k \in 1..n /\ ~(k <= k - 1)
    BY <1>6, <2>1
  <2> QED
    BY <2>2
<1>8. Path(f[1..j])
  BY <1>4, <1>7
<1>9. 1..k # {} /\ 1..k \in SUBSET (1..n) /\ Agent!Max(1..k) = k /\ (1..k) \ {k} = 1..j
  <2>1. Agent!Max(1..(j + 1)) = j + 1 /\ (1..(j + 1)) \ {j + 1} = 1..j
    BY LastPosition
  <2>2. Agent!Max(1..k) = k /\ (1..k) \ {k} = 1..j
    BY <1>7, <2>1
  <2>3. k \in 1..k /\ \A i \in 1..k : i \in 1..n
    BY <1>7
  <2> QED
    BY <2>2, <2>3
<1>10. f[1..k] = Extended(f[1..j], names[k])
  BY <1>5, <1>9
<1>11. Path(f[1..k])
  BY <1>1, <1>7, <1>8, <1>10, ExtendedPath
<1> QED
  BY <1>4, <1>11
-----------------------------------------------------------------------------
(* Types of the reply's state.                                             *)

Paths == Seq(Models)

LEMMA PathTypes ==
  ASSUME Agent!TypeOK
  PROVE  /\ Agent!OrDefault(Agent!Distinct(input.chain), Agents) \in Paths
         /\ Agent!FailoverPlan(input.chain) \in Paths
<1>1. Agent!Distinct(input.chain) \in Paths /\ Agents \in Models
  <2>1. input.chain \in Seq(Models \cup {Blank}) /\ Agents \in Models
    BY AgentAssumption DEF Agent!TypeOK
  <2> QED
    BY <2>1, DistinctPath DEF Path, Paths
<1>2. <<Agents>> \in Paths
  BY <1>1 DEF Paths
<1>3. Agent!OrDefault(Agent!Distinct(input.chain), Agents) \in Paths
  BY <1>1, <1>2 DEF Agent!OrDefault
<1>4. ASSUME NEW path \in Paths PROVE Agent!Capped(path) \in Paths
  BY AgentAssumption DEF Agent!Capped, Paths
<1> QED
  BY <1>3, <1>4 DEF Agent!FailoverPlan

Results == [ok : BOOLEAN, timedOut : BOOLEAN, long : BOOLEAN]
Runs    == [status : Agent!RunStates, long : BOOLEAN]
Saved   == [run : Agent!RunStates, reply : Agent!Sources]

Causes  == {"database", "openai", "stopped", "long error", "docker rm", "agent died"}

LEMMA AnswerTypes == \A ok, timedOut, long \in BOOLEAN : Agent!Answer(ok, timedOut, long) \in Results
BY DEF Agent!Answer, Results

LEMMA NoRounds == MaxToolRounds \in Nat /\ 0 \in 0..MaxToolRounds
BY AgentAssumption

LEMMA AgentTypeInit == Agent!Init => Agent!TypeOK
<1> SUFFICES ASSUME Agent!Init PROVE Agent!TypeOK
  OBVIOUS
<1>1. run \in Runs /\ saved \in Saved /\ reply \in Agent!Sources /\ result \in Results
  <2>1. {"none"} \subseteq Agent!RunStates /\ {"none"} \subseteq Agent!Sources
    BY DEF Agent!RunStates, Agent!Sources
  <2> QED
    BY <2>1, AnswerTypes DEF Agent!Init, Agent!Failure, Runs, Saved
<1>2. plan \in Seq(Models) /\ tried \in Seq(Models) /\ rounds \in 0..MaxToolRounds
  BY NoRounds DEF Agent!Init
<1> QED
  BY <1>1, <1>2 DEF Agent!Init, Agent!TypeOK, Runs, Saved, Results

JobStates == {"idle", "retrieve", "decide", "request", "wait", "record", "fallback", "commit",
              "answered", "raised", "dead"}

\* The types of what the job writes.
JobTyped ==
  /\ pc \in JobStates /\ broken \in BOOLEAN /\ run \in Runs /\ result \in Results
  /\ next \in Nat /\ reply \in Agent!Sources /\ saved \in Saved /\ faults \subseteq Causes

LEMMA JobTyping ==
  /\ Agent!TypeOK => JobTyped
  /\ Agent!TypeOK /\ UNCHANGED <<input, plan, tried, rounds, used, box>> /\ (apc' = apc \/ apc' = "begin")
       /\ JobTyped' => Agent!TypeOK'
BY DEF Agent!TypeOK, JobTyped, JobStates, Runs, Results, Saved, Causes

LEMMA FaultTypes ==
  ASSUME JobTyped, NEW kind \in Causes, Agent!Faulty(kind)
  PROVE  faults' \subseteq Causes
BY DEF JobTyped, Agent!Faulty

\* The steps of the job.
LEMMA JobTypes ==
  ASSUME Agent!TypeOK,
         \/ Agent!StartJob \/ Agent!Retrieve \/ Agent!Decide \/ Agent!Request \/ Agent!GiveUp \/ Agent!Record
         \/ Agent!Fallback \/ Agent!Commit \/ Agent!JobFails \/ Agent!WorkerDies
  PROVE  Agent!TypeOK'
<1>1. UNCHANGED <<input, plan, tried, rounds, used, box>> /\ (apc' = apc \/ apc' = "begin")
  BY DEF Agent!StartJob, Agent!Retrieve, Agent!Decide, Agent!Request, Agent!GiveUp, Agent!Record,
         Agent!Fallback, Agent!Commit, Agent!JobFails, Agent!WorkerDies, Agent!agentVars
<1>2. JobTyped
  BY JobTyping
<1>3. pc' \in JobStates /\ broken' \in BOOLEAN
  BY <1>2 DEF Agent!StartJob, Agent!Retrieve, Agent!Decide, Agent!Request, Agent!GiveUp, Agent!Record,
     Agent!Fallback, Agent!Commit, Agent!JobFails, Agent!WorkerDies, Agent!Goes, Agent!Raises,
     Agent!Returned, JobTyped, JobStates
<1>4. result' \in Results /\ next' \in Nat
  <2>1. Agent!Failure \in Results
    BY AnswerTypes DEF Agent!Failure
  <2>2. (result' = result \/ result' = Agent!Failure) /\ (next' = next \/ next' = next + 1)
    BY DEF Agent!StartJob, Agent!Retrieve, Agent!Decide, Agent!Request, Agent!GiveUp, Agent!Record,
       Agent!Fallback, Agent!Commit, Agent!JobFails, Agent!WorkerDies, Agent!Returned
  <2> QED
    BY <1>2, <2>1, <2>2 DEF JobTyped
<1>5. run' \in Runs
  <2>1. /\ [run EXCEPT !.status = "started"] \in Runs
        /\ [status |-> IF result.ok THEN "succeeded" ELSE Agent!FailedRun, long |-> result.long] \in Runs
    BY <1>2 DEF JobTyped, Runs, Results, Agent!RunStates, Agent!FailedRun
  <2>2. \/ run' = run \/ run' = [run EXCEPT !.status = "started"]
        \/ run' = [status |-> IF result.ok THEN "succeeded" ELSE Agent!FailedRun, long |-> result.long]
    BY DEF Agent!StartJob, Agent!Retrieve, Agent!Decide, Agent!Request, Agent!GiveUp, Agent!Record,
       Agent!Fallback, Agent!Commit, Agent!JobFails, Agent!WorkerDies
  <2> QED
    BY <1>2, <2>1, <2>2 DEF JobTyped
<1>6. reply' \in Agent!Sources
  BY <1>2 DEF Agent!StartJob, Agent!Retrieve, Agent!Decide, Agent!Request, Agent!GiveUp, Agent!Record,
     Agent!Fallback, Agent!Commit, Agent!JobFails, Agent!WorkerDies, JobTyped, Agent!Sources
<1>7. saved' \in Saved
  <2>1. [run |-> run.status, reply |-> reply] \in Saved
    BY <1>2 DEF JobTyped, Runs, Saved
  <2>2. saved' = saved \/ saved' = [run |-> run.status, reply |-> reply]
    BY DEF Agent!StartJob, Agent!Retrieve, Agent!Decide, Agent!Request, Agent!GiveUp, Agent!Record,
       Agent!Fallback, Agent!Commit, Agent!JobFails, Agent!WorkerDies
  <2> QED
    BY <1>2, <2>1, <2>2 DEF JobTyped
<1>8. faults' \subseteq Causes
  <2>1. {"database", "openai", "stopped", "long error"} \subseteq Causes
    BY DEF Causes
  <2>2. UNCHANGED faults \/ \E kind \in {"database", "openai", "stopped", "long error"} : Agent!Faulty(kind)
    BY DEF Agent!StartJob, Agent!Retrieve, Agent!Decide, Agent!Request, Agent!GiveUp, Agent!Record,
       Agent!Fallback, Agent!Commit, Agent!JobFails, Agent!WorkerDies, Agent!Raises
  <2> QED
    BY <1>2, <2>1, <2>2, FaultTypes DEF JobTyped
<1> QED
  BY <1>1, <1>3, <1>4, <1>5, <1>6, <1>7, <1>8, JobTyping DEF JobTyped

LEMMA AnsweredTypes ==
  ASSUME Agent!TypeOK, NEW answer \in Results, Agent!Answers(answer)
  PROVE  apc' = "done" /\ result' \in Results /\ (pc' = "record" \/ pc' = pc)
BY DEF Agent!Answers, Agent!Returned, Agent!Goes, Agent!TypeOK, Results

\* The head of one sequence goes to the end of another.
LEMMA Moved ==
  ASSUME NEW done \in Paths, NEW todo \in Paths, todo # <<>>
  PROVE  /\ Append(done, Head(todo)) \in Paths /\ Tail(todo) \in Paths
         /\ Append(done, Head(todo)) \o Tail(todo) = done \o todo
<1>1. Append(done, Head(todo)) \in Paths /\ Tail(todo) \in Paths
  BY DEF Paths
<1>2. Len(Append(done, Head(todo))) = Len(done) + 1 /\ Len(Tail(todo)) = Len(todo) - 1
        /\ Len(done) \in Nat /\ Len(todo) \in Nat /\ Len(todo) > 0
  BY DEF Paths
<1> QED
  BY <1>1, <1>2 DEF Paths

LEMMA TriedTypes ==
  ASSUME Agent!TypeOK, plan # <<>>, Agent!Tries
  PROVE  /\ tried' \in Paths /\ plan' \in Paths /\ rounds' = 0
         /\ tried' \o plan' = tried \o plan
<1>1. plan \in Paths /\ tried \in Paths
  BY DEF Agent!TypeOK, Paths
<1>2. plan # <<>> /\ tried' = Append(tried, Head(plan)) /\ plan' = Tail(plan) /\ rounds' = 0
  BY DEF Agent!Tries
<1> QED
  BY <1>1, <1>2, Moved

\* The steps of the agent; a model that asks for tools has a round left.
LEMMA AgentTypes ==
  ASSUME Agent!TypeOK, apc = "tools" => rounds < MaxToolRounds,
         Agent!DirectRun \/ Agent!AgentStep \/ Agent!AgentDies
  PROVE  Agent!TypeOK'
<1>t. plan # <<>> /\ Agent!Tries => plan' \in Seq(Models) /\ tried' \in Seq(Models) /\ rounds' \in 0..MaxToolRounds
  <2> SUFFICES ASSUME plan # <<>>, Agent!Tries
               PROVE  plan' \in Seq(Models) /\ tried' \in Seq(Models) /\ rounds' \in 0..MaxToolRounds
    OBVIOUS
  <2>1. plan' \in Seq(Models) /\ tried' \in Seq(Models) /\ rounds' = 0
    BY TriedTypes DEF Paths
  <2> QED
    BY <2>1, NoRounds
<1> USE DEF Agent!TypeOK, Agent!agentVars, Agent!jobVars, Agent!Faulty
<1>1. CASE Agent!DirectRun
  BY <1>1, PathTypes DEF Agent!DirectRun, Paths
<1>2. CASE Agent!RunContainer
  <2>1. Agent!Failure \in Results
    BY AnswerTypes DEF Agent!Failure
  <2>2. CASE Agent!Answers(Agent!Failure) /\ UNCHANGED box
    BY <1>2, <2>1, <2>2, AnsweredTypes DEF Agent!RunContainer, Results
  <2>3. CASE box' = "running" /\ apc' = "docker" /\ UNCHANGED <<pc, result>>
    BY <1>2, <2>3 DEF Agent!RunContainer
  <2> QED
    BY <1>2, <2>2, <2>3 DEF Agent!RunContainer
<1>3. CASE Agent!ContainerEnds
  <2>1. PICK answer \in Results : Agent!Answers(answer)
    BY <1>3, AnswerTypes DEF Agent!ContainerEnds, Agent!Failure
  <2> QED
    BY <1>3, <2>1, AnsweredTypes DEF Agent!ContainerEnds, Results
<1>4. CASE Agent!ContainerTimeout
  BY <1>4 DEF Agent!ContainerTimeout
<1>5. CASE Agent!RemoveContainer
  <2>1. PICK answer \in Results : Agent!Answers(answer)
    BY <1>5, AnswerTypes DEF Agent!RemoveContainer
  <2> QED
    BY <1>5, <2>1, AnsweredTypes DEF Agent!RemoveContainer, Results
<1>6. CASE Agent!ModelAnswers
  <2>1. CASE Agent!Tries /\ apc' = "requested"
    <3>1. plan' \in Seq(Models) /\ tried' \in Seq(Models) /\ rounds' \in 0..MaxToolRounds
      BY <1>6, <1>t, <2>1 DEF Agent!ModelAnswers
    <3> QED
      BY <1>6, <2>1, <3>1 DEF Agent!ModelAnswers
  <2>2. CASE apc' = "tools" /\ UNCHANGED <<plan, tried, rounds>>
    BY <1>6, <2>2 DEF Agent!ModelAnswers
  <2> QED
    BY <1>6, <2>1, <2>2 DEF Agent!ModelAnswers
<1>7. CASE Agent!ModelFails
  <2>1. plan' \in Seq(Models) /\ tried' \in Seq(Models) /\ rounds' \in 0..MaxToolRounds
    BY <1>7, <1>t DEF Agent!ModelFails
  <2> QED
    BY <1>7, <2>1 DEF Agent!ModelFails
<1>8. CASE Agent!AllExhausted
  BY <1>8 DEF Agent!AllExhausted
<1>9. CASE Agent!ToolRound
  <2>1. used' \subseteq Tools
    BY <1>9 DEF Agent!ToolRound, Agent!Executable
  <2>2. rounds' \in 0..MaxToolRounds
    <3>1. apc = "tools" /\ rounds' = rounds + 1 /\ rounds \in 0..MaxToolRounds
      BY <1>9 DEF Agent!ToolRound
    <3>2. rounds < MaxToolRounds /\ MaxToolRounds \in Nat
      BY <3>1, NoRounds
    <3> HIDE DEF Agent!TypeOK
    <3> QED
      BY <3>1, <3>2
  <2> QED
    BY <1>9, <2>1, <2>2 DEF Agent!ToolRound
<1>10. CASE Agent!RequestedTools
  <2>1. used' \subseteq Tools
    BY <1>10, AgentAssumption DEF Agent!RequestedTools, Agent!Executable
  <2> QED
    BY <1>10, <2>1 DEF Agent!RequestedTools
<1>11. CASE Agent!AgentDies
  BY <1>11 DEF Agent!AgentDies
<1> QED
  BY <1>1, <1>2, <1>3, <1>4, <1>5, <1>6, <1>7, <1>8, <1>9, <1>10, <1>11 DEF Agent!AgentStep
-----------------------------------------------------------------------------
(* The run and the reply: what the job will save follows from where it is, *)
(* and a timeout it has been told of stays true of the agent.              *)

TimedOut == apc = "done" /\ (box = "removed" \/ "docker rm" \in faults)

Agrees(ended, source) ==
  /\ ended = "succeeded" <=> source = "agent"
  /\ ended = "none" <=> source \in {"tool", "confirmation"}
  /\ ended # "started" /\ source # "none"

RunInv ==
  /\ pc \in {"idle", "retrieve", "decide"} => run.status = "none"
  /\ pc \in {"request", "wait", "record"} => run.status = "started"
  /\ pc = "fallback" => run.status \in {"failed", "timeout"}
  /\ pc = "commit" => Agrees(run.status, reply)
  /\ saved.reply = "none" => saved.run = "none"
  /\ saved.reply # "none" => pc \in {"answered", "raised"} /\ Agrees(saved.run, saved.reply)
  /\ pc \in {"idle", "retrieve", "decide", "request", "wait"} => ~result.timedOut
  /\ result.timedOut \/ run.status = "timeout" \/ saved.run = "timeout" => TimedOut

\* Nothing of the container or of the agent's progress changes.
SameAgent == UNCHANGED <<apc, box>> /\ faults \subseteq faults'

LEMMA TimeoutStays == SameAgent /\ TimedOut => TimedOut'
BY DEF SameAgent, TimedOut

LEMMA RunOfJob ==
  ASSUME Agent!TypeOK, RunInv,
         \/ Agent!StartJob \/ Agent!Retrieve \/ Agent!Decide \/ Agent!Request \/ Agent!GiveUp \/ Agent!Record
         \/ Agent!Fallback \/ Agent!Commit \/ Agent!JobFails \/ Agent!WorkerDies
  PROVE  RunInv'
<1> USE DEF Agent!Goes, Agent!Faulty, Agent!Raises, Agent!agentVars, Agent!jobVars
<1>1. CASE Agent!StartJob \/ Agent!Retrieve \/ Agent!WorkerDies
  <2>1. SameAgent /\ UNCHANGED <<run, result, reply, saved>>
    BY <1>1 DEF Agent!StartJob, Agent!Retrieve, Agent!WorkerDies, SameAgent
  <2>2. \/ pc \in {"idle", "retrieve"} /\ pc' \in {"retrieve", "decide", "raised"}
        \/ pc \notin {"answered", "raised"} /\ pc' = "dead"
    BY <1>1 DEF Agent!StartJob, Agent!Retrieve, Agent!WorkerDies
  <2> QED
    BY <2>1, <2>2, TimeoutStays DEF RunInv
<1>2. CASE Agent!Decide
  <2>1. SameAgent /\ UNCHANGED <<result, saved>> /\ pc = "decide"
    BY <1>2 DEF Agent!Decide, SameAgent
  <2>2. \/ pc' = "commit" /\ reply' \in {"tool", "confirmation"} /\ run' = run
        \/ pc' = "raised" /\ run' = run
        \/ pc' = "request" /\ run' = [run EXCEPT !.status = "started"]
    BY <1>2 DEF Agent!Decide
  <2>3. run' = [run EXCEPT !.status = "started"] => run'.status = "started"
    BY DEF Agent!TypeOK
  <2>4. CASE pc' = "request" /\ run'.status = "started"
    BY <2>1, <2>4, TimeoutStays DEF RunInv
  <2>5. CASE pc' = "raised" /\ run' = run
    BY <2>1, <2>5, TimeoutStays DEF RunInv
  <2>6. CASE pc' = "commit" /\ reply' \in {"tool", "confirmation"} /\ run' = run
    BY <2>1, <2>6, TimeoutStays DEF RunInv, Agrees
  <2> QED
    BY <2>2, <2>3, <2>4, <2>5, <2>6
<1>3. CASE Agent!Request
  <2>1. pc = "request" /\ pc' = "wait" /\ UNCHANGED <<run, result, reply, saved>>
    BY <1>3 DEF Agent!Request
  <2> QED
    BY <2>1 DEF RunInv
<1>4. CASE Agent!GiveUp
  <2>1. /\ pc \in {"request", "wait"} /\ pc' = "record" /\ SameAgent
        /\ UNCHANGED <<run, reply, saved>> /\ ~result'.timedOut
    BY <1>4 DEF Agent!GiveUp, Agent!Returned, Agent!Failure, Agent!Answer, SameAgent
  <2> QED
    BY <2>1, TimeoutStays DEF RunInv
<1>5. CASE Agent!Record
  <2>1. SameAgent /\ UNCHANGED <<result, saved>> /\ pc = "record"
    BY <1>5 DEF Agent!Record, SameAgent
  <2>2. \/ result.ok /\ run'.status = "succeeded" /\ pc' = "commit" /\ reply' = "agent"
        \/ run'.status = Agent!FailedRun /\ pc' = "fallback"
    BY <1>5 DEF Agent!Record
  <2>3. Agent!FailedRun \in {"failed", "timeout"} /\ (Agent!FailedRun = "timeout" => result.timedOut)
    BY DEF Agent!FailedRun
  <2> QED
    BY <2>1, <2>2, <2>3, TimeoutStays DEF RunInv, Agrees
<1>6. CASE Agent!Fallback
  <2>1. SameAgent /\ UNCHANGED <<run, result, saved>> /\ pc = "fallback"
    BY <1>6 DEF Agent!Fallback, SameAgent
  <2>2. \/ pc' = "commit" /\ reply' \in {"model", "canned"}
        \/ pc' \in {"fallback", "raised"}
    BY <1>6 DEF Agent!Fallback
  <2> QED
    BY <2>1, <2>2, TimeoutStays DEF RunInv, Agrees
<1>7. CASE Agent!Commit \/ Agent!JobFails
  <2>1. SameAgent /\ UNCHANGED <<run, result, reply>> /\ pc' \in {"answered", "raised"}
    BY <1>7 DEF Agent!Commit, Agent!JobFails, SameAgent
  <2>2. saved' = saved \/ (pc = "commit" /\ saved' = [run |-> run.status, reply |-> reply])
    BY <1>7 DEF Agent!Commit, Agent!JobFails
  <2>3. CASE saved' = saved
    BY <2>1, <2>3, TimeoutStays DEF RunInv
  <2>4. CASE pc = "commit" /\ saved'.run = run.status /\ saved'.reply = reply
    BY <2>1, <2>4, TimeoutStays DEF RunInv, Agrees
  <2> QED
    BY <2>2, <2>3, <2>4
<1> QED
  BY <1>1, <1>2, <1>3, <1>4, <1>5, <1>6, <1>7

LEMMA RunOfAnswer ==
  ASSUME RunInv, apc # "done", NEW answer \in Results, Agent!Answers(answer),
         answer.timedOut => box' = "removed" \/ "docker rm" \in faults',
         UNCHANGED <<run, reply, saved>>
  PROVE  RunInv'
<1>1. apc' = "done"
  BY DEF Agent!Answers
<1>2. ~TimedOut
  BY DEF TimedOut
<1>3. ~result.timedOut /\ run.status # "timeout" /\ saved.run # "timeout"
  BY <1>2 DEF RunInv
<1>4. \/ pc = "wait" /\ pc' = "record" /\ result' = answer
      \/ UNCHANGED <<pc, result>>
  BY DEF Agent!Answers, Agent!Returned, Agent!Goes
<1>5. answer.timedOut => TimedOut'
  BY <1>1 DEF TimedOut
<1> QED
  BY <1>3, <1>4, <1>5 DEF RunInv

LEMMA RunOfAgentStep ==
  ASSUME Agent!TypeOK, RunInv, Agent!DirectRun \/ Agent!AgentStep \/ Agent!AgentDies
  PROVE  RunInv'
<1> USE DEF Agent!agentVars, Agent!jobVars, Agent!Faulty
<1>1. ASSUME apc # "done", UNCHANGED <<pc, run, result, reply, saved>> PROVE RunInv'
  <2>1. ~TimedOut
    BY <1>1 DEF TimedOut
  <2> QED
    BY <1>1, <2>1 DEF RunInv
<1>2. \A long \in BOOLEAN : \A ok \in BOOLEAN :
        /\ Agent!Answer(ok, FALSE, long) \in Results /\ ~Agent!Answer(ok, FALSE, long).timedOut
        /\ Agent!Answer(ok, TRUE, long) \in Results
  BY DEF Agent!Answer, Results
<1>3. CASE Agent!RunContainer
  <2>1. CASE Agent!Answers(Agent!Failure)
    BY <1>2, <1>3, <2>1, RunOfAnswer DEF Agent!RunContainer, Agent!Failure
  <2>2. CASE UNCHANGED <<pc, result>>
    BY <1>1, <1>3, <2>2 DEF Agent!RunContainer
  <2> QED
    BY <1>3, <2>1, <2>2 DEF Agent!RunContainer
<1>4. CASE Agent!ContainerEnds
  <2>1. apc = "docker" /\ UNCHANGED <<run, reply, saved>>
    BY <1>4 DEF Agent!ContainerEnds
  <2>2. PICK ok \in BOOLEAN, long \in BOOLEAN : Agent!Answers(Agent!Answer(ok, FALSE, long))
    BY <1>4 DEF Agent!ContainerEnds, Agent!Failure
  <2> QED
    BY <1>2, <2>1, <2>2, RunOfAnswer
<1>5. CASE Agent!RemoveContainer
  <2>1. apc = "remove" /\ UNCHANGED <<run, reply, saved>>
    BY <1>5 DEF Agent!RemoveContainer
  <2>2. Agent!Answers(Agent!Answer(FALSE, TRUE, FALSE)) /\ (box' = "removed" \/ "docker rm" \in faults')
    BY <1>5 DEF Agent!RemoveContainer
  <2> QED
    BY <1>2, <2>1, <2>2, RunOfAnswer
<1>6. CASE Agent!DirectRun \/ Agent!AgentDies
  BY <1>1, <1>6 DEF Agent!DirectRun, Agent!AgentDies
<1>7. CASE Agent!ContainerTimeout \/ Agent!ModelAnswers \/ Agent!ModelFails \/ Agent!AllExhausted
             \/ Agent!ToolRound \/ Agent!RequestedTools
  BY <1>1, <1>7 DEF Agent!ContainerTimeout, Agent!ModelAnswers, Agent!ModelFails, Agent!AllExhausted,
                    Agent!ToolRound, Agent!RequestedTools
<1> QED
  BY <1>3, <1>4, <1>5, <1>6, <1>7 DEF Agent!AgentStep

-----------------------------------------------------------------------------
(* The chain: what the agent has tried and what it has still to try make   *)
(* up the plan.                                                            *)

ChainInv ==
  /\ apc = "idle" => tried = <<>> /\ plan = <<>>
  /\ (tried = <<>> /\ plan = <<>>) \/ tried \o plan = Agent!FailoverPlan(input.chain)
  /\ apc = "tools" => rounds < MaxToolRounds
  /\ used \subseteq input.tools \cap LocalTools

LEMMA ChainOfJob ==
  ASSUME Agent!TypeOK, ChainInv,
         \/ Agent!StartJob \/ Agent!Retrieve \/ Agent!Decide \/ Agent!Request \/ Agent!GiveUp \/ Agent!Record
         \/ Agent!Fallback \/ Agent!Commit \/ Agent!JobFails \/ Agent!WorkerDies
  PROVE  ChainInv'
<1>1. /\ UNCHANGED <<input, plan, tried, rounds, used>>
      /\ apc' = apc \/ apc' = "begin"
  BY DEF Agent!StartJob, Agent!Retrieve, Agent!Decide, Agent!Request, Agent!GiveUp, Agent!Record,
         Agent!Fallback, Agent!Commit, Agent!JobFails, Agent!WorkerDies, Agent!agentVars
<1> QED
  BY <1>1 DEF ChainInv

LEMMA ChainOfAgent ==
  ASSUME Agent!TypeOK, ChainInv, Agent!DirectRun \/ Agent!AgentStep \/ Agent!AgentDies
  PROVE  ChainInv'
<1> USE DEF Agent!agentVars, Agent!jobVars
<1>1. CASE Agent!DirectRun
  <2>1. /\ apc = "idle" /\ apc' = "model" /\ plan' = Agent!FailoverPlan(input.chain)
        /\ UNCHANGED <<input, tried, used>>
    BY <1>1 DEF Agent!DirectRun
  <2>2. tried' \o plan' = Agent!FailoverPlan(input.chain)
    <3>1. Agent!FailoverPlan(input.chain) \in Paths /\ tried' = <<>>
      BY <2>1, PathTypes DEF ChainInv
    <3> QED
      BY <2>1, <3>1 DEF Paths
  <2> QED
    BY <2>1, <2>2 DEF ChainInv
<1>2. ASSUME plan # <<>>, Agent!Tries, apc' # "tools", apc' # "idle", UNCHANGED <<input, used>> PROVE ChainInv'
  <2>1. tried' \o plan' = tried \o plan
    BY <1>2, TriedTypes
  <2> QED
    BY <1>2, <2>1 DEF ChainInv
<1>3. CASE Agent!ModelAnswers
  <2>1. CASE Agent!Tries /\ apc' = "requested"
    BY <1>2, <1>3, <2>1 DEF Agent!ModelAnswers
  <2>2. CASE apc' = "tools" /\ UNCHANGED <<plan, tried, rounds>>
    BY <1>3, <2>2 DEF Agent!ModelAnswers, ChainInv
  <2> QED
    BY <1>3, <2>1, <2>2 DEF Agent!ModelAnswers
<1>4. CASE Agent!ModelFails
  BY <1>2, <1>4 DEF Agent!ModelFails
<1>5. CASE Agent!ToolRound \/ Agent!RequestedTools
  <2>1. UNCHANGED <<input, plan, tried>> /\ apc' \in {"model", "done"}
    BY <1>5 DEF Agent!ToolRound, Agent!RequestedTools
  <2>2. \E names : used' = used \cup Agent!Executable(names)
    BY <1>5 DEF Agent!ToolRound, Agent!RequestedTools
  <2>3. used' \subseteq input.tools \cap LocalTools
    BY <2>2 DEF Agent!Executable, ChainInv
  <2> QED
    BY <2>1, <2>3 DEF ChainInv
<1>6. CASE \/ Agent!RunContainer \/ Agent!ContainerEnds \/ Agent!ContainerTimeout \/ Agent!RemoveContainer
           \/ Agent!AllExhausted \/ Agent!AgentDies
  <2>1. UNCHANGED <<input, plan, tried, rounds, used>> /\ apc' \in {"docker", "remove", "done"}
    BY <1>6 DEF Agent!RunContainer, Agent!ContainerEnds, Agent!ContainerTimeout, Agent!RemoveContainer,
                Agent!AllExhausted, Agent!AgentDies, Agent!Answers
  <2> QED
    BY <2>1 DEF ChainInv
<1> QED
  BY <1>1, <1>3, <1>4, <1>5, <1>6 DEF Agent!AgentStep
-----------------------------------------------------------------------------
(* The parts together.                                                     *)

\* A job ends without having answered only through a failure that is not the agent's.
FaultInv == pc \in {"raised", "dead"} => faults \ {"docker rm", "agent died"} # {}

LEMMA FaultStep == FaultInv /\ Agent!Next => FaultInv'
<1> SUFFICES ASSUME FaultInv, Agent!Next PROVE FaultInv'
  OBVIOUS
<1> USE DEF Agent!Goes, Agent!Faulty, Agent!Raises, Agent!agentVars, Agent!jobVars
<1>1. faults \subseteq faults' /\ (pc' = pc \/ pc' \notin {"raised", "dead"}) => FaultInv'
  BY DEF FaultInv
<1>2. ASSUME NEW kind \in {"database", "openai", "stopped", "long error"}, faults' = faults \cup {kind}
      PROVE  FaultInv'
  BY <1>2 DEF FaultInv
<1>3. CASE Agent!StartJob \/ Agent!Retrieve \/ Agent!Decide \/ Agent!Request \/ Agent!GiveUp \/ Agent!Record
  BY <1>1, <1>2, <1>3 DEF Agent!StartJob, Agent!Retrieve, Agent!Decide, Agent!Request, Agent!GiveUp,
     Agent!Record, Agent!Returned
<1>4. CASE Agent!Fallback \/ Agent!Commit \/ Agent!JobFails \/ Agent!WorkerDies
  BY <1>1, <1>2, <1>4 DEF Agent!Fallback, Agent!Commit, Agent!JobFails, Agent!WorkerDies
<1>5. CASE Agent!DirectRun \/ Agent!AgentStep \/ Agent!AgentDies
  <2>1. faults \subseteq faults' /\ (pc' = pc \/ pc' = "record")
    BY <1>5 DEF Agent!DirectRun, Agent!AgentStep, Agent!AgentDies, Agent!RunContainer, Agent!ContainerEnds,
       Agent!ContainerTimeout, Agent!RemoveContainer, Agent!ModelAnswers, Agent!ModelFails,
       Agent!AllExhausted, Agent!ToolRound, Agent!RequestedTools, Agent!Answers, Agent!Returned
  <2> QED
    BY <1>1, <2>1
<1> QED
  BY <1>3, <1>4, <1>5 DEF Agent!Next, Agent!JobStep

AgentInv == Agent!TypeOK /\ RunInv /\ ChainInv /\ FaultInv

LEMMA AgentInit == Agent!Init => AgentInv
<1> SUFFICES ASSUME Agent!Init PROVE AgentInv
  OBVIOUS
<1>1. RunInv
  BY DEF RunInv, Agent!Init, Agent!Failure, Agent!Answer
<1>2. ChainInv /\ FaultInv
  BY DEF ChainInv, FaultInv, Agent!Init
<1> QED
  BY <1>1, <1>2, AgentTypeInit DEF AgentInv

LEMMA AgentNext == AgentInv /\ [Agent!Next]_(Agent!vars) => AgentInv'
<1> SUFFICES ASSUME AgentInv, [Agent!Next]_(Agent!vars) PROVE AgentInv'
  OBVIOUS
<1>0. Agent!TypeOK /\ RunInv /\ ChainInv /\ FaultInv /\ (apc = "tools" => rounds < MaxToolRounds)
  BY DEF AgentInv, ChainInv
<1>1. CASE \/ Agent!StartJob \/ Agent!Retrieve \/ Agent!Decide \/ Agent!Request \/ Agent!GiveUp
           \/ Agent!Record \/ Agent!Fallback \/ Agent!Commit \/ Agent!JobFails \/ Agent!WorkerDies
  <2>1. FaultInv'
    BY <1>0, <1>1, FaultStep DEF Agent!Next, Agent!JobStep
  <2> QED
    BY <1>0, <1>1, <2>1, JobTypes, RunOfJob, ChainOfJob DEF AgentInv
<1>2. CASE Agent!DirectRun \/ Agent!AgentStep \/ Agent!AgentDies
  <2>1. FaultInv'
    BY <1>0, <1>2, FaultStep DEF Agent!Next
  <2> QED
    BY <1>0, <1>2, <2>1, AgentTypes, RunOfAgentStep, ChainOfAgent DEF AgentInv
<1>3. CASE UNCHANGED Agent!vars
  <2>1. UNCHANGED <<input, pc, broken, run, result, next, reply, saved, apc, plan, tried, rounds, used, box, faults>>
    BY <1>3 DEF Agent!vars, Agent!jobVars, Agent!agentVars
  <2>2. Agent!TypeOK'
    BY <1>0, <2>1, JobTyping DEF JobTyped
  <2>3. RunInv' /\ ChainInv' /\ FaultInv'
    BY <1>0, <2>1 DEF RunInv, ChainInv, FaultInv, TimedOut
  <2> QED
    BY <2>2, <2>3 DEF AgentInv
<1> QED
  BY <1>1, <1>2, <1>3 DEF Agent!Next, Agent!JobStep

\* A chain cut to the models that may be tried is the beginning of the whole.
LEMMA CappedPrefix ==
  ASSUME NEW path \in Paths
  PROVE  /\ Len(Agent!Capped(path)) <= MaxHops + 1 /\ Len(Agent!Capped(path)) <= Len(path)
         /\ \A i \in 1..Len(Agent!Capped(path)) : Agent!Capped(path)[i] = path[i]
BY AgentAssumption DEF Agent!Capped, Paths

LEMMA TriedIsPrefix ==
  ASSUME Agent!TypeOK, ChainInv
  PROVE  LET path == Agent!OrDefault(Agent!Distinct(input.chain), Agents) IN
         /\ path \in Paths /\ tried \in Paths
         /\ Len(tried) <= MaxHops + 1 /\ Len(tried) <= Len(path)
         /\ \A i \in 1..Len(tried) : tried[i] = path[i]
<1> DEFINE path == Agent!OrDefault(Agent!Distinct(input.chain), Agents)
<1>1. path \in Paths /\ tried \in Paths /\ plan \in Paths
  BY PathTypes DEF Agent!TypeOK, Paths
<1>2. /\ Len(tried) <= MaxHops + 1 /\ Len(tried) <= Len(path)
      /\ \A i \in 1..Len(tried) : tried[i] = path[i]
  <2>1. CASE tried = <<>>
    BY <1>1, <2>1, AgentAssumption DEF Paths
  <2>2. CASE tried \o plan = Agent!Capped(path)
    <3> HIDE DEF path
    <3>1. Len(tried) <= Len(tried \o plan) /\ \A i \in 1..Len(tried) : (tried \o plan)[i] = tried[i] /\ i \in 1..Len(tried \o plan)
      BY <1>1 DEF Paths
    <3> QED
      BY <1>1, <2>2, <3>1, CappedPrefix, AgentAssumption DEF Paths
  <2> QED
    BY <2>1, <2>2 DEF ChainInv, Agent!FailoverPlan
<1> QED
  BY <1>1, <1>2

LEMMA BoundsFromChain == Agent!TypeOK /\ ChainInv => AgentWithinBounds
<1> SUFFICES ASSUME Agent!TypeOK, ChainInv PROVE AgentWithinBounds
  OBVIOUS
<1> DEFINE path == Agent!OrDefault(Agent!Distinct(input.chain), Agents)
<1>1. /\ path \in Paths /\ tried \in Paths
      /\ Len(tried) <= MaxHops + 1 /\ Len(tried) <= Len(path)
      /\ \A i \in 1..Len(tried) : tried[i] = path[i]
  BY TriedIsPrefix
<1>2. Agent!IsPrefix(tried, path)
  BY <1>1 DEF Agent!IsPrefix, Paths
<1> QED
  BY <1>1, <1>2 DEF AgentWithinBounds, Agent!AgentWithinBounds, ChainInv

\* No model twice among those tried.
TriedOnce == \A i, j \in 1..Len(tried) : tried[i] = tried[j] => i = j

LEMMA OnceFromChain == Agent!TypeOK /\ ChainInv => TriedOnce
<1> SUFFICES ASSUME Agent!TypeOK, ChainInv PROVE TriedOnce
  OBVIOUS
<1> DEFINE path == Agent!OrDefault(Agent!Distinct(input.chain), Agents)
<1>1. /\ path \in Paths /\ tried \in Paths /\ Len(tried) <= Len(path)
      /\ \A i \in 1..Len(tried) : tried[i] = path[i]
  BY TriedIsPrefix
<1>2. \A i, j \in 1..Len(path) : path[i] = path[j] => i = j
  <2>1. input.chain \in Seq(Models \cup {Blank})
    BY AgentAssumption DEF Agent!TypeOK
  <2>2. Path(Agent!Distinct(input.chain))
    BY <2>1, DistinctPath
  <2>3. CASE Agent!Distinct(input.chain) = <<>>
    <3>1. path = <<Agents>>
      BY <2>3 DEF Agent!OrDefault
    <3> HIDE DEF path
    <3>2. Len(path) = 1
      BY <3>1
    <3> QED
      BY <3>2
  <2>4. CASE Agent!Distinct(input.chain) # <<>>
    BY <2>2, <2>4 DEF Agent!OrDefault, Path
  <2> QED
    BY <2>3, <2>4
<1> HIDE DEF path
<1> QED
  BY <1>1, <1>2 DEF TriedOnce, Paths

\* The invariant of every behaviour of the component.
LEMMA AgentInvariant == Agent!Spec => []AgentInv
BY AgentInit, AgentNext, PTL DEF Agent!Spec

\* The state of assets, jobs, operations, replies and of the agent stays well typed.
THEOREM TypesCorrect == WorkerJobs => []TypesOK
<1>1. AgentInv /\ TypeOK => TypesOK
  BY DEF AgentInv, TypesOK
<1> QED
  BY <1>1, BehavesAsMedia, BehavesAsAgent, TypeCorrect, AgentInvariant, PTL

\* The saved run tells where the reply came from: the agent's text goes with SUCCEEDED and
\* with nothing else, TIMEOUT with a container that did time out, no run with a tool or a
\* confirmation, and STARTED is never saved - wherever agent, container, job or worker fail.
THEOREM RunsMatchReplies == WorkerJobs => []RunMatchesReply
<1>1. AgentInv => RunMatchesReply
  <2> SUFFICES ASSUME RunInv PROVE RunMatchesReply
    BY DEF AgentInv
  <2> QED
    BY DEF RunInv, Agrees, TimedOut, RunMatchesReply, Agent!RunMatchesReply
<1> QED
  BY <1>1, BehavesAsAgent, AgentInvariant, PTL

\* The agent tries at most MaxHops + 1 models, each a step further in the chain without its
\* repetitions, and executes only tools that the template allows and the agent has, for
\* every chain, set of tools and bound.
THEOREM AgentStaysWithinBounds == WorkerJobs => []AgentWithinBounds
<1>1. AgentInv => AgentWithinBounds
  BY BoundsFromChain DEF AgentInv
<1> QED
  BY <1>1, BehavesAsAgent, AgentInvariant, PTL

\* The agent never calls a model again that has failed it, whatever repetitions the chain
\* of the configuration has.
THEOREM EachModelTriedOnce == WorkerJobs => []TriedOnce
<1>1. AgentInv => TriedOnce
  BY OnceFromChain DEF AgentInv
<1> QED
  BY <1>1, BehavesAsAgent, AgentInvariant, PTL

\* A job ends without a reply only by a failure of the database, of its process or of the
\* connection to OpenAI, or an error text too long for its column: never through the agent,
\* its container or docker.
THEOREM AnsweredWhateverTheAgentDoes == WorkerJobs => []AnsweredDespiteAgent
<1>1. AgentInv => AnsweredDespiteAgent
  BY DEF AgentInv, FaultInv, AnsweredDespiteAgent, Agent!AnsweredDespiteAgent
<1> QED
  BY <1>1, BehavesAsAgent, AgentInvariant, PTL

\* The assets of the run keep what the component keeps: bytes, the backing of settled
\* assets, and a job ahead of each pending one.
COROLLARY MediaInTheRun ==
  WorkerJobs => [](BytesKept /\ SettledIsBacked /\ PendingAccounted) /\ ReadyIsFinal
BY BehavesAsMedia, BytesAreKept, SettledAssetsAreBacked, PendingHasAJob, ReadyAssetsAreFinal, PTL
=============================================================================
