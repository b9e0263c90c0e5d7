----------------------------- MODULE AgentReply -----------------------------
(***************************************************************************)
(* How the reply to one inbound message comes about: the execution job     *)
(* retrieves context, asks the runtime agent, falls back to the model or to*)
(* a canned text, and commits the run with the reply; the runtime agent    *)
(* runs the template's container, or, for a client that names no image, a  *)
(* chain of models with local tools.                                       *)
(*                                                                         *)
(* The job waits 12 s for the agent, the agent 120 s for the container, RQ *)
(* 180 s for the job: timeouts are steps that may happen at any moment.    *)
(***************************************************************************)
EXTENDS Naturals, Sequences, SequencesExt

CONSTANTS
  Models, Default, Agents,   \* model names, the backend's default, the agent's placeholder
  Blank,                     \* a candidate that normalises to nothing
  Tools, LocalTools,         \* tool names; those the agent implements
  Inputs,                    \* set of records: what may be asked, see Init
  MaxHops, MaxToolRounds

VARIABLES
  input,    \* the message and the configuration it meets, fixed
  pc,       \* where the job is in process_inbound_message_job
  broken,   \* whether its transaction is in the failed state
  run,      \* the runtime_runs row in its session: status, and whether the error text is long
  result,   \* what _run_via_runtime_agent has returned
  next,     \* the next candidate of the fallback loop
  reply,    \* where the reply text comes from
  saved,    \* what is committed: the status of the run and the source of the reply
  apc,      \* where the runtime agent is in run_agent
  plan,     \* the models it has still to try
  tried,    \* those it has tried
  rounds,   \* tool rounds of the current model
  used,     \* tools it has executed
  box,      \* the container
  faults    \* history: failures the job is not built to answer through

jobVars   == <<pc, broken, run, result, next, reply, saved>>
agentVars == <<apc, plan, tried, rounds, used>>
vars == <<input, jobVars, agentVars, box, faults>>

RunStates == {"none", "started", "succeeded", "failed", "timeout"}
Sources   == {"none", "tool", "confirmation", "agent", "model", "canned"}

\* What the job gets from the agent.
Answer(ok, timedOut, long) == [ok |-> ok, timedOut |-> timedOut, long |-> long]
Failure == Answer(FALSE, FALSE, FALSE)

TypeOK ==
  /\ input \in Inputs
  /\ pc \in {"idle", "retrieve", "decide", "request", "wait", "record", "fallback", "commit",
             "answered", "raised", "dead"}
  /\ broken \in BOOLEAN
  /\ run \in [status : RunStates, long : BOOLEAN]
  /\ result \in [ok : BOOLEAN, timedOut : BOOLEAN, long : BOOLEAN]
  /\ next \in Nat
  /\ reply \in Sources
  /\ saved \in [run : RunStates, reply : Sources]
  /\ apc \in {"idle", "begin", "docker", "remove", "model", "tools", "requested", "done"}
  /\ plan \in Seq(Models) /\ tried \in Seq(Models)
  /\ rounds \in 0..MaxToolRounds /\ used \subseteq Tools
  /\ box \in {"none", "running", "exited", "removed"}
  /\ faults \subseteq {"database", "openai", "stopped", "long error", "docker rm", "agent died"}

\* An input has the message's text ("none", "plain" or "command"), the candidates of the
\* template, its allowed tools, the tools a client requests, whether OPENAI_API_KEY is
\* set for the backend and for the agent or its container, and whether the image reference is well formed.
Init ==
  /\ input \in Inputs
  /\ pc = "idle" /\ broken = FALSE
  /\ run = [status |-> "none", long |-> FALSE]
  /\ result = Failure /\ next = 1
  /\ reply = "none" /\ saved = [run |-> "none", reply |-> "none"]
  /\ apc = "idle" /\ plan = <<>> /\ tried = <<>> /\ rounds = 0 /\ used = {}
  /\ box = "none" /\ faults = {}

-----------------------------------------------------------------------------
(* Chains of models.                                                       *)

\* Each name once, in order, and nothing blank.
Distinct(names) ==
  FoldLeft(LAMBDA path, m : IF m = Blank \/ m \in ToSet(path) THEN path ELSE Append(path, m), <<>>, names)

OrDefault(path, default) == IF path = <<>> THEN <<default>> ELSE path

\* _extract_model_candidates, on candidates already normalised.
Candidates == OrDefault(Distinct(input.chain), Default)

Capped(path) == IF Len(path) <= MaxHops + 1 THEN path ELSE SubSeq(path, 1, MaxHops + 1)

\* build_failover_plan.
FailoverPlan(path) == Capped(OrDefault(Distinct(path), Agents))

-----------------------------------------------------------------------------
(* The job.                                                                *)

Goes(to) == pc' = to
Faulty(kind) == faults' = faults \cup {kind}

\* An exception that nothing on the way catches: rollback, and RQ has no retry.
Raises(kind) == Goes("raised") /\ Faulty(kind)

StartJob ==
  /\ pc = "idle" /\ apc = "idle"
  /\ Goes("retrieve")
  /\ UNCHANGED <<input, broken, run, result, next, reply, saved, agentVars, box, faults>>

\* retrieve_context, for a message with text.  A database error of the knowledge
\* queries is swallowed without a rollback; an embedding that cannot be had over HTTP
\* raises, one that OpenAI refuses does not.
Retrieve ==
  /\ pc = "retrieve"
  /\ \/ Goes("decide") /\ UNCHANGED <<broken, faults>>
     \/ input.text # "none" /\ Goes("decide") /\ broken' = TRUE /\ Faulty("database")
     \/ input.text # "none" /\ input.backendKey /\ Raises("openai") /\ UNCHANGED broken
  /\ UNCHANGED <<input, run, result, next, reply, saved, agentVars, box>>

\* A tool command and a message without text are answered at once; otherwise the run
\* is inserted as STARTED, which a failed transaction refuses.
Decide ==
  /\ pc = "decide"
  /\ CASE input.text = "command" -> reply' = "tool" /\ Goes("commit") /\ UNCHANGED <<run, faults>>
       [] input.text = "none"    -> reply' = "confirmation" /\ Goes("commit") /\ UNCHANGED <<run, faults>>
       [] broken                 -> Raises("database") /\ UNCHANGED <<run, reply>>
       [] OTHER -> /\ run' = [run EXCEPT !.status = "started"]
                   /\ Goes("request")
                   /\ UNCHANGED <<reply, faults>>
  /\ UNCHANGED <<input, broken, result, next, saved, agentVars, box>>

\* POST /run.
Request ==
  /\ pc = "request"
  /\ Goes("wait")
  /\ apc' = "begin"
  /\ UNCHANGED <<input, broken, run, result, next, reply, saved, plan, tried, rounds, used, box, faults>>

Returned(answer) == Goes("record") /\ result' = answer

\* Without the except clause around the call.
GiveUpUnhandled ==
  /\ pc \in {"request", "wait"}
  /\ Goes("raised")
  /\ UNCHANGED <<input, broken, run, result, next, reply, saved, agentVars, box, faults>>

\* The agent cannot be reached, fails with a 500, or does not answer within 12 s; RQ's
\* own timeout is swallowed here as well.  The agent goes on.
GiveUp ==
  /\ pc \in {"request", "wait"}
  /\ Returned(Failure)
  /\ UNCHANGED <<input, broken, run, next, reply, saved, agentVars, box, faults>>

FailedRun == IF result.timedOut THEN "timeout" ELSE "failed"

\* The run gets its status and its error, and only a success ends the search for a text.
RecordAlwaysReplies ==
  /\ pc = "record"
  /\ run' = [status |-> IF result.ok THEN "succeeded" ELSE FailedRun, long |-> result.long]
  /\ reply' = "agent" /\ Goes("commit")
  /\ UNCHANGED <<input, broken, result, next, saved, agentVars, box, faults>>

Record ==
  /\ pc = "record"
  /\ run' = [status |-> IF result.ok THEN "succeeded" ELSE FailedRun, long |-> result.long]
  /\ IF result.ok THEN reply' = "agent" /\ Goes("commit") ELSE Goes("fallback") /\ UNCHANGED reply
  /\ UNCHANGED <<input, broken, result, next, saved, agentVars, box, faults>>

\* The candidates in order, without a bound on their number; an HTTP transport error is
\* not an OpenAIIntegrationError.  When none has a text, or no key is set, the canned
\* text is the reply.
Fallback ==
  /\ pc = "fallback"
  /\ IF input.backendKey /\ next <= Len(Candidates)
     THEN \/ reply' = "model" /\ Goes("commit") /\ UNCHANGED <<next, faults>>
          \/ next' = next + 1 /\ UNCHANGED <<pc, reply, faults>>
          \/ Raises("openai") /\ UNCHANGED <<next, reply>>
     ELSE reply' = "canned" /\ Goes("commit") /\ UNCHANGED <<next, faults>>
  /\ UNCHANGED <<input, broken, run, result, saved, agentVars, box>>

\* create_outbound_intent commits the intent with the run and its audit event.  The
\* error column holds 1024 characters, the agent's error may have 4000 and more.
Commit ==
  /\ pc = "commit"
  /\ IF broken \/ run.long
     THEN Raises(IF broken THEN "database" ELSE "long error") /\ UNCHANGED saved
     ELSE /\ saved' = [run |-> run.status, reply |-> reply]
          /\ Goes("answered")
          /\ UNCHANGED faults
  /\ UNCHANGED <<input, broken, run, result, next, reply, agentVars, box>>

\* The database fails, or RQ's timeout is raised, outside of the agent call; a commit
\* may have been applied.
JobFails ==
  /\ pc \in {"retrieve", "decide", "record", "fallback", "commit"}
  /\ \E kind \in IF pc \in {"record", "fallback"} THEN {"stopped"} ELSE {"database", "stopped"} : Raises(kind)
  /\ \/ UNCHANGED saved
     \/ /\ pc = "commit" /\ ~broken /\ ~run.long
        /\ saved' = [run |-> run.status, reply |-> reply]
  /\ UNCHANGED <<input, broken, run, result, next, reply, agentVars, box>>

WorkerDies ==
  /\ pc \notin {"idle", "answered", "raised", "dead"}
  /\ Goes("dead") /\ Faulty("stopped")
  /\ UNCHANGED <<input, broken, run, result, next, reply, saved, agentVars, box>>

-----------------------------------------------------------------------------
(* The runtime agent.                                                      *)

\* The answer reaches the job if it still waits.
Answers(answer) ==
  /\ apc' = "done"
  /\ IF pc = "wait" THEN Returned(answer) ELSE UNCHANGED <<pc, result>>

\* A client calls /run itself, without an image.
DirectRun ==
  /\ pc = "idle" /\ apc = "idle"
  /\ apc' = "model" /\ plan' = FailoverPlan(input.chain)
  /\ UNCHANGED <<input, jobVars, tried, rounds, used, box, faults>>

\* run_template_client_image: docker run, unless the reference is malformed or docker
\* itself cannot be started.
RunContainer ==
  /\ apc = "begin"
  /\ \/ /\ input.safeImage /\ box' = "running" /\ apc' = "docker"
        /\ UNCHANGED <<pc, result>>
     \/ Answers(Failure) /\ UNCHANGED box
  /\ UNCHANGED <<input, broken, run, next, reply, saved, plan, tried, rounds, used, faults>>

\* The container ends: with a reply, when it has a key and a network and its line
\* survives the cut to the last 4000 characters; with anything else; or with an exit
\* code and its stderr for an error.
ContainerEnds ==
  /\ apc = "docker"
  /\ box' = "exited"
  /\ \/ input.agentKey /\ Answers(Answer(TRUE, FALSE, FALSE))
     \/ Answers(Failure)
     \/ Answers(Answer(FALSE, FALSE, TRUE))
  /\ UNCHANGED <<input, broken, run, next, reply, saved, plan, tried, rounds, used, faults>>

\* 120 s have passed: the docker client is killed ...
ContainerTimeout ==
  /\ apc = "docker"
  /\ apc' = "remove"
  /\ UNCHANGED <<input, jobVars, plan, tried, rounds, used, box, faults>>

\* Without docker rm.
RemoveNothing ==
  /\ apc = "remove"
  /\ Answers(Answer(FALSE, TRUE, FALSE))
  /\ UNCHANGED <<input, broken, run, next, reply, saved, plan, tried, rounds, used, box, faults>>

\* ... and the container removed, which may fail unnoticed.
RemoveContainer ==
  /\ apc = "remove"
  /\ \/ box' = "removed" /\ UNCHANGED faults
     \/ Faulty("docker rm") /\ UNCHANGED box
  /\ Answers(Answer(FALSE, TRUE, FALSE))
  /\ UNCHANGED <<input, broken, run, next, reply, saved, plan, tried, rounds, used>>

Tries == tried' = Append(tried, Head(plan)) /\ plan' = Tail(plan) /\ rounds' = 0

\* A model of the plan answers, with a text or with tool calls; without a key a
\* placeholder answers.
ModelAnswers ==
  /\ apc = "model" /\ plan # <<>> /\ rounds < MaxToolRounds
  /\ \/ Tries /\ apc' = "requested"
     \/ input.agentKey /\ apc' = "tools" /\ UNCHANGED <<plan, tried, rounds>>
  /\ UNCHANGED <<input, jobVars, used, box, faults>>

\* A model fails, or has spent its rounds on tools: the next one.
ModelFails ==
  /\ apc = "model" /\ plan # <<>>
  /\ Tries
  /\ UNCHANGED <<input, jobVars, apc, used, box, faults>>

AllExhausted ==
  /\ apc = "model" /\ plan = <<>>
  /\ apc' = "done"
  /\ UNCHANGED <<input, jobVars, plan, tried, rounds, used, box, faults>>

\* Without the check of the allowed tools.
ExecutableUnchecked(names) == names \cap LocalTools
Executable(names) == names \cap input.tools \cap LocalTools

\* A round: the model asks for any tools, of which execute_tool_call runs the allowed.
ToolRound ==
  /\ apc = "tools"
  /\ \E asked \in SUBSET Tools : used' = used \cup Executable(asked)
  /\ rounds' = rounds + 1 /\ apc' = "model"
  /\ UNCHANGED <<input, jobVars, plan, tried, box, faults>>

\* After the text, the tools the client has requested.
RequestedTools ==
  /\ apc = "requested"
  /\ used' = used \cup Executable(input.requested)
  /\ apc' = "done"
  /\ UNCHANGED <<input, jobVars, plan, tried, rounds, box, faults>>

\* The agent's process ends with its request; a container goes on.
AgentDies ==
  /\ apc \notin {"idle", "done"}
  /\ apc' = "done" /\ Faulty("agent died")
  /\ UNCHANGED <<input, jobVars, plan, tried, rounds, used, box>>

-----------------------------------------------------------------------------
JobStep   == Retrieve \/ Decide \/ Request \/ GiveUp \/ Record \/ Fallback \/ Commit
AgentStep == \/ RunContainer \/ ContainerEnds \/ ContainerTimeout \/ RemoveContainer
             \/ ModelAnswers \/ ModelFails \/ AllExhausted \/ ToolRound \/ RequestedTools

Next == StartJob \/ JobStep \/ JobFails \/ WorkerDies \/ DirectRun \/ AgentStep \/ AgentDies

Spec == Init /\ [][Next]_vars

\* The timeouts see to it that the job and the agent go on.
Fairness == WF_vars(JobStep) /\ WF_vars(AgentStep)

FairSpec == Spec /\ Fairness
-----------------------------------------------------------------------------
\* The run that is saved tells where the reply came from: SUCCEEDED goes with the
\* agent's text and with nothing else, TIMEOUT with a container that did time out, and
\* no run stays STARTED; a tool command and an empty message have no run.
RunMatchesReply ==
  saved.reply # "none" =>
    /\ saved.run = "succeeded" <=> saved.reply = "agent"
    /\ saved.run = "timeout" => apc = "done" /\ (box = "removed" \/ "docker rm" \in faults)
    /\ saved.run = "none" <=> saved.reply \in {"tool", "confirmation"}
    /\ saved.run # "started"

\* The agent tries each model of the chain at most once and in order, at most two after
\* the first, and executes no tool that the template does not allow or that is not its own.
AgentWithinBounds ==
  /\ Len(tried) <= MaxHops + 1
  /\ IsPrefix(tried, OrDefault(Distinct(input.chain), Agents))
  /\ used \subseteq input.tools \cap LocalTools

\* Whatever the agent and its container do, the message is answered: a job that ends
\* without a reply met a failure of the database, of its process or of the connection to
\* OpenAI, or an error text too long for its column.
AnsweredDespiteAgent ==
  pc \in {"raised", "dead"} => saved.reply # "none" \/ faults \ {"docker rm", "agent died"} # {}

\* A container that runs stops, although the job has long ceased to wait for it, unless
\* the agent died or docker could not remove it.
ContainersStop == box = "running" ~> box # "running" \/ faults \cap {"docker rm", "agent died"} # {}
=============================================================================
