----------------------------- MODULE MCWorkerJobs -----------------------------
(***************************************************************************)
(* The two long jobs of the worker in one run: the processing of a media   *)
(* asset, one of each interesting make, and the making of a reply with the *)
(* runtime agent.  They share no state, so each behaviour is one of one of *)
(* them while the other does not begin.                                    *)
(***************************************************************************)
EXTENDS MediaProcessing, Sequences

CONSTANTS a1, w1, w2, o1, o2

MCAssets  == {a1}
MCWorkers == {w1, w2}
MCOps     == {o1, o2}

Plain   == [kind |-> "file", reads |-> "file", inline |-> "none", url |-> FALSE,
            thumb |-> FALSE, caption |-> FALSE, bogus |-> FALSE]
Voice   == [Plain EXCEPT !.kind = "audio", !.reads = "audio", !.inline = "valid", !.bogus = TRUE]
Photo   == [Plain EXCEPT !.kind = "image", !.reads = "image", !.inline = "valid", !.thumb = TRUE]
Preview == [Plain EXCEPT !.kind = "image", !.reads = "image", !.inline = "invalid", !.thumb = TRUE,
                         !.caption = TRUE]
Link    == [Plain EXCEPT !.reads = "pdf", !.url = TRUE]
Clip    == [Plain EXCEPT !.kind = "video", !.reads = "video", !.url = TRUE, !.thumb = TRUE]

MCUploads == {[a \in MCAssets |-> it] : it \in {Voice, Photo, Preview, Link, Clip, Plain}}

CONSTANTS Models, Default, Agents, Blank, Tools, LocalTools, Inputs, MaxHops, MaxToolRounds

\* Chains with blank and repeated names and more models than are tried, every combination
\* of keys, and an image reference that is well formed or not.
Chains == {<<>>, <<"gpt", "blank", "gpt", "mini", "nano", "max">>, <<"blank", "mini">>}

Asked   == [text : {"plain"}, chain : Chains, tools : {{}, {"echo", "shell"}},
            requested : {{"echo", "upper", "shell"}},
            backendKey : BOOLEAN, agentKey : BOOLEAN, safeImage : BOOLEAN]
Unasked == [text : {"none", "command"}, chain : {<<>>}, tools : {{}}, requested : {{}},
            backendKey : BOOLEAN, agentKey : {TRUE}, safeImage : {TRUE}]

MCInputs == Asked \cup Unasked

VARIABLES
  part,      \* which of the two the behaviour is about
  input, pc, broken, run, result, next, reply, saved, apc, plan, tried, rounds, used, box, faults

agentVars == <<input, pc, broken, run, result, next, reply, saved, apc, plan, tried, rounds, used,
               box, faults>>

Agent == INSTANCE AgentReply

\* The models and tools of a configuration.
ASSUME AgentAssumption ==
  /\ {Default, Agents} \subseteq Models /\ MaxHops \in Nat /\ MaxToolRounds \in Nat
  /\ \A i \in Inputs : i.requested \subseteq Tools /\ i.chain \in Seq(Models \cup {Blank})

Begin ==
  /\ Init /\ Agent!Init
  /\ part \in {"media", "reply"}
  /\ part = "media" => input = CHOOSE i \in Inputs : TRUE
  /\ part = "reply" => item = CHOOSE u \in Uploads : TRUE

ProcessMedia == part = "media" /\ Next /\ (item[a1] # Voice => ops' < MaxOps) /\ UNCHANGED <<part, agentVars>>

MakeReply == part = "reply" /\ Agent!Next /\ UNCHANGED <<part, vars>>

Step == ProcessMedia \/ MakeReply

WorkerJobs == Begin /\ [][Step]_<<part, vars, agentVars>> /\ Fairness /\ Agent!Fairness

\* The state of both jobs is well typed.
TypesOK == TypeOK /\ Agent!TypeOK

RunMatchesReply      == Agent!RunMatchesReply
AgentWithinBounds    == Agent!AgentWithinBounds
AnsweredDespiteAgent == Agent!AnsweredDespiteAgent
ContainersStop       == Agent!ContainersStop
=============================================================================
