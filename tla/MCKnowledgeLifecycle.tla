------------------------ MODULE MCKnowledgeLifecycle ------------------------
(* Two requests may overlap; the compose file runs one worker.             *)
EXTENDS KnowledgeLifecycle

CONSTANTS e1, e2, w1

MCEditors == {e1, e2}
MCWorkers == {w1}
=============================================================================
