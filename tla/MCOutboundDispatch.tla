------------------------ MODULE MCOutboundDispatch ------------------------
(* Small instances of OutboundDispatch: one reply and one activation, two  *)
(* workers, so that any worker may take either job.                        *)
EXTENDS OutboundDispatch, TLC

CONSTANTS r1, a1, w1, w2

MCReplies     == {r1}
MCActivations == {a1}
MCWorkers     == {w1, w2}

Symmetry == Permutations(MCWorkers)
=============================================================================
