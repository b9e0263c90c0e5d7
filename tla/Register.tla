------------------------------ MODULE Register ------------------------------
(***************************************************************************)
(* What the bindings promise about the groups, with the requests and their *)
(* races hidden: a group is held by at most one binding at a time, a       *)
(* binding takes its group once and with its activation notice in the same *)
(* step, and a group that was left is free for another binding.            *)
(***************************************************************************)
CONSTANTS Groups, Bindings, Nobody

VARIABLES holder,   \* the binding that holds each group, or Nobody
          noticed   \* the bindings whose activation notice exists

Init == holder = [g \in Groups |-> Nobody] /\ noticed = {}

Take(g, b) == /\ holder[g] = Nobody /\ b \notin noticed
              /\ holder' = [holder EXCEPT ![g] = b]
              /\ noticed' = noticed \cup {b}

Leave(g) == /\ holder[g] # Nobody
            /\ holder' = [holder EXCEPT ![g] = Nobody]
            /\ UNCHANGED noticed

Next == \E g \in Groups : Leave(g) \/ \E b \in Bindings : Take(g, b)

Spec == Init /\ [][Next]_<<holder, noticed>>
=============================================================================
