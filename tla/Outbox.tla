------------------------------- MODULE Outbox -------------------------------
(***************************************************************************)
(* What the outbound pipeline promises about one outbound intent, with the *)
(* worker, the queue, the gateway and every failure hidden: nothing is     *)
(* posted to the chat before the intent exists, an intent is posted at     *)
(* most Limit[i] times, it is confirmed only once a copy was posted, and a *)
(* confirmed intent is not opened again (it can still be written off, when *)
(* the confirmation itself fails half way).                                *)
(***************************************************************************)
EXTENDS Naturals

CONSTANTS Intents,   \* the outbound intents
          Limit      \* Limit[i] \in Nat: the most copies of intent i ever posted

VARIABLES entry,     \* what the database says of each intent
          copies     \* how many messages of each intent the chat received

vars == <<entry, copies>>

Entries == {"absent", "open", "confirmed", "rejected"}

TypeOK == /\ entry \in [Intents -> Entries]
          /\ copies \in [Intents -> Nat]

Init == /\ entry = [i \in Intents |-> "absent"]
        /\ copies = [i \in Intents |-> 0]

Becomes(i, e) == /\ entry' = [entry EXCEPT ![i] = e]
                 /\ UNCHANGED copies

Submit(i) == entry[i] = "absent" /\ Becomes(i, "open")

Post(i) == /\ entry[i] # "absent"
           /\ copies[i] < Limit[i]
           /\ copies' = [copies EXCEPT ![i] = @ + 1]
           /\ UNCHANGED entry

Confirm(i) == /\ entry[i] # "absent"
              /\ copies[i] > 0
              /\ Becomes(i, "confirmed")

Reject(i) == entry[i] # "absent" /\ Becomes(i, "rejected")

Reopen(i) == entry[i] = "rejected" /\ Becomes(i, "open")

Next == \E i \in Intents : \/ Submit(i) \/ Post(i)
                           \/ Confirm(i) \/ Reject(i) \/ Reopen(i)

Spec == Init /\ [][Next]_vars
=============================================================================
