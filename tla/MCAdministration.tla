--------------------------- MODULE MCAdministration ---------------------------
(***************************************************************************)
(* The dashboard's API in one run: templates, bindings and builds, the     *)
(* accounts of the staff, and the limiter in front of their logins.  They  *)
(* share no state, so each behaviour is one of one part while the others   *)
(* stay in their initial states.  Of provisioning there are two: with all  *)
(* publications and no binding, and with one publication less and bindings.*)
(* Of the accounts there are two: up to three requests, any of them at the *)
(* same time, and four, of which one login and one of an administrator may *)
(* be under way at a time.                                                 *)
(***************************************************************************)
EXTENDS Provisioning

CONSTANTS r1, r2, w1, g1, l1, l2, m1, m2, t1, t2, t3

MCRequests == {r1, r2}
MCWorkers  == {w1}
MCGroups   == {g1}
MCQuota    == [draft |-> 2, publish |-> 3, bind |-> 2, unbind |-> 1, build |-> 1]

CONSTANTS Users, Assigned, RoleChoices, Logins, Admins, Threshold, LockSeconds, Ttl, Budgets
CONSTANTS Threads, MaxAttempts, Window, MaxCalls
CONSTANTS MaxTime

MCUsers    == {"ann", "ben"}
MCAssigned == [u \in MCUsers |-> IF u = "ann" THEN {"owner"} ELSE {"admin"}]
MCChoices  == {{"admin"}, {"operator"}}
MCLogins   == {l1, l2}
MCAdmins   == {m1, m2}
MCBudgets  == {[logins |-> 3, ops |-> 0], [logins |-> 2, ops |-> 1], [logins |-> 1, ops |-> 2],
               [logins |-> 2, ops |-> 2]}
MCThreads  == {t1, t2, t3}

VARIABLES
  part,                                                                  \* what the behaviour is about
  clock, row, roles, actors, tokens, login, adm, left, streak, crossed, mixed, held, lag, refused,
  now, stamp, bucket, calls, granted, late

accountVars == <<clock, row, roles, actors, tokens, login, adm, left, streak, crossed, mixed, held, lag, refused>>
limiterVars == <<now, stamp, bucket, calls, granted, late>>

Accounts == INSTANCE Access WITH now <- clock
Limiter  == INSTANCE RateLimiter

Begin ==
  /\ Init /\ Limiter!Init
  /\ Accounts!Init
  /\ part \in {"versions", "groups", "accounts", "turns", "limiter"}
  /\ IF part \in {"accounts", "turns"} THEN (part = "turns") = (left.logins + left.ops > 3)
     ELSE left = CHOOSE b \in Budgets : TRUE

Provision ==
  /\ part \in {"versions", "groups"} /\ Next
  /\ IF part = "versions" THEN asked'["bind"] = 0 ELSE asked'["publish"] < MCQuota["publish"]
  /\ UNCHANGED <<part, accountVars, limiterVars>>

Administrate ==
  /\ part \in {"accounts", "turns"} /\ Accounts!Next
  /\ part = "turns" => login'[l2].pc = "idle" /\ adm'[m2].pc = "idle"
  /\ UNCHANGED <<part, vars, limiterVars>>

Limit == part = "limiter" /\ Limiter!Next /\ UNCHANGED <<part, vars, accountVars>>

Step == Provision \/ Administrate \/ Limit

Administration == Begin /\ [][Step]_<<part, vars, accountVars, limiterVars>> /\ Fairness

\* The state of each part is well typed.
TypesOK == TypeOK /\ Accounts!TypeOK /\ Limiter!TypeOK

AttemptsBounded   == Limiter!AttemptsBounded
LockInTime        == Accounts!LockInTime
AuthorityBounded  == Accounts!AuthorityBounded
RolesOfOneRequest == Accounts!RolesOfOneRequest
HardDeleteWorks   == Accounts!HardDeleteWorks
=============================================================================
