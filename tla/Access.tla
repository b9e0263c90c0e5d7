------------------------------- MODULE Access -------------------------------
(***************************************************************************)
(* Staff accounts: logins with their lockout counter, the access tokens    *)
(* they issue, and the administration of users, their roles and their      *)
(* deletion.  The limiter in front of the logins is RateLimiter.           *)
(*                                                                         *)
(* Requests run concurrently.  Their sessions are at READ COMMITTED and    *)
(* nothing is locked between a read and the commit that depends on it.  A  *)
(* token carries the role it was issued with and is never looked up again. *)
(***************************************************************************)
EXTENDS Integers

CONSTANTS
  Users,        \* staff accounts that exist at the start
  Assigned,     \* their roles at the start
  RoleChoices,  \* the sets of roles an administrator may assign
  Logins,       \* concurrent login requests
  Admins,       \* concurrent requests of administrators
  Threshold, LockSeconds,  \* the lockout
  Ttl,                     \* lifetime of a token
  MaxTime,      \* bound: the clock
  Budgets       \* bound: how many logins and other requests are made, one choice per behaviour

Roles == {"owner", "admin", "operator", "viewer"}
Never == -1

VARIABLES
  now,       \* the clock
  row,       \* users: whether it exists and is active, its counter and its lock
  roles,     \* user_roles: the roles of each user, each with the request that inserted it
  actors,    \* users that audit_events names as actors
  tokens,    \* access tokens issued
  login,     \* what each login request has read
  adm,       \* what each administration request has read
  left,      \* requests still to be made
  streak,    \* history: failed logins of each user since the last success or lock
  crossed,   \* history: users of whom two requests wrote the account at once, or a commit failed
  mixed,     \* history: users whose roles two requests replaced at once
  held,      \* history: when each user last held an administrator's role
  lag,       \* history: the longest time from the roles of a user to the clock of a token
  refused    \* history: users whose deletion the database has refused

dbVars  == <<row, roles, actors>>
history == <<streak, crossed, mixed, held, lag, refused>>
vars == <<now, dbVars, tokens, login, adm, left, history>>

IdleLogin == [pc |-> "idle", user |-> CHOOSE u \in Users : TRUE, at |-> 0, failed |-> 0,
              locked |-> Never, role |-> "viewer"]
IdleAdm   == [pc |-> "idle", by |-> CHOOSE u \in Users : TRUE, user |-> CHOOSE u \in Users : TRUE,
              new |-> {}, gone |-> {}, op |-> 0, at |-> 0, failed |-> 0, locked |-> Never]

LoginStates == {"idle", "allowed", "bad", "good", "resolved", "issued"}
AdmStates   == {"idle", "roles", "active", "delete", "password"}
RoleRows    == Roles \X Nat

TypeOK ==
  /\ now \in Nat
  /\ row \in [Users -> [here : BOOLEAN, active : BOOLEAN, failed : Nat, locked : Nat \cup {Never}]]
  /\ roles \in [Users -> SUBSET RoleRows]
  /\ actors \subseteq Users
  /\ tokens \subseteq [user : Users, role : Roles, exp : Nat]
  /\ login \in [Logins -> [pc : LoginStates, user : Users, at : Nat, failed : Nat,
                           locked : Nat \cup {Never}, role : Roles]]
  /\ adm \in [Admins -> [pc : AdmStates, by : Users, user : Users, new : SUBSET Roles,
                         gone : SUBSET RoleRows, op : Nat, at : Nat, failed : Nat, locked : Nat \cup {Never}]]
  /\ left \in [logins : Nat, ops : Nat]
  /\ streak \in [Users -> Nat]
  /\ crossed \subseteq Users /\ mixed \subseteq Users
  /\ held \in [Users -> Nat \cup {Never}]
  /\ lag \in [Users -> Nat]
  /\ refused \subseteq Users

\* Roles that may administer users.
Administer == {"owner", "admin"}

RolesOf(u) == {r[1] : r \in roles[u]}
Holds(u) == row[u].here /\ RolesOf(u) \cap Administer # {}

Init ==
  /\ now = 0 /\ left \in Budgets
  /\ row = [u \in Users |-> [here |-> TRUE, active |-> TRUE, failed |-> 0, locked |-> Never]]
  /\ roles = [u \in Users |-> Assigned[u] \X {0}]
  /\ actors = {} /\ tokens = {}
  /\ login = [l \in Logins |-> IdleLogin]
  /\ adm = [a \in Admins |-> IdleAdm]
  /\ streak = [u \in Users |-> 0]
  /\ crossed = {} /\ mixed = {}
  /\ held = [u \in Users |-> IF Assigned[u] \cap Administer # {} THEN 0 ELSE Never]
  /\ lag = [u \in Users |-> 0]
  /\ refused = {}

Tick ==
  /\ now < MaxTime
  /\ now' = now + 1
  /\ held' = [u \in Users |-> IF Holds(u) THEN now' ELSE held[u]]
  /\ UNCHANGED <<dbVars, tokens, login, adm, left, streak, crossed,
                 mixed, lag, refused>>

\* An attribute assigned the value it was loaded with is not part of the UPDATE.
Written(loaded, new, current) == IF new = loaded THEN current ELSE new

\* Requests that have loaded the account of u and will write its counter and its lock.
Writers(u) == {l \in Logins : login[l].user = u /\ login[l].pc \in {"bad", "good", "resolved", "issued"}}
                \cup {a \in Admins : adm[a].user = u /\ adm[a].pc = "password"}

-----------------------------------------------------------------------------
(* Logins.                                                                 *)

LoginDone(l) == login' = [login EXCEPT ![l] = IdleLogin]

\* An attempt that the limiter lets pass.
Attempt(l, u) ==
  /\ login[l].pc = "idle" /\ left.logins > 0
  /\ left' = [left EXCEPT !.logins = @ - 1]
  /\ login' = [login EXCEPT ![l].pc = "allowed", ![l].user = u]
  /\ UNCHANGED <<now, dbVars, tokens, adm, history>>

\* login_user loads the account; an inactive or locked one ends the login, and the
\* password, checked against the hash, is right or wrong.
Load(l) ==
  LET u == login[l].user IN
  /\ login[l].pc = "allowed"
  /\ IF ~row[u].here \/ ~row[u].active \/ row[u].locked > now
     THEN LoginDone(l) /\ UNCHANGED crossed
     ELSE /\ \E pc \in {"good", "bad"} :
               login' = [login EXCEPT ![l].pc = pc, ![l].at = now, ![l].failed = row[u].failed,
                                      ![l].locked = row[u].locked]
          /\ crossed' = IF Writers(u) = {} THEN crossed ELSE crossed \cup {u}
  /\ UNCHANGED <<now, dbVars, tokens, adm, left, streak, mixed, held, lag, refused>>

\* Locks one failure late.
LocksLate(n) == n > Threshold
Locks(n) == n >= Threshold

\* _register_failed_login: the counter as loaded plus one, or the lock and a new count.
FailLogin(l) ==
  LET u == login[l].user  n == login[l].failed + 1 IN
  /\ login[l].pc = "bad"
  /\ IF row[u].here
     THEN /\ row' = [row EXCEPT ![u].failed = IF Locks(n) THEN Written(login[l].failed, 0, @) ELSE n,
                                ![u].locked = IF Locks(n) THEN login[l].at + LockSeconds ELSE @]
          /\ actors' = IF Locks(n) THEN actors \cup {u} ELSE actors
          /\ streak' = [streak EXCEPT ![u] = IF Locks(n) THEN 0 ELSE @ + 1]
     ELSE UNCHANGED <<row, actors, streak>>
  /\ LoginDone(l)
  /\ UNCHANGED <<now, roles, tokens, adm, left, crossed, mixed, held, lag, refused>>

\* The highest of the user's roles; without one, viewer.
TopRole(u) ==
  LET r == RolesOf(u) IN
  IF "owner" \in r THEN "owner" ELSE IF "admin" \in r THEN "admin"
  ELSE IF "operator" \in r THEN "operator" ELSE "viewer"

\* _resolve_scope_for_user reads the roles, and after them the groups, ...
Resolve(l) ==
  /\ login[l].pc = "good"
  /\ login' = [login EXCEPT ![l].pc = "resolved", ![l].role = TopRole(login[l].user), ![l].at = now]
  /\ UNCHANGED <<now, dbVars, tokens, adm, left, history>>

\* ... issue_access_token reads the clock, whatever became of the roles meanwhile, ...
Issue(l) ==
  LET u == login[l].user  wait == now - login[l].at IN
  /\ login[l].pc = "resolved"
  /\ login' = [login EXCEPT ![l].pc = "issued", ![l].at = now]
  /\ lag' = [lag EXCEPT ![u] = IF wait > @ THEN wait ELSE @]
  /\ UNCHANGED <<now, dbVars, tokens, adm, left, streak, crossed, mixed, held, refused>>

\* ... and the commit resets counter and lock and records the login.
Succeed(l) ==
  LET u == login[l].user IN
  /\ login[l].pc = "issued"
  /\ IF row[u].here
     THEN /\ row' = [row EXCEPT ![u].failed = Written(login[l].failed, 0, @),
                                ![u].locked = Written(login[l].locked, Never, @)]
          /\ actors' = actors \cup {u}
          /\ streak' = [streak EXCEPT ![u] = 0]
          /\ tokens' = tokens \cup {[user |-> u, role |-> login[l].role, exp |-> login[l].at + Ttl]}
     ELSE UNCHANGED <<row, actors, streak, tokens>>
  /\ LoginDone(l)
  /\ UNCHANGED <<now, roles, adm, left, crossed, mixed, held, lag, refused>>

\* The database fails before the commit.
LoginFails(l) ==
  /\ login[l].pc \in {"allowed", "bad", "good", "resolved", "issued"}
  /\ crossed' = crossed \cup {login[l].user}
  /\ LoginDone(l)
  /\ UNCHANGED <<now, dbVars, tokens, adm, left, streak, mixed, held, lag, refused>>

-----------------------------------------------------------------------------
(* Administration.                                                         *)

\* Without the check of the expiry.
ValidForEver(tok) == TRUE

\* decode_access_token.
Valid(tok) == tok.exp > now

\* A request with a token of u, in one of the given roles, that goes on in state pc.
Accept(a, u, allowed, read) ==
  /\ adm[a].pc = "idle" /\ left.ops > 0
  /\ \E tok \in tokens : tok.user = u /\ tok.role \in allowed /\ Valid(tok)
  /\ left' = [left EXCEPT !.ops = @ - 1]
  /\ adm' = [adm EXCEPT ![a] = [read EXCEPT !.by = u, !.op = left.ops, !.at = now]]

AdmDone(a) == adm' = [adm EXCEPT ![a] = IdleAdm]

\* Replaces nothing.
NoneGone(u) == {}

\* The rows the DELETE of _replace_roles finds.
Gone(u) == roles[u]

\* set_user_roles: the old rows are deleted at once, the new ones inserted at the commit.
SetRoles(a, by, u, new) ==
  /\ row[u].here
  /\ Accept(a, by, Administer, [IdleAdm EXCEPT !.pc = "roles", !.user = u, !.gone = Gone(u),
                                        !.new = IF new = {} THEN {"viewer"} ELSE new])
  /\ mixed' = IF \E b \in Admins : adm[b].pc = "roles" /\ adm[b].user = u THEN mixed \cup {u} ELSE mixed
  /\ UNCHANGED <<now, dbVars, tokens, login, streak, crossed, held, lag, refused>>

\* A role inserted meanwhile violates the unique constraint, a missing actor or user the
\* foreign key.
CommitRoles(a) ==
  LET u == adm[a].user  rest == roles[u] \ adm[a].gone IN
  /\ adm[a].pc = "roles"
  /\ IF row[u].here /\ row[adm[a].by].here /\ {r[1] : r \in rest} \cap adm[a].new = {}
     THEN /\ roles' = [roles EXCEPT ![u] = rest \cup (adm[a].new \X {adm[a].op})]
          /\ actors' = actors \cup {adm[a].by}
     ELSE UNCHANGED <<roles, actors>>
  /\ held' = [held EXCEPT ![u] = IF row[u].here /\ {r[1] : r \in roles'[u]} \cap Administer # {} THEN now ELSE @]
  /\ AdmDone(a)
  /\ UNCHANGED <<now, row, tokens, login, left, streak, crossed, mixed, lag, refused>>

\* update_user activates or deactivates an account.
SetActive(a, by, u) ==
  /\ row[u].here
  /\ Accept(a, by, Administer, [IdleAdm EXCEPT !.pc = "active", !.user = u])
  /\ UNCHANGED <<now, dbVars, tokens, login, streak, crossed, mixed, held, lag, refused>>

CommitActive(a) ==
  LET u == adm[a].user IN
  /\ adm[a].pc = "active"
  /\ IF row[u].here /\ row[adm[a].by].here
     THEN /\ \E active \in BOOLEAN : row' = [row EXCEPT ![u].active = active]
          /\ actors' = actors \cup {adm[a].by}
     ELSE UNCHANGED <<row, actors>>
  /\ AdmDone(a)
  /\ UNCHANGED <<now, roles, tokens, login, left, history>>

\* hard_delete_user, of any user but the one who asks.
Delete(a, by, u) ==
  /\ row[u].here /\ by # u
  /\ Accept(a, by, Administer, [IdleAdm EXCEPT !.pc = "delete", !.user = u])
  /\ UNCHANGED <<now, dbVars, tokens, login, streak, crossed, mixed, held, lag, refused>>

\* The foreign key of audit_events sets the actor to NULL, and the trigger that keeps the
\* table append-only refuses that update.
Undeletable(u) == u \in actors

CommitDelete(a) ==
  LET u == adm[a].user IN
  /\ adm[a].pc = "delete"
  /\ IF row[u].here /\ row[adm[a].by].here /\ ~Undeletable(u)
     THEN /\ row' = [row EXCEPT ![u].here = FALSE]
          /\ roles' = [roles EXCEPT ![u] = {}]
          /\ actors' = actors \cup {adm[a].by}
          /\ UNCHANGED refused
     ELSE /\ refused' = IF row[u].here /\ row[adm[a].by].here THEN refused \cup {u} ELSE refused
          /\ UNCHANGED dbVars
  /\ AdmDone(a)
  /\ UNCHANGED <<now, tokens, login, left, streak, crossed, mixed, held, lag>>

\* change_password, of the account of the token, whatever its state: with the current
\* password and one the policy accepts.
ChangePassword(a, u) ==
  /\ row[u].here
  /\ Accept(a, u, Roles, [IdleAdm EXCEPT !.pc = "password", !.user = u, !.failed = row[u].failed,
                                         !.locked = row[u].locked])
  /\ crossed' = IF Writers(u) = {} THEN crossed ELSE crossed \cup {u}
  /\ UNCHANGED <<now, dbVars, tokens, login, streak, mixed, held, lag, refused>>

CommitPassword(a) ==
  LET u == adm[a].user IN
  /\ adm[a].pc = "password"
  /\ IF row[u].here
     THEN /\ row' = [row EXCEPT ![u].failed = Written(adm[a].failed, 0, @),
                                ![u].locked = Written(adm[a].locked, Never, @)]
          /\ actors' = actors \cup {u}
          /\ streak' = [streak EXCEPT ![u] = 0]
     ELSE UNCHANGED <<row, actors, streak>>
  /\ AdmDone(a)
  /\ UNCHANGED <<now, roles, tokens, login, left, crossed, mixed, held, lag, refused>>

AdminFails(a) ==
  /\ adm[a].pc # "idle"
  /\ crossed' = IF adm[a].pc = "password" THEN crossed \cup {adm[a].user} ELSE crossed
  /\ AdmDone(a)
  /\ UNCHANGED <<now, dbVars, tokens, login, left, streak, mixed, held, lag, refused>>

-----------------------------------------------------------------------------
Next ==
  \/ Tick
  \/ \E l \in Logins : \/ \E u \in Users : Attempt(l, u)
                       \/ Load(l) \/ FailLogin(l) \/ Resolve(l) \/ Issue(l) \/ Succeed(l)
                       \/ LoginFails(l)
  \/ \E a \in Admins :
       \/ \E by, u \in Users : \/ \E new \in RoleChoices : SetRoles(a, by, u, new)
                               \/ SetActive(a, by, u) \/ Delete(a, by, u)
       \/ \E u \in Users : ChangePassword(a, u)
       \/ CommitRoles(a) \/ CommitActive(a) \/ CommitDelete(a) \/ CommitPassword(a) \/ AdminFails(a)

Spec == Init /\ [][Next]_vars
-----------------------------------------------------------------------------
\* The lock comes with the Threshold-th failure in a row at the latest, for users whose
\* logins do not overlap: concurrent ones write over each other's count.
LockInTime == \A u \in Users \ crossed : streak[u] < Threshold

\* An administrator's request is accepted within a token's lifetime of a moment at which
\* its user held such a role, although roles, accounts and users change meanwhile.  A role
\* lost between the query and the clock of a login is in its token all the same: the bound
\* is later by the longest time that a login of the user took from the one to the other.
AuthorityBounded ==
  \A a \in Admins : adm[a].pc \in {"roles", "active", "delete"} =>
    LET u == adm[a].by IN held[u] # Never /\ adm[a].at < held[u] + Ttl + lag[u]

\* The roles of a user are those that one request has set, not a mixture of two.
RolesOfOneRequest == \A u \in Users \ mixed : \A r, s \in roles[u] : r[2] = s[2]

\* The database carries out the deletion of any user.
HardDeleteWorks == refused = {}
=============================================================================
