---------------------------- MODULE Access_proofs ----------------------------
(***************************************************************************)
(* Proofs about Access for every set of users, roles assigned, concurrent  *)
(* requests and settings.                                                  *)
(***************************************************************************)
EXTENDS Access, TLAPS

\* Users have roles, requests assign roles, and the settings are natural numbers.
Parameters ==
  /\ Users # {}
  /\ Assigned \in [Users -> SUBSET Roles]
  /\ RoleChoices \subseteq SUBSET Roles
  /\ Threshold \in Nat /\ LockSeconds \in Nat /\ Ttl \in Nat /\ MaxTime \in Nat
  /\ Budgets \subseteq [logins : Nat, ops : Nat]

-----------------------------------------------------------------------------
(* Types.                                                                  *)

LoginRows == [pc : LoginStates, user : Users, at : Nat, failed : Nat, locked : Nat \cup {Never}, role : Roles]
AdmRows == [pc : AdmStates, by : Users, user : Users, new : SUBSET Roles, gone : SUBSET RoleRows,
            op : Nat, at : Nat, failed : Nat, locked : Nat \cup {Never}]
UserRows == [here : BOOLEAN, active : BOOLEAN, failed : Nat, locked : Nat \cup {Never}]

LEMMA IdleTypes ==
  ASSUME Parameters
  PROVE  IdleLogin \in LoginRows /\ IdleAdm \in AdmRows /\ IdleLogin.pc = "idle" /\ IdleAdm.pc = "idle"
<1>1. (CHOOSE u \in Users : TRUE) \in Users
  BY DEF Parameters
<1> QED
  BY <1>1 DEF IdleLogin, IdleAdm, LoginRows, AdmRows, LoginStates, AdmStates, Roles, RoleRows

LEMMA WrittenType ==
  \A S : \A loaded, new \in S, current \in S : Written(loaded, new, current) \in S
BY DEF Written

LEMMA TopRoleType == \A u : TopRole(u) \in Roles
BY DEF TopRole, Roles

LEMMA AcceptType ==
  ASSUME Parameters, TypeOK, NEW a \in Admins, NEW u \in Users, NEW allowed, NEW read \in AdmRows,
         Accept(a, u, allowed, read)
  PROVE  adm' \in [Admins -> AdmRows] /\ left' \in [logins : Nat, ops : Nat]
<1>1. left.ops \in Nat /\ now \in Nat /\ adm \in [Admins -> AdmRows]
  BY DEF TypeOK, AdmRows
<1>2. [read EXCEPT !.by = u, !.op = left.ops, !.at = now] \in AdmRows
  BY <1>1 DEF AdmRows
<1>3. adm' \in [Admins -> AdmRows]
  BY <1>1, <1>2 DEF Accept
<1>4. left' \in [logins : Nat, ops : Nat]
  BY DEF Accept, TypeOK
<1> QED
  BY <1>3, <1>4

LEMMA DoneTypes ==
  ASSUME Parameters, TypeOK
  PROVE  /\ \A l \in Logins : LoginDone(l) => login' \in [Logins -> LoginRows]
         /\ \A a \in Admins : AdmDone(a) => adm' \in [Admins -> AdmRows]
<1>1. login \in [Logins -> LoginRows] /\ adm \in [Admins -> AdmRows]
  BY DEF TypeOK, LoginRows, AdmRows
<1>2. ASSUME NEW l \in Logins, LoginDone(l) PROVE login' \in [Logins -> LoginRows]
  BY <1>1, <1>2, IdleTypes DEF LoginDone
<1>3. ASSUME NEW a \in Admins, AdmDone(a) PROVE adm' \in [Admins -> AdmRows]
  BY <1>1, <1>3, IdleTypes DEF AdmDone
<1> QED
  BY <1>2, <1>3

Counted(u, n, k) == [row EXCEPT ![u].failed = n, ![u].locked = k]

LEMMA CounterType ==
  ASSUME TypeOK, NEW u \in Users, NEW n \in Nat, NEW k \in Nat \cup {Never}
  PROVE  Counted(u, n, k) \in [Users -> UserRows]
<1> DEFINE once == [row EXCEPT ![u].failed = n]
<1>1. row \in [Users -> UserRows]
  BY DEF TypeOK, UserRows
<1>2. once \in [Users -> UserRows]
  BY <1>1 DEF UserRows
<1> HIDE DEF once
<1>3. [once EXCEPT ![u].locked = k] \in [Users -> UserRows]
  BY <1>2 DEF UserRows
<1> QED
  BY <1>3 DEF once, Counted

Switched(u, active) == [row EXCEPT ![u].active = active]
Removed(u) == [row EXCEPT ![u].here = FALSE]

LEMMA FlagType ==
  ASSUME TypeOK, NEW u \in Users
  PROVE  (\A b \in BOOLEAN : Switched(u, b) \in [Users -> UserRows]) /\ Removed(u) \in [Users -> UserRows]
<1>1. row \in [Users -> UserRows]
  BY DEF TypeOK, UserRows
<1> QED
  BY <1>1 DEF UserRows, Switched, Removed

LEMMA CountsType ==
  ASSUME TypeOK, NEW u \in Users,
         row' = row \/ \E n \in Nat, k \in Nat \cup {Never} : row' = Counted(u, n, k)
  PROVE  row' \in [Users -> UserRows]
<1>1. row \in [Users -> UserRows]
  BY DEF TypeOK, UserRows
<1> QED
  BY <1>1, CounterType

\* The login rows that the steps of a login write.
Allowed(l, u)         == [login EXCEPT ![l].pc = "allowed", ![l].user = u]
Loaded(l, pc, n, k)   == [login EXCEPT ![l].pc = pc, ![l].at = now, ![l].failed = n, ![l].locked = k]
Resolved(l, r)        == [login EXCEPT ![l].pc = "resolved", ![l].role = r, ![l].at = now]
Issued(l)             == [login EXCEPT ![l].pc = "issued", ![l].at = now]

LEMMA LoginType ==
  ASSUME TypeOK, NEW l \in Logins
  PROVE  /\ \A u \in Users : Allowed(l, u) \in [Logins -> LoginRows]
         /\ \A pc \in LoginStates, n \in Nat, k \in Nat \cup {Never} :
              Loaded(l, pc, n, k) \in [Logins -> LoginRows]
         /\ \A r \in Roles : Resolved(l, r) \in [Logins -> LoginRows]
         /\ Issued(l) \in [Logins -> LoginRows]
<1>1. login \in [Logins -> LoginRows] /\ now \in Nat
  BY DEF TypeOK, LoginRows
<1>2. ASSUME NEW f \in [Logins -> LoginRows]
      PROVE  /\ \A pc \in LoginStates : [f EXCEPT ![l].pc = pc] \in [Logins -> LoginRows]
             /\ \A u \in Users : [f EXCEPT ![l].user = u] \in [Logins -> LoginRows]
             /\ \A n \in Nat : [f EXCEPT ![l].at = n] \in [Logins -> LoginRows]
             /\ \A n \in Nat : [f EXCEPT ![l].failed = n] \in [Logins -> LoginRows]
             /\ \A k \in Nat \cup {Never} : [f EXCEPT ![l].locked = k] \in [Logins -> LoginRows]
             /\ \A r \in Roles : [f EXCEPT ![l].role = r] \in [Logins -> LoginRows]
  BY DEF LoginRows
<1>3. ASSUME NEW pc \in LoginStates PROVE [login EXCEPT ![l].pc = pc] \in [Logins -> LoginRows]
  BY <1>1, <1>2
<1>s. {"allowed", "resolved", "issued"} \subseteq LoginStates
  BY DEF LoginStates
<1>4. ASSUME NEW u \in Users
      PROVE  Allowed(l, u) \in [Logins -> LoginRows]
  <2> DEFINE first == [login EXCEPT ![l].pc = "allowed"]
  <2>1. first \in [Logins -> LoginRows]
    BY <1>3, <1>s
  <2> HIDE DEF first
  <2>2. [first EXCEPT ![l].user = u] \in [Logins -> LoginRows]
    BY <1>2, <2>1
  <2> QED
    BY <2>2 DEF first, Allowed
<1>5. ASSUME NEW pc \in LoginStates, NEW n \in Nat, NEW k \in Nat \cup {Never}
      PROVE  Loaded(l, pc, n, k) \in [Logins -> LoginRows]
  <2> DEFINE first == [login EXCEPT ![l].pc = pc]
             second == [first EXCEPT ![l].at = now]
             third == [second EXCEPT ![l].failed = n]
  <2>1. first \in [Logins -> LoginRows]
    BY <1>3
  <2> HIDE DEF first
  <2>2. second \in [Logins -> LoginRows]
    BY <1>1, <1>2, <2>1
  <2> HIDE DEF second
  <2>3. third \in [Logins -> LoginRows]
    BY <1>2, <2>2
  <2> HIDE DEF third
  <2>4. [third EXCEPT ![l].locked = k] \in [Logins -> LoginRows]
    BY <1>2, <2>3
  <2> QED
    BY <2>4 DEF first, second, third, Loaded
<1>6. ASSUME NEW r \in Roles
      PROVE  Resolved(l, r) \in [Logins -> LoginRows]
  <2> DEFINE first == [login EXCEPT ![l].pc = "resolved"]
             second == [first EXCEPT ![l].role = r]
  <2>1. first \in [Logins -> LoginRows]
    BY <1>3, <1>s
  <2> HIDE DEF first
  <2>2. second \in [Logins -> LoginRows]
    BY <1>2, <2>1
  <2> HIDE DEF second
  <2>3. [second EXCEPT ![l].at = now] \in [Logins -> LoginRows]
    BY <1>1, <1>2, <2>2
  <2> QED
    BY <2>3 DEF first, second, Resolved
<1>7. Issued(l) \in [Logins -> LoginRows]
  <2> DEFINE first == [login EXCEPT ![l].pc = "issued"]
  <2>1. first \in [Logins -> LoginRows]
    BY <1>3, <1>s
  <2> HIDE DEF first
  <2>2. [first EXCEPT ![l].at = now] \in [Logins -> LoginRows]
    BY <1>1, <1>2, <2>1
  <2> QED
    BY <2>2 DEF first, Issued
<1> QED
  BY <1>4, <1>5, <1>6, <1>7

\* Dating a token: the longest time between roles and token covers that of this login.
LEMMA LagStep ==
  ASSUME TypeOK, NEW l \in Logins, Issue(l)
  PROVE  /\ lag' \in [Users -> Nat]
         /\ now <= login[l].at + lag'[login[l].user]
         /\ \A u \in Users : lag'[u] = lag[u] \/ lag[u] < lag'[u]
<1>1. PICK u \in Users : u = login[l].user
  BY DEF TypeOK
<1>2. PICK t \in Nat, n \in Nat : t = login[l].at /\ n = now
  BY DEF TypeOK
<1>3. lag \in [Users -> Nat]
  BY DEF TypeOK
<1>4. lag' = [lag EXCEPT ![u] = IF n - t > lag[u] THEN n - t ELSE lag[u]]
  BY <1>1, <1>2 DEF Issue
<1>5. /\ lag'[u] = IF n - t > lag[u] THEN n - t ELSE lag[u]
      /\ \A v \in Users : v # u => lag'[v] = lag[v]
  BY <1>3, <1>4
<1>6. PICK k \in Nat : k = lag[u]
  BY <1>3
<1>7. lag'[u] \in Nat /\ n <= t + lag'[u] /\ (lag'[u] = lag[u] \/ lag[u] < lag'[u])
  <2>1. CASE n - t > k
    BY <1>5, <1>6, <2>1
  <2>2. CASE ~(n - t > k)
    BY <1>5, <1>6, <2>2
  <2> QED
    BY <2>1, <2>2
<1>8. lag' \in [Users -> Nat]
  <2>1. DOMAIN lag' = Users /\ lag' = [v \in Users |-> lag'[v]]
    BY <1>3, <1>4
  <2>2. \A v \in Users : lag'[v] \in Nat
    BY <1>3, <1>5, <1>7
  <2> QED
    BY <2>1, <2>2
<1> QED
  BY <1>1, <1>2, <1>5, <1>7, <1>8

LEMMA TypeStep ==
  ASSUME Parameters, TypeOK, [Next]_vars
  PROVE  TypeOK'
<1> USE DEF dbVars, history, LoginRows, AdmRows, UserRows
<1>1. CASE Tick
  <2>1. now' \in Nat /\ held' \in [Users -> Nat \cup {Never}]
    BY <1>1 DEF Tick, TypeOK
  <2> QED
    BY <1>1, <2>1 DEF Tick, TypeOK
<1>2. ASSUME NEW l \in Logins, NEW u \in Users, Attempt(l, u) PROVE TypeOK'
  <2>1. left' \in [logins : Nat, ops : Nat]
    <3>1. left \in [logins : Nat, ops : Nat] /\ left.logins > 0 /\ left' = [left EXCEPT !.logins = @ - 1]
      BY <1>2 DEF Attempt, TypeOK
    <3> QED
      BY <3>1
  <2>2. login' \in [Logins -> LoginRows]
    <3>1. login' = Allowed(l, u)
      BY <1>2 DEF Attempt, Allowed
    <3> HIDE DEF LoginRows
    <3> QED
      BY <3>1, LoginType
  <2> QED
    BY <1>2, <2>1, <2>2 DEF Attempt, TypeOK
<1>3. ASSUME NEW l \in Logins, Load(l) PROVE TypeOK'
  <2>1. login' \in [Logins -> LoginRows]
    <3>1. /\ row[login[l].user].failed \in Nat /\ row[login[l].user].locked \in Nat \cup {Never}
          /\ {"good", "bad"} \subseteq LoginStates
      BY DEF TypeOK, LoginStates
    <3>2. \/ LoginDone(l)
          \/ \E pc \in {"good", "bad"} : login' = Loaded(l, pc, row[login[l].user].failed, row[login[l].user].locked)
      BY <1>3 DEF Load, Loaded
    <3> HIDE DEF LoginRows
    <3>3. CASE LoginDone(l)
      BY <3>3, DoneTypes
    <3>4. ASSUME NEW pc \in {"good", "bad"},
                 login' = Loaded(l, pc, row[login[l].user].failed, row[login[l].user].locked)
          PROVE  login' \in [Logins -> LoginRows]
      <4>1. pc \in LoginStates
        BY DEF LoginStates
      <4> QED
        BY <3>1, <3>4, <4>1, LoginType
    <3> QED
      BY <3>2, <3>3, <3>4
  <2>2. crossed' \subseteq Users
    BY <1>3 DEF Load, TypeOK
  <2> QED
    BY <1>3, <2>1, <2>2 DEF Load, TypeOK
<1>4. ASSUME NEW l \in Logins, FailLogin(l) PROVE TypeOK'
  <2>1. row' \in [Users -> UserRows]
    <3>1. /\ login[l].user \in Users /\ login[l].failed \in Nat /\ login[l].at + LockSeconds \in Nat
          /\ row[login[l].user].failed \in Nat /\ row[login[l].user].locked \in Nat \cup {Never}
      BY DEF TypeOK, Parameters
    <3> DEFINE n == IF Locks(login[l].failed + 1) THEN Written(login[l].failed, 0, row[login[l].user].failed)
                    ELSE login[l].failed + 1
               k == IF Locks(login[l].failed + 1) THEN login[l].at + LockSeconds ELSE row[login[l].user].locked
    <3>2. n \in Nat /\ k \in Nat \cup {Never}
      BY <3>1 DEF Written
    <3>3. row' = row \/ row' = Counted(login[l].user, n, k)
      BY <1>4 DEF FailLogin, Counted
    <3> HIDE DEF n, k, UserRows
    <3> QED
      BY <3>1, <3>2, <3>3, CountsType
  <2>2. actors' \subseteq Users /\ streak' \in [Users -> Nat]
    <3>1. /\ login[l].user \in Users /\ actors' \in {actors, actors \cup {login[l].user}}
          /\ \/ streak' = streak
             \/ streak' = [streak EXCEPT ![login[l].user] = IF Locks(login[l].failed + 1) THEN 0 ELSE @ + 1]
      BY <1>4 DEF FailLogin, TypeOK
    <3>2. streak \in [Users -> Nat] /\ actors \subseteq Users
      BY DEF TypeOK
    <3> QED
      BY <3>1, <3>2
  <2> QED
    BY <1>4, <2>1, <2>2, DoneTypes DEF FailLogin, TypeOK
<1>5. ASSUME NEW l \in Logins, Resolve(l) PROVE TypeOK'
  <2>1. login' \in [Logins -> LoginRows]
    <3>1. login' = Resolved(l, TopRole(login[l].user))
      BY <1>5 DEF Resolve, Resolved
    <3> HIDE DEF LoginRows
    <3> QED
      BY <3>1, TopRoleType, LoginType
  <2> QED
    BY <1>5, <2>1 DEF Resolve, TypeOK
<1>6. ASSUME NEW l \in Logins, Succeed(l) PROVE TypeOK'
  <2>1. row' \in [Users -> UserRows]
    <3>1. /\ login[l].user \in Users /\ login[l].failed \in Nat /\ login[l].locked \in Nat \cup {Never}
          /\ row[login[l].user].failed \in Nat /\ row[login[l].user].locked \in Nat \cup {Never}
      BY DEF TypeOK
    <3> DEFINE n == Written(login[l].failed, 0, row[login[l].user].failed)
               k == Written(login[l].locked, Never, row[login[l].user].locked)
    <3>2. n \in Nat /\ k \in Nat \cup {Never}
      BY <3>1 DEF Written
    <3>3. row' = row \/ row' = Counted(login[l].user, n, k)
      BY <1>6 DEF Succeed, Counted
    <3> HIDE DEF n, k, UserRows
    <3> QED
      BY <3>1, <3>2, <3>3, CountsType
  <2>2. actors' \subseteq Users /\ streak' \in [Users -> Nat]
    <3>1. /\ login[l].user \in Users /\ actors' \in {actors, actors \cup {login[l].user}}
          /\ (streak' = streak \/ streak' = [streak EXCEPT ![login[l].user] = 0])
      BY <1>6 DEF Succeed, TypeOK
    <3>2. streak \in [Users -> Nat] /\ actors \subseteq Users
      BY DEF TypeOK
    <3> QED
      BY <3>1, <3>2
  <2>3. tokens' \subseteq [user : Users, role : Roles, exp : Nat]
    BY <1>6 DEF Succeed, TypeOK, Parameters
  <2> QED
    BY <1>6, <2>1, <2>2, <2>3, DoneTypes DEF Succeed, TypeOK
<1>7. ASSUME NEW l \in Logins, LoginFails(l) PROVE TypeOK'
  BY <1>7, DoneTypes DEF LoginFails, TypeOK
<1>8. ASSUME NEW a \in Admins, NEW by \in Users, NEW u \in Users, NEW new \in RoleChoices, SetRoles(a, by, u, new)
      PROVE  TypeOK'
  <2> DEFINE read == [IdleAdm EXCEPT !.pc = "roles", !.user = u, !.gone = Gone(u),
                                    !.new = IF new = {} THEN {"viewer"} ELSE new]
  <2>1. read \in AdmRows
    BY IdleTypes DEF Gone, TypeOK, Parameters, AdmStates, Roles
  <2>2. Accept(a, by, Administer, read)
    BY <1>8 DEF SetRoles
  <2> HIDE DEF read
  <2>3. adm' \in [Admins -> AdmRows] /\ left' \in [logins : Nat, ops : Nat]
    BY <2>1, <2>2, AcceptType
  <2> QED
    BY <1>8, <2>3 DEF SetRoles, TypeOK
<1>9. ASSUME NEW a \in Admins, NEW by \in Users, NEW u \in Users, SetActive(a, by, u) \/ Delete(a, by, u)
      PROVE  TypeOK'
  <2>1. PICK pc \in {"active", "delete"} : Accept(a, by, Administer, [IdleAdm EXCEPT !.pc = pc, !.user = u])
    BY <1>9 DEF SetActive, Delete
  <2>2. [IdleAdm EXCEPT !.pc = pc, !.user = u] \in AdmRows
    BY IdleTypes DEF AdmStates
  <2>3. adm' \in [Admins -> AdmRows] /\ left' \in [logins : Nat, ops : Nat]
    BY <2>1, <2>2, AcceptType
  <2> QED
    BY <1>9, <2>3 DEF SetActive, Delete, TypeOK
<1>10. ASSUME NEW a \in Admins, NEW u \in Users, ChangePassword(a, u) PROVE TypeOK'
  <2> DEFINE read == [IdleAdm EXCEPT !.pc = "password", !.user = u, !.failed = row[u].failed,
                                    !.locked = row[u].locked]
  <2>1. read \in AdmRows
    BY IdleTypes DEF TypeOK, AdmStates
  <2>2. Accept(a, u, Roles, read)
    BY <1>10 DEF ChangePassword
  <2> HIDE DEF read
  <2>3. adm' \in [Admins -> AdmRows] /\ left' \in [logins : Nat, ops : Nat]
    BY <2>1, <2>2, AcceptType
  <2> QED
    BY <1>10, <2>3 DEF ChangePassword, TypeOK
<1>11. ASSUME NEW a \in Admins, CommitRoles(a) PROVE TypeOK'
  <2>1. roles' \in [Users -> SUBSET RoleRows]
    <3>1. adm[a].new \X {adm[a].op} \in SUBSET RoleRows
      BY DEF TypeOK, RoleRows
    <3> QED
      BY <1>11, <3>1 DEF CommitRoles, TypeOK
  <2>2. actors' \subseteq Users /\ held' \in [Users -> Nat \cup {Never}]
    BY <1>11 DEF CommitRoles, TypeOK
  <2> QED
    BY <1>11, <2>1, <2>2, DoneTypes DEF CommitRoles, TypeOK
<1>12. ASSUME NEW a \in Admins, CommitActive(a) PROVE TypeOK'
  <2>1. row' \in [Users -> UserRows] /\ actors' \subseteq Users
    <3>1. /\ row' = row \/ \E active \in BOOLEAN : row' = Switched(adm[a].user, active)
          /\ adm[a].by \in Users /\ actors' \in {actors, actors \cup {adm[a].by}}
      BY <1>12 DEF CommitActive, TypeOK, Switched
    <3>2. row \in [Users -> UserRows] /\ adm[a].user \in Users /\ actors \subseteq Users
      BY DEF TypeOK
    <3> HIDE DEF UserRows
    <3> QED
      BY <3>1, <3>2, FlagType
  <2> QED
    BY <1>12, <2>1, DoneTypes DEF CommitActive, TypeOK
<1>13. ASSUME NEW a \in Admins, CommitDelete(a) PROVE TypeOK'
  <2>1. /\ row' = row \/ row' = Removed(adm[a].user)
        /\ roles' = roles \/ roles' = [roles EXCEPT ![adm[a].user] = {}]
        /\ adm[a].by \in Users /\ actors' \in {actors, actors \cup {adm[a].by}}
        /\ adm[a].user \in Users /\ refused' \in {refused, refused \cup {adm[a].user}}
    BY <1>13 DEF CommitDelete, TypeOK, Removed
  <2>2. row' \in [Users -> UserRows] /\ roles' \in [Users -> SUBSET RoleRows]
    <3>1. row \in [Users -> UserRows] /\ roles \in [Users -> SUBSET RoleRows]
      BY DEF TypeOK
    <3> HIDE DEF UserRows
    <3>2. row' \in [Users -> UserRows]
      BY <2>1, <3>1, FlagType
    <3>3. roles' \in [Users -> SUBSET RoleRows]
      BY <2>1, <3>1
    <3> QED
      BY <3>2, <3>3
  <2>3. actors' \subseteq Users /\ refused' \subseteq Users
    BY <2>1 DEF TypeOK
  <2> QED
    BY <1>13, <2>2, <2>3, DoneTypes DEF CommitDelete, TypeOK
<1>14. ASSUME NEW a \in Admins, CommitPassword(a) PROVE TypeOK'
  <2>1. row' \in [Users -> UserRows]
    <3>1. /\ adm[a].user \in Users /\ adm[a].failed \in Nat /\ adm[a].locked \in Nat \cup {Never}
          /\ row[adm[a].user].failed \in Nat /\ row[adm[a].user].locked \in Nat \cup {Never}
      BY DEF TypeOK
    <3> DEFINE n == Written(adm[a].failed, 0, row[adm[a].user].failed)
               k == Written(adm[a].locked, Never, row[adm[a].user].locked)
    <3>2. n \in Nat /\ k \in Nat \cup {Never}
      BY <3>1 DEF Written
    <3>3. row' = row \/ row' = Counted(adm[a].user, n, k)
      BY <1>14 DEF CommitPassword, Counted
    <3> HIDE DEF n, k, UserRows
    <3> QED
      BY <3>1, <3>2, <3>3, CountsType
  <2>2. actors' \subseteq Users /\ streak' \in [Users -> Nat]
    <3>1. /\ adm[a].user \in Users /\ actors' \in {actors, actors \cup {adm[a].user}}
          /\ (streak' = streak \/ streak' = [streak EXCEPT ![adm[a].user] = 0])
      BY <1>14 DEF CommitPassword, TypeOK
    <3>2. streak \in [Users -> Nat] /\ actors \subseteq Users
      BY DEF TypeOK
    <3> QED
      BY <3>1, <3>2
  <2> QED
    BY <1>14, <2>1, <2>2, DoneTypes DEF CommitPassword, TypeOK
<1>15. ASSUME NEW a \in Admins, AdminFails(a) PROVE TypeOK'
  <2>1. crossed' \subseteq Users
    BY <1>15 DEF AdminFails, TypeOK
  <2> QED
    BY <1>15, <2>1, DoneTypes DEF AdminFails, TypeOK
<1>16. CASE UNCHANGED vars
  BY <1>16 DEF vars, TypeOK
<1>17. ASSUME NEW l \in Logins, Issue(l) PROVE TypeOK'
  <2>1. login' \in [Logins -> LoginRows]
    <3>1. login' = Issued(l)
      BY <1>17 DEF Issue, Issued
    <3> HIDE DEF LoginRows
    <3> QED
      BY <3>1, LoginType
  <2>2. lag' \in [Users -> Nat]
    BY <1>17, LagStep
  <2> QED
    BY <1>17, <2>1, <2>2 DEF Issue, TypeOK
<1> QED
  BY <1>1, <1>2, <1>3, <1>4, <1>5, <1>6, <1>7, <1>8, <1>9, <1>10, <1>11, <1>12, <1>13, <1>14, <1>15, <1>16, <1>17
     DEF Next

LEMMA TypeInit ==
  ASSUME Parameters, Init
  PROVE  TypeOK
<1>1. \A u \in Users : Assigned[u] \X {0} \in SUBSET RoleRows
  BY DEF Parameters, RoleRows
<1>2. roles \in [Users -> SUBSET RoleRows]
  BY <1>1 DEF Init
<1>3. held \in [Users -> Nat \cup {Never}] /\ lag \in [Users -> Nat] /\ left \in [logins : Nat, ops : Nat]
  BY DEF Init, Parameters
<1>4. login \in [Logins -> LoginRows] /\ adm \in [Admins -> AdmRows]
  BY IdleTypes DEF Init
<1> QED
  BY <1>2, <1>3, <1>4 DEF Init, TypeOK, LoginRows, AdmRows

\* The state keeps its type, for any users, requests and settings.
THEOREM TypeCorrect ==
  ASSUME Parameters
  PROVE  Spec => []TypeOK
<1>1. Init => TypeOK
  BY TypeInit
<1>2. TypeOK /\ [Next]_vars => TypeOK'
  BY TypeStep
<1> QED
  BY <1>1, <1>2, PTL DEF Spec

-----------------------------------------------------------------------------
(* Authority: a login that has read the role read it when its user had it, *)
(* one that has dated its token did so a lag later at most, and a token    *)
(* and an accepted request lie within a lifetime of that.                  *)

\* Whether u has been an administrator at t or later, ...
HeldSince(u, t) == held[u] # Never /\ t <= held[u]

\* ... and whether no more than d and the lag of u before t.
HeldWithin(u, t, d) == held[u] # Never /\ t <= held[u] + d + lag[u]

RolesNeedUsers  == \A u \in Users : ~row[u].here => roles[u] = {}
HeldIsPast      == \A u \in Users : held[u] <= now
HoldersHold     == \A u \in Users : RolesOf(u) \cap Administer # {} => held[u] = now
TokensBounded   == \A tok \in tokens : tok.role \in Administer =>
                     HeldWithin(tok.user, tok.exp, Ttl)
LoginsBounded   == \A l \in Logins : login[l].role \in Administer =>
                     /\ login[l].pc = "resolved" => HeldSince(login[l].user, login[l].at)
                     /\ login[l].pc = "issued" => HeldWithin(login[l].user, login[l].at, 0)

AuthorityInv ==
  RolesNeedUsers /\ HeldIsPast /\ HoldersHold /\ TokensBounded /\ LoginsBounded /\ AuthorityBounded

\* The time at which a user held a role only grows, and so does the lag.
HeldGrows == \A u \in Users : /\ held'[u] = held[u] \/ (held[u] <= held'[u] /\ held'[u] \in Nat)
                              /\ lag'[u] = lag[u] \/ lag[u] < lag'[u]

LEMMA Grown ==
  ASSUME Parameters, TypeOK, TypeOK', AuthorityInv, HeldGrows
  PROVE  /\ \A u \in Users, t \in Nat : HeldSince(u, t) => HeldSince(u, t)'
         /\ \A u \in Users, t \in Nat, d \in Nat : HeldWithin(u, t, d) => HeldWithin(u, t, d)'
         /\ \A u \in Users, t \in Nat : held[u] # Never /\ t < held[u] + Ttl + lag[u]
                                          => held'[u] # Never /\ t < held'[u] + Ttl + lag'[u]
<1>1. \A u \in Users : /\ held[u] \in Nat \cup {Never} /\ held'[u] \in Nat \cup {Never}
                       /\ lag[u] \in Nat /\ lag'[u] \in Nat
  BY DEF TypeOK
<1>2. Ttl \in Nat /\ Never \notin Nat /\ Never = -1
  BY DEF Parameters, Never
<1>3. \A u \in Users : held[u] # Never => held'[u] # Never /\ held[u] <= held'[u]
  BY <1>1, <1>2 DEF HeldGrows
<1>4. \A u \in Users : lag[u] <= lag'[u]
  BY <1>1 DEF HeldGrows
<1> HIDE DEF Never
<1>5. ASSUME NEW u \in Users, NEW t \in Nat, NEW d \in Nat, held[u] # Never
      PROVE  /\ held'[u] # Never
             /\ t <= held[u] => t <= held'[u]
             /\ t <= held[u] + d + lag[u] => t <= held'[u] + d + lag'[u]
             /\ t < held[u] + d + lag[u] => t < held'[u] + d + lag'[u]
  <2>1. PICK h \in Nat, i \in Nat, k \in Nat, m \in Nat :
          h = held[u] /\ i = held'[u] /\ k = lag[u] /\ m = lag'[u] /\ h <= i /\ k <= m
    BY <1>1, <1>3, <1>4, <1>5
  <2> QED
    BY <1>3, <1>5, <2>1
<1> QED
  BY <1>2, <1>5 DEF HeldSince, HeldWithin

\* What a step must show beyond the growth of held when it leaves the parts alone.
LEMMA Undisturbed ==
  ASSUME Parameters, TypeOK, TypeOK', AuthorityInv, HeldGrows
  PROVE  /\ tokens' = tokens => TokensBounded'
         /\ (\A l \in Logins : login'[l] = login[l] \/ login'[l].pc \notin {"resolved", "issued"}) => LoginsBounded'
         /\ (\A a \in Admins : adm'[a] = adm[a] \/ adm'[a].pc \notin {"roles", "active", "delete"})
              => AuthorityBounded'
         /\ now' = now /\ held' = held => HeldIsPast'
         /\ UNCHANGED <<now, held, roles>> => HoldersHold'
<1>1. ASSUME tokens' = tokens PROVE TokensBounded'
  <2>1. Ttl \in Nat /\ \A tok \in tokens : tok.user \in Users /\ tok.exp \in Nat
    BY DEF Parameters, TypeOK
  <2> QED
    BY <1>1, <2>1, Grown DEF AuthorityInv, TokensBounded
<1>2. ASSUME \A l \in Logins : login'[l] = login[l] \/ login'[l].pc \notin {"resolved", "issued"}
      PROVE  LoginsBounded'
  <2>1. \A l \in Logins : login[l].user \in Users /\ login[l].at \in Nat
    BY DEF TypeOK
  <2> QED
    BY <1>2, <2>1, Grown DEF AuthorityInv, LoginsBounded
<1>3. ASSUME \A a \in Admins : adm'[a] = adm[a] \/ adm'[a].pc \notin {"roles", "active", "delete"}
      PROVE  AuthorityBounded'
  <2>1. \A a \in Admins : adm[a].by \in Users /\ adm[a].at \in Nat
    BY DEF TypeOK
  <2> QED
    BY <1>3, <2>1, Grown DEF AuthorityInv, AuthorityBounded
<1>4. ASSUME now' = now /\ held' = held PROVE HeldIsPast'
  BY <1>4 DEF AuthorityInv, HeldIsPast
<1>5. ASSUME UNCHANGED <<now, held, roles>> PROVE HoldersHold'
  BY <1>5 DEF AuthorityInv, HoldersHold, RolesOf
<1> QED
  BY <1>1, <1>2, <1>3, <1>4, <1>5

LEMMA DoneIdle ==
  ASSUME Parameters, TypeOK
  PROVE  /\ \A l \in Logins : LoginDone(l) => \A k \in Logins : login'[k] = login[k] \/ login'[k].pc \notin {"resolved", "issued"}
         /\ \A a \in Admins : AdmDone(a) => \A b \in Admins : adm'[b] = adm[b] \/ adm'[b].pc = "idle"
BY IdleTypes DEF TypeOK, LoginDone, AdmDone

\* A request is accepted with a token that has not expired.
LEMMA AcceptedWithin ==
  ASSUME Parameters, TypeOK, TypeOK', AuthorityInv, NEW a \in Admins, NEW u \in Users, NEW read \in AdmRows,
         Accept(a, u, Administer, read), UNCHANGED <<held, lag>>
  PROVE  AuthorityBounded'
<1>1. HeldGrows
  BY DEF HeldGrows
<1>2. PICK tok \in tokens : tok.user = u /\ tok.role \in Administer /\ tok.exp > now
  BY DEF Accept, Valid
<1>3. tok.exp \in Nat /\ now \in Nat /\ held[u] \in Nat \cup {Never} /\ lag[u] \in Nat /\ Ttl \in Nat
  BY DEF TypeOK, Parameters
<1>4. held[u] # Never /\ tok.exp <= held[u] + Ttl + lag[u]
  BY <1>2 DEF AuthorityInv, TokensBounded, HeldWithin
<1>5. held[u] \in Nat
  BY <1>3, <1>4
<1>6. now < held[u] + Ttl + lag[u]
  BY <1>2, <1>3, <1>4, <1>5
<1>7. /\ adm'[a].by = u /\ adm'[a].at = now
      /\ \A b \in Admins : b # a => adm'[b] = adm[b]
  BY DEF Accept, TypeOK, AdmRows
<1> QED
  BY <1>4, <1>6, <1>7 DEF AuthorityInv, AuthorityBounded

LEMMA AuthorityInit ==
  ASSUME Parameters, Init
  PROVE  AuthorityInv
<1>1. \A l \in Logins : login[l].pc = "idle"
  BY IdleTypes DEF Init
<1>2. \A a \in Admins : adm[a].pc = "idle"
  BY IdleTypes DEF Init
<1>3. \A u \in Users : RolesOf(u) \subseteq Assigned[u]
  BY DEF Init, RolesOf
<1>4. RolesNeedUsers /\ TokensBounded
  BY DEF Init, RolesNeedUsers, TokensBounded
<1>5. HeldIsPast
  <2>1. now = 0 /\ \A u \in Users : held[u] = 0 \/ held[u] = -1
    BY DEF Init, Never
  <2>2. 0 <= 0 /\ -1 <= 0
    OBVIOUS
  <2>3. \A u \in Users : held[u] <= now
    BY <2>1, <2>2, Zenon
  <2> QED
    BY <2>3 DEF HeldIsPast
<1>6. HoldersHold
  BY <1>3 DEF Init, HoldersHold
<1> QED
  BY <1>1, <1>2, <1>4, <1>5, <1>6 DEF AuthorityInv, LoginsBounded, AuthorityBounded

LEMMA AuthorityStep ==
  ASSUME Parameters, TypeOK, TypeOK', AuthorityInv, [Next]_vars
  PROVE  AuthorityInv'
<1> USE DEF dbVars, history
<1>a. ASSUME UNCHANGED <<now, held, lag, roles, tokens>>,
             \A u \in Users : row'[u].here = row[u].here,
             \A l \in Logins : login'[l] = login[l] \/ login'[l].pc \notin {"resolved", "issued"},
             \A b \in Admins : adm'[b] = adm[b] \/ adm'[b].pc \notin {"roles", "active", "delete"}
      PROVE  AuthorityInv'
  <2>1. HeldGrows
    BY <1>a DEF HeldGrows
  <2>2. RolesNeedUsers'
    BY <1>a DEF AuthorityInv, RolesNeedUsers
  <2> QED
    BY <1>a, <2>1, <2>2, Undisturbed DEF AuthorityInv
<1>1. CASE Tick
  <2>1. /\ now \in Nat /\ now' = now + 1
        /\ \A u \in Users : held'[u] = IF Holds(u) THEN now' ELSE held[u]
        /\ UNCHANGED <<row, roles, tokens, login, adm, lag>>
    BY <1>1 DEF Tick, TypeOK
  <2>2. \A u \in Users : held[u] \in Nat \cup {Never} /\ held[u] <= now
    BY DEF TypeOK, AuthorityInv, HeldIsPast
  <2>3. HeldGrows /\ HeldIsPast'
    BY <2>1, <2>2 DEF HeldGrows, HeldIsPast, Never
  <2>4. RolesNeedUsers'
    BY <2>1 DEF AuthorityInv, RolesNeedUsers
  <2>5. HoldersHold'
    <3>1. \A u \in Users : RolesOf(u)' = RolesOf(u) /\ (RolesOf(u) # {} => row[u].here)
      BY <2>1, TypeOK DEF AuthorityInv, RolesNeedUsers, RolesOf, TypeOK
    <3> QED
      BY <2>1, <3>1 DEF HoldersHold, Holds
  <2> QED
    BY <2>1, <2>3, <2>4, <2>5, Undisturbed DEF AuthorityInv
<1>2. ASSUME NEW l \in Logins, NEW u \in Users, Attempt(l, u) PROVE AuthorityInv'
  <2>1. \A k \in Logins : login'[k] = login[k] \/ login'[k].pc \notin {"resolved", "issued"}
    BY <1>2 DEF Attempt, TypeOK
  <2> QED
    BY <1>2, <1>a, <2>1 DEF Attempt
<1>3. ASSUME NEW l \in Logins, Load(l) PROVE AuthorityInv'
  <2>1. \A k \in Logins : login'[k] = login[k] \/ login'[k].pc \notin {"resolved", "issued"}
    BY <1>3, DoneIdle DEF Load, TypeOK
  <2> QED
    BY <1>3, <1>a, <2>1 DEF Load
<1>4. ASSUME NEW l \in Logins, FailLogin(l) PROVE AuthorityInv'
  <2>1. \A u \in Users : row'[u].here = row[u].here
    BY <1>4 DEF FailLogin, TypeOK
  <2> QED
    BY <1>4, <1>a, <2>1, DoneIdle DEF FailLogin
<1>5. ASSUME NEW l \in Logins, Resolve(l) PROVE AuthorityInv'
  <2>1. /\ login'[l].role = TopRole(login[l].user) /\ login'[l].at = now /\ login'[l].user = login[l].user
        /\ \A k \in Logins : k # l => login'[k] = login[k]
        /\ UNCHANGED <<now, row, roles, tokens, adm, held, lag>> /\ login'[l].pc = "resolved"
    BY <1>5 DEF Resolve, TypeOK
  <2>2. PICK u \in Users : u = login[l].user
    BY DEF TypeOK
  <2>3. TopRole(u) \in Administer => HeldSince(u, now)
    <3>1. now \in Nat /\ Never \notin Nat
      BY DEF TypeOK, Never
    <3>2. TopRole(u) \in Administer => RolesOf(u) \cap Administer # {}
      BY DEF TopRole, Administer
    <3> QED
      BY <3>1, <3>2 DEF AuthorityInv, HoldersHold, HeldSince
  <2>4. LoginsBounded'
    <3>1. \A k \in Logins : login'[k] = login[k] \/ k = l
      BY <2>1
    <3> QED
      BY <2>1, <2>2, <2>3, <3>1 DEF AuthorityInv, LoginsBounded, HeldSince, HeldWithin
  <2>5. HeldGrows /\ RolesNeedUsers'
    BY <2>1 DEF AuthorityInv, HeldGrows, RolesNeedUsers
  <2> QED
    BY <2>1, <2>4, <2>5, Undisturbed DEF AuthorityInv
<1>6. ASSUME NEW l \in Logins, Succeed(l) PROVE AuthorityInv'
  <2>1. \A u \in Users : row'[u].here = row[u].here
    <3>1. row' = row \/ \E n, k : row' = Counted(login[l].user, n, k)
      BY <1>6 DEF Succeed, Counted
    <3>2. \A n, k : \A u \in Users : Counted(login[l].user, n, k)[u].here = row[u].here
      BY DEF Counted, TypeOK
    <3> QED
      BY <3>1, <3>2
  <2>2. UNCHANGED <<now, held, lag, roles, adm>> /\ LoginDone(l) /\ login[l].pc = "issued"
    BY <1>6 DEF Succeed
  <2>3. tokens' = tokens
          \/ tokens' = tokens \cup {[user |-> login[l].user, role |-> login[l].role, exp |-> login[l].at + Ttl]}
    BY <1>6 DEF Succeed
  <2>4. TokensBounded'
    <3>1. PICK u \in Users, t \in Nat : u = login[l].user /\ t = login[l].at
      BY DEF TypeOK
    <3>2. Ttl \in Nat /\ held[u] \in Nat \cup {Never} /\ lag[u] \in Nat
      BY DEF TypeOK, Parameters
    <3>3. login[l].role \in Administer => HeldWithin(u, t, 0)
      BY <2>2, <3>1 DEF AuthorityInv, LoginsBounded
    <3>4. HeldWithin(u, t, 0) => HeldWithin(u, t + Ttl, Ttl)
      <4>1. SUFFICES ASSUME held[u] # Never, t <= held[u] + 0 + lag[u] PROVE t + Ttl <= held[u] + Ttl + lag[u]
        BY DEF HeldWithin
      <4>2. PICK h \in Nat, k \in Nat : h = held[u] /\ k = lag[u]
        BY <3>2, <4>1
      <4> QED
        BY <3>1, <3>2, <4>1, <4>2
    <3>5. \A tok \in tokens : tok.role \in Administer => HeldWithin(tok.user, tok.exp, Ttl)
      BY DEF AuthorityInv, TokensBounded
    <3>6. \A v, e, d : HeldWithin(v, e, d)' <=> HeldWithin(v, e, d)
      BY <2>2 DEF HeldWithin
    <3> QED
      BY <2>3, <3>1, <3>3, <3>4, <3>5, <3>6 DEF TokensBounded
  <2>5. HeldGrows /\ RolesNeedUsers'
    BY <2>1, <2>2 DEF AuthorityInv, HeldGrows, RolesNeedUsers
  <2> QED
    BY <2>2, <2>4, <2>5, DoneIdle, Undisturbed DEF AuthorityInv
<1>7. ASSUME NEW l \in Logins, LoginFails(l) PROVE AuthorityInv'
  BY <1>7, <1>a, DoneIdle DEF LoginFails
<1>8. ASSUME NEW a \in Admins, NEW u \in Users, NEW read \in AdmRows, Accept(a, u, Administer, read),
             UNCHANGED <<now, row, roles, tokens, login, held, lag>>
      PROVE  AuthorityInv'
  <2>1. HeldGrows /\ RolesNeedUsers' /\ AuthorityBounded'
    BY <1>8, AcceptedWithin DEF AuthorityInv, HeldGrows, RolesNeedUsers
  <2> QED
    BY <1>8, <2>1, Undisturbed DEF AuthorityInv
<1>9. ASSUME NEW a \in Admins, NEW by \in Users, NEW u \in Users, NEW new \in RoleChoices, SetRoles(a, by, u, new)
      PROVE  AuthorityInv'
  <2> DEFINE read == [IdleAdm EXCEPT !.pc = "roles", !.user = u, !.gone = Gone(u),
                                    !.new = IF new = {} THEN {"viewer"} ELSE new]
  <2>1. read \in AdmRows
    <3>1. /\ IdleAdm \in AdmRows /\ Gone(u) \in SUBSET RoleRows
          /\ (IF new = {} THEN {"viewer"} ELSE new) \in SUBSET Roles
      BY IdleTypes DEF Gone, TypeOK, Parameters, Roles
    <3> QED
      BY <3>1 DEF AdmRows, AdmStates
  <2>2. Accept(a, by, Administer, read) /\ UNCHANGED <<now, row, roles, tokens, login, held, lag>>
    BY <1>9 DEF SetRoles
  <2> HIDE DEF read
  <2> QED
    BY <1>8, <2>1, <2>2
<1>10. ASSUME NEW a \in Admins, NEW by \in Users, NEW u \in Users, SetActive(a, by, u) \/ Delete(a, by, u)
       PROVE  AuthorityInv'
  <2>1. PICK pc \in {"active", "delete"} : Accept(a, by, Administer, [IdleAdm EXCEPT !.pc = pc, !.user = u])
    BY <1>10 DEF SetActive, Delete
  <2>2. [IdleAdm EXCEPT !.pc = pc, !.user = u] \in AdmRows
    BY IdleTypes DEF AdmStates, AdmRows
  <2> QED
    BY <1>8, <1>10, <2>1, <2>2 DEF SetActive, Delete
<1>11. ASSUME NEW a \in Admins, NEW u \in Users, ChangePassword(a, u) PROVE AuthorityInv'
  <2> DEFINE read == [IdleAdm EXCEPT !.pc = "password", !.user = u, !.failed = row[u].failed,
                                    !.locked = row[u].locked]
  <2>1. adm' = [adm EXCEPT ![a] = [read EXCEPT !.by = u, !.op = left.ops, !.at = now]]
    BY <1>11 DEF ChangePassword, Accept
  <2>2. [read EXCEPT !.by = u, !.op = left.ops, !.at = now].pc = "password"
    BY DEF IdleAdm
  <2> HIDE DEF read
  <2>3. \A b \in Admins : adm'[b] = adm[b] \/ adm'[b].pc = "password"
    BY <2>1, <2>2 DEF TypeOK
  <2> QED
    BY <1>11, <1>a, <2>3 DEF ChangePassword
<1>12. ASSUME NEW a \in Admins, CommitRoles(a) PROVE AuthorityInv'
  <2>1. PICK u \in Users : u = adm[a].user
    BY DEF TypeOK
  <2>2. /\ \A v \in Users : v # u => roles'[v] = roles[v] /\ held'[v] = held[v]
        /\ held'[u] = held[u] \/ held'[u] = now
        /\ row[u].here /\ RolesOf(u)' \cap Administer # {} => held'[u] = now
        /\ ~row[u].here => roles'[u] = roles[u]
        /\ AdmDone(a) /\ UNCHANGED <<now, row, tokens, login, lag>>
    BY <1>12, <2>1 DEF CommitRoles, TypeOK, RolesOf
  <2>3. now \in Nat /\ \A v \in Users : held[v] \in Nat \cup {Never} /\ held[v] <= now
    BY DEF TypeOK, AuthorityInv, HeldIsPast
  <2>4. HeldGrows /\ HeldIsPast'
    <3>1. \A v \in Users : held'[v] = held[v] \/ held'[v] = now
      BY <2>2
    <3> QED
      BY <2>2, <2>3, <3>1 DEF HeldGrows, HeldIsPast
  <2>5. RolesNeedUsers'
    BY <2>2 DEF AuthorityInv, RolesNeedUsers
  <2>6. HoldersHold'
    <3>1. RolesOf(u)' # {} => row[u].here
      BY <2>2, <2>5 DEF RolesNeedUsers, RolesOf
    <3>2. \A v \in Users : v # u => RolesOf(v)' = RolesOf(v)
      BY <2>2 DEF RolesOf
    <3> QED
      BY <2>2, <3>1, <3>2 DEF AuthorityInv, HoldersHold
  <2> QED
    BY <2>2, <2>4, <2>5, <2>6, DoneIdle, Undisturbed DEF AuthorityInv
<1>13. ASSUME NEW a \in Admins, CommitActive(a) PROVE AuthorityInv'
  <2>1. \A u \in Users : row'[u].here = row[u].here
    <3>1. row' = row \/ \E b \in BOOLEAN : row' = Switched(adm[a].user, b)
      BY <1>13 DEF CommitActive, Switched
    <3>2. \A b \in BOOLEAN : \A u \in Users : Switched(adm[a].user, b)[u].here = row[u].here
      BY DEF Switched, TypeOK
    <3> QED
      BY <3>1, <3>2
  <2>2. \A b \in Admins : adm'[b] = adm[b] \/ adm'[b].pc \notin {"roles", "active", "delete"}
    BY <1>13, DoneIdle DEF CommitActive
  <2> QED
    BY <1>13, <1>a, <2>1, <2>2 DEF CommitActive
<1>14. ASSUME NEW a \in Admins, CommitDelete(a) PROVE AuthorityInv'
  <2>1. PICK u \in Users : u = adm[a].user
    BY DEF TypeOK
  <2>2. /\ \A v \in Users : v # u => roles'[v] = roles[v] /\ row'[v] = row[v]
        /\ \/ roles'[u] = {}
           \/ roles'[u] = roles[u] /\ row'[u] = row[u]
        /\ AdmDone(a) /\ UNCHANGED <<now, tokens, login, held, lag>>
    BY <1>14, <2>1 DEF CommitDelete, TypeOK
  <2>3. HeldGrows /\ RolesNeedUsers'
    BY <2>2 DEF AuthorityInv, HeldGrows, RolesNeedUsers
  <2>4. HoldersHold'
    <3>1. \A v \in Users : RolesOf(v)' \subseteq RolesOf(v)
      BY <2>2 DEF RolesOf
    <3> QED
      BY <2>2, <3>1 DEF AuthorityInv, HoldersHold
  <2> QED
    BY <2>2, <2>3, <2>4, DoneIdle, Undisturbed DEF AuthorityInv
<1>15. ASSUME NEW a \in Admins, CommitPassword(a) PROVE AuthorityInv'
  <2>1. \A u \in Users : row'[u].here = row[u].here
    <3>1. row' = row \/ \E n, k : row' = Counted(adm[a].user, n, k)
      BY <1>15 DEF CommitPassword, Counted
    <3>2. \A n, k : \A u \in Users : Counted(adm[a].user, n, k)[u].here = row[u].here
      BY DEF Counted, TypeOK
    <3> QED
      BY <3>1, <3>2
  <2>2. \A b \in Admins : adm'[b] = adm[b] \/ adm'[b].pc \notin {"roles", "active", "delete"}
    BY <1>15, DoneIdle DEF CommitPassword
  <2> QED
    BY <1>15, <1>a, <2>1, <2>2 DEF CommitPassword
<1>16. ASSUME NEW a \in Admins, AdminFails(a) PROVE AuthorityInv'
  <2>1. \A b \in Admins : adm'[b] = adm[b] \/ adm'[b].pc \notin {"roles", "active", "delete"}
    BY <1>16, DoneIdle DEF AdminFails
  <2> QED
    BY <1>16, <1>a, <2>1 DEF AdminFails
<1>17. CASE UNCHANGED vars
  BY <1>17, <1>a DEF vars
<1>18. ASSUME NEW l \in Logins, Issue(l) PROVE AuthorityInv'
  <2>1. /\ login[l].pc = "resolved" /\ login'[l].pc = "issued" /\ login'[l].at = now
        /\ login'[l].user = login[l].user /\ login'[l].role = login[l].role
        /\ \A k \in Logins : k # l => login'[k] = login[k]
        /\ UNCHANGED <<now, row, roles, tokens, adm, held>>
    BY <1>18 DEF Issue, TypeOK
  <2>2. PICK u \in Users, t \in Nat : u = login[l].user /\ t = login[l].at
    BY DEF TypeOK
  <2>3. HeldGrows /\ RolesNeedUsers'
    BY <1>18, <2>1, LagStep DEF AuthorityInv, HeldGrows, RolesNeedUsers
  <2>4. HeldSince(u, t) => HeldWithin(u, now, 0)'
    <3>1. now <= t + lag'[u] /\ now \in Nat /\ lag'[u] \in Nat /\ held[u] \in Nat \cup {Never}
      BY <1>18, <2>2, LagStep DEF TypeOK
    <3>2. SUFFICES ASSUME held[u] # Never, t <= held[u] PROVE now <= held[u] + 0 + lag'[u]
      BY <2>1 DEF HeldSince, HeldWithin
    <3>3. PICK h \in Nat, k \in Nat : h = held[u] /\ k = lag'[u]
      BY <3>1, <3>2
    <3> QED
      BY <3>1, <3>2, <3>3
  <2>5. LoginsBounded'
    <3>1. \A k \in Logins : login[k].user \in Users /\ login[k].at \in Nat
      BY DEF TypeOK
    <3>2. \A k \in Logins : k # l /\ login[k].role \in Administer =>
            /\ login[k].pc = "resolved" => HeldSince(login[k].user, login[k].at)'
            /\ login[k].pc = "issued" => HeldWithin(login[k].user, login[k].at, 0)'
      <4>1. ASSUME NEW k \in Logins, k # l PROVE login'[k] = login[k]
        BY <2>1, <4>1
      <4> QED
        BY <2>3, <3>1, <4>1, Grown DEF AuthorityInv, LoginsBounded
    <3>3. login[l].role \in Administer => HeldSince(u, t)
      BY <2>1, <2>2 DEF AuthorityInv, LoginsBounded
    <3> QED
      BY <2>1, <2>2, <2>4, <3>2, <3>3 DEF LoginsBounded
  <2> QED
    BY <2>1, <2>3, <2>5, Undisturbed DEF AuthorityInv
<1> QED
  BY <1>1, <1>2, <1>3, <1>4, <1>5, <1>6, <1>7, <1>9, <1>10, <1>11, <1>12, <1>13, <1>14, <1>15, <1>16, <1>17, <1>18
     DEF Next

\* An administrator's request is accepted within a token's lifetime, and the longest time a
\* login of the user took from reading the roles to dating its token, of a moment at which
\* the user held such a role, whatever logins, role changes and deletions run concurrently,
\* for any number of users, roles and requests and any lifetime.
THEOREM AuthorityIsBounded ==
  ASSUME Parameters
  PROVE  Spec => []AuthorityBounded
<1>1. Init => TypeOK /\ AuthorityInv
  BY TypeInit, AuthorityInit
<1>2. TypeOK /\ AuthorityInv /\ [Next]_vars => (TypeOK /\ AuthorityInv)'
  BY TypeStep, AuthorityStep
<1>3. AuthorityInv => AuthorityBounded
  BY DEF AuthorityInv
<1> QED
  BY <1>1, <1>2, <1>3, PTL DEF Spec

-----------------------------------------------------------------------------
(* Roles: until two requests replace the roles of a user at once, the one  *)
(* that does has read all of them.                                         *)

Replacing(a, u) == adm[a].pc = "roles" /\ adm[a].user = u

RolesInv ==
  \A u \in Users \ mixed :
    /\ \A r, s \in roles[u] : r[2] = s[2]
    /\ \A a \in Admins : Replacing(a, u) => roles[u] \subseteq adm[a].gone
    /\ \A a, b \in Admins : Replacing(a, u) /\ Replacing(b, u) => a = b

LEMMA RolesStep ==
  ASSUME Parameters, TypeOK, RolesInv, [Next]_vars
  PROVE  RolesInv'
<1> USE DEF dbVars, history
<1>a. ASSUME mixed' = mixed,
             \A u \in Users : roles'[u] \subseteq roles[u],
             \A b \in Admins : adm'[b] = adm[b] \/ adm'[b].pc # "roles"
      PROVE  RolesInv'
  BY <1>a DEF RolesInv, Replacing
<1>1. CASE Tick \/ UNCHANGED vars
  BY <1>1, <1>a DEF Tick, vars
<1>2. ASSUME NEW l \in Logins,
             (\E u \in Users : Attempt(l, u)) \/ Load(l) \/ FailLogin(l) \/ Resolve(l) \/ Issue(l)
               \/ Succeed(l) \/ LoginFails(l)
      PROVE  RolesInv'
  <2>1. UNCHANGED <<roles, mixed, adm>>
    BY <1>2 DEF Attempt, Load, FailLogin, Resolve, Issue, Succeed, LoginFails
  <2> QED
    BY <1>a, <2>1
<1>3. ASSUME NEW a \in Admins, NEW by \in Users, NEW u \in Users, NEW new \in RoleChoices, SetRoles(a, by, u, new)
      PROVE  RolesInv'
  <2> DEFINE read == [IdleAdm EXCEPT !.pc = "roles", !.user = u, !.gone = Gone(u),
                                    !.new = IF new = {} THEN {"viewer"} ELSE new]
             written == [read EXCEPT !.by = by, !.op = left.ops, !.at = now]
  <2>1. adm' = [adm EXCEPT ![a] = written] /\ adm[a].pc = "idle" /\ UNCHANGED roles
    BY <1>3 DEF SetRoles, Accept
  <2>2. written.user = u /\ written.gone = roles[u]
    BY DEF IdleAdm, Gone
  <2> HIDE DEF written
  <2>3. adm'[a] = written /\ \A b \in Admins : b # a => adm'[b] = adm[b]
    BY <2>1 DEF TypeOK
  <2>4. mixed' = IF \E b \in Admins : adm[b].pc = "roles" /\ adm[b].user = u THEN mixed \cup {u} ELSE mixed
    BY <1>3 DEF SetRoles
  <2>5. ASSUME NEW v \in Users, v \notin mixed'
        PROVE  /\ \A b \in Admins : Replacing(b, v)' => roles[v] \subseteq adm'[b].gone
               /\ \A b, c \in Admins : Replacing(b, v)' /\ Replacing(c, v)' => b = c
    <3>1. v \notin mixed /\ (v = u => \A b \in Admins : ~Replacing(b, v))
      BY <2>4, <2>5 DEF Replacing
    <3>2. \A b \in Admins : Replacing(b, v)' => (b = a /\ v = u) \/ (b # a /\ Replacing(b, v))
      BY <2>2, <2>3 DEF Replacing
    <3>3. \A b \in Admins : Replacing(b, v)' => roles[v] \subseteq adm'[b].gone
      BY <2>2, <2>3, <3>1, <3>2 DEF RolesInv
    <3>4. \A b, c \in Admins : Replacing(b, v)' /\ Replacing(c, v)' => b = c
      BY <3>1, <3>2 DEF RolesInv
    <3> QED
      BY <3>3, <3>4
  <2>6. \A v \in Users : v \notin mixed' => \A r, s \in roles[v] : r[2] = s[2]
    BY <2>4 DEF RolesInv
  <2> QED
    BY <2>1, <2>5, <2>6 DEF RolesInv
<1>4. ASSUME NEW a \in Admins, NEW by \in Users, NEW u \in Users, SetActive(a, by, u) \/ Delete(a, by, u)
      PROVE  RolesInv'
  <2>1. PICK pc \in {"active", "delete"} :
          adm' = [adm EXCEPT ![a] = [[IdleAdm EXCEPT !.pc = pc, !.user = u]
                                       EXCEPT !.by = by, !.op = left.ops, !.at = now]]
    BY <1>4 DEF SetActive, Delete, Accept
  <2>2. \A b \in Admins : adm'[b] = adm[b] \/ adm'[b].pc # "roles"
    <3> DEFINE written == [[IdleAdm EXCEPT !.pc = pc, !.user = u] EXCEPT !.by = by, !.op = left.ops, !.at = now]
    <3>1. written.pc = pc
      BY DEF IdleAdm
    <3>2. adm' = [adm EXCEPT ![a] = written]
      BY <2>1
    <3> HIDE DEF written
    <3> QED
      BY <3>1, <3>2 DEF TypeOK
  <2> QED
    BY <1>4, <1>a, <2>2 DEF SetActive, Delete
<1>5. ASSUME NEW a \in Admins, NEW u \in Users, ChangePassword(a, u) PROVE RolesInv'
  <2> DEFINE written == [[IdleAdm EXCEPT !.pc = "password", !.user = u, !.failed = row[u].failed,
                                        !.locked = row[u].locked]
                           EXCEPT !.by = u, !.op = left.ops, !.at = now]
  <2>1. adm' = [adm EXCEPT ![a] = written]
    BY <1>5 DEF ChangePassword, Accept
  <2>2. written.pc = "password"
    BY DEF IdleAdm
  <2> HIDE DEF written
  <2>3. \A b \in Admins : adm'[b] = adm[b] \/ adm'[b].pc # "roles"
    BY <2>1, <2>2 DEF TypeOK
  <2> QED
    BY <1>5, <1>a, <2>3 DEF ChangePassword
<1>6. ASSUME NEW a \in Admins, CommitRoles(a) PROVE RolesInv'
  <2>1. PICK u \in Users : u = adm[a].user
    BY DEF TypeOK
  <2>2. /\ Replacing(a, u) /\ AdmDone(a) /\ mixed' = mixed
        /\ \A v \in Users : v # u => roles'[v] = roles[v]
        /\ \/ roles'[u] = roles[u]
           \/ roles'[u] = (roles[u] \ adm[a].gone) \cup (adm[a].new \X {adm[a].op})
    BY <1>6, <2>1 DEF CommitRoles, TypeOK, Replacing
  <2>3. \A b \in Admins : adm'[b] = adm[b] \/ adm'[b].pc = "idle"
    BY <2>2, DoneIdle
  <2>4. adm'[a].pc = "idle"
    BY <2>2, IdleTypes DEF AdmDone, TypeOK
  <2>5. CASE roles'[u] = roles[u]
    BY <1>a, <2>2, <2>3, <2>5
  <2>6. CASE roles'[u] = (roles[u] \ adm[a].gone) \cup (adm[a].new \X {adm[a].op})
    <3>1. ASSUME NEW v \in Users \ mixed, v # u
          PROVE  /\ \A r, s \in roles'[v] : r[2] = s[2]
                 /\ \A b \in Admins : Replacing(b, v)' => roles'[v] \subseteq adm'[b].gone
                 /\ \A b, c \in Admins : Replacing(b, v)' /\ Replacing(c, v)' => b = c
      BY <2>2, <2>3, <3>1 DEF RolesInv, Replacing
    <3>2. ASSUME u \notin mixed
          PROVE  /\ \A r, s \in roles'[u] : r[2] = s[2]
                 /\ \A b \in Admins : ~Replacing(b, u)'
      <4>1. roles[u] \subseteq adm[a].gone
        BY <2>2, <3>2 DEF RolesInv
      <4>2. roles'[u] = adm[a].new \X {adm[a].op}
        BY <2>6, <4>1
      <4>3. \A b \in Admins : ~Replacing(b, u)'
        BY <2>2, <2>3, <2>4, <3>2 DEF RolesInv, Replacing
      <4> QED
        BY <4>2, <4>3
    <3> QED
      BY <2>2, <3>1, <3>2 DEF RolesInv
  <2> QED
    BY <2>2, <2>5, <2>6
<1>7. ASSUME NEW a \in Admins, CommitActive(a) \/ CommitDelete(a) \/ CommitPassword(a) \/ AdminFails(a)
      PROVE  RolesInv'
  <2>1. AdmDone(a) /\ UNCHANGED mixed
    BY <1>7 DEF CommitActive, CommitDelete, CommitPassword, AdminFails
  <2>2. \A u \in Users : roles'[u] \subseteq roles[u]
    BY <1>7 DEF CommitActive, CommitDelete, CommitPassword, AdminFails, TypeOK
  <2>3. \A b \in Admins : adm'[b] = adm[b] \/ adm'[b].pc # "roles"
    BY <2>1, DoneIdle
  <2> QED
    BY <1>a, <2>1, <2>2, <2>3
<1> QED
  BY <1>1, <1>2, <1>3, <1>4, <1>5, <1>6, <1>7 DEF Next

\* The roles of a user are those of one request unless two replaced them at once, for any
\* number of users, requests and role sets.
THEOREM RolesAreOfOneRequest ==
  ASSUME Parameters
  PROVE  Spec => []RolesOfOneRequest
<1>1. Init => TypeOK /\ RolesInv
  <2> SUFFICES ASSUME Init PROVE RolesInv
    BY TypeInit
  <2>1. \A u \in Users : roles[u] = Assigned[u] \X {0}
    BY DEF Init
  <2>2. \A a \in Admins : adm[a].pc = "idle"
    BY IdleTypes DEF Init
  <2> QED
    BY <2>1, <2>2 DEF RolesInv, Replacing
<1>2. TypeOK /\ RolesInv /\ [Next]_vars => (TypeOK /\ RolesInv)'
  BY TypeStep, RolesStep
<1>3. RolesInv => RolesOfOneRequest
  BY DEF RolesInv, RolesOfOneRequest
<1> QED
  BY <1>1, <1>2, <1>3, PTL DEF Spec

-----------------------------------------------------------------------------
(* Lockout: until two sessions write the account of a user at once, its    *)
(* counter covers the failures in a row and stays below the threshold.     *)

Checking(l, u) == login[l].user = u /\ login[l].pc \in {"bad", "good", "resolved", "issued"}
Changing(a, u) == adm[a].user = u /\ adm[a].pc = "password"

\* The one session that will write the account.
Alone(u) ==
  /\ \A l, k \in Logins : Checking(l, u) /\ Checking(k, u) => l = k
  /\ \A l \in Logins, a \in Admins : ~(Checking(l, u) /\ Changing(a, u))

LockInv ==
  /\ \A u \in Users : row[u].failed < Threshold
  /\ \A u \in Users \ crossed :
       /\ Alone(u) /\ streak[u] <= row[u].failed
       /\ \A l \in Logins : Checking(l, u) => login[l].failed = row[u].failed

\* Sessions only end, and accounts are left alone.
LEMMA LockUndisturbed ==
  ASSUME Parameters, TypeOK, LockInv, streak' = streak, crossed \subseteq crossed',
         \A u \in Users : row'[u].failed = row[u].failed,
         \A l \in Logins : \/ login'[l].user = login[l].user /\ login'[l].failed = login[l].failed
                              /\ (login'[l].pc \in {"bad", "good", "resolved", "issued"}
                                    => login[l].pc \in {"bad", "good", "resolved", "issued"})
                           \/ login'[l].pc \notin {"bad", "good", "resolved", "issued"},
         \A a \in Admins : adm'[a] = adm[a] \/ adm'[a].pc # "password"
  PROVE  LockInv'
<1>1. \A u \in Users, l \in Logins : Checking(l, u)' => Checking(l, u) /\ login'[l].failed = login[l].failed
  BY DEF Checking
<1>2. \A u \in Users, a \in Admins : Changing(a, u)' => Changing(a, u)
  BY DEF Changing
<1>3. \A u \in Users : Alone(u) => Alone(u)'
  BY <1>1, <1>2 DEF Alone
<1> QED
  BY <1>1, <1>3 DEF LockInv

LEMMA LockStep ==
  ASSUME Parameters, TypeOK, Threshold > 0, LockInv, [Next]_vars
  PROVE  LockInv'
<1> USE DEF dbVars, history
<1>1. CASE Tick \/ UNCHANGED vars
  BY <1>1, LockUndisturbed DEF Tick, vars
<1>2. ASSUME NEW l \in Logins, NEW u \in Users, Attempt(l, u) PROVE LockInv'
  <2>1. \A k \in Logins : login'[k] = login[k] \/ login'[k].pc = "allowed"
    BY <1>2 DEF Attempt, TypeOK
  <2> QED
    BY <1>2, <2>1, LockUndisturbed DEF Attempt
<1>3. ASSUME NEW l \in Logins, Load(l) PROVE LockInv'
  <2>1. CASE LoginDone(l)
    <3>1. \A k \in Logins : login'[k] = login[k] \/ login'[k].pc = "idle"
      BY <2>1, IdleTypes DEF LoginDone, TypeOK
    <3>2. UNCHANGED <<row, streak, adm>> /\ crossed \subseteq crossed'
      BY <1>3 DEF Load
    <3> QED
      BY <3>1, <3>2, LockUndisturbed
  <2>2. CASE ~LoginDone(l)
    <3>1. PICK u \in Users : u = login[l].user
      BY DEF TypeOK
    <3>2. /\ login[l].pc = "allowed"
          /\ \E pc \in {"good", "bad"} : login' = Loaded(l, pc, row[u].failed, row[u].locked)
          /\ crossed' = IF Writers(u) = {} THEN crossed ELSE crossed \cup {u}
          /\ UNCHANGED <<row, streak, adm>>
      BY <1>3, <2>2, <3>1 DEF Load, Loaded
    <3>3. /\ login'[l].user = u /\ login'[l].failed = row[u].failed
          /\ \A k \in Logins : k # l => login'[k] = login[k]
      BY <3>1, <3>2 DEF Loaded, TypeOK
    <3>4. u \notin crossed' => (\A k \in Logins : ~Checking(k, u)) /\ \A a \in Admins : ~Changing(a, u)
      BY <3>2 DEF Writers, Checking, Changing
    <3>5. \A v \in Users, k \in Logins : Checking(k, v)' => (k # l /\ Checking(k, v)) \/ (k = l /\ v = u)
      BY <3>3 DEF Checking
    <3>6. \A v \in Users, a \in Admins : Changing(a, v)' <=> Changing(a, v)
      BY <3>2 DEF Changing
    <3>7. ASSUME NEW v \in Users, v \notin crossed'
          PROVE  Alone(v)' /\ \A k \in Logins : Checking(k, v)' => login'[k].failed = row[v].failed
      <4>1. v \notin crossed /\ Alone(v)
        BY <3>2, <3>7 DEF LockInv
      <4>2. Alone(v)'
        <5>1. CASE v = u
          <6>1. \A k \in Logins : Checking(k, v)' => k = l
            BY <3>4, <3>5, <3>7, <5>1
          <6>2. \A b \in Admins : ~Changing(b, v)'
            BY <1>3, <3>4, <3>6, <3>7, <5>1
          <6> QED
            BY <6>1, <6>2 DEF Alone
        <5>2. CASE v # u
          <6>1. \A k \in Logins : Checking(k, v)' => Checking(k, v)
            BY <3>5, <5>2
          <6> QED
            BY <3>6, <4>1, <6>1 DEF Alone
        <5> QED
          BY <5>1, <5>2
      <4>3. ASSUME NEW k \in Logins, Checking(k, v)' PROVE login'[k].failed = row[v].failed
        BY <3>3, <3>5, <4>1, <4>3 DEF LockInv
      <4> QED
        BY <4>2, <4>3
    <3> QED
      BY <3>2, <3>7 DEF LockInv
  <2> QED
    BY <2>1, <2>2
<1>a. ASSUME NEW u \in Users, UNCHANGED crossed, row'[u].failed < Threshold,
             u \notin crossed => streak'[u] <= row'[u].failed /\ \A l \in Logins : ~Checking(l, u)',
             \A v \in Users : v # u => row'[v] = row[v] /\ streak'[v] = streak[v],
             \A l \in Logins : login'[l] = login[l] \/ login'[l].pc = "idle",
             \A a \in Admins : adm'[a] = adm[a] \/ adm'[a].pc = "idle"
      PROVE  LockInv'
  <2>1. \A v \in Users, l \in Logins : Checking(l, v)' => Checking(l, v) /\ login'[l] = login[l]
    BY <1>a DEF Checking
  <2>2. \A v \in Users, a \in Admins : Changing(a, v)' => Changing(a, v)
    BY <1>a DEF Changing
  <2>3. \A v \in Users : Alone(v) => Alone(v)'
    BY <2>1, <2>2 DEF Alone
  <2>4. ASSUME NEW v \in Users
        PROVE  /\ row'[v].failed < Threshold
               /\ v \notin crossed => /\ Alone(v)' /\ streak'[v] <= row'[v].failed
                                      /\ \A l \in Logins : Checking(l, v)' => login'[l].failed = row'[v].failed
    BY <1>a, <2>1, <2>3 DEF LockInv
  <2> QED
    BY <1>a, <2>4 DEF LockInv
<1>4. ASSUME NEW l \in Logins, FailLogin(l) PROVE LockInv'
  <2>1. PICK u \in Users, n \in Nat : u = login[l].user /\ n = login[l].failed
    BY DEF TypeOK
  <2>2. login[l].pc = "bad" /\ LoginDone(l) /\ UNCHANGED <<adm, crossed>>
    BY <1>4 DEF FailLogin
  <2>3. /\ \A k \in Logins : login'[k] = login[k] \/ login'[k].pc = "idle"
        /\ login'[l].pc = "idle"
    BY <2>2, IdleTypes DEF LoginDone, TypeOK
  <2>4. u \notin crossed => /\ \A k \in Logins : ~Checking(k, u)'
                            /\ n = row[u].failed /\ streak[u] <= n
    <3>1. Checking(l, u)
      BY <2>1, <2>2 DEF Checking
    <3> QED
      BY <2>1, <2>3, <3>1 DEF LockInv, Alone, Checking
  <2>5. CASE ~row[u].here
    <3>1. UNCHANGED <<row, streak>>
      BY <1>4, <2>1, <2>5 DEF FailLogin
    <3> QED
      BY <1>a, <2>2, <2>3, <2>4, <3>1 DEF LockInv
  <2>6. CASE row[u].here
    <3>1. /\ row' = Counted(u, IF Locks(n + 1) THEN Written(n, 0, row[u].failed) ELSE n + 1,
                               IF Locks(n + 1) THEN login[l].at + LockSeconds ELSE row[u].locked)
          /\ streak' = [streak EXCEPT ![u] = IF Locks(n + 1) THEN 0 ELSE @ + 1]
      BY <1>4, <2>1, <2>6 DEF FailLogin, Counted
    <3>2. /\ row'[u].failed = IF Locks(n + 1) THEN Written(n, 0, row[u].failed) ELSE n + 1
          /\ streak'[u] = IF Locks(n + 1) THEN 0 ELSE streak[u] + 1
          /\ \A v \in Users : v # u => row'[v] = row[v] /\ streak'[v] = streak[v]
      BY <3>1 DEF Counted, TypeOK
    <3>3. row[u].failed < Threshold /\ row[u].failed \in Nat /\ streak[u] \in Nat /\ Threshold \in Nat
      BY DEF LockInv, TypeOK, Parameters
    <3>4. row'[u].failed < Threshold /\ row'[u].failed \in Nat
      BY <3>2, <3>3 DEF Locks, Written
    <3>5. u \notin crossed => streak'[u] <= row'[u].failed
      BY <2>4, <3>2, <3>3, <3>4
    <3> QED
      BY <1>a, <2>2, <2>3, <2>4, <3>2, <3>4, <3>5
  <2> QED
    BY <2>5, <2>6
<1>5. ASSUME NEW l \in Logins, Resolve(l) PROVE LockInv'
  <2>1. /\ login[l].pc = "good" /\ login'[l].user = login[l].user /\ login'[l].failed = login[l].failed
        /\ \A k \in Logins : k # l => login'[k] = login[k]
        /\ UNCHANGED <<row, streak, crossed, adm>>
    BY <1>5 DEF Resolve, TypeOK
  <2> QED
    BY <2>1, LockUndisturbed
<1>b. ASSUME NEW l \in Logins, Issue(l) PROVE LockInv'
  <2>1. /\ login[l].pc = "resolved" /\ login'[l].user = login[l].user /\ login'[l].failed = login[l].failed
        /\ \A k \in Logins : k # l => login'[k] = login[k]
        /\ UNCHANGED <<row, streak, crossed, adm>>
    BY <1>b DEF Issue, TypeOK
  <2> QED
    BY <2>1, LockUndisturbed
<1>6. ASSUME NEW l \in Logins, Succeed(l) PROVE LockInv'
  <2>1. PICK u \in Users, n \in Nat : u = login[l].user /\ n = login[l].failed
    BY DEF TypeOK
  <2>2. login[l].pc = "issued" /\ LoginDone(l) /\ UNCHANGED <<adm, crossed>>
    BY <1>6 DEF Succeed
  <2>3. /\ \A k \in Logins : login'[k] = login[k] \/ login'[k].pc = "idle"
        /\ login'[l].pc = "idle"
    BY <2>2, IdleTypes DEF LoginDone, TypeOK
  <2>4. u \notin crossed => /\ \A k \in Logins : ~Checking(k, u)'
                            /\ n = row[u].failed /\ streak[u] <= n
    <3>1. Checking(l, u)
      BY <2>1, <2>2 DEF Checking
    <3> QED
      BY <2>1, <2>3, <3>1 DEF LockInv, Alone, Checking
  <2>5. CASE ~row[u].here
    <3>1. UNCHANGED <<row, streak>>
      BY <1>6, <2>1, <2>5 DEF Succeed
    <3> QED
      BY <1>a, <2>2, <2>3, <2>4, <3>1 DEF LockInv
  <2>6. CASE row[u].here
    <3>1. /\ row' = Counted(u, Written(n, 0, row[u].failed), Written(login[l].locked, Never, row[u].locked))
          /\ streak' = [streak EXCEPT ![u] = 0]
      BY <1>6, <2>1, <2>6 DEF Succeed, Counted
    <3>2. /\ row'[u].failed = Written(n, 0, row[u].failed) /\ streak'[u] = 0
          /\ \A v \in Users : v # u => row'[v] = row[v] /\ streak'[v] = streak[v]
      BY <3>1 DEF Counted, TypeOK
    <3>3. row[u].failed < Threshold /\ row[u].failed \in Nat /\ Threshold \in Nat
      BY DEF LockInv, TypeOK, Parameters
    <3>4. row'[u].failed < Threshold /\ streak'[u] <= row'[u].failed
      BY <3>2, <3>3 DEF Written
    <3> QED
      BY <1>a, <2>2, <2>3, <2>4, <3>2, <3>4
  <2> QED
    BY <2>5, <2>6
<1>7. ASSUME NEW l \in Logins, LoginFails(l) PROVE LockInv'
  <2>1. \A k \in Logins : login'[k] = login[k] \/ login'[k].pc = "idle"
    BY <1>7, IdleTypes DEF LoginFails, LoginDone, TypeOK
  <2>2. UNCHANGED <<row, streak, adm>> /\ crossed \subseteq crossed'
    BY <1>7 DEF LoginFails
  <2> QED
    BY <2>1, <2>2, LockUndisturbed
<1>8. ASSUME NEW a \in Admins, NEW by \in Users, NEW u \in Users,
             (\E new \in RoleChoices : SetRoles(a, by, u, new)) \/ SetActive(a, by, u) \/ Delete(a, by, u)
      PROVE  LockInv'
  <2>1. \A b \in Admins : b # a => adm'[b] = adm[b]
    BY <1>8 DEF SetRoles, SetActive, Delete, Accept, TypeOK
  <2>2. adm'[a].pc # "password"
    <3>1. ASSUME NEW new \in RoleChoices, SetRoles(a, by, u, new) PROVE adm'[a].pc = "roles"
      <4> DEFINE written == [[IdleAdm EXCEPT !.pc = "roles", !.user = u, !.gone = Gone(u),
                                             !.new = IF new = {} THEN {"viewer"} ELSE new]
                               EXCEPT !.by = by, !.op = left.ops, !.at = now]
      <4>1. adm' = [adm EXCEPT ![a] = written]
        BY <3>1 DEF SetRoles, Accept
      <4>2. written.pc = "roles"
        BY DEF IdleAdm
      <4> HIDE DEF written
      <4> QED
        BY <4>1, <4>2 DEF TypeOK
    <3>2. ASSUME NEW pc \in {"active", "delete"},
                 Accept(a, by, Administer, [IdleAdm EXCEPT !.pc = pc, !.user = u])
          PROVE  adm'[a].pc = pc
      <4> DEFINE written == [[IdleAdm EXCEPT !.pc = pc, !.user = u]
                               EXCEPT !.by = by, !.op = left.ops, !.at = now]
      <4>1. adm' = [adm EXCEPT ![a] = written]
        BY <3>2 DEF Accept
      <4>2. written.pc = pc
        BY DEF IdleAdm
      <4> HIDE DEF written
      <4> QED
        BY <4>1, <4>2 DEF TypeOK
    <3>3. SetActive(a, by, u) => adm'[a].pc = "active"
      BY <3>2 DEF SetActive
    <3>4. Delete(a, by, u) => adm'[a].pc = "delete"
      BY <3>2 DEF Delete
    <3> QED
      BY <1>8, <3>1, <3>3, <3>4
  <2>3. UNCHANGED <<row, login, streak, crossed>>
    BY <1>8 DEF SetRoles, SetActive, Delete
  <2> QED
    BY <2>1, <2>2, <2>3, LockUndisturbed
<1>9. ASSUME NEW a \in Admins, NEW u \in Users, ChangePassword(a, u) PROVE LockInv'
  <2> DEFINE written == [[IdleAdm EXCEPT !.pc = "password", !.user = u, !.failed = row[u].failed,
                                        !.locked = row[u].locked]
                           EXCEPT !.by = u, !.op = left.ops, !.at = now]
  <2>1. adm' = [adm EXCEPT ![a] = written]
    BY <1>9 DEF ChangePassword, Accept
  <2>2. written.user = u
    BY DEF IdleAdm
  <2> HIDE DEF written
  <2>3. adm'[a].user = u /\ \A b \in Admins : b # a => adm'[b] = adm[b]
    BY <2>1, <2>2 DEF TypeOK
  <2>4. /\ crossed' = IF Writers(u) = {} THEN crossed ELSE crossed \cup {u}
        /\ UNCHANGED <<row, login, streak>>
    BY <1>9 DEF ChangePassword
  <2>5. u \notin crossed' => \A l \in Logins : ~Checking(l, u)
    BY <2>4 DEF Writers, Checking
  <2>6. /\ \A v \in Users, b \in Admins : Changing(b, v)' => Changing(b, v) \/ v = u
        /\ \A v \in Users, l \in Logins : Checking(l, v)' <=> Checking(l, v)
    BY <2>3, <2>4 DEF Changing, Checking
  <2>7. \A v \in Users : v \notin crossed' => v \notin crossed /\ (Alone(v) => Alone(v)')
    BY <2>4, <2>5, <2>6 DEF Alone
  <2> QED
    BY <2>4, <2>6, <2>7 DEF LockInv
<1>10. ASSUME NEW a \in Admins, CommitRoles(a) \/ CommitActive(a) \/ CommitDelete(a) \/ AdminFails(a)
       PROVE  LockInv'
  <2>1. AdmDone(a) /\ UNCHANGED <<login, streak>> /\ crossed \subseteq crossed'
    BY <1>10 DEF CommitRoles, CommitActive, CommitDelete, AdminFails
  <2>2. row' = row \/ row' = Removed(adm[a].user) \/ \E b \in BOOLEAN : row' = Switched(adm[a].user, b)
    BY <1>10 DEF CommitRoles, CommitActive, CommitDelete, AdminFails, Switched, Removed
  <2>3. \A v \in Users : /\ Removed(adm[a].user)[v].failed = row[v].failed
                         /\ \A b \in BOOLEAN : Switched(adm[a].user, b)[v].failed = row[v].failed
    BY DEF Switched, Removed, TypeOK
  <2>4. \A v \in Users : row'[v].failed = row[v].failed
    BY <2>2, <2>3
  <2>5. \A b \in Admins : adm'[b] = adm[b] \/ adm'[b].pc # "password"
    BY <2>1, DoneIdle
  <2> QED
    BY <2>1, <2>4, <2>5, LockUndisturbed
<1>11. ASSUME NEW a \in Admins, CommitPassword(a) PROVE LockInv'
  <2>1. PICK u \in Users, n \in Nat : u = adm[a].user /\ n = adm[a].failed
    BY DEF TypeOK
  <2>2. adm[a].pc = "password" /\ AdmDone(a) /\ UNCHANGED <<login, crossed>>
    BY <1>11 DEF CommitPassword
  <2>3. \A b \in Admins : adm'[b] = adm[b] \/ adm'[b].pc = "idle"
    BY <2>2, DoneIdle
  <2>4. u \notin crossed => \A k \in Logins : ~Checking(k, u)'
    <3>1. Changing(a, u)
      BY <2>1, <2>2 DEF Changing
    <3> QED
      BY <2>2, <3>1 DEF LockInv, Alone, Checking
  <2>5. CASE ~row[u].here
    <3>1. UNCHANGED <<row, streak>>
      BY <1>11, <2>1, <2>5 DEF CommitPassword
    <3> QED
      BY <1>a, <2>2, <2>3, <2>4, <3>1 DEF LockInv
  <2>6. CASE row[u].here
    <3>1. /\ row' = Counted(u, Written(n, 0, row[u].failed), Written(adm[a].locked, Never, row[u].locked))
          /\ streak' = [streak EXCEPT ![u] = 0]
      BY <1>11, <2>1, <2>6 DEF CommitPassword, Counted
    <3>2. /\ row'[u].failed = Written(n, 0, row[u].failed) /\ streak'[u] = 0
          /\ \A v \in Users : v # u => row'[v] = row[v] /\ streak'[v] = streak[v]
      BY <3>1 DEF Counted, TypeOK
    <3>3. row[u].failed < Threshold /\ row[u].failed \in Nat /\ Threshold \in Nat
      BY DEF LockInv, TypeOK, Parameters
    <3>4. row'[u].failed < Threshold /\ streak'[u] <= row'[u].failed
      BY <3>2, <3>3 DEF Written
    <3> QED
      BY <1>a, <2>2, <2>3, <2>4, <3>2, <3>4
  <2> QED
    BY <2>5, <2>6
<1> QED
  BY <1>1, <1>2, <1>3, <1>4, <1>5, <1>6, <1>b, <1>7, <1>8, <1>9, <1>10, <1>11 DEF Next

\* Fewer than Threshold failures in a row go without a lock, for any number of users and
\* requests and any positive threshold, until two sessions write an account at once.
THEOREM LocksComeInTime ==
  ASSUME Parameters, Threshold > 0
  PROVE  Spec => []LockInTime
<1>1. Init => TypeOK /\ LockInv
  <2> SUFFICES ASSUME Init PROVE LockInv
    BY TypeInit
  <2>1. \A l \in Logins : login[l].pc = "idle"
    BY IdleTypes DEF Init
  <2>2. \A u \in Users : row[u].failed = 0 /\ streak[u] = 0
    BY DEF Init
  <2> QED
    BY <2>1, <2>2 DEF LockInv, Alone, Checking, Changing
<1>2. TypeOK /\ LockInv /\ [Next]_vars => (TypeOK /\ LockInv)'
  BY TypeStep, LockStep
<1>3. TypeOK /\ LockInv => LockInTime
  <2> SUFFICES ASSUME TypeOK, LockInv, NEW u \in Users \ crossed PROVE streak[u] < Threshold
    BY DEF LockInTime
  <2>1. streak[u] <= row[u].failed /\ row[u].failed < Threshold
    BY DEF LockInv
  <2>2. streak[u] \in Nat /\ row[u].failed \in Nat /\ Threshold \in Nat
    BY DEF TypeOK, Parameters
  <2> QED
    BY <2>1, <2>2
<1> QED
  BY <1>1, <1>2, <1>3, PTL DEF Spec
=============================================================================
