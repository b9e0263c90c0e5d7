------------------------ MODULE MCAdministration_proofs ------------------------
(***************************************************************************)
(* Proofs about the limiter in front of the logins, for every number of    *)
(* threads, every budget and window, and about the run that has it beside  *)
(* provisioning and the accounts.                                          *)
(***************************************************************************)
EXTENDS MCAdministration, Provisioning_proofs, SequenceTheorems, WellFoundedInduction

-----------------------------------------------------------------------------
(* The limiter.                                                            *)

\* The settings of the limiter are natural numbers.
LimiterSettings == MaxAttempts \in Nat /\ Window \in Nat /\ MaxTime \in Nat /\ MaxCalls \in Nat

Below == {p \in Nat \X Nat : p[1] < p[2]}

LEMMA Smallest ==
  ASSUME NEW T \in SUBSET Nat, T # {}
  PROVE  \E m \in T : \A n \in T : m <= n
<1>1. IsWellFoundedOn(Below, Nat)
  BY NatLessThanWellFounded DEF OpToRel, Below
<1>2. PICK m \in T : \A n \in T : ~(<<n, m>> \in Below)
  BY <1>1, WFMin
<1>3. \A n \in T : ~(n < m)
  BY <1>2 DEF Below
<1> QED
  BY <1>2, <1>3

\* Pruning takes expired stamps from the head of the deque, and nothing else.
LEMMA PrunedTail ==
  ASSUME bucket \in Seq(0..MaxTime), NEW time \in Int
  PROVE  \E k \in Nat :
           /\ k <= Len(bucket)
           /\ Limiter!Pruned(time) \in Seq(0..MaxTime)
           /\ Len(Limiter!Pruned(time)) = Len(bucket) - k
           /\ \A i \in 1..(Len(bucket) - k) : Limiter!Pruned(time)[i] = bucket[k + i]
           /\ \A i \in 1..k : bucket[i] < time - Window
<1> DEFINE live == {i \in 1..Len(bucket) : ~Limiter!Expired(bucket[i], time)}
<1>0. Len(bucket) \in Nat
  OBVIOUS
<1>1. CASE live = {}
  <2>1. Limiter!Pruned(time) = <<>>
    BY <1>1 DEF Limiter!Pruned
  <2>2. \A i \in 1..Len(bucket) : bucket[i] < time - Window
    BY <1>1 DEF Limiter!Expired
  <2> QED
    BY <1>0, <2>1, <2>2
<1>2. CASE live # {}
  <2>0. live \in SUBSET Nat
    OBVIOUS
  <2>1. \E m \in live : \A j \in live : m <= j
    <3> HIDE DEF live
    <3> QED
      BY <1>2, <2>0, Smallest
  <2>2. PICK m \in live : m = CHOOSE i \in live : \A j \in live : i <= j
    BY <2>1
  <2>3. \A j \in live : m <= j
    BY <2>1, <2>2
  <2>4. Limiter!Pruned(time) = SubSeq(bucket, m, Len(bucket))
    BY <1>2, <2>2 DEF Limiter!Pruned
  <2>5. m \in 1..Len(bucket) /\ \A i \in 1..(m - 1) : i \notin live
    BY <1>0, <2>3
  <2>6. \A i \in 1..(m - 1) : bucket[i] < time - Window
    BY <1>0, <2>5 DEF Limiter!Expired
  <2> HIDE DEF live
  <2>7. /\ Limiter!Pruned(time) \in Seq(0..MaxTime)
        /\ Len(Limiter!Pruned(time)) = Len(bucket) - (m - 1)
        /\ \A i \in 1..(Len(bucket) - (m - 1)) : Limiter!Pruned(time)[i] = bucket[(m - 1) + i]
    <3>1. \A i \in m..Len(bucket) : bucket[i] \in 0..MaxTime
      <4>1. \A i \in 1..Len(bucket) : bucket[i] \in 0..MaxTime
        BY ElementOfSeq
      <4> QED
        BY <1>0, <2>5, <4>1
    <3>2. /\ SubSeq(bucket, m, Len(bucket)) \in Seq(0..MaxTime)
          /\ Len(SubSeq(bucket, m, Len(bucket))) = Len(bucket) - m + 1
          /\ \A i \in 1..(Len(bucket) - m + 1) : SubSeq(bucket, m, Len(bucket))[i] = bucket[m + i - 1]
      BY <1>0, <2>5, <3>1, SubSeqProperties
    <3> QED
      BY <1>0, <2>4, <2>5, <3>2
  <2>8. m - 1 \in Nat /\ m - 1 <= Len(bucket)
    BY <1>0, <2>5
  <2> QED
    BY <2>6, <2>7, <2>8
<1> QED
  BY <1>1, <1>2

-----------------------------------------------------------------------------
\* The deque is the end of what was granted, and what was pruned from it had expired when
\* the latest attempt was granted.
Suffix ==
  /\ Len(bucket) <= Len(granted)
  /\ \A i \in 1..Len(bucket) : bucket[i] = granted[(Len(granted) - Len(bucket)) + i]

Forgotten ==
  \A i \in 1..(Len(granted) - Len(bucket)) : granted[i] < granted[Len(granted)] - Window

Sorted == \A i, j \in 1..Len(granted) : i <= j => granted[i] <= granted[j]

LimiterInv ==
  /\ Limiter!TypeOK
  /\ Len(bucket) <= MaxAttempts
  /\ Suffix
  /\ ~late => Sorted /\ Forgotten /\ Limiter!AttemptsBounded

LEMMA LimiterInit == LimiterSettings /\ Limiter!Init => LimiterInv
<1> SUFFICES ASSUME LimiterSettings, Limiter!Init PROVE LimiterInv
  OBVIOUS
<1>1. Limiter!TypeOK
  <2>1. bucket \in Seq(0..MaxTime) /\ granted \in Seq(0..MaxTime)
    BY EmptySeq DEF Limiter!Init
  <2>2. stamp \in [Threads -> 0..MaxTime \cup {Limiter!Idle}]
    BY DEF Limiter!Init
  <2>3. 0 \in 0..MaxTime /\ 0 \in 0..MaxCalls
    BY DEF LimiterSettings
  <2>4. now \in 0..MaxTime /\ calls \in 0..MaxCalls /\ late \in BOOLEAN
    BY <2>3 DEF Limiter!Init
  <2> QED
    BY <2>1, <2>2, <2>4 DEF Limiter!TypeOK
<1>2. Len(bucket) = 0 /\ Len(granted) = 0 /\ MaxAttempts \in Nat
  BY DEF Limiter!Init, LimiterSettings
<1> QED
  BY <1>1, <1>2 DEF LimiterInv, Suffix, Sorted, Forgotten, Limiter!AttemptsBounded

LEMMA CallStep ==
  ASSUME LimiterSettings, LimiterInv, NEW t \in Threads, Limiter!IsAllowed(t)
  PROVE  LimiterInv'
<1> USE DEF LimiterSettings
<1>1. /\ stamp[t] \in 0..MaxTime /\ bucket \in Seq(0..MaxTime) /\ granted \in Seq(0..MaxTime)
      /\ stamp' \in [Threads -> 0..MaxTime \cup {Limiter!Idle}] /\ UNCHANGED <<now, calls>> /\ late' \in BOOLEAN
  BY DEF LimiterInv, Limiter!TypeOK, Limiter!IsAllowed
<1>2. PICK time \in 0..MaxTime : time = stamp[t]
  BY <1>1
<1>3. PICK k \in Nat :
        /\ k <= Len(bucket)
        /\ Limiter!Pruned(time) \in Seq(0..MaxTime)
        /\ Len(Limiter!Pruned(time)) = Len(bucket) - k
        /\ \A i \in 1..(Len(bucket) - k) : Limiter!Pruned(time)[i] = bucket[k + i]
        /\ \A i \in 1..k : bucket[i] < time - Window
  <2>1. time \in Int
    BY <1>2
  <2> QED
    BY <1>1, <2>1, PrunedTail
<1>4. PICK n \in Nat, m \in Nat : n = Len(granted) /\ m = Len(bucket) /\ m <= n /\ k <= m
  BY <1>1, <1>3 DEF LimiterInv, Suffix
<1>5. CASE Len(Limiter!Pruned(time)) >= MaxAttempts
  <2>1. k = 0
    BY <1>3, <1>4, <1>5 DEF LimiterInv
  <2>2. /\ granted' = granted /\ bucket' \in Seq(0..MaxTime) /\ Len(bucket') = m
        /\ \A i \in 1..m : bucket'[i] = bucket[i]
    BY <1>2, <1>3, <1>4, <1>5, <2>1 DEF Limiter!IsAllowed
  <2>3. Limiter!TypeOK' /\ Len(bucket') <= MaxAttempts /\ Suffix'
    BY <1>1, <1>4, <2>2 DEF LimiterInv, Limiter!TypeOK, Suffix
  <2>4. ~late' => ~late
    BY DEF Limiter!IsAllowed
  <2>5. ~late => Sorted' /\ Forgotten' /\ Limiter!AttemptsBounded'
    BY <1>4, <2>2, <2>4 DEF LimiterInv, Sorted, Forgotten, Limiter!AttemptsBounded
  <2> QED
    BY <2>3, <2>4, <2>5 DEF LimiterInv
<1>6. CASE ~(Len(Limiter!Pruned(time)) >= MaxAttempts)
  <2>1. bucket' = Append(Limiter!Pruned(time), time) /\ granted' = Append(granted, time)
    BY <1>2, <1>6 DEF Limiter!IsAllowed
  <2>2. /\ bucket' \in Seq(0..MaxTime) /\ Len(bucket') = m - k + 1 /\ bucket'[m - k + 1] = time
        /\ \A i \in 1..(m - k) : bucket'[i] = bucket[k + i]
    BY <1>3, <1>4, <2>1, AppendProperties
  <2>3. /\ granted' \in Seq(0..MaxTime) /\ Len(granted') = n + 1 /\ granted'[n + 1] = time
        /\ \A i \in 1..n : granted'[i] = granted[i]
    BY <1>1, <1>4, <2>1, AppendProperties
  <2>4. \A i \in 1..n : granted[i] \in 0..MaxTime
    BY <1>1, <1>4
  <2>5. Limiter!TypeOK'
    BY <1>1, <2>2, <2>3 DEF LimiterInv, Limiter!TypeOK
  <2>6. Len(bucket') <= MaxAttempts
    BY <1>3, <1>4, <1>6, <2>2
  <2>7. \A i \in 1..m : bucket[i] = granted[(n - m) + i]
    BY <1>4 DEF LimiterInv, Suffix
  <2>8. Suffix'
    <3>1. (n + 1) - (m - k + 1) = n - m + k /\ m - k + 1 <= n + 1
      BY <1>4
    <3>2. ASSUME NEW i \in 1..(m - k + 1) PROVE bucket'[i] = granted'[(n - m + k) + i]
      <4>1. CASE i = m - k + 1
        <5>1. (n - m + k) + (m - k + 1) = n + 1
          BY <1>4
        <5> QED
          BY <2>2, <2>3, <4>1, <5>1
      <4>2. CASE i # m - k + 1
        <5>1. i \in 1..(m - k) /\ k + i \in 1..m /\ (n - m) + (k + i) \in 1..n
          BY <1>4, <4>2
        <5>2. bucket'[i] = granted[(n - m) + (k + i)]
          BY <2>2, <2>7, <5>1
        <5>3. (n - m) + (k + i) = (n - m + k) + i
          BY <1>4, <5>1
        <5> QED
          BY <2>3, <5>1, <5>2, <5>3
      <4> QED
        BY <4>1, <4>2
    <3> QED
      BY <2>2, <2>3, <3>1, <3>2 DEF Suffix
  <2>9. ASSUME ~late' PROVE Sorted' /\ Forgotten' /\ Limiter!AttemptsBounded'
    <3>1. ~late /\ \A i \in 1..n : granted[i] <= time
      <4>1. ~late /\ \A i \in 1..n : ~(time < granted[i])
        BY <1>2, <1>4, <2>9 DEF Limiter!IsAllowed
      <4> QED
        BY <2>4, <4>1
    <3>2. Sorted'
      <4>1. \A i, j \in 1..n : i <= j => granted[i] <= granted[j]
        BY <1>4, <3>1 DEF LimiterInv, Sorted
      <4> SUFFICES ASSUME NEW i \in 1..(n + 1), NEW j \in 1..(n + 1), i <= j
                   PROVE  granted'[i] <= granted'[j]
        BY <2>3 DEF Sorted
      <4>2. CASE j = n + 1
        BY <1>2, <2>3, <3>1, <4>2
      <4>3. CASE j # n + 1
        <5>1. i \in 1..n /\ j \in 1..n
          BY <4>3
        <5> QED
          BY <2>3, <4>1, <5>1
      <4> QED
        BY <4>2, <4>3
    <3>3. \A i \in 1..(n - m + k) : granted[i] < time - Window
      <4> SUFFICES ASSUME NEW i \in 1..(n - m + k) PROVE granted[i] < time - Window
        OBVIOUS
      <4>1. CASE i <= n - m
        <5>1. n \in 1..n /\ i \in 1..n
          BY <1>4, <4>1
        <5>2. granted[i] < granted[n] - Window
          BY <1>4, <3>1, <4>1 DEF LimiterInv, Forgotten
        <5> QED
          BY <2>4, <3>1, <5>1, <5>2
      <4>2. CASE i > n - m
        <5>1. i - (n - m) \in 1..k /\ i - (n - m) \in 1..m /\ (n - m) + (i - (n - m)) = i
          BY <1>4, <4>2
        <5> QED
          BY <1>3, <2>7, <5>1
      <4> QED
        BY <1>4, <4>1, <4>2
    <3>4. Forgotten'
      <4>1. (n + 1) - (m - k + 1) = n - m + k /\ n - m + k <= n
        BY <1>4
      <4>2. Len(granted') - Len(bucket') = n - m + k
        BY <2>2, <2>3, <4>1
      <4>3. \A i \in 1..(n - m + k) : i \in 1..n
        BY <1>4, <4>1
      <4>4. \A i \in 1..(n - m + k) : granted'[i] < granted'[n + 1] - Window
        BY <2>3, <3>3, <4>3
      <4> QED
        BY <2>3, <4>2, <4>4 DEF Forgotten
    <3>5. Limiter!AttemptsBounded'
      <4> SUFFICES ASSUME NEW i \in 1..(n + 1), i > MaxAttempts
                   PROVE  granted'[i - MaxAttempts] < granted'[i] - Window
        BY <2>3 DEF Limiter!AttemptsBounded
      <4>1. CASE i = n + 1
        <5>1. i - MaxAttempts \in 1..(n - m + k) /\ i - MaxAttempts \in 1..n
          BY <1>3, <1>4, <1>6, <4>1
        <5> QED
          BY <2>3, <3>3, <4>1, <5>1
      <4>2. CASE i # n + 1
        <5>1. i \in 1..n /\ i - MaxAttempts \in 1..n
          BY <1>4, <4>2
        <5>2. granted[i - MaxAttempts] < granted[i] - Window
          BY <1>4, <3>1, <5>1 DEF LimiterInv, Limiter!AttemptsBounded
        <5> QED
          BY <2>3, <5>1, <5>2
      <4> QED
        BY <4>1, <4>2
    <3> QED
      BY <3>2, <3>4, <3>5
  <2> QED
    BY <2>5, <2>6, <2>8, <2>9 DEF LimiterInv
<1> QED
  BY <1>5, <1>6

LEMMA LimiterNext == LimiterSettings /\ LimiterInv /\ [Limiter!Next]_(Limiter!vars) => LimiterInv'
<1> SUFFICES ASSUME LimiterSettings, LimiterInv, [Limiter!Next]_(Limiter!vars) PROVE LimiterInv'
  OBVIOUS
<1> USE DEF LimiterSettings
<1>1. ASSUME Limiter!TypeOK', UNCHANGED <<bucket, granted, late>> PROVE LimiterInv'
  BY <1>1 DEF LimiterInv, Suffix, Sorted, Forgotten, Limiter!AttemptsBounded
<1>2. CASE Limiter!Tick
  BY <1>1, <1>2 DEF Limiter!Tick, LimiterInv, Limiter!TypeOK
<1>3. ASSUME NEW t \in Threads, Limiter!ReadClock(t) PROVE LimiterInv'
  BY <1>1, <1>3 DEF Limiter!ReadClock, LimiterInv, Limiter!TypeOK
<1>4. CASE UNCHANGED Limiter!vars
  BY <1>1, <1>4 DEF Limiter!vars, LimiterInv, Limiter!TypeOK
<1> QED
  BY <1>2, <1>3, <1>4, CallStep DEF Limiter!Next

-----------------------------------------------------------------------------
(* The accounts: the instance Access_proofs is about has the same actions  *)
(* as the one in the run.                                                  *)

AP == INSTANCE Access_proofs WITH now <- clock

LEMMA SameInit == Accounts!Init => AP!Init
BY DEF Accounts!Init, AP!Init, Accounts!IdleLogin, AP!IdleLogin, Accounts!IdleAdm, AP!IdleAdm,
       Accounts!Never, AP!Never, Accounts!Administer, AP!Administer

LEMMA SameNext == Accounts!Next => AP!Next
<1> SUFFICES ASSUME Accounts!Next PROVE AP!Next
  OBVIOUS
<1>1. ASSUME Accounts!Tick PROVE AP!Tick
  BY <1>1 DEF Accounts!Tick, AP!Tick, Accounts!Holds, AP!Holds, Accounts!RolesOf, AP!RolesOf, Accounts!Administer, AP!Administer, Accounts!dbVars, AP!dbVars
<1>2. ASSUME NEW l \in Logins, NEW u \in Users, Accounts!Attempt(l, u) PROVE AP!Attempt(l, u)
  BY <1>2 DEF Accounts!Attempt, AP!Attempt, Accounts!dbVars, AP!dbVars, Accounts!history, AP!history
<1>3. ASSUME NEW l \in Logins, Accounts!Load(l) PROVE AP!Load(l)
  BY <1>3 DEF Accounts!Load, AP!Load, Accounts!LoginDone, AP!LoginDone, Accounts!Writers, AP!Writers, Accounts!dbVars, AP!dbVars, Accounts!IdleLogin, AP!IdleLogin, Accounts!Never, AP!Never
<1>4. ASSUME NEW l \in Logins, Accounts!FailLogin(l) PROVE AP!FailLogin(l)
  BY <1>4 DEF Accounts!FailLogin, AP!FailLogin, Accounts!LoginDone, AP!LoginDone, Accounts!Locks, AP!Locks, Accounts!Written, AP!Written, Accounts!IdleLogin, AP!IdleLogin, Accounts!Never, AP!Never
<1>5. ASSUME NEW l \in Logins, Accounts!Resolve(l) PROVE AP!Resolve(l)
  BY <1>5 DEF Accounts!Resolve, AP!Resolve, Accounts!TopRole, AP!TopRole, Accounts!RolesOf, AP!RolesOf, Accounts!dbVars, AP!dbVars, Accounts!history, AP!history
<1>6. ASSUME NEW l \in Logins, Accounts!Succeed(l) PROVE AP!Succeed(l)
  BY <1>6 DEF Accounts!Succeed, AP!Succeed, Accounts!LoginDone, AP!LoginDone, Accounts!Written, AP!Written, Accounts!IdleLogin, AP!IdleLogin, Accounts!Never, AP!Never
<1>7. ASSUME NEW l \in Logins, Accounts!LoginFails(l) PROVE AP!LoginFails(l)
  BY <1>7 DEF Accounts!LoginFails, AP!LoginFails, Accounts!LoginDone, AP!LoginDone, Accounts!dbVars, AP!dbVars, Accounts!IdleLogin, AP!IdleLogin, Accounts!Never, AP!Never
<1>i. ASSUME NEW l \in Logins, Accounts!Issue(l) PROVE AP!Issue(l)
  BY <1>i DEF Accounts!Issue, AP!Issue, Accounts!dbVars, AP!dbVars
<1>8. ASSUME NEW a \in Admins, NEW by \in Users, NEW u \in Users, NEW new \in RoleChoices, Accounts!SetRoles(a, by, u, new) PROVE AP!SetRoles(a, by, u, new)
  BY <1>8 DEF Accounts!SetRoles, AP!SetRoles, Accounts!Gone, AP!Gone, Accounts!Administer, AP!Administer, Accounts!dbVars, AP!dbVars, Accounts!Accept, AP!Accept, Accounts!Valid, AP!Valid, Accounts!IdleAdm, AP!IdleAdm, Accounts!Never, AP!Never
<1>9. ASSUME NEW a \in Admins, NEW by \in Users, NEW u \in Users, Accounts!SetActive(a, by, u) PROVE AP!SetActive(a, by, u)
  BY <1>9 DEF Accounts!SetActive, AP!SetActive, Accounts!Administer, AP!Administer, Accounts!dbVars, AP!dbVars, Accounts!Accept, AP!Accept, Accounts!Valid, AP!Valid, Accounts!IdleAdm, AP!IdleAdm, Accounts!Never, AP!Never
<1>10. ASSUME NEW a \in Admins, NEW by \in Users, NEW u \in Users, Accounts!Delete(a, by, u) PROVE AP!Delete(a, by, u)
  BY <1>10 DEF Accounts!Delete, AP!Delete, Accounts!Administer, AP!Administer, Accounts!dbVars, AP!dbVars, Accounts!Accept, AP!Accept, Accounts!Valid, AP!Valid, Accounts!IdleAdm, AP!IdleAdm, Accounts!Never, AP!Never
<1>11. ASSUME NEW a \in Admins, NEW u \in Users, Accounts!ChangePassword(a, u) PROVE AP!ChangePassword(a, u)
  BY <1>11 DEF Accounts!ChangePassword, AP!ChangePassword, Accounts!Writers, AP!Writers, Accounts!Roles, AP!Roles, Accounts!dbVars, AP!dbVars, Accounts!Accept, AP!Accept, Accounts!Valid, AP!Valid, Accounts!IdleAdm, AP!IdleAdm, Accounts!Never, AP!Never
<1>12. ASSUME NEW a \in Admins, Accounts!CommitRoles(a) PROVE AP!CommitRoles(a)
  BY <1>12 DEF Accounts!CommitRoles, AP!CommitRoles, Accounts!Administer, AP!Administer, Accounts!AdmDone, AP!AdmDone, Accounts!IdleAdm, AP!IdleAdm, Accounts!Never, AP!Never
<1>13. ASSUME NEW a \in Admins, Accounts!CommitActive(a) PROVE AP!CommitActive(a)
  BY <1>13 DEF Accounts!CommitActive, AP!CommitActive, Accounts!AdmDone, AP!AdmDone, Accounts!history, AP!history, Accounts!IdleAdm, AP!IdleAdm, Accounts!Never, AP!Never
<1>14. ASSUME NEW a \in Admins, Accounts!CommitDelete(a) PROVE AP!CommitDelete(a)
  BY <1>14 DEF Accounts!CommitDelete, AP!CommitDelete, Accounts!Undeletable, AP!Undeletable, Accounts!AdmDone, AP!AdmDone, Accounts!dbVars, AP!dbVars, Accounts!IdleAdm, AP!IdleAdm, Accounts!Never, AP!Never
<1>15. ASSUME NEW a \in Admins, Accounts!CommitPassword(a) PROVE AP!CommitPassword(a)
  BY <1>15 DEF Accounts!CommitPassword, AP!CommitPassword, Accounts!Written, AP!Written, Accounts!AdmDone, AP!AdmDone, Accounts!IdleAdm, AP!IdleAdm, Accounts!Never, AP!Never
<1>16. ASSUME NEW a \in Admins, Accounts!AdminFails(a) PROVE AP!AdminFails(a)
  BY <1>16 DEF Accounts!AdminFails, AP!AdminFails, Accounts!AdmDone, AP!AdmDone, Accounts!dbVars, AP!dbVars, Accounts!IdleAdm, AP!IdleAdm, Accounts!Never, AP!Never
<1> QED
  BY <1>1, <1>2, <1>3, <1>4, <1>5, <1>i, <1>6, <1>7, <1>8, <1>9, <1>10, <1>11, <1>12, <1>13, <1>14, <1>15, <1>16
  DEF Accounts!Next, AP!Next

LEMMA SameVars == UNCHANGED Accounts!vars => UNCHANGED AP!vars
BY DEF Accounts!vars, AP!vars, Accounts!dbVars, AP!dbVars, Accounts!history, AP!history

-----------------------------------------------------------------------------
(* A behaviour of the run is a behaviour of each of its parts.             *)

LEMMA StepOfEachPart ==
  [Step]_<<part, vars, accountVars, limiterVars>>
    => [Next]_vars /\ [Limiter!Next]_(Limiter!vars) /\ [AP!Next]_(AP!vars)
<1> SUFFICES ASSUME [Step]_<<part, vars, accountVars, limiterVars>>
             PROVE  [Next]_vars /\ [Limiter!Next]_(Limiter!vars) /\ [AP!Next]_(AP!vars)
  OBVIOUS
<1>1. UNCHANGED limiterVars => UNCHANGED Limiter!vars
  BY DEF limiterVars, Limiter!vars
<1>2. UNCHANGED accountVars => UNCHANGED Accounts!vars
  BY DEF accountVars, Accounts!vars, Accounts!dbVars, Accounts!history
<1> QED
  BY <1>1, <1>2, SameNext, SameVars DEF Step, Provision, Administrate, Limit

\* Whatever the run does to templates, bindings and builds the component of provisioning
\* allows.
THEOREM BehavesAsProvisioning == Administration => Spec
<1>1. Begin => Init
  BY DEF Begin
<1> QED
  BY <1>1, StepOfEachPart, PTL DEF Administration, Spec

\* Whatever the run does to the limiter the component of the limiter allows.
THEOREM BehavesAsLimiter == Administration => Limiter!Spec
<1>1. Begin => Limiter!Init
  BY DEF Begin
<1> QED
  BY <1>1, StepOfEachPart, PTL DEF Administration, Limiter!Spec

\* Whatever the run does to the accounts the component of the accounts allows.
THEOREM BehavesAsAccounts == Administration => AP!Spec
<1>1. Begin => AP!Init
  BY SameInit DEF Begin
<1> QED
  BY <1>1, StepOfEachPart, PTL DEF Administration, AP!Spec

-----------------------------------------------------------------------------
(* What the run keeps.                                                     *)

\* Users have roles, requests assign roles, and the settings are natural numbers.
AccountSettings ==
  /\ Users # {}
  /\ Assigned \in [Users -> SUBSET Accounts!Roles]
  /\ RoleChoices \subseteq SUBSET Accounts!Roles
  /\ Threshold \in Nat /\ LockSeconds \in Nat /\ Ttl \in Nat /\ MaxTime \in Nat
  /\ Budgets \subseteq [logins : Nat, ops : Nat]

LEMMA SameParameters == AccountSettings => AP!Parameters
BY DEF AccountSettings, AP!Parameters, Accounts!Roles, AP!Roles

\* Provisioning, the accounts and the limiter keep their types, for every set of groups,
\* users, roles, requests, workers and threads, every quota and all settings.
THEOREM TypesCorrect ==
  ASSUME AccountSettings, LimiterSettings
  PROVE  Administration => []TypesOK
<1>1. Spec => []TypeOK
  BY TypeCorrect
<1>2. Limiter!Spec => []Limiter!TypeOK
  <2>1. LimiterInv => Limiter!TypeOK
    BY DEF LimiterInv
  <2> QED
    BY <2>1, LimiterInit, LimiterNext, PTL DEF Limiter!Spec
<1>3. AP!Spec => []AP!TypeOK
  BY SameParameters, AP!TypeCorrect
<1>4. AP!TypeOK => Accounts!TypeOK
  BY DEF AP!TypeOK, Accounts!TypeOK, AP!Never, Accounts!Never, AP!Roles, Accounts!Roles,
         AP!RoleRows, Accounts!RoleRows, AP!LoginStates, Accounts!LoginStates,
         AP!AdmStates, Accounts!AdmStates
<1>5. TypeOK /\ Limiter!TypeOK /\ AP!TypeOK => TypesOK
  BY <1>4 DEF TypesOK
<1> QED
  BY <1>1, <1>2, <1>3, <1>5, BehavesAsProvisioning, BehavesAsLimiter, BehavesAsAccounts, PTL

\* Any MaxAttempts + 1 granted attempts in a row span more than the window, for any number
\* of threads, budget and window, as long as no thread is overtaken.
THEOREM AttemptsAreBounded ==
  ASSUME LimiterSettings
  PROVE  Administration => []AttemptsBounded
<1>1. LimiterInv => AttemptsBounded
  BY DEF LimiterInv, AttemptsBounded, Limiter!AttemptsBounded
<1>2. Limiter!Spec => []AttemptsBounded
  BY <1>1, LimiterInit, LimiterNext, PTL DEF Limiter!Spec
<1> QED
  BY <1>2, BehavesAsLimiter, PTL

\* Fewer than Threshold failures in a row go without a lock, for any number of users and
\* requests and any positive threshold, until two sessions write an account at once.
THEOREM LocksComeInTime ==
  ASSUME AccountSettings, Threshold > 0
  PROVE  Administration => []LockInTime
<1>1. AP!Spec => []AP!LockInTime
  BY SameParameters, AP!LocksComeInTime
<1>2. AP!LockInTime => LockInTime
  BY DEF AP!LockInTime, LockInTime, Accounts!LockInTime
<1> QED
  BY <1>1, <1>2, BehavesAsAccounts, PTL

\* An administrator's request is accepted within a token's lifetime, and the longest time a
\* login of the user took from reading the roles to dating its token, of a moment at which
\* the user held such a role, for any number of users, roles and requests and any lifetime.
THEOREM AuthorityIsBounded ==
  ASSUME AccountSettings
  PROVE  Administration => []AuthorityBounded
<1>1. AP!Spec => []AP!AuthorityBounded
  BY SameParameters, AP!AuthorityIsBounded
<1>2. AP!AuthorityBounded => AuthorityBounded
  BY DEF AP!AuthorityBounded, AuthorityBounded, Accounts!AuthorityBounded, AP!Never, Accounts!Never
<1> QED
  BY <1>1, <1>2, BehavesAsAccounts, PTL

\* The roles of a user are those of one request unless two replaced them at once, for any
\* number of users, requests and role sets.
THEOREM RolesAreOfOneRequest ==
  ASSUME AccountSettings
  PROVE  Administration => []RolesOfOneRequest
<1>1. AP!Spec => []AP!RolesOfOneRequest
  BY SameParameters, AP!RolesAreOfOneRequest
<1>2. AP!RolesOfOneRequest => RolesOfOneRequest
  BY DEF AP!RolesOfOneRequest, RolesOfOneRequest, Accounts!RolesOfOneRequest
<1> QED
  BY <1>1, <1>2, BehavesAsAccounts, PTL

\* What provisioning keeps it keeps beside the accounts and the limiter.
COROLLARY ProvisioningInTheRun ==
  Administration => [](OnePublished /\ BindingsAgree /\ BuildsAccounted) /\ ImplementsRegister
BY BehavesAsProvisioning, OneVersionPublished, BindingsAndAgentsAgree, BuildsAreAccounted,
   BindingsImplementRegister, PTL
=============================================================================
