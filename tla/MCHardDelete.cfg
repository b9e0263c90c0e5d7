\* The accounts of MCAdministration, with the deletion of a user who has logged in.
SPECIFICATION Administration
CONSTANTS
  r1 = r1
  r2 = r2
  w1 = w1
  g1 = g1
  l1 = l1
  l2 = l2
  m1 = m1
  m2 = m2
  t1 = t1
  t2 = t2
  t3 = t3
  Requests <- MCRequests
  Workers <- MCWorkers
  Groups <- MCGroups
  Quota <- MCQuota
  Nobody = Nobody
  Users <- MCUsers
  Assigned <- MCAssigned
  RoleChoices <- MCChoices
  Logins <- MCLogins
  Admins <- MCAdmins
  Budgets <- MCBudgets
  Threshold = 2
  LockSeconds = 2
  Ttl = 2
  Threads <- MCThreads
  MaxAttempts = 2
  Window = 1
  MaxCalls = 5
  MaxTime = 2
INVARIANTS
  HardDeleteWorks
CHECK_DEADLOCK FALSE
