\* The deployed gateway (no status reports) and a worker with RQ's scheduler.
SPECIFICATION FairSpec
CONSTANTS
  r1 = r1
  a1 = a1
  w1 = w1
  w2 = w2
  NoIntent = NoIntent
  Replies <- MCReplies
  Activations <- MCActivations
  Workers <- MCWorkers
  MaxRetries = 2
  WithScheduler = TRUE
  Reporting = FALSE
INVARIANTS
  TypeOK
  BoundedSends
  AttemptsCoverSends
  SentMeansDelivered
  SettledUnlessHit
PROPERTIES
  NoAttemptOnceSent
  JobsEnd
  ImplementsOutbox
CHECK_DEADLOCK FALSE
