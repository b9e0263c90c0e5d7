\* The worker command of the compose file: RQ without its scheduler.
SPECIFICATION FairSpec
CONSTANTS
  r1 = r1
  a1 = a1
  w1 = w1
  w2 = w2
  NoIntent = NoIntent
  Replies <- MCReplies
  Activations <- MCActivations
  Workers <- MCWorkers
  MaxRetries = 1
  WithScheduler = FALSE
  Reporting = FALSE
PROPERTIES
  RetriesRun
CHECK_DEADLOCK FALSE
