\* The product requirement that a retry never posts a reply twice.
SPECIFICATION FairSpec
CONSTANTS
  r1 = r1
  a1 = a1
  w1 = w1
  w2 = w2
  NoIntent = NoIntent
  Replies <- MCReplies
  Activations <- MCActivations
  Workers <- MCWorkers
  MaxRetries = 1
  WithScheduler = TRUE
  Reporting = FALSE
INVARIANTS
  NoDuplicateSend
CHECK_DEADLOCK FALSE
