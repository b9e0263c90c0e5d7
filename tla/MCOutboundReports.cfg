\* The gateway contract: status reports, late, repeated or lost.
SPECIFICATION Spec
CONSTANTS
  r1 = r1
  a1 = a1
  w1 = w1
  w2 = w2
  NoIntent = NoIntent
  Replies <- MCReplies
  Activations <- MCActivations
  Workers <- MCWorkers
  MaxRetries = 1
  WithScheduler = TRUE
  Reporting = TRUE
INVARIANTS
  SentMeansDelivered
  SettledUnlessHit
SYMMETRY Symmetry
CHECK_DEADLOCK FALSE
