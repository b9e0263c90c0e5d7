\* A job that is late, with one editor and one worker.
SPECIFICATION FairSpec
CONSTANTS
  e1 = e1
  e2 = e2
  w1 = w1
  Editors = {e1}
  Workers <- MCWorkers
  MaxVersions = 2
  MaxRequests = 3
PROPERTIES
  ArchivedNeedsRollback
CHECK_DEADLOCK FALSE
