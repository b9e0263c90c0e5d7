\* Three versions, two concurrent requests (three in all), one worker.
SPECIFICATION FairSpec
CONSTANTS
  e1 = e1
  e2 = e2
  w1 = w1
  Editors <- MCEditors
  Workers <- MCWorkers
  MaxVersions = 3
  MaxRequests = 3
INVARIANTS
  TypeOK
  PublishedBounded
  PublishedHasJob
PROPERTIES
  PublishedIsIndexed
CHECK_DEADLOCK FALSE
