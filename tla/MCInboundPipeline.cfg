\* A message delivered twice, edited and deleted; two requests, two workers.
SPECIFICATION FairSpec
CONSTANTS
  m1 = m1
  m2 = m2
  r1 = r1
  r2 = r2
  w1 = w1
  w2 = w2
  b1 = b1
  b2 = b2
  create1 = create1
  create2 = create2
  delete1 = delete1
  edit1 = edit1
  edit2 = edit2
  NoDelivery = NoDelivery
  NoMsg = NoMsg
  NoBinding = NoBinding
  Deliveries <- MCRedelivered
  Events <- MCEvents
  EventOf <- MCEventOf
  Msgs <- MCMsgs
  MsgOf <- MCContractMsgOf
  Kind <- MCKind
  Triggering <- MCTriggering
  Requests <- MCRequests
  Workers <- MCWorkers
  Bindings = {b1}
INVARIANTS
  TypeOK
  VersionHistory
  CreatedOnce
  RepliesBacked
  TriggersAccountedFor
PROPERTIES
  TriggersAnswered
CHECK_DEADLOCK FALSE
