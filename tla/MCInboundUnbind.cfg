\* The group is unbound while the agent runs.
SPECIFICATION Spec
CONSTANTS
  m1 = m1
  m2 = m2
  r1 = r1
  r2 = r2
  w1 = w1
  w2 = w2
  b1 = b1
  b2 = b2
  create1 = create1
  create2 = create2
  delete1 = delete1
  edit1 = edit1
  edit2 = edit2
  NoDelivery = NoDelivery
  NoMsg = NoMsg
  NoBinding = NoBinding
  Deliveries <- MCOnce
  Events <- MCEvents
  EventOf <- MCEventOf
  Msgs <- MCMsgs
  MsgOf <- MCGatewayMsgOf
  Kind <- MCKind
  Triggering <- MCTriggering
  Requests <- MCRequests
  Workers <- MCWorkers
  Bindings = {b1}
PROPERTIES
  NoReplyUnbound
CHECK_DEADLOCK FALSE
