------------------------- MODULE MCInboundPipeline -------------------------
(* A message that triggers, its deletion and an edit that triggers, each   *)
(* delivered once or twice, as the configuration says. The contract tests  *)
(* of the backend post an edit under the id of the message it edits; the   *)
(* gateway maps it to the id of the protocol event.                        *)
EXTENDS InboundPipeline, TLC

CONSTANTS m1, m2, r1, r2, w1, w2, b1, b2,
          create1, create2, delete1, edit1, edit2

MCMsgs       == {m1, m2}
MCEvents     == {"create", "delete", "edit"}
MCEventOf    == [d \in Deliveries |->
                   CASE d \in {create1, create2} -> "create"
                     [] d \in {edit1, edit2}     -> "edit"
                     [] OTHER                    -> "delete"]
MCContractMsgOf == [e \in MCEvents |-> m1]
MCGatewayMsgOf  == [e \in MCEvents |-> IF e = "edit" THEN m2 ELSE m1]
MCKind       == [e \in MCEvents |-> CASE e = "create" -> "created"
                                      [] e = "edit"   -> "edited"
                                      [] OTHER        -> "deleted"]
MCTriggering == {"create", "edit"}
MCRequests   == {r1, r2}
MCWorkers    == {w1, w2}

MCRedelivered == {create1, create2, delete1, edit1}
MCEdits       == {edit1, edit2}
MCOnce        == {create1, delete1, edit1}
=============================================================================
