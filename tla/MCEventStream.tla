---------------------------- MODULE MCEventStream ----------------------------
(* A small instance of EventStream: a client that wants everything and one  *)
(* whose filter lets every other event pass, and none beyond MaxEvents.     *)
EXTENDS EventStream

MCStreams == {"all", "filtered"}
MCPasses ==
    [s \in MCStreams |-> IF s = "all" THEN 1 .. MaxEvents
                         ELSE {e \in 1 .. MaxEvents : e % 2 = 0}]
MCPicky == {"filtered"}
=============================================================================
