--------------------------- MODULE MCGrpcSession ---------------------------
(* A TCP and a WebSocket client whose IDs fall into one shard, and the      *)
(* receive loops of two streams.                                            *)
EXTENDS GrpcSession

MCgetShard == [s \in Sessions |-> 0]

=============================================================================
