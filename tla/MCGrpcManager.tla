--------------------------- MODULE MCGrpcManager ---------------------------
(* The TLC instance of GrpcManager.  Its run checks liveness, so it uses no *)
(* symmetry.                                                                *)
EXTENDS GrpcManager

=============================================================================
