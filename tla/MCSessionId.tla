---------------------------- MODULE MCSessionId ----------------------------
(* TLC instances of SessionId. *)
EXTENDS SessionId

=============================================================================
