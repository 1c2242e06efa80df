---------------------------- MODULE MCTcpSession ----------------------------
(* TcpSession with interchangeable sessions and connections. *)
EXTENDS TcpSession, TLC

Symmetry == Permutations(Sessions) \cup Permutations(Conns)

=============================================================================
