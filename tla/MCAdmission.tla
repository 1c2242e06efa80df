---------------------------- MODULE MCAdmission ----------------------------
(* TLC instances of Admission. *)
EXTENDS Admission, TLC

(* Connections run the same code and addresses are only compared. *)
Symmetry == Permutations(Conns) \cup Permutations(IPs)

=============================================================================
