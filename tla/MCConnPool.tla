----------------------------- MODULE MCConnPool -----------------------------
(***************************************************************************)
(* Small instances of ConnPool.                                            *)
(***************************************************************************)
EXTENDS ConnPool

=============================================================================
