---------------------------- MODULE MCClientConn ----------------------------
(* A packet with data, an empty one and one that is too large; lengths 0    *)
(* and 2 stand for 125 and 65535, and 16 for 2^63.                          *)
EXTENDS ClientConn

MCBefore == <<0, 3, 4, 8>>

=============================================================================
