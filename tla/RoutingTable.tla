---------------------------- MODULE RoutingTable ----------------------------
(***************************************************************************)
(* What the router's rules promise the handlers: a key that has a list of  *)
(* endpoints keeps having one, and the list is one that a source (Consul,  *)
(* or Redis without Consul) has offered for that very key at some time.    *)
(* Nothing is said about how fresh it is.                                  *)
(***************************************************************************)
CONSTANTS Keys, Lists

VARIABLES
  table,    \* key -> list of endpoints
  offered   \* the pairs <<key, list>> that a source has offered so far

Init == table = <<>> /\ offered \subseteq Keys \X Lists

Offer ==
  /\ offered \subseteq offered' /\ offered' \subseteq Keys \X Lists
  /\ UNCHANGED table

Install ==
  /\ \E p \in offered :
       table' = [k \in DOMAIN table \cup {p[1]} |->
                   IF k = p[1] THEN p[2] ELSE table[k]]
  /\ UNCHANGED offered

Next == Offer \/ Install

Spec == Init /\ [][Next]_<<table, offered>>

=============================================================================
