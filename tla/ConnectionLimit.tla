-------------------------- MODULE ConnectionLimit --------------------------
(***************************************************************************)
(* What ratelimit.Limiter promises its callers: a counting semaphore.      *)
(* Allow takes effect at one instant, only while fewer than maxConns       *)
(* connections hold a slot; Release gives back a slot that is held.        *)
(***************************************************************************)
EXTENDS Naturals, FiniteSets

CONSTANTS
  Conns,     \* client connections
  maxConns   \* Limiter.maxConns

VARIABLE holders   \* connections that hold a slot

Init == holders = {}

Acquire(c) ==
  /\ c \notin holders
  /\ Cardinality(holders) < maxConns
  /\ holders' = holders \cup {c}

Release(c) ==
  /\ c \in holders
  /\ holders' = holders \ {c}

Next == \E c \in Conns : Acquire(c) \/ Release(c)

Spec == Init /\ [][Next]_holders

=============================================================================
