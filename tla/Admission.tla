----------------------------- MODULE Admission -----------------------------
(***************************************************************************)
(* Admission of client connections in handleConnection                     *)
(* (internal/gateway/gateway.go): first the per-IP limiter                 *)
(* (ratelimit/ip_limiter.go), whose methods run under its mutex and are    *)
(* one step each, then the global limiter (ratelimit/limiter.go), whose    *)
(* load, compare-and-swap and add are separate atomic steps.  The deferred *)
(* releases run in reverse order when the handler ends, for any reason.    *)
(*                                                                         *)
(* Time is relative: a tracker holds the ages of its time stamps.  Ages    *)
(* stop at Window, past which an entry is outside the one-second window;   *)
(* the age of lastCleanup stops just past CleanupPeriod.                   *)
(***************************************************************************)
EXTENDS Naturals, FiniteSets, Sequences

CONSTANTS
  Conns,          \* client connections handled by goroutines
  IPs,            \* client addresses
  maxConns,       \* Limiter.maxConns
  maxConnsPerIP,  \* IPLimiter.maxConnsPerIP
  rateLimit,      \* IPLimiter.rateLimit: connections per Window
  Window,         \* one second, in clock ticks
  CleanupPeriod   \* five minutes, in clock ticks

ASSUME AdmissionAssumption ==
  /\ IsFiniteSet(Conns)
  /\ maxConns \in Nat /\ maxConnsPerIP \in Nat /\ rateLimit \in Nat
  /\ Window \in Nat \ {0} /\ CleanupPeriod \in Nat

VARIABLES
  current,       \* Limiter.current
  ipConns,       \* IPLimiter.ipConns: IP -> connection count
  ipRates,       \* IPLimiter.ipRates: IP -> ages of recent admissions
  sinceCleanup,  \* age of IPLimiter.lastCleanup
  pc,            \* where the handler of each connection stands
  ip,            \* extractIP(remoteAddr) of each connection
  seen,          \* the value Limiter.Allow loaded
  admitted       \* history: ages of all admissions of an IP in the window

ipLimiter == <<ipConns, ipRates, sinceCleanup>>
vars == <<current, ipConns, ipRates, sinceCleanup, pc, ip, seen, admitted>>

(* "new": no connection; "load"/"cas": in Limiter.Allow; "serving": past    *)
(* both limiters; "release": only the per-IP slot is left to give back.     *)
Points == {"new", "load", "cas", "serving", "release"}

Holders == {c \in Conns : pc[c] = "serving"}
HoldersOf(i) == {c \in Conns : pc[c] # "new" /\ ip[c] = i}

TypeOK ==
  /\ current \in Nat
  /\ DOMAIN ipConns \subseteq IPs
  /\ \A i \in DOMAIN ipConns : ipConns[i] \in Nat
  /\ DOMAIN ipRates \subseteq IPs
  /\ \A i \in DOMAIN ipRates :
       ipRates[i] \in Seq(0..Window) /\ Len(ipRates[i]) <= rateLimit
  /\ sinceCleanup \in 0..(CleanupPeriod + 1)
  /\ pc \in [Conns -> Points]
  /\ ip \in [Conns -> IPs]
  /\ seen \in [Conns -> Nat]

(* NewLimiter and NewIPLimiter. *)
Init ==
  /\ current = 0
  /\ ipConns = <<>>
  /\ ipRates = <<>>
  /\ sinceCleanup = 0
  /\ pc = [c \in Conns |-> "new"]
  /\ ip \in [Conns -> IPs]
  /\ seen = [c \in Conns |-> 0]
  /\ admitted = [i \in IPs |-> <<>>]

Goto(c, point) == pc' = [pc EXCEPT ![c] = point]

-----------------------------------------------------------------------------
(* IPLimiter *)

(* m[i] = v on a Go map, and delete(m, i) for every i in S. *)
Put(m, i, v) == [j \in DOMAIN m \cup {i} |-> IF j = i THEN v ELSE m[j]]
Delete(m, S) == [j \in DOMAIN m \ S |-> m[j]]

(* A missing entry of a map of counts reads as 0. *)
CountIn(m, i) == IF i \in DOMAIN m THEN m[i] ELSE 0
Count(i) == CountIn(ipConns, i)

(* cleanup looks for zero counts among the entries of ipConns. *)
ZeroCount == {i \in DOMAIN ipConns : ipConns[i] = 0}

(* The entries after cutoff = now - 1s move to the front, in order: the    *)
(* j-th of them to index j.                                                *)
Valid(ages) == {k \in DOMAIN ages : ages[k] < Window}
Recent(ages) ==
  [j \in 1..Cardinality(Valid(ages)) |->
     ages[CHOOSE k \in Valid(ages) :
            Cardinality({m \in Valid(ages) : m <= k}) = j]]

(* The tracker of i after the expired entries were dropped. *)
Pruned(rates, i) == IF i \in DOMAIN rates THEN Recent(rates[i]) ELSE <<>>

AtRate(ages) == Len(ages) >= rateLimit

(* Allow for a connection from address i: the periodic cleanup, the count  *)
(* limit, the rate limit.  A rejected connection is closed at once, and c  *)
(* stands for the next one.                                                *)
IPLimiterAllow(c, i) ==
  LET cleanup == sinceCleanup > CleanupPeriod
      rates   == IF cleanup THEN Delete(ipRates, ZeroCount) ELSE ipRates
      conns   == IF cleanup THEN Delete(ipConns, ZeroCount) ELSE ipConns
      pruned  == Pruned(rates, i)
  IN /\ pc[c] = "new"
     /\ sinceCleanup' = IF cleanup THEN 0 ELSE sinceCleanup
     /\ IF Count(i) >= maxConnsPerIP
          THEN /\ ipConns' = conns /\ ipRates' = rates
               /\ UNCHANGED <<pc, ip, admitted>>
        ELSE IF AtRate(pruned)
          THEN /\ ipConns' = conns /\ ipRates' = Put(rates, i, pruned)
               /\ UNCHANGED <<pc, ip, admitted>>
          ELSE /\ ipConns' = Put(conns, i, Count(i) + 1)
               /\ ipRates' = Put(rates, i, Append(pruned, 0))
               /\ admitted' = [admitted EXCEPT ![i] = Append(@, 0)]
               /\ ip' = [ip EXCEPT ![c] = i]
               /\ Goto(c, "load")
     /\ UNCHANGED <<current, seen>>

(* Mutant: the last connection leaves its entry at zero. *)
IPLimiterReleaseKeepsZero(c) ==
  /\ pc[c] = "release"
  /\ ipConns' = IF Count(ip[c]) = 0 THEN ipConns
                ELSE Put(ipConns, ip[c], Count(ip[c]) - 1)
  /\ Goto(c, "new")
  /\ UNCHANGED <<current, ipRates, sinceCleanup, ip, seen, admitted>>

(* Mutant: the tracker goes with the last connection. *)
IPLimiterReleaseDropsRate(c) ==
  /\ pc[c] = "release"
  /\ IF Count(ip[c]) = 1
       THEN /\ ipConns' = Delete(ipConns, {ip[c]})
            /\ ipRates' = Delete(ipRates, {ip[c]})
       ELSE /\ ipConns' = Put(ipConns, ip[c], Count(ip[c]) - 1)
            /\ ipRates' = ipRates
  /\ Goto(c, "new")
  /\ UNCHANGED <<current, sinceCleanup, ip, seen, admitted>>

(* Release: the entry is deleted when its count reaches 0.  The handler is *)
(* over, and c stands for the next connection.                             *)
IPLimiterRelease(c) ==
  /\ pc[c] = "release"
  /\ ipConns' =
       CASE Count(ip[c]) = 0 -> ipConns
         [] Count(ip[c]) = 1 -> Delete(ipConns, {ip[c]})
         [] OTHER -> Put(ipConns, ip[c], Count(ip[c]) - 1)
  /\ Goto(c, "new")
  /\ UNCHANGED <<current, ipRates, sinceCleanup, ip, seen, admitted>>

-----------------------------------------------------------------------------
(* Limiter *)

(* Allow, the load: at the limit the connection is rejected and only its   *)
(* per-IP slot is released.                                                *)
LimiterLoad(c) ==
  /\ pc[c] = "load"
  /\ seen' = [seen EXCEPT ![c] = current]
  /\ Goto(c, IF current >= maxConns THEN "release" ELSE "cas")
  /\ UNCHANGED <<current, ipLimiter, ip, admitted>>

(* Mutant: a load and a store instead of the compare-and-swap. *)
LimiterCasStore(c) ==
  /\ pc[c] = "cas"
  /\ current' = seen[c] + 1 /\ Goto(c, "serving")
  /\ UNCHANGED <<ipLimiter, ip, seen, admitted>>

(* Allow, the compare-and-swap: a loser loads again. *)
LimiterCas(c) ==
  /\ pc[c] = "cas"
  /\ IF current = seen[c]
       THEN current' = current + 1 /\ Goto(c, "serving")
       ELSE current' = current /\ Goto(c, "load")
  /\ UNCHANGED <<ipLimiter, ip, seen, admitted>>

(* The handler returns, fails or panics; its first deferred call. *)
LimiterRelease(c) ==
  /\ pc[c] = "serving"
  /\ current' = current - 1
  /\ Goto(c, "release")
  /\ UNCHANGED <<ipLimiter, ip, seen, admitted>>

-----------------------------------------------------------------------------
Older(ages) == [k \in DOMAIN ages |-> IF ages[k] < Window THEN ages[k] + 1
                                                          ELSE ages[k]]

Tick ==
  /\ ipRates' = [i \in DOMAIN ipRates |-> Older(ipRates[i])]
  /\ admitted' = [i \in IPs |-> Recent(Older(admitted[i]))]
  /\ sinceCleanup' = IF sinceCleanup > CleanupPeriod THEN sinceCleanup
                                                     ELSE sinceCleanup + 1
  /\ UNCHANGED <<current, ipConns, pc, ip, seen>>

Handler(c) ==
  \/ \E i \in IPs : IPLimiterAllow(c, i)
  \/ IPLimiterRelease(c)
  \/ LimiterLoad(c) \/ LimiterCas(c) \/ LimiterRelease(c)

Next == Tick \/ \E c \in Conns : Handler(c)

Spec == Init /\ [][Next]_vars

-----------------------------------------------------------------------------
(* Properties *)

(* The counters equal what is really held: Limiter.current the connections *)
(* past both limiters, ipConns the connections of each address between     *)
(* Allow and Release, with no entry left at zero.  So every path through   *)
(* the handler gives back exactly what it took.                            *)
SlotsAccounted ==
  /\ current = Cardinality(Holders)
  /\ \A i \in IPs : Count(i) = Cardinality(HoldersOf(i))
  /\ ZeroCount = {}

(* However Allow and Release interleave, at most maxConns connections are  *)
(* served at once, and at most maxConnsPerIP of one address are past the   *)
(* per-IP limiter.                                                         *)
WithinLimits ==
  /\ Cardinality(Holders) <= maxConns
  /\ \A i \in IPs : Cardinality(HoldersOf(i)) <= maxConnsPerIP

(* The inductive invariant behind the two: the types of what is counted,   *)
(* and that a compare-and-swap is tried only from below the limit.         *)
CounterTypes ==
  /\ current \in Nat
  /\ DOMAIN ipConns \subseteq IPs
  /\ \A i \in DOMAIN ipConns : ipConns[i] \in Nat
  /\ pc \in [Conns -> Points]
  /\ ip \in [Conns -> IPs]
  /\ seen \in [Conns -> Nat]

CasBelowLimit == \A c \in Conns : pc[c] = "cas" => seen[c] < maxConns

SlotInv == CounterTypes /\ CasBelowLimit /\ SlotsAccounted /\ WithinLimits

(* In no window of one second does the per-IP limiter admit more than      *)
(* rateLimit connections of one address.                                   *)
WithinRate == \A i \in IPs : Len(admitted[i]) <= rateLimit

(* The load/compare-and-swap loop is a counting semaphore. *)
AtomicLimit == INSTANCE ConnectionLimit WITH holders <- Holders
LimiterIsAtomic == AtomicLimit!Spec

=============================================================================
