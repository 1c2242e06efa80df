-------------------------- MODULE Admission_proofs --------------------------
(***************************************************************************)
(* Proofs, for every set of connections and addresses and every limit,     *)
(* that the counters of the two limiters equal the slots really held, that *)
(* the limits and the rate hold, and that the lock-free global limiter     *)
(* implements the counting semaphore of ConnectionLimit.                   *)
(***************************************************************************)
EXTENDS Admission, FiniteSetTheorems, WellFoundedInduction, TLAPS

-----------------------------------------------------------------------------
(* Counting connections *)

(* Sets of connections are finite and their sizes natural numbers. *)
LEMMA ConnsFinite ==
  ASSUME NEW S \in SUBSET Conns
  PROVE  IsFiniteSet(S) /\ Cardinality(S) \in Nat
  BY AdmissionAssumption, FS_Subset, FS_CardinalityType

(* A connection that joins adds one. *)
LEMMA CardJoin ==
  ASSUME NEW S \in SUBSET Conns, NEW c \in Conns, c \notin S
  PROVE  Cardinality(S \cup {c}) = Cardinality(S) + 1
  BY ConnsFinite, FS_AddElement

(* A connection that leaves takes one away. *)
LEMMA CardLeave ==
  ASSUME NEW S \in SUBSET Conns, NEW c \in S
  PROVE  Cardinality(S \ {c}) = Cardinality(S) - 1 /\ Cardinality(S) >= 1
<1>1. Cardinality(S \ {c}) = Cardinality(S) - 1
  BY ConnsFinite, FS_RemoveElement
<1>2. Cardinality(S \ {c}) \in Nat /\ Cardinality(S) \in Nat
  BY ConnsFinite
<1> QED
  BY <1>1, <1>2

(* Reading a map of counts after an assignment. *)
LEMMA CountPut ==
  ASSUME NEW m, NEW i, NEW v, NEW j
  PROVE  /\ CountIn(Put(m, i, v), j) = IF j = i THEN v ELSE CountIn(m, j)
         /\ DOMAIN Put(m, i, v) = DOMAIN m \cup {i}
  BY DEF CountIn, Put

(* Reading a map of counts after deletions. *)
LEMMA CountDelete ==
  ASSUME NEW m, NEW S, NEW j
  PROVE  /\ CountIn(Delete(m, S), j) = IF j \in S THEN 0 ELSE CountIn(m, j)
         /\ DOMAIN Delete(m, S) = DOMAIN m \ S
  BY DEF CountIn, Delete

-----------------------------------------------------------------------------
(* The inductive invariant *)

(* Fresh limiters hold nothing. *)
LEMMA InitInv == Init => SlotInv
<1> SUFFICES ASSUME Init PROVE SlotInv
  OBVIOUS
<1>1. Holders = {} /\ \A i \in IPs : HoldersOf(i) = {}
  BY DEF Init, Holders, HoldersOf
<1>2. Cardinality({}) = 0
  BY FS_EmptySet
<1>3. DOMAIN ipConns = {}
  BY DEF Init
<1>4. CounterTypes /\ CasBelowLimit
  BY <1>3 DEF Init, CounterTypes, CasBelowLimit, Points
<1>5. SlotsAccounted
  BY <1>1, <1>2, <1>3 DEF Init, SlotsAccounted, Count, CountIn, ZeroCount
<1>6. WithinLimits
  BY <1>1, <1>2, AdmissionAssumption DEF WithinLimits
<1> QED
  BY <1>4, <1>5, <1>6 DEF SlotInv

(* A step that moves no connection and rewrites ipConns to an equal map. *)
LEMMA NoSlotMoves ==
  ASSUME SlotInv, UNCHANGED <<current, pc, ip, seen>>,
         DOMAIN ipConns' = DOMAIN ipConns,
         \A j \in DOMAIN ipConns : ipConns'[j] = ipConns[j]
  PROVE  SlotInv'
  BY DEF SlotInv, CounterTypes, CasBelowLimit, SlotsAccounted, WithinLimits,
         Count, CountIn, ZeroCount, Holders, HoldersOf

(* IPLimiter.Allow takes a per-IP slot only below maxConnsPerIP; otherwise *)
(* it changes no count, whether or not it ran cleanup.                     *)
LEMMA IPLimiterAllowStep ==
  ASSUME SlotInv, NEW c \in Conns, NEW i \in IPs, IPLimiterAllow(c, i)
  PROVE  SlotInv'
<1> DEFINE conns == IF sinceCleanup > CleanupPeriod
                      THEN Delete(ipConns, ZeroCount) ELSE ipConns
<1>1. /\ DOMAIN conns = DOMAIN ipConns
      /\ \A j \in DOMAIN ipConns : conns[j] = ipConns[j]
      /\ \A j : CountIn(conns, j) = Count(j)
  BY DEF SlotInv, SlotsAccounted, Delete, CountIn, Count
<1>2. CASE pc' = pc
  <2>1. ipConns' = conns /\ UNCHANGED <<current, pc, ip, seen>>
    BY <1>2 DEF IPLimiterAllow, Goto, SlotInv, CounterTypes, Points
  <2> HIDE DEF conns
  <2> QED
    BY <1>1, <2>1, NoSlotMoves
<1>3. CASE pc' # pc
  <2>1. /\ pc[c] = "new" /\ Count(i) < maxConnsPerIP
        /\ ipConns' = Put(conns, i, Count(i) + 1)
        /\ ip' = [ip EXCEPT ![c] = i]
        /\ pc' = [pc EXCEPT ![c] = "load"]
        /\ UNCHANGED <<current, seen>>
    BY <1>3, AdmissionAssumption
       DEF IPLimiterAllow, Goto, Count, CountIn, SlotInv, CounterTypes
  <2> HIDE DEF conns
  <2>2. Holders' = Holders
    BY <2>1 DEF Holders, SlotInv, CounterTypes
  <2>3. /\ HoldersOf(i)' = HoldersOf(i) \cup {c} /\ c \notin HoldersOf(i)
        /\ \A j \in IPs \ {i} : HoldersOf(j)' = HoldersOf(j)
    BY <2>1 DEF HoldersOf, SlotInv, CounterTypes
  <2>4. HoldersOf(i) \in SUBSET Conns
    BY DEF HoldersOf
  <2>5. Cardinality(HoldersOf(i)') = Count(i) + 1
    BY <2>3, <2>4, CardJoin DEF SlotInv, SlotsAccounted
  <2>6. /\ \A j : Count(j)' = IF j = i THEN Count(i) + 1 ELSE Count(j)
        /\ DOMAIN ipConns' = DOMAIN ipConns \cup {i}
        /\ \A j \in DOMAIN ipConns' :
             ipConns'[j] = IF j = i THEN Count(i) + 1 ELSE ipConns[j]
    BY <1>1, <2>1 DEF Count, CountIn, Put
  <2>7. Count(i) \in Nat
    BY DEF SlotInv, CounterTypes, Count, CountIn
  <2>8. CounterTypes' /\ CasBelowLimit'
    BY <2>1, <2>6, <2>7 DEF SlotInv, CounterTypes, CasBelowLimit, Points
  <2>9. SlotsAccounted'
    BY <2>1, <2>2, <2>3, <2>5, <2>6, <2>7
       DEF SlotInv, SlotsAccounted, ZeroCount, CounterTypes
  <2>10. WithinLimits'
    BY <2>1, <2>2, <2>3, <2>5, <2>7, AdmissionAssumption
       DEF SlotInv, WithinLimits
  <2> QED
    BY <2>8, <2>9, <2>10 DEF SlotInv
<1> QED
  BY <1>2, <1>3

(* IPLimiter.Release gives back the one slot its connection took. *)
LEMMA IPLimiterReleaseStep ==
  ASSUME SlotInv, NEW c \in Conns, IPLimiterRelease(c)
  PROVE  SlotInv'
<1> DEFINE i == ip[c]
<1>1. /\ pc[c] = "release" /\ i \in IPs
      /\ pc' = [pc EXCEPT ![c] = "new"]
      /\ UNCHANGED <<current, ip, seen>>
  BY DEF IPLimiterRelease, Goto, SlotInv, CounterTypes
<1>2. Holders' = Holders
  BY <1>1 DEF Holders, SlotInv, CounterTypes
<1>3. /\ HoldersOf(i)' = HoldersOf(i) \ {c} /\ c \in HoldersOf(i)
      /\ \A j \in IPs \ {i} : HoldersOf(j)' = HoldersOf(j)
  BY <1>1 DEF HoldersOf, SlotInv, CounterTypes
<1>4. HoldersOf(i) \in SUBSET Conns
  BY DEF HoldersOf
<1>5. Cardinality(HoldersOf(i)') = Count(i) - 1 /\ Count(i) >= 1
  BY <1>1, <1>3, <1>4, CardLeave DEF SlotInv, SlotsAccounted
<1>6. Count(i) \in Nat
  BY DEF SlotInv, CounterTypes, Count, CountIn
<1>7. /\ \A j : Count(j)' = IF j = i THEN Count(i) - 1 ELSE Count(j)
      /\ DOMAIN ipConns' \subseteq IPs
      /\ \A j \in DOMAIN ipConns' : ipConns'[j] \in Nat \ {0}
  <2>0. \A j \in DOMAIN ipConns : ipConns[j] \in Nat \ {0}
    BY DEF SlotInv, CounterTypes, SlotsAccounted, ZeroCount
  <2>1. CASE Count(i) = 1
    <3>1. ipConns' = Delete(ipConns, {i})
      BY <1>5, <2>1 DEF IPLimiterRelease
    <3> QED
      BY <2>0, <2>1, <3>1 DEF Delete, Count, CountIn, SlotInv, CounterTypes
  <2>2. CASE Count(i) # 1
    <3>1. ipConns' = Put(ipConns, i, Count(i) - 1)
      BY <1>5, <1>6, <2>2 DEF IPLimiterRelease
    <3>2. Count(i) - 1 \in Nat \ {0}
      BY <1>5, <1>6, <2>2
    <3> QED
      BY <1>1, <2>0, <3>1, <3>2 DEF Put, Count, CountIn, SlotInv, CounterTypes
  <2> QED
    BY <2>1, <2>2
<1>8. CounterTypes' /\ CasBelowLimit'
  BY <1>1, <1>7 DEF SlotInv, CounterTypes, CasBelowLimit, Points
<1>9. SlotsAccounted'
  BY <1>1, <1>2, <1>3, <1>5, <1>7 DEF SlotInv, SlotsAccounted, ZeroCount
<1>10. WithinLimits'
  <2>1. Count(i) <= maxConnsPerIP
    BY <1>1 DEF SlotInv, SlotsAccounted, WithinLimits
  <2>2. Cardinality(HoldersOf(i)') <= maxConnsPerIP
    BY <1>5, <1>6, <2>1, AdmissionAssumption
  <2>3. \A j \in IPs : Cardinality(HoldersOf(j)') <= maxConnsPerIP
    BY <1>1, <1>3, <2>2 DEF SlotInv, WithinLimits
  <2>4. Cardinality(Holders') <= maxConns
    BY <1>2 DEF SlotInv, WithinLimits
  <2> QED
    BY <2>3, <2>4 DEF WithinLimits
<1> QED
  BY <1>8, <1>9, <1>10 DEF SlotInv

(* The load of Limiter.Allow moves no slot, and lets only a value below    *)
(* the limit through to the compare-and-swap.                              *)
LEMMA LimiterLoadStep ==
  ASSUME SlotInv, NEW c \in Conns, LimiterLoad(c)
  PROVE  SlotInv'
<1>1. /\ Holders' = Holders
      /\ \A i \in IPs : HoldersOf(i)' = HoldersOf(i)
  BY DEF LimiterLoad, Goto, Holders, HoldersOf, SlotInv, CounterTypes
<1>2. CounterTypes' /\ CasBelowLimit'
  BY AdmissionAssumption
     DEF LimiterLoad, Goto, ipLimiter, SlotInv, CounterTypes, CasBelowLimit,
         Points
<1> QED
  BY <1>1, <1>2
     DEF LimiterLoad, ipLimiter, SlotInv, SlotsAccounted, WithinLimits,
         Count, CountIn, ZeroCount

(* A successful compare-and-swap takes a slot that was free: current is    *)
(* still the value that was below the limit.                               *)
LEMMA LimiterCasStep ==
  ASSUME SlotInv, NEW c \in Conns, LimiterCas(c)
  PROVE  /\ SlotInv'
         /\ Holders' = Holders \/ (/\ c \notin Holders
                                   /\ Cardinality(Holders) < maxConns
                                   /\ Holders' = Holders \cup {c})
<1>1. /\ \A i \in IPs : HoldersOf(i)' = HoldersOf(i)
      /\ \A i : Count(i)' = Count(i)
      /\ ZeroCount' = ZeroCount
  BY DEF LimiterCas, Goto, HoldersOf, SlotInv, CounterTypes, ipLimiter,
         Count, CountIn, ZeroCount
<1>2. CounterTypes' /\ CasBelowLimit'
  BY DEF LimiterCas, Goto, ipLimiter, SlotInv, CounterTypes, CasBelowLimit,
         Points
<1>3. CASE current = seen[c]
  <2>1. Holders' = Holders \cup {c} /\ c \notin Holders
    BY <1>3 DEF LimiterCas, Goto, Holders, SlotInv, CounterTypes
  <2>2. current' = current + 1 /\ current < maxConns
    BY <1>3 DEF LimiterCas, SlotInv, CasBelowLimit
  <2>3. Holders \in SUBSET Conns
    BY DEF Holders
  <2>4. Cardinality(Holders') = current + 1 /\ current = Cardinality(Holders)
    BY <2>1, <2>3, CardJoin DEF SlotInv, SlotsAccounted
  <2>5. SlotsAccounted' /\ WithinLimits'
    BY <1>1, <2>2, <2>4, AdmissionAssumption
       DEF SlotInv, CounterTypes, SlotsAccounted, WithinLimits
  <2> QED
    BY <1>2, <2>1, <2>2, <2>4, <2>5 DEF SlotInv
<1>4. CASE current # seen[c]
  <2>1. Holders' = Holders /\ current' = current
    BY <1>4 DEF LimiterCas, Goto, Holders, SlotInv, CounterTypes
  <2> QED
    BY <1>1, <1>2, <2>1 DEF SlotInv, SlotsAccounted, WithinLimits
<1> QED
  BY <1>3, <1>4

(* Limiter.Release gives back a slot that is held, so current stays at     *)
(* zero or above.                                                          *)
LEMMA LimiterReleaseStep ==
  ASSUME SlotInv, NEW c \in Conns, LimiterRelease(c)
  PROVE  SlotInv' /\ c \in Holders /\ Holders' = Holders \ {c}
<1>1. /\ \A i \in IPs : HoldersOf(i)' = HoldersOf(i)
      /\ \A i : Count(i)' = Count(i)
      /\ ZeroCount' = ZeroCount
  BY DEF LimiterRelease, Goto, HoldersOf, SlotInv, CounterTypes, ipLimiter,
         Count, CountIn, ZeroCount
<1>2. c \in Holders /\ Holders' = Holders \ {c}
  BY DEF LimiterRelease, Goto, Holders, SlotInv, CounterTypes
<1>3. Holders \in SUBSET Conns
  BY DEF Holders
<1>4. Cardinality(Holders') = current - 1 /\ current >= 1
  BY <1>2, <1>3, CardLeave DEF SlotInv, SlotsAccounted
<1>5. CounterTypes' /\ CasBelowLimit'
  BY <1>4 DEF LimiterRelease, Goto, ipLimiter, SlotInv, CounterTypes,
              CasBelowLimit, Points
<1>6. SlotsAccounted' /\ WithinLimits'
  BY <1>1, <1>4, AdmissionAssumption
     DEF LimiterRelease, SlotInv, CounterTypes, SlotsAccounted, WithinLimits
<1> QED
  BY <1>2, <1>5, <1>6 DEF SlotInv

(* Time passing, or nothing happening, moves no slot. *)
LEMMA IdleStep ==
  ASSUME SlotInv, Tick \/ UNCHANGED vars
  PROVE  SlotInv' /\ Holders' = Holders
  BY NoSlotMoves DEF Tick, vars, Holders

(* Every step keeps the invariant. *)
LEMMA SlotStep == SlotInv /\ [Next]_vars => SlotInv'
<1> SUFFICES ASSUME SlotInv, [Next]_vars PROVE SlotInv'
  OBVIOUS
<1>1. CASE Tick \/ UNCHANGED vars
  BY <1>1, IdleStep
<1>2. ASSUME NEW c \in Conns, NEW i \in IPs, IPLimiterAllow(c, i)
      PROVE  SlotInv'
  BY <1>2, IPLimiterAllowStep
<1>3. ASSUME NEW c \in Conns, IPLimiterRelease(c) PROVE SlotInv'
  BY <1>3, IPLimiterReleaseStep
<1>4. ASSUME NEW c \in Conns, LimiterLoad(c) PROVE SlotInv'
  BY <1>4, LimiterLoadStep
<1>5. ASSUME NEW c \in Conns, LimiterCas(c) PROVE SlotInv'
  BY <1>5, LimiterCasStep
<1>6. ASSUME NEW c \in Conns, LimiterRelease(c) PROVE SlotInv'
  BY <1>6, LimiterReleaseStep
<1> QED
  BY <1>1, <1>2, <1>3, <1>4, <1>5, <1>6 DEF Next, Handler

(* SlotInv holds in every reachable state. *)
THEOREM SlotInvariant == Spec => []SlotInv
  BY InitInv, SlotStep, PTL DEF Spec

(* Both limiters count exactly the slots that are held: no path through    *)
(* handleConnection loses a slot or releases one twice.                    *)
THEOREM SlotsAccountedCorrect == Spec => []SlotsAccounted
<1>1. SlotInv => SlotsAccounted
  BY DEF SlotInv
<1> QED
  BY <1>1, SlotInvariant, PTL

(* Never more than maxConns connections are served, nor more than          *)
(* maxConnsPerIP of one address admitted by IPLimiter.Allow.               *)
THEOREM WithinLimitsCorrect == Spec => []WithinLimits
<1>1. SlotInv => WithinLimits
  BY DEF SlotInv
<1> QED
  BY <1>1, SlotInvariant, PTL

-----------------------------------------------------------------------------
(* Refinement *)

(* A step of the handlers is a step of the semaphore, or changes no slot. *)
LEMMA RefinementStep ==
  SlotInv /\ [Next]_vars => [AtomicLimit!Next]_Holders
<1> SUFFICES ASSUME SlotInv, [Next]_vars, Holders' # Holders
             PROVE  AtomicLimit!Next
  OBVIOUS
<1>1. CASE Tick \/ UNCHANGED vars
  BY <1>1, IdleStep
<1>2. ASSUME NEW c \in Conns, NEW i \in IPs, IPLimiterAllow(c, i)
      PROVE  Holders' = Holders
  BY <1>2 DEF IPLimiterAllow, Goto, Holders, SlotInv, CounterTypes
<1>3. ASSUME NEW c \in Conns, IPLimiterRelease(c) \/ LimiterLoad(c)
      PROVE  Holders' = Holders
  BY <1>3 DEF IPLimiterRelease, LimiterLoad, Goto, Holders, SlotInv,
              CounterTypes
<1>4. ASSUME NEW c \in Conns, LimiterCas(c) PROVE AtomicLimit!Acquire(c)
  <2>1. /\ c \notin Holders /\ Cardinality(Holders) < maxConns
        /\ Holders' = Holders \cup {c}
    BY <1>4, LimiterCasStep
  <2> QED
    BY <2>1, Zenon DEF AtomicLimit!Acquire, AtomicLimit!Cardinality, Cardinality
<1>5. ASSUME NEW c \in Conns, LimiterRelease(c) PROVE AtomicLimit!Release(c)
  BY <1>5, LimiterReleaseStep DEF AtomicLimit!Release
<1> QED
  BY <1>1, <1>2, <1>3, <1>4, <1>5 DEF Next, Handler, AtomicLimit!Next

(* The load, compare-and-swap and add of ratelimit.Limiter implement the   *)
(* counting semaphore.                                                     *)
THEOREM LimiterImplementsSemaphore == Spec => LimiterIsAtomic
<1>1. Init => AtomicLimit!Init
  BY DEF Init, AtomicLimit!Init, Holders
<1> QED
  BY <1>1, SlotInvariant, RefinementStep, PTL
     DEF Spec, LimiterIsAtomic, AtomicLimit!Spec

-----------------------------------------------------------------------------
(* The window *)

(* Every nonempty set of natural numbers has a smallest element. *)
LEMMA Smallest ==
  ASSUME NEW T \in SUBSET Nat, T # {}
  PROVE  \E x \in T : \A y \in T : x <= y
<1> DEFINE R == OpToRel(<, Nat)
<1>1. IsWellFoundedOn(R, Nat)
  BY NatLessThanWellFounded
<1>2. \A x, y \in Nat : x < y => <<x, y>> \in R
  BY DEF OpToRel
<1> HIDE DEF R
<1>3. PICK x \in T : \A y \in T : ~(<<y, x>> \in R)
  BY <1>1, WFMin
<1>4. ASSUME NEW y \in T PROVE x <= y
  <2>1. x \in Nat /\ y \in Nat
    OBVIOUS
  <2>2. ~(y < x)
    BY <1>2, <1>3, <2>1, Zenon
  <2> QED
    BY <2>1, <2>2
<1> QED
  BY <1>4

Ages == Seq(0..Window)

LEMMA Entries ==
  ASSUME NEW S, NEW r \in Seq(S)
  PROVE  /\ Len(r) \in Nat /\ DOMAIN r = 1..Len(r)
         /\ \A k \in 1..Len(r) : r[k] \in S
  OBVIOUS

LEMMA Entered ==
  ASSUME NEW S, NEW n \in Nat, NEW r \in [1..n -> S]
  PROVE  r \in Seq(S) /\ Len(r) = n
  OBVIOUS

(* The oldest time stamps come first. *)
InTime(r) == \A j, k \in 1..Len(r) : j <= k => r[k] <= r[j]

(* The entries of r from index v on. *)
From(r, v) == [j \in 1..(Len(r) - v + 1) |-> r[v + j - 1]]

(* What the window holds of a tracker is its end. *)
LEMMA ValidEnd ==
  ASSUME NEW r \in Ages, InTime(r)
  PROVE  \E v \in 1..(Len(r) + 1) : Valid(r) = v..Len(r)
<1>1. /\ Len(r) \in Nat /\ DOMAIN r = 1..Len(r)
      /\ \A k \in 1..Len(r) : r[k] \in Nat
  BY AdmissionAssumption DEF Ages
<1>2. CASE Valid(r) = {}
  <2>1. Len(r) + 1 \in 1..(Len(r) + 1) /\ (Len(r) + 1)..Len(r) = {}
    BY <1>1
  <2> QED
    BY <1>2, <2>1
<1>3. CASE Valid(r) # {}
  <2>1. Valid(r) \in SUBSET Nat /\ Valid(r) \subseteq 1..Len(r)
    BY <1>1 DEF Valid
  <2>2. PICK v \in Valid(r) : \A k \in Valid(r) : v <= k
    BY <1>3, <2>1, Smallest
  <2>3. v \in 1..Len(r) /\ r[v] < Window
    BY <1>1 DEF Valid
  <2>4. ASSUME NEW k \in v..Len(r) PROVE k \in Valid(r)
    <3>1. k \in 1..Len(r) /\ v <= k
      BY <1>1, <2>3
    <3>2. r[k] <= r[v]
      BY <2>3, <3>1 DEF InTime
    <3>3. r[k] < Window
      BY <1>1, <2>3, <3>1, <3>2, AdmissionAssumption
    <3> QED
      BY <1>1, <3>1, <3>3 DEF Valid
  <2>5. ASSUME NEW k \in Valid(r) PROVE k \in v..Len(r)
    BY <1>1, <2>1, <2>2, <2>3
  <2>6. Valid(r) = v..Len(r)
    BY <2>4, <2>5, Zenon
  <2>7. v \in 1..(Len(r) + 1)
    BY <1>1, <2>3
  <2> QED
    BY <2>6, <2>7
<1> QED
  BY <1>2, <1>3

LEMMA CardInterval ==
  ASSUME NEW a \in Nat, NEW b \in Nat, a <= b + 1
  PROVE  Cardinality(a..b) = b - a + 1
<1>1. Cardinality(a..b) = IF a > b THEN 0 ELSE b - a + 1
  BY FS_Interval
<1>2. CASE a > b
  BY <1>1, <1>2
<1>3. CASE ~(a > b)
  BY <1>1, <1>3
<1> QED
  BY <1>2, <1>3

(* Allow's loop then keeps exactly that end. *)
LEMMA RecentIs ==
  ASSUME NEW r, Len(r) \in Nat, NEW v \in 1..(Len(r) + 1), Valid(r) = v..Len(r)
  PROVE  Recent(r) = From(r, v)
<1> DEFINE n == Len(r)
           index(j) == CHOOSE k \in Valid(r) :
                         Cardinality({m \in Valid(r) : m <= k}) = j
<1> HIDE DEF n
<1>1. n \in Nat /\ v \in 1..(n + 1) /\ Valid(r) = v..n
  BY DEF n
<1>2. Cardinality(Valid(r)) = n - v + 1
  <2>1. v \in Nat /\ v <= n + 1
    BY <1>1
  <2>2. Cardinality(v..n) = n - v + 1
    BY <1>1, <2>1, CardInterval
  <2> QED
    BY <1>1, <2>2
<1>3. ASSUME NEW k \in v..n PROVE Cardinality({m \in Valid(r) : m <= k}) = k - v + 1
  <2>1. {m \in Valid(r) : m <= k} = v..k
    BY <1>1
  <2> QED
    <3>1. v \in Nat /\ k \in Nat /\ v <= k + 1
      BY <1>1
    <3>2. Cardinality(v..k) = k - v + 1
      BY <3>1, CardInterval
    <3> QED
      BY <2>1, <3>2
<1>4. ASSUME NEW j \in 1..(n - v + 1) PROVE index(j) = v + j - 1
  <2>1. v + j - 1 \in v..n /\ (v + j - 1) - v + 1 = j
    BY <1>1
  <2>2. Cardinality({m \in Valid(r) : m <= v + j - 1}) = j
    BY <1>3, <2>1
  <2>3. \A k \in v..n : Cardinality({m \in Valid(r) : m <= k}) = j => k = v + j - 1
    BY <1>1, <1>3
  <2>4. index(j) \in Valid(r) /\ Cardinality({m \in Valid(r) : m <= index(j)}) = j
    BY <1>1, <2>1, <2>2
  <2> QED
    BY <1>1, <2>3, <2>4
<1>5. Recent(r) = [j \in 1..(n - v + 1) |-> r[index(j)]]
  BY <1>2 DEF Recent
<1> QED
  BY <1>4, <1>5 DEF From, n

LEMMA FromIs ==
  ASSUME NEW r \in Ages, NEW v \in 1..(Len(r) + 1)
  PROVE  /\ From(r, v) \in Ages /\ Len(From(r, v)) = Len(r) - v + 1
         /\ \A j \in 1..(Len(r) - v + 1) :
              v + j - 1 \in v..Len(r) /\ From(r, v)[j] = r[v + j - 1]
<1> DEFINE n == Len(r) - v + 1
<1>1. n \in Nat /\ Len(r) \in Nat
  BY DEF Ages
<1>2. ASSUME NEW j \in 1..n
      PROVE  v + j - 1 \in v..Len(r) /\ r[v + j - 1] \in 0..Window
  <2>1. v + j - 1 \in v..Len(r) /\ v + j - 1 \in 1..Len(r)
    BY <1>1
  <2> QED
    BY <2>1, Entries DEF Ages
<1>3. From(r, v) = [j \in 1..n |-> r[v + j - 1]]
  BY DEF From
<1> HIDE DEF n
<1>4. From(r, v) \in [1..n -> 0..Window]
  BY <1>2, <1>3
<1>5. From(r, v) \in Ages /\ Len(From(r, v)) = n
  BY <1>1, <1>4, Entered DEF Ages
<1>6. \A j \in 1..n : From(r, v)[j] = r[v + j - 1]
  BY <1>3
<1> QED
  BY <1>2, <1>5, <1>6 DEF n

(* A tracker that was just pruned. *)
LEMMA RecentType ==
  ASSUME NEW r \in Ages, InTime(r)
  PROVE  /\ Recent(r) \in Ages /\ InTime(Recent(r)) /\ Len(Recent(r)) <= Len(r)
         /\ \A k \in 1..Len(Recent(r)) : Recent(r)[k] < Window
<1>0. Len(r) \in Nat /\ DOMAIN r = 1..Len(r)
  BY DEF Ages
<1>1. PICK v \in 1..(Len(r) + 1) : Valid(r) = v..Len(r)
  BY ValidEnd
<1>2. PICK q : q = From(r, v)
  OBVIOUS
<1>3. Recent(r) = q
  BY <1>0, <1>1, <1>2, RecentIs
<1>4. /\ q \in Ages /\ Len(q) = Len(r) - v + 1
      /\ \A j \in 1..Len(q) : v + j - 1 \in v..Len(r) /\ q[j] = r[v + j - 1]
  BY <1>2, FromIs
<1>5. Len(q) <= Len(r)
  BY <1>0, <1>4
<1>6. ASSUME NEW k \in 1..Len(q) PROVE q[k] < Window
  <2>1. v + k - 1 \in Valid(r) /\ q[k] = r[v + k - 1]
    BY <1>1, <1>4
  <2> QED
    BY <2>1 DEF Valid
<1>7. ASSUME NEW j \in 1..Len(q), NEW k \in 1..Len(q), j <= k PROVE q[k] <= q[j]
  <2>1. /\ v + j - 1 \in 1..Len(r) /\ v + k - 1 \in 1..Len(r)
        /\ v + j - 1 <= v + k - 1
    BY <1>0, <1>4, <1>7
  <2> QED
    BY <1>4, <2>1 DEF InTime
<1>8. InTime(q)
  BY <1>7 DEF InTime
<1> QED
  BY <1>3, <1>4, <1>5, <1>6, <1>8

(* Nothing is dropped from a tracker that is within the window. *)
LEMMA RecentAll ==
  ASSUME NEW q \in Ages, \A k \in 1..Len(q) : q[k] < Window
  PROVE  Recent(q) = q
<1>1. Len(q) \in Nat /\ DOMAIN q = 1..Len(q) /\ 1 \in 1..(Len(q) + 1)
  BY DEF Ages
<1>2. Valid(q) = 1..Len(q)
  BY <1>1 DEF Valid
<1>3. Recent(q) = From(q, 1)
  BY <1>1, <1>2, RecentIs
<1>4. From(q, 1) = [j \in 1..Len(q) |-> q[j]]
  <2>1. Len(q) - 1 + 1 = Len(q) /\ \A j \in 1..Len(q) : 1 + j - 1 = j
    BY <1>1
  <2> QED
    BY <2>1 DEF From
<1>5. q = [j \in 1..Len(q) |-> q[j]]
  BY <1>1 DEF Ages
<1> QED
  BY <1>3, <1>4, <1>5

LEMMA OlderType ==
  ASSUME NEW r \in Ages
  PROVE  /\ Older(r) \in Ages /\ Len(Older(r)) = Len(r)
         /\ \A k \in 1..Len(r) :
              Older(r)[k] = IF r[k] < Window THEN r[k] + 1 ELSE r[k]
         /\ InTime(r) => InTime(Older(r))
<1>1. /\ Len(r) \in Nat /\ DOMAIN r = 1..Len(r)
      /\ \A k \in 1..Len(r) : r[k] \in 0..Window
  BY Entries DEF Ages
<1>2. Older(r) = [k \in 1..Len(r) |-> IF r[k] < Window THEN r[k] + 1 ELSE r[k]]
  BY <1>1 DEF Older
<1>3. \A k \in 1..Len(r) : (IF r[k] < Window THEN r[k] + 1 ELSE r[k]) \in 0..Window
  BY <1>1, AdmissionAssumption
<1>4. Older(r) \in Ages
  BY <1>1, <1>2, <1>3 DEF Ages
<1>5. Len(Older(r)) = Len(r)
  BY <1>1, <1>2, <1>4 DEF Ages
<1>6. ASSUME InTime(r) PROVE InTime(Older(r))
  <2> SUFFICES ASSUME NEW j \in 1..Len(r), NEW k \in 1..Len(r), j <= k
               PROVE  Older(r)[k] <= Older(r)[j]
    BY <1>5 DEF InTime
  <2>1. r[k] <= r[j] /\ r[k] \in Nat /\ r[j] \in Nat
    BY <1>1, <1>6, AdmissionAssumption DEF InTime
  <2>2. /\ Older(r)[k] = IF r[k] < Window THEN r[k] + 1 ELSE r[k]
        /\ Older(r)[j] = IF r[j] < Window THEN r[j] + 1 ELSE r[j]
    BY <1>2
  <2>3. r[k] <= Window /\ r[j] <= Window
    BY <1>1, AdmissionAssumption
  <2> QED
    BY <2>1, <2>2, <2>3, AdmissionAssumption
<1> QED
  BY <1>2, <1>4, <1>5, <1>6

(* What has left the window does not come back into it. *)
LEMMA RecentOlder ==
  ASSUME NEW r \in Ages, InTime(r)
  PROVE  Recent(Older(Recent(r))) = Recent(Older(r))
<1>0. PICK n \in Nat : n = Len(r) /\ DOMAIN r = 1..n
  BY DEF Ages
<1>1. PICK v \in 1..(n + 1) : Valid(r) = v..n
  BY <1>0, ValidEnd
<1>2. PICK q : q = From(r, v) /\ q = Recent(r)
  BY <1>0, <1>1, RecentIs
<1>3. /\ q \in Ages /\ Len(q) = n - v + 1
      /\ \A j \in 1..(n - v + 1) : q[j] = r[v + j - 1]
  BY <1>0, <1>2, FromIs
<1>4. PICK o : /\ o = Older(r) /\ o \in Ages /\ Len(o) = n /\ InTime(o)
               /\ \A k \in 1..n : o[k] = IF r[k] < Window THEN r[k] + 1 ELSE r[k]
  BY <1>0, OlderType
<1>5. PICK p : /\ p = Older(q) /\ p \in Ages /\ Len(p) = n - v + 1
               /\ \A j \in 1..(n - v + 1) :
                    p[j] = IF q[j] < Window THEN q[j] + 1 ELSE q[j]
  BY <1>3, OlderType
<1>6. /\ DOMAIN o = 1..n /\ DOMAIN p = 1..(n - v + 1) /\ v \in Nat
      /\ \A k \in 1..n : r[k] \in Nat
  BY <1>0, <1>4, <1>5, AdmissionAssumption DEF Ages
<1>7. ASSUME NEW j \in 1..(n - v + 1)
      PROVE  v + j - 1 \in 1..n /\ p[j] = o[v + j - 1]
  <2>1. v + j - 1 \in 1..n
    BY <1>6
  <2>2. q[j] = r[v + j - 1]
    BY <1>3
  <2> QED
    BY <1>4, <1>5, <2>1, <2>2
<1>8. PICK w \in 1..(n + 1) : Valid(o) = w..n
  BY <1>4, ValidEnd
<1>9. v <= w
  <2>1. CASE w = n + 1
    BY <1>6, <2>1
  <2>2. CASE w # n + 1
    <3>1. w \in Valid(o) /\ w \in 1..n
      BY <1>8, <2>2
    <3>2. o[w] < Window
      BY <3>1 DEF Valid
    <3>3. r[w] < Window
      BY <1>4, <1>6, <3>1, <3>2, AdmissionAssumption
    <3>4. w \in Valid(r)
      BY <1>0, <3>1, <3>3 DEF Valid
    <3> QED
      BY <1>1, <3>4
  <2> QED
    BY <2>1, <2>2
<1>10. PICK u \in 1..((n - v + 1) + 1) : u = w - v + 1
  BY <1>6, <1>9
<1>11. Valid(p) = u..(n - v + 1)
  <2>1. ASSUME NEW j \in 1..(n - v + 1)
        PROVE  j \in Valid(p) <=> j \in u..(n - v + 1)
    <3>1. j \in Valid(p) <=> p[j] < Window
      BY <1>6 DEF Valid
    <3>2. v + j - 1 \in Valid(o) <=> p[j] < Window
      BY <1>6, <1>7 DEF Valid
    <3>3. v + j - 1 \in w..n <=> j \in u..(n - v + 1)
      BY <1>6, <1>10
    <3> QED
      BY <1>8, <3>1, <3>2, <3>3
  <2>2. Valid(p) \subseteq 1..(n - v + 1)
    BY <1>6 DEF Valid
  <2>3. u..(n - v + 1) \subseteq 1..(n - v + 1)
    BY <1>6
  <2> QED
    BY <2>1, <2>2, <2>3, Zenon
<1>12. Recent(o) = From(o, w) /\ Recent(p) = From(p, u)
  <2>1. Recent(o) = From(o, w)
    BY <1>4, <1>8, RecentIs
  <2>2. Len(p) \in Nat /\ u \in 1..(Len(p) + 1) /\ Valid(p) = u..Len(p)
    BY <1>5, <1>6, <1>10, <1>11
  <2> QED
    BY <2>1, <2>2, RecentIs
<1>13. From(p, u) = From(o, w)
  <2>1. Len(p) - u + 1 = n - w + 1 /\ Len(o) - w + 1 = n - w + 1
    BY <1>4, <1>5, <1>6, <1>10
  <2>2. ASSUME NEW j \in 1..(n - w + 1) PROVE p[u + j - 1] = o[w + j - 1]
    <3>1. u + j - 1 \in 1..(n - v + 1) /\ v + (u + j - 1) - 1 = w + j - 1
      BY <1>6, <1>9, <1>10
    <3> QED
      BY <1>7, <3>1
  <2> QED
    BY <2>1, <2>2 DEF From
<1> QED
  BY <1>2, <1>4, <1>5, <1>12, <1>13

(* A tracker of ipRates: its entries are in time and within the rate. *)
TrackerOK(r) == r \in Ages /\ InTime(r) /\ Len(r) <= rateLimit

(* The trackers hold what was admitted in the window: pruning drops only   *)
(* what has left it, and cleanup, which looks for counts at zero, drops    *)
(* nothing, since Release leaves no count at zero.                         *)
RateInv ==
  /\ DOMAIN ipRates \subseteq IPs
  /\ \A i \in DOMAIN ipRates : TrackerOK(ipRates[i])
  /\ DOMAIN admitted = IPs
  /\ \A i \in IPs : admitted[i] = Pruned(ipRates, i)
  /\ sinceCleanup \in 0..(CleanupPeriod + 1)

LEMMA NoAges ==
  /\ TrackerOK(<<>>) /\ Recent(<<>>) = <<>> /\ Older(<<>>) = <<>>
<1>1. <<>> \in Ages /\ Len(<<>>) = 0
  BY DEF Ages
<1>2. InTime(<<>>) /\ 0 <= rateLimit
  BY AdmissionAssumption DEF InTime
<1>3. Recent(<<>>) = <<>>
  BY <1>1, RecentAll
<1> QED
  BY <1>1, <1>2, <1>3 DEF TrackerOK, Older

(* What Allow finds for i after pruning. *)
LEMMA PrunedType ==
  ASSUME RateInv, NEW i \in IPs
  PROVE  /\ TrackerOK(Pruned(ipRates, i))
         /\ Recent(Pruned(ipRates, i)) = Pruned(ipRates, i)
         /\ \A k \in 1..Len(Pruned(ipRates, i)) : Pruned(ipRates, i)[k] < Window
<1>1. CASE i \notin DOMAIN ipRates
  <2>1. Pruned(ipRates, i) = <<>> /\ 1..Len(<<>>) = {}
    BY <1>1 DEF Pruned
  <2> QED
    BY <2>1, NoAges
<1>2. CASE i \in DOMAIN ipRates
  <2>1. PICK r : r = ipRates[i] /\ TrackerOK(r) /\ Pruned(ipRates, i) = Recent(r)
    BY <1>2 DEF Pruned, RateInv
  <2>2. /\ Recent(r) \in Ages /\ InTime(Recent(r)) /\ Len(Recent(r)) <= Len(r)
        /\ \A k \in 1..Len(Recent(r)) : Recent(r)[k] < Window
    BY <2>1, RecentType DEF TrackerOK
  <2>3. Len(Recent(r)) \in Nat /\ Len(r) \in Nat
    BY <2>1, <2>2 DEF TrackerOK, Ages
  <2>4. Len(Recent(r)) <= rateLimit
    BY <2>1, <2>2, <2>3, AdmissionAssumption DEF TrackerOK
  <2>5. Recent(Recent(r)) = Recent(r)
    BY <2>2, RecentAll
  <2> QED
    BY <2>1, <2>2, <2>4, <2>5 DEF TrackerOK
<1> QED
  BY <1>1, <1>2

(* An admission at age 0. *)
LEMMA Admitted ==
  ASSUME NEW q, TrackerOK(q), \A k \in 1..Len(q) : q[k] < Window, Len(q) < rateLimit
  PROVE  TrackerOK(Append(q, 0)) /\ Recent(Append(q, 0)) = Append(q, 0)
<1>1. PICK n \in Nat : n = Len(q) /\ \A k \in 1..n : q[k] \in 0..Window
  BY Entries DEF TrackerOK, Ages
<1>2. PICK a : a = Append(q, 0)
  OBVIOUS
<1>3. a \in Ages /\ Len(a) = n + 1
  <2>1. 0 \in 0..Window
    BY AdmissionAssumption
  <2>2. q \in Seq(0..Window)
    BY DEF TrackerOK, Ages
  <2> QED
    BY <1>1, <1>2, <2>1, <2>2 DEF Ages
<1>4. a[n + 1] = 0 /\ \A k \in 1..n : a[k] = q[k]
  <2>1. q \in Seq(0..Window)
    BY DEF TrackerOK, Ages
  <2> QED
    BY <1>1, <1>2, <2>1
<1>5. \A k \in 1..(n + 1) : a[k] < Window /\ a[k] \in Nat
  BY <1>1, <1>4, AdmissionAssumption
<1>6. ASSUME NEW j \in 1..(n + 1), NEW k \in 1..(n + 1), j <= k PROVE a[k] <= a[j]
  <2>1. CASE k = n + 1
    BY <1>4, <1>5, <2>1
  <2>2. CASE k # n + 1
    <3>1. k \in 1..n /\ j \in 1..n
      BY <1>6, <2>2
    <3>2. q[k] <= q[j]
      BY <1>1, <1>6, <3>1 DEF TrackerOK, InTime
    <3> QED
      BY <1>4, <3>1, <3>2
  <2> QED
    BY <2>1, <2>2
<1>7. InTime(a)
  BY <1>3, <1>6 DEF InTime
<1>8. Len(a) <= rateLimit
  BY <1>1, <1>3, AdmissionAssumption
<1>9. Recent(a) = a
  BY <1>3, <1>5, RecentAll
<1> QED
  BY <1>2, <1>3, <1>7, <1>8, <1>9 DEF TrackerOK

(* A step that replaces the tracker of i, and no other, by r. *)
LEMMA TrackerPut ==
  ASSUME RateInv, NEW i \in IPs, NEW r, TrackerOK(r), NEW m,
         DOMAIN m = DOMAIN ipRates, \A j \in DOMAIN ipRates : m[j] = ipRates[j],
         ipRates' = Put(m, i, r), DOMAIN admitted' = IPs,
         \A j \in IPs : admitted'[j] = IF j = i THEN Recent(r) ELSE admitted[j],
         sinceCleanup' \in 0..(CleanupPeriod + 1)
  PROVE  RateInv'
<1>1. /\ DOMAIN ipRates' = DOMAIN ipRates \cup {i}
      /\ \A j \in DOMAIN ipRates' : ipRates'[j] = IF j = i THEN r ELSE ipRates[j]
  BY DEF Put
<1>2. \A j \in DOMAIN ipRates' : TrackerOK(ipRates'[j])
  BY <1>1 DEF RateInv
<1>3. ASSUME NEW j \in IPs PROVE Pruned(ipRates', j) = admitted'[j]
  BY <1>1 DEF RateInv, Pruned
<1> QED
  BY <1>1, <1>2, <1>3 DEF RateInv, TrackerOK, Ages, InTime, Pruned, Recent, Valid

(* A step that leaves all trackers as they are. *)
LEMMA TrackersKept ==
  ASSUME RateInv, DOMAIN ipRates' = DOMAIN ipRates,
         \A j \in DOMAIN ipRates : ipRates'[j] = ipRates[j], admitted' = admitted,
         sinceCleanup' \in 0..(CleanupPeriod + 1)
  PROVE  RateInv'
<1>1. \A j \in DOMAIN ipRates' : TrackerOK(ipRates'[j])
  BY DEF RateInv
<1>2. ASSUME NEW j \in IPs PROVE Pruned(ipRates', j) = admitted'[j]
  BY DEF RateInv, Pruned
<1> QED
  BY <1>1, <1>2 DEF RateInv, TrackerOK, Ages, InTime, Pruned, Recent, Valid

LEMMA AllowKeepsRate ==
  ASSUME SlotInv, RateInv, NEW c \in Conns, NEW i \in IPs, IPLimiterAllow(c, i)
  PROVE  RateInv'
<1> DEFINE rates == IF sinceCleanup > CleanupPeriod
                      THEN Delete(ipRates, ZeroCount) ELSE ipRates
           q == Pruned(rates, i)
<1>1. /\ DOMAIN rates = DOMAIN ipRates
      /\ \A j \in DOMAIN ipRates : rates[j] = ipRates[j]
  BY DEF SlotInv, SlotsAccounted, Delete
<1>2. sinceCleanup' \in 0..(CleanupPeriod + 1)
  BY AdmissionAssumption DEF IPLimiterAllow, RateInv
<1>3. \/ ipRates' = rates /\ admitted' = admitted
      \/ ipRates' = Put(rates, i, q) /\ admitted' = admitted
      \/ /\ ipRates' = Put(rates, i, Append(q, 0)) /\ ~AtRate(q)
         /\ admitted' = [admitted EXCEPT ![i] = Append(@, 0)]
  BY DEF IPLimiterAllow
<1>4. q = Pruned(ipRates, i)
  BY <1>1 DEF Pruned
<1> HIDE DEF rates, q
<1>5. /\ TrackerOK(q) /\ Recent(q) = q /\ admitted[i] = q
      /\ \A k \in 1..Len(q) : q[k] < Window
  BY <1>4, PrunedType DEF RateInv
<1>6. CASE ipRates' = rates /\ admitted' = admitted
  BY <1>1, <1>2, <1>6, TrackersKept
<1>7. CASE ipRates' = Put(rates, i, q) /\ admitted' = admitted
  BY <1>1, <1>2, <1>5, <1>7, TrackerPut DEF RateInv
<1>8. CASE /\ ipRates' = Put(rates, i, Append(q, 0)) /\ ~AtRate(q)
           /\ admitted' = [admitted EXCEPT ![i] = Append(@, 0)]
  <2>1. Len(q) < rateLimit
    <3>1. Len(q) \in Nat
      BY <1>5 DEF TrackerOK, Ages
    <3> QED
      BY <1>8, <3>1, AdmissionAssumption DEF AtRate
  <2>2. PICK a : a = Append(q, 0) /\ TrackerOK(a) /\ Recent(a) = a
    BY <1>5, <2>1, Admitted
  <2>3. /\ DOMAIN admitted' = IPs /\ ipRates' = Put(rates, i, a)
        /\ \A j \in IPs : admitted'[j] = IF j = i THEN Recent(a) ELSE admitted[j]
    BY <1>5, <1>8, <2>2 DEF RateInv
  <2> QED
    <3>1. PICK m : /\ DOMAIN m = DOMAIN ipRates /\ ipRates' = Put(m, i, a)
                   /\ \A j \in DOMAIN ipRates : m[j] = ipRates[j]
      BY <1>1, <2>3, Zenon
    <3>2. TrackerOK(a)
      BY <2>2
    <3>3. /\ DOMAIN admitted' = IPs
          /\ \A j \in IPs : admitted'[j] = IF j = i THEN Recent(a) ELSE admitted[j]
      BY <2>3
    <3> QED
      BY <1>2, <3>1, <3>2, <3>3, TrackerPut
<1> QED
  BY <1>3, <1>6, <1>7, <1>8

LEMMA TickKeepsRate ==
  ASSUME RateInv, Tick
  PROVE  RateInv'
<1>1. /\ ipRates' = [i \in DOMAIN ipRates |-> Older(ipRates[i])]
      /\ admitted' = [i \in IPs |-> Recent(Older(admitted[i]))]
      /\ sinceCleanup' = IF sinceCleanup > CleanupPeriod THEN sinceCleanup
                                                          ELSE sinceCleanup + 1
  BY DEF Tick
<1>2. sinceCleanup' \in 0..(CleanupPeriod + 1)
  BY <1>1, AdmissionAssumption DEF RateInv
<1>3. ASSUME NEW i \in DOMAIN ipRates PROVE TrackerOK(ipRates'[i])
  <2>1. TrackerOK(ipRates[i])
    BY DEF RateInv
  <2> QED
    BY <1>1, <2>1, OlderType DEF TrackerOK
<1>4. ASSUME NEW i \in IPs PROVE admitted'[i] = Pruned(ipRates', i)
  <2>1. CASE i \notin DOMAIN ipRates
    BY <1>1, <2>1, NoAges DEF RateInv, Pruned
  <2>2. CASE i \in DOMAIN ipRates
    <3>1. PICK r : r = ipRates[i] /\ TrackerOK(r) /\ admitted[i] = Recent(r)
      BY <2>2 DEF RateInv, Pruned
    <3>2. Recent(Older(Recent(r))) = Recent(Older(r))
      BY <3>1, RecentOlder DEF TrackerOK
    <3>3. Pruned(ipRates', i) = Recent(Older(r))
      BY <1>1, <2>2, <3>1 DEF Pruned
    <3> QED
      BY <1>1, <3>1, <3>2, <3>3
  <2> QED
    BY <2>1, <2>2
<1> QED
  BY <1>1, <1>2, <1>3, <1>4
     DEF RateInv, TrackerOK, Ages, InTime, Pruned, Recent, Valid

(* RateInv holds in every reachable state. *)
THEOREM RateInvariant == Spec => []RateInv
<1>1. Init => RateInv
  BY AdmissionAssumption DEF Init, RateInv, Pruned
<1>2. ASSUME SlotInv, RateInv, [Next]_vars PROVE RateInv'
  <2>1. CASE Tick
    BY <1>2, <2>1, TickKeepsRate
  <2>2. ASSUME NEW c \in Conns, NEW i \in IPs, IPLimiterAllow(c, i) PROVE RateInv'
    BY <1>2, <2>2, AllowKeepsRate
  <2>3. ASSUME UNCHANGED <<ipRates, sinceCleanup, admitted>> PROVE RateInv'
    BY <1>2, <2>3, TrackersKept DEF RateInv
  <2>4. ASSUME NEW c \in Conns,
               \/ IPLimiterRelease(c) \/ LimiterLoad(c)
               \/ LimiterCas(c) \/ LimiterRelease(c)
        PROVE  UNCHANGED <<ipRates, sinceCleanup, admitted>>
    BY <2>4 DEF IPLimiterRelease, LimiterLoad, LimiterCas, LimiterRelease, ipLimiter
  <2> QED
    BY <1>2, <2>1, <2>2, <2>3, <2>4 DEF Next, Handler, vars
<1> QED
  BY <1>1, <1>2, SlotInvariant, PTL DEF Spec

(* In no window of one second does IPLimiter.Allow admit more than         *)
(* rateLimit connections of an address, whatever Release and cleanup do to *)
(* the maps in between.                                                    *)
THEOREM WithinRateCorrect == Spec => []WithinRate
<1>1. ASSUME RateInv PROVE WithinRate
  BY <1>1, PrunedType DEF RateInv, WithinRate, TrackerOK
<1> QED
  BY <1>1, RateInvariant, PTL

(* The variables of both limiters keep their types; a tracker never grows  *)
(* past rateLimit, the capacity it was made with.                          *)
THEOREM TypeCorrect == Spec => []TypeOK
<1>1. SlotInv /\ RateInv => TypeOK
  BY DEF SlotInv, CounterTypes, RateInv, TrackerOK, Ages, TypeOK
<1> QED
  BY <1>1, SlotInvariant, RateInvariant, PTL

=============================================================================
