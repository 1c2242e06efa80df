------------------------------ MODULE ConnPool ------------------------------
(***************************************************************************)
(* The pool of TCP connections to one backend address (internal/pool):     *)
(* Get, Put, Remove, Cleanup and Close of pool.go, called through the      *)
(* manager by concurrent sessions, by the cleanup ticker and by Shutdown.  *)
(* A critical section of p.mu is one step when nothing else can be seen    *)
(* inside it; the dial and the cleanup loop, which run for long under the  *)
(* mutex, keep it in the variable mu.  The channel idleConns is used       *)
(* outside the mutex, so sends and receives interleave with everything.    *)
(***************************************************************************)
EXTENDS Naturals, FiniteSets, Sequences, Functions

CONSTANTS
  Sessions,       \* goroutines that borrow connections
  Conns,          \* connection objects
  maxPerService,  \* Pool.maxPerService, also the capacity of idleConns
  None            \* no connection; the free mutex

Cleaner == "cleanup"

ASSUME PoolAssumption ==
  /\ IsFiniteSet(Sessions) /\ IsFiniteSet(Conns)
  /\ maxPerService \in Nat
  /\ None \notin Conns /\ None \notin Sessions /\ None # Cleaner
  /\ Cleaner \notin Sessions

VARIABLES
  idleConns,    \* the channel, oldest first
  activeConns,  \* the set of borrowed connections
  activeCount,  \* its size, kept by hand
  mu,           \* who holds p.mu across steps
  open,         \* connections whose socket is open
  old,          \* idle connections unused for longer than idleTimeout
  pc, conn,     \* where each session stands, the connection it has
  sweep,        \* the connection Cleanup has taken out of the channel
  closing       \* progress of Close

callers == <<pc, conn>>
vars == <<idleConns, activeConns, activeCount, mu, open, old, pc, conn,
          sweep, closing>>

(* "get"/"put": the pool was looked up, the call has not begun; "mark",    *)
(* "drop", "lock", "dial": inside Get; "push": inside Put.                 *)
Points == {"out", "get", "mark", "drop", "lock", "dial", "using", "put",
           "push"}
Holding == {"mark", "drop", "using", "put", "push"}
Borrowed == {"using", "put"}

Held == {conn[s] : s \in {t \in Sessions : pc[t] \in Holding}}
Lent == {conn[s] : s \in {t \in Sessions : pc[t] \in Borrowed}}

(* Connections nothing refers to any more, or not yet. *)
Fresh == Conns \ (open \cup Range(idleConns) \cup Held \cup {sweep}
                       \cup activeConns)

TypeOK ==
  /\ idleConns \in Seq(Conns) /\ Len(idleConns) <= maxPerService
  /\ activeConns \subseteq Conns
  /\ activeCount \in Nat
  /\ mu \in Sessions \cup {Cleaner, None}
  /\ open \subseteq Conns
  /\ old \subseteq Conns
  /\ pc \in [Sessions -> Points]
  /\ conn \in [Sessions -> Conns \cup {None}]
  /\ \A s \in Sessions : pc[s] \in Holding <=> conn[s] # None
  /\ sweep \in Conns \cup {None}
  /\ closing \in {"open", "draining", "empty", "closed"}

(* NewPool. *)
Init ==
  /\ idleConns = <<>> /\ activeConns = {} /\ activeCount = 0
  /\ mu = None /\ open = {} /\ old = {}
  /\ pc = [s \in Sessions |-> "out"]
  /\ conn = [s \in Sessions |-> None]
  /\ sweep = None /\ closing = "open"

At(s, point) == pc[s] = point
Goto(s, point) == pc' = [pc EXCEPT ![s] = point]
Have(s, c) == conn' = [conn EXCEPT ![s] = c]
Unlocked == mu = None

Decremented == IF activeCount > 0 THEN activeCount - 1 ELSE activeCount

-----------------------------------------------------------------------------
(* Get *)

(* Manager.GetPool finds this pool until Manager.Close has taken m.mu. *)
GetPool(s) ==
  /\ closing = "open"
  /\ \/ At(s, "out") /\ Goto(s, "get")
     \/ At(s, "using") /\ Goto(s, "put")
  /\ UNCHANGED <<idleConns, activeConns, activeCount, mu, open, old, conn,
                 sweep, closing>>

(* Mutant: no connection ever expires. *)
IsExpiredNever(c) == FALSE

IsExpired(c) == c \in old

(* The non-blocking receive from idleConns, outside the mutex; an expired  *)
(* connection is closed at once.                                           *)
GetIdle(s) ==
  /\ At(s, "get")
  /\ IF idleConns = <<>>
       THEN Goto(s, "lock") /\ UNCHANGED <<idleConns, open, conn>>
       ELSE /\ idleConns' = Tail(idleConns)
            /\ Have(s, Head(idleConns))
            /\ IF IsExpired(Head(idleConns))
                 THEN Goto(s, "drop") /\ open' = open \ {Head(idleConns)}
                 ELSE Goto(s, "mark") /\ UNCHANGED open
  /\ UNCHANGED <<activeConns, activeCount, mu, old, sweep, closing>>

(* Mutant: the reused connection is not counted. *)
GetReusedUncounted(s) ==
  /\ At(s, "mark") /\ Unlocked
  /\ activeConns' = activeConns \cup {conn[s]}
  /\ old' = old \ {conn[s]}
  /\ Goto(s, "using")
  /\ UNCHANGED <<idleConns, activeCount, mu, open, conn, sweep, closing>>

(* A valid connection is marked in use; the limit is not consulted. *)
GetReused(s) ==
  /\ At(s, "mark") /\ Unlocked
  /\ activeConns' = activeConns \cup {conn[s]}
  /\ activeCount' = activeCount + 1
  /\ old' = old \ {conn[s]}
  /\ Goto(s, "using")
  /\ UNCHANGED <<idleConns, mu, open, conn, sweep, closing>>

(* An expired one is forgotten, and Get goes on to dial. *)
GetExpired(s) ==
  /\ At(s, "drop") /\ Unlocked
  /\ activeConns' = activeConns \ {conn[s]}
  /\ old' = old \ {conn[s]}
  /\ Have(s, None)
  /\ Goto(s, "lock")
  /\ UNCHANGED <<idleConns, activeCount, mu, open, sweep, closing>>

(* Mutant: the mutex is released before the dial. *)
GetLimitUnlocked(s) ==
  /\ At(s, "lock") /\ Unlocked
  /\ Goto(s, IF activeCount >= maxPerService THEN "out" ELSE "dial")
  /\ UNCHANGED <<idleConns, activeConns, activeCount, mu, open, old, conn,
                 sweep, closing>>

(* Under the mutex: the limit, then the dial. *)
GetLimit(s) ==
  /\ At(s, "lock") /\ Unlocked
  /\ IF activeCount >= maxPerService
       THEN Goto(s, "out") /\ UNCHANGED mu
       ELSE Goto(s, "dial") /\ mu' = s
  /\ UNCHANGED <<idleConns, activeConns, activeCount, open, old, conn,
                 sweep, closing>>

DialOk(s, c) ==
  /\ At(s, "dial") /\ c \in Fresh
  /\ open' = open \cup {c}
  /\ activeConns' = activeConns \cup {c}
  /\ activeCount' = activeCount + 1
  /\ Have(s, c)
  /\ mu' = None
  /\ Goto(s, "using")
  /\ UNCHANGED <<idleConns, old, sweep, closing>>

(* The dial is refused or times out. *)
DialFail(s) ==
  /\ At(s, "dial")
  /\ mu' = None
  /\ Goto(s, "out")
  /\ UNCHANGED <<idleConns, activeConns, activeCount, open, old, conn,
                 sweep, closing>>

-----------------------------------------------------------------------------
(* Put and Remove *)

PutIdle(s) ==
  /\ At(s, "put") /\ Unlocked
  /\ activeConns' = activeConns \ {conn[s]}
  /\ activeCount' = Decremented
  /\ old' = old \ {conn[s]}
  /\ Goto(s, "push")
  /\ UNCHANGED <<idleConns, mu, open, conn, sweep, closing>>

(* Mutant: the reference is kept after the send. *)
PutPushTwice(s) ==
  /\ At(s, "push")
  /\ idleConns' = IF Len(idleConns) < maxPerService
                    THEN Append(idleConns, conn[s]) ELSE idleConns
  /\ Goto(s, "using")
  /\ UNCHANGED <<activeConns, activeCount, mu, open, old, conn, sweep,
                 closing>>

(* The non-blocking send; with a full channel the connection is let go. *)
PutPush(s) ==
  /\ At(s, "push")
  /\ idleConns' = IF Len(idleConns) < maxPerService
                    THEN Append(idleConns, conn[s]) ELSE idleConns
  /\ Have(s, None)
  /\ Goto(s, "out")
  /\ UNCHANGED <<activeConns, activeCount, mu, open, old, sweep, closing>>

Remove(s) ==
  /\ At(s, "put") /\ Unlocked
  /\ open' = open \ {conn[s]}
  /\ activeConns' = activeConns \ {conn[s]}
  /\ activeCount' = Decremented
  /\ Have(s, None)
  /\ Goto(s, "out")
  /\ UNCHANGED <<idleConns, mu, old, sweep, closing>>

(* After Manager.Close the address is not in the map: PutConnection makes  *)
(* another pool and leaves the connection there.                           *)
PutElsewhere(s) ==
  /\ At(s, "using") /\ closing = "closed"
  /\ Have(s, None)
  /\ Goto(s, "out")
  /\ UNCHANGED <<idleConns, activeConns, activeCount, mu, open, old,
                 sweep, closing>>

-----------------------------------------------------------------------------
(* Cleanup, under the mutex from its first to its last step.  The manager  *)
(* calls it on a snapshot of its pools, so a closed pool can be among them. *)

CleanupLock ==
  /\ Unlocked
  /\ mu' = Cleaner
  /\ UNCHANGED <<idleConns, activeConns, activeCount, open, old, callers,
                 sweep, closing>>

CleanupTake ==
  /\ mu = Cleaner /\ sweep = None /\ idleConns # <<>>
  /\ idleConns' = Tail(idleConns)
  /\ IF IsExpired(Head(idleConns))
       THEN /\ open' = open \ {Head(idleConns)}
            /\ activeConns' = activeConns \ {Head(idleConns)}
            /\ old' = old \ {Head(idleConns)}
            /\ sweep' = None
       ELSE /\ sweep' = Head(idleConns)
            /\ UNCHANGED <<open, activeConns, old>>
  /\ UNCHANGED <<activeCount, mu, callers, closing>>

(* Mutant: a connection that finds the channel full is not closed. *)
CleanupPutBackDrops ==
  /\ mu = Cleaner /\ sweep # None
  /\ idleConns' = IF Len(idleConns) < maxPerService
                    THEN Append(idleConns, sweep) ELSE idleConns
  /\ sweep' = None
  /\ UNCHANGED <<activeConns, activeCount, mu, open, old, callers, closing>>

(* Back into the channel, or closed when a Put has filled it meanwhile. *)
CleanupPutBack ==
  /\ mu = Cleaner /\ sweep # None
  /\ IF Len(idleConns) < maxPerService
       THEN /\ idleConns' = Append(idleConns, sweep)
            /\ UNCHANGED <<open, activeConns, old>>
       ELSE /\ open' = open \ {sweep}
            /\ activeConns' = activeConns \ {sweep}
            /\ old' = old \ {sweep}
            /\ UNCHANGED idleConns
  /\ sweep' = None
  /\ UNCHANGED <<activeCount, mu, callers, closing>>

CleanupDone ==
  /\ mu = Cleaner /\ sweep = None /\ idleConns = <<>>
  /\ mu' = None
  /\ UNCHANGED <<idleConns, activeConns, activeCount, open, old, callers,
                 sweep, closing>>

-----------------------------------------------------------------------------
(* Close *)

CloseActive ==
  /\ closing = "open" /\ Unlocked
  /\ open' = open \ activeConns
  /\ activeConns' = {}
  /\ closing' = "draining"
  /\ UNCHANGED <<idleConns, activeCount, mu, old, callers, sweep>>

CloseIdle ==
  /\ closing = "draining"
  /\ IF idleConns = <<>>
       THEN closing' = "empty" /\ UNCHANGED <<idleConns, open, old>>
       ELSE /\ idleConns' = Tail(idleConns)
            /\ open' = open \ {Head(idleConns)}
            /\ old' = old \ {Head(idleConns)}
            /\ UNCHANGED closing
  /\ UNCHANGED <<activeConns, activeCount, mu, callers, sweep>>

CloseReset ==
  /\ closing = "empty" /\ Unlocked
  /\ activeCount' = 0
  /\ closing' = "closed"
  /\ UNCHANGED <<idleConns, activeConns, mu, open, old, callers, sweep>>

-----------------------------------------------------------------------------
(* idleTimeout passes for a connection nobody uses. *)
Age(c) ==
  /\ c \in (Range(idleConns) \cup {sweep}) \ old
  /\ old' = old \cup {c}
  /\ UNCHANGED <<idleConns, activeConns, activeCount, mu, open, callers,
                 sweep, closing>>

Get(s) == GetIdle(s) \/ GetReused(s) \/ GetExpired(s) \/ GetLimit(s)
          \/ DialFail(s) \/ \E c \in Conns : DialOk(s, c)
Put(s) == PutIdle(s) \/ PutPush(s)
Cleanup == CleanupTake \/ CleanupPutBack \/ CleanupDone
Close == CloseActive \/ CloseIdle \/ CloseReset

Next ==
  \/ \E s \in Sessions : GetPool(s) \/ Get(s) \/ Put(s) \/ Remove(s)
                         \/ PutElsewhere(s)
  \/ CleanupLock \/ Cleanup
  \/ Close
  \/ \E c \in Conns : Age(c)

(* The Go scheduler runs every call that can go on.  sync.Mutex hands the  *)
(* lock to a waiter it has kept waiting for long (starvation mode), so a   *)
(* step that waits for p.mu is strongly fair; dials time out and time      *)
(* passes.  Nothing makes a session begin a call or end its use.           *)
Fairness ==
  /\ \A s \in Sessions :
       /\ WF_vars(GetIdle(s) \/ PutPush(s) \/ DialFail(s)
                  \/ \E c \in Conns : DialOk(s, c))
       /\ SF_vars(GetReused(s) \/ GetExpired(s) \/ GetLimit(s)
                  \/ PutIdle(s) \/ Remove(s))
  /\ WF_vars(Cleanup)
  /\ \A c \in Conns : WF_vars(Age(c))

Spec == Init /\ [][Next]_vars /\ Fairness

-----------------------------------------------------------------------------
(* Properties *)

(* A connection has one owner: it is at most once in idleConns, and then   *)
(* neither a session nor Cleanup has it; no two sessions have the same.    *)
(* So Get never lends one connection to two sessions.                      *)
SoleOwner ==
  /\ IsInjective(idleConns)
  /\ Range(idleConns) \cap (Held \cup {sweep}) = {}
  /\ sweep \notin Held
  /\ \A s, t \in Sessions : conn[s] = conn[t] /\ conn[s] # None => s = t

(* Until Close begins, activeConns is exactly what Get has lent out and    *)
(* Put or Remove has not taken back, and activeCount, which the limit of   *)
(* Get relies on, is its size, on every path of every call.                *)
CountsBorrowed ==
  closing = "open" =>
    /\ activeConns = Lent
    /\ activeCount = Cardinality(activeConns)

(* A call of Get, Put or Remove that has begun returns, although the dial  *)
(* and the cleanup loop hold p.mu for long; and Cleanup returns, because   *)
(* every connection that keeps its loop going is taken by a Get or expires.*)
CallsReturn ==
  /\ \A s \in Sessions : pc[s] \notin {"out", "using"} ~> pc[s] \in {"out", "using"}
  /\ mu = Cleaner ~> mu # Cleaner

(* The limit holds for what Get dials, although the dial comes after the   *)
(* check: until Close begins, a connection that is opened leaves no more   *)
(* than maxPerService lent out.  (One taken from idleConns may exceed it.) *)
DialsWithinLimit ==
  [][closing = "open" /\ ~(open' \subseteq open) =>
       Cardinality(activeConns') <= maxPerService]_vars

(* The pool loses sight of an open connection in one way only until Close  *)
(* begins: Put finds idleConns full.  Get, Remove and Cleanup, which       *)
(* interleave with it, keep or close what they take out.                   *)
Reachable == Held \cup {sweep} \cup Range(idleConns)
LostOnlyWhenFull ==
  [][closing = "open" =>
       \A c \in (open \cap Reachable) \cap (open' \ Reachable') :
         /\ Len(idleConns) = maxPerService
         /\ \E s \in Sessions : At(s, "push") /\ conn[s] = c]_vars

=============================================================================
