-------------------------- MODULE TcpSession_proofs --------------------------
(***************************************************************************)
(* Proofs, for any number of sessions and connections and any limit: the   *)
(* pool never lends a connection twice and its hand-kept count is right    *)
(* until Close; under the session handlers, which may panic, a registered  *)
(* connection is its session's alone and a place is lost by a panic only.  *)
(***************************************************************************)
EXTENDS TcpSession, FiniteSetTheorems, TLAPS

-----------------------------------------------------------------------------
(* Receiving from and sending to idleConns, a buffered channel *)

(* Receiving takes the head, and only the head, out of the channel. *)
LEMMA Receive ==
  ASSUME NEW S, NEW q \in Seq(S), q # <<>>, IsInjective(q)
  PROVE  /\ Tail(q) \in Seq(S) /\ Len(Tail(q)) <= Len(q)
         /\ Head(q) \in Range(q) /\ Head(q) \in S
         /\ Range(Tail(q)) = Range(q) \ {Head(q)}
         /\ IsInjective(Tail(q))
<1>1. Len(q) \in Nat \ {0} /\ DOMAIN q = 1..Len(q) /\ Head(q) = q[1]
  OBVIOUS
<1>2. /\ Tail(q) \in Seq(S) /\ Len(Tail(q)) = Len(q) - 1
      /\ DOMAIN Tail(q) = 1..(Len(q) - 1)
      /\ \A k \in 1..(Len(q) - 1) : Tail(q)[k] = q[k + 1]
  OBVIOUS
<1>3. Head(q) \in Range(q) /\ Head(q) \in S
  BY <1>1 DEF Range
<1>4. ASSUME NEW x \in Range(Tail(q)) PROVE x \in Range(q) \ {Head(q)}
  BY <1>1, <1>2, <1>4 DEF Range, IsInjective
<1>5. ASSUME NEW x \in Range(q) \ {Head(q)} PROVE x \in Range(Tail(q))
  <2>1. PICK k \in 1..Len(q) : x = q[k] /\ k # 1
    BY <1>1 DEF Range
  <2>2. k - 1 \in 1..(Len(q) - 1) /\ Tail(q)[k - 1] = x
    BY <1>1, <1>2, <2>1
  <2> QED
    BY <1>2, <2>2 DEF Range
<1>6. IsInjective(Tail(q))
  BY <1>1, <1>2 DEF IsInjective
<1> QED
  BY <1>1, <1>2, <1>3, <1>4, <1>5, <1>6

(* Sending adds the value at the end. *)
LEMMA Send ==
  ASSUME NEW S, NEW q \in Seq(S), NEW c \in S
  PROVE  /\ Append(q, c) \in Seq(S) /\ Len(Append(q, c)) = Len(q) + 1
         /\ Range(Append(q, c)) = Range(q) \cup {c}
         /\ IsInjective(q) /\ c \notin Range(q) => IsInjective(Append(q, c))
<1>1. Len(q) \in Nat /\ DOMAIN q = 1..Len(q)
  OBVIOUS
<1>2. /\ Append(q, c) \in Seq(S) /\ Len(Append(q, c)) = Len(q) + 1
      /\ DOMAIN Append(q, c) = 1..(Len(q) + 1)
      /\ \A k \in 1..Len(q) : Append(q, c)[k] = q[k]
      /\ Append(q, c)[Len(q) + 1] = c
  OBVIOUS
<1>3. Range(Append(q, c)) = Range(q) \cup {c}
  <2>1. ASSUME NEW x \in Range(Append(q, c)) PROVE x \in Range(q) \cup {c}
    BY <1>1, <1>2 DEF Range
  <2>2. ASSUME NEW x \in Range(q) PROVE x \in Range(Append(q, c))
    <3>1. PICK k \in 1..Len(q) : x = q[k]
      BY <1>1 DEF Range
    <3>2. k \in 1..(Len(q) + 1) /\ Append(q, c)[k] = x
      BY <1>1, <1>2, <3>1
    <3> QED
      BY <1>2, <3>2 DEF Range
  <2>3. c \in Range(Append(q, c))
    BY <1>1, <1>2 DEF Range
  <2> QED
    BY <2>1, <2>2, <2>3
<1>4. ASSUME IsInjective(q), c \notin Range(q) PROVE IsInjective(Append(q, c))
  <2>1. \A k \in 1..Len(q) : q[k] # c
    BY <1>1, <1>4 DEF Range
  <2> QED
    BY <1>1, <1>2, <1>4, <2>1 DEF IsInjective
<1> QED
  BY <1>2, <1>3, <1>4

-----------------------------------------------------------------------------
(* Counting *)

(* One more connection lent. *)
LEMMA CountJoin ==
  ASSUME NEW S \in SUBSET Conns, NEW c \in Conns, c \notin S
  PROVE  Cardinality(S \cup {c}) = Cardinality(S) + 1
  BY PoolAssumption, FS_Subset, FS_AddElement

(* One fewer. *)
LEMMA CountLeave ==
  ASSUME NEW S \in SUBSET Conns, NEW c \in S
  PROVE  /\ Cardinality(S \ {c}) = Cardinality(S) - 1
         /\ Cardinality(S) \in Nat \ {0}
<1>1. IsFiniteSet(S)
  BY PoolAssumption, FS_Subset
<1>2. Cardinality(S \ {c}) = Cardinality(S) - 1
  BY <1>1, FS_RemoveElement
<1>3. Cardinality(S) \in Nat /\ Cardinality(S \ {c}) \in Nat
  BY <1>1, FS_CardinalityType, FS_Subset
<1> QED
  BY <1>2, <1>3

-----------------------------------------------------------------------------
(* The inductive invariant *)

(* Who owns what ... *)
OwnInv == TypeOK /\ SoleOwner

(* ... and the books kept about it: what is lent out has a place, what is   *)
(* in the channel or on its way from or to it has none.                    *)
Books ==
  closing = "open" =>
    /\ Lent \subseteq activeConns
    /\ activeConns \cap (Range(idleConns) \cup {sweep} \cup (Held \ Lent)) = {}
    /\ activeCount = Cardinality(activeConns)

(* A step of the pool itself keeps them, and loses no place. *)
KeepsBooks == Books => Books' /\ (closing' = "open" => Lost' = Lost)

PoolInv == OwnInv /\ Books /\ CountsBorrowed

(* A new pool is empty. *)
LEMMA InitInv == Init => PoolInv
<1> SUFFICES ASSUME Init PROVE PoolInv
  OBVIOUS
<1>1. Held = {} /\ Lent = {} /\ Range(idleConns) = {}
  BY DEF Init, Held, Lent, Range, Holding, Borrowed
<1>2. TypeOK
  BY PoolAssumption DEF Init, TypeOK, Points, Holding
<1>3. SoleOwner
  BY <1>1 DEF Init, SoleOwner, IsInjective
<1>4. CountsBorrowed /\ Books
  BY <1>1, FS_EmptySet DEF Init, CountsBorrowed, Books
<1> QED
  BY <1>2, <1>3, <1>4 DEF PoolInv, OwnInv

(* A session that keeps its connection, and stays on its side of the loan. *)
LEMMA KeepsOwner ==
  ASSUME OwnInv, NEW s \in Sessions, NEW p \in Points,
         pc' = [pc EXCEPT ![s] = p], conn' = conn,
         p \in Holding <=> pc[s] \in Holding,
         p \in Borrowed <=> pc[s] \in Borrowed,
         UNCHANGED <<idleConns, activeConns, activeCount, sweep, closing>>
  PROVE  SoleOwner' /\ KeepsBooks
<1>1. Held' = Held /\ Lent' = Lent
  BY DEF OwnInv, TypeOK, Held, Lent
<1> QED
  BY <1>1 DEF OwnInv, SoleOwner, Books, KeepsBooks, Lost

(* A connection that only moves between the channel, Cleanup and a call    *)
(* that has not lent it out, or is forgotten there.                        *)
LEMMA BooksStay ==
  ASSUME OwnInv, UNCHANGED <<activeConns, activeCount, closing>>, Lent' = Lent,
         Range(idleConns') \cup {sweep'} \cup (Held' \ Lent)
           \subseteq Range(idleConns) \cup {sweep} \cup (Held \ Lent) \cup {None}
  PROVE  KeepsBooks
<1>1. None \notin activeConns
  BY PoolAssumption DEF OwnInv, TypeOK
<1> QED
  BY <1>1 DEF KeepsBooks, Books, Lost

(* Looking the pool up moves no connection. *)
LEMMA GetPoolStep ==
  ASSUME OwnInv, NEW s \in Sessions, GetPool(s)
  PROVE  OwnInv' /\ KeepsBooks
<1>1. TypeOK'
  BY DEF GetPool, At, Goto, OwnInv, TypeOK, Points, Holding
<1>2. SoleOwner' /\ KeepsBooks
  <2>1. CASE At(s, "out") /\ Goto(s, "get")
    BY <2>1, KeepsOwner
       DEF GetPool, At, Goto, Points, Holding, Borrowed
  <2>2. CASE At(s, "using") /\ Goto(s, "put")
    BY <2>2, KeepsOwner
       DEF GetPool, At, Goto, Points, Holding, Borrowed
  <2> QED
    BY <2>1, <2>2 DEF GetPool
<1> QED
  BY <1>1, <1>2 DEF OwnInv

(* The receive moves the head of the channel to the session. *)
LEMMA GetIdleStep ==
  ASSUME OwnInv, NEW s \in Sessions, GetIdle(s)
  PROVE  OwnInv' /\ KeepsBooks
<1>1. CASE idleConns = <<>>
  <2>1. TypeOK'
    BY <1>1 DEF GetIdle, At, Goto, OwnInv, TypeOK, Points, Holding
  <2>2. SoleOwner' /\ KeepsBooks
    BY <1>1, KeepsOwner
       DEF GetIdle, At, Goto, Points, Holding, Borrowed
  <2> QED
    BY <2>1, <2>2 DEF OwnInv
<1>2. CASE idleConns # <<>>
  <2> DEFINE c == Head(idleConns)
  <2>1. PICK p \in {"mark", "drop"} : pc' = [pc EXCEPT ![s] = p]
    BY <1>2 DEF GetIdle, Goto
  <2>2. /\ pc[s] = "get" /\ idleConns' = Tail(idleConns)
        /\ conn' = [conn EXCEPT ![s] = c]
        /\ open' \in {open, open \ {c}}
        /\ UNCHANGED <<activeConns, activeCount, mu, old, sweep,
                       closing>>
    BY <1>2 DEF GetIdle, At, Have
  <2>3. /\ Tail(idleConns) \in Seq(Conns)
        /\ Len(Tail(idleConns)) <= Len(idleConns)
        /\ c \in Range(idleConns) /\ c \in Conns
        /\ Range(idleConns') = Range(idleConns) \ {c}
        /\ IsInjective(idleConns')
    BY <1>2, <2>2, Receive DEF OwnInv, TypeOK, SoleOwner
  <2>4. c \notin Held /\ c # sweep /\ conn[s] = None
    BY <2>2, <2>3 DEF OwnInv, SoleOwner, TypeOK, Holding
  <2> HIDE DEF c
  <2>5. Held' = Held \cup {c}
    BY <2>1, <2>2, <2>3 DEF OwnInv, TypeOK, Held, Holding
  <2>6. Lent' = Lent
    BY <2>1, <2>2 DEF OwnInv, TypeOK, Lent, Borrowed
  <2>7. TypeOK'
    <3>1. Len(idleConns') <= maxPerService
      BY <2>2, <2>3, PoolAssumption DEF OwnInv, TypeOK
    <3> QED
      BY <2>1, <2>2, <2>3, <3>1, PoolAssumption
         DEF OwnInv, TypeOK, Points, Holding
  <2>8. SoleOwner'
    <3>1. \A t \in Sessions : conn[t] # c
      BY <2>3, <2>4, PoolAssumption DEF OwnInv, TypeOK, Held
    <3>2. \A t, u \in Sessions : conn'[t] = conn'[u] /\ conn'[t] # None
                                   => t = u
      BY <2>2, <3>1 DEF OwnInv, TypeOK, SoleOwner
    <3> QED
      BY <2>2, <2>3, <2>4, <2>5, <3>2 DEF OwnInv, SoleOwner
  <2>9. KeepsBooks
    BY <2>2, <2>3, <2>5, <2>6, BooksStay
  <2> QED
    BY <2>7, <2>8, <2>9 DEF OwnInv
<1> QED
  BY <1>1, <1>2

(* The reused connection joins the borrowed ones. *)
LEMMA GetReusedStep ==
  ASSUME OwnInv, NEW s \in Sessions, GetReused(s)
  PROVE  OwnInv' /\ KeepsBooks
<1> DEFINE c == conn[s]
<1>1. /\ pc[s] = "mark" /\ pc' = [pc EXCEPT ![s] = "using"]
      /\ activeConns' = activeConns \cup {c}
      /\ activeCount' = activeCount + 1
      /\ old' = old \ {c}
      /\ UNCHANGED <<idleConns, mu, open, conn, sweep, closing>>
  BY DEF GetReused, At, Goto
<1>2. c \in Conns
  BY <1>1 DEF OwnInv, TypeOK, Holding
<1>3. Held' = Held /\ Lent' = Lent \cup {c}
  BY <1>1 DEF OwnInv, TypeOK, Held, Lent, Holding, Borrowed
<1>4. c \notin Lent
  BY <1>1, <1>2, PoolAssumption DEF OwnInv, SoleOwner, Lent, Borrowed
<1>5. TypeOK'
  BY <1>1, <1>2 DEF OwnInv, TypeOK, Points, Holding
<1>6. SoleOwner'
  BY <1>1, <1>3 DEF OwnInv, SoleOwner
<1>7. KeepsBooks
  <2>1. c \in Held /\ c \notin Range(idleConns) /\ c # sweep
    BY <1>1 DEF OwnInv, SoleOwner, Held, Holding
  <2> HIDE DEF c
  <2> SUFFICES ASSUME Books, closing = "open"
               PROVE  /\ Books' /\ Lost' = Lost
    BY <1>1 DEF KeepsBooks, Books
  <2>2. c \notin activeConns
    BY <1>4, <2>1 DEF Books
  <2>3. activeCount' = Cardinality(activeConns')
    BY <1>1, <1>2, <2>2, CountJoin DEF OwnInv, TypeOK, Books
  <2> QED
    BY <1>1, <1>3, <2>1, <2>2, <2>3 DEF Books, Lost
<1> QED
  BY <1>5, <1>6, <1>7 DEF OwnInv

(* A session that lets its connection go. *)
LEMMA LetsGo ==
  ASSUME OwnInv, NEW s \in Sessions, NEW p \in Points \ Holding,
         pc[s] \in Holding, pc' = [pc EXCEPT ![s] = p],
         conn' = [conn EXCEPT ![s] = None]
  PROVE  /\ conn[s] \in Conns
         /\ conn[s] \notin Range(idleConns) /\ conn[s] # sweep
         /\ Held' = Held \ {conn[s]}
         /\ pc[s] \in Borrowed => conn[s] \in Lent
         /\ pc[s] \notin Borrowed => conn[s] \notin Lent
         /\ Lent' = Lent \ {conn[s]}
         /\ \A t, u \in Sessions : conn'[t] = conn'[u] /\ conn'[t] # None
                                     => t = u
<1>1. conn[s] \in Conns
  BY DEF OwnInv, TypeOK
<1>2. conn[s] \in Held
  BY DEF Held
<1>3. Held' = Held \ {conn[s]}
  BY <1>1, PoolAssumption DEF OwnInv, TypeOK, SoleOwner, Held
<1>4. Lent' = Lent \ {conn[s]}
  BY <1>1, PoolAssumption
     DEF OwnInv, TypeOK, SoleOwner, Lent, Borrowed, Holding
<1>5. /\ pc[s] \in Borrowed => conn[s] \in Lent
      /\ pc[s] \notin Borrowed => conn[s] \notin Lent
  BY <1>1, PoolAssumption DEF OwnInv, SoleOwner, Lent
<1>6. \A t, u \in Sessions : conn'[t] = conn'[u] /\ conn'[t] # None => t = u
  BY DEF OwnInv, TypeOK, SoleOwner
<1> QED
  BY <1>1, <1>2, <1>3, <1>4, <1>5, <1>6 DEF OwnInv, SoleOwner

(* An expired connection is dropped; it was not among the borrowed ones. *)
LEMMA GetExpiredStep ==
  ASSUME OwnInv, NEW s \in Sessions, GetExpired(s)
  PROVE  OwnInv' /\ KeepsBooks
<1> DEFINE c == conn[s]
<1>1. /\ pc[s] = "drop" /\ pc' = [pc EXCEPT ![s] = "lock"]
      /\ conn' = [conn EXCEPT ![s] = None]
      /\ activeConns' = activeConns \ {c}
      /\ old' = old \ {c}
      /\ UNCHANGED <<idleConns, activeCount, mu, open, sweep, closing>>
  BY DEF GetExpired, At, Goto, Have
<1> DEFINE p == "lock"
<1>0. p \in Points \ Holding /\ pc[s] \in Holding /\ pc[s] \notin Borrowed
  BY <1>1 DEF Points, Holding, Borrowed
<1>2. /\ Held' = Held \ {c} /\ c \notin Lent /\ Lent' = Lent \ {c}
      /\ \A t, u \in Sessions : conn'[t] = conn'[u] /\ conn'[t] # None
                                  => t = u
  BY <1>0, <1>1, LetsGo
<1>3. TypeOK'
  BY <1>1 DEF OwnInv, TypeOK, Points, Holding
<1>4. SoleOwner'
  BY <1>1, <1>2 DEF OwnInv, SoleOwner
<1>5. KeepsBooks
  <2>1. c \in Held
    BY <1>0 DEF Held
  <2> HIDE DEF c
  <2>2. CASE closing = "open" /\ Books
    <3>1. activeConns' = activeConns
      BY <1>1, <1>2, <2>1, <2>2 DEF Books
    <3> QED
      BY <1>1, <1>2, <3>1, BooksStay
  <2> QED
    BY <1>1, <2>2 DEF KeepsBooks, Books
<1> QED
  BY <1>3, <1>4, <1>5 DEF OwnInv

(* Neither does a refusal by the limit or the dial. *)
LEMMA GetLimitStep ==
  ASSUME OwnInv, NEW s \in Sessions, GetLimit(s) \/ DialFail(s)
  PROVE  OwnInv' /\ KeepsBooks
<1>1. PICK p \in {"out", "dial"} : pc' = [pc EXCEPT ![s] = p]
  BY DEF GetLimit, DialFail, Goto
<1>2. /\ pc[s] \in {"lock", "dial"} /\ mu' \in {mu, s, None}
      /\ UNCHANGED <<idleConns, activeConns, activeCount, open, old, conn,
                     sweep, closing>>
  BY DEF GetLimit, DialFail, At
<1>3. TypeOK'
  BY <1>1, <1>2 DEF OwnInv, TypeOK, Points, Holding
<1>4. SoleOwner' /\ KeepsBooks
  BY <1>1, <1>2, KeepsOwner DEF Points, Holding, Borrowed
<1> QED
  BY <1>3, <1>4 DEF OwnInv

(* A dialled connection is new to everyone. *)
LEMMA DialOkStep ==
  ASSUME OwnInv, NEW s \in Sessions, NEW c \in Conns, DialOk(s, c)
  PROVE  OwnInv' /\ KeepsBooks
<1>1. /\ pc[s] = "dial" /\ pc' = [pc EXCEPT ![s] = "using"]
      /\ conn' = [conn EXCEPT ![s] = c]
      /\ activeConns' = activeConns \cup {c}
      /\ activeCount' = activeCount + 1
      /\ open' = open \cup {c} /\ mu' = None
      /\ UNCHANGED <<idleConns, old, sweep, closing>>
  BY DEF DialOk, At, Goto, Have
<1>2. /\ c \notin Range(idleConns) /\ c \notin Held /\ c # sweep
      /\ c \notin activeConns
  BY DEF DialOk, Fresh
<1>3. conn[s] = None
  BY <1>1 DEF OwnInv, TypeOK, Holding
<1>4. Held' = Held \cup {c} /\ Lent' = Lent \cup {c}
  BY <1>1 DEF OwnInv, TypeOK, Held, Lent, Holding, Borrowed
<1>5. TypeOK'
  BY <1>1, PoolAssumption DEF OwnInv, TypeOK, Points, Holding
<1>6. SoleOwner'
  <2>1. \A t \in Sessions : conn[t] # c
    BY <1>2, PoolAssumption DEF OwnInv, TypeOK, Held
  <2>2. \A t, u \in Sessions : conn'[t] = conn'[u] /\ conn'[t] # None
                                 => t = u
    BY <1>1, <2>1 DEF OwnInv, TypeOK, SoleOwner
  <2> QED
    BY <1>1, <1>2, <1>4, <2>2 DEF OwnInv, SoleOwner
<1>7. KeepsBooks
  BY <1>1, <1>2, <1>4, CountJoin DEF OwnInv, TypeOK, Books, KeepsBooks, Lost
<1> QED
  BY <1>5, <1>6, <1>7 DEF OwnInv

(* Put takes the connection off the books before it sends it. *)
LEMMA PutIdleStep ==
  ASSUME OwnInv, NEW s \in Sessions, PutIdle(s)
  PROVE  OwnInv' /\ KeepsBooks
<1> DEFINE c == conn[s]
<1>1. /\ pc[s] = "put" /\ pc' = [pc EXCEPT ![s] = "push"]
      /\ activeConns' = activeConns \ {c}
      /\ activeCount' = Decremented
      /\ old' = old \ {c}
      /\ UNCHANGED <<idleConns, mu, open, conn, sweep, closing>>
  BY DEF PutIdle, At, Goto
<1>2. c \in Conns /\ c \in Lent
  BY <1>1 DEF OwnInv, TypeOK, Lent, Holding, Borrowed
<1>3. Held' = Held
  BY <1>1 DEF OwnInv, TypeOK, Held, Holding
<1>4. Lent' = Lent \ {c}
  BY <1>1, <1>2, PoolAssumption
     DEF OwnInv, TypeOK, SoleOwner, Lent, Borrowed
<1>5. TypeOK'
  BY <1>1 DEF OwnInv, TypeOK, Points, Holding, Decremented
<1>6. SoleOwner'
  BY <1>1, <1>3 DEF OwnInv, SoleOwner
<1>7. KeepsBooks
  <2>1. c \notin Range(idleConns) /\ c # sweep
    BY <1>1 DEF OwnInv, SoleOwner, Held, Holding
  <2> HIDE DEF c
  <2> SUFFICES ASSUME Books, closing = "open"
               PROVE  /\ Books' /\ Lost' = Lost
    BY <1>1 DEF KeepsBooks, Books
  <2>2. activeCount' = Cardinality(activeConns')
    BY <1>1, <1>2, CountLeave DEF OwnInv, TypeOK, Books, Decremented
  <2> QED
    BY <1>1, <1>2, <1>3, <1>4, <2>1, <2>2 DEF Books, Lost
<1> QED
  BY <1>5, <1>6, <1>7 DEF OwnInv

(* The send hands the only reference to the channel, or drops it. *)
LEMMA PutPushStep ==
  ASSUME OwnInv, NEW s \in Sessions, PutPush(s)
  PROVE  OwnInv' /\ KeepsBooks
<1> DEFINE c == conn[s]
           p == "out"
<1>1. /\ pc[s] = "push" /\ pc' = [pc EXCEPT ![s] = p]
      /\ conn' = [conn EXCEPT ![s] = None]
      /\ idleConns' = IF Len(idleConns) < maxPerService
                        THEN Append(idleConns, c) ELSE idleConns
      /\ UNCHANGED <<activeConns, activeCount, mu, open, old, sweep,
                     closing>>
  BY DEF PutPush, At, Goto, Have
<1>2. p \in Points \ Holding /\ pc[s] \in Holding /\ pc[s] \notin Borrowed
  BY <1>1 DEF Points, Holding, Borrowed
<1>3. /\ c \in Conns /\ c \notin Range(idleConns) /\ c # sweep
      /\ Held' = Held \ {c} /\ c \notin Lent /\ Lent' = Lent \ {c}
      /\ \A t, u \in Sessions : conn'[t] = conn'[u] /\ conn'[t] # None
                                  => t = u
  BY <1>1, <1>2, LetsGo
<1>4. /\ idleConns' \in Seq(Conns) /\ Len(idleConns') <= maxPerService
      /\ IsInjective(idleConns')
      /\ Range(idleConns') \subseteq Range(idleConns) \cup {c}
  <2> HIDE DEF c
  <2>1. idleConns \in Seq(Conns) /\ Len(idleConns) <= maxPerService
        /\ IsInjective(idleConns)
    BY DEF OwnInv, TypeOK, SoleOwner
  <2>2. CASE Len(idleConns) < maxPerService
    BY <1>1, <1>3, <2>1, <2>2, Send, PoolAssumption
  <2>3. CASE ~(Len(idleConns) < maxPerService)
    BY <1>1, <2>1, <2>3
  <2> QED
    BY <2>2, <2>3
<1>5. TypeOK'
  BY <1>1, <1>4 DEF OwnInv, TypeOK, Points, Holding
<1>6. SoleOwner'
  BY <1>1, <1>3, <1>4 DEF OwnInv, SoleOwner
<1>7. KeepsBooks
  <2>1. c \in Held
    BY <1>2 DEF Held
  <2> QED
    BY <1>1, <1>3, <1>4, <2>1, BooksStay
<1> QED
  BY <1>5, <1>6, <1>7 DEF OwnInv

(* Remove takes the connection off the books and forgets it. *)
LEMMA RemoveStep ==
  ASSUME OwnInv, NEW s \in Sessions, Remove(s)
  PROVE  OwnInv' /\ KeepsBooks
<1> DEFINE c == conn[s]
           p == "out"
<1>1. /\ pc[s] = "put" /\ pc' = [pc EXCEPT ![s] = p]
      /\ conn' = [conn EXCEPT ![s] = None]
      /\ activeConns' = activeConns \ {c}
      /\ activeCount' = Decremented
      /\ open' = open \ {c}
      /\ UNCHANGED <<idleConns, mu, old, sweep, closing>>
  BY DEF Remove, At, Goto, Have
<1>2. p \in Points \ Holding /\ pc[s] \in Holding /\ pc[s] \in Borrowed
  BY <1>1 DEF Points, Holding, Borrowed
<1>3. /\ c \in Conns /\ c \in Lent
      /\ Held' = Held \ {c} /\ Lent' = Lent \ {c}
      /\ \A t, u \in Sessions : conn'[t] = conn'[u] /\ conn'[t] # None
                                  => t = u
  BY <1>1, <1>2, LetsGo
<1>4. TypeOK'
  BY <1>1 DEF OwnInv, TypeOK, Points, Holding, Decremented
<1>5. SoleOwner'
  BY <1>1, <1>3 DEF OwnInv, SoleOwner
<1>6. KeepsBooks
  BY <1>1, <1>3, CountLeave DEF OwnInv, TypeOK, Books, KeepsBooks, Lost, Decremented
<1> QED
  BY <1>4, <1>5, <1>6 DEF OwnInv

(* Nor does it matter to this pool what is put into the next one. *)
LEMMA PutElsewhereStep ==
  ASSUME OwnInv, NEW s \in Sessions, PutElsewhere(s)
  PROVE  OwnInv' /\ KeepsBooks
<1> DEFINE p == "out"
<1>1. /\ pc[s] = "using" /\ pc' = [pc EXCEPT ![s] = p]
      /\ conn' = [conn EXCEPT ![s] = None] /\ closing = "closed"
      /\ UNCHANGED <<idleConns, activeConns, activeCount, mu, open, old,
                     sweep, closing>>
  BY DEF PutElsewhere, At, Goto, Have
<1>2. p \in Points \ Holding /\ pc[s] \in Holding
  BY <1>1 DEF Points, Holding
<1>3. /\ Held' = Held \ {conn[s]}
      /\ \A t, u \in Sessions : conn'[t] = conn'[u] /\ conn'[t] # None
                                  => t = u
  BY <1>1, <1>2, LetsGo
<1>4. TypeOK'
  BY <1>1 DEF OwnInv, TypeOK, Points, Holding
<1>5. SoleOwner'
  BY <1>1, <1>3 DEF OwnInv, SoleOwner
<1>6. KeepsBooks
  BY <1>1 DEF Books, KeepsBooks, Lost
<1> QED
  BY <1>4, <1>5, <1>6 DEF OwnInv

(* Steps of Cleanup and Close leave every session where it is, so who      *)
(* holds and who borrows does not change.                                  *)
LEMMA SessionsStay ==
  ASSUME UNCHANGED callers
  PROVE  Held' = Held /\ Lent' = Lent
  BY DEF callers, Held, Lent

(* What leaves the channel, or Cleanup's hand, is not among the borrowed. *)
LEMMA NotLent ==
  ASSUME OwnInv, NEW c, c \in Range(idleConns) \/ c = sweep
  PROVE  c \notin Lent
<1>1. Lent \subseteq Held
  BY DEF Lent, Held, Holding, Borrowed
<1> QED
  BY <1>1 DEF OwnInv, SoleOwner

(* Cleanup, or the drain of Close, receives the head of the channel. *)
LEMMA TakeStep ==
  ASSUME OwnInv, CleanupTake \/ (CloseIdle /\ idleConns # <<>>)
  PROVE  OwnInv' /\ KeepsBooks
<1> DEFINE c == Head(idleConns)
<1>1. /\ idleConns # <<>> /\ idleConns' = Tail(idleConns)
      /\ UNCHANGED callers /\ UNCHANGED <<activeCount, mu, closing>>
      /\ activeConns' \in {activeConns, activeConns \ {c}}
      /\ open' \in {open, open \ {c}} /\ old' \in {old, old \ {c}}
      /\ sweep' \in {None, c, sweep}
  BY DEF CleanupTake, CloseIdle, callers
<1>2. /\ Tail(idleConns) \in Seq(Conns)
      /\ Len(Tail(idleConns)) <= Len(idleConns)
      /\ c \in Range(idleConns) /\ c \in Conns
      /\ Range(idleConns') = Range(idleConns) \ {c}
      /\ IsInjective(idleConns')
  BY <1>1, Receive DEF OwnInv, TypeOK, SoleOwner
<1>3. Held' = Held /\ Lent' = Lent /\ c \notin Lent /\ c \notin Held
  BY <1>1, <1>2, SessionsStay, NotLent DEF OwnInv, SoleOwner
<1> HIDE DEF c
<1>4. TypeOK'
  <2>1. Len(idleConns') <= maxPerService
    BY <1>1, <1>2, PoolAssumption DEF OwnInv, TypeOK
  <2> QED
    BY <1>1, <1>2, <2>1 DEF OwnInv, TypeOK, callers
<1>5. SoleOwner'
  <2>1. \A s \in Sessions : conn[s] # None => conn[s] \in Held
    BY DEF OwnInv, TypeOK, Held
  <2>2. None \notin Held /\ None \notin Range(idleConns)
    BY PoolAssumption DEF OwnInv, TypeOK, Held, Range
  <2> QED
    BY <1>1, <1>2, <1>3, <2>1, <2>2 DEF OwnInv, SoleOwner, callers
<1>6. KeepsBooks
  <2>1. CASE closing = "open" /\ Books
    <3>1. activeConns' = activeConns
      BY <1>1, <1>2, <2>1 DEF Books
    <3> QED
      BY <1>1, <1>2, <1>3, <3>1, BooksStay
  <2> QED
    BY <1>1, <2>1 DEF KeepsBooks, Books
<1> QED
  BY <1>4, <1>5, <1>6 DEF OwnInv

(* Cleanup gives the connection in its hand back, or closes it. *)
LEMMA CleanupPutBackStep ==
  ASSUME OwnInv, CleanupPutBack
  PROVE  OwnInv' /\ KeepsBooks
<1>1. /\ sweep # None /\ sweep' = None /\ UNCHANGED callers
      /\ UNCHANGED <<activeCount, mu, closing>>
      /\ activeConns' \in {activeConns, activeConns \ {sweep}}
      /\ open' \subseteq open /\ old' \subseteq old
      /\ idleConns' = IF Len(idleConns) < maxPerService
                        THEN Append(idleConns, sweep) ELSE idleConns
  BY DEF CleanupPutBack, callers
<1>2. sweep \in Conns /\ sweep \notin Range(idleConns) /\ sweep \notin Held
  BY <1>1 DEF OwnInv, TypeOK, SoleOwner
<1>3. Held' = Held /\ Lent' = Lent /\ sweep \notin Lent
  BY <1>1, SessionsStay, NotLent
<1>4. /\ idleConns' \in Seq(Conns) /\ Len(idleConns') <= maxPerService
      /\ IsInjective(idleConns')
      /\ Range(idleConns') \subseteq Range(idleConns) \cup {sweep}
  <2>1. idleConns \in Seq(Conns) /\ Len(idleConns) <= maxPerService
        /\ IsInjective(idleConns)
    BY DEF OwnInv, TypeOK, SoleOwner
  <2>2. CASE Len(idleConns) < maxPerService
    BY <1>1, <1>2, <2>1, <2>2, Send, PoolAssumption
  <2>3. CASE ~(Len(idleConns) < maxPerService)
    BY <1>1, <2>1, <2>3
  <2> QED
    BY <2>2, <2>3
<1>5. TypeOK'
  BY <1>1, <1>2, <1>4 DEF OwnInv, TypeOK, callers
<1>6. SoleOwner'
  <2>1. None \notin Held /\ None \notin Range(idleConns)
    BY PoolAssumption DEF OwnInv, TypeOK, Held, Range
  <2> QED
    BY <1>1, <1>2, <1>3, <1>4, <2>1 DEF OwnInv, SoleOwner, callers
<1>7. KeepsBooks
  <2>1. CASE closing = "open" /\ Books
    <3>1. activeConns' = activeConns
      BY <1>1, <2>1 DEF Books
    <3> QED
      BY <1>1, <1>3, <1>4, <3>1, BooksStay
  <2> QED
    BY <1>1, <2>1 DEF KeepsBooks, Books
<1> QED
  BY <1>5, <1>6, <1>7 DEF OwnInv

(* The other steps of Cleanup and Close, and time, move no connection. *)
LEMMA OtherStep ==
  ASSUME OwnInv,
         \/ CleanupLock \/ CleanupDone \/ CloseActive \/ CloseReset
         \/ CloseIdle /\ idleConns = <<>>
         \/ \E c \in Conns : Age(c)
         \/ UNCHANGED vars
  PROVE  OwnInv' /\ KeepsBooks
<1>1. /\ UNCHANGED callers /\ UNCHANGED <<idleConns, sweep>>
      /\ activeConns' \subseteq activeConns /\ activeCount' \in {activeCount, 0}
      /\ mu' \in {mu, Cleaner, None} /\ open' \subseteq open
      /\ old' \subseteq Conns
      /\ closing' \in {"open", "draining", "empty", "closed"}
      /\ closing' = "open" =>
           closing = "open" /\ UNCHANGED <<activeConns, activeCount>>
  BY DEF CleanupLock, CleanupDone, CloseActive, CloseReset, CloseIdle, Age,
         vars, callers, OwnInv, TypeOK
<1>2. Held' = Held /\ Lent' = Lent
  BY <1>1, SessionsStay
<1>3. TypeOK'
  BY <1>1 DEF OwnInv, TypeOK, callers
<1>4. SoleOwner' /\ KeepsBooks
  BY <1>1, <1>2 DEF OwnInv, SoleOwner, Books, KeepsBooks, Lost, callers
<1> QED
  BY <1>3, <1>4 DEF OwnInv

-----------------------------------------------------------------------------
(* Theorems *)

(* Every step keeps the invariant. *)
LEMMA PoolKeeps == PoolInv /\ [Next]_vars => PoolInv'
<1> SUFFICES ASSUME PoolInv, [Next]_vars PROVE PoolInv'
  OBVIOUS
<1>1. ASSUME NEW s \in Sessions,
             GetPool(s) \/ Get(s) \/ Put(s) \/ Remove(s) \/ PutElsewhere(s)
      PROVE  OwnInv' /\ KeepsBooks
  BY <1>1, GetPoolStep, GetIdleStep, GetReusedStep, GetExpiredStep,
     GetLimitStep, DialOkStep, PutIdleStep, PutPushStep, RemoveStep,
     PutElsewhereStep DEF Get, Put, PoolInv
<1>2. ASSUME CleanupLock \/ Cleanup \/ Close \/ (\E c \in Conns : Age(c))
             \/ UNCHANGED vars
      PROVE  OwnInv' /\ KeepsBooks
  BY <1>2, TakeStep, CleanupPutBackStep, OtherStep DEF Cleanup, Close, PoolInv
<1>3. OwnInv' /\ KeepsBooks
  BY <1>1, <1>2 DEF Next
<1>4. closing' = "open" => closing = "open"
  BY DEF Next, Get, Put, Cleanup, Close, GetPool, GetIdle, PutPush,
         PutElsewhere, GetReused, GetExpired, PutIdle, Remove, GetLimit,
         DialFail, DialOk, CleanupLock, CleanupTake, CleanupPutBack,
         CleanupDone, CloseActive, CloseIdle, CloseReset, Age, vars
<1>5. CountsBorrowed'
  BY <1>3, <1>4 DEF PoolInv, CountsBorrowed, KeepsBooks, Books, Lost
<1> QED
  BY <1>3, <1>5 DEF PoolInv, KeepsBooks

(* PoolInv holds in every reachable state. *)
THEOREM PoolInvariant == Spec => []PoolInv
  BY InitInv, PoolKeeps, PTL DEF Spec

(* Get, Put, Remove, Cleanup and Close, however they interleave, never     *)
(* leave a connection with two owners.                                     *)
THEOREM SoleOwnerCorrect == Spec => []SoleOwner
<1>1. PoolInv => SoleOwner
  BY DEF PoolInv, OwnInv
<1> QED
  BY <1>1, PoolInvariant, PTL

(* Until Close, activeConns and activeCount are exactly what is lent out. *)
THEOREM CountsBorrowedCorrect == Spec => []CountsBorrowed
<1>1. PoolInv => CountsBorrowed
  BY DEF PoolInv, OwnInv
<1> QED
  BY <1>1, PoolInvariant, PTL

(* The channel never holds more than maxPerService connections, and a      *)
(* session has one exactly where Get, Put and Remove say it does.          *)
THEOREM TypeCorrect == Spec => []TypeOK
<1>1. PoolInv => TypeOK
  BY DEF PoolInv, OwnInv
<1> QED
  BY <1>1, PoolInvariant, PTL

-----------------------------------------------------------------------------
(* The limit and the dial *)

(* A dial runs under the mutex, with the count still below the limit. *)
DialInv ==
  \A s \in Sessions : pc[s] = "dial" => mu = s /\ activeCount < maxPerService

(* Nothing changes the count while somebody dials. *)
LEMMA DialStep == PoolInv /\ DialInv /\ [Next]_vars => DialInv'
<1> SUFFICES ASSUME PoolInv, DialInv, [Next]_vars PROVE DialInv'
  OBVIOUS
<1> USE PoolAssumption
        DEF PoolInv, OwnInv, TypeOK, DialInv, At, Goto, Have, Unlocked, callers, Points
<1>1. ASSUME NEW s \in Sessions, GetPool(s) \/ GetIdle(s) \/ PutPush(s)
                                 \/ PutElsewhere(s)
      PROVE  DialInv'
  BY <1>1 DEF GetPool, GetIdle, PutPush, PutElsewhere
<1>2. ASSUME NEW s \in Sessions, GetReused(s) \/ GetExpired(s) \/ PutIdle(s)
                                 \/ Remove(s)
      PROVE  DialInv'
  BY <1>2 DEF GetReused, GetExpired, PutIdle, Remove
<1>3. ASSUME NEW s \in Sessions, GetLimit(s) PROVE DialInv'
  BY <1>3 DEF GetLimit
<1>4. ASSUME NEW s \in Sessions, NEW c \in Conns, DialOk(s, c) PROVE DialInv'
  BY <1>4 DEF DialOk
<1>5. ASSUME NEW s \in Sessions, DialFail(s) PROVE DialInv'
  BY <1>5 DEF DialFail
<1>6. CASE CleanupLock \/ CleanupTake \/ CleanupPutBack \/ CleanupDone
  BY <1>6 DEF CleanupLock, CleanupTake, CleanupPutBack, CleanupDone
<1>7. CASE CloseActive \/ CloseIdle \/ CloseReset
  BY <1>7 DEF CloseActive, CloseIdle, CloseReset
<1>8. ASSUME NEW c \in Conns, Age(c) PROVE DialInv'
  BY <1>8 DEF Age
<1>9. CASE UNCHANGED vars
  BY <1>9 DEF vars
<1> QED
  BY <1>1, <1>2, <1>3, <1>4, <1>5, <1>6, <1>7, <1>8, <1>9
     DEF Next, Get, Put, Cleanup, Close

(* Only a dial opens a connection. *)
LEMMA OnlyDialOpens ==
  ASSUME PoolInv, [Next]_vars
  PROVE  open' \subseteq open \/ \E s \in Sessions, c \in Conns : DialOk(s, c)
  BY DEF Next, Get, Put, Cleanup, Close, GetPool, GetIdle, PutPush,
         PutElsewhere, GetReused, GetExpired, PutIdle, Remove, GetLimit,
         DialFail, CleanupLock, CleanupTake, CleanupPutBack, CleanupDone,
         CloseActive, CloseIdle, CloseReset, Age, vars

(* For any number of sessions, a Get that dials keeps what is lent out     *)
(* within maxPerService.                                                   *)
THEOREM DialsWithinLimitCorrect == Spec => DialsWithinLimit
<1>1. Init => DialInv
  BY DEF Init, DialInv
<1>2. ASSUME PoolInv, DialInv, [Next]_vars, closing = "open",
             ~(open' \subseteq open)
      PROVE  Cardinality(activeConns') <= maxPerService
  <2>1. PICK s \in Sessions, c \in Conns : DialOk(s, c)
    BY <1>2, OnlyDialOpens
  <2>2. activeCount < maxPerService /\ activeCount \in Nat
    BY <1>2, <2>1 DEF DialOk, At, DialInv, PoolInv, OwnInv, TypeOK
  <2>3. activeConns' = activeConns \cup {c} /\ c \notin activeConns
    BY <2>1 DEF DialOk, Fresh
  <2>4. activeConns \in SUBSET Conns /\ activeCount = Cardinality(activeConns)
    BY <1>2 DEF PoolInv, OwnInv, TypeOK, CountsBorrowed
  <2> QED
    BY <2>2, <2>3, <2>4, CountJoin, PoolAssumption
<1>3. PoolInv /\ DialInv /\ [Next]_vars
        => [closing = "open" /\ ~(open' \subseteq open)
              => Cardinality(activeConns') <= maxPerService]_vars
  BY <1>2
<1> QED
  BY <1>1, <1>3, DialStep, PoolInvariant, PTL DEF Spec, DialsWithinLimit

-----------------------------------------------------------------------------
(* What the pool loses sight of *)

(* The expired connection that Get is about to forget has been closed. *)
DropInv == \A s \in Sessions : pc[s] = "drop" => conn[s] \notin open

(* Only unused connections are opened. *)
LEMMA DropStep == PoolInv /\ DropInv /\ [Next]_vars => DropInv'
<1> SUFFICES ASSUME PoolInv, DropInv, [Next]_vars PROVE DropInv'
  OBVIOUS
<1> USE PoolAssumption
        DEF PoolInv, OwnInv, TypeOK, DropInv, At, Goto, Have, callers, Points
<1>1. ASSUME NEW s \in Sessions, GetIdle(s) PROVE DropInv'
  BY <1>1 DEF GetIdle
<1>2. ASSUME NEW s \in Sessions,
             GetPool(s) \/ PutPush(s) \/ PutElsewhere(s) \/ GetReused(s)
             \/ GetExpired(s) \/ GetLimit(s) \/ DialFail(s)
      PROVE  DropInv'
  BY <1>2 DEF GetPool, PutPush, PutElsewhere, GetReused, GetExpired, GetLimit,
              DialFail
<1>3. ASSUME NEW s \in Sessions, PutIdle(s) \/ Remove(s) PROVE DropInv'
  BY <1>3 DEF PutIdle, Remove
<1>4. ASSUME NEW s \in Sessions, NEW c \in Conns, DialOk(s, c) PROVE DropInv'
  BY <1>4 DEF DialOk, Fresh, Held, Holding
<1>5. CASE CleanupLock \/ CleanupTake \/ CleanupPutBack \/ CleanupDone
  BY <1>5 DEF CleanupLock, CleanupTake, CleanupPutBack, CleanupDone
<1>6. CASE CloseActive \/ CloseIdle \/ CloseReset
  BY <1>6 DEF CloseActive, CloseIdle, CloseReset
<1>7. ASSUME NEW c \in Conns, Age(c) PROVE DropInv'
  BY <1>7 DEF Age
<1>8. CASE UNCHANGED vars
  BY <1>8 DEF vars
<1> QED
  BY <1>1, <1>2, <1>3, <1>4, <1>5, <1>6, <1>7, <1>8
     DEF Next, Get, Put, Cleanup, Close

(* A call that moves on without giving its connection away. *)
LEMMA KeepsSight ==
  ASSUME PoolInv, NEW s \in Sessions, NEW p \in Points, NEW c,
         pc' = [pc EXCEPT ![s] = p], conn' = [conn EXCEPT ![s] = c],
         pc[s] \in Holding => p \in Holding /\ c = conn[s],
         UNCHANGED <<idleConns, sweep>>
  PROVE  Reachable \subseteq Reachable'
  BY DEF PoolInv, OwnInv, TypeOK, Reachable, Held

(* The one way in which an open connection is lost before Close. *)
Dropped(c) ==
  /\ Len(idleConns) = maxPerService
  /\ \E s \in Sessions : At(s, "push") /\ conn[s] = c

(* No session's step loses another one. *)
LEMMA SessionKeepsSight ==
  ASSUME PoolInv, DropInv, closing = "open", NEW s \in Sessions,
         GetPool(s) \/ Get(s) \/ Put(s) \/ Remove(s) \/ PutElsewhere(s),
         NEW c \in (open \cap Reachable) \cap (open' \ Reachable')
  PROVE  Dropped(c)
<1> USE DEF At, Goto, Have
<1>1. CASE GetPool(s) \/ GetReused(s) \/ GetLimit(s) \/ DialFail(s) \/ PutIdle(s)
  <2>1. PICK p \in Points : /\ pc' = [pc EXCEPT ![s] = p]
                            /\ pc[s] \in Holding => p \in Holding
    BY <1>1 DEF GetPool, GetReused, GetLimit, DialFail, PutIdle, Points,
                Holding
  <2>2. conn' = [conn EXCEPT ![s] = conn[s]] /\ UNCHANGED <<idleConns, sweep>>
    BY <1>1 DEF GetPool, GetReused, GetLimit, DialFail, PutIdle, PoolInv, OwnInv,
                TypeOK
  <2> QED
    BY <2>1, <2>2, KeepsSight
<1>2. CASE GetIdle(s) /\ idleConns = <<>>
  BY <1>2, KeepsSight DEF GetIdle, Points, Holding, PoolInv, OwnInv, TypeOK
<1>3. CASE GetIdle(s) /\ idleConns # <<>>
  <2> DEFINE h == Head(idleConns)
  <2>1. PICK p \in {"mark", "drop"} : pc' = [pc EXCEPT ![s] = p]
    BY <1>3 DEF GetIdle
  <2>2. /\ pc[s] = "get" /\ idleConns' = Tail(idleConns)
        /\ conn' = [conn EXCEPT ![s] = h] /\ UNCHANGED sweep
    BY <1>3 DEF GetIdle
  <2>3. Range(idleConns') = Range(idleConns) \ {h}
    BY <1>3, <2>2, Receive DEF PoolInv, OwnInv, TypeOK, SoleOwner
  <2> HIDE DEF h
  <2> QED
    BY <2>1, <2>2, <2>3 DEF PoolInv, OwnInv, TypeOK, Reachable, Held, Holding
<1>4. CASE GetExpired(s)
  BY <1>4 DEF GetExpired, DropInv, PoolInv, OwnInv, TypeOK, Reachable, Held, Holding
<1>5. CASE \E d \in Conns : DialOk(s, d)
  BY <1>5, KeepsSight DEF DialOk, Points, Holding
<1>6. CASE PutPush(s)
  <2>1. CASE Len(idleConns) < maxPerService
    <3>1. /\ conn[s] \in Conns /\ conn[s] \notin Range(idleConns)
          /\ idleConns' = Append(idleConns, conn[s])
      BY <1>6, <2>1, PoolAssumption
         DEF PutPush, PoolInv, OwnInv, TypeOK, SoleOwner, Holding, Held
    <3>2. Range(idleConns') = Range(idleConns) \cup {conn[s]}
      BY <3>1, Send DEF PoolInv, OwnInv, TypeOK, SoleOwner
    <3> QED
      BY <1>6, <3>2 DEF PutPush, PoolInv, OwnInv, TypeOK, Reachable, Held, Holding
  <2>2. CASE ~(Len(idleConns) < maxPerService)
    <3>1. Len(idleConns) = maxPerService
      BY <2>2, PoolAssumption DEF PoolInv, OwnInv, TypeOK
    <3>2. pc[s] = "push" /\ conn[s] = c
      BY <1>6, <2>2 DEF PutPush, PoolInv, OwnInv, TypeOK, Reachable, Held, Holding
    <3> QED
      BY <3>1, <3>2 DEF Dropped
  <2> QED
    BY <2>1, <2>2
<1>7. CASE Remove(s)
  BY <1>7 DEF Remove, PoolInv, OwnInv, TypeOK, Reachable, Held, Holding
<1>8. CASE PutElsewhere(s)
  BY <1>8 DEF PutElsewhere
<1> QED
  BY <1>1, <1>2, <1>3, <1>4, <1>5, <1>6, <1>7, <1>8 DEF Get, Put

(* Cleanup closes what it does not put back; Close has not begun. *)
LEMMA OthersKeepSight ==
  ASSUME PoolInv, closing = "open",
         CleanupLock \/ Cleanup \/ Close \/ (\E d \in Conns : Age(d))
         \/ UNCHANGED vars,
         NEW c \in (open \cap Reachable) \cap (open' \ Reachable')
  PROVE  FALSE
<1>1. Held' = Held
  BY DEF CleanupLock, Cleanup, CleanupTake, CleanupPutBack, CleanupDone, Close,
         CloseActive, CloseIdle, CloseReset, Age, vars, callers, Held
<1>0. None \notin open
  BY PoolAssumption DEF PoolInv, OwnInv, TypeOK
<1>2. CASE CleanupTake
  <2>1. Range(idleConns') = Range(idleConns) \ {Head(idleConns)}
    BY <1>2, Receive DEF CleanupTake, PoolInv, OwnInv, TypeOK, SoleOwner
  <2> QED
    BY <1>0, <1>1, <1>2, <2>1 DEF CleanupTake, Reachable
<1>3. CASE CleanupPutBack
  <2>1. sweep \in Conns
    BY <1>3 DEF CleanupPutBack, PoolInv, OwnInv, TypeOK
  <2>2. Range(Append(idleConns, sweep)) = Range(idleConns) \cup {sweep}
    BY <2>1, Send DEF PoolInv, OwnInv, TypeOK
  <2> QED
    BY <1>0, <1>1, <1>3, <2>2 DEF CleanupPutBack, Reachable
<1>4. CASE ~CleanupTake /\ ~CleanupPutBack
  BY <1>1, <1>4 DEF CleanupLock, Cleanup, CleanupDone, Close, CloseActive,
                    CloseIdle, CloseReset, Age, vars, Reachable
<1> QED
  BY <1>2, <1>3, <1>4

(* For any number of sessions, connections and any limit, Put's full       *)
(* channel is the only place where the pool loses an open connection       *)
(* before Close.                                                           *)
THEOREM LostOnlyWhenFullCorrect == Spec => LostOnlyWhenFull
<1>1. Init => DropInv
  BY DEF Init, DropInv
<1>2. ASSUME PoolInv, DropInv, [Next]_vars, closing = "open",
             NEW c \in (open \cap Reachable) \cap (open' \ Reachable')
      PROVE  Dropped(c)
  BY <1>2, SessionKeepsSight, OthersKeepSight DEF Next
<1>3. PoolInv /\ DropInv /\ [Next]_vars
        => [closing = "open" =>
              \A c \in (open \cap Reachable) \cap (open' \ Reachable') :
                /\ Len(idleConns) = maxPerService
                /\ \E s \in Sessions : At(s, "push") /\ conn[s] = c]_vars
  BY <1>2 DEF Dropped
<1> QED
  BY <1>1, <1>3, DropStep, PoolInvariant, PTL DEF Spec, LostOnlyWhenFull

-----------------------------------------------------------------------------
(* Sessions on top of the pool *)

(* A session is registered, under the connection it has, from Forward to   *)
(* the deferred Remove at most.                                            *)
Registered(s) ==
  registry[s] # None => /\ registry[s] = conn[s]
                        /\ stage[s] \in {"forward", "cancelled", "unregister"}

SessionInv ==
  /\ OwnInv /\ Books
  /\ SessionTypeOK
  /\ \A s \in Sessions : Registered(s)

(* How one step may change the places lost. *)
LosesPlace ==
  closing' = "open" =>
    \/ Lost' = Lost
    \/ \E s \in Sessions : Panic(s) /\ Lost' = Lost \cup {conn[s]}

(* Before the first client arrives. *)
LEMMA SessionInitInv == SessionInit => SessionInv
<1> SUFFICES ASSUME SessionInit PROVE SessionInv
  OBVIOUS
<1>1. OwnInv /\ Books
  BY InitInv DEF SessionInit, PoolInv
<1>2. SessionTypeOK
  BY <1>1 DEF SessionInit, SessionTypeOK, OwnInv, Stages
<1> QED
  BY <1>1, <1>2 DEF SessionInit, SessionInv, Registered

(* The goroutine of a session, or the session manager, closes a socket     *)
(* behind the pool's back: it moves no connection.                         *)
LEMMA CloseBehind ==
  ASSUME OwnInv, open' \subseteq open,
         UNCHANGED <<idleConns, activeConns, activeCount, mu, old, callers,
                     sweep, closing>>
  PROVE  OwnInv' /\ KeepsBooks
<1>1. Held' = Held /\ Lent' = Lent
  BY SessionsStay
<1>2. TypeOK' /\ SoleOwner'
  BY <1>1 DEF OwnInv, TypeOK, SoleOwner, callers
<1> QED
  BY <1>1, <1>2, BooksStay DEF OwnInv

(* A panic forgets the connection, and leaves its entry in activeConns. *)
LEMMA PanicStep ==
  ASSUME SessionInv, NEW s \in Sessions, Panic(s)
  PROVE  OwnInv' /\ Books' /\ LosesPlace
<1> DEFINE c == conn[s]
           p == "out"
<1>1. /\ pc[s] = "using" /\ pc' = [pc EXCEPT ![s] = p]
      /\ conn' = [conn EXCEPT ![s] = None]
      /\ UNCHANGED <<idleConns, activeConns, activeCount, mu, open, old,
                     sweep, closing>>
  BY DEF Panic, At, Goto, Have
<1>2. p \in Points \ Holding /\ pc[s] \in Holding /\ pc[s] \in Borrowed
  BY <1>1 DEF Points, Holding, Borrowed
<1>3. /\ c \in Conns /\ c \in Lent
      /\ Held' = Held \ {c} /\ Lent' = Lent \ {c}
      /\ \A t, u \in Sessions : conn'[t] = conn'[u] /\ conn'[t] # None
                                  => t = u
  BY <1>1, <1>2, LetsGo DEF SessionInv
<1>4. OwnInv'
  <2>1. TypeOK'
    BY <1>1 DEF SessionInv, OwnInv, TypeOK, Points, Holding
  <2>2. SoleOwner'
    BY <1>1, <1>3 DEF SessionInv, OwnInv, SoleOwner
  <2> QED
    BY <2>1, <2>2 DEF OwnInv
<1> HIDE DEF c
<1>5. Books'
  BY <1>1, <1>3 DEF SessionInv, Books
<1>6. closing = "open" => Lost' = Lost \cup {c}
  BY <1>1, <1>3 DEF SessionInv, Books, Lost
<1> QED
  BY <1>1, <1>4, <1>5, <1>6 DEF LosesPlace, c

(* Every step of every handler and of the pool keeps the pool in order. *)
LEMMA PoolUnderSessions ==
  ASSUME SessionInv, [SessionNext]_allVars
  PROVE  OwnInv' /\ Books' /\ LosesPlace
<1>1. ASSUME OwnInv', KeepsBooks PROVE OwnInv' /\ Books' /\ LosesPlace
  BY <1>1 DEF SessionInv, KeepsBooks, LosesPlace
<1>2. OwnInv
  BY DEF SessionInv
<1>3. ASSUME NEW s \in Sessions, Connect(s) \/ Return(s)
      PROVE  OwnInv' /\ KeepsBooks
  BY <1>2, <1>3, GetPoolStep, PutElsewhereStep DEF Connect, Return
<1>4. ASSUME NEW s \in Sessions, Dial(s) \/ GetStep(s) \/ PutStep(s)
      PROVE  OwnInv' /\ KeepsBooks
  BY <1>2, <1>4, GetIdleStep, GetReusedStep, GetExpiredStep, GetLimitStep,
     DialOkStep, PutIdleStep, PutPushStep DEF Dial, GetStep, PutStep, Put
<1>5. ASSUME NEW s \in Sessions,
             \/ Arrive(s) \/ GiveUp(s) \/ Forward(s) \/ FirstWriteFails(s)
             \/ ForwardEnds(s) \/ Unregister(s)
      PROVE  OwnInv' /\ KeepsBooks
  <2>1. UNCHANGED vars
    BY <1>5 DEF Arrive, GiveUp, Forward, FirstWriteFails, ForwardEnds,
                Unregister, poolVars
  <2> QED
    BY <1>2, <2>1, OtherStep
<1>6. ASSUME NEW s \in Sessions, CopierEnds(s) \/ Reap(s)
      PROVE  OwnInv' /\ KeepsBooks
  BY <1>2, <1>6, CloseBehind DEF CopierEnds, Reap
<1>7. CASE PoolStep
  BY <1>1, <1>2, <1>7, TakeStep, CleanupPutBackStep, OtherStep
     DEF PoolStep, Cleanup, Close
<1>8. CASE UNCHANGED allVars
  BY <1>1, <1>2, <1>8, OtherStep DEF allVars
<1>9. CASE \E s \in Sessions : Handle(s) \/ Reap(s)
  BY <1>1, <1>3, <1>4, <1>5, <1>6, <1>9, PanicStep DEF Handle
<1> QED
  BY <1>7, <1>8, <1>9 DEF SessionNext

(* What SessionInv says of the handlers themselves. *)
HandlersOK ==
  /\ stage \in [Sessions -> Stages]
  /\ registry \in [Sessions -> Conns \cup {None}]
  /\ copier \in [Sessions -> Conns \cup {None}]
  /\ clients \subseteq Sessions
  /\ \A s \in Sessions :
       /\ stage[s] \in {"forward", "cancelled", "unregister", "return"}
            => pc[s] = "using"
       /\ copier[s] # None /\ stage[s] = "forward" => copier[s] = conn[s]
       /\ Registered(s)

(* A call on the pool moves only its own session, which is not forwarding. *)
LEMMA CallsAside ==
  ASSUME SessionInv, NEW s \in Sessions, Dial(s) \/ GetStep(s) \/ PutStep(s)
  PROVE  HandlersOK'
<1> USE DEF SessionInv, SessionTypeOK, TypeOK, HandlersOK, Registered, handlers
<1>1. /\ UNCHANGED handlers /\ pc[s] # "using"
      /\ \A t \in Sessions \ {s} : pc'[t] = pc[t] /\ conn'[t] = conn[t]
  BY DEF Dial, GetStep, PutStep, Put, GetIdle, GetReused, GetExpired, GetLimit,
         DialFail, DialOk, PutIdle, PutPush, At, Goto, Have
<1>2. \A t \in Sessions : pc[t] = "using" => UNCHANGED <<pc[t], conn[t]>>
  BY <1>1
<1> QED
  BY <1>1, <1>2

(* Every step keeps the handlers and their registry in order. *)
LEMMA HandlersKeep ==
  ASSUME SessionInv, [SessionNext]_allVars
  PROVE  HandlersOK'
<1> USE DEF SessionInv, SessionTypeOK, TypeOK, HandlersOK, Registered, Stages,
            At, Goto, Have, Enter, handlers, callers, vars, poolVars
<1>1. ASSUME NEW s \in Sessions, Arrive(s) \/ GiveUp(s) \/ FirstWriteFails(s)
      PROVE  HandlersOK'
  BY <1>1 DEF Arrive, GiveUp, FirstWriteFails
<1>2. ASSUME NEW s \in Sessions, Connect(s) PROVE HandlersOK'
  BY <1>2 DEF Connect, GetPool
<1>3. ASSUME NEW s \in Sessions, Forward(s) PROVE HandlersOK'
  BY <1>3 DEF Forward
<1>4. ASSUME NEW s \in Sessions, ForwardEnds(s) PROVE HandlersOK'
  BY <1>4 DEF ForwardEnds
<1>5. ASSUME NEW s \in Sessions, CopierEnds(s) PROVE HandlersOK'
  BY <1>5 DEF CopierEnds
<1>6. ASSUME NEW s \in Sessions, Unregister(s) PROVE HandlersOK'
  BY <1>6 DEF Unregister
<1>7. ASSUME NEW s \in Sessions, Return(s) PROVE HandlersOK'
  BY <1>7 DEF Return, GetPool, PutElsewhere
<1>8. ASSUME NEW s \in Sessions, Panic(s) PROVE HandlersOK'
  BY <1>8 DEF Panic
<1>9. ASSUME NEW s \in Sessions, Reap(s) PROVE HandlersOK'
  BY <1>9 DEF Reap
<1>10. CASE PoolStep \/ UNCHANGED allVars
  <2>1. UNCHANGED <<handlers, callers>>
    BY <1>10 DEF PoolStep, CleanupLock, Cleanup, CleanupTake, CleanupPutBack,
                 CleanupDone, Close, CloseActive, CloseIdle, CloseReset, Age,
                 allVars
  <2> QED
    BY <2>1
<1> QED
  BY <1>1, <1>2, <1>3, <1>4, <1>5, <1>6, <1>7, <1>8, <1>9, <1>10, CallsAside
     DEF SessionNext, Handle

(* SessionInv holds in every reachable state. *)
THEOREM SessionInvariant == SessionSpec => []SessionInv
<1>1. SessionInv /\ [SessionNext]_allVars => SessionInv'
  BY PoolUnderSessions, HandlersKeep
     DEF SessionInv, SessionTypeOK, OwnInv, HandlersOK
<1> QED
  BY <1>1, SessionInitInv, PTL DEF SessionSpec

(* For any number of sessions, connections and any limit: what CleanupIdle *)
(* closes belongs to the session it reaps, whatever Get, Put, Cleanup,     *)
(* Close, panics and the goroutines of other sessions do meanwhile.        *)
THEOREM RegisteredOwnsCorrect == SessionSpec => []RegisteredOwns
<1>1. SessionInv => RegisteredOwns
  <2> SUFFICES ASSUME SessionInv, NEW s \in Sessions, registry[s] # None
               PROVE  /\ registry[s] = conn[s] /\ pc[s] = "using"
                      /\ registry[s] \notin Range(idleConns)
                      /\ \A t \in Sessions \ {s} : conn[t] # registry[s]
    BY DEF RegisteredOwns
  <2>1. registry[s] = conn[s] /\ pc[s] = "using"
    BY DEF SessionInv, SessionTypeOK, Registered
  <2>2. conn[s] \in Held
    BY <2>1 DEF Held, Holding
  <2> QED
    BY <2>1, <2>2 DEF SessionInv, OwnInv, SoleOwner
<1> QED
  BY <1>1, SessionInvariant, PTL

(* A forwarding handler has its connection, and its client-to-backend      *)
(* goroutine has the same one.                                             *)
THEOREM SessionTypeCorrect == SessionSpec => []SessionTypeOK
<1>1. SessionInv => SessionTypeOK
  BY DEF SessionInv
<1> QED
  BY <1>1, SessionInvariant, PTL

(* Sessions that panic, are reaped or lose their sockets never make the    *)
(* pool lend one connection to two of them.                                *)
THEOREM SessionsSoleOwner == SessionSpec => []SoleOwner
<1>1. SessionInv => SoleOwner
  BY DEF SessionInv, OwnInv
<1> QED
  BY <1>1, SessionInvariant, PTL

(* Nor do they falsify activeCount: until Close it is the size of          *)
(* activeConns, and every connection lent out is there.                    *)
THEOREM SlotsCountedCorrect == SessionSpec => []SlotsCounted
<1>1. SessionInv => SlotsCounted
  BY DEF SessionInv, Books, SlotsCounted
<1> QED
  BY <1>1, SessionInvariant, PTL

(* A panic costs exactly one place of the pool, and nothing else costs     *)
(* one, before Close.                                                      *)
THEOREM PlacesLostCorrect == SessionSpec => PlacesLost
<1>1. SessionInv /\ [SessionNext]_allVars => [LosesPlace]_allVars
  BY PoolUnderSessions
<1>2. PlacesLost <=> [][LosesPlace]_allVars
  BY PTL DEF PlacesLost, LosesPlace
<1> QED
  BY <1>1, <1>2, SessionInvariant, PTL DEF SessionSpec

=============================================================================
