-------------------------- MODULE Lifecycle_proofs --------------------------
(***************************************************************************)
(* Proofs, for any number of connections and any sizes of goroutine pool   *)
(* and queue, that a connection is in one place, that the WaitGroup counts *)
(* exactly what is alive, and that a Shutdown that did not time out has    *)
(* waited for everything.                                                  *)
(***************************************************************************)
EXTENDS Lifecycle, FiniteSetTheorems, TLAPS

-----------------------------------------------------------------------------
(* Receiving from and sending to connQueue, a buffered channel *)

(* Receiving takes the head, and only the head, out of the channel. *)
LEMMA Receive ==
  ASSUME NEW S, NEW q \in Seq(S), q # <<>>, IsInjective(q)
  PROVE  /\ Tail(q) \in Seq(S) /\ Len(Tail(q)) <= Len(q)
         /\ Head(q) \in Range(q) /\ Head(q) \in S
         /\ Range(Tail(q)) = Range(q) \ {Head(q)}
         /\ IsInjective(Tail(q))
<1>1. Len(q) \in Nat \ {0} /\ DOMAIN q = 1..Len(q) /\ Head(q) = q[1]
  OBVIOUS
<1>2. /\ Tail(q) \in Seq(S) /\ Len(Tail(q)) = Len(q) - 1
      /\ DOMAIN Tail(q) = 1..(Len(q) - 1)
      /\ \A k \in 1..(Len(q) - 1) : Tail(q)[k] = q[k + 1]
  OBVIOUS
<1>3. Head(q) \in Range(q) /\ Head(q) \in S
  BY <1>1 DEF Range
<1>4. ASSUME NEW x \in Range(Tail(q)) PROVE x \in Range(q) \ {Head(q)}
  BY <1>1, <1>2, <1>4 DEF Range, IsInjective
<1>5. ASSUME NEW x \in Range(q) \ {Head(q)} PROVE x \in Range(Tail(q))
  <2>1. PICK k \in 1..Len(q) : x = q[k] /\ k # 1
    BY <1>1 DEF Range
  <2>2. k - 1 \in 1..(Len(q) - 1) /\ Tail(q)[k - 1] = x
    BY <1>1, <1>2, <2>1
  <2> QED
    BY <1>2, <2>2 DEF Range
<1>6. IsInjective(Tail(q))
  BY <1>1, <1>2 DEF IsInjective
<1> QED
  BY <1>1, <1>2, <1>3, <1>4, <1>5, <1>6

(* Sending adds the value at the end. *)
LEMMA Send ==
  ASSUME NEW S, NEW q \in Seq(S), NEW c \in S
  PROVE  /\ Append(q, c) \in Seq(S) /\ Len(Append(q, c)) = Len(q) + 1
         /\ Range(Append(q, c)) = Range(q) \cup {c}
         /\ IsInjective(q) /\ c \notin Range(q) => IsInjective(Append(q, c))
<1>1. Len(q) \in Nat /\ DOMAIN q = 1..Len(q)
  OBVIOUS
<1>2. /\ Append(q, c) \in Seq(S) /\ Len(Append(q, c)) = Len(q) + 1
      /\ DOMAIN Append(q, c) = 1..(Len(q) + 1)
      /\ \A k \in 1..Len(q) : Append(q, c)[k] = q[k]
      /\ Append(q, c)[Len(q) + 1] = c
  OBVIOUS
<1>3. Range(Append(q, c)) = Range(q) \cup {c}
  <2>1. ASSUME NEW x \in Range(Append(q, c)) PROVE x \in Range(q) \cup {c}
    BY <1>1, <1>2 DEF Range
  <2>2. ASSUME NEW x \in Range(q) PROVE x \in Range(Append(q, c))
    <3>1. PICK k \in 1..Len(q) : x = q[k]
      BY <1>1 DEF Range
    <3>2. k \in 1..(Len(q) + 1) /\ Append(q, c)[k] = x
      BY <1>1, <1>2, <3>1
    <3> QED
      BY <1>2, <3>2 DEF Range
  <2>3. c \in Range(Append(q, c))
    BY <1>1, <1>2 DEF Range
  <2> QED
    BY <2>1, <2>2, <2>3
<1>4. ASSUME IsInjective(q), c \notin Range(q) PROVE IsInjective(Append(q, c))
  <2>1. \A k \in 1..Len(q) : q[k] # c
    BY <1>1, <1>4 DEF Range
  <2> QED
    BY <1>1, <1>2, <1>4, <2>1 DEF IsInjective
<1> QED
  BY <1>2, <1>3, <1>4

-----------------------------------------------------------------------------
(* Counting *)

(* Connections and background loops are finite in number. *)
LEMMA Finite ==
  /\ \A S \in SUBSET Clients : IsFiniteSet(S) /\ Cardinality(S) \in Nat
  /\ \A S \in SUBSET (Services \cup {Metrics}) :
       IsFiniteSet(S) /\ Cardinality(S) \in Nat
<1>1. \A S \in SUBSET Clients : IsFiniteSet(S)
  BY LifecycleAssumption, FS_Subset
<1>2. IsFiniteSet({"redis", "consul", "pools", "sessions", Metrics})
  <2>1. IsFiniteSet({})
    BY FS_EmptySet
  <2>2. IsFiniteSet({} \cup {"redis"})
    BY <2>1, FS_AddElement
  <2>3. IsFiniteSet({"redis"} \cup {"consul"})
    BY <2>2, FS_AddElement
  <2>4. IsFiniteSet({"redis", "consul"} \cup {"pools"})
    BY <2>3, FS_AddElement
  <2>5. IsFiniteSet({"redis", "consul", "pools"} \cup {"sessions"})
    BY <2>4, FS_AddElement
  <2>6. IsFiniteSet({"redis", "consul", "pools", "sessions"} \cup {Metrics})
    BY <2>5, FS_AddElement
  <2> QED
    BY <2>6
<1>3. ASSUME NEW S \in SUBSET (Services \cup {Metrics}) PROVE IsFiniteSet(S)
  <2>1. S \in SUBSET {"redis", "consul", "pools", "sessions", Metrics}
    BY LifecycleAssumption DEF Loops
  <2> QED
    BY <1>2, <2>1, FS_Subset
<1> QED
  BY <1>1, <1>3, FS_CardinalityType

(* A finite set with one element more. *)
LEMMA Joins ==
  ASSUME NEW S, IsFiniteSet(S), NEW x, x \notin S
  PROVE  Cardinality(S \cup {x}) = Cardinality(S) + 1
  BY FS_AddElement

(* A finite set with one element fewer. *)
LEMMA Leaves ==
  ASSUME NEW S, IsFiniteSet(S), NEW x \in S
  PROVE  Cardinality(S \ {x}) = Cardinality(S) - 1
  BY FS_RemoveElement

-----------------------------------------------------------------------------
(* The inductive invariant *)

(* The types of what is counted. *)
Types ==
  /\ phase \in Phases
  /\ wg \in Int /\ unpaired \in Nat
  /\ running \subseteq Services \cup {Metrics}
  /\ connQueue \in Seq(Clients)
  /\ acceptor \in Acceptor /\ processor \in Processor
  /\ accepted \in Clients \cup {NoConn} /\ taken \in Clients \cup {NoConn}
  /\ st \in [Clients -> Fates]

(* Before Start nothing runs; after it both loops have been started. *)
Started ==
  /\ phase = "new" => /\ acceptor = "off" /\ processor = "off"
                      /\ running = {} /\ connQueue = <<>>
                      /\ accepted = NoConn /\ taken = NoConn
                      /\ \A c \in Clients : st[c] = "none"
  /\ acceptor = "off" \/ processor = "off" => phase \in {"new", "failed"}

(* What every step keeps. *)
LifeInv == Types /\ OnePlace /\ WgAccounts /\ Started /\ DoneMeansDrained

(* connQueue is closed after the wait, and when that was not cut short the *)
(* goroutines that use it are gone, also if Shutdown fails later; so nil   *)
(* connections come only from a wait that was cut short.                   *)
QueueInv ==
  /\ queueClosed => phase \in {"release", "metrics", "done", "failed"}
  /\ queueClosed /\ ~timedOut => acceptor = "done" /\ processor = "done"
  /\ nils \in Nat
  /\ processor = "nil" \/ nils # 0 \/ unpaired # 0 => queueClosed /\ timedOut
  /\ PanicsOnlyAfterTimeout

(* A gateway that has not started owns nothing. *)
LEMMA InitInv == Init => LifeInv
<1> SUFFICES ASSUME Init PROVE LifeInv
  OBVIOUS
<1>1. Counted = {} /\ \A f \in Fates \ {"none"} : With(f) = {}
  BY DEF Init, Counted, With, Fates
<1>2. Types
  BY LifecycleAssumption
     DEF Init, Types, Phases, Acceptor, Processor, Fates
<1>3. OnePlace
  <2>1. Range(connQueue) = {} /\ IsInjective(connQueue)
    BY DEF Init, Range, IsInjective
  <2> QED
    BY <1>1, <2>1 DEF Init, OnePlace, Fates
<1>4. WgAccounts
  BY <1>1, FS_EmptySet DEF Init, WgAccounts, Live
<1>5. Started /\ DoneMeansDrained
  BY DEF Init, Started, DoneMeansDrained, PastWait
<1> QED
  BY <1>2, <1>3, <1>4, <1>5 DEF LifeInv

(* Counted connections are connections. *)
LEMMA CountedType == Counted \in SUBSET Clients
  BY DEF Counted, With

(* A step that moves no connection leaves everyone in its place. *)
LEMMA SamePlaces ==
  ASSUME UNCHANGED <<st, connQueue, acceptor, accepted, processor, taken>>
  PROVE  /\ Counted' = Counted
         /\ OnePlace => OnePlace'
  BY DEF Counted, With, OnePlace

(* The steps of Shutdown other than the wait change no count. *)
LEMMA ShutdownStep ==
  ASSUME LifeInv,
         \/ StartFails \/ SetDraining \/ Cancel \/ CloseListener
         \/ CloseQueue \/ ReleasePools \/ ShutdownMetrics \/ UNCHANGED vars
  PROVE  LifeInv'
<1>1. UNCHANGED <<timedOut, wg, unpaired, running, connQueue, acceptor,
                  accepted, processor, taken, st>>
  BY DEF StartFails, SetDraining, Cancel, CloseListener, CloseQueue,
         ReleasePools, ShutdownMetrics, vars, counter, signals, queue,
         accepting, processing
<1>2. /\ phase' \in Phases
      /\ PastWait' => PastWait
      /\ phase' = "new" => phase = "new"
      /\ phase \in {"new", "failed"} => phase' \in {"new", "failed"}
  BY DEF StartFails, SetDraining, Cancel, CloseListener, CloseQueue,
         ReleasePools, ShutdownMetrics, vars, Phases, PastWait, LifeInv, Types
<1>3. Counted' = Counted /\ OnePlace'
  BY <1>1, SamePlaces DEF LifeInv
<1>4. Types' /\ WgAccounts'
  BY <1>1, <1>2, <1>3 DEF LifeInv, Types, WgAccounts
<1>5. Started'
  BY <1>1, <1>2 DEF LifeInv, Started
<1>6. DoneMeansDrained'
  BY <1>1, <1>2 DEF LifeInv, DoneMeansDrained
<1> QED
  BY <1>3, <1>4, <1>5, <1>6 DEF LifeInv

(* wg.Wait returns only when nothing is counted any more. *)
LEMMA WaitStep ==
  ASSUME LifeInv, QueueInv, Wait
  PROVE  LifeInv'
<1>1. /\ phase = "wait" /\ phase' = "queue"
      /\ timedOut' = FALSE => wg = 0
      /\ UNCHANGED <<wg, unpaired, running, connQueue, acceptor, accepted,
                     processor, taken, st>>
  BY DEF Wait, counter, signals, queue, accepting, processing
<1>2. Counted' = Counted /\ OnePlace'
  BY <1>1, SamePlaces DEF LifeInv
<1>3. Types' /\ WgAccounts' /\ Started'
  BY <1>1, <1>2 DEF LifeInv, Types, WgAccounts, Started, Phases
<1>4. ASSUME wg = 0
      PROVE  /\ \A c \in Clients : st[c] \in {"none", "closed"}
             /\ acceptor = "done" /\ processor = "done" /\ running = {}
  <2>1. /\ Cardinality(running) \in Nat /\ IsFiniteSet(running)
        /\ Cardinality(Counted) \in Nat /\ IsFiniteSet(Counted)
    BY Finite, CountedType DEF LifeInv, Types
  <2>2. /\ Cardinality(running) = 0 /\ Cardinality(Counted) = 0
        /\ acceptor \in {"off", "done"} /\ processor \in {"off", "done"}
    <3>1. unpaired = 0
      BY <1>1 DEF QueueInv
    <3> QED
      BY <1>4, <2>1, <3>1 DEF LifeInv, WgAccounts, Live
  <2>3. running = {} /\ Counted = {}
    BY <2>1, <2>2, FS_EmptySet
  <2>4. acceptor = "done" /\ processor = "done"
    BY <1>1, <2>2 DEF LifeInv, Started
  <2>5. accepted = NoConn /\ taken = NoConn
    BY <2>4 DEF LifeInv, OnePlace
  <2>6. \A c \in Clients : st[c] \notin {"queued", "taken", "handled"}
    BY <2>3 DEF Counted, With
  <2>7. \A c \in Clients : st[c] # "accepted"
    BY <2>5 DEF LifeInv, OnePlace, With
  <2> QED
    BY <2>3, <2>4, <2>6, <2>7 DEF LifeInv, Types, Fates
<1>5. DoneMeansDrained'
  BY <1>1, <1>4 DEF DoneMeansDrained
<1> QED
  BY <1>2, <1>3, <1>5 DEF LifeInv

(* A background loop that ends was counted once. *)
LEMMA ServiceStep ==
  ASSUME LifeInv, NEW x \in running,
         running' = running \ {x}, wg' = wg - 1,
         UNCHANGED <<phase, timedOut, unpaired, connQueue, acceptor, accepted,
                     processor, taken, st>>
  PROVE  LifeInv'
<1>1. Counted' = Counted /\ OnePlace'
  BY SamePlaces DEF LifeInv
<1>2. Cardinality(running') = Cardinality(running) - 1
  BY Finite, Leaves DEF LifeInv, Types
<1>3. /\ Cardinality(running) \in Nat /\ Cardinality(Counted) \in Nat
      /\ Cardinality(running') \in Nat
  BY Finite, CountedType DEF LifeInv, Types
<1>4. WgAccounts'
  <2>1. Live(acceptor) \in Nat /\ Live(processor) \in Nat
    BY DEF Live
  <2>2. wg + unpaired = Cardinality(running) + Live(acceptor)
                          + Live(processor) + Cardinality(Counted)
        /\ wg \in Int /\ unpaired \in Nat
    BY DEF LifeInv, WgAccounts, Types
  <2>3. wg' + unpaired = Cardinality(running') + Live(acceptor)
                           + Live(processor) + Cardinality(Counted)
    BY <1>2, <1>3, <2>1, <2>2
  <2>4. UNCHANGED <<unpaired, acceptor, processor>>
    OBVIOUS
  <2> QED
    BY <1>1, <2>3, <2>4 DEF WgAccounts
<1>5. wg' \in Int
  BY DEF LifeInv, Types
<1>6. Types' /\ Started' /\ DoneMeansDrained'
  BY <1>5 DEF LifeInv, Types, Started, DoneMeansDrained, PastWait
<1> QED
  BY <1>1, <1>4, <1>6 DEF LifeInv

(* Start adds as many as it starts. *)
LEMMA StartStep ==
  ASSUME LifeInv, QueueInv, Start
  PROVE  LifeInv'
<1>1. /\ phase = "new" /\ phase' = "up"
      /\ running' = Services \cup {Metrics}
      /\ acceptor' = "check" /\ processor' = "select"
      /\ wg' = Cardinality(Services) + 3
      /\ UNCHANGED <<timedOut, unpaired, connQueue, accepted, taken, st>>
  BY DEF Start, queue, spurious
<1>0. unpaired = 0
  BY <1>1 DEF QueueInv
<1>2. /\ acceptor = "off" /\ accepted = NoConn /\ taken = NoConn
      /\ \A c \in Clients : st[c] = "none"
  BY <1>1 DEF LifeInv, Started
<1>3. Counted' = {} /\ \A f : With(f)' = With(f)
  BY <1>1, <1>2 DEF Counted, With
<1>4. Cardinality(running') = Cardinality(Services) + 1
  <2>1. Metrics \notin Services /\ IsFiniteSet(Services)
    BY Finite, LifecycleAssumption DEF Metrics, Loops
  <2> QED
    BY <1>1, <2>1, Joins
<1>5. Cardinality(Services) \in Nat /\ Cardinality({}) = 0
  BY Finite, FS_EmptySet
<1>6. WgAccounts'
  BY <1>0, <1>1, <1>3, <1>4, <1>5 DEF WgAccounts, Live
<1>7. OnePlace'
  BY <1>1, <1>2, <1>3 DEF LifeInv, OnePlace
<1>8. Types' /\ Started' /\ DoneMeansDrained'
  BY <1>1, <1>5
     DEF LifeInv, Types, Started, DoneMeansDrained, PastWait, Phases,
         Acceptor, Processor
<1> QED
  BY <1>6, <1>7, <1>8 DEF LifeInv

(* What a step of the accept loop, of the processor or of a handler has to *)
(* do to the counters: the change of wg is the change of the sum.          *)
LEMMA CountStep ==
  ASSUME LifeInv, NEW d \in {-1, 0, 1}, wg' = wg + d,
         Counted' \in SUBSET Clients,
         Cardinality(Counted') + Live(acceptor') + Live(processor')
           = Cardinality(Counted) + Live(acceptor) + Live(processor) + d,
         UNCHANGED <<running, unpaired>>
  PROVE  WgAccounts' /\ wg' \in Int
<1>1. /\ Cardinality(running) \in Nat /\ Cardinality(Counted) \in Nat
      /\ Cardinality(Counted') \in Nat
  BY Finite, CountedType DEF LifeInv, Types
<1>0. /\ Live(acceptor) \in Nat /\ Live(processor) \in Nat
      /\ Live(acceptor') \in Nat /\ Live(processor') \in Nat
  BY DEF Live
<1>2. WgAccounts'
  <2>0. d \in Int
    OBVIOUS
  <2>1. wg + unpaired = Cardinality(running) + Live(acceptor)
                          + Live(processor) + Cardinality(Counted)
        /\ wg \in Int /\ unpaired \in Nat
    BY DEF LifeInv, WgAccounts, Types
  <2>2. wg' + unpaired = Cardinality(running) + Live(acceptor')
                           + Live(processor') + Cardinality(Counted')
    <3> DEFINE a == Live(acceptor) + Live(processor) + Cardinality(Counted)
               b == Live(acceptor') + Live(processor') + Cardinality(Counted')
    <3>1. a \in Int /\ b \in Int /\ b = a + d
      BY <1>0, <1>1, <2>0
    <3>2. wg + unpaired = Cardinality(running) + a
      BY <1>0, <1>1, <2>1
    <3>3. wg' + unpaired = Cardinality(running) + b
      <4> HIDE DEF a, b
      <4> QED
        BY <1>1, <2>0, <2>1, <3>1, <3>2
    <3> QED
      BY <1>0, <1>1, <3>3
  <2> QED
    BY <2>2, unpaired' = unpaired, running' = running DEF WgAccounts
<1>3. wg' \in Int
  BY DEF LifeInv, Types
<1> QED
  BY <1>2, <1>3

(* The loops at their tests: no connection moves. *)
LEMMA AcceptCheckStep ==
  ASSUME LifeInv, AcceptCheck \/ AcceptError
  PROVE  LifeInv'
<1>1. /\ acceptor \in {"check", "accept"}
      /\ acceptor' \in {"check", "accept", "done"}
      /\ wg' = IF acceptor' = "done" THEN wg - 1 ELSE wg
      /\ UNCHANGED <<phase, timedOut, unpaired, running, connQueue, accepted,
                     processor, taken, st>>
  BY DEF AcceptCheck, AcceptError, AcceptLoopReturns, Done, counter, queue,
         processing
<1>2. Counted' = Counted /\ Counted \in SUBSET Clients
  BY <1>1 DEF Counted, With
<1>3. OnePlace'
  BY <1>1 DEF LifeInv, OnePlace, With
<1>4. Cardinality(Counted) \in Nat /\ wg \in Int
  BY <1>2, Finite DEF LifeInv, Types
<1>5. WgAccounts' /\ wg' \in Int
  <2>1. CASE acceptor' = "done"
    BY <1>1, <1>2, <1>4, <2>1, CountStep DEF Live
  <2>2. CASE acceptor' # "done"
    BY <1>1, <1>2, <1>4, <2>2, CountStep DEF Live
  <2> QED
    BY <2>1, <2>2
<1>6. Types' /\ Started' /\ DoneMeansDrained'
  BY <1>1, <1>5
     DEF LifeInv, Types, Started, DoneMeansDrained, PastWait, Acceptor
<1> QED
  BY <1>3, <1>5, <1>6 DEF LifeInv

(* An accepted connection is not counted until it is submitted. *)
LEMMA AcceptStep ==
  ASSUME LifeInv, NEW c \in Clients, Accept(c)
  PROVE  LifeInv'
<1>1. /\ acceptor = "accept" /\ st[c] = "none"
      /\ \/ acceptor' = "submit" /\ accepted' = c
            /\ st' = [st EXCEPT ![c] = "accepted"]
         \/ acceptor' = "check" /\ accepted' = accepted
            /\ st' = [st EXCEPT ![c] = "closed"]
      /\ UNCHANGED <<phase, timedOut, unpaired, wg, running, connQueue,
                     processor, taken>>
  BY DEF Accept, Becomes, counter, queue, processing
<1>2. accepted = NoConn /\ With("accepted") = {}
  BY <1>1 DEF LifeInv, OnePlace
<1>3. /\ With("queued")' = With("queued") /\ With("taken")' = With("taken")
      /\ With("handled")' = With("handled")
      /\ With("accepted")' = {accepted'} \ {NoConn}
  BY <1>1, <1>2, LifecycleAssumption DEF LifeInv, Types, With
<1>4. Counted' = Counted /\ Counted \in SUBSET Clients
  <2>1. {x \in With("accepted") : acceptor # "submit"} = {}
    BY <1>2
  <2>2. {x \in With("accepted")' : acceptor' # "submit"} = {}
    BY <1>1, <1>2, <1>3
  <2> QED
    BY <1>3, <2>1, <2>2, CountedType DEF Counted
<1>5. OnePlace'
  BY <1>1, <1>2, <1>3, LifecycleAssumption DEF LifeInv, OnePlace
<1>6. Cardinality(Counted) \in Nat /\ wg \in Int
  BY <1>4, Finite DEF LifeInv, Types
<1>7. WgAccounts' /\ wg' \in Int
  BY <1>1, <1>4, <1>6, CountStep DEF Live
<1>8. Types'
  BY <1>1, <1>7 DEF LifeInv, Types, Acceptor, Fates
<1>9. Started' /\ DoneMeansDrained'
  BY <1>1 DEF LifeInv, Types, Started, DoneMeansDrained, PastWait
<1> QED
  BY <1>5, <1>7, <1>8, <1>9 DEF LifeInv

(* Submitting counts the connection, in the pool or still to be queued. *)
LEMMA AcceptSubmitStep ==
  ASSUME LifeInv, AcceptSubmit
  PROVE  LifeInv'
<1> DEFINE c == accepted
<1>1. /\ acceptor = "submit" /\ wg' = wg + 1
      /\ \/ acceptor' = "check" /\ accepted' = NoConn
            /\ st' = [st EXCEPT ![c] = "handled"]
         \/ acceptor' = "offer" /\ accepted' = c /\ st' = st
      /\ UNCHANGED <<phase, timedOut, unpaired, running, connQueue, processor,
                     taken>>
  BY DEF AcceptSubmit, Becomes, queue, processing
<1>2. c \in Clients /\ With("accepted") = {c} /\ st[c] = "accepted"
  BY <1>1, LifecycleAssumption DEF LifeInv, OnePlace, Types, With
<1> HIDE DEF c
<1>3. /\ With("queued")' = With("queued") /\ With("taken")' = With("taken")
      /\ With("accepted")' = {accepted'} \ {NoConn}
      /\ With("handled")' = IF acceptor' = "check"
                              THEN With("handled") \cup {c}
                              ELSE With("handled")
  BY <1>1, <1>2, LifecycleAssumption DEF LifeInv, Types, With
<1>4. Counted' = Counted \cup {c} /\ c \notin Counted
  <2>1. {x \in With("accepted") : acceptor # "submit"} = {}
    BY <1>1
  <2>2. {x \in With("accepted")' : acceptor' # "submit"}
          = IF acceptor' = "check" THEN {} ELSE {c}
    BY <1>1, <1>2, <1>3, LifecycleAssumption
  <2>3. c \notin With("queued") \cup With("taken") \cup With("handled")
    BY <1>2 DEF With
  <2>4. Counted = With("queued") \cup With("taken") \cup With("handled")
    BY <2>1 DEF Counted
  <2>5. Counted' = With("queued") \cup With("taken") \cup With("handled")
                     \cup {c}
    BY <1>1, <1>3, <2>2 DEF Counted
  <2> QED
    BY <2>3, <2>4, <2>5
<1>5. OnePlace'
  BY <1>1, <1>2, <1>3, LifecycleAssumption DEF LifeInv, OnePlace
<1>6. Cardinality(Counted') = Cardinality(Counted) + 1
      /\ Counted' \in SUBSET Clients /\ Cardinality(Counted) \in Nat
  BY <1>2, <1>4, Finite, CountedType, Joins
<1>7. WgAccounts' /\ wg' \in Int
  BY <1>1, <1>6, CountStep DEF Live
<1>8. Types'
  BY <1>1, <1>2, <1>7 DEF LifeInv, Types, Acceptor, Fates
<1>9. Started' /\ DoneMeansDrained'
  BY <1>1 DEF LifeInv, Types, Started, DoneMeansDrained, PastWait
<1> QED
  BY <1>5, <1>7, <1>8, <1>9 DEF LifeInv

(* An offered connection is queued, which keeps it counted, or closed. *)
LEMMA AcceptOfferStep ==
  ASSUME LifeInv, AcceptOffer
  PROVE  LifeInv'
<1> DEFINE c == accepted
<1>1. /\ acceptor = "offer"
      /\ UNCHANGED <<phase, timedOut, unpaired, running, processor, taken>>
      /\ \/ acceptor' = "panic" /\ UNCHANGED <<connQueue, wg, accepted, st>>
         \/ /\ acceptor' = "check" /\ accepted' = NoConn
            /\ connQueue' = Append(connQueue, c)
            /\ st' = [st EXCEPT ![c] = "queued"] /\ wg' = wg
         \/ /\ acceptor' = "check" /\ accepted' = NoConn
            /\ connQueue' = connQueue
            /\ st' = [st EXCEPT ![c] = "closed"] /\ wg' = wg - 1
  BY DEF AcceptOffer, Becomes, Done, counter, processing
<1>2. c \in Clients /\ With("accepted") = {c} /\ st[c] = "accepted"
  BY <1>1, LifecycleAssumption DEF LifeInv, OnePlace, Types, With
<1>3. c \in Counted /\ c \notin Range(connQueue)
  BY <1>1, <1>2 DEF Counted, LifeInv, OnePlace, With
<1> HIDE DEF c
<1>4. /\ Cardinality(Counted) \in Nat /\ wg \in Int
      /\ IsFiniteSet(Counted) /\ Counted \in SUBSET Clients
  BY Finite, CountedType DEF LifeInv, Types
<1>5. CASE acceptor' = "panic"
  <2>1. UNCHANGED <<connQueue, wg, accepted, st>>
    BY <1>1, <1>5
  <2>2. Counted' = Counted
    BY <1>1, <1>5, <2>1 DEF Counted, With
  <2>3. WgAccounts' /\ wg' \in Int
    BY <1>1, <1>4, <1>5, <2>1, <2>2, CountStep DEF Live
  <2>4. OnePlace'
    BY <1>1, <1>5, <2>1 DEF LifeInv, OnePlace, With
  <2>5. Types' /\ Started' /\ DoneMeansDrained'
    BY <1>1, <1>5, <2>1, <2>3
       DEF LifeInv, Types, Acceptor, Started, DoneMeansDrained, PastWait
  <2> QED
    BY <2>3, <2>4, <2>5 DEF LifeInv
<1>6. CASE acceptor' = "check" /\ connQueue' = Append(connQueue, c)
           /\ accepted' = NoConn
           /\ st' = [st EXCEPT ![c] = "queued"] /\ wg' = wg
  <2>1. /\ With("queued")' = With("queued") \cup {c}
        /\ With("taken")' = With("taken") /\ With("handled")' = With("handled")
        /\ With("accepted")' = {}
    BY <1>2, <1>6 DEF LifeInv, Types, With
  <2>2. Counted' = Counted
    <3>1. {x \in With("accepted") : acceptor # "submit"} = {c}
      BY <1>1, <1>2
    <3>2. {x \in With("accepted")' : acceptor' # "submit"} = {}
      BY <2>1
    <3> QED
      BY <2>1, <3>1, <3>2 DEF Counted
  <2>3. WgAccounts' /\ wg' \in Int
    BY <1>1, <1>4, <1>6, <2>2, CountStep DEF Live
  <2>4. /\ connQueue' \in Seq(Clients) /\ IsInjective(connQueue')
        /\ Range(connQueue') = Range(connQueue) \cup {c}
    BY <1>2, <1>3, <1>6, Send DEF LifeInv, Types, OnePlace
  <2>5. OnePlace'
    BY <1>1, <1>6, <2>1, <2>4 DEF LifeInv, OnePlace
  <2>6. Types'
    BY <1>1, <1>6, <2>3, <2>4 DEF LifeInv, Types, Acceptor, Fates
  <2>7. Started' /\ DoneMeansDrained'
    BY <1>1, <1>6 DEF LifeInv, Started, DoneMeansDrained, PastWait
  <2> QED
    BY <2>3, <2>5, <2>6, <2>7 DEF LifeInv
<1>7. CASE acceptor' = "check" /\ connQueue' = connQueue
           /\ accepted' = NoConn
           /\ st' = [st EXCEPT ![c] = "closed"] /\ wg' = wg - 1
  <2>1. /\ With("queued")' = With("queued") /\ With("taken")' = With("taken")
        /\ With("handled")' = With("handled") /\ With("accepted")' = {}
    BY <1>2, <1>7 DEF LifeInv, Types, With
  <2>2. Counted' = Counted \ {c}
    <3>1. {x \in With("accepted") : acceptor # "submit"} = {c}
      BY <1>1, <1>2
    <3>2. {x \in With("accepted")' : acceptor' # "submit"} = {}
      BY <2>1
    <3>3. c \notin With("queued") \cup With("taken") \cup With("handled")
      BY <1>2 DEF With
    <3> QED
      BY <2>1, <3>1, <3>2, <3>3 DEF Counted
  <2>3. Cardinality(Counted') = Cardinality(Counted) - 1
    BY <1>3, <1>4, <2>2, Leaves
  <2>4. WgAccounts' /\ wg' \in Int
    BY <1>1, <1>4, <1>7, <2>2, <2>3, CountStep DEF Live
  <2>5. OnePlace'
    BY <1>1, <1>7, <2>1 DEF LifeInv, OnePlace
  <2>6. Types'
    BY <1>1, <1>7, <2>4 DEF LifeInv, Types, Acceptor, Fates
  <2>7. Started' /\ DoneMeansDrained'
    BY <1>1, <1>7 DEF LifeInv, Started, DoneMeansDrained, PastWait
  <2> QED
    BY <2>4, <2>5, <2>6, <2>7 DEF LifeInv
<1> QED
  BY <1>1, <1>5, <1>6, <1>7 DEF c

(* The end of a handler takes its connection out of the count. *)
LEMMA HandlerStep ==
  ASSUME LifeInv, NEW c \in Clients, HandlerEnds(c)
  PROVE  LifeInv'
<1>1. /\ st[c] = "handled" /\ st' = [st EXCEPT ![c] = "closed"]
      /\ wg' = wg - 1
      /\ UNCHANGED <<phase, timedOut, unpaired, running, connQueue, acceptor,
                     accepted, processor, taken>>
  BY DEF HandlerEnds, Becomes, WorkerDone, queue, accepting, processing
<1>2. /\ With("queued")' = With("queued") /\ With("taken")' = With("taken")
      /\ With("handled")' = With("handled") \ {c}
      /\ With("accepted")' = With("accepted")
  BY <1>1 DEF LifeInv, Types, With
<1>3. Counted' = Counted \ {c} /\ c \in Counted
  <2>1. /\ c \notin With("queued") \cup With("taken") \cup With("accepted")
        /\ c \in With("handled")
    BY <1>1 DEF With
  <2> QED
    BY <1>1, <1>2, <2>1 DEF Counted
<1>4. /\ Cardinality(Counted') = Cardinality(Counted) - 1
      /\ Cardinality(Counted) \in Nat /\ Counted' \in SUBSET Clients
  BY <1>3, Finite, CountedType, Leaves
<1>5. WgAccounts' /\ wg' \in Int
  BY <1>1, <1>4, CountStep DEF Live, LifeInv, Types
<1>6. OnePlace'
  BY <1>1, <1>2 DEF LifeInv, OnePlace
<1>7. Types' /\ Started'
  BY <1>1, <1>5 DEF LifeInv, Types, Fates, Started
<1>8. DoneMeansDrained'
  BY <1>1 DEF LifeInv, DoneMeansDrained, PastWait
<1> QED
  BY <1>5, <1>6, <1>7, <1>8 DEF LifeInv

(* The processor between connections: it goes on, ends, or meets the       *)
(* closed channel.                                                         *)
LEMMA ProcessTestStep ==
  ASSUME LifeInv,
         processor \in {"select", "nil", "drain"},
         \/ processor' \in {"select", "nil", "drain", "panic"} /\ wg' = wg
         \/ processor' = "done" /\ wg' = wg - 1,
         UNCHANGED <<phase, timedOut, unpaired, running, connQueue, acceptor,
                     accepted, taken, st>>
  PROVE  LifeInv'
<1>1. Counted' = Counted /\ Counted \in SUBSET Clients
  BY CountedType DEF Counted, With
<1>2. Cardinality(Counted) \in Nat /\ wg \in Int
  BY <1>1, Finite DEF LifeInv, Types
<1>3. WgAccounts' /\ wg' \in Int
  <2>1. CASE /\ processor' \in {"select", "nil", "drain", "panic"}
             /\ wg' = wg
    BY <1>1, <1>2, <2>1, CountStep DEF Live
  <2>2. CASE processor' = "done" /\ wg' = wg - 1
    BY <1>1, <1>2, <2>2, CountStep DEF Live
  <2> QED
    BY <2>1, <2>2
<1>4. OnePlace'
  BY DEF LifeInv, OnePlace, With
<1>5. Types' /\ Started' /\ DoneMeansDrained'
  BY <1>3
     DEF LifeInv, Types, Processor, Started, DoneMeansDrained, PastWait
<1> QED
  BY <1>3, <1>4, <1>5 DEF LifeInv

(* The processor receives the head of the queue, to submit or to close it. *)
LEMMA ProcessTakeStep ==
  ASSUME LifeInv, NEW c, connQueue # <<>>, c = Head(connQueue),
         connQueue' = Tail(connQueue),
         \/ /\ processor = "select" /\ processor' = "submit" /\ taken' = c
            /\ st' = [st EXCEPT ![c] = "taken"] /\ wg' = wg
         \/ /\ processor = "drain" /\ processor' = "drain" /\ taken' = taken
            /\ st' = [st EXCEPT ![c] = "closed"] /\ wg' = wg - 1,
         UNCHANGED <<phase, timedOut, unpaired, running, acceptor, accepted>>
  PROVE  LifeInv'
<1>1. /\ connQueue' \in Seq(Clients) /\ IsInjective(connQueue')
      /\ c \in Range(connQueue) /\ c \in Clients
      /\ Range(connQueue') = Range(connQueue) \ {c}
  BY Receive DEF LifeInv, Types, OnePlace
<1>2. st[c] = "queued" /\ taken = NoConn
  BY <1>1 DEF LifeInv, OnePlace, With
<1>3. /\ Cardinality(Counted) \in Nat /\ wg \in Int
      /\ IsFiniteSet(Counted) /\ Counted \in SUBSET Clients
  BY Finite, CountedType DEF LifeInv, Types
<1>4. /\ With("queued")' = With("queued") \ {c}
      /\ With("handled")' = With("handled")
      /\ With("accepted")' = With("accepted")
  BY <1>1, <1>2 DEF LifeInv, Types, With
<1>5. c \in With("queued") /\ c \notin With("taken") \cup With("handled")
                                      \cup With("accepted")
  BY <1>1, <1>2 DEF With
<1>6. Started' /\ DoneMeansDrained'
  BY DEF LifeInv, Started, DoneMeansDrained, PastWait
<1>7. CASE /\ processor' = "submit" /\ taken' = c /\ processor = "select"
           /\ st' = [st EXCEPT ![c] = "taken"] /\ wg' = wg
  <2>1. With("taken")' = With("taken") \cup {c}
    BY <1>1, <1>2, <1>7 DEF LifeInv, Types, With
  <2>2. Counted' = Counted
    BY <1>4, <1>5, <2>1 DEF Counted
  <2>3. WgAccounts' /\ wg' \in Int
    BY <1>3, <1>7, <2>2, CountStep DEF Live
  <2>4. OnePlace'
    BY <1>1, <1>2, <1>4, <1>7, <2>1, LifecycleAssumption
       DEF LifeInv, OnePlace
  <2>5. Types'
    BY <1>1, <1>7, <2>3 DEF LifeInv, Types, Processor, Fates
  <2> QED
    BY <1>6, <2>3, <2>4, <2>5 DEF LifeInv
<1>8. CASE /\ processor' = "drain" /\ taken' = taken /\ processor = "drain"
           /\ st' = [st EXCEPT ![c] = "closed"] /\ wg' = wg - 1
  <2>1. With("taken")' = With("taken")
    BY <1>1, <1>2, <1>8 DEF LifeInv, Types, With
  <2>2. Counted' = Counted \ {c} /\ c \in Counted
    BY <1>4, <1>5, <2>1 DEF Counted
  <2>3. Cardinality(Counted') = Cardinality(Counted) - 1
    BY <1>3, <2>2, Leaves
  <2>4. WgAccounts' /\ wg' \in Int
    BY <1>3, <1>8, <2>2, <2>3, CountStep DEF Live
  <2>5. OnePlace'
    BY <1>1, <1>2, <1>4, <1>8, <2>1 DEF LifeInv, OnePlace
  <2>6. Types'
    BY <1>1, <1>8, <2>4 DEF LifeInv, Types, Processor, Fates
  <2> QED
    BY <1>6, <2>4, <2>5, <2>6 DEF LifeInv
<1> QED
  BY <1>7, <1>8

(* The processor passes its connection on, or closes it. *)
LEMMA ProcessSubmitStep ==
  ASSUME LifeInv, ProcessSubmit
  PROVE  LifeInv'
<1> DEFINE c == taken
<1>1. /\ processor = "submit" /\ processor' = "select" /\ taken' = NoConn
      /\ \/ st' = [st EXCEPT ![c] = "handled"] /\ wg' = wg
         \/ st' = [st EXCEPT ![c] = "closed"] /\ wg' = wg - 1
      /\ UNCHANGED <<phase, timedOut, unpaired, running, connQueue, acceptor,
                     accepted>>
  BY DEF ProcessSubmit, Becomes, Done, counter, queue, accepting, spurious
<1>2. c \in Clients /\ With("taken") = {c} /\ st[c] = "taken"
  BY <1>1, LifecycleAssumption DEF LifeInv, OnePlace, Types, With
<1> HIDE DEF c
<1>3. /\ Cardinality(Counted) \in Nat /\ wg \in Int
      /\ IsFiniteSet(Counted) /\ Counted \in SUBSET Clients
  BY Finite, CountedType DEF LifeInv, Types
<1>4. /\ With("queued")' = With("queued") /\ With("taken")' = {}
      /\ With("accepted")' = With("accepted")
  BY <1>1, <1>2 DEF LifeInv, Types, With
<1>5. c \notin With("queued") \cup With("handled") \cup With("accepted")
  BY <1>2 DEF With
<1>6. OnePlace'
  BY <1>1, <1>4 DEF LifeInv, OnePlace
<1>7. WgAccounts' /\ wg' \in Int
  <2>1. CASE st' = [st EXCEPT ![c] = "handled"] /\ wg' = wg
    <3>1. With("handled")' = With("handled") \cup {c}
      BY <1>2, <2>1 DEF LifeInv, Types, With
    <3>2. Counted' = Counted
      BY <1>1, <1>2, <1>4, <1>5, <3>1 DEF Counted
    <3> QED
      BY <1>1, <1>3, <2>1, <3>2, CountStep DEF Live
  <2>2. CASE st' = [st EXCEPT ![c] = "closed"] /\ wg' = wg - 1
    <3>1. With("handled")' = With("handled")
      BY <1>2, <2>2 DEF LifeInv, Types, With
    <3>2. Counted' = Counted \ {c} /\ c \in Counted
      BY <1>1, <1>2, <1>4, <1>5, <3>1 DEF Counted
    <3>3. Cardinality(Counted') = Cardinality(Counted) - 1
      BY <1>3, <3>2, Leaves
    <3> QED
      BY <1>1, <1>3, <2>2, <3>2, <3>3, CountStep DEF Live
  <2> QED
    BY <1>1, <2>1, <2>2
<1>8. Types'
  BY <1>1, <1>2, <1>7 DEF LifeInv, Types, Processor, Fates
<1>9. Started' /\ DoneMeansDrained'
  BY <1>1 DEF LifeInv, Started, DoneMeansDrained, PastWait
<1> QED
  BY <1>6, <1>7, <1>8, <1>9 DEF LifeInv

(* The end of a nil connection's handler is accounted for as unpaired. *)
LEMMA NilStep ==
  ASSUME LifeInv, NilEnds
  PROVE  LifeInv'
<1>1. /\ wg' = wg - 1 /\ unpaired' = unpaired + 1
      /\ UNCHANGED <<phase, timedOut, running, connQueue, acceptor, accepted,
                     processor, taken, st>>
  BY DEF NilEnds, WorkerDone, queue, accepting
<1>2. Counted' = Counted /\ OnePlace'
  BY <1>1, SamePlaces DEF LifeInv
<1>3. Types'
  BY <1>1 DEF LifeInv, Types
<1>4. wg' + unpaired' = wg + unpaired
  BY <1>1 DEF LifeInv, Types
<1>5. WgAccounts'
  BY <1>1, <1>2, <1>4 DEF LifeInv, WgAccounts
<1>6. Started' /\ DoneMeansDrained'
  BY <1>1 DEF LifeInv, Started, DoneMeansDrained, PastWait
<1> QED
  BY <1>2, <1>3, <1>5, <1>6 DEF LifeInv

-----------------------------------------------------------------------------
(* The closed queue *)

(* A goroutine outside the pool that calls wg.Done was counted, so only a  *)
(* nil connection can have taken its place in the count.                   *)
LEMMA DoneCounted ==
  ASSUME LifeInv, unpaired = 0,
         \/ acceptor \notin {"off", "done"} \/ processor \notin {"off", "done"}
         \/ running # {}
  PROVE  wg > 0
<1>1. /\ Cardinality(running) \in Nat /\ IsFiniteSet(running)
      /\ Cardinality(Counted) \in Nat
  BY Finite, CountedType DEF LifeInv, Types
<1>2. running # {} => Cardinality(running) # 0
  BY <1>1, FS_EmptySet
<1>3. wg = Cardinality(running) + Live(acceptor) + Live(processor)
           + Cardinality(Counted)
  BY DEF LifeInv, Types, WgAccounts
<1>4. /\ Live(acceptor) \in Nat /\ Live(processor) \in Nat
      /\ acceptor \notin {"off", "done"} => Live(acceptor) = 1
      /\ processor \notin {"off", "done"} => Live(processor) = 1
  BY DEF Live
<1> QED
  BY <1>1, <1>2, <1>3, <1>4

(* Only a wg.Done outside the pool can end the process through wg. *)
LEMMA CrashedBy ==
  ASSUME Next
  PROVE  UNCHANGED crashed \/ Done
  BY DEF Next, Start, StartFails, MetricsEnds, ServiceEnds, AcceptLoop,
         AcceptCheck, AcceptError, AcceptLoopReturns, AcceptSubmit,
         AcceptOffer, Accept, ProcessQueue, ProcessSelect, ProcessSubmit,
         ProcessNil, ProcessDrain, HandlerEnds, NilEnds, WorkerDone, Shutdown,
         SetDraining, Cancel, CloseListener, Wait, CloseQueue, ReleasePools,
         ShutdownMetrics, counter

(* wg.Done panics only after nil connections were handled. *)
LEMMA CrashStep ==
  ASSUME LifeInv, QueueInv, Next
  PROVE  crashed' => timedOut
<1> SUFFICES ASSUME crashed', ~timedOut PROVE FALSE
  OBVIOUS
<1>1. unpaired = 0 /\ ~crashed /\ wg \in Int
  BY DEF QueueInv, LifeInv, Types, PanicsOnlyAfterTimeout, Panicked
<1>2. Done
  BY <1>1, CrashedBy
<1>3. wg <= 0
  BY <1>2 DEF Done
<1>4. wg # wg'
  BY <1>1, <1>2 DEF Done
<1>5. wg' # wg + 1
  BY <1>1, <1>2 DEF Done
<1>6. \/ acceptor \notin {"off", "done"} \/ processor \notin {"off", "done"}
      \/ running # {}
  BY <1>1, <1>4 DEF Next, Start, StartFails, MetricsEnds, ServiceEnds,
         AcceptLoop, AcceptCheck, AcceptError, AcceptSubmit, AcceptOffer,
         Accept, ProcessQueue, ProcessSelect, ProcessSubmit, ProcessNil,
         ProcessDrain, HandlerEnds, NilEnds, WorkerDone, Shutdown,
         SetDraining, Cancel, CloseListener, Wait, CloseQueue, ReleasePools,
         ShutdownMetrics, counter
<1> QED
  BY <1>1, <1>3, <1>6, DoneCounted

(* Every step keeps the facts about the closed queue. *)
LEMMA QueueStep == LifeInv /\ QueueInv /\ [Next]_vars => QueueInv'
<1> SUFFICES ASSUME LifeInv, QueueInv, [Next]_vars PROVE QueueInv'
  OBVIOUS
<1>0. /\ unpaired \in Nat
      /\ ~Panicked => ~crashed /\ acceptor # "panic" /\ processor # "panic"
  BY DEF LifeInv, Types, Panicked
<1> DEFINE Closed == queueClosed => phase \in {"release", "metrics", "done",
                                              "failed"}
           Gone == queueClosed /\ ~timedOut => acceptor = "done"
                                              /\ processor = "done"
           Nil == nils \in Nat /\ (processor = "nil" \/ nils # 0 \/ unpaired # 0
                                     => queueClosed /\ timedOut)
           Loop == acceptor = "panic" \/ processor = "panic" => timedOut
<1>1. QueueInv => Closed /\ Gone /\ Nil /\ Loop
  BY DEF QueueInv, PanicsOnlyAfterTimeout, Panicked
<1>2. (Closed /\ Gone /\ Nil /\ Loop)'
  <2> USE <1>1
  <2>1. CASE Start \/ StartFails
    BY <2>1 DEF Start, StartFails, queue, signals, accepting, processing,
                spurious
  <2>2. CASE MetricsEnds \/ \E x \in Services : ServiceEnds(x)
    BY <2>2 DEF ServiceEnds, MetricsEnds, queue, accepting, processing
  <2>3. CASE AcceptLoop
    BY <2>3 DEF AcceptLoop, AcceptCheck, AcceptError, AcceptSubmit,
                AcceptOffer, Accept, AcceptLoopReturns, queue, processing
  <2>4. CASE ProcessQueue
    BY <2>4 DEF ProcessQueue, ProcessSelect, ProcessSubmit, ProcessNil,
                ProcessDrain, queue, accepting, spurious
  <2>5. CASE NilEnds \/ \E c \in Clients : HandlerEnds(c)
    BY <1>0, <2>5 DEF HandlerEnds, NilEnds, queue, accepting, processing
  <2>6. CASE ~Panicked /\ (SetDraining \/ Cancel \/ CloseListener \/ Wait)
    BY <1>0, <2>6 DEF SetDraining, Cancel, CloseListener, Wait, queue,
                      accepting, processing
  <2>7. CASE CloseQueue
    BY <2>7 DEF CloseQueue, LifeInv, DoneMeansDrained, PastWait, accepting,
                processing
  <2>8. CASE ReleasePools \/ ShutdownMetrics
    BY <2>8 DEF ReleasePools, ShutdownMetrics, queue, accepting, processing
  <2>9. CASE UNCHANGED vars
    BY <2>9 DEF vars
  <2> QED
    BY <2>1, <2>2, <2>3, <2>4, <2>5, <2>6, <2>7, <2>8, <2>9 DEF Next, Shutdown
<1>3. crashed' => timedOut'
  <2>1. CASE Next
    <3>1. CASE Wait
      BY <1>0, <2>1, <3>1 DEF Wait, counter, Next
    <3>2. CASE ~Wait
      <4>1. timedOut' = timedOut
        BY <2>1, <3>2 DEF Next, Start, StartFails, MetricsEnds, ServiceEnds,
               AcceptLoop, AcceptCheck, AcceptError, AcceptSubmit,
               AcceptOffer, Accept, ProcessQueue, ProcessSelect,
               ProcessSubmit, ProcessNil, ProcessDrain, HandlerEnds, NilEnds,
               Shutdown, SetDraining, Cancel, CloseListener, CloseQueue,
               ReleasePools, ShutdownMetrics
      <4> QED
        BY <2>1, <4>1, CrashStep
    <3> QED
      BY <3>1, <3>2
  <2>2. CASE UNCHANGED vars
    BY <2>2 DEF vars, QueueInv, PanicsOnlyAfterTimeout, Panicked
  <2> QED
    BY <2>1, <2>2
<1> QED
  BY <1>2, <1>3 DEF QueueInv, PanicsOnlyAfterTimeout, Panicked
-----------------------------------------------------------------------------
(* Theorems *)

(* Every step keeps the invariant. *)
LEMMA LifeStep == LifeInv /\ QueueInv /\ [Next]_vars => LifeInv'
<1> SUFFICES ASSUME LifeInv, QueueInv, [Next]_vars PROVE LifeInv'
  OBVIOUS
<1>1. CASE StartFails \/ Shutdown \/ UNCHANGED vars
  BY <1>1, ShutdownStep, WaitStep DEF Shutdown
<1>2. CASE Start
  BY <1>2, StartStep
<1>3. CASE MetricsEnds \/ \E x \in Services : ServiceEnds(x)
  BY <1>3, ServiceStep
     DEF ServiceEnds, MetricsEnds, Done, queue, accepting, processing
<1>4. CASE AcceptLoop
  BY <1>4, AcceptCheckStep, AcceptStep, AcceptSubmitStep, AcceptOfferStep
     DEF AcceptLoop
<1>5. CASE ProcessSelect \/ ProcessNil \/ ProcessDrain
  <2>1. CASE connQueue' = connQueue
    BY <1>5, <2>1, ProcessTestStep, ProcessTakeStep
       DEF ProcessSelect, ProcessNil, ProcessDrain, Becomes, Done, counter,
           queue, accepting, spurious
  <2>2. CASE connQueue' # connQueue
    BY <1>5, <2>2, ProcessTakeStep
       DEF ProcessSelect, ProcessNil, ProcessDrain, Becomes, Done, counter,
           queue, accepting, spurious
  <2> QED
    BY <2>1, <2>2
<1>6. CASE ProcessSubmit
  BY <1>6, ProcessSubmitStep
<1>7. CASE NilEnds \/ \E c \in Clients : HandlerEnds(c)
  BY <1>7, HandlerStep, NilStep
<1> QED
  BY <1>1, <1>2, <1>3, <1>4, <1>5, <1>6, <1>7 DEF Next, ProcessQueue

(* LifeInv and QueueInv hold in every reachable state. *)
THEOREM LifeInvariant == Spec => [](LifeInv /\ QueueInv)
<1>1. Init => LifeInv
  BY InitInv
<1>2. Init => QueueInv
  BY DEF Init, QueueInv, PanicsOnlyAfterTimeout, Panicked
<1> QED
  BY <1>1, <1>2, LifeStep, QueueStep, PTL DEF Spec

(* acceptLoop, the queue, its processor and the goroutine pool never have  *)
(* the same connection.                                                    *)
THEOREM OnePlaceCorrect == Spec => []OnePlace
<1>1. LifeInv => OnePlace
  BY DEF LifeInv
<1> QED
  BY <1>1, LifeInvariant, PTL

(* Every wg.Add has its wg.Done: the counter is what is alive, less what   *)
(* the handlers of nil connections took off it.                            *)
THEOREM WgAccountsCorrect == Spec => []WgAccounts
<1>1. LifeInv => WgAccounts
  BY DEF LifeInv
<1> QED
  BY <1>1, LifeInvariant, PTL

(* A Shutdown that was not cut short closes the pools only after every     *)
(* handler and loop has ended.                                             *)
THEOREM DrainedCorrect == Spec => []DoneMeansDrained
<1>1. LifeInv => DoneMeansDrained
  BY DEF LifeInv
<1> QED
  BY <1>1, LifeInvariant, PTL

(* For any sizes, the accept loop and the processor meet the closed        *)
(* connQueue, and a wg.Done panics, only if Shutdown stopped waiting.      *)
THEOREM PanicsCorrect == Spec => []PanicsOnlyAfterTimeout
<1>1. QueueInv => PanicsOnlyAfterTimeout
  BY DEF QueueInv
<1> QED
  BY <1>1, LifeInvariant, PTL

(* The types that LifeInv leaves out: flags, and the queue's capacity. *)
LEMMA TypeStep ==
  LifeInv' /\ QueueInv' /\ TypeOK /\ [Next]_vars => TypeOK'
<1> SUFFICES ASSUME LifeInv', QueueInv', TypeOK, [Next]_vars PROVE TypeOK'
  OBVIOUS
<1>0. crashed' \in BOOLEAN
  <2>1. UNCHANGED crashed \/ Done
    BY CrashedBy DEF vars
  <2>2. CASE UNCHANGED crashed
    BY <2>2 DEF TypeOK
  <2>3. CASE Done
    BY <2>3 DEF Done
  <2> QED
    BY <2>1, <2>2, <2>3
<1>1. /\ timedOut' \in BOOLEAN /\ draining' \in BOOLEAN
      /\ cancelled' \in BOOLEAN /\ listening' \in BOOLEAN
      /\ released' \in BOOLEAN /\ queueClosed' \in BOOLEAN
  <2>1. CASE AcceptLoop
    BY <2>1 DEF TypeOK, AcceptLoop, AcceptCheck, AcceptError, AcceptSubmit,
                AcceptOffer, Accept, signals, queue
  <2>2. CASE ProcessQueue
    BY <2>2 DEF TypeOK, ProcessQueue, ProcessSelect, ProcessSubmit, ProcessNil,
                ProcessDrain, signals, queue
  <2>3. CASE Shutdown
    BY <2>3 DEF TypeOK, Shutdown, SetDraining, Cancel, CloseListener, Wait,
                CloseQueue, ReleasePools, ShutdownMetrics, signals, queue
  <2>4. CASE ~AcceptLoop /\ ~ProcessQueue /\ ~Shutdown
    BY <2>4 DEF TypeOK, Next, Start, StartFails, MetricsEnds, ServiceEnds,
                HandlerEnds, NilEnds, vars, signals, queue
  <2> QED
    BY <2>1, <2>2, <2>3, <2>4
<1>2. \/ connQueue' = connQueue
      \/ connQueue # <<>> /\ connQueue' = Tail(connQueue)
      \/ /\ Len(connQueue) < connQueueSize /\ accepted \in Clients
         /\ connQueue' = Append(connQueue, accepted)
  <2>1. CASE AcceptLoop
    BY <2>1 DEF AcceptLoop, AcceptCheck, AcceptError, AcceptSubmit,
                AcceptOffer, Accept, queue, LifeInv, Types
  <2>2. CASE ProcessQueue
    BY <2>2 DEF ProcessQueue, ProcessSelect, ProcessSubmit, ProcessNil,
                ProcessDrain, queue
  <2>3. CASE ~AcceptLoop /\ ~ProcessQueue
    BY <2>3 DEF Next, Start, StartFails, MetricsEnds, ServiceEnds,
                HandlerEnds, NilEnds, Shutdown, SetDraining, Cancel,
                CloseListener, Wait, CloseQueue, ReleasePools,
                ShutdownMetrics, vars, queue
  <2> QED
    BY <2>1, <2>2, <2>3
<1>3. Len(connQueue') <= connQueueSize
  BY <1>2, LifecycleAssumption DEF TypeOK
<1> QED
  BY <1>0, <1>1, <1>3 DEF TypeOK, LifeInv, Types, QueueInv

(* connQueue never holds more than its capacity, and the counters, flags   *)
(* and phases keep their types.                                            *)
THEOREM TypeCorrect == Spec => []TypeOK
<1>1. ASSUME Init PROVE TypeOK
  <2>1. /\ timedOut \in BOOLEAN /\ draining \in BOOLEAN /\ cancelled \in BOOLEAN
        /\ listening \in BOOLEAN /\ released \in BOOLEAN
        /\ queueClosed \in BOOLEAN /\ crashed \in BOOLEAN /\ nils \in Nat
    BY <1>1 DEF Init
  <2>2. Len(connQueue) <= connQueueSize
    BY <1>1, LifecycleAssumption DEF Init
  <2> QED
    BY <1>1, <2>1, <2>2, InitInv DEF TypeOK, LifeInv, Types
<1> QED
  BY <1>1, TypeStep, LifeInvariant, PTL DEF Spec

=============================================================================
