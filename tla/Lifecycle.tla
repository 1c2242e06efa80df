------------------------------ MODULE Lifecycle ------------------------------
(***************************************************************************)
(* The life of the gateway process (internal/gateway/gateway.go): Start,   *)
(* the accept loop, the queue processor, the bounded goroutine pool that   *)
(* runs handleConnection, the background loops, and Shutdown, which waits  *)
(* on one WaitGroup for all of them.  Admission, sessions and pools have   *)
(* modules of their own; here a handler runs and ends.                     *)
(***************************************************************************)
EXTENDS Integers, FiniteSets, Sequences, Functions

CONSTANTS
  Clients,        \* client connections
  Services,       \* background loops in the WaitGroup, of Loops
  maxGoroutines,  \* capacity of goroutinePool
  connQueueSize,  \* capacity of connQueue
  MaxNil,         \* bound on the nil connections received
  NoConn          \* no connection

(* Loops that end when the context is cancelled; the Consul one returns    *)
(* early, because StartRefreshLoop starts a goroutine of its own.          *)
Loops == {"redis", "consul", "pools", "sessions"}

ASSUME LifecycleAssumption ==
  /\ IsFiniteSet(Clients) /\ Services \subseteq Loops
  /\ maxGoroutines \in Nat /\ connQueueSize \in Nat /\ MaxNil \in Nat
  /\ NoConn \notin Clients

VARIABLES
  phase,      \* how far Start and Shutdown have come
  timedOut,   \* Shutdown stopped waiting because its context ended
  draining,   \* Gateway.draining
  cancelled,  \* the gateway's context is done
  listening,  \* the listener is open
  wg,         \* the WaitGroup counter
  crashed,    \* a goroutine outside the pool took it below zero
  running,    \* background goroutines that have not called wg.Done
  released,   \* goroutinePool.Release was called
  connQueue, queueClosed,
  acceptor, accepted,  \* acceptLoop and its local conn
  processor, taken,    \* processConnectionQueue and its local conn
  nils,       \* workers of goroutinePool that were given a nil connection
  unpaired,   \* calls of wg.Done by such workers
  st          \* what has become of each connection

counter == <<wg, crashed>>
queue == <<connQueue, queueClosed>>
accepting == <<acceptor, accepted>>
spurious == <<nils, unpaired>>
processing == <<processor, taken, nils, unpaired>>
signals == <<draining, cancelled, listening>>
vars == <<phase, timedOut, draining, cancelled, listening, wg, crashed,
          running, released, connQueue, queueClosed, acceptor, accepted,
          processor, taken, nils, unpaired, st>>

Metrics == "metrics"

(* The steps of Shutdown, in order; each value names the next one to do. *)
Phases == {"new", "up", "cancel", "listener", "wait", "queue", "release",
           "metrics", "done", "failed"}
Acceptor == {"off", "check", "accept", "submit", "offer", "done", "panic"}
Processor == {"off", "select", "submit", "nil", "drain", "done", "panic"}
Fates == {"none", "accepted", "queued", "taken", "handled", "closed"}

Busy == {c \in Clients : st[c] = "handled"}
CanSubmit == ~released /\ Cardinality(Busy) + nils < maxGoroutines

TypeOK ==
  /\ phase \in Phases
  /\ timedOut \in BOOLEAN /\ draining \in BOOLEAN /\ cancelled \in BOOLEAN
  /\ listening \in BOOLEAN /\ released \in BOOLEAN /\ queueClosed \in BOOLEAN
  /\ wg \in Int /\ crashed \in BOOLEAN
  /\ nils \in Nat /\ unpaired \in Nat
  /\ running \subseteq Services \cup {Metrics}
  /\ connQueue \in Seq(Clients) /\ Len(connQueue) <= connQueueSize
  /\ acceptor \in Acceptor /\ processor \in Processor
  /\ accepted \in Clients \cup {NoConn} /\ taken \in Clients \cup {NoConn}
  /\ st \in [Clients -> Fates]

(* New. *)
Init ==
  /\ phase = "new" /\ timedOut = FALSE
  /\ draining = FALSE /\ cancelled = FALSE /\ listening = FALSE
  /\ wg = 0 /\ crashed = FALSE /\ running = {} /\ released = FALSE
  /\ connQueue = <<>> /\ queueClosed = FALSE
  /\ acceptor = "off" /\ accepted = NoConn
  /\ processor = "off" /\ taken = NoConn /\ nils = 0 /\ unpaired = 0
  /\ st = [c \in Clients |-> "none"]

Becomes(c, fate) == st' = [st EXCEPT ![c] = fate]

(* wg.Done outside the pool: going below zero panics, and nothing recovers *)
(* that.  In the pool the panic is recovered; the count has been changed.  *)
Done == wg' = wg - 1 /\ crashed' = (wg <= 0)
WorkerDone == wg' = wg - 1 /\ UNCHANGED crashed

-----------------------------------------------------------------------------
(* Start *)

(* Every goroutine is added to the WaitGroup before it starts. *)
Start ==
  /\ phase = "new"
  /\ phase' = "up" /\ listening' = TRUE
  /\ running' = Services \cup {Metrics}
  /\ acceptor' = "check" /\ processor' = "select"
  /\ wg' = Cardinality(Services) + 3 /\ UNCHANGED crashed
  /\ UNCHANGED <<timedOut, draining, cancelled, released, queue, accepted,
                 taken, spurious, st>>

(* Loading from Redis or listening fails: main exits. *)
StartFails ==
  /\ phase = "new"
  /\ phase' = "failed"
  /\ UNCHANGED <<timedOut, signals, counter, running, released, queue,
                 accepting, processing, st>>

(* A background loop returns. *)
ServiceEnds(x) ==
  /\ x \in running \ {Metrics} /\ (cancelled \/ x = "consul")
  /\ running' = running \ {x}
  /\ Done
  /\ UNCHANGED <<phase, timedOut, signals, released, queue, accepting,
                 processing, st>>

(* ListenAndServe returns: it failed, or metricsServer.Shutdown was called. *)
MetricsEnds ==
  /\ Metrics \in running
  /\ running' = running \ {Metrics}
  /\ Done
  /\ UNCHANGED <<phase, timedOut, signals, released, queue, accepting,
                 processing, st>>

-----------------------------------------------------------------------------
(* acceptLoop *)

AcceptLoopReturns ==
  /\ acceptor' = "done"
  /\ Done

(* The context is looked at before each Accept. *)
AcceptCheck ==
  /\ acceptor = "check"
  /\ IF cancelled THEN AcceptLoopReturns
                  ELSE acceptor' = "accept" /\ UNCHANGED counter
  /\ UNCHANGED <<phase, timedOut, signals, running, released, queue, accepted,
                 processing, st>>

(* Accept returns a connection, which may fail at once. *)
Accept(c) ==
  /\ acceptor = "accept" /\ listening /\ st[c] = "none"
  /\ \/ acceptor' = "submit" /\ accepted' = c /\ Becomes(c, "accepted")
     \/ acceptor' = "check" /\ UNCHANGED accepted /\ Becomes(c, "closed")
  /\ UNCHANGED <<phase, timedOut, signals, counter, running, released, queue,
                 processing>>

(* Accept returns an error: the end when draining, else another round. *)
AcceptError ==
  /\ acceptor = "accept"
  /\ IF draining THEN AcceptLoopReturns
                 ELSE acceptor' = "check" /\ UNCHANGED counter
  /\ UNCHANGED <<phase, timedOut, signals, running, released, queue, accepted,
                 processing, st>>

(* wg.Add, then the non-blocking Submit. *)
AcceptSubmit ==
  /\ acceptor = "submit"
  /\ wg' = wg + 1 /\ UNCHANGED crashed
  /\ IF CanSubmit
       THEN /\ Becomes(accepted, "handled")
            /\ acceptor' = "check" /\ accepted' = NoConn
       ELSE acceptor' = "offer" /\ UNCHANGED <<accepted, st>>
  /\ UNCHANGED <<phase, timedOut, signals, running, released, queue,
                 processing>>

(* Mutant: wg.Done is called for a queued connection as well. *)
AcceptOfferDone ==
  /\ acceptor = "offer" /\ ~queueClosed
  /\ LET room == Len(connQueue) < connQueueSize IN
       /\ connQueue' = IF room THEN Append(connQueue, accepted) ELSE connQueue
       /\ Becomes(accepted, IF room THEN "queued" ELSE "closed")
  /\ Done
  /\ acceptor' = "check" /\ accepted' = NoConn
  /\ UNCHANGED <<phase, timedOut, signals, running, released, queueClosed,
                 processing>>

(* Mutant: a queued connection is rejected as well. *)
AcceptOfferBoth ==
  /\ acceptor = "offer" /\ ~queueClosed
  /\ connQueue' = IF Len(connQueue) < connQueueSize
                    THEN Append(connQueue, accepted) ELSE connQueue
  /\ Becomes(accepted, "closed") /\ Done
  /\ acceptor' = "check" /\ accepted' = NoConn
  /\ UNCHANGED <<phase, timedOut, signals, running, released, queueClosed,
                 processing>>

(* The pool is full: the queue, or nothing.  A send on a closed channel    *)
(* panics even in a select with a default.                                 *)
AcceptOffer ==
  /\ acceptor = "offer"
  /\ \/ /\ queueClosed
        /\ acceptor' = "panic"
        /\ UNCHANGED <<connQueue, counter, accepted, st>>
     \/ /\ ~queueClosed /\ Len(connQueue) < connQueueSize
        /\ connQueue' = Append(connQueue, accepted)
        /\ Becomes(accepted, "queued") /\ UNCHANGED counter
        /\ acceptor' = "check" /\ accepted' = NoConn
     \/ /\ ~queueClosed /\ Len(connQueue) >= connQueueSize
        /\ Becomes(accepted, "closed") /\ Done
        /\ UNCHANGED connQueue
        /\ acceptor' = "check" /\ accepted' = NoConn
  /\ UNCHANGED <<phase, timedOut, signals, running, released, queueClosed,
                 processing>>

-----------------------------------------------------------------------------
(* processConnectionQueue *)

(* The select takes any ready case.  A closed, empty channel is ready and  *)
(* gives a nil connection.                                                 *)
ProcessSelect ==
  /\ processor = "select"
  /\ \/ cancelled /\ processor' = "drain" /\ UNCHANGED <<connQueue, taken, st>>
     \/ /\ connQueue # <<>>
        /\ connQueue' = Tail(connQueue) /\ taken' = Head(connQueue)
        /\ Becomes(Head(connQueue), "taken")
        /\ processor' = "submit"
     \/ /\ connQueue = <<>> /\ queueClosed /\ nils + unpaired < MaxNil
        /\ processor' = "nil" /\ UNCHANGED <<connQueue, taken, st>>
  /\ UNCHANGED <<phase, timedOut, signals, counter, running, released,
                 queueClosed, accepting, spurious>>

(* Mutant: the failed Submit does not release the counter. *)
ProcessSubmitNoDone ==
  /\ processor = "submit"
  /\ Becomes(taken, IF CanSubmit THEN "handled" ELSE "closed")
  /\ processor' = "select" /\ taken' = NoConn
  /\ UNCHANGED <<phase, timedOut, signals, counter, running, released, queue,
                 accepting, spurious>>

(* Mutant: the failed Submit ends the processor. *)
ProcessSubmitReturns ==
  /\ processor = "submit"
  /\ Becomes(taken, IF CanSubmit THEN "handled" ELSE "closed")
  /\ wg' = IF CanSubmit THEN wg ELSE wg - 2
  /\ processor' = IF CanSubmit THEN "select" ELSE "done"
  /\ taken' = NoConn
  /\ UNCHANGED <<phase, timedOut, signals, crashed, running, released, queue,
                 accepting, spurious>>

(* Submit again; the pool being still full closes the connection. *)
ProcessSubmit ==
  /\ processor = "submit"
  /\ IF CanSubmit THEN Becomes(taken, "handled") /\ UNCHANGED counter
                  ELSE Becomes(taken, "closed") /\ Done
  /\ processor' = "select" /\ taken' = NoConn
  /\ UNCHANGED <<phase, timedOut, signals, running, released, queue,
                 accepting, spurious>>

(* The same with a nil connection: a worker takes it, or closing it panics *)
(* in the processor.                                                       *)
ProcessNil ==
  /\ processor = "nil"
  /\ IF CanSubmit THEN nils' = nils + 1 /\ processor' = "select"
                  ELSE processor' = "panic" /\ UNCHANGED nils
  /\ UNCHANGED <<phase, timedOut, signals, counter, running, released, queue,
                 accepting, taken, unpaired, st>>

(* After cancellation: close what is queued, until the queue is empty. *)
ProcessDrain ==
  /\ processor = "drain"
  /\ \/ /\ connQueue # <<>>
        /\ connQueue' = Tail(connQueue)
        /\ Becomes(Head(connQueue), "closed")
        /\ Done /\ UNCHANGED processor
     \/ /\ connQueue = <<>> /\ ~queueClosed
        /\ processor' = "done"
        /\ Done /\ UNCHANGED <<connQueue, st>>
     \/ /\ connQueue = <<>> /\ queueClosed
        /\ processor' = "panic" /\ UNCHANGED <<connQueue, counter, st>>
  /\ UNCHANGED <<phase, timedOut, signals, running, released, queueClosed,
                 taken, accepting, spurious>>

(* handleConnection ends, by return or by a panic that the pool recovers:  *)
(* the connection is closed and wg.Done called by deferred calls.          *)
HandlerEnds(c) ==
  /\ st[c] = "handled"
  /\ Becomes(c, "closed")
  /\ WorkerDone
  /\ UNCHANGED <<phase, timedOut, signals, running, released, queue,
                 accepting, processing>>

(* The handler of a nil connection panics at once; the pool recovers that, *)
(* and the deferred wg.Done has no wg.Add of its own.                      *)
NilEnds ==
  /\ nils > 0
  /\ nils' = nils - 1 /\ unpaired' = unpaired + 1
  /\ WorkerDone
  /\ UNCHANGED <<phase, timedOut, signals, running, released, queue,
                 accepting, processor, taken, st>>

-----------------------------------------------------------------------------
(* Shutdown *)

SetDraining ==
  /\ phase = "up"
  /\ draining' = TRUE /\ phase' = "cancel"
  /\ UNCHANGED <<timedOut, cancelled, listening, counter, running, released,
                 queue, accepting, processing, st>>

Cancel ==
  /\ phase = "cancel"
  /\ cancelled' = TRUE /\ phase' = "listener"
  /\ UNCHANGED <<timedOut, draining, listening, counter, running, released,
                 queue, accepting, processing, st>>

CloseListener ==
  /\ phase = "listener"
  /\ listening' = FALSE /\ phase' = "wait"
  /\ UNCHANGED <<timedOut, draining, cancelled, counter, running, released,
                 queue, accepting, processing, st>>

(* Mutant: Shutdown waits for the WaitGroup alone. *)
WaitForever ==
  /\ phase = "wait" /\ wg = 0
  /\ timedOut' = FALSE /\ phase' = "queue"
  /\ UNCHANGED <<signals, counter, running, released, queue, accepting,
                 processing, st>>

(* wg.Wait returns, or the shutdown context ends. *)
Wait ==
  /\ phase = "wait"
  /\ \/ wg = 0 /\ timedOut' = FALSE
     \/ timedOut' = TRUE
  /\ phase' = "queue"
  /\ UNCHANGED <<signals, counter, running, released, queue, accepting,
                 processing, st>>

(* grpcManager.Close, then close(connQueue). *)
CloseQueue ==
  /\ phase = "queue"
  /\ queueClosed' = TRUE /\ phase' = "release"
  /\ UNCHANGED <<timedOut, signals, counter, running, released, connQueue,
                 accepting, processing, st>>

(* goroutinePool.Release and the closing of the pools and of Redis; an     *)
(* error of the latter skips the metrics server.                           *)
ReleasePools ==
  /\ phase = "release"
  /\ released' = TRUE /\ phase' \in {"metrics", "failed"}
  /\ UNCHANGED <<timedOut, signals, counter, running, queue, accepting,
                 processing, st>>

ShutdownMetrics ==
  /\ phase = "metrics"
  /\ phase' \in {"done", "failed"}
  /\ UNCHANGED <<timedOut, signals, counter, running, released, queue,
                 accepting, processing, st>>

-----------------------------------------------------------------------------
AcceptLoop == AcceptCheck \/ AcceptError \/ AcceptSubmit \/ AcceptOffer
              \/ \E c \in Clients : Accept(c)
ProcessQueue == ProcessSelect \/ ProcessSubmit \/ ProcessNil \/ ProcessDrain
Shutdown == SetDraining \/ Cancel \/ CloseListener \/ Wait \/ CloseQueue
            \/ ReleasePools \/ ShutdownMetrics

(* A panic outside the goroutine pool ends the process. *)
Panicked == acceptor = "panic" \/ processor = "panic" \/ crashed

Next ==
  /\ ~Panicked
  /\ \/ Start \/ StartFails
     \/ \E x \in Services : ServiceEnds(x)
     \/ MetricsEnds
     \/ AcceptLoop \/ ProcessQueue
     \/ \E c \in Clients : HandlerEnds(c)
     \/ NilEnds
     \/ Shutdown

(* The goroutines run.  Shutdown, once called, goes on: its context ends   *)
(* after GracefulShutdownTimeout.  Nothing makes the operator stop the     *)
(* gateway, a client connect or leave, or the metrics server fail.         *)
Fairness ==
  /\ WF_vars(AcceptCheck \/ AcceptSubmit \/ AcceptOffer)
  /\ WF_vars(AcceptError /\ ~listening)
  /\ WF_vars(ProcessQueue)
  /\ WF_vars(Shutdown /\ phase # "up")
  /\ \A x \in Services : WF_vars(ServiceEnds(x))

Spec == Init /\ [][Next]_vars /\ Fairness

-----------------------------------------------------------------------------
(* Properties *)

With(fate) == {c \in Clients : st[c] = fate}

(* A connection is in one place: accepted, waiting once in connQueue,      *)
(* taken by the processor, or handled; so it is handled at most once and   *)
(* closed by one goroutine.                                                *)
OnePlace ==
  /\ IsInjective(connQueue) /\ Range(connQueue) = With("queued")
  /\ With("accepted") = {accepted} \ {NoConn}
  /\ With("taken") = {taken} \ {NoConn}
  /\ accepted # NoConn <=> acceptor \in {"submit", "offer", "panic"}
  /\ taken # NoConn <=> processor = "submit"

(* Connections between their wg.Add and their wg.Done. *)
Counted == With("queued") \cup With("taken") \cup With("handled")
           \cup {c \in With("accepted") : acceptor # "submit"}
Live(loop) == IF loop \in {"off", "done"} THEN 0 ELSE 1

(* The WaitGroup counts every live goroutine and every connection that was *)
(* submitted or queued, on every path: Submit refused, queue full, drained *)
(* by the processor.  What the handlers of nil connections take off it is  *)
(* all it ever misses, so that until then wg.Wait cannot return early, and *)
(* only what is really alive can hold it up.                               *)
WgAccounts ==
  wg + unpaired
     = Cardinality(running) + Live(acceptor) + Live(processor)
       + Cardinality(Counted)

PastWait == phase \in {"queue", "release", "metrics", "done"}

(* When Shutdown passes its wait without a timeout, no connection and no   *)
(* loop is left that could use the pools it goes on to close.              *)
DoneMeansDrained ==
  PastWait /\ ~timedOut =>
    /\ \A c \in Clients : st[c] \in {"none", "closed"}
    /\ acceptor = "done" /\ processor = "done" /\ running = {}

(* A queued connection does not wait forever: the processor hands it to a  *)
(* handler or closes it, unless the gateway is shut down.                  *)
QueueServed ==
  \A c \in Clients :
    st[c] = "queued" ~> (st[c] \in {"handled", "closed"} \/ cancelled)

(* Shutdown returns, whatever clients and handlers do. *)
ShutdownReturns ==
  phase = "cancel" ~> (phase \in {"done", "failed"} \/ Panicked)

(* Closing connQueue makes the accept loop (a send), the processor (a nil  *)
(* connection) or a goroutine whose wg.Done a nil connection has taken     *)
(* panic only when Shutdown has stopped waiting for them.                  *)
PanicsOnlyAfterTimeout == Panicked => timedOut

=============================================================================
