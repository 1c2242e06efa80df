----------------------------- MODULE TcpSession -----------------------------
(***************************************************************************)
(* TCP sessions on top of the pool: handleTCPConnection (with use_grpc     *)
(* off) borrows a backend connection, registers the session, forwards in   *)
(* both directions and returns the connection; forwardConnection runs the  *)
(* client-to-backend direction in a goroutine nobody waits for; the        *)
(* session manager's CleanupIdle closes the connections of idle sessions.  *)
(* A member of Sessions is a handler together with that goroutine, and is  *)
(* used again once both have ended.                                        *)
(***************************************************************************)
EXTENDS ConnPool

VARIABLES
  stage,     \* where each handler stands outside the pool
  registry,  \* session manager: the BackendConn of a registered session
  copier,    \* BackendConn of the running client-to-backend goroutine
  clients    \* sessions whose ClientConn is open

handlers == <<stage, registry, copier, clients>>
poolVars == vars
allVars == <<vars, handlers>>

Stages == {"idle", "connect", "forward", "cancelled", "unregister", "return"}

SessionTypeOK ==
  /\ TypeOK
  /\ stage \in [Sessions -> Stages]
  /\ registry \in [Sessions -> Conns \cup {None}]
  /\ copier \in [Sessions -> Conns \cup {None}]
  /\ clients \subseteq Sessions
  /\ \A s \in Sessions :
       /\ stage[s] \in {"forward", "cancelled", "unregister", "return"}
            => pc[s] = "using"
       /\ copier[s] # None /\ stage[s] = "forward" => copier[s] = conn[s]

SessionInit ==
  /\ Init
  /\ stage = [s \in Sessions |-> "idle"]
  /\ registry = [s \in Sessions |-> None]
  /\ copier = [s \in Sessions |-> None]
  /\ clients = {}

Enter(s, st) == stage' = [stage EXCEPT ![s] = st]

-----------------------------------------------------------------------------
(* handleTCPConnection *)

(* A client whose first packet was read, routed and let through by the     *)
(* breaker; before that nothing here changes.                              *)
Arrive(s) ==
  /\ stage[s] = "idle" /\ At(s, "out") /\ copier[s] = None
  /\ Enter(s, "connect")
  /\ clients' = clients \cup {s}
  /\ UNCHANGED <<poolVars, registry, copier>>

(* An attempt of retry.Do: GetConnection looks the pool up.  *)
Connect(s) ==
  /\ stage[s] = "connect" /\ At(s, "out")
  /\ GetPool(s)
  /\ UNCHANGED handlers

(* A dialled connection is a new object, whatever goroutine has an old one. *)
Dial(s) ==
  /\ \E c \in Conns \ Range(copier) : DialOk(s, c)
  /\ UNCHANGED handlers

GetStep(s) ==
  /\ GetIdle(s) \/ GetReused(s) \/ GetExpired(s) \/ GetLimit(s) \/ DialFail(s)
  /\ UNCHANGED handlers

(* Every attempt failed: the handler returns and closes the client. *)
GiveUp(s) ==
  /\ stage[s] = "connect" /\ At(s, "out")
  /\ Enter(s, "idle")
  /\ clients' = clients \ {s}
  /\ UNCHANGED <<poolVars, registry, copier>>

(* The first message is written to the backend and the session registered; *)
(* forwardConnection starts the client-to-backend goroutine.               *)
Forward(s) ==
  /\ stage[s] = "connect" /\ At(s, "using") /\ conn[s] \in open
  /\ registry' = [registry EXCEPT ![s] = conn[s]]
  /\ copier' = [copier EXCEPT ![s] = conn[s]]
  /\ Enter(s, "forward")
  /\ UNCHANGED <<poolVars, clients>>

(* The write fails: the connection goes back to the pool. *)
FirstWriteFails(s) ==
  /\ stage[s] = "connect" /\ At(s, "using")
  /\ Enter(s, "return")
  /\ UNCHANGED <<poolVars, registry, copier, clients>>

(* Backend to client: the loop ends on ctx.Done, on an error or a timeout  *)
(* of the backend or on a failed write, and ClientConn is closed.          *)
ForwardEnds(s) ==
  /\ stage[s] \in {"forward", "cancelled"}
  /\ Enter(s, "unregister")
  /\ clients' = clients \ {s}
  /\ UNCHANGED <<poolVars, registry, copier>>


(* Client to backend: on any error the goroutine closes BackendConn and    *)
(* cancels the context of the other direction.                             *)
CopierEnds(s) ==
  /\ copier[s] # None
  /\ open' = open \ {copier[s]}
  /\ copier' = [copier EXCEPT ![s] = None]
  /\ stage' = IF stage[s] = "forward" THEN [stage EXCEPT ![s] = "cancelled"]
                                      ELSE stage
  /\ UNCHANGED <<idleConns, activeConns, activeCount, mu, old, callers,
                 sweep, closing, registry, clients>>

(* Mutant: the connection is returned first, the session removed later. *)
UnregisterLater(s) ==
  /\ stage[s] = "unregister"
  /\ Enter(s, "return")
  /\ UNCHANGED <<poolVars, registry, copier, clients>>

(* The deferred calls run last in, first out: sessionManager.Remove ...    *)
Unregister(s) ==
  /\ stage[s] = "unregister"
  /\ registry' = [registry EXCEPT ![s] = None]
  /\ Enter(s, "return")
  /\ UNCHANGED <<poolVars, copier, clients>>

(* Mutant: the deferred function ends without PutConnection. *)
ReturnForgets(s) ==
  /\ stage[s] = "return"
  /\ Have(s, None) /\ Goto(s, "out")
  /\ Enter(s, "idle")
  /\ clients' = clients \ {s}
  /\ UNCHANGED <<idleConns, activeConns, activeCount, mu, open, old, sweep,
                 closing, registry, copier>>

(* ... then PutConnection, which looks the pool up; handleConnection       *)
(* closes the client connection.                                           *)
Return(s) ==
  /\ stage[s] = "return"
  /\ GetPool(s) \/ PutElsewhere(s)
  /\ Enter(s, "idle")
  /\ clients' = clients \ {s}
  /\ UNCHANGED <<registry, copier>>

PutStep(s) == Put(s) /\ UNCHANGED handlers

(* A panic after the connection was got: the session is removed, the       *)
(* recovered panic raised again before PutConnection, and ended by the     *)
(* recovery of the worker pool.                                            *)
Panic(s) ==
  /\ stage[s] \in {"connect", "forward", "cancelled"} /\ At(s, "using")
  /\ registry' = [registry EXCEPT ![s] = None]
  /\ clients' = clients \ {s}
  /\ Enter(s, "idle")
  /\ Have(s, None) /\ Goto(s, "out")
  /\ UNCHANGED <<idleConns, activeConns, activeCount, mu, open, old, sweep,
                 closing, copier>>

-----------------------------------------------------------------------------
(* CleanupIdle: a session that has been idle for long is closed. *)
Reap(s) ==
  /\ registry[s] # None
  /\ open' = open \ {registry[s]}
  /\ clients' = clients \ {s}
  /\ registry' = [registry EXCEPT ![s] = None]
  /\ UNCHANGED <<idleConns, activeConns, activeCount, mu, old, callers,
                 sweep, closing, stage, copier>>

(* The pool's own goroutines, and time. *)
PoolStep ==
  /\ CleanupLock \/ Cleanup \/ Close \/ \E c \in Conns : Age(c)
  /\ UNCHANGED handlers

Handle(s) ==
  \/ Arrive(s) \/ Connect(s) \/ Dial(s) \/ GetStep(s) \/ GiveUp(s)
  \/ Forward(s) \/ FirstWriteFails(s) \/ ForwardEnds(s) \/ CopierEnds(s)
  \/ Unregister(s) \/ Return(s) \/ PutStep(s) \/ Panic(s)

SessionNext == PoolStep \/ \E s \in Sessions : Handle(s) \/ Reap(s)

(* Calls on the pool are fair as in ConnPool.  A handler's local steps are *)
(* taken; its loop ends once the context is cancelled or the connection    *)
(* closed, and the goroutine's once ClientConn is closed, because its read *)
(* then fails.  A call of Close, once begun, goes on.                      *)
HandlerFairness ==
  /\ \A s \in Sessions :
       /\ WF_allVars(\/ ForwardEnds(s) /\ (stage[s] = "cancelled"
                                            \/ conn[s] \notin open)
                     \/ Unregister(s) \/ Return(s))
       /\ WF_allVars(CopierEnds(s) /\ s \notin clients)
  /\ SF_allVars((CloseIdle \/ CloseReset) /\ UNCHANGED handlers)

SessionSpec == SessionInit /\ [][SessionNext]_allVars
               /\ Fairness /\ HandlerFairness

-----------------------------------------------------------------------------
(* Properties *)

(* What CleanupIdle would close is lent to the very session it reaps: a    *)
(* registered BackendConn is held by its session and nobody else, and is   *)
(* not in the pool.  It rests on the order of the deferred calls, Remove   *)
(* before PutConnection, and on SoleOwner of the pool.                     *)
RegisteredOwns ==
  \A s \in Sessions : registry[s] # None =>
    /\ registry[s] = conn[s] /\ pc[s] = "using"
    /\ registry[s] \notin Range(idleConns)
    /\ \A t \in Sessions \ {s} : conn[t] # registry[s]

(* The pool's books under sessions that may panic: until Close, what is    *)
(* lent out is among activeConns, and activeCount, which the limit of Get  *)
(* relies on, is the size of activeConns.                                  *)
SlotsCounted ==
  closing = "open" =>
    Lent \subseteq activeConns /\ activeCount = Cardinality(activeConns)

(* Places of the pool taken by connections nobody has borrowed. *)
Lost == activeConns \ Lent

(* Until Close, a place is lost in one way only, to a handler that panics  *)
(* and so ends without PutConnection; and then exactly the place of the    *)
(* connection it had.  No place is ever won back.                          *)
PlacesLost ==
  [][closing' = "open" =>
       \/ Lost' = Lost
       \/ \E s \in Sessions : Panic(s) /\ Lost' = Lost \cup {conn[s]}]_allVars


(* "Check if connection is still valid": a connection Get takes from the   *)
(* idle channel and lends out is open, until Close.                        *)
GetLendsOpen ==
  [][\A s \in Sessions :
       pc[s] = "mark" /\ pc'[s] = "using" /\ closing = "open"
         => conn[s] \in open]_allVars

=============================================================================
