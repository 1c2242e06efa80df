----------------------------- MODULE GrpcSession -----------------------------
(***************************************************************************)
(* Sessions over gRPC: handleTCPConnection (with use_grpc on) announces    *)
(* the client to the game server, sends the first packet, registers the    *)
(* session and forwards; the receive loops of the streams deliver what     *)
(* game servers send by handleGrpcPacket (gateway_grpc.go), with the       *)
(* session looked up in one step and used in later ones; CleanupIdle ends  *)
(* sessions whose LastActiveAt is old, and nothing here refreshes it.      *)
(*                                                                         *)
(* The session manager's methods hold the lock of the session's shard, and *)
(* CleanupIdle holds it while it closes connections.  Close of a WebSocket *)
(* client writes a frame first, and only a write deadline bounds how long  *)
(* a write waits for a client that does not read.                          *)
(*                                                                         *)
(* Manager.Send is GrpcManager's; here it succeeds or fails.  A member of  *)
(* Sessions is one session with its handler: IDs are taken to be unique.   *)
(***************************************************************************)
EXTENDS FiniteSets, Naturals

CONSTANTS
  Sessions,
  WebSockets,   \* the sessions whose ClientConn is a WebSocketConn
  Receivers,    \* receive loops, of one backend's streams or of several
  getShard,     \* the shard of each session
  None, cut, torn

ASSUME GrpcSessionAssumption ==
  /\ WebSockets \subseteq Sessions /\ getShard \in [Sessions -> 0..15]
  /\ None \notin Sessions /\ {None, cut, torn} \cap Receivers = {}
  /\ None # cut /\ None # torn /\ cut # torn

VARIABLES
  stage,      \* where each handler stands
  open,       \* sessions whose client connection is open
  deadline,   \* of these, the ones with a write deadline, which stays set
  registry,   \* session manager: the registered sessions
  old,        \* of these, the ones past the idle timeout
  reaping,    \* the session CleanupIdle is at, its shard locked, or None
  told,       \* the last thing sent to the game server about a session
  pc,         \* where each receive loop stands in handleGrpcPacket
  kind, to,   \* its packet: what it is, and the sessions still to serve
  sess,       \* the session it is serving
  half        \* what the client has got of a message: None if only whole
              \* ones, the receiver that has sent a header, cut after a
              \* failed write, torn after pieces of two messages

handlers == <<stage, told>>
conns == <<open, deadline>>
manager == <<registry, old, reaping>>
receivers == <<pc, kind, to, sess>>
vars == <<handlers, conns, manager, receivers, half>>

Stages == {"idle", "connect", "first", "register", "forward", "unregister",
           "disconnect", "close", "done"}

TypeOK ==
  /\ stage \in [Sessions -> Stages]
  /\ open \subseteq Sessions /\ deadline \subseteq open
  /\ registry \subseteq Sessions /\ old \subseteq registry
  /\ reaping \in old \cup {None}
  /\ told \in [Sessions -> {"nothing", "connect", "data", "disconnect"}]
  /\ pc \in [Receivers -> {"idle", "lookup", "header", "payload", "close", "remove"}]
  /\ kind \in [Receivers -> {"data", "server_disconnect"}]
  /\ to \in [Receivers -> SUBSET Sessions]
  /\ sess \in [Receivers -> Sessions \cup {None}]
  /\ half \in [Sessions -> Receivers \cup {None, cut, torn}]
  /\ \A r \in Receivers :
       pc[r] \in {"header", "payload", "close", "remove"} => sess[r] # None

Init ==
  /\ stage = [s \in Sessions |-> "idle"]
  /\ open = {} /\ deadline = {}
  /\ registry = {} /\ old = {} /\ reaping = None
  /\ told = [s \in Sessions |-> "nothing"]
  /\ pc = [r \in Receivers |-> "idle"]
  /\ kind = [r \in Receivers |-> "data"]
  /\ to = [r \in Receivers |-> {}]
  /\ sess = [r \in Receivers |-> None]
  /\ half = [s \in Sessions |-> None]

Enter(s, st) == stage' = [stage EXCEPT ![s] = st]
Tell(s, what) == told' = [told EXCEPT ![s] = what]
Goto(r, point) == pc' = [pc EXCEPT ![r] = point]

(* CleanupIdle holds the lock of the session's shard. *)
Locked(s) == reaping # None /\ getShard[reaping] = getShard[s]

Delete(s) == registry' = registry \ {s} /\ old' = old \ {s}

(* Close waits for the client to read only where it writes a frame, that   *)
(* is on an open WebSocket connection, and then no longer than a deadline. *)
MayWait(s) == s \in (WebSockets \cap open) \ deadline

(* ClientConn.Close returns. *)
Closed(s) == open' = open \ {s} /\ deadline' = deadline \ {s}

-----------------------------------------------------------------------------
(* handleTCPConnection and forwardGrpcConnection *)

(* A client whose first packet was read, routed and let through by the     *)
(* breaker.                                                                *)
Arrive(s) ==
  /\ stage[s] = "idle"
  /\ Enter(s, "connect")
  /\ open' = open \cup {s}
  /\ UNCHANGED <<told, deadline, manager, receivers, half>>

(* Mutant: the deferred notification is set up before the first one. *)
NotifyConnectDeferred(s) ==
  /\ stage[s] = "connect"
  /\ \/ Enter(s, "first") /\ Tell(s, "connect")
     \/ Enter(s, "disconnect") /\ told' = told
  /\ UNCHANGED <<conns, manager, receivers, half>>

(* notifyBackendClientConnect; if it fails the handler is left before the  *)
(* disconnection is deferred.                                              *)
NotifyConnect(s) ==
  /\ stage[s] = "connect"
  /\ \/ Enter(s, "first") /\ Tell(s, "connect")
     \/ Enter(s, "close") /\ told' = told
  /\ UNCHANGED <<conns, manager, receivers, half>>

SendFirst(s) ==
  /\ stage[s] = "first"
  /\ \/ Enter(s, "register") /\ Tell(s, "data")
     \/ Enter(s, "disconnect") /\ told' = told
  /\ UNCHANGED <<conns, manager, receivers, half>>

(* sessionManager.Add: from here on packets find the client. *)
Register(s) ==
  /\ stage[s] = "register" /\ ~Locked(s)
  /\ registry' = registry \cup {s}
  /\ Enter(s, "forward")
  /\ UNCHANGED <<told, conns, old, reaping, receivers, half>>

(* A packet was read, possibly from the buffer of a closed connection, and *)
(* sent; the loop ends if that fails.                                      *)
Forward(s) ==
  /\ stage[s] = "forward"
  /\ stage' = stage \/ Enter(s, "unregister")
  /\ UNCHANGED <<told, conns, manager, receivers, half>>

(* ReadFullPacket fails: the client has left, or the connection has been   *)
(* closed here.                                                            *)
ReadFails(s) ==
  /\ stage[s] = "forward"
  /\ Enter(s, "unregister")
  /\ UNCHANGED <<told, conns, manager, receivers, half>>

(* Mutant: the session stays registered. *)
UnregisterNot(s) ==
  /\ stage[s] = "unregister"
  /\ Enter(s, "disconnect")
  /\ UNCHANGED <<told, conns, manager, receivers, half>>

(* The two deferred Removes: the second finds nothing. *)
Unregister(s) ==
  /\ stage[s] = "unregister" /\ ~Locked(s)
  /\ Delete(s)
  /\ Enter(s, "disconnect")
  /\ UNCHANGED <<told, conns, reaping, receivers, half>>

(* notifyBackendClientDisconnect: a failure is only logged. *)
NotifyDisconnect(s) ==
  /\ stage[s] = "disconnect"
  /\ Tell(s, "disconnect") \/ told' = told
  /\ Enter(s, "close")
  /\ UNCHANGED <<conns, manager, receivers, half>>

(* handleConnection's deferred Close, of the connection under the frames:  *)
(* it writes nothing.                                                      *)
CloseClient(s) ==
  /\ stage[s] = "close"
  /\ Closed(s)
  /\ half' = [half EXCEPT ![s] = None]
  /\ Enter(s, "done")
  /\ UNCHANGED <<told, manager, receivers>>

Handle(s) ==
  \/ NotifyConnect(s) \/ SendFirst(s) \/ Register(s) \/ Unregister(s)
  \/ NotifyDisconnect(s) \/ CloseClient(s)

-----------------------------------------------------------------------------
(* The session manager's cleanup *)

Age(s) ==
  /\ s \in registry \ old
  /\ old' = old \cup {s}
  /\ UNCHANGED <<handlers, conns, registry, reaping, receivers, half>>

(* CleanupIdle closes and deletes under the shard's lock, in one step if   *)
(* Close cannot wait, and else with the shard locked meanwhile.            *)
CleanupIdle(s) ==
  /\ reaping = None /\ s \in old
  /\ IF MayWait(s) THEN reaping' = s /\ UNCHANGED <<conns, registry, old>>
                   ELSE Closed(s) /\ Delete(s) /\ UNCHANGED reaping
  /\ UNCHANGED <<handlers, receivers, half>>

CleanupClose(s) ==
  /\ reaping = s
  /\ Closed(s) /\ Delete(s)
  /\ reaping' = None
  /\ UNCHANGED <<handlers, receivers, half>>

-----------------------------------------------------------------------------
(* handleGrpcPacket *)

(* A packet for sessions the game server has heard of, one or, with        *)
(* TargetSessionIds, several; server_connect and pong change nothing.      *)
Receive(r) ==
  /\ pc[r] = "idle"
  /\ \E k \in {"data", "server_disconnect"},
        S \in SUBSET {s \in Sessions : told[s] # "nothing"} :
       /\ S # {} /\ (k = "server_disconnect" => Cardinality(S) = 1)
       /\ kind' = [kind EXCEPT ![r] = k]
       /\ to' = [to EXCEPT ![r] = S]
  /\ Goto(r, "lookup")
  /\ UNCHANGED <<handlers, conns, manager, sess, half>>

(* The loop over the targets goes on, or handleGrpcPacket returns. *)
Proceed(r) ==
  IF to'[r] # {} THEN Goto(r, "lookup") /\ kind' = kind
                 ELSE Goto(r, "idle") /\ kind' = [kind EXCEPT ![r] = "data"]

(* sessionManager.Get: unknown sessions are skipped.  Before it writes,    *)
(* sendToSession sets a write deadline.                                    *)
Lookup(r) ==
  /\ pc[r] = "lookup"
  /\ \E s \in to[r] :
       /\ ~Locked(s)
       /\ to' = [to EXCEPT ![r] = @ \ {s}]
       /\ IF s \in registry
            THEN /\ sess' = [sess EXCEPT ![r] = s]
                 /\ Goto(r, IF kind[r] = "data" THEN "header" ELSE "close")
                 /\ deadline' = IF kind[r] = "data" THEN deadline \cup ({s} \cap open)
                                                   ELSE deadline
                 /\ kind' = kind
            ELSE sess' = sess /\ deadline' = deadline /\ Proceed(r)
  /\ UNCHANGED <<handlers, open, manager, half>>

(* sendToSession or handleServerDisconnect returns. *)
Served(r) ==
  /\ to' = to
  /\ sess' = [sess EXCEPT ![r] = None]
  /\ Proceed(r)

Got(s, piece) == half' = [half EXCEPT ![s] = IF @ \in {cut, torn} THEN @ ELSE piece]

(* A failed write is only logged.  On a closed connection nothing is       *)
(* written; when the deadline passes, a part may have been.                *)
WriteFails(r) ==
  /\ pc[r] \in {"header", "payload"}
  /\ IF sess[r] \in open THEN Got(sess[r], cut) ELSE half' = half
  /\ Served(r)
  /\ UNCHANGED <<handlers, conns, manager>>

(* Mutant: header and payload are two frames. *)
WriteWebSocketTwice(r) ==
  LET s == sess[r]
  IN /\ pc[r] \in {"header", "payload"} /\ s \in WebSockets \cap open
     /\ IF pc[r] = "header"
          THEN /\ Got(s, IF half[s] = None THEN r ELSE torn)
               /\ Goto(r, "payload") /\ UNCHANGED <<sess, kind, to>>
          ELSE Got(s, IF half[s] = r THEN None ELSE torn) /\ Served(r)
     /\ UNCHANGED <<handlers, conns, manager>>

(* Header and payload in one binary frame. *)
WriteWebSocket(r) ==
  LET s == sess[r]
  IN /\ pc[r] = "header" /\ s \in WebSockets \cap open
     /\ Got(s, IF half[s] = None THEN None ELSE torn)
     /\ Served(r)
     /\ UNCHANGED <<handlers, conns, manager>>

(* TCP: WriteClientMessageHeader, which is all if the payload is empty ... *)
WriteHeader(r) ==
  LET s == sess[r]
  IN /\ pc[r] = "header" /\ s \in open \ WebSockets
     /\ \/ Got(s, IF half[s] = None THEN None ELSE torn) /\ Served(r)
        \/ /\ Got(s, IF half[s] = None THEN r ELSE torn)
           /\ Goto(r, "payload") /\ UNCHANGED <<sess, kind, to>>
     /\ UNCHANGED <<handlers, conns, manager>>

(* ... and the payload, in a write of its own. *)
WritePayload(r) ==
  LET s == sess[r]
  IN /\ pc[r] = "payload" /\ s \in open \ WebSockets
     /\ Got(s, IF half[s] = r THEN None ELSE torn)
     /\ Served(r)
     /\ UNCHANGED <<handlers, conns, manager>>

(* Mutant: the client's connection is not closed. *)
ServerDisconnectNoClose(r) ==
  /\ pc[r] = "close"
  /\ Goto(r, "remove")
  /\ UNCHANGED <<handlers, conns, manager, kind, to, sess, half>>

(* handleServerDisconnect closes the client's connection ... *)
ServerDisconnect(r) ==
  /\ pc[r] = "close"
  /\ Closed(sess[r])
  /\ Goto(r, "remove")
  /\ UNCHANGED <<handlers, manager, kind, to, sess, half>>

(* ... and removes the session by its ID. *)
RemoveSession(r) ==
  /\ pc[r] = "remove" /\ ~Locked(sess[r])
  /\ Delete(sess[r])
  /\ Served(r)
  /\ UNCHANGED <<handlers, conns, reaping, half>>

Deliver(r) ==
  \/ Lookup(r) \/ WriteFails(r)
  \/ WriteWebSocket(r) \/ WriteHeader(r) \/ WritePayload(r)
  \/ RemoveSession(r)

Next ==
  \/ \E s \in Sessions :
       \/ Arrive(s) \/ Handle(s) \/ Forward(s) \/ ReadFails(s)
       \/ Age(s) \/ CleanupIdle(s) \/ CleanupClose(s)
  \/ \E r \in Receivers : Receive(r) \/ Deliver(r) \/ ServerDisconnect(r)

(* Handlers and receive loops run on: Send returns (GrpcManager), a write  *)
(* of sendToSession has a deadline, and a shard's lock is free again once  *)
(* the cleanup leaves it.  A read of a connection closed here fails, and   *)
(* the cleanup's ticker fires.  A Close that may wait need not return;     *)
(* clients need not come, speak, read or leave.                            *)
Fairness ==
  /\ \A s \in Sessions :
       /\ WF_vars(Handle(s)) /\ WF_vars(ReadFails(s) /\ s \notin open)
       /\ WF_vars(CleanupIdle(s)) /\ WF_vars(CleanupClose(s) /\ ~MayWait(s))
  /\ \A r \in Receivers :
       /\ WF_vars(Deliver(r))
       /\ WF_vars(ServerDisconnect(r) /\ ~MayWait(sess[r]))

Spec == Init /\ [][Next]_vars /\ Fairness

-----------------------------------------------------------------------------
(* Properties *)

(* The session manager holds only sessions whose handler will still remove *)
(* them, also when the cleanup or a server_disconnect has done so before.  *)
RegistryOwned == \A s \in registry : stage[s] \in {"forward", "unregister"}

(* The game server hears of a session in order: a connect, data, and a     *)
(* disconnect only for a session it was told of, as the last thing.        *)
ToldInOrder ==
  [][\A s \in Sessions : told'[s] # told[s] =>
       <<told[s], told'[s]>> \in
         {<<"nothing", "connect">>, <<"connect", "data">>,
          <<"connect", "disconnect">>, <<"data", "disconnect">>}]_vars

(* Somebody is in Close of a connection where it may wait. *)
CloseWaits(s) ==
  /\ MayWait(s)
  /\ reaping = s \/ \E r \in Receivers : sess[r] = s /\ pc[r] = "close"

(* A session ends once a server_disconnect has found it registered, or     *)
(* once it is past the idle timeout: the handler, blocked in a read that   *)
(* no deadline ends, is woken by the close, leaves and notifies.  This is  *)
(* claimed while no Close waits for ever for a WebSocket client to which   *)
(* nothing was ever sent and which does not read: that one would keep its  *)
(* shard locked, and hold up the cleanup or a receive loop.                *)
SessionsEnd ==
  (\A s \in WebSockets : []<>~CloseWaits(s)) =>
    \A s \in Sessions :
      (s \in old \/ \E r \in Receivers : sess[r] = s /\ pc[r] = "close")
        ~> stage[s] = "done"

(* A WebSocket client gets pieces of two messages mixed up only after a    *)
(* write that failed half way, however many receive loops serve it.        *)
FramesWhole == \A s \in WebSockets : half[s] \in {None, cut}

(* "Full client message: [ClientMessageHeader (8 bytes)] + [Message Data]" *)
(* for every client, TCP ones too.                                         *)
WholeMessages == \A s \in Sessions : half[s] # torn

=============================================================================
