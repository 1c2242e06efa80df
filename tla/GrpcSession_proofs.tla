------------------------- MODULE GrpcSession_proofs -------------------------
(***************************************************************************)
(* Proofs, for any number of sessions and of receive loops, that the       *)
(* session manager holds only sessions a handler will remove, that the     *)
(* game server hears of a session in order, and that a WebSocket client    *)
(* never gets two messages mixed up.                                       *)
(***************************************************************************)
EXTENDS GrpcSession, TLAPS

(* What the game server was told last follows from where the handler is:   *)
(* this is why a deferred disconnection is never sent for an unannounced   *)
(* session.                                                                *)
Heard ==
  \A s \in Sessions :
    /\ stage[s] \in {"idle", "connect"} => told[s] = "nothing"
    /\ stage[s] = "first" => told[s] = "connect"
    /\ stage[s] \in {"register", "forward", "unregister"} => told[s] = "data"
    /\ stage[s] = "disconnect" => told[s] \in {"connect", "data"}

HandlerInv == RegistryOwned /\ Heard

Points == {"idle", "lookup", "header", "payload", "close", "remove"}
Pieces == Receivers \cup {None, cut, torn}

-----------------------------------------------------------------------------
(* The steps of handlers and of the cleanup *)

(* The type of the variables of handlers and session manager. *)
HandlerTypes ==
  /\ stage \in [Sessions -> Stages]
  /\ open \subseteq Sessions /\ deadline \subseteq open
  /\ registry \subseteq Sessions /\ old \subseteq registry
  /\ reaping \in old \cup {None}
  /\ told \in [Sessions -> {"nothing", "connect", "data", "disconnect"}]

(* The type of the variables of receive loops. *)
ReceiverTypes ==
  /\ pc \in [Receivers -> Points]
  /\ kind \in [Receivers -> {"data", "server_disconnect"}]
  /\ to \in [Receivers -> SUBSET Sessions]
  /\ sess \in [Receivers -> Sessions \cup {None}]
  /\ \A r \in Receivers :
       pc[r] \in {"header", "payload", "close", "remove"} => sess[r] # None

HalfType == half \in [Sessions -> Pieces]

SessionInv ==
  HandlerTypes /\ ReceiverTypes /\ HalfType /\ HandlerInv /\ FramesWhole

(* The steps of one session's handler and of the cleanup at it. *)
OfSession(s) ==
  \/ Arrive(s) \/ Handle(s) \/ Forward(s) \/ ReadFails(s)
  \/ Age(s) \/ CleanupIdle(s) \/ CleanupClose(s)

(* The change of told in one step that ToldInOrder allows. *)
ToldStep ==
  \A s \in Sessions : told'[s] # told[s] =>
     <<told[s], told'[s]>> \in
       {<<"nothing", "connect">>, <<"connect", "data">>,
        <<"connect", "disconnect">>, <<"data", "disconnect">>}

LEMMA InitInv == Init => SessionInv
BY GrpcSessionAssumption DEF Init, SessionInv, HandlerTypes, ReceiverTypes,
   HalfType, HandlerInv, RegistryOwned, Heard, FramesWhole, Stages, Points, Pieces

(* Every step of a handler, and both of the cleanup, keep the handler's    *)
(* part of the invariant and tell the server only what comes next.         *)
LEMMA HandlerStep ==
  ASSUME HandlerTypes, HandlerInv, NEW s \in Sessions,
         OfSession(s)
  PROVE  HandlerTypes' /\ HandlerInv' /\ ToldStep
<1> USE DEF HandlerTypes, HandlerInv, RegistryOwned, Heard, ToldStep, Stages,
            Enter, Tell, handlers, conns, manager, Closed, Delete
<1>1. CASE Arrive(s)
  BY <1>1 DEF Arrive
<1>2. CASE NotifyConnect(s)
  BY <1>2 DEF NotifyConnect
<1>3. CASE SendFirst(s)
  BY <1>3 DEF SendFirst
<1>4. CASE Register(s)
  BY <1>4 DEF Register
<1>5. CASE Unregister(s)
  BY <1>5, GrpcSessionAssumption DEF Unregister, Locked
<1>6. CASE NotifyDisconnect(s)
  BY <1>6 DEF NotifyDisconnect
<1>7. CASE CloseClient(s)
  BY <1>7 DEF CloseClient
<1>8. CASE Forward(s) \/ ReadFails(s)
  BY <1>8 DEF Forward, ReadFails
<1>9. CASE Age(s)
  BY <1>9 DEF Age
<1>10. CASE CleanupIdle(s)
  BY <1>10 DEF CleanupIdle
<1>11. CASE CleanupClose(s)
  BY <1>11 DEF CleanupClose
<1> QED
  BY <1>1, <1>2, <1>3, <1>4, <1>5, <1>6, <1>7, <1>8, <1>9, <1>10, <1>11
     DEF OfSession, Handle

(* They leave the receive loops alone; only the handler's Close touches    *)
(* what the client has got.                                                *)
LEMMA HandlerFrame ==
  ASSUME HalfType, FramesWhole, NEW s \in Sessions,
         OfSession(s)
  PROVE  UNCHANGED receivers /\ HalfType' /\ FramesWhole'
<1>1. CASE CloseClient(s)
  BY <1>1, GrpcSessionAssumption DEF CloseClient, HalfType, Pieces, FramesWhole
<1>2. CASE ~CloseClient(s)
  <2>1. UNCHANGED receivers /\ half' = half
    BY <1>2 DEF OfSession, Arrive, Handle, NotifyConnect, SendFirst, Register,
       Unregister, NotifyDisconnect, Forward, ReadFails, Age, CleanupIdle,
       CleanupClose
  <2> QED
    BY <2>1 DEF HalfType, FramesWhole
<1>3. CloseClient(s) => UNCHANGED receivers
  BY DEF CloseClient
<1> QED
  BY <1>1, <1>2, <1>3

-----------------------------------------------------------------------------
(* The steps of receive loops *)

(* Where a loop stands after a target: at the next one or at its end. *)
LEMMA ProceedStep ==
  ASSUME ReceiverTypes, NEW r \in Receivers, Proceed(r)
  PROVE  /\ pc' \in [Receivers -> Points] /\ pc'[r] \in {"lookup", "idle"}
         /\ \A q \in Receivers \ {r} : pc'[q] = pc[q]
         /\ kind' \in [Receivers -> {"data", "server_disconnect"}]
BY DEF Proceed, Goto, ReceiverTypes, Points

(* A loop that has served a target holds no session. *)
LEMMA ServedStep ==
  ASSUME ReceiverTypes, NEW r \in Receivers, Served(r)
  PROVE  ReceiverTypes'
<1>1. Proceed(r) /\ to' = to /\ sess' = [sess EXCEPT ![r] = None]
  BY DEF Served
<1> QED
  BY <1>1, ProceedStep DEF ReceiverTypes

(* What a client has got after one more piece. *)
LEMMA GotStep ==
  ASSUME HalfType, FramesWhole, NEW s \in Sessions, NEW piece \in Pieces,
         Got(s, piece), s \in WebSockets => piece \in {None, cut}
  PROVE  HalfType' /\ FramesWhole'
BY GrpcSessionAssumption DEF Got, HalfType, FramesWhole, Pieces

(* Every step of a receive loop keeps its own part of the invariant and    *)
(* what clients have got in order.                                         *)
LEMMA ReceiverStep ==
  ASSUME ReceiverTypes, HalfType, FramesWhole, NEW r \in Receivers,
         Receive(r) \/ Deliver(r) \/ ServerDisconnect(r)
  PROVE  ReceiverTypes' /\ HalfType' /\ FramesWhole'
<1>1. CASE Receive(r)
  BY <1>1 DEF Receive, Goto, ReceiverTypes, Points, HalfType, FramesWhole
<1>2. CASE Lookup(r)
  <2>1. PICK s \in to[r] :
          /\ to' = [to EXCEPT ![r] = @ \ {s}]
          /\ \/ /\ s \in registry
                /\ sess' = [sess EXCEPT ![r] = s]
                /\ Goto(r, IF kind[r] = "data" THEN "header" ELSE "close")
                /\ kind' = kind
             \/ s \notin registry /\ sess' = sess /\ Proceed(r)
    BY <1>2 DEF Lookup
  <2>2. s \in Sessions /\ s # None /\ to' \in [Receivers -> SUBSET Sessions]
    BY <2>1, GrpcSessionAssumption DEF ReceiverTypes
  <2>3. HalfType' /\ FramesWhole'
    BY <1>2 DEF Lookup, HalfType, FramesWhole
  <2>4. CASE s \in registry
    BY <2>1, <2>2, <2>3, <2>4 DEF ReceiverTypes, Goto, Points
  <2>5. CASE s \notin registry
    BY <2>1, <2>2, <2>3, <2>5, ProceedStep DEF ReceiverTypes
  <2> QED
    BY <2>4, <2>5
<1>3. CASE WriteFails(r)
  <2>1. sess[r] \in Sessions
    BY <1>3 DEF WriteFails, ReceiverTypes
  <2>2. HalfType' /\ FramesWhole'
    <3>1. CASE Got(sess[r], cut)
      BY <2>1, <3>1, GotStep DEF Pieces
    <3>2. CASE half' = half
      BY <3>2 DEF HalfType, FramesWhole
    <3> QED
      BY <1>3, <3>1, <3>2 DEF WriteFails
  <2> QED
    BY <1>3, <2>2, ServedStep DEF WriteFails
<1>4. CASE WriteWebSocket(r)
  <2>1. sess[r] \in Sessions /\ sess[r] \in WebSockets
    BY <1>4, GrpcSessionAssumption DEF WriteWebSocket
  <2>2. CASE half[sess[r]] = None
    BY <1>4, <2>1, <2>2, GotStep, ServedStep DEF WriteWebSocket, Pieces
  <2>3. CASE half[sess[r]] = cut
    <3>1. half' = half
      BY <1>4, <2>1, <2>3 DEF WriteWebSocket, Got, HalfType
    <3> QED
      BY <1>4, <3>1, ServedStep DEF WriteWebSocket, HalfType, FramesWhole
  <2> QED
    BY <2>1, <2>2, <2>3 DEF FramesWhole
<1>5. CASE WriteHeader(r)
  <2>1. sess[r] \in Sessions /\ sess[r] \notin WebSockets
    BY <1>5 DEF WriteHeader, ReceiverTypes
  <2>2. PICK piece \in Pieces : Got(sess[r], piece)
    BY <1>5 DEF WriteHeader, Pieces
  <2>3. HalfType' /\ FramesWhole'
    BY <2>1, <2>2, GotStep
  <2>4. CASE Served(r)
    BY <2>3, <2>4, ServedStep
  <2>5. CASE Goto(r, "payload") /\ UNCHANGED <<sess, kind, to>>
    BY <1>5, <2>3, <2>5 DEF WriteHeader, Goto, ReceiverTypes, Points
  <2> QED
    BY <1>5, <2>4, <2>5 DEF WriteHeader
<1>6. CASE WritePayload(r)
  <2>1. sess[r] \in Sessions /\ sess[r] \notin WebSockets
    BY <1>6 DEF WritePayload, ReceiverTypes
  <2>2. PICK piece \in Pieces : Got(sess[r], piece)
    BY <1>6 DEF WritePayload, Pieces
  <2> QED
    BY <1>6, <2>1, <2>2, GotStep, ServedStep DEF WritePayload
<1>7. CASE ServerDisconnect(r)
  BY <1>7 DEF ServerDisconnect, Goto, ReceiverTypes, Points, HalfType, FramesWhole
<1>8. CASE RemoveSession(r)
  BY <1>8, ServedStep DEF RemoveSession, HalfType, FramesWhole
<1> QED
  BY <1>1, <1>2, <1>3, <1>4, <1>5, <1>6, <1>7, <1>8 DEF Deliver

(* A receive loop leaves the handlers alone; it may close a connection and *)
(* take a session out of the session manager, never put one in.            *)
LEMMA ReceiverFrame ==
  ASSUME HandlerTypes, HandlerInv, NEW r \in Receivers,
         Receive(r) \/ Deliver(r) \/ ServerDisconnect(r)
  PROVE  HandlerTypes' /\ HandlerInv' /\ ToldStep
<1>1. UNCHANGED handlers
  BY DEF Receive, Deliver, Lookup, WriteFails, WriteWebSocket, WriteHeader,
     WritePayload, ServerDisconnect, RemoveSession
<1>2. open' \subseteq open /\ deadline' \subseteq open'
  BY DEF Receive, Deliver, Lookup, WriteFails, WriteWebSocket, WriteHeader,
     WritePayload, ServerDisconnect, RemoveSession, HandlerTypes, conns, Closed
<1>3. /\ registry' \subseteq registry /\ old' \subseteq registry'
      /\ reaping' \in old' \cup {None}
  <2>1. CASE RemoveSession(r)
    BY <2>1, GrpcSessionAssumption
       DEF RemoveSession, Delete, Locked, HandlerTypes
  <2>2. CASE ~RemoveSession(r)
    <3>1. UNCHANGED manager
      BY <2>2 DEF Receive, Deliver, Lookup, WriteFails, WriteWebSocket,
         WriteHeader, WritePayload, ServerDisconnect
    <3> QED
      BY <3>1 DEF manager, HandlerTypes
  <2> QED
    BY <2>1, <2>2
<1> QED
  BY <1>1, <1>2, <1>3
     DEF handlers, HandlerTypes, HandlerInv, RegistryOwned, Heard, ToldStep

-----------------------------------------------------------------------------
(* The theorems *)

LEMMA SessionStep ==
  ASSUME SessionInv, [Next]_vars
  PROVE  SessionInv' /\ (ToldStep \/ UNCHANGED vars)
<1>1. ASSUME NEW s \in Sessions,
             OfSession(s)
      PROVE  SessionInv' /\ ToldStep
  <2>1. HandlerTypes' /\ HandlerInv' /\ ToldStep
    BY <1>1, HandlerStep DEF SessionInv
  <2>2. UNCHANGED receivers /\ HalfType' /\ FramesWhole'
    BY <1>1, HandlerFrame DEF SessionInv
  <2>3. ReceiverTypes'
    BY <2>2 DEF receivers, SessionInv, ReceiverTypes
  <2> QED
    BY <2>1, <2>2, <2>3 DEF SessionInv
<1>2. ASSUME NEW r \in Receivers, Receive(r) \/ Deliver(r) \/ ServerDisconnect(r)
      PROVE  SessionInv' /\ ToldStep
  BY <1>2, ReceiverStep, ReceiverFrame DEF SessionInv
<1>3. CASE UNCHANGED vars
  BY <1>3 DEF vars, handlers, conns, manager, receivers, SessionInv, HandlerTypes, ReceiverTypes,
     HalfType, HandlerInv, RegistryOwned, Heard, FramesWhole
<1> QED
  BY <1>1, <1>2, <1>3 DEF Next, OfSession

LEMMA SessionInvariant == Spec => []SessionInv
<1>1. SessionInv /\ [Next]_vars => SessionInv'
  BY SessionStep
<1> QED
  BY <1>1, InitInv, PTL DEF Spec

(* However handlers, receive loops, server_disconnects and the cleanup     *)
(* interleave, the session manager holds only sessions whose handler is    *)
(* still going to remove them.                                             *)
THEOREM RegistryOwnedCorrect == Spec => []RegistryOwned
<1>1. SessionInv => RegistryOwned
  BY DEF SessionInv, HandlerInv
<1> QED
  BY <1>1, SessionInvariant, PTL

(* With any number of receive loops writing to it, a WebSocket client gets *)
(* whole messages, but for one cut short by a failed write.                *)
THEOREM FramesWholeCorrect == Spec => []FramesWhole
<1>1. SessionInv => FramesWhole
  BY DEF SessionInv
<1> QED
  BY <1>1, SessionInvariant, PTL

(* The game server is told of a session in order: connect, data, and a     *)
(* disconnect only after a connect that was sent.                          *)
THEOREM ToldInOrderCorrect == Spec => ToldInOrder
<1>1. SessionInv /\ [Next]_vars => [ToldStep]_vars
  BY SessionStep
<1> QED
  BY <1>1, SessionInvariant, PTL DEF Spec, ToldInOrder, ToldStep

(* The variables keep their types; in particular a loop that writes to a   *)
(* client or disconnects it holds a session (the code dereferences it).    *)
THEOREM TypeCorrect == Spec => []TypeOK
<1>1. SessionInv => TypeOK
  BY DEF SessionInv, TypeOK, HandlerTypes, ReceiverTypes, HalfType, Points, Pieces
<1> QED
  BY <1>1, SessionInvariant, PTL

=============================================================================
