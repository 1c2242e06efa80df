---------------------------- MODULE GrpcManager ----------------------------
(***************************************************************************)
(* The gRPC transport manager (internal/transport/grpc/manager.go) for one *)
(* backend address: goroutines that call Send, the receive loop of every   *)
(* stream, the reconnect goroutines that a lost stream starts, and Close.  *)
(* Each operation on the sync.Map is a step; closing a client that has     *)
(* just left the map, or never entered it, belongs to that step, since     *)
(* others that still have it can only see its stream fail.                 *)
(***************************************************************************)
EXTENDS Naturals

CONSTANTS
  Senders,               \* goroutines that call Send
  Reconnectors,          \* bound: reconnect goroutines alive at once
  Clients,               \* Client objects
  None,
  maxRetries,            \* attempts of getClient
  maxReconnectAttempts   \* Manager.maxReconnectAttempts; 0 is no limit

Actors == Senders \cup Reconnectors

ASSUME ManagerAssumption ==
  /\ None \notin Clients /\ Senders \cap Reconnectors = {}
  /\ maxRetries \in Nat \ {0} /\ maxReconnectAttempts \in Nat

VARIABLES
  stored,     \* Manager.clients at the address
  conns,      \* clients whose ClientConn is open
  streams,    \* clients whose stream works
  recv,       \* the receive loop of each client
  attempts,   \* reconnectAttempts of the stored client (0 while there is
              \* none), counted up to maxReconnectAttempts
  pc,         \* where each sender and reconnect goroutine stands
  mine,       \* the client it has got or made
  tries,      \* failed attempts of its getClient
  serverUp,   \* whether the game server accepts streams
  closing,    \* progress of Close
  doomed      \* clientsToClose

table == <<stored, conns, streams, recv, attempts>>
calls == <<pc, mine, tries>>
shutdown == <<closing, doomed>>
vars == <<table, calls, serverUp, shutdown>>

Points == {"idle", "load", "dial", "store", "send", "delete",
           "check", "limit", "wait", "failed", "connected"}

TypeOK ==
  /\ stored \in Clients \cup {None}
  /\ conns \subseteq Clients /\ streams \subseteq Clients
  /\ recv \in [Clients -> {"off", "receive", "delete"}]
  /\ attempts \in 0..maxReconnectAttempts
  /\ pc \in [Actors -> Points]
  /\ mine \in [Actors -> Clients \cup {None}]
  /\ \A g \in Actors :
       mine[g] # None <=> pc[g] \in {"store", "send", "delete"}
  /\ tries \in [Actors -> 0..(maxRetries - 1)]
  /\ serverUp \in BOOLEAN
  /\ closing \in {"open", "collect", "close", "clear", "done"}
  /\ doomed \subseteq Clients

(* NewManager. *)
Init ==
  /\ stored = None /\ conns = {} /\ streams = {} /\ doomed = {}
  /\ recv = [c \in Clients |-> "off"]
  /\ attempts = 0
  /\ pc = [g \in Actors |-> "idle"]
  /\ mine = [g \in Actors |-> None]
  /\ tries = [g \in Actors |-> 0]
  /\ serverUp = TRUE /\ closing = "open"

(* Manager.ctx is cancelled: the first thing Close does. *)
stopped == closing # "open"

Goto(g, p) == pc' = [pc EXCEPT ![g] = p]
Have(g, c) == mine' = [mine EXCEPT ![g] = c]

(* getClient returns c: Send writes to it, reconnect only wants it made.   *)
Got(g, c) ==
  IF g \in Senders THEN Goto(g, "send") /\ Have(g, c)
                   ELSE Goto(g, "connected") /\ Have(g, None)

-----------------------------------------------------------------------------
(* getClient *)

CallSend(g) ==
  /\ g \in Senders /\ pc[g] = "idle"
  /\ Goto(g, "load")
  /\ UNCHANGED <<table, mine, tries, serverUp, shutdown>>

Load(g) ==
  /\ pc[g] = "load"
  /\ IF stored # None THEN Got(g, stored)
                      ELSE Goto(g, "dial") /\ UNCHANGED mine
  /\ UNCHANGED <<table, tries, serverUp, shutdown>>

(* An object nobody refers to any more. *)
Fresh(c) ==
  /\ c \notin conns /\ c # stored /\ recv[c] = "off"
  /\ \A g \in Actors : mine[g] # c

(* A connection with a stream, and its receive loop is started, before the *)
(* client is in the map.  The stream's context is a child of Manager.ctx.  *)
DialOk(g) ==
  /\ pc[g] = "dial" /\ serverUp /\ ~stopped
  /\ \E c \in Clients :
       /\ Fresh(c)
       /\ conns' = conns \cup {c}
       /\ streams' = streams \cup {c}
       /\ recv' = [recv EXCEPT ![c] = "receive"]
       /\ Have(g, c)
  /\ Goto(g, "store")
  /\ tries' = [tries EXCEPT ![g] = 0]
  /\ UNCHANGED <<stored, attempts, serverUp, shutdown>>

(* The attempt fails and leaves nothing open; after the last one getClient *)
(* returns the error.                                                      *)
DialFail(g) ==
  /\ pc[g] = "dial" /\ (~serverUp \/ stopped)
  /\ IF tries[g] + 1 < maxRetries
       THEN tries' = [tries EXCEPT ![g] = @ + 1] /\ UNCHANGED pc
       ELSE /\ Goto(g, IF g \in Senders THEN "idle" ELSE "failed")
            /\ tries' = [tries EXCEPT ![g] = 0]
  /\ UNCHANGED <<table, mine, serverUp, shutdown>>

(* Mutant: the client that came second is not closed. *)
LoadOrStoreLeaks(g) ==
  /\ pc[g] = "store"
  /\ stored' = IF stored = None THEN mine[g] ELSE stored
  /\ Got(g, stored')
  /\ UNCHANGED <<conns, streams, recv, attempts, tries, serverUp, shutdown>>

(* LoadOrStore: the client enters the map, or another goroutine was first  *)
(* and this one's connection is closed.                                    *)
LoadOrStore(g) ==
  /\ pc[g] = "store"
  /\ IF stored = None
       THEN stored' = mine[g] /\ UNCHANGED <<conns, streams>>
       ELSE /\ conns' = conns \ {mine[g]}
            /\ streams' = streams \ {mine[g]}
            /\ UNCHANGED stored
  /\ Got(g, stored')
  /\ UNCHANGED <<recv, attempts, tries, serverUp, shutdown>>

-----------------------------------------------------------------------------
(* Send *)

SendOk(g) ==
  /\ pc[g] = "send" /\ mine[g] \in streams
  /\ Goto(g, "idle") /\ Have(g, None)
  /\ UNCHANGED <<table, tries, serverUp, shutdown>>

(* stream.Send fails on a broken stream; an error of its own aborts it.    *)
SendFail(g) ==
  /\ pc[g] = "send"
  /\ streams' = streams \ {mine[g]}
  /\ Goto(g, "delete")
  /\ UNCHANGED <<stored, conns, recv, attempts, mine, tries, serverUp,
                 shutdown>>

(* What follows a CompareAndDelete that succeeded: close and cancel. *)
Drop(c) ==
  /\ stored' = None /\ attempts' = 0
  /\ conns' = conns \ {c}
  /\ streams' = streams \ {c}

(* CompareAndDelete, and `go m.reconnect` if it succeeds. *)
SendDelete(g) ==
  /\ pc[g] = "delete"
  /\ IF stored = mine[g]
       THEN /\ Drop(mine[g])
            /\ \E r \in Reconnectors :
                 /\ pc[r] = "idle"
                 /\ pc' = [pc EXCEPT ![g] = "idle", ![r] = "check"]
       ELSE Goto(g, "idle") /\ UNCHANGED <<stored, attempts, conns, streams>>
  /\ Have(g, None)
  /\ UNCHANGED <<recv, tries, serverUp, shutdown>>

-----------------------------------------------------------------------------
(* recvLoop *)

(* Recv fails; the deferred function looks whether its client is stored.   *)
(* Packets before that go to the handler, whose panics are recovered.      *)
RecvEnds(c) ==
  /\ recv[c] = "receive" /\ c \notin streams
  /\ recv' = [recv EXCEPT ![c] = IF stored = c THEN "delete" ELSE "off"]
  /\ UNCHANGED <<stored, conns, streams, attempts, calls, serverUp, shutdown>>

(* Mutant: Delete in place of CompareAndDelete. *)
RecvDeleteAny(c) ==
  /\ recv[c] = "delete"
  /\ recv' = [recv EXCEPT ![c] = "off"]
  /\ Drop(c)
  /\ \E r \in Reconnectors : pc[r] = "idle" /\ Goto(r, "check")
  /\ UNCHANGED <<mine, tries, serverUp, shutdown>>

RecvDelete(c) ==
  /\ recv[c] = "delete"
  /\ recv' = [recv EXCEPT ![c] = "off"]
  /\ IF stored = c
       THEN /\ Drop(c)
            /\ \E r \in Reconnectors : pc[r] = "idle" /\ Goto(r, "check")
       ELSE UNCHANGED <<stored, attempts, conns, streams, pc>>
  /\ UNCHANGED <<mine, tries, serverUp, shutdown>>

-----------------------------------------------------------------------------
(* reconnect *)

Check(g) ==
  /\ pc[g] = "check"
  /\ Goto(g, IF stored # None THEN "idle" ELSE "limit")
  /\ UNCHANGED <<table, mine, tries, serverUp, shutdown>>

(* A second Load: only a client stored since the first has attempts to     *)
(* compare with the maximum.                                               *)
Limit(g) ==
  /\ pc[g] = "limit"
  /\ Goto(g, IF stored # None /\ maxReconnectAttempts > 0
                  /\ attempts >= maxReconnectAttempts
               THEN "idle" ELSE "wait")
  /\ UNCHANGED <<table, mine, tries, serverUp, shutdown>>

(* The backoff ends, or Manager.ctx is done. *)
Backoff(g) ==
  /\ pc[g] = "wait"
  /\ Goto(g, "load") \/ (stopped /\ Goto(g, "idle"))
  /\ UNCHANGED <<table, mine, tries, serverUp, shutdown>>

(* Mutant: a failed reconnect is not tried again. *)
ReconnectFailedEnds(g) ==
  /\ pc[g] = "failed"
  /\ Goto(g, "idle")
  /\ UNCHANGED <<table, mine, tries, serverUp, shutdown>>

(* getClient failed: the attempt is counted at whatever client is stored   *)
(* now, and `go m.reconnect` starts over.                                  *)
ReconnectFailed(g) ==
  /\ pc[g] = "failed"
  /\ Goto(g, "check")
  /\ attempts' = IF stored # None /\ attempts < maxReconnectAttempts
                   THEN attempts + 1 ELSE attempts
  /\ UNCHANGED <<stored, conns, streams, recv, mine, tries, serverUp,
                 shutdown>>

Reconnected(g) ==
  /\ pc[g] = "connected"
  /\ Goto(g, "idle")
  /\ attempts' = 0
  /\ UNCHANGED <<stored, conns, streams, recv, mine, tries, serverUp,
                 shutdown>>

-----------------------------------------------------------------------------
(* Close, called once by Gateway.Shutdown *)

CloseCancel ==
  /\ closing = "open" /\ closing' = "collect"
  /\ streams' = {}
  /\ UNCHANGED <<stored, conns, recv, attempts, calls, serverUp, doomed>>

CloseCollect ==
  /\ closing = "collect" /\ closing' = "close"
  /\ doomed' = {stored} \ {None}
  /\ UNCHANGED <<table, calls, serverUp>>

CloseConns ==
  /\ closing = "close" /\ closing' = "clear"
  /\ conns' = conns \ doomed /\ doomed' = {}
  /\ UNCHANGED <<stored, streams, recv, attempts, calls, serverUp>>

CloseClear ==
  /\ closing = "clear" /\ closing' = "done"
  /\ stored' = None /\ attempts' = 0
  /\ UNCHANGED <<conns, streams, recv, calls, serverUp, doomed>>

Close == CloseCancel \/ CloseCollect \/ CloseConns \/ CloseClear

-----------------------------------------------------------------------------
(* The game server and the network. *)

StreamBreaks(c) ==
  /\ c \in streams
  /\ streams' = streams \ {c}
  /\ UNCHANGED <<stored, conns, recv, attempts, calls, serverUp, shutdown>>

ServerChange ==
  /\ serverUp' = ~serverUp
  /\ UNCHANGED <<table, calls, shutdown>>

-----------------------------------------------------------------------------

GetClient(g) == Load(g) \/ DialOk(g) \/ DialFail(g) \/ LoadOrStore(g)
Send(g) == SendOk(g) \/ SendFail(g) \/ SendDelete(g)
Reconnect(g) == \/ Check(g) \/ Limit(g) \/ Backoff(g)
                \/ ReconnectFailed(g) \/ Reconnected(g)
RecvLoop(c) == RecvEnds(c) \/ RecvDelete(c)

Next ==
  \/ \E g \in Actors : CallSend(g) \/ GetClient(g) \/ Send(g) \/ Reconnect(g)
  \/ \E c \in Clients : RecvLoop(c) \/ StreamBreaks(c)
  \/ Close \/ ServerChange

(* Go runs every goroutine that is not blocked, and a backoff ends. *)
Fairness ==
  /\ \A g \in Actors : WF_vars(GetClient(g) \/ Send(g) \/ Reconnect(g))
  /\ \A c \in Clients : WF_vars(RecvLoop(c))

Spec == Init /\ [][Next]_vars /\ Fairness

-----------------------------------------------------------------------------
(* Properties *)

InSetup == {mine[g] : g \in {h \in Actors : pc[h] = "store"}}

(* Until Close, the open connections are exactly the stored client's and   *)
(* those of getClient calls that have not reached LoadOrStore: however     *)
(* Send, recvLoop and reconnect race, none is leaked, and the map never    *)
(* offers a client whose connection is closed.                             *)
OpenAccounted == ~stopped => conns = ({stored} \ {None}) \cup InSetup

(* The inductive invariant behind the two properties: a client being set   *)
(* up belongs to one call alone, and a client about to be deleted is dead. *)
SetupOwn ==
  \A g \in Actors : pc[g] = "store" =>
    /\ mine[g] # stored
    /\ \A h \in Actors \ {g} : pc[h] = "store" => mine[h] # mine[g]

DeadAtDelete ==
  /\ \A g \in Actors : pc[g] = "delete" => mine[g] \notin streams
  /\ \A c \in Clients : recv[c] = "delete" => c \notin streams

ManagerInv == TypeOK /\ SetupOwn /\ DeadAtDelete /\ OpenAccounted

(* CompareAndDelete protects the client that replaced a failed one: until  *)
(* Close, no step takes a client with a working stream out of the map.     *)
OnlyDeadDropped ==
  [][stored # None /\ stored' # stored /\ ~stopped =>
       stored \notin streams]_vars

(* With maxReconnectAttempts at 0, the default, there is no limit: a       *)
(* gateway that had a client for the address and is not closed gets one    *)
(* again and again once the server stays up, because some reconnect        *)
(* goroutine is alive whenever the map lost its client.                    *)
StaysConnected ==
  maxReconnectAttempts = 0 /\ <>[]serverUp /\ []~stopped =>
    [](stored = None) \/ []<>(stored # None)

=============================================================================
