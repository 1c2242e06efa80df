# Verification of game-gateway

TLA+ models of the concurrent core of the gateway, their TLC runs and TLAPS
proofs. `PROJECT.json` holds the machine-readable index: components, runs,
the line map from definitions to source, findings, hazards and theorems.

## The system and its parts

The gateway accepts game clients, limits them, routes each by its first packet
to a backend and forwards packets both ways until one side ends.

| part | source | state and concurrency | module |
|---|---|---|---|
| circuit breaker, retry | `circuitbreaker/breaker.go`, `retry/retry.go` | atomics and a mutex, one breaker per backend, all handlers | `CircuitBreaker` |
| session IDs | `gateway.go` `generateSessionID`, `ParseSessionID` | two atomics, all handlers | `SessionId` |
| limiters | `ratelimit/*.go` | CAS loop; mutex and maps per address | `Admission`, `ConnectionLimit` |
| backend connection pool | `pool/*.go` | mutex, buffered channel, cleanup ticker, close | `ConnPool` |
| TCP sessions, session registry | `gateway.go` `handleTCPConnection`, `forwardConnection`; `session/session.go` | two goroutines per session, idle reaper | `TcpSession` |
| life cycle | `gateway.go` `Start`, `Shutdown`, `acceptLoop`, `processConnectionQueue`; `cmd/gateway/main.go` | worker pool, queue, WaitGroup, ordered shutdown | `Lifecycle` |
| gRPC transport manager | `transport/grpc/manager.go` | sync.Map of clients, receive and reconnect goroutines | `GrpcManager` |
| gRPC sessions, session manager | `gateway_grpc.go`, `connection_notify.go`, `gateway.go` `forwardGrpcConnection`; `session/session.go` | handlers, receive loops of several streams, idle cleanup | `GrpcSession` |
| router, Redis and Consul refresh | `router/router.go`, `gateway.go` merge, `redis/client.go`, `consul/discovery.go` | two refresh loops, routing table, round-robin counters | `Router`, `RoutingTable` |
| client connections: protocol detection, WebSocket, packet reader | `protocol/sniffer.go`, `protocol/websocket_conn.go`, `protocol/packet.go`, `gateway.go` `handleConnection` | byte stream, frames, several writers, close | `ClientConn` |
| server-side wire format | `protocol/server_packet.go`, `protocol/protocol.go` | pure | not modelled |
| configuration, hot reload | `config/*.go`, `config_reload.go` | limiters replaced while in use; not called by `main` | not modelled |
| logging, metrics, tracing, access log | | output only | not modelled |
| generated stubs, load-test tool | `api`, `tools` | | not modelled |

They interact as follows. `Lifecycle` hands an accepted connection to a
handler. The handler takes its slots (`Admission`), finds out what the client
speaks and reads the first packet (`ClientConn`), asks the router for a backend
(`Router`) and the breaker for permission (`CircuitBreaker`), and draws an ID
(`SessionId`). In TCP mode it borrows a connection with retries (`ConnPool`),
registers and forwards (`TcpSession`, which EXTENDS `ConnPool` and shares its
variables). In gRPC mode it announces the client, registers and forwards
(`GrpcSession`) over a stream that `GrpcManager` keeps; the streams' receive
loops carry packets back. Where a module leaves a neighbour out, it allows
whatever the neighbour may do: `GrpcSession` lets every `Send` fail, `Lifecycle`
lets a handler end at any time.

## Modules

Each step of a model is one atomic operation or one critical section of the
code; between two of them every other goroutine may run. A `pc` (or `stage`,
`acceptor`, `processor`, `phase`) variable says where a goroutine stands.

* `CircuitBreaker`: `state`, `failures` and the age of `lastFailure`. `Allow` is
  split into load, read of `lastFailure`, CAS and reset; `RecordSuccess` into
  load, store and reset; `RecordFailure` into add, stamp and open.
  `AfterFailure` is the loop of `retry.Do`. Ages stop at `timeout` and the count
  at the threshold, beyond which the code cannot tell values apart. `retry.Do`'s
  early returns on a done context (`retry.go:20`, `:37`) are left out: they come
  only from `Shutdown` on.
* `SessionId`: `lastTimestamp`, `sessionSeq`, the clock and the issued IDs. The
  ghost `raced` records whether an increment hit one of three windows:
  between the CAS and the store, for a millisecond that is over, or past the
  wrap-around. Field sizes are constants in place of 2^12, 2^40, 2^12; the word
  is signed.
* `Admission`: `Limiter.current` with load and CAS apart; the maps of
  `IPLimiter`, whose `Allow` and `Release` are one step each because they hold
  its mutex throughout; a handler that takes both slots and gives them back.
  `admitted` is a ghost history of admissions in the last second.
* `ConnectionLimit`: the abstract counting semaphore `Limiter` implements.
* `ConnPool`: the idle channel, `activeConns`, `activeCount`, the mutex, and
  which connections are open or old. `Get` receives before it locks, `Put`
  pushes after it unlocks, `Cleanup` and a dial hold the mutex over many steps.
* `TcpSession`: handlers, the client-to-backend goroutine nobody waits for, the
  registry, the reaper, and a panic. Deferred calls run in Go's order.
* `Lifecycle`: accept loop, queue, processor, ants worker pool (external:
  `Submit` fails at capacity or once released), WaitGroup, background loops,
  metrics server, and `Shutdown` phase by phase. Its timeout may fire at any
  moment of the wait. Once `connQueue` is closed the processor receives nil
  connections from it and treats them as clients: `nils` counts the handlers it
  submits for them, `unpaired` the `wg.Done` calls whose `Add` was never made, and
  `crashed` says that such a call took the counter below zero outside the worker
  pool, which recovers panics.
* `GrpcManager`: the client stored for one address, open connections, working
  streams, receive loops, and where each sender and reconnect goroutine stands
  in `getClient`, `Send` or `reconnect`. Backoff times are left out; the attempt
  count is kept. `Close` is its four passes.
* `Router`: the stored configurations, the rules, where each of the two refresh
  loops stands, the rules it is about to pass to `UpdateRule` (a step each), and
  the handlers' requests, split where `routeRoundRobin` releases its lock or
  touches an atomic. `mode` is how the gateway was started: with Consul, with
  Redis alone, or with Consul but no `NODE_IP`. Counters are kept modulo `Cycle`,
  a multiple of every list's length, so indices are exact. The checksum is a
  constant operator. `offered` and `turns` are histories.
* `RoutingTable`: the abstract table: a key once routable stays so, with a list
  that a source has offered for it.
* `GrpcSession`: where each handler stands, the session manager, what the game
  server was told last, and each receive loop's way through `handleGrpcPacket`.
  A session is looked up in one step and used in later ones. `half` says what
  the client has got of a message. `reaping` is the session that `CleanupIdle` is
  closing while it holds the lock of its shard (`getShard`); methods that need
  that lock wait. `deadline` holds the clients with a write deadline: a write to
  any other may wait for ever. The deferred `Close` of `handleConnection`
  (`gateway.go:737`) is of the raw connection, writes nothing and does not wait.
  A session is used once: the handler's last stage is `done`.
* `ClientConn`: the client's stream as a sequence of numbered tokens (a header is
  one; the constant `Before` says how many precede each packet), cut into chunks or
  into messages, fragments and control frames; the stages of `handleConnection`;
  `WebSocketConn`'s `pending` and `fragmentBuf`; `ReadFullPacket`; and `writeFrame`
  with its two writes, `writeMu`, `closeOnce` and the write deadline. What is
  buffered is still read after the connection is closed. Lengths are decoded in
  their 7-, 16- and 64-bit forms, the last as a signed word (`top` is 2^63); the
  module assumes that a client keeps to RFC 6455 and leaves the top bit 0.
* `MC*`: values of the constants and symmetry sets for TLC.
* `*_proofs`: proofs of the module of that name. `LockFree_proofs` covers
  `CircuitBreaker` and `SessionId`, `TcpSession_proofs` also `ConnPool`.

## Runs

Passing runs, one per component, with their bounds:

| run | bounds | shows |
|---|---|---|
| `MCCircuitBreaker` | 3 goroutines, threshold 2, 2 attempts each | a reached threshold is never forgotten; the breaker closes when the backend stays up and opens again and again when it stays down |
| `MCSessionId` | 2 callers, 3 sequence numbers, a timestamp field that wraps, one clock step back | unique except through the three windows; IDs parse back; no call spins |
| `MCAdmission` | 3 connections, 2 addresses, limits 2 | slots exact, rate kept; `Limiter` refines `ConnectionLimit` |
| `MCConnPool` | 2 sessions, 3 connections, limit 1 | one owner per connection; counters exact; dials stay within the limit; a connection is lost only by a `Put` on a full channel or by `Close`; calls and cleanup return |
| `MCTcpSession` | 2 sessions, 2 connections, limit 1 | a registered connection is its session's alone; the counter stays true and a place of the pool is lost only by a panic; either direction's end ends the other |
| `MCLifecycle` | 4 clients, 1 worker, queue of 2, 2 nil connections | one place per connection; WaitGroup exact, but for handlers of nil connections; drained when not timed out; queued connections are taken up; `Shutdown` returns |
| `MCGrpcManager` | 2 senders, 1 reconnect goroutine, 2 clients, 2 attempts, reconnects without limit | before `Close` no connection leaks and no working client is dropped; a lost client is replaced once the server stays up |
| `MCRouter` | worlds -1, 0 and 1, lists of 0 to 2 endpoints, 2 handlers, 1 change of the sources | the rules refine `RoutingTable`; an answer was offered for the world asked for; no turn is lost; the rules follow sources that stay as they are |
| `MCGrpcSession` | a TCP and a WebSocket session in one shard, 2 receive loops | the session manager never outlives a handler; the game server hears of a session in order; WebSocket messages stay whole; disconnected and idle sessions end, unless a `Close` waits for ever |
| `MCClientConn` | a full, an empty and an oversized packet, frames of up to 3 tokens, 1 receive loop, 2 closers, `top` 16 | packets come out whole and in order however the stream is cut, and in the end; nothing is lost over the handshake; frames do not mix until a write fails; `Close` returns |

The bounds are the smallest that reach the cases: a goroutine in the window of
two others, more connections than the limit or the queue holds, a sequence that
wraps, an idle channel filled while a `Put` is between unlocking and pushing, a
merge that began before a change of the sources and ends after a newer one, a
fragmented message with a ping inside. In `MCClientConn` the lengths 0 and 2
stand for 125 and 65535, the ends of the 7- and 16-bit forms, so that every form
occurs on both sides of its boundary, and `top` exceeds every length sent. In
`MCGrpcSession` both sessions share a shard, so that the cleanup of one holds up
the other; sessions of different shards only meet less. With two nil connections
the second is refused while the first is handled, or its handler ends as well.
Every safety property of these runs is also proved for every size (see Proofs).
Type invariants and three simple consequences of the others (`WithinLimits`,
`LastTimestampMonotone`, `PanicsOnlyAfterTimeout`) are left to the proofs.
Counters saturate or are bounded by named constants (`MaxTime`,
`MaxClockSteps`, `MaxChanges`, `MaxSent`, `MaxFrame`, `MaxNet`, `MaxNil`). Deadlock is not
checked where the system may stop: the session-ID clock ends at `MaxTime`, and
closed pools, managers and clients, sessions that have ended and a finished
`Shutdown` have no further step. Symmetry is used only in runs without liveness. The largest runs,
`MCRouter` and `MCGrpcSession`, have about half a million states and take some
two to three minutes.

Violation runs show what the code does where a comment says otherwise; the
findings in `PROJECT.json` quote the line.

| run | disagreement |
|---|---|
| `MCTcpSessionStale` | `Get` lends out a connection that a forwarding goroutine has closed |
| `MCGrpcSessionTorn` | two receive loops mix header and payload of two messages to one TCP client |

Other disagreements and surprises seen in the code while modelling, without a
run of their own.

Where a property that is checked or proved says what does hold:

* `generateSessionID` ("generates a unique session ID", `gateway.go:1576`): the
  winner of the `lastTimestamp` CAS stores 1 in `sessionSeq` afterwards, so two
  goroutines can get the same ID. `UniqueUnlessRaced` names the windows.
* `Get` compares with `maxPerService` only before it dials (`pool.go:120`); a
  reused connection is counted without it. `DialsWithinLimit`.
* `Put` on a full channel drops the connection ("will be closed during cleanup",
  `pool.go:163`), which cleanup never sees. `LostOnlyWhenFull`.
* After a timed-out wait `Shutdown` closes `connQueue` (`gateway.go:360`) while
  the accept loop may send to it and the processor may take a nil from it. The
  handler of a nil connection calls `wg.Done` without an `Add`, which can take the
  counter below zero. `WgAccounts` counts such calls; `PanicsOnlyAfterTimeout`.
* "Maximum reconnect attempts (0 = unlimited, default: 0)" (`config.go:130`): a
  positive maximum does not stop the reconnecting. `reconnect` compares it with
  the count of whatever client its second `Load` finds (`manager.go:342-347`),
  which is one stored since the stream was lost, with a count that is nearly
  always 0. `StaysConnected` is claimed for the default.
* "For services NOT using Consul (e.g., account, version), endpoints are still
  needed" (`deploy/redis-init-job.yaml:47`): with Consul enabled, as in
  `config/config.yaml:36`, the gateway never files endpoints from Redis, so those
  services get no rule at all. `ImplementsTable` and `AnswerOffered` then speak
  of what Consul offers, and `Converges` of Consul's service alone.
* A WebSocket write that fails leaves the connection in use
  (`websocket_conn.go:218-224`), so a later frame may follow half of an earlier
  one. `FramesWhole` of `ClientConn` holds until a write fails.
* `readFrame` turns a 64-bit length into an `int` (`websocket_conn.go:164`). With
  the top bit set, which RFC 6455 forbids, it is negative, passes the check
  against `maxPayload` (`:167`) and makes `make` panic (`:176`). `PacketsAsMeant` and
  `NothingLost` assume the bit is 0 (`ClientConnAssumption`).
* "Ensure connection is returned to pool even on panic" (`gateway.go:1181`): the
  panic is raised again before `PutConnection`, and the pool goes on counting the
  connection. `PlacesLost` says that nothing else costs a place.

In the limits, the pool and the life cycle: `RecordSuccess` can take the breaker
from Open to Closed; pods whose hash has its top bit set issue negative IDs;
`IPLimiter.cleanup` never finds an entry to remove; `Cleanup` takes out again the
valid connection it has put back; a late `Put` leaves an open connection in a
closed pool; the metrics
server is in the WaitGroup that `Shutdown` waits for, and is stopped after the
wait; a connection can be queued after the processor has drained the queue and
left; the processor turns a queued connection away at once when the workers are
still busy.

In the router: rules and configurations are never removed; with Consul enabled
but `NODE_IP` missing, the first rules come with the first refresh of Redis, not
at the start; world IDs below zero that Consul reports share the wildcard's key.

In the gRPC manager: `recvLoop` starts before `LoadOrStore`, so a stream that
fails at once is stored dead and replaced only after the next `Send` fails; a
client stored between the passes of `Close` leaves the map without being closed.

In sessions and client connections: `LastActiveAt` is written without the
shard's lock that `CleanupIdle` holds when it reads it (`Reap` may therefore take
any registered session in `TcpSession`); a packet or a `server_disconnect` that comes
before `sessionManager.Add` is dropped; `forwardGrpcConnection` never refreshes
`LastActiveAt`, so every session over gRPC is reaped at the idle timeout; a write
cut short by its deadline leaves the connection open; lengths are truncated to
16 bits; a WebSocket request that comes later than `Sniff`'s half second is read
as TCP; the WebSocket payload limit includes the packet's header; an empty first
fragment makes its continuation fail; `forwardConnection` writes header and
payload to a WebSocket client as two frames; a pong has no write deadline unless
`sendToSession` has set one, so `Close`, and the cleanup that calls it under the
shard's lock, may wait for a client that does not read.

## Fairness

Go's scheduler runs every runnable goroutine, so a step that is not blocked is
weakly fair. A wait for a contended mutex is strongly fair (`sync.Mutex` hands
the lock to a waiter that has starved). The clock advances and connections age.
A dial ends, by its timeout. A forwarding loop ends only once its context is
cancelled or its connection closed, and the other goroutine only once the
client is closed, because its read then fails. The tickers of refresh loops and
cleanups fire. A writer that waits for an RWMutex keeps new readers out, so
`StoreConfigs` is strongly fair. `Send` to a game server returns. A write to a
client is not assumed to get through; once a deadline is set it fails by then.
So `Close` of a WebSocket client without a deadline, which writes a frame first,
is not fair in `GrpcSession`, and `SessionsEnd` has as its hypothesis that no such
`Close` waits for ever. With that, weak fairness is enough there: the cleanup is
the only one to hold a shard's lock over several steps. Nothing is assumed of clients,
of handlers (`HandlerEnds` is not fair), of the backend, or of a request ever
arriving; the breaker's properties name that hypothesis.

## Proofs

TLAPS checks these for all values of the constants that satisfy the modules'
ASSUMEs (positive limits, finite sets of sessions, connections or clients).

* `ThresholdCorrect`. `BreakerInv` adds that a goroutine about to attempt has an
  attempt left.
* `UniqueUnlessRacedCorrect`, `LastTimestampForward`. `IdInv` says that before
  any race nothing is issued beyond `lastTimestamp`, each pending reset owns a
  millisecond nothing is issued from, and the current one is issued only up to
  the counter. `CasForward` gives monotonicity.
* `ParseUndoesPack`, `IdsTraceableCorrect`. The fields lie side by side in the
  word (`SideBySide`), and reading it as unsigned undoes the sign (`WordKept`).
* `SlotsAccountedCorrect`, `WithinLimitsCorrect`, `LimiterImplementsSemaphore`.
  `SlotInv` adds that a CAS is tried only from below the limit; every successful
  CAS is an `Acquire`, every release a `Release`, the rest stutters.
* `WithinRateCorrect`. `RateInv` says that each tracker lists ages oldest first,
  no more of them than the rate, and that the history `admitted` is what pruning
  the tracker would leave. `RecentIs` shows that pruning cuts off a prefix, and
  `RecentOlder` that it may wait for the next arrival: pruning after a tick is the
  same whether or not one pruned before it.
* `SoleOwnerCorrect`, `CountsBorrowedCorrect`, `DialsWithinLimitCorrect`,
  `LostOnlyWhenFullCorrect` of `ConnPool`. The invariant ties each program point
  to who holds the mutex and whether a session has a connection, which none of
  the properties says. The lemmas `Receive` and `Send` give what the two do to
  the range and injectivity of a channel.
* `RegisteredOwnsCorrect`, `SessionsSoleOwner`, `SlotsCountedCorrect`,
  `PlacesLostCorrect` of `TcpSession`. A panic breaks the pool's own invariant,
  which equates the places taken with the connections on loan, so `SessionInv`
  keeps the part that survives (`OwnInv`, and `Books`: what is lent is counted)
  and adds that a registered session is where it still has its connection. The
  lemmas about the pool's steps are stated for that part and serve both.
* `OnePlaceCorrect`, `WgAccountsCorrect`, `DrainedCorrect`, `PanicsCorrect` of
  `Lifecycle`. With `OnePlace` the WaitGroup's count is a sum of disjoint
  cardinalities; at zero nothing is left, so nobody is at the queue when it is
  closed. After a timeout the count may go below zero, so `wg` is an integer and
  `unpaired` makes up the difference. `LifeInv` and `QueueInv` are inductive only
  together: that no nil is received before the queue is closed keeps `unpaired`
  at 0 until then.
* `OpenAccountedCorrect`, `OnlyDeadDroppedCorrect` of `GrpcManager`. `ManagerInv`
  adds that a client being set up is known to one call alone, and that both
  `CompareAndDelete`s come after the stream failed.
* `ImplementsTableCorrect`, `AnswerOfferedCorrect`, `TurnsCountedCorrect` of
  `Router`. `TableInv` follows an endpoint list on its way: whatever a loop has
  fetched, is merging or is about to update was offered for the key it will be
  filed under, so every `UpdateRule` is an `Install`. `RequestInv` says the same
  of the rule a request holds after the table has changed under it. `TurnInv`
  says that at most one counter was made for a key and a request holds that one.
* `RegistryOwnedCorrect`, `ToldInOrderCorrect`, `FramesWholeCorrect` of
  `GrpcSession`. `Heard` ties what the game server was told to where the handler
  stands; a receive loop only takes sessions out of the session manager.
* `PacketsAsMeantCorrect`, `NothingLostCorrect`, `FramesWholeCorrect` of
  `ClientConn`. `NetInv` says that each frame under way carries a run of tokens
  that ends where the next begins, in the fragment order RFC 6455 allows, and
  that its length decodes to its size; `ReadInv` that the reader's buffers are
  runs one behind the other up to there. Then each read moves the border between
  two runs (`RunJoin`, `RunCut`), and a header is always read where a packet
  starts. `WriteInv` ties the wire to who holds `writeMu`.
* Type correctness of every module (`TypeCorrect`; `IdTypeCorrect` of `SessionId`,
  `SessionTypeCorrect` of `TcpSession`).

Only model-checked: all liveness, which is out of the prover's reach. What the
two violation runs refute is of course not proved.

## Not modelled

* Server-side wire format (`WriteServerMessage`, the gate header, the split of a
  server ID): straight-line code without state. Pooled buffers: taken and
  returned by one goroutine on every path.
* `UpdateConfig` and the configuration loader: loading is plain data, and nothing
  calls `UpdateConfig`, so no behaviour of the program contains its step.
* `RemoveRule` and the `Watch` functions of Redis and Consul: no callers. The
  realm mapping: only logged.
* Rules with a strategy other than the three: the handler gives up, as it does
  without a rule.
* What the packet reader makes of a WebSocket request it mistakes for packets
  (`ClientConn`, stage `misread`), and the bytes of the HTTP answers.
* IDs that collide, in `GrpcSession`: `SessionId` says when they do.
* Access log, logger, metrics, tracing, version: output only, read by no other
  part. Generated stubs. The load-test tool.
