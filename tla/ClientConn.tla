----------------------------- MODULE ClientConn -----------------------------
(***************************************************************************)
(* A client's connection, from its first bytes to the packets it carries:  *)
(* SniffConn.Sniff and the HTTP and WebSocket branches of handleConnection *)
(* (gateway.go), WebSocketConn's frames in both directions, and            *)
(* ReadFullPacket, which cuts the byte stream into packets.                *)
(*                                                                         *)
(* The stream is a sequence of tokens: a header's eight bytes are one, and *)
(* so is each unit of data.  The client sends the packets of Packets, cut  *)
(* in any way into chunks, or into messages and fragments with control     *)
(* frames between them.  Outgoing frames are written by the reader, the    *)
(* receive loops (Write) and those who end the session (Close).            *)
(***************************************************************************)
EXTENDS Integers, Sequences

CONSTANTS
  Before,          \* Before[k]: how many tokens precede the client's packet k;
                   \* the last of them is the number of all its tokens
  MaxMessageSize,  \* Security.MaxMessageSize, also WebSocketConn.maxPayload
  len7, len16,     \* the longest payloads with 7- and 16-bit lengths: 125, 65535
  top,             \* 2^63: the first length that is negative as an int
  MaxFrame,        \* bound: tokens in a frame
  MaxSent,         \* bound: tokens the client sends
  MaxNet,          \* bound: frames and chunks under way
  Reader, Receivers, Closers,
  None, cut, mixed

Writers == {Reader} \cup Receivers \cup Closers

ASSUME ClientConnAssumption ==
  /\ Before \in Seq(Nat) /\ Before # <<>> /\ Before[1] = 0
  /\ \A j, k \in DOMAIN Before : j < k => Before[j] < Before[k]
  /\ MaxMessageSize \in Nat \ {0}
  /\ len7 \in Nat /\ len16 \in Nat /\ len7 < len16
  /\ top \in Nat /\ Before[Len(Before)] < top  \* RFC 6455: the top bit is 0
  /\ MaxFrame \in Nat \ {0} /\ MaxSent \in Nat /\ MaxNet \in Nat \ {0}
  /\ {None, cut, mixed} \cap Writers = {}
  /\ None # cut /\ None # mixed /\ cut # mixed

VARIABLES
  client,       \* what the client speaks: "tcp", "ws" or "http"
  requested,    \* it has sent its HTTP request
  net,          \* what it has sent and the gateway has not read
  sent,         \* how many tokens it has sent
  inMessage,    \* it is in the middle of a fragmented message
  stage,        \* progress of handleConnection
  framed,       \* whether the packets are read through a WebSocketConn
  pending, fragmentBuf,   \* WebSocketConn's buffers
  header,       \* ReadFullPacket: 0, or the token of the header it has read
  got,          \* the data it has read so far
  packets,      \* history: the packets handed on
  open,         \* the connection has not been closed here
  deadline,     \* some Write has set a write deadline
  pc, frame,    \* where each writer stands, and its frame
  holder,       \* who holds writeMu
  once,         \* closeOnce
  wire          \* the outgoing stream: None between frames, the writer whose
                \* header is out, cut after a failed write, mixed for ever
                \* after pieces of two frames

peer == <<client, requested, net, sent, inMessage>>
reading == <<stage, framed, pending, fragmentBuf, header, got, packets>>
writing == <<deadline, pc, frame, holder, once, wire>>
vars == <<peer, reading, open, writing>>

-----------------------------------------------------------------------------
(* What the client sends *)

(* The lengths of its packets; each has a header. *)
Packets ==
  [k \in 1..(Len(Before) - 1) |-> Before[k + 1] - Before[k] - 1]

Total == Before[Len(Before)]

(* The tokens from a + 1 to b, in order. *)
Run(a, b) == [j \in 1..(b - a) |-> a + j]

(* The packets as the client means them: by the numbers of their tokens. *)
Meant ==
  [k \in 1..(Len(Before) - 1) |->
     [header |-> Before[k] + 1, data |-> Run(Before[k] + 1, Before[k + 1])]]

(* The Length field of a header; data taken for a header would say         *)
(* something, here 0.                                                      *)
Length(token) ==
  IF \E k \in DOMAIN Packets : Before[k] + 1 = token
    THEN Packets[CHOOSE k \in DOMAIN Packets : Before[k] + 1 = token]
    ELSE 0

(* int(uint64): the two's complement of 64 bits. *)
Int64(n) == IF n < top THEN n ELSE n - 2 * top

(* readFrame: payload lengths up to len7 fit the 7 bits of the second      *)
(* byte; the next two values announce 16 bits, up to len16, and 64 bits.   *)
DecodeLength(code) ==
  IF code[1] <= len7 THEN code[1]
  ELSE IF code[1] = len7 + 1 THEN code[2] ELSE Int64(code[2])

(* A client's own encoding, as RFC 6455 has it. *)
Code(n) == IF n <= len7 THEN <<n>>
           ELSE <<IF n <= len16 THEN len7 + 1 ELSE len7 + 2, n>>

(* The next n tokens in a frame.  History: where in the stream they begin, *)
(* and whether that is inside a message.                                   *)
Frame(o, f, n) ==
  [op |-> o, fin |-> f, data |-> Run(sent, sent + n), code |-> Code(n),
   from |-> sent, inside |-> inMessage]

(* Data, in chunks or in frames, as soon as the request is out: the client *)
(* need not wait for the answer.                                           *)
ClientSends ==
  /\ open /\ Len(net) < MaxNet
  /\ \E n \in 0..MaxFrame, f \in BOOLEAN :
       /\ sent + n <= Total /\ sent + n <= MaxSent
       /\ \/ client = "tcp" /\ f /\ n > 0 /\ net' = Append(net, Frame("raw", f, n))
          \/ /\ client = "ws" /\ requested
             /\ net' = Append(net, Frame(IF inMessage THEN "continuation"
                                                      ELSE "binary", f, n))
       /\ sent' = sent + n
       /\ inMessage' = ~f
  /\ UNCHANGED <<client, requested, reading, open, writing>>

(* Frames without data for the stream, among them those that the gateway   *)
(* refuses: text, and frames without a mask.                               *)
ClientControls ==
  /\ open /\ Len(net) < MaxNet /\ client = "ws" /\ requested
  /\ \E o \in {"ping", "pong", "close", "text", "unmasked"} :
       net' = Append(net, Frame(o, TRUE, 0))
  /\ UNCHANGED <<client, requested, sent, inMessage, reading, open, writing>>

ClientRequests ==
  /\ open /\ client # "tcp" /\ ~requested
  /\ requested' = TRUE
  /\ net' = Append(net, Frame("request", TRUE, 0))
  /\ UNCHANGED <<client, sent, inMessage, reading, open, writing>>

-----------------------------------------------------------------------------
(* handleConnection *)

Init ==
  /\ client \in {"tcp", "ws", "http"}
  /\ requested = FALSE /\ net = <<>> /\ sent = 0 /\ inMessage = FALSE
  /\ stage = "sniff" /\ framed = FALSE
  /\ pending = <<>> /\ fragmentBuf = <<>>
  /\ header = 0 /\ got = <<>> /\ packets = <<>>
  /\ open = TRUE /\ deadline = FALSE
  /\ pc = [w \in Writers |-> "idle"]
  /\ frame = [w \in Writers |-> None]
  /\ holder = None /\ once = "new" /\ wire = None

buffers == <<framed, pending, fragmentBuf, header, got, packets>>

(* Sniff peeks for half a second.  What is not HTTP is TCP, and so is a    *)
(* client that has sent nothing in time; the words that make a request a   *)
(* WebSocket's may lie beyond the 512 bytes it looks at.                   *)
Sniff ==
  /\ stage = "sniff"
  /\ IF net # <<>> /\ Head(net).op = "request"
       THEN stage' \in IF client = "ws" THEN {"websocket", "http"} ELSE {"http"}
       ELSE stage' = "read"
  /\ UNCHANGED <<peer, buffers, open, writing>>

(* http.ReadRequest, for either protocol: 400 for a malformed request, 426 *)
(* for one that does not ask for an upgrade.                               *)
ReadRequest ==
  /\ stage \in {"websocket", "http"}
  /\ net' = Tail(net)
  /\ stage' \in {"done"} \cup (IF client = "ws" THEN {"upgrade"} ELSE {})
  /\ UNCHANGED <<client, requested, sent, inMessage, buffers, open, writing>>

(* Mutant: the WebSocketConn starts with an empty buffer. *)
UpgradeNewReader ==
  /\ stage = "upgrade"
  /\ \/ stage' = "done" /\ UNCHANGED <<framed, net>>
     \/ stage' = "read" /\ framed' = TRUE /\ net' = <<>>
  /\ UNCHANGED <<client, requested, sent, inMessage, pending, fragmentBuf,
                 header, got, packets, open, writing>>

(* handleWebSocketConnection: 400 for a request or key that will not do;   *)
(* else the handshake is written, and frames are read from where the       *)
(* request ended.                                                          *)
Upgrade ==
  /\ stage = "upgrade"
  /\ \/ stage' = "done" /\ framed' = framed
     \/ stage' = "read" /\ framed' = TRUE
  /\ UNCHANGED <<peer, pending, fragmentBuf, header, got, packets, open, writing>>

(* The deferred Close of the underlying connection, and with it goes what  *)
(* has not been read.                                                      *)
HandlerCloses ==
  /\ stage = "done" /\ open
  /\ open' = FALSE
  /\ net' = <<>> /\ pending' = <<>> /\ fragmentBuf' = <<>>
  /\ header' = 0 /\ got' = <<>>
  /\ UNCHANGED <<client, requested, sent, inMessage, stage, framed, packets,
                 writing>>

-----------------------------------------------------------------------------
(* Reading frames and packets *)

(* writeFrame begins: a writer asks for writeMu. *)
Ask(w, o) ==
  /\ pc' = [pc EXCEPT ![w] = "lock"]
  /\ frame' = [frame EXCEPT ![w] = o]

Stop == stage' = "done" /\ UNCHANGED <<pending, fragmentBuf>>

(* Mutant: a complete message is returned without its fragments. *)
DataFrameLast(f, payload) ==
  IF f.op = "continuation" /\ fragmentBuf = <<>> THEN Stop
  ELSE /\ IF f.fin THEN pending' = payload /\ fragmentBuf' = <<>>
                   ELSE pending' = pending /\ fragmentBuf' = fragmentBuf \o payload
       /\ stage' = stage

(* nextDataPayload: a whole message is returned, fragments are gathered.   *)
(* An empty first fragment counts as none.                                 *)
DataFrame(f, payload) ==
  IF f.op = "continuation" /\ fragmentBuf = <<>> THEN Stop
  ELSE /\ IF f.fin
            THEN /\ pending' = (IF f.op = "binary" THEN payload
                                                  ELSE fragmentBuf \o payload)
                 /\ fragmentBuf' = (IF f.op = "binary" THEN fragmentBuf ELSE <<>>)
            ELSE pending' = pending /\ fragmentBuf' = fragmentBuf \o payload
       /\ stage' = stage

(* Read finds nothing pending and takes what comes next: a chunk of a TCP  *)
(* stream, in which a request that came late is no packet, or a frame.     *)
(* What has been buffered can be read after the connection is closed.      *)
NextPayload ==
  LET f == Head(net)
      payload == SubSeq(f.data, 1, DecodeLength(f.code))
  IN /\ stage = "read" /\ pending = <<>> /\ pc[Reader] = "idle"
     /\ net # <<>>
     /\ net' = Tail(net)
     /\ \/ /\ ~framed
           /\ pending' = f.data
           /\ stage' = IF f.op = "raw" THEN stage ELSE "misread"
           /\ UNCHANGED <<fragmentBuf, pc, frame>>
        \/ /\ framed /\ (f.op \in {"unmasked", "text"}
                           \/ DecodeLength(f.code) > MaxMessageSize)
           /\ Stop /\ UNCHANGED <<pc, frame>>
        \/ /\ framed /\ f.op \in {"binary", "continuation"}
           /\ DecodeLength(f.code) <= MaxMessageSize
           /\ DataFrame(f, payload) /\ UNCHANGED <<pc, frame>>
        \/ /\ framed /\ f.op \in {"ping", "close"}
           /\ Ask(Reader, f.op)
           /\ UNCHANGED <<stage, pending, fragmentBuf>>
        \/ /\ framed /\ f.op = "pong"
           /\ UNCHANGED <<stage, pending, fragmentBuf, pc, frame>>
     /\ UNCHANGED <<client, requested, sent, inMessage, framed, header, got,
                    packets, open, deadline, holder, once, wire>>

(* The client has left, or the connection has been closed here. *)
ReadFails ==
  /\ stage \in {"sniff", "websocket", "http", "read", "misread"}
  /\ pc[Reader] = "idle"
  /\ stage' = "done"
  /\ UNCHANGED <<peer, buffers, open, writing>>

(* ParseClientMessageHeader, and the size check of ReadFullPacket. *)
ReadHeader ==
  /\ stage = "read" /\ pending # <<>> /\ header = 0
  /\ LET h == Head(pending)
     IN \/ /\ Length(h) > MaxMessageSize
           /\ stage' = "done" /\ UNCHANGED <<header, packets>>
        \/ /\ Length(h) = 0
           /\ packets' = Append(packets, [header |-> h, data |-> <<>>])
           /\ UNCHANGED <<stage, header>>
        \/ /\ Length(h) \in 1..MaxMessageSize
           /\ header' = h /\ UNCHANGED <<stage, packets>>
  /\ pending' = Tail(pending)
  /\ UNCHANGED <<peer, framed, fragmentBuf, got, open, writing>>

(* io.ReadFull: as much of the data as is pending. *)
ReadData ==
  LET missing == Length(header) - Len(got)
      n == IF missing < Len(pending) THEN missing ELSE Len(pending)
      data == got \o SubSeq(pending, 1, n)
  IN /\ stage = "read" /\ pending # <<>> /\ header # 0
     /\ pending' = SubSeq(pending, n + 1, Len(pending))
     /\ IF Len(data) < Length(header)
          THEN got' = data /\ UNCHANGED <<header, packets>>
          ELSE /\ packets' = Append(packets, [header |-> header, data |-> data])
               /\ got' = <<>> /\ header' = 0
     /\ UNCHANGED <<peer, stage, framed, fragmentBuf, open, writing>>

-----------------------------------------------------------------------------
(* Writing frames *)

(* The session is registered once the first packet has been read. *)
Registered == framed /\ packets # <<>>

(* Write, after sendToSession has set the deadline, which stays set. *)
Write(w) ==
  /\ w \in Receivers /\ pc[w] = "idle" /\ Registered
  /\ Ask(w, "binary")
  /\ deadline' = TRUE
  /\ UNCHANGED <<peer, reading, open, holder, once, wire>>

(* Mutant: no mutex. *)
LockNot(w) ==
  /\ pc[w] = "lock"
  /\ pc' = [pc EXCEPT ![w] = "header"]
  /\ holder' = w
  /\ UNCHANGED <<peer, reading, open, deadline, frame, once, wire>>

Lock(w) ==
  /\ pc[w] = "lock" /\ holder = None
  /\ holder' = w
  /\ pc' = [pc EXCEPT ![w] = "header"]
  /\ UNCHANGED <<peer, reading, open, deadline, frame, once, wire>>

(* writeFrame returns, and the function of closeOnce with it; when it has  *)
(* answered a close frame, Read returns EOF.                               *)
Unlock(w) ==
  /\ holder' = None
  /\ pc' = [pc EXCEPT ![w] = IF w \in Closers THEN "conn" ELSE "idle"]
  /\ frame' = [frame EXCEPT ![w] = None]
  /\ once' = IF w \in Closers THEN "done" ELSE once
  /\ stage' = IF w = Reader /\ frame[w] = "close" THEN "done" ELSE stage

(* The stream is judged up to the first write that failed: it may have     *)
(* ended inside a frame, and writeFrame leaves the connection in use.      *)
Out(piece) == wire' = IF wire \in {cut, mixed} THEN wire ELSE piece

(* Close's own frame is empty; others, and the answers to ping and close   *)
(* frames, may have a payload.                                             *)
WriteFrameHeader(w) ==
  /\ pc[w] = "header" /\ open
  /\ \/ /\ w \notin Closers
        /\ Out(IF wire # None THEN mixed ELSE w)
        /\ pc' = [pc EXCEPT ![w] = "payload"]
        /\ UNCHANGED <<frame, holder, once, stage>>
     \/ /\ Out(IF wire # None THEN mixed ELSE None)
        /\ Unlock(w)
  /\ UNCHANGED <<peer, buffers, open, deadline>>

WriteFramePayload(w) ==
  /\ pc[w] = "payload" /\ open
  /\ Out(IF wire # w THEN mixed ELSE None)
  /\ Unlock(w)
  /\ UNCHANGED <<peer, buffers, open, deadline>>

(* Mutant: a failed write returns with writeMu held. *)
WriteFailsHolding(w) ==
  /\ pc[w] \in {"header", "payload"} /\ (deadline \/ ~open)
  /\ IF open THEN Out(cut) ELSE wire' = wire
  /\ pc' = [pc EXCEPT ![w] = IF w \in Closers THEN "conn" ELSE "idle"]
  /\ UNCHANGED <<peer, buffers, stage, open, deadline, frame, holder, once>>

(* The deadline passes, with a part perhaps written, or the connection is  *)
(* closed.  Without a deadline a write waits for a client that reads.      *)
WriteFails(w) ==
  /\ pc[w] \in {"header", "payload"} /\ (deadline \/ ~open)
  /\ IF open THEN Out(cut) ELSE wire' = wire
  /\ Unlock(w)
  /\ UNCHANGED <<peer, buffers, open, deadline>>

(* Mutant: the second caller of Close does not wait, nor does it close. *)
CloseOnceSkips(w) ==
  /\ pc[w] = "once"
  /\ IF once = "new" THEN once' = "running" /\ Ask(w, "close")
     ELSE pc' = [pc EXCEPT ![w] = "idle"] /\ UNCHANGED <<once, frame>>
  /\ UNCHANGED <<peer, reading, open, deadline, holder, wire>>

Close(w) ==
  /\ w \in Closers /\ pc[w] = "idle" /\ Registered
  /\ pc' = [pc EXCEPT ![w] = "once"]
  /\ UNCHANGED <<peer, reading, open, deadline, frame, holder, once, wire>>

(* closeOnce.Do: the first caller writes a close frame, others wait. *)
CloseOnce(w) ==
  /\ pc[w] = "once" /\ once # "running"
  /\ IF once = "new" THEN once' = "running" /\ Ask(w, "close")
     ELSE pc' = [pc EXCEPT ![w] = "conn"] /\ UNCHANGED <<once, frame>>
  /\ UNCHANGED <<peer, reading, open, deadline, holder, wire>>

CloseConn(w) ==
  /\ pc[w] = "conn"
  /\ open' = FALSE
  /\ pc' = [pc EXCEPT ![w] = "closed"]
  /\ UNCHANGED <<peer, reading, deadline, frame, holder, once, wire>>

-----------------------------------------------------------------------------
Client == ClientSends \/ ClientControls \/ ClientRequests

Handler ==
  \/ Sniff \/ ReadRequest \/ Upgrade \/ HandlerCloses
  \/ NextPayload \/ ReadHeader \/ ReadData

Next ==
  \/ Client \/ Handler \/ ReadFails
  \/ \E w \in Writers :
       \/ Write(w) \/ Close(w) \/ Lock(w) \/ WriteFrameHeader(w)
       \/ WriteFramePayload(w) \/ WriteFails(w) \/ CloseOnce(w) \/ CloseConn(w)

(* The handler runs on, and reading a closed connection fails.  Mutexes    *)
(* are handed on.  A write goes through only if the client reads, which it *)
(* need not do, but fails at the deadline.                                 *)
Fairness ==
  /\ WF_vars(Handler) /\ WF_vars(ReadFails /\ ~open)
  /\ \A w \in Writers :
       /\ SF_vars(Lock(w)) /\ WF_vars(WriteFails(w))
       /\ WF_vars(CloseOnce(w)) /\ WF_vars(CloseConn(w))

Spec == Init /\ [][Next]_vars /\ Fairness

-----------------------------------------------------------------------------
(* Properties *)

TypeOK ==
  /\ sent \in 0..Total /\ Len(net) <= MaxNet + 1
  /\ stage \in {"sniff", "websocket", "http", "upgrade", "read", "misread", "done"}
  /\ header \in 0..Total /\ (header # 0 => Len(got) < Length(header))
  /\ pc \in [Writers -> {"idle", "lock", "header", "payload", "once", "conn",
                         "closed"}]
  /\ frame \in [Writers -> {None, "binary", "ping", "close"}]
  /\ holder \in Writers \cup {None} /\ once \in {"new", "running", "done"}
  /\ wire \in Writers \cup {None, cut, mixed}
  /\ \A w \in Writers : pc[w] \in {"header", "payload"} => holder = w

(* However the client cuts its stream into chunks, messages and fragments, *)
(* ReadFullPacket hands on its packets, whole and in order.                *)
PacketsAsMeant ==
  /\ Len(packets) <= Len(Meant)
  /\ \A k \in DOMAIN packets : packets[k] = Meant[k]

(* Where in the stream the reader's buffers begin and end, one behind the  *)
(* other: what it has handed on, the header, got, pending, fragmentBuf.    *)
HeaderAt == Before[Len(packets) + 1]
GotAt == HeaderAt + (IF header = 0 THEN 0 ELSE 1)
PendingAt == GotAt + Len(got)
FragmentAt == PendingAt + Len(pending)
NetAt == FragmentAt + Len(fragmentBuf)

(* While the handler reads, every token the client has sent is, once and   *)
(* in its place, in a packet handed on, in ReadFullPacket's hands, in one  *)
(* of WebSocketConn's buffers or still under way, from the frames that     *)
(* came right behind the handshake on.                                     *)
NothingLost ==
  stage = "read" =>
    /\ header # 0 => header = HeaderAt + 1
    /\ got = Run(GotAt, PendingAt)
    /\ pending = Run(PendingAt, FragmentAt)
    /\ fragmentBuf = Run(FragmentAt, NetAt)
    /\ NetAt = IF net = <<>> THEN sent ELSE net[1].from
    /\ \A i \in DOMAIN net :
         net[i].data = Run(net[i].from,
                           IF i = Len(net) THEN sent ELSE net[i + 1].from)

(* The handler keeps up: again and again all packets that have left the    *)
(* client in finished messages are handed on, unless the connection ends   *)
(* or the handler waits to answer a ping of a client that does not read.   *)
Delivered ==
  []<>(\/ \A k \in DOMAIN Packets : sent >= Before[k + 1] => Len(packets) >= k
       \/ stage \in {"done", "misread"} \/ inMessage
       \/ ~deadline /\ pc[Reader] # "idle")

(* Frames do not mix on the wire, whoever writes: pings are answered while *)
(* receive loops write and Close sends its frame.  This is so until a      *)
(* write fails; one that failed half way is followed by other frames.      *)
FramesWhole == wire # mixed

(* Close returns with the connection closed, for every caller, once a      *)
(* write deadline has been set; without one it may wait for writeMu behind *)
(* a pong that a client does not read.                                     *)
CloseReturns ==
  \A w \in Closers : (pc[w] = "once" /\ deadline) ~> (pc[w] = "closed" /\ ~open)

=============================================================================
