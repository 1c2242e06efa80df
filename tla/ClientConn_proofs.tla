------------------------- MODULE ClientConn_proofs -------------------------
(***************************************************************************)
(* Proofs, for any packets, any frames and any number of writers, that the *)
(* packets of a client's stream are read as it means them, that nothing of *)
(* the stream is lost, and that outgoing frames do not mix.                *)
(***************************************************************************)
EXTENDS ClientConn, SequenceTheorems, TLAPS

-----------------------------------------------------------------------------
(* Runs of consecutive tokens *)

LEMMA RunType ==
  ASSUME NEW a \in Nat, NEW b \in Nat, a <= b
  PROVE  /\ Run(a, b) \in Seq(Nat) /\ Len(Run(a, b)) = b - a
         /\ DOMAIN Run(a, b) = 1..(b - a)
         /\ \A j \in 1..(b - a) : Run(a, b)[j] = a + j
         /\ Run(a, b) = <<>> <=> a = b
<1>1. b - a \in Nat /\ Run(a, b) \in [1..(b - a) -> Nat]
  BY DEF Run
<1>2. Run(a, b) \in Seq(Nat)
  BY <1>1
<1>3. DOMAIN Run(a, b) = 1..(b - a) /\ \A j \in 1..(b - a) : Run(a, b)[j] = a + j
  BY DEF Run
<1>4. Len(Run(a, b)) = b - a
  BY <1>1, <1>2, <1>3
<1> QED
  BY <1>1, <1>2, <1>3, <1>4

LEMMA RunNone == \A a \in Nat : Run(a, a) = <<>>
  BY RunType

(* A sequence that counts up from a is a run. *)
LEMMA IsRun ==
  ASSUME NEW a \in Nat, NEW q \in Seq(Nat), \A j \in 1..Len(q) : q[j] = a + j
  PROVE  q = Run(a, a + Len(q))
<1>1. Len(q) \in Nat /\ DOMAIN q = 1..Len(q) /\ (a + Len(q)) - a = Len(q)
  OBVIOUS
<1>2. q = [j \in 1..Len(q) |-> q[j]]
  BY <1>1
<1> QED
  BY <1>1, <1>2 DEF Run

(* Two adjoining runs are one. *)
LEMMA RunJoin ==
  ASSUME NEW a \in Nat, NEW b \in Nat, NEW c \in Nat, a <= b, b <= c
  PROVE  Run(a, b) \o Run(b, c) = Run(a, c)
<1> DEFINE p == Run(a, b)
           q == Run(b, c)
<1>1. /\ p \in Seq(Nat) /\ Len(p) = b - a
      /\ \A j \in 1..(b - a) : p[j] = a + j
  BY RunType
<1>2. /\ q \in Seq(Nat) /\ Len(q) = c - b
      /\ \A j \in 1..(c - b) : q[j] = b + j
  BY RunType
<1> HIDE DEF p, q
<1>3. /\ p \o q \in Seq(Nat) /\ Len(p \o q) = Len(p) + Len(q)
      /\ \A j \in 1..(Len(p) + Len(q)) :
           (p \o q)[j] = IF j <= Len(p) THEN p[j] ELSE q[j - Len(p)]
  BY <1>1, <1>2, ConcatProperties
<1>4. ASSUME NEW j \in 1..Len(p \o q) PROVE (p \o q)[j] = a + j
  <2>1. j \in Int /\ j \in 1..((b - a) + (c - b))
    BY <1>1, <1>2, <1>3
  <2>2. CASE j <= b - a
    BY <1>1, <1>2, <1>3, <2>1, <2>2
  <2>3. CASE j > b - a
    <3>1. j - (b - a) \in 1..(c - b) /\ b + (j - (b - a)) = a + j
      BY <2>1, <2>3
    <3>2. j \in 1..(Len(p) + Len(q)) /\ ~(j <= Len(p))
      BY <1>1, <1>2, <2>1, <2>3
    <3>3. (p \o q)[j] = q[j - Len(p)]
      BY <1>3, <3>2, Zenon
    <3>4. Len(p) = b - a
      BY <1>1
    <3> QED
      BY <1>2, <3>1, <3>3, <3>4
  <2> QED
    BY <2>1, <2>2, <2>3
<1>5. a + Len(p \o q) = c
  BY <1>1, <1>2, <1>3
<1> HIDE DEF p, q
<1>6. p \o q = Run(a, a + Len(p \o q))
  BY <1>3, <1>4, IsRun
<1> QED
  BY <1>5, <1>6 DEF p, q

(* A run cut in two. *)
LEMMA RunCut ==
  ASSUME NEW a \in Nat, NEW b \in Nat, NEW n \in Nat, a + n <= b
  PROVE  /\ SubSeq(Run(a, b), 1, n) = Run(a, a + n)
         /\ SubSeq(Run(a, b), n + 1, b - a) = Run(a + n, b)
<1> DEFINE p == Run(a, b)
           q == SubSeq(p, 1, n)
           t == SubSeq(p, n + 1, b - a)
<1>1. /\ p \in Seq(Nat) /\ Len(p) = b - a
      /\ \A j \in 1..(b - a) : p[j] = a + j
  BY RunType
<1> HIDE DEF p
<1>2. /\ q \in Seq(Nat) /\ Len(q) = n
      /\ \A j \in 1..n : q[j] = a + j
  BY <1>1
<1>3. /\ t \in Seq(Nat) /\ Len(t) = b - (a + n)
      /\ \A j \in 1..(b - (a + n)) : t[j] = (a + n) + j
  BY <1>1
<1>4. a + n \in Nat /\ (a + n) + Len(t) = b
  BY <1>3
<1> HIDE DEF q, t
<1>5. q = Run(a, a + n)
  BY <1>2, IsRun
<1>6. t = Run(a + n, (a + n) + Len(t))
  BY <1>3, <1>4, IsRun
<1> QED
  BY <1>4, <1>5, <1>6 DEF p, q, t

(* Its first token, and the rest. *)
LEMMA RunHead ==
  ASSUME NEW a \in Nat, NEW b \in Nat, a < b
  PROVE  Head(Run(a, b)) = a + 1 /\ Tail(Run(a, b)) = Run(a + 1, b)
<1> DEFINE p == Run(a, b)
           t == Tail(p)
<1>1. /\ p \in Seq(Nat) /\ Len(p) = b - a /\ p # <<>>
      /\ \A j \in 1..(b - a) : p[j] = a + j
  BY RunType
<1> HIDE DEF p
<1>2. /\ t \in Seq(Nat) /\ Len(t) = b - (a + 1)
      /\ \A j \in 1..(b - (a + 1)) : t[j] = (a + 1) + j
  BY <1>1
<1>3. a + 1 \in Nat /\ (a + 1) + Len(t) = b /\ Head(p) = a + 1
  BY <1>1, <1>2
<1> HIDE DEF t
<1>4. t = Run(a + 1, (a + 1) + Len(t))
  BY <1>2, <1>3, IsRun
<1> QED
  BY <1>3, <1>4 DEF p, t

-----------------------------------------------------------------------------
(* The writers *)

WriterTypeOK ==
  /\ open \in BOOLEAN
  /\ pc \in [Writers -> {"idle", "lock", "header", "payload", "once", "conn",
                         "closed"}]
  /\ frame \in [Writers -> {None, "binary", "ping", "close"}]
  /\ holder \in Writers \cup {None} /\ once \in {"new", "running", "done"}
  /\ wire \in Writers \cup {None, cut}
  /\ \A w \in Writers : pc[w] \in {"header", "payload"} => holder = w

(* On an open connection the wire is inside a frame only while its writer, *)
(* who holds writeMu, has still to write the payload.                      *)
WireInv ==
  /\ \A w \in Writers : open /\ pc[w] = "payload" => wire \in {w, cut}
  /\ open /\ wire \in Writers => holder = wire /\ pc[wire] = "payload"

WriteInv == WriterTypeOK /\ WireInv

(* The reader, and whoever closes, leave the writers where they are. *)
LEMMA OthersWrite ==
  ASSUME WriteInv, UNCHANGED writing, open' = open \/ open' = FALSE
  PROVE  WriteInv'
<1>1. CASE open' = open
  BY <1>1 DEF WriteInv, WriterTypeOK, WireInv, writing
<1>2. CASE open' = FALSE
  BY <1>2 DEF WriteInv, WriterTypeOK, WireInv, writing
<1> QED
  BY <1>1, <1>2

LEMMA LockStep ==
  ASSUME WriteInv, NEW w \in Writers, Lock(w)
  PROVE  WriteInv'
  BY ClientConnAssumption DEF Lock, WriteInv, WriterTypeOK, WireInv

(* writeMu is held by one writer only. *)
LEMMA HeldByOne ==
  ASSUME WriteInv, NEW w \in Writers, pc[w] \in {"header", "payload"}
  PROVE  \A v \in Writers \ {w} : pc[v] \notin {"header", "payload"}
  BY DEF WriteInv, WriterTypeOK

(* writeFrame returns with writeMu free and no half of a frame on an open  *)
(* connection.                                                             *)
LEMMA UnlockStep ==
  ASSUME WriteInv, NEW w \in Writers, pc[w] \in {"header", "payload"},
         Unlock(w), UNCHANGED open,
         wire' \in Writers \cup {None, cut}, open => wire' \in {None, cut}
  PROVE  WriteInv'
<1>1. WriterTypeOK'
  BY HeldByOne DEF Unlock, WriteInv, WriterTypeOK
<1>2. WireInv'
  BY HeldByOne, ClientConnAssumption DEF Unlock, WriteInv, WriterTypeOK, WireInv
<1> QED
  BY <1>1, <1>2 DEF WriteInv

(* At its header a frame finds the wire between frames, or cut. *)
LEMMA WriteFrameStep ==
  ASSUME WriteInv, NEW w \in Writers,
         WriteFrameHeader(w) \/ WriteFramePayload(w) \/ WriteFails(w)
  PROVE  WriteInv'
<1>1. /\ pc[w] = "header" /\ open => wire \in {None, cut}
      /\ pc[w] = "payload" /\ open => wire \in {w, cut}
      /\ wire # mixed
  BY ClientConnAssumption DEF WriteInv, WriterTypeOK, WireInv
<1>2. CASE WriteFrameHeader(w) /\ pc'[w] = "payload"
  BY <1>1, <1>2, HeldByOne, ClientConnAssumption
     DEF WriteFrameHeader, Out, WriteInv, WriterTypeOK, WireInv, Unlock
<1>3. CASE WriteFrameHeader(w) /\ pc'[w] # "payload"
  <2>1. Unlock(w) /\ UNCHANGED open /\ wire' \in {None, cut}
        /\ pc[w] \in {"header", "payload"}
    BY <1>1, <1>3, ClientConnAssumption
       DEF WriteFrameHeader, Out, WriteInv, WriterTypeOK
  <2> QED
    BY <2>1, UnlockStep
<1>4. CASE WriteFramePayload(w)
  <2>1. Unlock(w) /\ UNCHANGED open /\ wire' \in {None, cut}
        /\ pc[w] \in {"header", "payload"}
    BY <1>1, <1>4, ClientConnAssumption DEF WriteFramePayload, Out
  <2> QED
    BY <2>1, UnlockStep
<1>5. CASE WriteFails(w)
  <2>1. /\ Unlock(w) /\ UNCHANGED open /\ pc[w] \in {"header", "payload"}
        /\ wire' = IF open THEN cut ELSE wire
    BY <1>1, <1>5 DEF WriteFails, Out
  <2> QED
    BY <2>1, UnlockStep DEF WriteInv, WriterTypeOK
<1> QED
  BY <1>2, <1>3, <1>4, <1>5

(* A writer that only asks, or is done. *)
LEMMA AsideStep ==
  ASSUME WriteInv, NEW w \in Writers,
         Write(w) \/ Close(w) \/ CloseOnce(w) \/ CloseConn(w)
  PROVE  WriteInv'
<1> USE DEF WriteInv, WriterTypeOK, WireInv, Ask
<1>1. CASE Write(w)
  BY <1>1 DEF Write
<1>2. CASE Close(w)
  BY <1>2 DEF Close
<1>3. CASE CloseOnce(w)
  BY <1>3 DEF CloseOnce
<1>4. CASE CloseConn(w)
  BY <1>4 DEF CloseConn
<1> QED
  BY <1>1, <1>2, <1>3, <1>4

(* Reading a ping or a close frame makes the reader a writer. *)
LEMMA ReaderAsks ==
  ASSUME WriteInv, NextPayload
  PROVE  WriteInv'
<1> DEFINE f == Head(net)
<1>1. /\ pc[Reader] = "idle" /\ UNCHANGED <<open, deadline, holder, once, wire>>
      /\ \/ UNCHANGED <<pc, frame>>
         \/ Ask(Reader, f.op) /\ f.op \in {"ping", "close"}
  BY DEF NextPayload
<1>2. Reader \in Writers
  BY DEF Writers
<1> HIDE DEF f
<1> QED
  BY <1>1, <1>2 DEF WriteInv, WriterTypeOK, WireInv, Ask

(* WriteInv holds in every reachable state. *)
LEMMA WritersKeep == WriteInv /\ [Next]_vars => WriteInv'
<1> SUFFICES ASSUME WriteInv, [Next]_vars PROVE WriteInv'
  OBVIOUS
<1>1. CASE Client \/ Sniff \/ ReadRequest \/ Upgrade \/ HandlerCloses
           \/ ReadHeader \/ ReadData \/ ReadFails \/ UNCHANGED vars
  <2>1. UNCHANGED writing /\ (open' = open \/ open' = FALSE)
    BY <1>1 DEF Client, ClientSends, ClientControls, ClientRequests, Sniff,
                ReadRequest, Upgrade, HandlerCloses, ReadHeader, ReadData,
                ReadFails, vars
  <2> QED
    BY <2>1, OthersWrite
<1> QED
  BY <1>1, ReaderAsks, LockStep, WriteFrameStep, AsideStep DEF Next, Handler

(* Nobody writes before the connection is there. *)
LEMMA WritersInit == Init => WriteInv
  BY ClientConnAssumption DEF Init, WriteInv, WriterTypeOK, WireInv

THEOREM WritersInvariant == Spec => []WriteInv
  BY WritersInit, WritersKeep, PTL DEF Spec

(* For any number of receive loops and closers: pieces of two frames do    *)
(* not meet on the wire before a write has failed, with Close in between.  *)
THEOREM FramesWholeCorrect == Spec => []FramesWhole
<1>1. WriteInv => FramesWhole
  BY ClientConnAssumption DEF WriteInv, WriterTypeOK, FramesWhole
<1> QED
  BY <1>1, WritersInvariant, PTL

-----------------------------------------------------------------------------
(* What is under way *)

Ops == {"raw", "request", "binary", "continuation", "ping", "pong", "close",
        "text", "unmasked"}
DataOps == {"raw", "binary", "continuation"}

Frames == [op : Ops, fin : BOOLEAN, data : Seq(Nat), code : Seq(Nat),
           from : Nat, inside : BOOLEAN]

(* Where in the stream the data of net[i] ends, and whether it leaves the  *)
(* client inside a message.                                                *)
End(i) == IF i = Len(net) THEN sent ELSE net[i + 1].from
InsideAfter(i) == IF i = Len(net) THEN inMessage ELSE net[i + 1].inside

(* The same before the first of them. *)
NetStart == IF net = <<>> THEN sent ELSE net[1].from
InsideStart == IF net = <<>> THEN inMessage ELSE net[1].inside

(* One frame or chunk: it carries the tokens up to the next one, says how  *)
(* many, and begins a message only outside of one.                         *)
FrameOK(i) ==
  /\ net[i].from <= sent /\ net[i].from <= End(i)
  /\ net[i].data = Run(net[i].from, End(i))
  /\ net[i].code = Code(End(i) - net[i].from)
  /\ net[i].op \notin DataOps => net[i].from = End(i)
  /\ net[i].op = "binary" => ~net[i].inside
  /\ InsideAfter(i) = IF net[i].op \in DataOps THEN ~net[i].fin
                                               ELSE net[i].inside

NetInv ==
  /\ net \in Seq(Frames) /\ sent \in 0..Total /\ inMessage \in BOOLEAN
  /\ requested \in BOOLEAN
  /\ Len(net) <= MaxNet + (IF requested THEN 1 ELSE 0)
  /\ \A i \in 1..Len(net) : FrameOK(i)

(* The stream's end. *)
LEMMA Positions ==
  /\ Len(Before) \in Nat \ {0} /\ Total \in Nat
  /\ \A k \in 1..Len(Before) : Before[k] \in Nat /\ Before[k] <= Total
  /\ \A j, k \in 1..Len(Before) : j < k => Before[j] < Before[k]
<1>1. /\ Len(Before) \in Nat \ {0} /\ DOMAIN Before = 1..Len(Before)
      /\ \A k \in 1..Len(Before) : Before[k] \in Nat
  BY ClientConnAssumption
<1>2. \A j, k \in 1..Len(Before) : j < k => Before[j] < Before[k]
  BY <1>1, ClientConnAssumption
<1>3. Total \in Nat
  BY <1>1 DEF Total
<1>4. \A k \in 1..Len(Before) : Before[k] <= Total
  BY <1>1, <1>2 DEF Total
<1> QED
  BY <1>1, <1>2, <1>3, <1>4

(* readFrame reads back what a client's length encoding says, on both      *)
(* sides of the two limits, as long as its top bit is 0.                   *)
LEMMA CodeRead ==
  ASSUME NEW n \in Nat, n <= Total
  PROVE  Code(n) \in Seq(Nat) /\ DecodeLength(Code(n)) = n
<1> USE ClientConnAssumption
<1>1. CASE n <= len7
  BY <1>1 DEF Code, DecodeLength
<1>2. Int64(n) = n
  BY DEF Int64, Total
<1>3. CASE n > len7
  <2>1. PICK m \in Nat : m > len7 /\ Code(n) = <<m, n>>
    BY <1>3 DEF Code
  <2> QED
    BY <1>2, <2>1 DEF DecodeLength
<1> QED
  BY <1>1, <1>3

(* The client sends one more frame. *)
LEMMA FrameSent ==
  ASSUME NetInv, NEW o \in Ops, NEW f \in BOOLEAN, NEW n \in Nat,
         net' = Append(net, Frame(o, f, n)),
         sent' = sent + n, sent + n <= Total, o \notin DataOps => n = 0,
         inMessage' = (IF o \in DataOps THEN ~f ELSE inMessage),
         o = "binary" => ~inMessage,
         requested' \in BOOLEAN,
         Len(net) + 1 <= MaxNet + (IF requested' THEN 1 ELSE 0)
  PROVE  /\ NetInv' /\ NetStart' = NetStart /\ InsideStart' = InsideStart
         /\ net # <<>> => net' # <<>> /\ net'[1] = net[1]
<1> DEFINE g == Frame(o, f, n)
<1>0. PICK N \in Nat : N = Len(net)
  BY DEF NetInv
<1>1. /\ sent \in Nat /\ sent + n \in 0..Total /\ sent \in 0..Total
  BY Positions DEF NetInv
<1>b. inMessage' \in BOOLEAN
  BY Zenon DEF NetInv
<1>2. /\ g.op = o /\ g.fin = f /\ g.data = Run(sent, sent + n)
      /\ g.code = Code(n) /\ g.from = sent /\ g.inside = inMessage
  BY DEF Frame
<1>3. g \in Frames
  <2>1. Run(sent, sent + n) \in Seq(Nat) /\ Code(n) \in Seq(Nat)
    <3>1. n <= Total /\ sent <= sent + n
      BY <1>1, Positions
    <3> QED
      BY <1>1, <3>1, RunType, CodeRead
  <2> QED
    BY <1>1, <2>1, Positions DEF Frame, Frames, NetInv, g
<1> HIDE DEF g
<1>4. /\ net' \in Seq(Frames) /\ Len(net') = N + 1 /\ N \in Nat
      /\ net'[N + 1] = g /\ \A i \in 1..N : net'[i] = net[i]
  BY <1>0, <1>3 DEF NetInv, g
<1>5. ASSUME NEW i \in 1..N PROVE FrameOK(i)'
  <2>1. FrameOK(i)
    BY <1>0 DEF NetInv
  <2>2. End(i)' = End(i) /\ InsideAfter(i)' = InsideAfter(i)
    BY <1>0, <1>2, <1>4 DEF End, InsideAfter
  <2>3. net'[i] = net[i]
    BY <1>4
  <2>4. net[i].from <= sent'
    <3>1. net[i] \in Frames
      BY <1>0 DEF NetInv
    <3>2. net[i].from \in Nat
      BY <3>1 DEF Frames
    <3>3. net[i].from <= sent
      BY <2>1 DEF FrameOK
    <3> QED
      BY <1>1, <3>2, <3>3
  <2> QED
    BY <2>1, <2>2, <2>3, <2>4, Zenon DEF FrameOK
<1>6. FrameOK(N + 1)'
  <2>1. End(N + 1)' = sent + n /\ InsideAfter(N + 1)' = inMessage'
    BY <1>4 DEF End, InsideAfter
  <2>2. (sent + n) - sent = n
    BY <1>1
  <2>3. net'[N + 1] = g
    BY <1>4
  <2>4. sent <= sent + n
    BY <1>1
  <2>5. o \notin DataOps => sent = sent + n
    BY <1>1
  <2> QED
    BY <1>2, <2>1, <2>2, <2>3, <2>4, <2>5, Zenon DEF FrameOK
<1>7. NetInv'
  <2>1. \A i \in 1..Len(net') : FrameOK(i)'
    BY <1>4, <1>5, <1>6
  <2>2. Len(net') <= MaxNet + (IF requested' THEN 1 ELSE 0)
    BY <1>0, <1>4
  <2> QED
    BY <1>1, <1>b, <1>4, <2>1, <2>2 DEF NetInv
<1>8. net = <<>> <=> N = 0
  BY <1>0 DEF NetInv
<1>9. net' # <<>> /\ net'[1] = IF net = <<>> THEN g ELSE net[1]
  BY <1>4, <1>8
<1> QED
  BY <1>2, <1>7, <1>9 DEF NetStart, InsideStart

(* The gateway takes one. *)
LEMMA FrameTaken ==
  ASSUME NetInv, net # <<>>, net' = Tail(net),
         UNCHANGED <<sent, inMessage, requested>>
  PROVE  NetInv' /\ NetStart' = End(1) /\ InsideStart' = InsideAfter(1)
<1>0. PICK N \in Nat : N = Len(net)
  BY DEF NetInv
<1>1. /\ N \in Nat \ {0} /\ net' \in Seq(Frames) /\ Len(net') = N - 1
      /\ \A i \in 1..(N - 1) : net'[i] = net[i + 1]
      /\ net' = <<>> <=> N = 1
  <2>1. net \in Seq(Frames)
    BY DEF NetInv
  <2>2. N # 0
    BY <1>0, <2>1
  <2>3. net' \in Seq(Frames) /\ Len(net') = N - 1
    BY <1>0, <2>1, <2>2
  <2>4. \A i \in 1..(N - 1) : net'[i] = net[i + 1]
    BY <1>0, <2>1, <2>2
  <2>5. net' = <<>> <=> Len(net') = 0
    <3>1. \A q \in Seq(Frames) : q = <<>> <=> Len(q) = 0
      BY EmptySeq
    <3> QED
      BY <2>3, <3>1, Zenon
  <2>6. N \in Nat \ {0} /\ (N - 1 = 0 <=> N = 1)
    BY <2>2
  <2> QED
    BY <2>3, <2>4, <2>5, <2>6
<1>2. ASSUME NEW i \in 1..(N - 1) PROVE FrameOK(i)'
  <2>1. FrameOK(i + 1)
    BY <1>0, <1>1 DEF NetInv
  <2>2. End(i)' = End(i + 1) /\ InsideAfter(i)' = InsideAfter(i + 1)
    <3>1. i = Len(net') <=> i + 1 = Len(net)
      BY <1>0, <1>1
    <3>2. i # Len(net') => net'[i + 1] = net[i + 2]
      BY <1>0, <1>1
    <3>3. (i + 1) + 1 = i + 2
      OBVIOUS
    <3> QED
      BY <3>1, <3>2, <3>3, Zenon DEF End, InsideAfter
  <2>3. net'[i] = net[i + 1]
    BY <1>1
  <2> QED
    BY <2>1, <2>2, <2>3 DEF FrameOK
<1>3. Len(net') <= MaxNet + (IF requested' THEN 1 ELSE 0)
  BY <1>0, <1>1, ClientConnAssumption DEF NetInv
<1>4. NetInv'
  BY <1>1, <1>2, <1>3 DEF NetInv
<1>5. NetStart' = End(1) /\ InsideStart' = InsideAfter(1)
  BY <1>0, <1>1 DEF NetStart, InsideStart, End, InsideAfter
<1> QED
  BY <1>4, <1>5

(* Whatever the client does, what is first under way stays first. *)
LEMMA ClientStep ==
  ASSUME NetInv, Client
  PROVE  /\ NetInv' /\ NetStart' = NetStart /\ InsideStart' = InsideStart
         /\ net # <<>> => net' # <<>> /\ net'[1] = net[1]
<1>0. Len(net) \in Nat /\ sent \in Nat /\ sent <= Total /\ sent + 0 = sent
  BY Positions DEF NetInv
<1>1. CASE ClientSends
  <2>1. PICK n \in 0..MaxFrame, f \in BOOLEAN, o \in DataOps :
          /\ sent + n <= Total /\ net' = Append(net, Frame(o, f, n))
          /\ sent' = sent + n /\ inMessage' = ~f
          /\ o = "binary" => ~inMessage
    BY <1>1 DEF ClientSends, DataOps
  <2>2. n \in Nat /\ o \in Ops
    BY ClientConnAssumption DEF DataOps, Ops
  <2>3. inMessage' = IF o \in DataOps THEN ~f ELSE inMessage
    BY <2>1
  <2>4. /\ requested' \in BOOLEAN
        /\ Len(net) + 1 <= MaxNet + (IF requested' THEN 1 ELSE 0)
    BY <1>0, <1>1, ClientConnAssumption DEF ClientSends, NetInv
  <2> QED
    BY <2>1, <2>2, <2>3, <2>4, FrameSent
<1>2. CASE ClientControls
  <2>1. PICK o \in {"ping", "pong", "close", "text", "unmasked"} :
          net' = Append(net, Frame(o, TRUE, 0))
    BY <1>2 DEF ClientControls
  <2>2. o \in Ops /\ o \notin DataOps /\ o # "binary"
    BY DEF DataOps, Ops
  <2>3. sent' = sent + 0 /\ inMessage' = IF o \in DataOps THEN ~TRUE ELSE inMessage
    BY <1>0, <1>2, <2>2 DEF ClientControls
  <2>4. /\ requested' \in BOOLEAN
        /\ Len(net) + 1 <= MaxNet + (IF requested' THEN 1 ELSE 0)
    BY <1>0, <1>2, ClientConnAssumption DEF ClientControls, NetInv
  <2> QED
    BY <1>0, <2>1, <2>2, <2>3, <2>4, FrameSent
<1>3. CASE ClientRequests
  <2>1. net' = Append(net, Frame("request", TRUE, 0))
    BY <1>3 DEF ClientRequests
  <2>2. "request" \in Ops /\ "request" \notin DataOps
    BY DEF DataOps, Ops
  <2>3. /\ sent' = sent + 0
        /\ inMessage' = IF "request" \in DataOps THEN ~TRUE ELSE inMessage
    BY <1>0, <1>3, <2>2 DEF ClientRequests
  <2>4. /\ requested' \in BOOLEAN
        /\ Len(net) + 1 <= MaxNet + (IF requested' THEN 1 ELSE 0)
    BY <1>0, <1>3, ClientConnAssumption DEF ClientRequests, NetInv
  <2> QED
    BY <1>0, <2>1, <2>2, <2>3, <2>4, FrameSent
<1> QED
  BY <1>1, <1>2, <1>3 DEF Client

-----------------------------------------------------------------------------
(* The reader *)

(* The stages in which everything sent is still to be read or has been. *)
Reading == {"sniff", "websocket", "http", "upgrade", "read"}

(* The buffers are adjoining runs of the stream, up to what is under way,  *)
(* and gathered fragments are the beginning of a message.                  *)
Flow ==
  /\ header # 0 => header = HeaderAt + 1
  /\ got = Run(GotAt, PendingAt)
  /\ pending = Run(PendingAt, FragmentAt)
  /\ fragmentBuf = Run(FragmentAt, NetAt)
  /\ NetAt = NetStart
  /\ fragmentBuf # <<>> => InsideStart

ReaderTypeOK ==
  /\ stage \in Reading \cup {"misread", "done"} /\ framed \in BOOLEAN
  /\ header \in 0..Total
  /\ got \in Seq(Nat) /\ pending \in Seq(Nat) /\ fragmentBuf \in Seq(Nat)
  /\ packets \in Seq([header : Nat, data : Seq(Nat)])

ReadInv ==
  /\ ReaderTypeOK
  /\ PacketsAsMeant
  /\ header = 0 => got = <<>>
  /\ header # 0 => Len(got) < Length(header)
  /\ stage \in {"websocket", "http"} => net # <<>> /\ net[1].op = "request"
  /\ ~framed => fragmentBuf = <<>>
  /\ stage \in Reading => Flow

(* The packets as the client means them, and their lengths. *)
LEMMA MeantIs ==
  /\ Len(Meant) = Len(Before) - 1
  /\ \A k \in 1..(Len(Before) - 1) :
       Meant[k] = [header |-> Before[k] + 1,
                   data |-> Run(Before[k] + 1, Before[k + 1])]
<1>1. Len(Before) - 1 \in Nat
  BY Positions
<1> QED
  BY <1>1 DEF Meant

LEMMA LengthIs ==
  /\ \A token : Length(token) \in Nat
  /\ \A k \in 1..(Len(Before) - 1) :
       Length(Before[k] + 1) = Before[k + 1] - (Before[k] + 1)
<1>1. DOMAIN Packets = 1..(Len(Before) - 1)
  BY DEF Packets
<1>2. ASSUME NEW k \in 1..(Len(Before) - 1)
      PROVE  /\ Packets[k] = Before[k + 1] - (Before[k] + 1)
             /\ Packets[k] \in Nat
  <2>1. k \in 1..Len(Before) /\ k + 1 \in 1..Len(Before) /\ k < k + 1
    BY Positions
  <2>2. Before[k] \in Nat /\ Before[k + 1] \in Nat /\ Before[k] < Before[k + 1]
    BY <2>1, Positions
  <2>3. Packets[k] = Before[k + 1] - Before[k] - 1
    BY DEF Packets
  <2> QED
    BY <2>2, <2>3
<1>3. ASSUME NEW token PROVE Length(token) \in Nat
  BY <1>1, <1>2 DEF Length
<1>4. ASSUME NEW k \in 1..(Len(Before) - 1)
      PROVE  Length(Before[k] + 1) = Packets[k]
  <2> DEFINE m == CHOOSE m \in DOMAIN Packets : Before[m] + 1 = Before[k] + 1
  <2>1. m \in 1..(Len(Before) - 1) /\ Before[m] + 1 = Before[k] + 1
    BY <1>1
  <2>2. Length(Before[k] + 1) = Packets[m]
    BY <1>1 DEF Length
  <2> HIDE DEF m
  <2>3. m = k
    <3>1. m \in 1..Len(Before) /\ k \in 1..Len(Before)
      BY <2>1, Positions
    <3>2. Before[m] \in Nat /\ Before[k] \in Nat
      BY <3>1, Positions
    <3>3. ~(m < k) /\ ~(k < m)
      BY <2>1, <3>1, <3>2, Positions
    <3> QED
      BY <3>1, <3>3
  <2> QED
    BY <2>2, <2>3
<1> QED
  BY <1>2, <1>3, <1>4

(* Where the first frame under way begins. *)
LEMMA NetStarts ==
  ASSUME NetInv
  PROVE  NetStart \in Nat /\ NetStart <= Total
<1>1. CASE net = <<>>
  BY <1>1, Positions DEF NetInv, NetStart
<1>2. CASE net # <<>>
  <2>1. net[1] \in Frames /\ FrameOK(1)
    BY <1>2 DEF NetInv
  <2>2. net[1].from \in Nat
    BY <2>1 DEF Frames
  <2>3. net[1].from <= sent
    BY <2>1 DEF FrameOK
  <2> QED
    BY <1>2, <2>2, <2>3, Positions DEF NetInv, NetStart
<1> QED
  BY <1>1, <1>2

(* The buffers follow one another in the stream. *)
LEMMA InOrder ==
  ASSUME NetInv, ReadInv, stage \in Reading
  PROVE  /\ Len(packets) \in Nat /\ Len(packets) + 1 \in 1..Len(Before)
         /\ HeaderAt \in Nat /\ GotAt \in Nat /\ PendingAt \in Nat
         /\ FragmentAt \in Nat /\ NetAt \in Nat
         /\ GotAt <= PendingAt /\ PendingAt <= FragmentAt
         /\ FragmentAt <= NetAt /\ NetAt <= Total
         /\ (header = 0 => GotAt = HeaderAt /\ PendingAt = HeaderAt)
         /\ (header # 0 => GotAt = HeaderAt + 1 /\ header = GotAt)
<1>1. /\ Len(packets) \in Nat /\ Len(got) \in Nat
      /\ Len(pending) \in Nat /\ Len(fragmentBuf) \in Nat
  BY DEF ReadInv, ReaderTypeOK
<1>2. Len(packets) + 1 \in 1..Len(Before)
  <2>1. Len(packets) <= Len(Before) - 1
    BY MeantIs DEF ReadInv, PacketsAsMeant
  <2> QED
    BY <1>1, <2>1, Positions
<1>3. HeaderAt \in Nat
  BY <1>2, Positions DEF HeaderAt
<1>4. /\ header = 0 => GotAt = HeaderAt
      /\ header # 0 => GotAt = HeaderAt + 1
      /\ GotAt \in Nat
  BY <1>3 DEF GotAt
<1>5. PendingAt \in Nat /\ GotAt <= PendingAt
  BY <1>1, <1>4 DEF PendingAt
<1>6. FragmentAt \in Nat /\ PendingAt <= FragmentAt
  BY <1>1, <1>5 DEF FragmentAt
<1>7. NetAt \in Nat /\ FragmentAt <= NetAt
  BY <1>1, <1>6 DEF NetAt
<1>8. NetAt <= Total
  BY NetStarts DEF ReadInv, Flow
<1>9. header # 0 => header = HeaderAt + 1
  BY DEF ReadInv, Flow
<1>10. header = 0 => PendingAt = GotAt
  BY <1>4 DEF ReadInv, PendingAt
<1> QED
  BY <1>1, <1>2, <1>3, <1>4, <1>5, <1>6, <1>7, <1>8, <1>9, <1>10

(* And they do after a step that leaves adjoining runs in them. *)
LEMMA StillInOrder ==
  ASSUME NEW g \in Nat, NEW p \in Nat, NEW f \in Nat, NEW e \in Nat,
         g <= p, p <= f, f <= e,
         GotAt' = g, got' = Run(g, p), pending' = Run(p, f),
         fragmentBuf' = Run(f, e), NetStart' = e,
         header' # 0 => header' = HeaderAt' + 1,
         fragmentBuf' # <<>> => InsideStart'
  PROVE  /\ Flow'
         /\ got' \in Seq(Nat) /\ pending' \in Seq(Nat)
         /\ fragmentBuf' \in Seq(Nat)
<1>1. got' \in Seq(Nat) /\ Len(got') = p - g
  BY RunType
<1>2. pending' \in Seq(Nat) /\ Len(pending') = f - p
  BY RunType
<1>3. fragmentBuf' \in Seq(Nat) /\ Len(fragmentBuf') = e - f
  BY RunType
<1>4. PendingAt' = p
  BY <1>1 DEF PendingAt
<1>5. FragmentAt' = f
  BY <1>2, <1>4 DEF FragmentAt
<1>6. NetAt' = e
  BY <1>3, <1>5 DEF NetAt
<1> QED
  BY <1>1, <1>2, <1>3, <1>4, <1>5, <1>6 DEF Flow

(* ReadFullPacket hands on the packet that comes next. *)
LEMMA PacketRead ==
  ASSUME ReadInv, NEW k \in 1..(Len(Before) - 1), Len(packets) + 1 = k,
         packets' = Append(packets, [header |-> Before[k] + 1,
                                     data |-> Run(Before[k] + 1, Before[k + 1])])
  PROVE  /\ PacketsAsMeant' /\ HeaderAt' = Before[k + 1]
         /\ packets' \in Seq([header : Nat, data : Seq(Nat)])
<1> DEFINE q == [header |-> Before[k] + 1,
                 data |-> Run(Before[k] + 1, Before[k + 1])]
<1>1. /\ Before[k] \in Nat /\ Before[k + 1] \in Nat
      /\ Before[k] + 1 <= Before[k + 1]
  <2>1. k \in 1..Len(Before) /\ k + 1 \in 1..Len(Before) /\ k < k + 1
    BY Positions
  <2>2. Before[k] \in Nat /\ Before[k + 1] \in Nat /\ Before[k] < Before[k + 1]
    BY <2>1, Positions
  <2> QED
    BY <2>2
<1>2. q \in [header : Nat, data : Seq(Nat)]
  <2>1. Before[k] + 1 \in Nat
    BY <1>1
  <2>2. Run(Before[k] + 1, Before[k + 1]) \in Seq(Nat)
    BY <1>1, <2>1, RunType
  <2> QED
    BY <2>1, <2>2
<1>3. Meant[k] = q
  BY MeantIs
<1> HIDE DEF q
<1>4. packets \in Seq([header : Nat, data : Seq(Nat)]) /\ packets' = Append(packets, q)
  BY DEF ReadInv, ReaderTypeOK, q
<1>5. /\ packets' \in Seq([header : Nat, data : Seq(Nat)])
      /\ Len(packets') = k /\ DOMAIN packets' = 1..k /\ packets'[k] = q
      /\ \A j \in 1..(k - 1) : packets'[j] = packets[j]
      /\ DOMAIN packets = 1..(k - 1)
  BY <1>2, <1>4
<1>6. \A j \in DOMAIN packets' : packets'[j] = Meant[j]
  <2>1. \A j \in 1..(k - 1) : packets'[j] = Meant[j]
    BY <1>5 DEF ReadInv, PacketsAsMeant
  <2> QED
    BY <1>3, <1>5, <2>1
<1>7. PacketsAsMeant'
  <2>1. Meant' = Meant
    BY DEF Meant
  <2>2. k <= Len(Meant)
    BY MeantIs
  <2> QED
    BY <1>5, <1>6, <2>1, <2>2, Zenon DEF PacketsAsMeant
<1> QED
  BY <1>5, <1>7 DEF HeaderAt

(* Steps that leave the buffers as they are. *)
LEMMA BuffersKept ==
  ASSUME ReadInv, UNCHANGED <<pending, fragmentBuf, header, got, packets>>,
         framed' = framed \/ framed' = TRUE,
         stage' \in Reading \cup {"misread", "done"},
         stage' \in Reading =>
           stage \in Reading /\ NetStart' = NetStart /\ InsideStart' = InsideStart,
         stage' \in {"websocket", "http"} => net' # <<>> /\ net'[1].op = "request"
  PROVE  ReadInv'
<1>1. ReaderTypeOK'
  <2>1. framed' \in BOOLEAN
    BY Zenon DEF ReadInv, ReaderTypeOK
  <2> QED
    BY <2>1 DEF ReadInv, ReaderTypeOK, Total, Reading
<1>2. PacketsAsMeant' /\ (header' # 0 => Len(got') < Length(header'))
  BY DEF ReadInv, PacketsAsMeant, Meant, Length, Packets
<1>3. ~framed' => fragmentBuf' = <<>>
  BY Zenon DEF ReadInv
<1>4. ASSUME stage' \in Reading PROVE Flow'
  <2>1. HeaderAt' = HeaderAt /\ GotAt' = GotAt
    BY DEF HeaderAt, GotAt
  <2>2. /\ PendingAt' = PendingAt /\ FragmentAt' = FragmentAt /\ NetAt' = NetAt
    BY <2>1 DEF PendingAt, FragmentAt, NetAt
  <2>3. Flow
    BY <1>4 DEF ReadInv
  <2> QED
    BY <1>4, <2>1, <2>2, <2>3, Zenon DEF Flow
<1>5. header' = 0 => got' = <<>>
  BY DEF ReadInv
<1> QED
  BY <1>1, <1>2, <1>3, <1>4, <1>5, Zenon DEF ReadInv

LEMMA ClientReadStep ==
  ASSUME NetInv, ReadInv, Client
  PROVE  ReadInv'
<1>1. UNCHANGED reading
  BY DEF Client, ClientSends, ClientControls, ClientRequests
<1>2. /\ NetStart' = NetStart /\ InsideStart' = InsideStart
      /\ net # <<>> => net' # <<>> /\ net'[1] = net[1]
  BY ClientStep
<1>3. /\ stage \in Reading \cup {"misread", "done"}
      /\ stage \in {"websocket", "http"} => net # <<>> /\ net[1].op = "request"
  BY DEF ReadInv, ReaderTypeOK
<1> QED
  BY <1>1, <1>2, <1>3, BuffersKept DEF reading

(* The stream stays as it is while the client rests and none of it is read. *)
LEMMA NetKept ==
  ASSUME NetInv, UNCHANGED peer
  PROVE  NetInv' /\ NetStart' = NetStart /\ InsideStart' = InsideStart
<1>1. net' = net /\ UNCHANGED <<sent, inMessage, requested>>
  BY DEF peer
<1>2. ASSUME NEW i \in 1..Len(net) PROVE FrameOK(i)'
  <2>1. FrameOK(i)
    BY DEF NetInv
  <2>2. End(i)' = End(i) /\ InsideAfter(i)' = InsideAfter(i)
    BY <1>1, Zenon DEF End, InsideAfter
  <2> QED
    BY <1>1, <2>1, <2>2 DEF FrameOK
<1>3. NetInv'
  BY <1>1, <1>2 DEF NetInv
<1>4. NetStart' = NetStart /\ InsideStart' = InsideStart
  BY <1>1, Zenon DEF NetStart, InsideStart
<1> QED
  BY <1>3, <1>4

(* The steps of Sniff, of the upgrade, of a failing read and of writers:   *)
(* nothing arrives and nothing is taken.                                   *)
LEMMA StageStep ==
  ASSUME NetInv, ReadInv, UNCHANGED <<peer, pending, fragmentBuf, header, got, packets>>,
         framed' = framed \/ framed' = TRUE,
         stage' \in Reading \cup {"misread", "done"},
         stage' \in Reading => stage \in Reading,
         stage' \in {"websocket", "http"} => net # <<>> /\ net[1].op = "request"
  PROVE  NetInv' /\ ReadInv'
<1>1. net' = net
  BY DEF peer
<1>2. NetInv' /\ NetStart' = NetStart /\ InsideStart' = InsideStart
  BY NetKept
<1>3. ReadInv'
  BY <1>1, <1>2, BuffersKept
<1> QED
  BY <1>2, <1>3

LEMMA HandlerReadStep ==
  ASSUME NetInv, ReadInv, Sniff \/ ReadRequest \/ Upgrade \/ HandlerCloses \/ ReadFails
  PROVE  NetInv' /\ ReadInv'
<1>0. /\ stage \in Reading \cup {"misread", "done"}
      /\ stage \in {"websocket", "http"} => net # <<>> /\ net[1].op = "request"
  BY DEF ReadInv, ReaderTypeOK
<1>1. CASE Sniff
  <2>1. /\ stage = "sniff" /\ UNCHANGED <<peer, buffers>>
        /\ stage' \in {"websocket", "http", "read"}
        /\ stage' \in {"websocket", "http"} => net # <<>> /\ Head(net).op = "request"
    BY <1>1 DEF Sniff
  <2>2. net # <<>> => Head(net) = net[1]
    BY DEF NetInv
  <2> QED
    BY <2>1, <2>2, StageStep DEF buffers, Reading
<1>2. CASE ReadRequest
  <2>1. /\ net' = Tail(net) /\ UNCHANGED <<requested, sent, inMessage, buffers>>
        /\ stage \in {"websocket", "http"} /\ stage' \in {"done", "upgrade"}
    BY <1>2 DEF ReadRequest
  <2>2. net # <<>> /\ net[1].op = "request"
    BY <1>0, <2>1
  <2>3. NetInv' /\ NetStart' = End(1) /\ InsideStart' = InsideAfter(1)
    BY <2>1, <2>2, FrameTaken
  <2>4. FrameOK(1) /\ "request" \notin DataOps
    BY <2>2 DEF NetInv, DataOps
  <2>5. End(1) = NetStart /\ InsideAfter(1) = InsideStart
    BY <2>2, <2>4, Zenon DEF FrameOK, NetStart, InsideStart
  <2> QED
    BY <2>1, <2>3, <2>5, BuffersKept DEF buffers, Reading
<1>3. CASE Upgrade
  <2>1. /\ stage = "upgrade" /\ stage' \in {"done", "read"}
        /\ framed' = framed \/ framed' = TRUE
        /\ UNCHANGED <<peer, pending, fragmentBuf, header, got, packets>>
    BY <1>3 DEF Upgrade
  <2> QED
    BY <2>1, StageStep DEF Reading
<1>4. CASE HandlerCloses
  <2>1. /\ stage = "done" /\ stage' = "done" /\ net' = <<>>
        /\ pending' = <<>> /\ fragmentBuf' = <<>> /\ header' = 0 /\ got' = <<>>
        /\ UNCHANGED <<requested, sent, inMessage, framed, packets>>
    BY <1>4 DEF HandlerCloses
  <2>2. NetInv'
    BY <2>1, ClientConnAssumption DEF NetInv, Total
  <2>3. ReaderTypeOK'
    BY <2>1, Positions DEF ReadInv, ReaderTypeOK, Total
  <2>4. PacketsAsMeant'
    BY <2>1 DEF ReadInv, PacketsAsMeant, Meant
  <2> QED
    BY <2>1, <2>2, <2>3, <2>4 DEF ReadInv, Reading
<1>5. CASE ReadFails
  <2>1. stage' = "done" /\ UNCHANGED <<peer, buffers>>
    BY <1>5 DEF ReadFails
  <2> QED
    BY <2>1, StageStep DEF buffers, Reading
<1> QED
  BY <1>1, <1>2, <1>3, <1>4, <1>5

LEMMA WriterReadStep ==
  ASSUME NetInv, ReadInv, NEW w \in Writers,
         \/ Write(w) \/ Close(w) \/ Lock(w) \/ WriteFrameHeader(w)
         \/ WriteFramePayload(w) \/ WriteFails(w) \/ CloseOnce(w) \/ CloseConn(w)
  PROVE  NetInv' /\ ReadInv'
<1>1. UNCHANGED <<peer, buffers>> /\ (stage' = stage \/ stage' = "done")
  BY DEF Write, Close, Lock, WriteFrameHeader, WriteFramePayload, WriteFails,
         CloseOnce, CloseConn, Unlock, reading, buffers
<1>2. /\ stage \in Reading \cup {"misread", "done"}
      /\ stage \in {"websocket", "http"} => net # <<>> /\ net[1].op = "request"
  BY DEF ReadInv, ReaderTypeOK
<1> QED
  BY <1>1, <1>2, StageStep DEF buffers, Reading

(* Behind the last packet there is nothing to read, so what is pending     *)
(* where a header is due is the header of a packet the client means.       *)
LEMMA PacketThere ==
  ASSUME NetInv, ReadInv, stage \in Reading, HeaderAt < Total
  PROVE  /\ Len(packets) + 1 \in 1..(Len(Before) - 1)
         /\ HeaderAt = Before[Len(packets) + 1]
         /\ Before[Len(packets) + 2] \in Nat
         /\ HeaderAt + 1 <= Before[Len(packets) + 2]
         /\ Length(HeaderAt + 1) = Before[Len(packets) + 2] - (HeaderAt + 1)
<1> DEFINE k == Len(packets) + 1
<1>1. k \in 1..Len(Before) /\ HeaderAt \in Nat /\ HeaderAt = Before[k]
  BY InOrder DEF HeaderAt
<1>2. k # Len(Before)
  BY <1>1 DEF Total
<1> HIDE DEF k
<1>3. k \in 1..(Len(Before) - 1) /\ k + 1 \in 1..Len(Before) /\ k < k + 1
  BY <1>1, <1>2, Positions
<1>4. Before[k + 1] \in Nat /\ Before[k] < Before[k + 1]
  BY <1>1, <1>3, Positions
<1>5. Length(Before[k] + 1) = Before[k + 1] - (Before[k] + 1)
  BY <1>3, LengthIs
<1>6. k + 1 = Len(packets) + 2
  BY InOrder DEF k
<1>7. HeaderAt + 1 <= Before[k + 1]
  BY <1>1, <1>4
<1> QED
  BY <1>1, <1>3, <1>4, <1>5, <1>6, <1>7 DEF k

LEMMA ReadHeaderStep ==
  ASSUME NetInv, ReadInv, ReadHeader
  PROVE  NetInv' /\ ReadInv'
<1>1. /\ stage = "read" /\ pending # <<>> /\ header = 0 /\ got = <<>>
      /\ UNCHANGED <<peer, framed, fragmentBuf, got>> /\ pending' = Tail(pending)
      /\ stage \in Reading
  BY DEF ReadHeader, ReadInv, Reading
<1>2. NetInv' /\ NetStart' = NetStart /\ InsideStart' = InsideStart
  BY <1>1, NetKept
<1>3. PICK k \in Nat : k = Len(packets) + 1
  BY <1>1, InOrder
<1>4. PICK h \in Nat, f \in Nat, e \in Nat :
        /\ h = HeaderAt /\ f = FragmentAt /\ e = NetAt
        /\ pending = Run(h, f) /\ fragmentBuf = Run(f, e) /\ e = NetStart
        /\ h <= f /\ f <= e /\ e <= Total
        /\ fragmentBuf # <<>> => InsideStart
  BY <1>1, InOrder, Zenon DEF ReadInv, Flow
<1>5. h < f /\ Head(pending) = h + 1 /\ pending' = Run(h + 1, f)
  <2>1. h # f
    BY <1>1, <1>4, RunType
  <2> QED
    BY <1>1, <1>4, <2>1, RunHead
<1>6. /\ k \in 1..(Len(Before) - 1) /\ h = Before[k] /\ Before[k + 1] \in Nat
      /\ h + 1 <= Before[k + 1] /\ Length(h + 1) = Before[k + 1] - (h + 1)
  <2>1. HeaderAt < Total
    BY <1>4, <1>5, Positions
  <2>2. k + 1 = Len(packets) + 2
    BY <1>1, <1>3, InOrder
  <2> QED
    BY <1>1, <1>3, <1>4, <2>1, <2>2, PacketThere
<1>7. /\ h + 1 \in Nat /\ h + 1 <= f /\ h + 1 \in 0..Total
      /\ got' = Run(h + 1, h + 1)
  <2>1. Run(h + 1, h + 1) = <<>>
    BY RunType
  <2>2. h + 1 <= f
    BY <1>5
  <2>3. h + 1 <= Total
    BY <1>4, <2>2, Positions
  <2> QED
    BY <1>1, <2>1, <2>2, <2>3
<1>8. /\ got' \in Seq(Nat) /\ pending' \in Seq(Nat) /\ fragmentBuf' \in Seq(Nat)
      /\ framed' \in BOOLEAN /\ (~framed' => fragmentBuf' = <<>>)
      /\ fragmentBuf' = Run(f, e)
  BY <1>1, <1>4, <1>5, <1>7, RunType DEF ReadInv, ReaderTypeOK
<1>9. fragmentBuf' # <<>> => InsideStart'
  BY <1>1, <1>2, <1>4, Zenon
<1>10. /\ packets \in Seq([header : Nat, data : Seq(Nat)]) /\ PacketsAsMeant
       /\ Total' = Total /\ Meant' = Meant
  BY DEF ReadInv, ReaderTypeOK, Total, Meant
<1>a. \/ /\ Length(h + 1) > MaxMessageSize
         /\ stage' = "done" /\ UNCHANGED <<header, packets>>
      \/ /\ Length(h + 1) = 0
         /\ packets' = Append(packets, [header |-> h + 1, data |-> <<>>])
         /\ UNCHANGED <<stage, header>>
      \/ /\ Length(h + 1) \in 1..MaxMessageSize
         /\ header' = h + 1 /\ UNCHANGED <<stage, packets>>
  BY <1>5, Zenon DEF ReadHeader
<1>b. PICK size \in Int : size = Length(h + 1)
  BY <1>6
<1>11. CASE size > MaxMessageSize
  <2>1. stage' = "done" /\ UNCHANGED <<header, packets>>
    BY <1>a, <1>b, <1>11, ClientConnAssumption
  <2>2. ReaderTypeOK' /\ PacketsAsMeant'
    BY <1>1, <1>8, <1>10, <2>1, Positions DEF ReaderTypeOK, PacketsAsMeant
  <2> QED
    BY <1>1, <1>2, <1>8, <2>1, <2>2 DEF ReadInv, Reading
<1>12. CASE size = 0
  <2>1. /\ packets' = Append(packets, [header |-> h + 1, data |-> <<>>])
        /\ UNCHANGED <<stage, header>>
    BY <1>a, <1>b, <1>12, ClientConnAssumption
  <2>2. Before[k + 1] = h + 1 /\ Run(h + 1, Before[k + 1]) = <<>>
    BY <1>1, <1>6, <1>7, <1>b, <1>12
  <2>3. /\ PacketsAsMeant' /\ HeaderAt' = h + 1
        /\ packets' \in Seq([header : Nat, data : Seq(Nat)])
    BY <1>3, <1>6, <2>1, <2>2, PacketRead
  <2>4. GotAt' = h + 1
    BY <1>1, <1>7, <2>1, <2>3 DEF GotAt
  <2>5. Flow'
    BY <1>1, <1>2, <1>4, <1>5, <1>7, <1>8, <1>9, <2>1, <2>4, StillInOrder
  <2>6. ReaderTypeOK'
    BY <1>1, <1>8, <2>1, <2>3, <1>10, Positions DEF ReaderTypeOK, Reading
  <2> QED
    BY <1>1, <1>2, <1>8, <2>1, <2>3, <2>5, <2>6 DEF ReadInv
<1>13. CASE size \in 1..MaxMessageSize
  <2>1. header' = h + 1 /\ UNCHANGED <<stage, packets>>
    BY <1>a, <1>b, <1>13, ClientConnAssumption
  <2>2. header' # 0 /\ HeaderAt' = h
    BY <1>4, <2>1 DEF HeaderAt
  <2>3. GotAt' = h + 1
    BY <2>2 DEF GotAt
  <2>4. Flow'
    BY <1>1, <1>2, <1>4, <1>5, <1>7, <1>8, <1>9, <2>1, <2>2, <2>3, StillInOrder
  <2>5. ReaderTypeOK' /\ PacketsAsMeant'
    BY <1>1, <1>7, <1>8, <1>10, <2>1 DEF ReaderTypeOK, PacketsAsMeant, Reading
  <2>6. Len(got') < Length(header')
    <3>1. Len(got') = 0
      BY <1>1
    <3> QED
      BY <1>b, <1>13, <2>1, <3>1
  <2>7. Length(header)' = Length(header')
    BY DEF Length, Packets
  <2> QED
    BY <1>1, <1>2, <1>8, <2>1, <2>2, <2>4, <2>5, <2>6, <2>7 DEF ReadInv
<1> QED
  <2>1. Length(h + 1) \in Nat
    BY LengthIs
  <2> QED
    BY <1>b, <1>11, <1>12, <1>13, <2>1, ClientConnAssumption

LEMMA ReadDataStep ==
  ASSUME NetInv, ReadInv, ReadData
  PROVE  NetInv' /\ ReadInv'
<1> DEFINE missing == Length(header) - Len(got)
           min == IF missing < Len(pending) THEN missing ELSE Len(pending)
           data == got \o SubSeq(pending, 1, min)
<1>1. /\ stage = "read" /\ pending # <<>> /\ header # 0
      /\ UNCHANGED <<peer, stage, framed, fragmentBuf>> /\ stage \in Reading
      /\ pending' = SubSeq(pending, min + 1, Len(pending))
      /\ IF Len(data) < Length(header)
           THEN got' = data /\ UNCHANGED <<header, packets>>
           ELSE /\ packets' = Append(packets, [header |-> header, data |-> data])
                /\ got' = <<>> /\ header' = 0
  BY DEF ReadData, Reading
<1>2. NetInv' /\ NetStart' = NetStart /\ InsideStart' = InsideStart
  BY <1>1, NetKept
<1>3. PICK k \in Nat : k = Len(packets) + 1
  BY <1>1, InOrder
<1>4. PICK h \in Nat, p \in Nat, f \in Nat, e \in Nat :
        /\ h = HeaderAt /\ p = PendingAt /\ f = FragmentAt /\ e = NetAt
        /\ header = h + 1 /\ got = Run(h + 1, p)
        /\ pending = Run(p, f) /\ fragmentBuf = Run(f, e) /\ e = NetStart
        /\ h + 1 <= p /\ p <= f /\ f <= e
        /\ fragmentBuf # <<>> => InsideStart
  BY <1>1, InOrder, Zenon DEF ReadInv, Flow
<1>5. /\ k \in 1..(Len(Before) - 1) /\ h = Before[k] /\ Before[k + 1] \in Nat
      /\ h + 1 <= Before[k + 1] /\ Length(h + 1) = Before[k + 1] - (h + 1)
  <2>1. HeaderAt < Total
    BY <1>4, Positions DEF ReadInv, ReaderTypeOK
  <2>2. k + 1 = Len(packets) + 2
    BY <1>1, <1>3, InOrder
  <2> QED
    BY <1>1, <1>3, <1>4, <2>1, <2>2, PacketThere
<1>6. PICK b \in Nat : b = Before[k + 1]
  BY <1>5
<1>g. PICK g \in Nat : g = h + 1
  OBVIOUS
<1>7. /\ Len(got) = p - g /\ Len(pending) = f - p
      /\ Length(header) = b - g /\ p < b /\ g <= p
  <2>0. g <= p /\ got = Run(g, p) /\ pending = Run(p, f) /\ p <= f /\ header = g
    BY <1>4, <1>g
  <2>1. Len(got) = p - g /\ Len(pending) = f - p
    BY <2>0, RunType
  <2>2. Len(got) < Length(header)
    BY <1>1 DEF ReadInv
  <2>3. Length(header) = b - g
    BY <1>5, <1>6, <1>g, <2>0
  <2> QED
    BY <2>0, <2>1, <2>2, <2>3
<1>8. PICK n \in Nat : n = min /\ n = (IF b < f THEN b ELSE f) - p /\ p + n <= f
  <2>1. missing = b - p
    BY <1>7
  <2> QED
    BY <1>4, <1>7, <2>1
<1> HIDE DEF missing, min
<1>m. PICK m \in Nat : m = p + n /\ p <= m /\ m <= f /\ m <= b
  BY <1>7, <1>8
<1>9. data = Run(g, m) /\ pending' = Run(m, f)
  <2>0. p + n <= f
    BY <1>8
  <2>1. /\ SubSeq(Run(p, f), 1, n) = Run(p, p + n)
        /\ SubSeq(Run(p, f), n + 1, f - p) = Run(p + n, f)
    <3> DEFINE Cut(x, y, z) == /\ SubSeq(Run(x, y), 1, z) = Run(x, x + z)
                               /\ SubSeq(Run(x, y), z + 1, y - x) = Run(x + z, y)
    <3>1. \A x, y, z \in Nat : x + z <= y => Cut(x, y, z)
      BY RunCut
    <3> HIDE DEF Cut
    <3>2. Cut(p, f, n)
      BY <2>0, <3>1
    <3> QED
      BY <3>2 DEF Cut
  <2>2. SubSeq(pending, 1, min) = Run(p, m) /\ pending' = Run(m, f)
    BY <1>1, <1>4, <1>7, <1>8, <1>m, <2>1
  <2>3. Run(g, p) \o Run(p, m) = Run(g, m)
    <3> DEFINE Join(x, y, z) == Run(x, y) \o Run(y, z) = Run(x, z)
    <3>1. \A x, y, z \in Nat : x <= y /\ y <= z => Join(x, y, z)
      BY RunJoin
    <3> HIDE DEF Join
    <3>2. Join(g, p, m)
      BY <1>7, <1>m, <3>1
    <3> QED
      BY <3>2 DEF Join
  <2>4. got = Run(g, p)
    BY <1>4, <1>g
  <2> QED
    BY <2>2, <2>3, <2>4
<1> HIDE DEF data
<1>10. /\ framed' \in BOOLEAN /\ (~framed' => fragmentBuf' = <<>>)
       /\ fragmentBuf' = Run(f, e)
  BY <1>1, <1>4 DEF ReadInv, ReaderTypeOK
<1>11. fragmentBuf' # <<>> => InsideStart'
  BY <1>1, <1>2, <1>4, Zenon
<1>12. /\ packets \in Seq([header : Nat, data : Seq(Nat)]) /\ PacketsAsMeant
       /\ Total' = Total /\ Meant' = Meant
  BY DEF ReadInv, ReaderTypeOK, Total, Meant
<1>13. Len(data) = m - g /\ g <= m
  <2>1. g <= m
    BY <1>7, <1>m
  <2> QED
    BY <1>9, <2>1, RunType
<1>14. CASE m < b
  <2>1. got' = data /\ UNCHANGED <<header, packets>>
    BY <1>1, <1>7, <1>13, <1>14
  <2>2. HeaderAt' = h /\ header' # 0 /\ header' = g
    BY <1>1, <1>4, <1>g, <2>1 DEF HeaderAt
  <2>3. GotAt' = g /\ header' = HeaderAt' + 1
    BY <1>g, <2>2 DEF GotAt
  <2>5. /\ Flow' /\ got' \in Seq(Nat) /\ pending' \in Seq(Nat)
        /\ fragmentBuf' \in Seq(Nat)
    BY <1>2, <1>4, <1>m, <1>9, <1>10, <1>11, <1>13, <2>1, <2>3, StillInOrder
  <2>6. ReaderTypeOK' /\ PacketsAsMeant'
    BY <1>1, <1>10, <1>12, <2>1, <2>5 DEF ReadInv, ReaderTypeOK, PacketsAsMeant
  <2>7. Len(got') < Length(header')
    BY <1>7, <1>13, <1>14, <2>1
  <2>8. Length(header)' = Length(header')
    BY DEF Length, Packets
  <2> QED
    BY <1>1, <1>2, <1>10, <2>2, <2>5, <2>6, <2>7, <2>8 DEF ReadInv
<1>15. CASE m = b
  <2>1. /\ packets' = Append(packets, [header |-> header, data |-> data])
        /\ got' = <<>> /\ header' = 0
    BY <1>1, <1>7, <1>13, <1>15
  <2>2. /\ PacketsAsMeant' /\ HeaderAt' = b
        /\ packets' \in Seq([header : Nat, data : Seq(Nat)])
    BY <1>3, <1>4, <1>5, <1>6, <1>g, <1>9, <1>15, <2>1, PacketRead
  <2>3. GotAt' = b /\ got' = Run(b, b)
    BY <2>1, <2>2, RunType DEF GotAt
  <2>4. /\ Flow' /\ got' \in Seq(Nat) /\ pending' \in Seq(Nat)
        /\ fragmentBuf' \in Seq(Nat)
    <3>1. b <= b /\ b <= f /\ f <= e
      BY <1>4, <1>m, <1>15
    <3>2. pending' = Run(b, f) /\ fragmentBuf' = Run(f, e) /\ NetStart' = e
      BY <1>2, <1>4, <1>9, <1>10, <1>15
    <3>3. header' # 0 => header' = HeaderAt' + 1
      BY <2>1
    <3> QED
      BY <1>11, <2>3, <3>1, <3>2, <3>3, StillInOrder, Zenon
  <2>5. header' \in 0..Total'
    BY <1>12, <2>1, Positions
  <2>6. ReaderTypeOK'
    BY <1>1, <1>10, <2>2, <2>4, <2>5, Zenon DEF ReaderTypeOK
  <2> QED
    BY <1>1, <1>2, <1>10, <2>1, <2>2, <2>4, <2>6 DEF ReadInv
<1> QED
  BY <1>m, <1>14, <1>15

LEMMA EndType ==
  ASSUME NetInv, net # <<>>
  PROVE  End(1) \in Nat /\ End(1) <= Total
<1>1. PICK n \in Nat : n = Len(net) /\ n # 0
  BY DEF NetInv
<1>2. CASE n = 1
  BY <1>1, <1>2, Positions DEF NetInv, End
<1>3. CASE n # 1
  <2>1. 2 \in 1..n /\ 1 + 1 = 2
    BY <1>1, <1>3
  <2>2. net[2] \in Frames /\ End(1) = net[2].from
    BY <1>1, <1>3, <2>1 DEF NetInv, End
  <2>3. net[2].from \in Nat /\ net[2].from <= sent
    BY <1>1, <2>1, <2>2 DEF NetInv, FrameOK, Frames
  <2> QED
    BY <2>2, <2>3, Positions DEF NetInv
<1> QED
  BY <1>2, <1>3

(* Read takes the run a..z that is first under way, and its buffers hold   *)
(* adjoining runs after that.                                              *)
LEMMA PayloadTaken ==
  ASSUME ReadInv, stage = "read", stage' = "read", UNCHANGED <<header, got, packets>>,
         framed' = framed, ~framed' => fragmentBuf' = <<>>,
         NEW f \in Nat, NEW e \in Nat, PendingAt \in Nat, GotAt \in Nat,
         GotAt <= PendingAt, PendingAt <= f, f <= e,
         pending' = Run(PendingAt, f), fragmentBuf' = Run(f, e), NetStart' = e,
         fragmentBuf' # <<>> => InsideStart'
  PROVE  ReadInv'
<1>1. HeaderAt' = HeaderAt /\ GotAt' = GotAt
  BY DEF HeaderAt, GotAt
<1>2. /\ got = Run(GotAt, PendingAt) /\ (header # 0 => header = HeaderAt + 1)
      /\ ReaderTypeOK /\ PacketsAsMeant
  BY DEF ReadInv, Flow, Reading
<1>3. PICK g \in Nat, p \in Nat : g = GotAt /\ p = PendingAt
  OBVIOUS
<1>4. /\ Flow' /\ got' \in Seq(Nat) /\ pending' \in Seq(Nat)
      /\ fragmentBuf' \in Seq(Nat)
  <2>1. /\ g <= p /\ p <= f /\ GotAt' = g /\ got' = Run(g, p)
        /\ pending' = Run(p, f) /\ (header' # 0 => header' = HeaderAt' + 1)
    BY <1>1, <1>2, <1>3
  <2> QED
    BY <2>1, StillInOrder
<1>5. framed' \in BOOLEAN
  BY <1>2 DEF ReaderTypeOK
<1>6. ReaderTypeOK'
  BY <1>2, <1>4, <1>5 DEF ReaderTypeOK, Reading, Total
<1>7. PacketsAsMeant' /\ (header' # 0 => Len(got') < Length(header'))
  BY <1>2 DEF ReadInv, PacketsAsMeant, Meant, Length, Packets
<1>8. header' = 0 => got' = <<>>
  BY DEF ReadInv
<1> QED
  BY <1>4, <1>6, <1>7, <1>8 DEF ReadInv

LEMMA DataFrameStep ==
  ASSUME NetInv, ReadInv, stage = "read", pending = <<>>, net # <<>>, framed,
         net' = Tail(net), UNCHANGED <<sent, inMessage, requested>>,
         UNCHANGED <<framed, header, got, packets>>,
         Head(net).op \in {"binary", "continuation"},
         DataFrame(Head(net), SubSeq(Head(net).data, 1, DecodeLength(Head(net).code)))
  PROVE  ReadInv'
<1>0. PICK fr \in Frames : fr = net[1] /\ fr = Head(net)
  BY DEF NetInv
<1>1. FrameOK(1) /\ fr.op \in DataOps /\ stage \in Reading
  BY <1>0 DEF NetInv, DataOps, Reading
<1>2. NetInv' /\ NetStart' = End(1) /\ InsideStart' = InsideAfter(1)
  BY FrameTaken
<1>3. PICK a \in Nat, z \in Nat :
        a = fr.from /\ z = End(1) /\ a <= z /\ z <= Total
  <2>1. fr.from \in Nat
    BY DEF Frames
  <2>2. End(1) \in Nat /\ End(1) <= Total
    BY EndType
  <2>3. fr.from <= End(1)
    BY <1>0, <1>1 DEF FrameOK
  <2> QED
    BY <2>1, <2>2, <2>3
<1>4. fr.data = Run(a, z) /\ fr.code = Code(z - a) /\ NetStart = a
  BY <1>0, <1>1, <1>3, Zenon DEF FrameOK, NetStart
<1>5. SubSeq(fr.data, 1, DecodeLength(fr.code)) = Run(a, z)
  <2>1. z - a \in Nat /\ a + (z - a) = z /\ a + (z - a) <= z /\ z - a <= Total
    BY <1>3, Positions
  <2>2. DecodeLength(fr.code) = z - a
    BY <1>4, <2>1, CodeRead
  <2>3. SubSeq(Run(a, z), 1, z - a) = Run(a, a + (z - a))
    BY <2>1, RunCut
  <2> QED
    BY <1>4, <2>1, <2>2, <2>3
<1>6. PICK p \in Nat : /\ p = PendingAt /\ p = FragmentAt /\ p <= a
                       /\ fragmentBuf = Run(p, a) /\ a = NetAt
  <2>1. FragmentAt = PendingAt
    BY <1>1, InOrder DEF FragmentAt
  <2>2. NetAt = a /\ fragmentBuf = Run(FragmentAt, NetAt)
    BY <1>1, <1>4 DEF ReadInv, Flow
  <2> QED
    BY <1>1, <2>1, <2>2, InOrder
<1>7. /\ DataFrame(fr, Run(a, z)) /\ GotAt \in Nat /\ PendingAt \in Nat
      /\ GotAt <= PendingAt
  BY <1>0, <1>1, <1>5, InOrder
<1>j. Run(p, a) \o Run(a, z) = Run(p, z) /\ p <= z
  <2>1. p <= a /\ a <= z
    BY <1>3, <1>6
  <2>2. Run(p, a) \o Run(a, z) = Run(p, z)
    BY <2>1, RunJoin
  <2> QED
    BY <2>1, <2>2
<1>k. Run(p, p) = <<>> /\ Run(z, z) = <<>>
  BY RunNone
<1>f. framed' = framed /\ (~framed' => fragmentBuf' = <<>>)
  BY Zenon
<1>8. CASE fr.op = "continuation" /\ fragmentBuf = <<>>
  <2>1. stage' = "done" /\ UNCHANGED <<pending, fragmentBuf>>
    BY <1>7, <1>8 DEF DataFrame, Stop
  <2> QED
    BY <2>1, BuffersKept DEF Reading
<1>9. CASE ~(fr.op = "continuation" /\ fragmentBuf = <<>>) /\ fr.fin
  <2>1. /\ stage' = "read"
        /\ pending' = (IF fr.op = "binary" THEN Run(a, z) ELSE fragmentBuf \o Run(a, z))
        /\ fragmentBuf' = (IF fr.op = "binary" THEN fragmentBuf ELSE <<>>)
    BY <1>7, <1>9 DEF DataFrame
  <2>2. fr.op = "binary" => fragmentBuf = <<>> /\ p = a
    <3>1. fr.op = "binary" => ~InsideStart
      BY <1>0, <1>1, Zenon DEF FrameOK, InsideStart
    <3>2. fragmentBuf # <<>> => InsideStart
      BY <1>1 DEF ReadInv, Flow
    <3>3. fragmentBuf = <<>> => p = a
      BY <1>6, RunType
    <3> QED
      BY <3>1, <3>2, <3>3, Zenon
  <2>3. pending' = Run(PendingAt, z) /\ fragmentBuf' = Run(z, z) /\ fragmentBuf' = <<>>
    BY <1>6, <1>j, <1>k, <2>1, <2>2
  <2>4. PendingAt <= z /\ z <= z /\ NetStart' = z
    BY <1>2, <1>3, <1>6, <1>j
  <2> QED
    BY <1>7, <1>f, <2>1, <2>3, <2>4, PayloadTaken
<1>10. CASE ~(fr.op = "continuation" /\ fragmentBuf = <<>>) /\ ~fr.fin
  <2>1. /\ stage' = "read" /\ pending' = <<>>
        /\ fragmentBuf' = fragmentBuf \o Run(a, z)
    BY <1>7, <1>10 DEF DataFrame
  <2>2. pending' = Run(PendingAt, p) /\ fragmentBuf' = Run(p, z)
    BY <1>6, <1>j, <1>k, <2>1
  <2>3. PendingAt <= p /\ p <= z /\ NetStart' = z
    BY <1>2, <1>3, <1>6, <1>j
  <2>4. InsideStart'
    BY <1>0, <1>1, <1>2, <1>10, Zenon DEF FrameOK
  <2> QED
    BY <1>7, <1>f, <2>1, <2>2, <2>3, <2>4, PayloadTaken
<1> QED
  BY <1>8, <1>9, <1>10

LEMMA NextPayloadStep ==
  ASSUME NetInv, ReadInv, NextPayload
  PROVE  NetInv' /\ ReadInv'
<1>0. /\ stage = "read" /\ pending = <<>> /\ net # <<>> /\ net' = Tail(net)
      /\ UNCHANGED <<sent, inMessage, requested>>
      /\ UNCHANGED <<framed, header, got, packets>> /\ stage \in Reading
  BY DEF NextPayload, Reading
<1>1. PICK fr \in Frames : fr = net[1] /\ fr = Head(net)
  BY <1>0 DEF NetInv
<1>2. NetInv' /\ NetStart' = End(1) /\ InsideStart' = InsideAfter(1)
  BY <1>0, FrameTaken
<1>3. FrameOK(1)
  BY <1>0 DEF NetInv
<1>4. CASE /\ ~framed /\ pending' = fr.data /\ fragmentBuf' = fragmentBuf
           /\ stage' = IF fr.op = "raw" THEN stage ELSE "misread"
  <2>1. fragmentBuf = <<>> /\ fragmentBuf' = <<>> /\ (~framed' => fragmentBuf' = <<>>)
    BY <1>4 DEF ReadInv
  <2>2. CASE fr.op # "raw"
    <3>1. stage' = "misread" /\ pending' \in Seq(Nat)
      BY <1>4, <2>2 DEF Frames
    <3>2. ReaderTypeOK' /\ PacketsAsMeant'
      BY <1>0, <2>1, <3>1 DEF ReadInv, ReaderTypeOK, PacketsAsMeant, Meant, Total
    <3>3. header' # 0 => Len(got') < Length(header')
      BY <1>0 DEF ReadInv
    <3>4. Length(header)' = Length(header')
      BY DEF Length, Packets
    <3> QED
      BY <1>0, <1>2, <2>1, <3>1, <3>2, <3>3, <3>4 DEF ReadInv, Reading
  <2>3. CASE fr.op = "raw"
    <3>1. /\ GotAt \in Nat /\ PendingAt \in Nat /\ GotAt <= PendingAt
          /\ FragmentAt = PendingAt /\ NetAt = FragmentAt
      BY <1>0, <2>1, InOrder DEF FragmentAt, NetAt
    <3>2. NetAt = NetStart
      BY <1>0 DEF ReadInv, Flow
    <3>3. NetStart = net[1].from
      BY <1>0 DEF NetStart
    <3>4. pending' = Run(PendingAt, End(1)) /\ PendingAt <= End(1)
      BY <1>1, <1>3, <1>4, <3>1, <3>2, <3>3 DEF FrameOK
    <3>5. End(1) \in Nat
      BY <1>0, EndType
    <3>6. PICK z \in Nat : z = End(1) /\ Run(z, z) = <<>>
      BY <3>5, RunNone
    <3>7. /\ stage' = "read" /\ PendingAt <= z /\ z <= z
          /\ pending' = Run(PendingAt, z) /\ fragmentBuf' = Run(z, z) /\ NetStart' = z
      <4>1. stage' = "read"
        BY <1>0, <1>4, <2>3
      <4>2. NetStart' = z
        BY <1>2, <3>6
      <4>3. fragmentBuf' = Run(z, z)
        BY <2>1, <3>6
      <4> QED
        BY <3>4, <3>6, <4>1, <4>2, <4>3
    <3> QED
      BY <1>0, <1>2, <2>1, <3>1, <3>7, PayloadTaken
  <2> QED
    BY <2>2, <2>3
<1>5. CASE stage' = "done" /\ UNCHANGED <<pending, fragmentBuf>>
  BY <1>0, <1>2, <1>5, BuffersKept DEF Reading
<1>6. CASE /\ framed /\ fr.op \in {"binary", "continuation"}
           /\ DataFrame(fr, SubSeq(fr.data, 1, DecodeLength(fr.code)))
  BY <1>0, <1>1, <1>2, <1>6, DataFrameStep
<1>7. CASE /\ fr.op \in {"ping", "close", "pong"}
           /\ UNCHANGED <<stage, pending, fragmentBuf>>
  <2>1. fr.op \notin DataOps
    BY <1>7 DEF DataOps
  <2>2. End(1) = NetStart /\ InsideAfter(1) = InsideStart
    BY <1>0, <1>1, <1>3, <2>1, Zenon DEF FrameOK, NetStart, InsideStart
  <2> QED
    BY <1>0, <1>2, <1>7, <2>2, BuffersKept DEF Reading
<1> QED
  BY <1>0, <1>1, <1>4, <1>5, <1>6, <1>7 DEF NextPayload, Stop

(* What is under way, what the reader holds and what it has handed on are, *)
(* in every reachable state, the client's stream.                          *)
THEOREM StreamInvariant == Spec => [](NetInv /\ ReadInv)
<1>1. ASSUME Init PROVE NetInv /\ ReadInv
  <2>0. 0 \in 0..Total /\ 0 <= MaxNet /\ MaxNet \in Nat /\ 0 <= Len(Meant)
    <3>1. 0 \in 0..Total
      BY Positions
    <3>2. 0 <= MaxNet /\ MaxNet \in Nat
      BY ClientConnAssumption
    <3>3. 0 <= Len(Meant)
      <4>1. Len(Before) \in Nat \ {0}
        BY Positions
      <4>2. Len(Meant) = Len(Before) - 1
        BY MeantIs
      <4> QED
        BY <4>1, <4>2
    <3> QED
      BY <3>1, <3>2, <3>3
  <2>1. NetInv
    <3>1. net = <<>> /\ sent = 0 /\ inMessage = FALSE /\ requested = FALSE
      BY <1>1 DEF Init
    <3>2. net \in Seq(Frames) /\ Len(net) = 0 /\ 1..Len(net) = {}
      BY <3>1
    <3>3. sent \in 0..Total
      BY <2>0, <3>1
    <3>4. Len(net) <= MaxNet + (IF requested THEN 1 ELSE 0)
      BY <2>0, <3>1, <3>2
    <3> QED
      BY <3>1, <3>2, <3>3, <3>4 DEF NetInv
  <2>2. ReaderTypeOK /\ PacketsAsMeant
    <3>1. ReaderTypeOK
      <4>1. /\ stage = "sniff" /\ framed = FALSE /\ header = 0 /\ got = <<>>
            /\ pending = <<>> /\ fragmentBuf = <<>> /\ packets = <<>>
        BY <1>1 DEF Init
      <4>2. header \in 0..Total
        BY <2>0, <4>1
      <4>3. packets \in Seq([header : Nat, data : Seq(Nat)])
        BY <4>1
      <4>4. got \in Seq(Nat) /\ pending \in Seq(Nat) /\ fragmentBuf \in Seq(Nat)
        BY <4>1
      <4>5. stage \in Reading \cup {"misread", "done"} /\ framed \in BOOLEAN
        BY <4>1 DEF Reading
      <4> QED
        BY <4>2, <4>3, <4>4, <4>5, Zenon DEF ReaderTypeOK
    <3>2. packets = <<>> /\ Len(packets) = 0 /\ DOMAIN packets = {}
      BY <1>1 DEF Init
    <3> QED
      BY <2>0, <3>1, <3>2 DEF PacketsAsMeant
  <2>3. Flow
    <3>1. HeaderAt = 0 /\ GotAt = 0
      BY <1>1, ClientConnAssumption DEF Init, HeaderAt, GotAt
    <3>2. PendingAt = 0 /\ FragmentAt = 0 /\ NetAt = 0
      BY <1>1, <3>1 DEF Init, PendingAt, FragmentAt, NetAt
    <3>3. Run(0, 0) = <<>>
      BY RunNone
    <3> QED
      BY <1>1, <3>1, <3>2, <3>3 DEF Init, Flow, NetStart
  <2> QED
    BY <1>1, <2>1, <2>2, <2>3 DEF Init, ReadInv
<1>2. ASSUME NetInv, ReadInv, [Next]_vars PROVE NetInv' /\ ReadInv'
  <2>1. CASE Client
    BY <1>2, <2>1, ClientStep, ClientReadStep
  <2>2. CASE Sniff \/ ReadRequest \/ Upgrade \/ HandlerCloses \/ ReadFails
    BY <1>2, <2>2, HandlerReadStep
  <2>3. CASE NextPayload
    BY <1>2, <2>3, NextPayloadStep
  <2>4. CASE ReadHeader
    BY <1>2, <2>4, ReadHeaderStep
  <2>5. CASE ReadData
    BY <1>2, <2>5, ReadDataStep
  <2>6. ASSUME NEW w \in Writers,
               \/ Write(w) \/ Close(w) \/ Lock(w) \/ WriteFrameHeader(w)
               \/ WriteFramePayload(w) \/ WriteFails(w) \/ CloseOnce(w) \/ CloseConn(w)
        PROVE  NetInv' /\ ReadInv'
    BY <1>2, <2>6, WriterReadStep
  <2>7. CASE UNCHANGED vars
    <3>1. UNCHANGED <<peer, pending, fragmentBuf, header, got, packets, framed, stage>>
      BY <2>7 DEF vars, reading
    <3>2. /\ stage \in Reading \cup {"misread", "done"}
          /\ stage \in {"websocket", "http"} => net # <<>> /\ net[1].op = "request"
      BY <1>2 DEF ReadInv, ReaderTypeOK
    <3> QED
      BY <1>2, <3>1, <3>2, StageStep
  <2> QED
    BY <1>2, <2>1, <2>2, <2>3, <2>4, <2>5, <2>6, <2>7 DEF Next, Handler
<1> QED
  BY <1>1, <1>2, PTL DEF Spec

(* ReadFullPacket hands on the packets the client means, whole and in      *)
(* order, however chunks, fragments and control frames fall.               *)
THEOREM PacketsAsMeantCorrect == Spec => []PacketsAsMeant
<1>1. ReadInv => PacketsAsMeant
  BY DEF ReadInv
<1> QED
  BY <1>1, StreamInvariant, PTL

(* Every token the client has sent stays, in its place, in one of the      *)
(* buffers of WebSocketConn and ReadFullPacket until it is handed on.      *)
THEOREM NothingLostCorrect == Spec => []NothingLost
<1>1. ASSUME NetInv, ReadInv PROVE NothingLost
  <2>1. SUFFICES ASSUME stage = "read" PROVE
          /\ Flow /\ NetStart = (IF net = <<>> THEN sent ELSE net[1].from)
          /\ \A i \in DOMAIN net :
               net[i].data = Run(net[i].from,
                                 IF i = Len(net) THEN sent ELSE net[i + 1].from)
    BY DEF NothingLost, Flow
  <2>2. Flow /\ NetStart = IF net = <<>> THEN sent ELSE net[1].from
    BY <1>1, <2>1 DEF ReadInv, Reading, NetStart
  <2>3. ASSUME NEW i \in DOMAIN net
        PROVE  net[i].data = Run(net[i].from,
                                 IF i = Len(net) THEN sent ELSE net[i + 1].from)
    <3>1. FrameOK(i)
      BY <1>1, <2>3 DEF NetInv
    <3> QED
      BY <3>1 DEF FrameOK, End
  <2> QED
    BY <2>2, <2>3
<1> QED
  BY <1>1, StreamInvariant, PTL

(* The variables keep their types, a header waits only for data it still   *)
(* lacks, and who writes a frame holds writeMu.                            *)
THEOREM TypeCorrect == Spec => []TypeOK
<1>1. ASSUME NetInv, ReadInv, WriteInv PROVE TypeOK
  <2>1. sent \in 0..Total /\ Len(net) <= MaxNet + 1
    <3>1. Len(net) <= MaxNet + (IF requested THEN 1 ELSE 0) /\ Len(net) \in Nat
      BY <1>1 DEF NetInv
    <3> QED
      BY <1>1, <3>1, ClientConnAssumption DEF NetInv
  <2>2. /\ stage \in {"sniff", "websocket", "http", "upgrade", "read", "misread", "done"}
        /\ header \in 0..Total /\ (header # 0 => Len(got) < Length(header))
    BY <1>1 DEF ReadInv, ReaderTypeOK, Reading
  <2> QED
    BY <1>1, <2>1, <2>2 DEF TypeOK, WriteInv, WriterTypeOK
<1> QED
  BY <1>1, StreamInvariant, WritersInvariant, PTL

=============================================================================
