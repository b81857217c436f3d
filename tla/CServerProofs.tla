----------------------------- MODULE CServerProofs -----------------------------
(***************************************************************************)
(* Theorems about CServer, for every head and body length, every stream of *)
(* requests, every size of the send buffer and every way of cutting reads  *)
(* and writes: as long as nothing freed is used and no signal kills the    *)
(* process, no byte is lost, doubled or overtaken, no edge of epoll is     *)
(* lost, and the connection keeps what EchoService promises of an echo.    *)
(* At the end the same of EchoClient: whatever lines are typed, however    *)
(* long, and however its reads are cut, what a client shows is the answer  *)
(* to its line.                                                            *)
(***************************************************************************)
EXTENDS CServer, EchoClient, WireProofs

-----------------------------------------------------------------------------
(* The inductive invariants.                                               *)

N == Len(nodes)

\* The connection can be written to without an error.
Writable == peer \in {"up", "fin"}

\* Only what is left of an event, and only for a freed session, is done to a connection
\* that is closed; a hang-up is of the client's making.
PlaceInv ==
    /\ open => inMap /\ pc # "done"
    /\ ~open => /\ ~ready /\ interest = {}
                /\ pc \in {"check", "wait", "out", "done"}
                /\ pc = "out" => ~inMap
    /\ pc = "event" /\ "hup" \in evs => peer \in {"reset", "abort"}

CountInv == rd <= sent /\ sent <= Total /\ got <= Len(out)

\* The state machine of the read loop: message N + 1 of the stream is being received.
RecvInv ==
    /\ stage = "NO_RECV" => head = <<>> /\ body = <<>>
    /\ stage = "HEAD_RECVING" => Len(head) < HeadLen /\ body = <<>>
    /\ stage = "BODY_RECVING" =>
          /\ N + 1 \in Messages /\ bodyLen = BodyLen(N + 1) /\ type = starts[N + 1]
          /\ Len(head) = HeadLen /\ bodyLen <= BuffSize
          /\ Len(body) < bodyLen \/ bodyLen = 0
    /\ N + 1 \in DOMAIN starts
    /\ rd = starts[N + 1] + Len(head) + Len(body)
    /\ head = Bytes(starts[N + 1], Len(head))
    /\ body = Bytes(starts[N + 1] + HeadLen, Len(body))

\* How much of a message from a to b has been written when l bytes have.
Written(l, a, b) == IF l <= a THEN 0 ELSE IF l < b THEN l - a ELSE b - a

\* Node i carries message i, written as far as out goes.  It is freed when all of it is
\* written, and by an error.
NodeInv(i) ==
    /\ nodes[i].buf = Bytes(starts[i], starts[i + 1] - starts[i])
    /\ nodes[i].off = Written(Len(out), starts[i], starts[i + 1])
    /\ nodes[i].live => Len(out) < starts[i + 1]
    /\ Writable /\ ~nodes[i].live => Len(out) >= starts[i + 1]

NodesInv == Len(out) <= starts[N + 1] /\ \A i \in 1 .. N : NodeInv(i)

\* The nodes of the queue follow each other in memory as they do in the list, whose last
\* node has no successor or, enqueued twice, is its own.
LinkInv ==
    /\ \A i \in 1 .. N : nodes[i].next \in 0 .. N
    /\ qhead # NULL =>
        /\ qhead <= qtail /\ qtail = (IF pc = "queue" THEN N - 1 ELSE N)
        /\ \A i \in 1 .. N : /\ qhead <= i /\ i < qtail => nodes[i].next = i + 1
                             /\ i = qtail => nodes[i].next \in {NULL, i}

\* The node that is handled, and that what is before it and before the queue is written.
CurInv ==
    /\ pc \in {"direct", "queue"} =>
          /\ N > 0 /\ cur = N /\ nodes[cur].next = NULL
          /\ pc = "direct" <=> qhead = NULL
    /\ pc = "direct" => nodes[cur].live
    /\ pc = "drain" => qhead # NULL /\ (cur # NULL => qhead <= cur)
    /\ Writable =>
        /\ qhead # NULL => Len(out) >= starts[qhead]
        /\ qhead = NULL => Len(out) >= starts[IF pc = "direct" THEN N ELSE N + 1]
        /\ pc = "drain" => Len(out) >= starts[IF cur = NULL THEN N + 1 ELSE cur]

\* What is still to come of the event at hand.
InDue  == (pc = "event" /\ "in" \in evs) \/ pc \in {"read", "direct", "queue"}
OutDue == pc \in {"event", "read", "direct", "queue"} /\ "out" \in evs

\* Input is reported or about to be read; while nodes are queued, either the next read of
\* the client's will be reported, or room is reported, or about to be used.  What the event
\* has is registered.
EdgeInv ==
    /\ "in" \in interest
    /\ OutDue \/ pc \in {"out", "drain"} => ("out" \in evs => "out" \in interest)
    /\ Unread > 0 \/ peer # "up" => ready \/ InDue
    /\ noSpace => Room = 0
    /\ qhead # NULL =>
          /\ "out" \in interest
          /\ noSpace \/ pc \in {"out", "drain"} \/ (Room > 0 /\ (ready \/ OutDue))

ServerInv ==
    /\ TypeOK
    /\ CountInv
    /\ out = Bytes(0, Len(out))
    /\ fate = "runs" => PlaceInv
    /\ fate = "runs" /\ open => RecvInv /\ NodesInv /\ LinkInv /\ CurInv /\ EdgeInv

-----------------------------------------------------------------------------
(* Facts.                                                                  *)

LEMMA SizesFacts ==
    ASSUME TypeOK
    PROVE  /\ HeadLen \in Nat \ {0} /\ BuffSize \in Nat /\ SendRoom \in Nat \ {0}
           /\ Len(head) \in Nat /\ Len(body) \in Nat /\ Len(out) \in Nat
           /\ rd \in Nat /\ sent \in Nat /\ got \in Nat /\ bodyLen \in Nat
           /\ starts \in Streams /\ N \in Nat /\ DOMAIN nodes = 1 .. N
BY SizesAssumption, LenProperties DEF TypeOK, WireTypeOK, N

LEMMA NodeFacts ==
    ASSUME TypeOK, NEW i \in 1 .. N
    PROVE  /\ nodes[i] \in Node
           /\ nodes[i].buf \in Seq(Nat) /\ nodes[i].off \in Nat
           /\ nodes[i].next \in Nat /\ nodes[i].live \in BOOLEAN
           /\ Len(nodes[i].buf) \in Nat
<1>1. nodes \in Seq(Node) /\ DOMAIN nodes = 1 .. N  BY SizesFacts DEF TypeOK
<1>2. nodes[i] \in Node  BY <1>1, ElementOfSeq DEF N
<1>. QED  BY <1>2, LenProperties DEF Node

\* The messages follow each other in the stream.
LEMMA StartsAscend ==
    ASSUME starts \in Streams, NEW i \in DOMAIN starts, NEW j \in DOMAIN starts
    PROVE  /\ starts[i] \in Nat /\ starts[j] \in Nat
           /\ i < j => starts[i] + HeadLen <= starts[j] /\ starts[i] < starts[j]
           /\ i <= j => starts[i] <= starts[j]
<1>1. /\ \A k, l \in DOMAIN starts : k < l => starts[k] + HeadLen <= starts[l]
      /\ HeadLen \in Nat \ {0}
  BY SizesAssumption
<1>2. starts[i] \in Nat /\ starts[j] \in Nat /\ DOMAIN starts \subseteq Nat
  BY StreamFacts
<1>3. i < j => starts[i] + HeadLen <= starts[j] /\ starts[i] < starts[j]
  <2>1. i < j => starts[i] + HeadLen <= starts[j]  BY <1>1
  <2>. QED  BY <1>1, <1>2, <2>1
<1>. QED  BY <1>2, <1>3

\* The nodes made so far carry the first messages of the stream.
LEMMA NodesAreMessages ==
    ASSUME TypeOK, N + 1 \in DOMAIN starts
    PROVE  /\ DOMAIN starts = 1 .. Len(starts) /\ Len(starts) \in Nat /\ N + 1 <= Len(starts)
           /\ starts[N + 1] \in Nat
           /\ \A i \in 1 .. N :
                 /\ i \in Messages /\ i \in DOMAIN starts /\ i + 1 \in DOMAIN starts
                 /\ starts[i] \in Nat /\ starts[i + 1] \in Nat
                 /\ starts[i] < starts[i + 1] /\ starts[i + 1] <= starts[N + 1]
                 /\ starts[i] <= starts[N + 1]
<1>1. starts \in Streams /\ N \in Nat  BY SizesFacts
<1>2. DOMAIN starts = 1 .. Len(starts) /\ Len(starts) \in Nat  BY <1>1, StreamFacts
<1>3. N + 1 <= Len(starts) /\ starts[N + 1] \in Nat  BY <1>1, <1>2, StreamFacts
<1>4. ASSUME NEW i \in 1 .. N
      PROVE  /\ i \in Messages /\ i \in DOMAIN starts /\ i + 1 \in DOMAIN starts
             /\ starts[i] \in Nat /\ starts[i + 1] \in Nat
             /\ starts[i] < starts[i + 1] /\ starts[i + 1] <= starts[N + 1]
             /\ starts[i] <= starts[N + 1]
  <2>1. /\ i \in Messages /\ i \in DOMAIN starts /\ i + 1 \in DOMAIN starts
        /\ i < i + 1 /\ i + 1 <= N + 1 /\ i <= N + 1
    BY <1>1, <1>2, <1>3 DEF Messages
  <2>2. starts[i] < starts[i + 1] /\ starts[i] \in Nat /\ starts[i + 1] \in Nat
    BY <1>1, <2>1, StartsAscend
  <2>3. starts[i + 1] <= starts[N + 1]  BY <1>1, <2>1, StartsAscend
  <2>4. starts[i] <= starts[N + 1]  BY <1>1, <2>1, StartsAscend
  <2>. QED  BY <2>1, <2>2, <2>3, <2>4
<1>. QED  BY <1>2, <1>3, <1>4

LEMMA FunctionIsSeq ==
    ASSUME NEW S, NEW n \in Nat, NEW f \in [1 .. n -> S]
    PROVE  f \in Seq(S) /\ Len(f) = n
<1>1. f \in Seq(S)  BY SeqDef
<1>. QED  BY <1>1, LenProperties

\* One node is changed, in the fields that say how far it is.
LEMMA NodeUpdate ==
    ASSUME TypeOK, NEW n \in 1 .. N, NEW k \in Nat, NEW b \in BOOLEAN,
           nodes' = [nodes EXCEPT ![n].off = @ + k, ![n].live = b]
    PROVE  /\ nodes' \in Seq(Node) /\ N' = N
           /\ \A i \in 1 .. N : /\ nodes'[i].buf = nodes[i].buf
                                /\ nodes'[i].next = nodes[i].next
                                /\ i # n => nodes'[i] = nodes[i]
           /\ nodes'[n].off = nodes[n].off + k /\ nodes'[n].live = b
<1>1. \A i \in 1 .. N : nodes[i] \in Node  BY NodeFacts
<1>2. DOMAIN nodes = 1 .. N /\ N \in Nat /\ nodes \in Seq(Node)  BY SizesFacts DEF TypeOK
<1>3. nodes[n] \in Node  BY <1>1
<1>4. /\ \A i \in 1 .. N : i # n => nodes'[i] = nodes[i]
      /\ nodes'[n] = [buf |-> nodes[n].buf, off |-> nodes[n].off + k,
                      next |-> nodes[n].next, live |-> b]
      /\ nodes' = [i \in 1 .. N |-> nodes'[i]]
  BY <1>2, <1>3 DEF Node
<1>5. nodes'[n] \in Node  BY <1>3, <1>4 DEF Node
<1>6. \A i \in 1 .. N : nodes'[i] \in Node  BY <1>1, <1>4, <1>5
<1>7. nodes' \in [1 .. N -> Node]  BY <1>4, <1>6
<1>8. nodes' \in Seq(Node) /\ Len(nodes') = N  BY <1>2, <1>7, FunctionIsSeq
<1>9. N' = N  BY <1>8 DEF N
<1>10. nodes'[n].buf = nodes[n].buf /\ nodes'[n].next = nodes[n].next  BY <1>4
<1>11. ASSUME NEW i \in 1 .. N
       PROVE  nodes'[i].buf = nodes[i].buf /\ nodes'[i].next = nodes[i].next
  <2>1. CASE i = n  BY <1>10, <2>1
  <2>2. CASE i # n  BY <1>4, <2>2
  <2>. QED  BY <2>1, <2>2
<1>. QED  BY <1>4, <1>8, <1>9, <1>11

-----------------------------------------------------------------------------
(* The state machine.                                                      *)

\* What a read of a head gets.
LEMMA HeadRead ==
    ASSUME TypeOK, CountInv, RecvInv, stage # "BODY_RECVING", ReadLen > 0
    PROVE  /\ ReadLen \in Nat \ {0} /\ rd + ReadLen <= sent
           /\ Remain = HeadLen - Len(head) /\ Len(head) < HeadLen /\ ReadLen <= Remain
           /\ body = <<>> /\ Len(body) = 0 /\ rd = starts[N + 1] + Len(head)
           /\ N + 1 \in Messages /\ starts[N + 1] \in Nat
           /\ head \o Bytes(rd, ReadLen) = Bytes(starts[N + 1], Len(head) + ReadLen)
           /\ head \o Bytes(rd, ReadLen) \in Seq(Nat)
           /\ Len(head \o Bytes(rd, ReadLen)) = Len(head) + ReadLen
<1>1. body = <<>> /\ Len(body) = 0 /\ Len(head) < HeadLen
  <2>1. stage \in {"NO_RECV", "HEAD_RECVING"}  BY DEF TypeOK
  <2>. QED  BY <2>1, SizesFacts, EmptySeq DEF RecvInv
<1>2. /\ starts[N + 1] \in Nat /\ rd = starts[N + 1] + Len(head)
      /\ head = Bytes(starts[N + 1], Len(head)) /\ N + 1 \in DOMAIN starts
  <2>1. starts[N + 1] \in Nat  BY NodesAreMessages DEF RecvInv
  <2>. QED  BY <1>1, <2>1, SizesFacts DEF RecvInv
<1>3. Remain = HeadLen - Len(head)  BY DEF Remain
<1>4. ReadLen \in Nat \ {0} /\ rd + ReadLen <= sent /\ ReadLen <= Remain
  BY <1>1, <1>3, SizesFacts DEF CountInv, ReadLen, Unread
<1>5. N + 1 \in Messages
  <2>1. starts[N + 1] < Total
    BY <1>2, <1>4, SizesFacts, StreamFacts DEF CountInv
  <2>. QED  BY <1>2, <2>1, SizesFacts, StreamFacts
<1>6. /\ head \o Bytes(rd, ReadLen) = Bytes(starts[N + 1], Len(head) + ReadLen)
      /\ head \o Bytes(rd, ReadLen) \in Seq(Nat)
      /\ Len(head \o Bytes(rd, ReadLen)) = Len(head) + ReadLen
  <2> DEFINE a == starts[N + 1]
             m == Len(head)
             n == ReadLen
  <2>1. a \in Nat /\ m \in Nat /\ n \in Nat /\ m + n \in Nat  BY <1>2, <1>4, SizesFacts
  <2>2. head = Bytes(a, m) /\ rd = a + m  BY <1>2
  <2> HIDE DEF a, m, n
  <2>3. Bytes(a, m) \o Bytes(a + m, n) = Bytes(a, m + n)  BY <2>1, BytesJoin
  <2>4. head \o Bytes(rd, n) = Bytes(a, m + n)  BY <2>2, <2>3, Zenon
  <2>5. Bytes(a, m + n) \in Seq(Nat) /\ Len(Bytes(a, m + n)) = m + n  BY <2>1, BytesFacts
  <2>. QED  BY <2>4, <2>5, Zenon DEF a, m, n
<1>. QED  BY <1>1, <1>2, <1>3, <1>4, <1>5, <1>6

\* A whole head is that of message N + 1.
LEMMA HeadWhole ==
    ASSUME TypeOK, CountInv, RecvInv, stage # "BODY_RECVING", ReadLen > 0,
           ReadLen = Remain
    PROVE  LET h == head \o Bytes(rd, ReadLen)
           IN  /\ rd + ReadLen = starts[N + 1] + HeadLen
               /\ h = Bytes(starts[N + 1], HeadLen) /\ Len(h) = HeadLen /\ h \in Seq(Nat)
               /\ ParseLen(h) = BodyLen(N + 1) /\ BodyLen(N + 1) \in Nat
               /\ h[1] - 1 = starts[N + 1]
<1> DEFINE h == head \o Bytes(rd, ReadLen)
           a == starts[N + 1]
<1>1. /\ starts \in Streams /\ HeadLen \in Nat \ {0}
      /\ a \in Nat /\ N + 1 \in Messages /\ rd = a + Len(head) /\ Len(head) \in Nat
      /\ h = Bytes(a, Len(head) + ReadLen) /\ h \in Seq(Nat)
      /\ Len(h) = Len(head) + ReadLen /\ ReadLen = HeadLen - Len(head)
  BY SizesFacts, HeadRead
<1>2. Len(head) + ReadLen = HeadLen /\ rd + ReadLen = a + HeadLen  BY <1>1
<1>3. h = Bytes(a, HeadLen) /\ Len(h) = HeadLen /\ h \in Seq(Nat)  BY <1>1, <1>2
<1>4. ParseLen(h) = BodyLen(N + 1) /\ BodyLen(N + 1) \in Nat
  <2>1. ParseLen(Bytes(a, HeadLen)) = BodyLen(N + 1)  BY <1>1, HeadIsParsed
  <2>2. BodyLen(N + 1) \in Nat  BY <1>1, StreamFacts
  <2>. QED  BY <1>3, <2>1, <2>2, Zenon
<1>5. h[1] - 1 = a
  <2> HIDE DEF a, h
  <2>1. 1 \in 1 .. HeadLen  BY <1>1
  <2>2. Bytes(a, HeadLen)[1] = a + 1  BY <1>1, <2>1, BytesFacts
  <2>. QED  BY <1>1, <1>3, <2>2
<1>. QED  BY <1>2, <1>3, <1>4, <1>5

\* What a read of a body gets.
LEMMA BodyRead ==
    ASSUME TypeOK, CountInv, RecvInv, stage = "BODY_RECVING", ReadLen > 0
    PROVE  LET b == body \o Bytes(rd, ReadLen)
           IN  /\ ReadLen \in Nat \ {0} /\ rd + ReadLen <= sent
               /\ Remain = bodyLen - Len(body) /\ ReadLen <= Remain /\ bodyLen \in Nat
               /\ Len(head) = HeadLen /\ N + 1 \in Messages /\ N + 2 \in DOMAIN starts
               /\ starts[N + 1] \in Nat /\ starts[N + 2] \in Nat
               /\ rd = starts[N + 1] + HeadLen + Len(body)
               /\ starts[N + 2] = starts[N + 1] + HeadLen + bodyLen
               /\ b = Bytes(starts[N + 1] + HeadLen, Len(body) + ReadLen)
               /\ b \in Seq(Nat) /\ Len(b) = Len(body) + ReadLen
<1>1. /\ N + 1 \in Messages /\ bodyLen = BodyLen(N + 1) /\ Len(head) = HeadLen
      /\ rd = starts[N + 1] + Len(head) + Len(body)
      /\ body = Bytes(starts[N + 1] + HeadLen, Len(body))
  BY DEF RecvInv
<1>2. /\ HeadLen \in Nat /\ Len(body) \in Nat /\ bodyLen \in Nat /\ N \in Nat
      /\ starts \in Streams
  BY SizesFacts
<1>3. starts[N + 1] \in Nat /\ starts[N + 2] \in Nat /\ N + 2 \in DOMAIN starts
  <2>1. N + 1 + 1 = N + 2  BY <1>2
  <2>. QED  BY <1>1, <1>2, <2>1, StreamFacts
<1>4. starts[N + 2] = starts[N + 1] + HeadLen + bodyLen
  <2>1. N + 1 + 1 = N + 2  BY <1>2
  <2>2. bodyLen = starts[N + 2] - starts[N + 1] - HeadLen  BY <1>1, <2>1 DEF BodyLen
  <2>. QED  BY <1>2, <1>3, <2>2
<1>5. Remain = bodyLen - Len(body)  BY DEF Remain
<1>6. ReadLen \in Nat \ {0} /\ rd + ReadLen <= sent /\ ReadLen <= Remain
  BY <1>2, <1>5, SizesFacts DEF CountInv, ReadLen, Unread
<1>7. /\ body \o Bytes(rd, ReadLen) = Bytes(starts[N + 1] + HeadLen, Len(body) + ReadLen)
      /\ body \o Bytes(rd, ReadLen) \in Seq(Nat)
      /\ Len(body \o Bytes(rd, ReadLen)) = Len(body) + ReadLen
  <2> DEFINE a == starts[N + 1] + HeadLen
             m == Len(body)
             n == ReadLen
  <2>1. a \in Nat /\ m \in Nat /\ n \in Nat /\ m + n \in Nat  BY <1>2, <1>3, <1>6
  <2>2. body = Bytes(a, m) /\ rd = a + m  BY <1>1
  <2> HIDE DEF a, m, n
  <2>3. Bytes(a, m) \o Bytes(a + m, n) = Bytes(a, m + n)  BY <2>1, BytesJoin
  <2>4. body \o Bytes(rd, n) = Bytes(a, m + n)  BY <2>2, <2>3, Zenon
  <2>5. Bytes(a, m + n) \in Seq(Nat) /\ Len(Bytes(a, m + n)) = m + n  BY <2>1, BytesFacts
  <2>. QED  BY <2>4, <2>5, Zenon DEF a, m, n
<1>. QED  BY <1>1, <1>2, <1>3, <1>4, <1>5, <1>6, <1>7

\* A whole body makes the reply that is message N + 1.
LEMMA BodyWhole ==
    ASSUME TypeOK, CountInv, RecvInv, stage = "BODY_RECVING", ReadLen > 0,
           ReadLen = Remain
    PROVE  /\ rd + ReadLen = starts[N + 2]
           /\ Frame(type, body \o Bytes(rd, ReadLen))
                 = Bytes(starts[N + 1], starts[N + 2] - starts[N + 1])
<1> DEFINE b == body \o Bytes(rd, ReadLen)
<1>1. /\ Remain = bodyLen - Len(body) /\ bodyLen \in Nat
      /\ N + 1 \in Messages /\ starts[N + 1] \in Nat /\ starts[N + 2] \in Nat
      /\ rd = starts[N + 1] + HeadLen + Len(body)
      /\ starts[N + 2] = starts[N + 1] + HeadLen + bodyLen
      /\ b = Bytes(starts[N + 1] + HeadLen, Len(body) + ReadLen)
  BY BodyRead
<1>2. Len(body) \in Nat /\ HeadLen \in Nat /\ starts \in Streams  BY SizesFacts
<1>3. Len(body) + ReadLen = bodyLen /\ rd + ReadLen = starts[N + 2]
  <2> HIDE DEF b
  <2>1. ReadLen = bodyLen - Len(body)  BY <1>1
  <2>2. \A x, y, z, l \in Nat : l = x - y => y + l = x /\ z + HeadLen + y + l = z + HeadLen + x
    BY <1>2
  <2>3. ReadLen \in Nat  BY BodyRead
  <2>. QED  BY <1>1, <1>2, <2>1, <2>2, <2>3
<1>4. type = starts[N + 1] /\ bodyLen = BodyLen(N + 1)  BY DEF RecvInv
<1>5. Frame(type, b) = Bytes(starts[N + 1], HeadLen + BodyLen(N + 1))
  <2>1. b = Bytes(starts[N + 1] + HeadLen, BodyLen(N + 1))  BY <1>1, <1>3, <1>4
  <2>2. Frame(starts[N + 1], Bytes(starts[N + 1] + HeadLen, BodyLen(N + 1)))
           = Bytes(starts[N + 1], HeadLen + BodyLen(N + 1))
    BY <1>1, <1>2, ReplyIsMessage
  <2>. QED  BY <1>4, <2>1, <2>2
<1>6. HeadLen + BodyLen(N + 1) = starts[N + 2] - starts[N + 1]
  <2> HIDE DEF b
  <2>1. \A x, y, z, l \in Nat : x = y + z + l => z + l = x - y  OBVIOUS
  <2>. QED  BY <1>1, <1>2, <1>4, <2>1
<1>. QED  BY <1>3, <1>5, <1>6

-----------------------------------------------------------------------------
(* The list.                                                               *)

\* Of one node the link is set.
LEMMA LinkUpdate ==
    ASSUME TypeOK, NEW n \in 1 .. N, NEW x \in Nat, nodes' = [nodes EXCEPT ![n].next = x]
    PROVE  /\ nodes' \in Seq(Node) /\ N' = N
           /\ \A i \in 1 .. N : /\ nodes'[i].buf = nodes[i].buf
                                /\ nodes'[i].off = nodes[i].off
                                /\ nodes'[i].live = nodes[i].live
                                /\ i # n => nodes'[i] = nodes[i]
           /\ nodes'[n].next = x
<1>1. \A i \in 1 .. N : nodes[i] \in Node  BY NodeFacts
<1>2. DOMAIN nodes = 1 .. N /\ N \in Nat /\ nodes \in Seq(Node)  BY SizesFacts DEF TypeOK
<1>3. nodes[n] \in Node  BY <1>1
<1>4. /\ \A i \in 1 .. N : i # n => nodes'[i] = nodes[i]
      /\ nodes'[n] = [buf |-> nodes[n].buf, off |-> nodes[n].off,
                      next |-> x, live |-> nodes[n].live]
      /\ nodes' = [i \in 1 .. N |-> nodes'[i]]
  BY <1>2, <1>3 DEF Node
<1>5. nodes'[n] \in Node  BY <1>3, <1>4 DEF Node
<1>6. \A i \in 1 .. N : nodes'[i] \in Node  BY <1>1, <1>4, <1>5
<1>7. nodes' \in [1 .. N -> Node]  BY <1>4, <1>6
<1>8. nodes' \in Seq(Node) /\ Len(nodes') = N  BY <1>2, <1>7, FunctionIsSeq
<1>9. N' = N  BY <1>8 DEF N
<1>10. /\ nodes'[n].buf = nodes[n].buf /\ nodes'[n].off = nodes[n].off
       /\ nodes'[n].live = nodes[n].live /\ nodes'[n].next = x
  BY <1>4
<1>11. ASSUME NEW i \in 1 .. N
       PROVE  /\ nodes'[i].buf = nodes[i].buf /\ nodes'[i].off = nodes[i].off
              /\ nodes'[i].live = nodes[i].live
  <2>1. CASE i = n  BY <1>10, <2>1
  <2>2. CASE i # n  BY <1>4, <2>2
  <2>. QED  BY <2>1, <2>2
<1>. QED  BY <1>4, <1>8, <1>9, <1>10, <1>11

\* A node is freed that was not written to its end.
LEMMA FreeUpdate ==
    ASSUME TypeOK, NEW n \in 1 .. N, nodes' = [nodes EXCEPT ![n].live = FALSE]
    PROVE  /\ nodes' \in Seq(Node) /\ N' = N
           /\ \A i \in 1 .. N : /\ nodes'[i].buf = nodes[i].buf
                                /\ nodes'[i].off = nodes[i].off
                                /\ nodes'[i].next = nodes[i].next
                                /\ i # n => nodes'[i] = nodes[i]
           /\ ~nodes'[n].live
<1>1. \A i \in 1 .. N : nodes[i] \in Node  BY NodeFacts
<1>2. DOMAIN nodes = 1 .. N /\ N \in Nat /\ nodes \in Seq(Node)  BY SizesFacts DEF TypeOK
<1>3. nodes[n] \in Node  BY <1>1
<1>4. /\ \A i \in 1 .. N : i # n => nodes'[i] = nodes[i]
      /\ nodes'[n] = [buf |-> nodes[n].buf, off |-> nodes[n].off,
                      next |-> nodes[n].next, live |-> FALSE]
      /\ nodes' = [i \in 1 .. N |-> nodes'[i]]
  BY <1>2, <1>3 DEF Node
<1>5. nodes'[n] \in Node  BY <1>3, <1>4 DEF Node
<1>6. \A i \in 1 .. N : nodes'[i] \in Node  BY <1>1, <1>4, <1>5
<1>7. nodes' \in [1 .. N -> Node]  BY <1>4, <1>6
<1>8. nodes' \in Seq(Node) /\ Len(nodes') = N  BY <1>2, <1>7, FunctionIsSeq
<1>9. N' = N  BY <1>8 DEF N
<1>10. /\ nodes'[n].buf = nodes[n].buf /\ nodes'[n].off = nodes[n].off
       /\ nodes'[n].next = nodes[n].next /\ ~nodes'[n].live
  BY <1>4
<1>11. ASSUME NEW i \in 1 .. N
       PROVE  /\ nodes'[i].buf = nodes[i].buf /\ nodes'[i].off = nodes[i].off
              /\ nodes'[i].next = nodes[i].next
  <2>1. CASE i = n  BY <1>10, <2>1
  <2>2. CASE i # n  BY <1>4, <2>2
  <2>. QED  BY <2>1, <2>2
<1>. QED  BY <1>4, <1>8, <1>9, <1>10, <1>11

\* Message N + 1 has been read, and the node of its reply been made.
LEMMA NewNode ==
    ASSUME TypeOK, CountInv, RecvInv, ReadBody
    PROVE  LET x == [buf |-> Bytes(starts[N + 1], starts[N + 2] - starts[N + 1]), off |-> 0,
                     next |-> NULL, live |-> TRUE]
           IN  /\ nodes' \in Seq(Node) /\ N' = N + 1
               /\ \A i \in 1 .. N : nodes'[i] = nodes[i]
               /\ nodes'[N + 1] = x /\ x \in Node
               /\ rd' = starts[N + 2] /\ rd' <= sent /\ N + 2 \in DOMAIN starts
               /\ cur' = N'
<1> DEFINE a == starts[N + 1]
           n == starts[N + 2] - starts[N + 1]
           x == [buf |-> Bytes(a, n), off |-> 0, next |-> NULL, live |-> TRUE]
<1>1. /\ starts[N + 1] \in Nat /\ starts[N + 2] \in Nat /\ N + 2 \in DOMAIN starts
      /\ starts[N + 2] = starts[N + 1] + HeadLen + bodyLen /\ bodyLen \in Nat
      /\ rd + ReadLen <= sent /\ rd + ReadLen = starts[N + 2]
      /\ Frame(type, body \o Bytes(rd, ReadLen)) = Bytes(a, n)
  BY BodyRead, BodyWhole DEF ReadBody
<1>2. HeadLen \in Nat /\ N \in Nat /\ nodes \in Seq(Node)  BY SizesFacts DEF TypeOK
<1>3. a \in Nat /\ n \in Nat
  <2>1. \A y, z, l \in Nat : y = z + HeadLen + l => y - z \in Nat  BY <1>2
  <2>. QED  BY <1>1, <2>1
<1>4. nodes' = Append(nodes, x) /\ rd' = starts[N + 2] /\ cur' = N + 1
  BY <1>1 DEF ReadBody, N
<1> HIDE DEF a, n
<1>5. Bytes(a, n) \in Seq(Nat)  BY <1>3, BytesFacts
<1>6. x \in Node  BY <1>5 DEF Node, NULL
<1> HIDE DEF x
<1>7. /\ nodes' \in Seq(Node) /\ Len(nodes') = Len(nodes) + 1
      /\ \A i \in 1 .. Len(nodes) : nodes'[i] = nodes[i]
      /\ nodes'[Len(nodes) + 1] = x
  BY <1>2, <1>4, <1>6, AppendProperties
<1>8. N' = N + 1 /\ cur' = N'  BY <1>4, <1>7 DEF N
<1>9. /\ nodes' \in Seq(Node) /\ N' = N + 1 /\ \A i \in 1 .. N : nodes'[i] = nodes[i]
      /\ nodes'[N + 1] = x /\ x \in Node
  BY <1>6, <1>7, <1>8 DEF N
<1>. QED  BY <1>1, <1>4, <1>8, <1>9 DEF x, a, n

-----------------------------------------------------------------------------
(* Writes.                                                                 *)

\* The write of k bytes of node n.
WritesOf(n, k) ==
    /\ Write(n, k)
    /\ nodes' = [nodes EXCEPT ![n].off = @ + k, ![n].live = k < Unsent(n)]
    /\ starts' = starts

\* A write of a node before which all is written goes on with the stream.
LEMMA WriteStep ==
    ASSUME TypeOK, N + 1 \in DOMAIN starts, NodesInv, out = Bytes(0, Len(out)),
           NEW n \in 1 .. N, nodes[n].live, Len(out) >= starts[n],
           NEW k \in 1 .. SendRoom, WritesOf(n, k)
    PROVE  /\ Writable /\ k \in Nat /\ k <= Room
           /\ out' = out \o Bytes(Len(out), k) /\ out' = Bytes(0, Len(out'))
           /\ out' \in Seq(Nat) /\ Len(out') = Len(out) + k
           /\ Len(out') <= starts[n + 1]
           /\ k < Unsent(n) <=> Len(out') < starts[n + 1]
           /\ nodes' \in Seq(Node) /\ N' = N
           /\ \A i \in 1 .. N : nodes'[i].next = nodes[i].next
           /\ nodes'[n].live <=> Len(out') < starts[n + 1]
           /\ NodesInv'
<1> DEFINE a == starts[n]
           e == starts[n + 1]
           l == Len(out)
<1>1. /\ a \in Nat /\ e \in Nat /\ l \in Nat /\ k \in Nat \ {0} /\ a < e
      /\ N \in Nat /\ n \in Nat /\ starts \in Streams /\ DOMAIN starts = 1 .. Len(starts)
      /\ n \in DOMAIN starts /\ n + 1 \in DOMAIN starts
  BY SizesFacts, NodesAreMessages
<1>2. /\ nodes[n].buf = Bytes(a, e - a) /\ nodes[n].off = Written(l, a, e)
      /\ l < e /\ l >= a
  BY DEF NodesInv, NodeInv
<1>3. Writable /\ k <= Room /\ k <= Unsent(n)
      /\ out' = out \o SubSeq(nodes[n].buf, nodes[n].off + 1, nodes[n].off + k)
  BY DEF WritesOf, Write, Writable
<1> HIDE DEF a, e, l
<1>4. nodes[n].off = l - a /\ l - a \in Nat /\ e - a \in Nat
  BY <1>1, <1>2 DEF Written
<1>5. Len(nodes[n].buf) = e - a
  <2> DEFINE d == e - a
  <2>1. d \in Nat /\ nodes[n].buf = Bytes(a, d)  BY <1>2, <1>4
  <2> HIDE DEF d
  <2>2. Len(nodes[n].buf) = d  BY <1>1, <2>1, BytesFacts
  <2>. QED  BY <2>2 DEF d
<1>6. Unsent(n) = e - l /\ l + k <= e
  <2>1. Unsent(n) = (e - a) - (l - a)  BY <1>4, <1>5 DEF Unsent
  <2>. QED  BY <1>1, <1>3, <2>1
<1>7. SubSeq(nodes[n].buf, nodes[n].off + 1, nodes[n].off + k) = Bytes(l, k)
  <2> DEFINE d == e - a
             i == l - a
             j == l - a + k
  <2>1. d \in Nat /\ i \in 0 .. d /\ j \in i .. d /\ a + i = l /\ j - i = k
    BY <1>1, <1>2, <1>4, <1>6
  <2>2. nodes[n].buf = Bytes(a, d) /\ nodes[n].off = i /\ nodes[n].off + k = j
    BY <1>2, <1>4
  <2> HIDE DEF d, i, j
  <2>3. SubSeq(Bytes(a, d), i + 1, j) = Bytes(a + i, j - i)  BY <1>1, <2>1, BytesCut
  <2>. QED  BY <2>1, <2>2, <2>3
<1>8. out' = out \o Bytes(l, k)  BY <1>3, <1>7
<1>9. out' = Bytes(0, l + k) /\ out' \in Seq(Nat) /\ Len(out') = l + k
  <2>1. out = Bytes(0, l) /\ 0 + l = l /\ l + k \in Nat /\ k \in Nat  BY <1>1 DEF l
  <2>2. Bytes(0, l) \o Bytes(0 + l, k) = Bytes(0, l + k)
    <3>1. 0 \in Nat /\ l \in Nat /\ k \in Nat  BY <1>1
    <3>. QED  BY <3>1, BytesJoin
  <2>3. out' = Bytes(0, l + k)  BY <1>8, <2>1, <2>2
  <2>4. Bytes(0, l + k) \in Seq(Nat) /\ Len(Bytes(0, l + k)) = l + k
    BY <2>1, BytesFacts
  <2>. QED  BY <2>3, <2>4
<1>10. k < Unsent(n) <=> l + k < e  BY <1>1, <1>6
<1>11. /\ nodes' \in Seq(Node) /\ N' = N
       /\ \A i \in 1 .. N : /\ nodes'[i].buf = nodes[i].buf
                            /\ nodes'[i].next = nodes[i].next
                            /\ i # n => nodes'[i] = nodes[i]
       /\ nodes'[n].off = nodes[n].off + k
       /\ nodes'[n].live = (k < Unsent(n))
  <2>1. (k < Unsent(n)) \in BOOLEAN /\ k \in Nat  BY <1>1
  <2> DEFINE b == k < Unsent(n)
  <2>2. nodes' = [nodes EXCEPT ![n].off = @ + k, ![n].live = b]  BY DEF WritesOf
  <2> HIDE DEF b
  <2>3. b \in BOOLEAN  BY <2>1 DEF b
  <2>4. nodes'[n].live = b  BY <2>1, <2>2, <2>3, NodeUpdate
  <2>5. /\ nodes' \in Seq(Node) /\ N' = N
        /\ \A i \in 1 .. N : /\ nodes'[i].buf = nodes[i].buf
                             /\ nodes'[i].next = nodes[i].next
                             /\ i # n => nodes'[i] = nodes[i]
        /\ nodes'[n].off = nodes[n].off + k
    BY <2>1, <2>2, <2>3, NodeUpdate
  <2>. QED  BY <2>4, <2>5 DEF b
<1>12. nodes'[n].live <=> l + k < e  BY <1>10, <1>11
<1>13. starts' = starts  BY DEF WritesOf
<1>14. ASSUME NEW i \in 1 .. N PROVE NodeInv(i)'
  <2>1. /\ i \in DOMAIN starts /\ i + 1 \in DOMAIN starts
        /\ starts[i] \in Nat /\ starts[i + 1] \in Nat /\ starts[i] < starts[i + 1]
    BY NodesAreMessages
  <2>2. NodeInv(i)  BY DEF NodesInv
  <2>3. CASE i = n
    <3>1. nodes'[n].off = Written(l + k, a, e)
      <4>1. Written(l + k, a, e) = l - a + k
        BY <1>1, <1>2, <1>6 DEF Written
      <4>. QED  BY <1>4, <1>11, <4>1
    <3>2. nodes'[n].buf = Bytes(a, e - a)
      <4>1. nodes'[n].buf = nodes[n].buf  BY <1>11
      <4>. QED  BY <1>2, <4>1
    <3>3. ~(l + k < e) => l + k >= e  BY <1>1
    <3>4. NodeInv(n)'
      BY <1>9, <1>12, <1>13, <3>1, <3>2, <3>3 DEF NodeInv, a, e
    <3>. QED  BY <2>3, <3>4
  <2>4. CASE i < n
    <3>1. starts[i + 1] <= a  BY <1>1, <2>1, <2>4, StartsAscend DEF a
    <3>0. i # n  BY <1>1, <2>4
    <3>2. nodes'[i] = nodes[i] /\ i # n  BY <1>11, <3>0
    <3>3. Written(l + k, starts[i], starts[i + 1]) = Written(l, starts[i], starts[i + 1])
      BY <1>1, <1>2, <2>1, <3>1 DEF Written
    <3>4. ~(l < starts[i + 1]) /\ l + k >= starts[i + 1]  BY <1>1, <1>2, <2>1, <3>1
    <3>. QED  BY <1>9, <1>13, <2>2, <3>2, <3>3, <3>4 DEF NodeInv, l
  <2>5. CASE i > n
    <3>1. e <= starts[i]  BY <1>1, <2>1, <2>5, StartsAscend DEF e
    <3>2. nodes'[i] = nodes[i] /\ i # n  BY <1>1, <1>11, <2>5
    <3>3. Written(l + k, starts[i], starts[i + 1]) = Written(l, starts[i], starts[i + 1])
      BY <1>1, <1>2, <1>6, <2>1, <3>1 DEF Written
    <3>4. l + k < starts[i + 1] /\ (l >= starts[i + 1] => l + k >= starts[i + 1])
      BY <1>1, <1>6, <2>1, <3>1
    <3>. QED  BY <1>3, <1>9, <1>13, <2>2, <3>2, <3>3, <3>4 DEF NodeInv, l
  <2>. QED  BY <1>1, <2>3, <2>4, <2>5
<1>15. NodesInv'
  <2>1. starts[N + 1] \in Nat /\ e <= starts[N + 1]  BY NodesAreMessages DEF e
  <2>2. l + k <= starts[N + 1]  BY <1>1, <1>6, <2>1
  <2>. QED  BY <1>9, <1>11, <1>13, <1>14, <2>2 DEF NodesInv
<1>. QED
  BY <1>1, <1>3, <1>6, <1>8, <1>9, <1>10, <1>11, <1>12, <1>15 DEF e, l

-----------------------------------------------------------------------------
(* Steps of a connection that stays open in a server that runs on.         *)

Up == fate = "runs" /\ open

UpInv ==
    /\ TypeOK /\ CountInv /\ out = Bytes(0, Len(out))
    /\ PlaceInv /\ RecvInv /\ NodesInv /\ LinkInv /\ CurInv /\ EdgeInv

\* Nothing opens the connection again or undoes what has ended the process.
LEMMA NoReturn ==
    ASSUME [Next]_vars
    PROVE  starts' = starts /\ (open' => open) /\ (fate' = "runs" => fate = "runs")
<1>1. CASE UNCHANGED vars  BY <1>1 DEF vars, wireVars, netVars
<1>2. CASE ClientStep
  BY <1>2 DEF ClientStep, PeerStep, PeerSend, PeerRead, PeerEnd
<1>3. CASE fate = "runs" /\ Signal  BY <1>3 DEF Signal, wireVars, netVars
<1>4. CASE fate = "runs" /\ (Check \/ EpollWait \/ HupEvent \/ ConnEvent)
  BY <1>4 DEF Check, EpollWait, HupEvent, ConnEvent, Destroy, CloseFd, wireVars, netVars
<1>5. CASE fate = "runs" /\ (ReadEagain \/ ReadEndsInHead \/ ReadEndsInBody \/ ReadPartOfHead)
  BY <1>5 DEF ReadEagain, ReadEndsInHead, ReadEndsInBody, ReadPartOfHead, Destroy, CloseFd,
              wireVars, netVars
<1>6. CASE fate = "runs" /\ (ReadHead \/ ReadPartOfBody \/ ReadBody)
  BY <1>6 DEF ReadHead, ReadPartOfBody, ReadBody, Destroy, CloseFd, netVars
<1>7. CASE fate = "runs" /\ (DirectWrite \/ DirectEagain \/ DirectError \/ QueueNode \/ Sigpipe)
  BY <1>7 DEF DirectWrite, DirectEagain, DirectError, QueueNode, Sigpipe, wireVars, netVars
<1>8. CASE fate = "runs" /\ (OutFreed \/ OutStart \/ DrainWrite \/ DrainEagain \/ DrainError
                                \/ DrainFreed \/ DrainDone)
  BY <1>8 DEF OutFreed, OutStart, DrainWrite, DrainEagain, DrainError, DrainFreed, DrainDone,
              CloseFd, wireVars, netVars
<1>. QED
  BY <1>1, <1>2, <1>3, <1>4, <1>5, <1>6, <1>7, <1>8 DEF Next, ServerStep

\* Who writes, makes, links or frees a node.
NodeStep == ReadBody \/ DirectWrite \/ DirectEagain \/ DirectError \/ QueueNode \/ DrainWrite

LEMMA NodesRest ==
    ASSUME [Next]_vars, ~NodeStep
    PROVE  UNCHANGED <<nodes, out>> /\ (Writable' => Writable)
<1> USE DEF Writable, NodeStep
<1>1. CASE UNCHANGED vars  BY <1>1 DEF vars, wireVars, netVars, queueVars
<1>2. CASE ClientStep
  BY <1>2 DEF ClientStep, PeerStep, PeerSend, PeerRead, PeerEnd, queueVars
<1>3. CASE Signal  BY <1>3 DEF Signal, wireVars, netVars, queueVars
<1>4. CASE Check \/ EpollWait \/ HupEvent \/ ConnEvent
  BY <1>4 DEF Check, EpollWait, HupEvent, ConnEvent, wireVars, netVars, queueVars
<1>5. CASE ReadEagain \/ ReadEndsInHead \/ ReadEndsInBody \/ ReadPartOfHead
  BY <1>5 DEF ReadEagain, ReadEndsInHead, ReadEndsInBody, ReadPartOfHead, wireVars, netVars,
              queueVars
<1>6. CASE ReadHead \/ ReadPartOfBody \/ Sigpipe
  BY <1>6 DEF ReadHead, ReadPartOfBody, Sigpipe, wireVars, netVars, queueVars
<1>7. CASE OutFreed \/ OutStart \/ DrainEagain \/ DrainError \/ DrainFreed \/ DrainDone
  BY <1>7 DEF OutFreed, OutStart, DrainEagain, DrainError, DrainFreed, DrainDone, wireVars,
              netVars, queueVars
<1>. QED
  BY <1>1, <1>2, <1>3, <1>4, <1>5, <1>6, <1>7 DEF Next, ServerStep

\* What DirectWrite and DrainWrite do.
LEMMA DirectWrites ==
    ASSUME UpInv, DirectWrite
    PROVE  /\ cur \in 1 .. N /\ cur = N /\ nodes[cur].live /\ Len(out) >= starts[cur]
           /\ \E k \in 1 .. SendRoom :
                 WritesOf(cur, k) /\ pc' = IF k < Unsent(cur) THEN "direct" ELSE "read"
<1>1. /\ pc = "direct" /\ N > 0 /\ cur = N /\ nodes[cur].live /\ qhead = NULL
      /\ Writable => Len(out) >= starts[N]
  BY DEF UpInv, CurInv, DirectWrite
<1>2. PICK k \in 1 .. SendRoom :
          /\ Write(cur, k)
          /\ nodes' = [nodes EXCEPT ![cur].off = @ + k, ![cur].live = k < Unsent(cur)]
          /\ pc' = IF k < Unsent(cur) THEN "direct" ELSE "read"
  BY DEF DirectWrite
<1>3. starts' = starts  BY DEF DirectWrite, netVars
<1>4. cur \in 1 .. N
  <2>1. N \in Nat  BY SizesFacts DEF UpInv
  <2>. QED  BY <1>1, <2>1
<1>5. Writable  BY <1>2 DEF Write, Writable
<1>6. WritesOf(cur, k)  BY <1>2, <1>3 DEF WritesOf
<1>. QED  BY <1>1, <1>2, <1>4, <1>5, <1>6

LEMMA DrainWrites ==
    ASSUME UpInv, DrainWrite
    PROVE  /\ cur \in 1 .. N /\ nodes[cur].live /\ Len(out) >= starts[cur]
           /\ \E k \in 1 .. SendRoom :
                 WritesOf(cur, k) /\ cur' = IF k < Unsent(cur) THEN cur ELSE nodes[cur].next
<1>1. /\ pc = "drain" /\ cur # NULL /\ nodes[cur].live
      /\ Writable => Len(out) >= starts[cur]
  BY DEF UpInv, CurInv, DrainWrite
<1>2. PICK k \in 1 .. SendRoom :
          /\ Write(cur, k)
          /\ nodes' = [nodes EXCEPT ![cur].off = @ + k, ![cur].live = k < Unsent(cur)]
          /\ cur' = IF k < Unsent(cur) THEN cur ELSE nodes[cur].next
  BY DEF DrainWrite
<1>3. starts' = starts  BY DEF DrainWrite, netVars
<1>4. cur \in 1 .. N
  <2>1. cur \in 0 .. N  BY DEF UpInv, TypeOK, N
  <2>. QED  BY <1>1, <2>1, SizesFacts DEF UpInv, NULL
<1>5. Writable  BY <1>2 DEF Write, Writable
<1>. QED  BY <1>1, <1>2, <1>3, <1>4, <1>5 DEF WritesOf

\* The steps that link or free the node at hand.
LEMMA LinkSteps ==
    ASSUME UpInv, DirectEagain \/ QueueNode \/ DirectError
    PROVE  /\ cur \in 1 .. N /\ cur = N /\ out' = out /\ starts' = starts /\ N' = N
           /\ nodes' \in Seq(Node)
           /\ \A i \in 1 .. N : nodes'[i].buf = nodes[i].buf /\ nodes'[i].off = nodes[i].off
           /\ ~DirectError => /\ \A i \in 1 .. N : nodes'[i].live = nodes[i].live
                              /\ peer' = peer
           /\ DirectError => /\ peer' = "abort"
                             /\ \A i \in 1 .. N : /\ nodes'[i].live => nodes[i].live
                                                  /\ nodes'[i].next = nodes[i].next
<1>1. /\ TypeOK /\ pc \in {"direct", "queue"} /\ cur = N /\ N > 0 /\ N \in Nat
      /\ pc = "queue" => qhead # NULL /\ qtail \in Nat /\ qtail = N - 1 /\ qhead <= qtail
      /\ qhead \in Nat
  <2>1. N \in Nat  BY SizesFacts DEF UpInv
  <2>2. qhead \in 0 .. N /\ qtail \in 0 .. N  BY DEF UpInv, TypeOK, N
  <2>. QED
    BY <2>1, <2>2 DEF UpInv, CurInv, LinkInv, DirectEagain, QueueNode, DirectError
<1>2. cur \in 1 .. N /\ cur \in Nat  BY <1>1
<1>3. out' = out /\ starts' = starts
  BY DEF DirectEagain, QueueNode, DirectError, netVars
<1>4. CASE DirectEagain
  <2>1. nodes' = [nodes EXCEPT ![cur].next = cur] /\ peer' = peer /\ peer # "reset"
    BY <1>4 DEF DirectEagain, netVars
  <2>. QED  BY <1>1, <1>2, <1>3, <2>1, LinkUpdate DEF DirectError
<1>5. CASE QueueNode
  <2>1. nodes' = [nodes EXCEPT ![qtail].next = cur] /\ peer' = peer /\ pc = "queue"
    BY <1>1, <1>5 DEF QueueNode, Enqueue, netVars
  <2>2. qtail \in 1 .. N  BY <1>1, <2>1 DEF NULL
  <2>. QED  BY <1>1, <1>2, <1>3, <2>1, <2>2, LinkUpdate DEF DirectError
<1>6. CASE DirectError
  <2>1. nodes' = [nodes EXCEPT ![cur].live = FALSE] /\ peer' = "abort"
    BY <1>6 DEF DirectError
  <2>2. /\ nodes' \in Seq(Node) /\ N' = N
        /\ \A i \in 1 .. N : /\ nodes'[i].buf = nodes[i].buf
                             /\ nodes'[i].off = nodes[i].off
                             /\ nodes'[i].next = nodes[i].next
                             /\ i # cur => nodes'[i] = nodes[i]
        /\ ~nodes'[cur].live
    BY <1>1, <1>2, <2>1, FreeUpdate
  <2>3. \A i \in 1 .. N : nodes'[i].live => nodes[i].live  BY <2>2
  <2>. QED  BY <1>1, <1>2, <1>3, <1>6, <2>1, <2>2, <2>3
<1>. QED  BY <1>4, <1>5, <1>6

-----------------------------------------------------------------------------
(* Every step keeps the parts of the invariant.                            *)

LEMMA NodesPart ==
    ASSUME UpInv, [Next]_vars
    PROVE  NodesInv' /\ out' = Bytes(0, Len(out')) /\ out' \in Seq(Nat) /\ nodes' \in Seq(Node)
<1>1. /\ TypeOK /\ CountInv /\ out = Bytes(0, Len(out)) /\ RecvInv /\ NodesInv
      /\ N + 1 \in DOMAIN starts /\ out \in Seq(Nat) /\ nodes \in Seq(Node) /\ N \in Nat
  BY SizesFacts DEF UpInv, RecvInv, TypeOK, WireTypeOK
<1>2. starts' = starts  BY NoReturn
<1>3. CASE ~NodeStep
  <2>1. nodes' = nodes /\ out' = out /\ (Writable' => Writable)  BY <1>3, NodesRest
  <2>. QED  BY <1>1, <1>2, <2>1 DEF NodesInv, NodeInv, N
<1>4. CASE ReadBody
  <2>1. /\ nodes' \in Seq(Node) /\ N' = N + 1 /\ \A i \in 1 .. N : nodes'[i] = nodes[i]
        /\ nodes'[N + 1].buf = Bytes(starts[N + 1], starts[N + 2] - starts[N + 1])
        /\ nodes'[N + 1].off = 0 /\ nodes'[N + 1].live /\ N + 2 \in DOMAIN starts
    BY <1>1, <1>4, NewNode
  <2>2. out' = out /\ (Writable' <=> Writable)  BY <1>4 DEF ReadBody, netVars, Writable
  <2>3. /\ starts[N + 1] \in Nat /\ starts[N + 2] \in Nat /\ Len(out) \in Nat
        /\ starts[N + 1] < starts[N + 2] /\ Len(out) <= starts[N + 1]
    <3>1. starts \in Streams /\ N + 1 < N + 2  BY <1>1, SizesFacts
    <3>2. starts[N + 1] < starts[N + 2] /\ starts[N + 1] \in Nat /\ starts[N + 2] \in Nat
      BY <1>1, <2>1, <3>1, StartsAscend
    <3>. QED  BY <1>1, <3>2, SizesFacts DEF NodesInv
  <2>4. ASSUME NEW i \in Nat, i = N + 1 PROVE NodeInv(i)'
    <3>1. Written(Len(out), starts[N + 1], starts[N + 2]) = 0  BY <2>3 DEF Written
    <3>2. Len(out) < starts[N + 2]  BY <2>3
    <3>3. i + 1 = N + 2  BY <1>1, <2>4
    <3>. QED  BY <1>2, <2>1, <2>2, <2>4, <3>1, <3>2, <3>3 DEF NodeInv
  <2>5. \A i \in 1 .. N : NodeInv(i)'  BY <1>1, <1>2, <2>1, <2>2 DEF NodesInv, NodeInv
  <2>6. \A i \in 1 .. N' : NodeInv(i)'
    <3>1. \A i \in 1 .. N' : i \in Nat /\ (i = N + 1 \/ i \in 1 .. N)  BY <1>1, <2>1
    <3>. QED  BY <2>4, <2>5, <3>1
  <2>7. Len(out') <= starts'[N' + 1]
    <3>1. N' + 1 = N + 2 /\ Len(out) <= starts[N + 2]  BY <1>1, <2>1, <2>3
    <3>. QED  BY <1>2, <2>2, <3>1
  <2>. QED  BY <1>1, <2>1, <2>2, <2>6, <2>7 DEF NodesInv
<1>5. CASE DirectWrite
  <2>1. cur \in 1 .. N /\ nodes[cur].live /\ Len(out) >= starts[cur]  BY <1>5, DirectWrites
  <2>2. PICK k \in 1 .. SendRoom : WritesOf(cur, k)  BY <1>5, DirectWrites
  <2>. QED  BY <1>1, <2>1, <2>2, WriteStep
<1>6. CASE DrainWrite
  <2>1. cur \in 1 .. N /\ nodes[cur].live /\ Len(out) >= starts[cur]  BY <1>6, DrainWrites
  <2>2. PICK k \in 1 .. SendRoom : WritesOf(cur, k)  BY <1>6, DrainWrites
  <2>. QED  BY <1>1, <2>1, <2>2, WriteStep
<1>7. CASE DirectEagain \/ QueueNode \/ DirectError
  <2>1. /\ out' = out /\ N' = N /\ nodes' \in Seq(Node)
        /\ \A i \in 1 .. N : /\ nodes'[i].buf = nodes[i].buf
                             /\ nodes'[i].off = nodes[i].off
                             /\ nodes'[i].live => nodes[i].live
                             /\ Writable' => Writable /\ (nodes[i].live => nodes'[i].live)
    <3>1. CASE DirectError
      <4>1. ~Writable'  BY <1>7, <3>1, LinkSteps DEF Writable
      <4>. QED  BY <1>7, <3>1, <4>1, LinkSteps
    <3>2. CASE ~DirectError
      <4>1. Writable' <=> Writable  BY <1>7, <3>2, LinkSteps DEF Writable
      <4>. QED  BY <1>7, <3>2, <4>1, LinkSteps
    <3>. QED  BY <3>1, <3>2
  <2>2. \A i \in 1 .. N : NodeInv(i)'  BY <1>1, <1>2, <2>1 DEF NodesInv, NodeInv
  <2>. QED  BY <1>1, <1>2, <2>1, <2>2 DEF NodesInv
<1>. QED  BY <1>3, <1>4, <1>5, <1>6, <1>7 DEF NodeStep

\* Where the other steps go, and what becomes of the queue.
LEMMA PcRest ==
    ASSUME [Next]_vars, ~NodeStep
    PROVE  /\ \/ pc' = pc /\ cur' = cur /\ qhead' = qhead
              \/ /\ pc \notin {"direct", "queue"} /\ pc' \notin {"direct", "queue", "drain"}
                 /\ qhead' = qhead
              \/ pc = "out" /\ pc' = "drain" /\ cur' = qhead /\ qhead' = qhead /\ qhead # NULL
              \/ pc = "drain" /\ cur = NULL /\ qhead' = NULL /\ pc' = "check"
           /\ qtail' = qtail \/ qhead' = NULL
<1> USE DEF NodeStep
<1>1. CASE UNCHANGED vars  BY <1>1 DEF vars, queueVars
<1>2. CASE ClientStep  BY <1>2 DEF ClientStep, queueVars
<1>3. CASE Signal  BY <1>3 DEF Signal, queueVars
<1>4. CASE Check \/ EpollWait \/ HupEvent \/ ConnEvent
  BY <1>4 DEF Check, EpollWait, HupEvent, ConnEvent, Destroy, queueVars
<1>5. CASE ReadEagain \/ ReadEndsInHead \/ ReadEndsInBody \/ ReadPartOfHead
  BY <1>5 DEF ReadEagain, ReadEndsInHead, ReadEndsInBody, ReadPartOfHead, Destroy, AfterRead,
              queueVars
<1>6. CASE ReadHead \/ ReadPartOfBody \/ Sigpipe
  BY <1>6 DEF ReadHead, ReadPartOfBody, Sigpipe, Destroy, AfterRead, queueVars
<1>7. CASE OutFreed \/ OutStart \/ DrainEagain \/ DrainError \/ DrainFreed \/ DrainDone
  BY <1>7 DEF OutFreed, OutStart, DrainEagain, DrainError, DrainFreed, DrainDone, queueVars
<1>. QED
  BY <1>1, <1>2, <1>3, <1>4, <1>5, <1>6, <1>7 DEF Next, ServerStep

LEMMA EndsFacts ==
    ASSUME TypeOK
    PROVE  qhead \in 0 .. N /\ qtail \in 0 .. N /\ cur \in 0 .. N /\ N \in Nat
BY SizesFacts DEF TypeOK, N

LEMMA LinkPart == UpInv /\ [Next]_vars => LinkInv'
<1> SUFFICES ASSUME UpInv, [Next]_vars PROVE LinkInv'  OBVIOUS
<1>1. TypeOK /\ LinkInv /\ CurInv  BY DEF UpInv
<1>2. qhead \in 0 .. N /\ qtail \in 0 .. N /\ cur \in 0 .. N /\ N \in Nat
  BY <1>1, EndsFacts
<1>3. CASE ~NodeStep
  <2>1. nodes' = nodes /\ N' = N  BY <1>3, NodesRest DEF N
  <2>2. /\ (pc' = "queue" <=> pc = "queue") /\ qhead' \in {qhead, NULL}
        /\ qtail' = qtail \/ qhead' = NULL
    BY <1>3, PcRest
  <2>. QED  BY <1>1, <2>1, <2>2 DEF LinkInv
<1>4. CASE ReadBody
  <2>1. /\ N' = N + 1 /\ \A i \in 1 .. N : nodes'[i] = nodes[i]
        /\ nodes'[N + 1].next = NULL
    BY <1>1, <1>4, NewNode DEF UpInv
  <2>2. /\ pc = "read" /\ qhead' = qhead /\ qtail' = qtail
        /\ qhead # NULL => pc' = "queue"
    BY <1>4 DEF ReadBody
  <2>3. \A i \in 1 .. N' : nodes'[i].next \in 0 .. N'
    <3>1. \A i \in 1 .. N' : i = N + 1 \/ i \in 1 .. N  BY <1>2, <2>1
    <3>2. \A i \in 1 .. N : nodes'[i].next \in 0 .. N'  BY <1>1, <1>2, <2>1 DEF LinkInv
    <3>. QED  BY <1>2, <2>1, <3>1, <3>2 DEF NULL
  <2>4. ASSUME qhead # NULL
        PROVE  /\ qhead <= qtail /\ qtail = N' - 1
               /\ \A i \in 1 .. N' : /\ qhead <= i /\ i < qtail => nodes'[i].next = i + 1
                                     /\ i = qtail => nodes'[i].next \in {NULL, i}
    <3>1. /\ qhead <= qtail /\ qtail = N
          /\ \A i \in 1 .. N : /\ qhead <= i /\ i < qtail => nodes[i].next = i + 1
                               /\ i = qtail => nodes[i].next \in {NULL, i}
      BY <1>1, <2>2, <2>4 DEF LinkInv
    <3>2. \A i \in 1 .. N' : i = N + 1 \/ i \in 1 .. N  BY <1>2, <2>1
    <3>. QED  BY <1>2, <2>1, <3>1, <3>2
  <2>. QED  BY <2>2, <2>3, <2>4 DEF LinkInv
<1>5. CASE DirectWrite
  <2>1. cur \in 1 .. N /\ nodes[cur].live /\ Len(out) >= starts[cur]
    BY <1>5, DirectWrites
  <2>2. PICK k \in 1 .. SendRoom : WritesOf(cur, k)  BY <1>5, DirectWrites
  <2>3. N' = N /\ \A i \in 1 .. N : nodes'[i].next = nodes[i].next
    BY <1>1, <2>1, <2>2, WriteStep DEF UpInv, RecvInv
  <2>4. qhead' = NULL  BY <1>1, <1>5 DEF DirectWrite, CurInv
  <2>. QED  BY <1>1, <2>3, <2>4 DEF LinkInv
<1>6. CASE DrainWrite
  <2>1. cur \in 1 .. N /\ nodes[cur].live /\ Len(out) >= starts[cur]
    BY <1>6, DrainWrites
  <2>2. PICK k \in 1 .. SendRoom : WritesOf(cur, k)  BY <1>6, DrainWrites
  <2>3. N' = N /\ \A i \in 1 .. N : nodes'[i].next = nodes[i].next
    BY <1>1, <2>1, <2>2, WriteStep DEF UpInv, RecvInv
  <2>4. qhead' = qhead /\ qtail' = qtail /\ pc' = pc  BY <1>6 DEF DrainWrite
  <2>. QED  BY <1>1, <2>3, <2>4 DEF LinkInv
<1>7. CASE DirectEagain
  <2>1. /\ cur \in 1 .. N /\ cur = N /\ N' = N
        /\ nodes' = [nodes EXCEPT ![cur].next = cur]
        /\ qhead' = N /\ qtail' = N /\ pc' = "read"
    BY <1>7, LinkSteps DEF DirectEagain
  <2>2. cur \in Nat  BY <2>1
  <2>3. nodes'[cur].next = cur /\ \A i \in 1 .. N : i # cur => nodes'[i] = nodes[i]
    BY <1>1, <2>1, <2>2, LinkUpdate
  <2>. QED  BY <1>1, <1>2, <2>1, <2>3 DEF LinkInv
<1>8. CASE QueueNode
  <2>1. /\ cur \in 1 .. N /\ cur = N /\ N' = N /\ pc = "queue" /\ pc' = "read"
        /\ qhead # NULL /\ qhead' = qhead /\ qtail' = N
        /\ nodes' = [nodes EXCEPT ![qtail].next = cur]
        /\ nodes[N].next = NULL
    BY <1>1, <1>8, LinkSteps DEF QueueNode, Enqueue, CurInv
  <2>2. /\ qhead <= qtail /\ qtail = N - 1
        /\ \A i \in 1 .. N : qhead <= i /\ i < qtail => nodes[i].next = i + 1
    BY <1>1, <2>1 DEF LinkInv
  <2>3. qtail \in 1 .. N /\ cur \in Nat /\ qtail # N  BY <1>2, <2>1, <2>2 DEF NULL
  <2>4. nodes'[qtail].next = cur /\ \A i \in 1 .. N : i # qtail => nodes'[i] = nodes[i]
    BY <1>1, <2>1, <2>3, LinkUpdate
  <2>5. \A i \in 1 .. N : nodes'[i].next \in 0 .. N  BY <1>1, <1>2, <2>1, <2>4 DEF LinkInv
  <2>6. \A i \in 1 .. N : qhead <= i /\ i < N => nodes'[i].next = i + 1
    <3>1. \A i \in 1 .. N : i < N => i < qtail \/ i = qtail  BY <1>2, <2>2
    <3>. QED  BY <1>2, <2>1, <2>2, <2>3, <2>4, <3>1
  <2>7. nodes'[N].next = NULL  BY <1>2, <2>1, <2>3, <2>4
  <2>. QED  BY <1>2, <2>1, <2>5, <2>6, <2>7 DEF LinkInv
<1>9. CASE DirectError
  <2>1. N' = N /\ \A i \in 1 .. N : nodes'[i].next = nodes[i].next  BY <1>9, LinkSteps
  <2>2. qhead' = NULL  BY <1>1, <1>9 DEF DirectError, CurInv
  <2>. QED  BY <1>1, <2>1, <2>2 DEF LinkInv
<1>. QED  BY <1>3, <1>4, <1>5, <1>6, <1>7, <1>8, <1>9 DEF NodeStep

LEMMA CurPart == UpInv /\ [Next]_vars => CurInv'
<1> SUFFICES ASSUME UpInv, [Next]_vars PROVE CurInv'  OBVIOUS
<1>1. TypeOK /\ LinkInv /\ CurInv /\ NodesInv /\ N + 1 \in DOMAIN starts
      /\ out = Bytes(0, Len(out))
  BY DEF UpInv, RecvInv
<1>2. qhead \in 0 .. N /\ qtail \in 0 .. N /\ cur \in 0 .. N /\ N \in Nat
      /\ Len(out) \in Nat
  BY <1>1, EndsFacts, SizesFacts
<1>3. starts' = starts  BY NoReturn
<1>4. \A i \in 1 .. N + 1 : starts[i] \in Nat
  <2>1. \A i \in 1 .. N : starts[i] \in Nat  BY <1>1, NodesAreMessages
  <2>2. starts[N + 1] \in Nat  BY <1>1, NodesAreMessages
  <2>3. \A i \in 1 .. N + 1 : i = N + 1 \/ i \in 1 .. N  BY <1>2
  <2>. QED  BY <2>1, <2>2, <2>3
<1>5. CASE ~NodeStep
  <2>1. nodes' = nodes /\ out' = out /\ N' = N /\ (Writable' => Writable)
    BY <1>5, NodesRest DEF N
  <2>2. CASE pc' = pc /\ cur' = cur /\ qhead' = qhead
    BY <1>1, <1>3, <2>1, <2>2 DEF CurInv
  <2>3. CASE /\ pc \notin {"direct", "queue"} /\ pc' \notin {"direct", "queue", "drain"}
             /\ qhead' = qhead
    BY <1>1, <1>3, <2>1, <2>3 DEF CurInv
  <2>4. CASE pc = "out" /\ pc' = "drain" /\ cur' = qhead /\ qhead' = qhead /\ qhead # NULL
    BY <1>1, <1>2, <1>3, <2>1, <2>4 DEF CurInv
  <2>5. CASE pc = "drain" /\ cur = NULL /\ qhead' = NULL /\ pc' = "check"
    BY <1>1, <1>3, <2>1, <2>5 DEF CurInv
  <2>. QED  BY <1>5, <2>2, <2>3, <2>4, <2>5, PcRest
<1>6. CASE ReadBody
  <2>1. /\ N' = N + 1 /\ cur' = N'
        /\ nodes'[N + 1].next = NULL /\ nodes'[N + 1].live
    BY <1>1, <1>6, NewNode DEF UpInv
  <2>2. /\ pc = "read" /\ qhead' = qhead /\ out' = out /\ peer' = peer
        /\ pc' = IF qhead = NULL THEN "direct" ELSE "queue"
    BY <1>6 DEF ReadBody, netVars
  <2>3. Writable' => Writable  BY <2>2 DEF Writable
  <2>. QED  BY <1>1, <1>2, <1>3, <2>1, <2>2, <2>3 DEF CurInv
<1>7. CASE DirectWrite
  <2>1. cur \in 1 .. N /\ cur = N /\ nodes[cur].live /\ Len(out) >= starts[cur]
    BY <1>7, DirectWrites
  <2>2. PICK k \in 1 .. SendRoom :
            WritesOf(cur, k) /\ pc' = IF k < Unsent(cur) THEN "direct" ELSE "read"
    BY <1>7, DirectWrites
  <2>3. /\ N' = N /\ \A i \in 1 .. N : nodes'[i].next = nodes[i].next
        /\ k \in Nat /\ Len(out') = Len(out) + k /\ Len(out') <= starts[cur + 1]
        /\ k < Unsent(cur) <=> Len(out') < starts[cur + 1]
        /\ nodes'[cur].live <=> Len(out') < starts[cur + 1]
    BY <1>1, <2>1, <2>2, WriteStep
  <2>4. pc = "direct" /\ qhead = NULL /\ qhead' = NULL /\ cur' = cur
        /\ nodes[cur].next = NULL
    BY <1>1, <1>7 DEF DirectWrite, CurInv
  <2>5. CASE Len(out') < starts[N + 1]
    <3>1. pc' = "direct" /\ nodes'[cur].live  BY <2>1, <2>2, <2>3, <2>5
    <3>2. Len(out') >= starts[N] /\ N > 0  BY <1>2, <1>4, <2>1, <2>3
    <3>. QED  BY <1>3, <2>1, <2>3, <2>4, <3>1, <3>2 DEF CurInv
  <2>6. CASE ~(Len(out') < starts[N + 1])
    <3>1. pc' = "read"  BY <2>1, <2>2, <2>3, <2>6
    <3>2. Len(out') \in Nat /\ starts[N + 1] \in Nat  BY <1>2, <1>4, <2>3
    <3>3. Len(out') >= starts[N + 1]  BY <2>6, <3>2
    <3>. QED  BY <1>3, <2>3, <2>4, <3>1, <3>3 DEF CurInv
  <2>. QED  BY <2>5, <2>6
<1>8. CASE DrainWrite
  <2>1. cur \in 1 .. N /\ nodes[cur].live /\ Len(out) >= starts[cur]
    BY <1>8, DrainWrites
  <2>2. PICK k \in 1 .. SendRoom :
            WritesOf(cur, k) /\ cur' = IF k < Unsent(cur) THEN cur ELSE nodes[cur].next
    BY <1>8, DrainWrites
  <2>3. /\ N' = N /\ Writable
        /\ k \in Nat /\ Len(out') = Len(out) + k /\ Len(out') <= starts[cur + 1]
        /\ k < Unsent(cur) <=> Len(out') < starts[cur + 1]
    BY <1>1, <2>1, <2>2, WriteStep
  <2>4. /\ pc = "drain" /\ pc' = "drain" /\ qhead' = qhead /\ qhead # NULL
        /\ qhead <= cur /\ Len(out) >= starts[qhead]
    BY <1>1, <1>8, <2>3 DEF DrainWrite, CurInv
  <2>5. /\ qhead <= qtail /\ qtail = N /\ cur <= qtail
        /\ qhead <= cur /\ cur < qtail => nodes[cur].next = cur + 1
        /\ cur = qtail => nodes[cur].next \in {NULL, cur}
    BY <1>1, <1>2, <2>1, <2>4 DEF LinkInv
  <2>6. /\ starts[cur] \in Nat /\ starts[cur + 1] \in Nat /\ starts[qhead] \in Nat
        /\ starts[cur] < starts[cur + 1]
    <3>1. qhead \in 1 .. N  BY <1>2, <2>4 DEF NULL
    <3>. QED  BY <1>1, <2>1, <3>1, NodesAreMessages
  <2>7. Len(out') >= starts[qhead] /\ Len(out') >= starts[cur]
    BY <1>2, <2>1, <2>3, <2>4, <2>6
  <2>8. /\ cur' # NULL => qhead <= cur'
        /\ Len(out') >= starts[IF cur' = NULL THEN N + 1 ELSE cur']
    <3>1. CASE k < Unsent(cur)
      BY <2>1, <2>2, <2>4, <2>7, <3>1 DEF NULL
    <3>2. CASE ~(k < Unsent(cur))
      <4>1. Len(out') >= starts[cur + 1] /\ cur' = nodes[cur].next
        BY <1>2, <2>2, <2>3, <2>6, <3>2
      <4>2. CASE cur < qtail
        <5>1. cur' = cur + 1 /\ cur' # NULL /\ qhead <= cur'
          BY <1>2, <2>1, <2>4, <2>5, <4>1, <4>2 DEF NULL
        <5>. QED  BY <4>1, <5>1
      <4>3. CASE cur = qtail
        <5>1. cur' = NULL \/ cur' = cur  BY <2>5, <4>1, <4>3
        <5>2. cur + 1 = N + 1 /\ cur # NULL  BY <2>1, <2>5, <4>3 DEF NULL
        <5>. QED  BY <2>4, <2>7, <4>1, <5>1, <5>2
      <4>. QED  BY <1>2, <2>1, <2>5, <4>2, <4>3
    <3>. QED  BY <3>1, <3>2
  <2>. QED  BY <1>3, <2>3, <2>4, <2>7, <2>8 DEF CurInv
<1>9. CASE DirectEagain
  <2>1. /\ N' = N /\ cur = N /\ N > 0 /\ pc = "direct" /\ pc' = "read" /\ qhead' = cur
        /\ peer' = peer /\ out' = out /\ qhead = NULL
        /\ Writable => Len(out) >= starts[N]
    BY <1>1, <1>9, LinkSteps DEF DirectEagain, CurInv, netVars
  <2>2. Writable' => Writable  BY <2>1 DEF Writable
  <2>3. qhead' = N /\ N # NULL  BY <2>1 DEF NULL
  <2>. QED  BY <1>3, <2>1, <2>2, <2>3 DEF CurInv
<1>10. CASE QueueNode
  <2>1. /\ N' = N /\ pc = "queue" /\ pc' = "read" /\ qhead # NULL /\ qhead' = qhead
        /\ peer' = peer /\ out' = out
    BY <1>1, <1>10, LinkSteps DEF QueueNode, Enqueue, CurInv, netVars
  <2>2. Writable' => Writable  BY <2>1 DEF Writable
  <2>. QED  BY <1>1, <1>3, <2>1, <2>2 DEF CurInv
<1>11. CASE DirectError
  <2>1. pc' = "read" /\ peer' = "abort"  BY <1>11 DEF DirectError
  <2>. QED  BY <2>1 DEF CurInv, Writable
<1>. QED  BY <1>5, <1>6, <1>7, <1>8, <1>9, <1>10, <1>11 DEF NodeStep

LEMMA RecvPart ==
    ASSUME UpInv, [Next]_vars, open'
    PROVE  RecvInv'
<1>1. TypeOK /\ CountInv /\ RecvInv  BY DEF UpInv
<1>2. starts' = starts  BY NoReturn
<1>3. ASSUME UNCHANGED <<rd, stage, head, body, bodyLen, type>>, N' = N PROVE RecvInv'
  BY <1>1, <1>2, <1>3 DEF RecvInv, Messages, BodyLen
<1>4. CASE ReadPartOfHead
  <2>1. /\ ReadLen \in Nat \ {0} /\ ReadLen < Remain /\ Remain = HeadLen - Len(head)
        /\ rd = starts[N + 1] + Len(head) /\ body = <<>> /\ Len(body) = 0
        /\ head' = Bytes(starts[N + 1], Len(head) + ReadLen)
        /\ Len(head') = Len(head) + ReadLen
        /\ starts[N + 1] \in Nat
    BY <1>1, <1>4, HeadRead DEF ReadPartOfHead
  <2>2. /\ rd' = rd + ReadLen /\ stage' = "HEAD_RECVING" /\ body' = body /\ nodes' = nodes
    BY <1>4 DEF ReadPartOfHead, queueVars
  <2>3. N' = N /\ N + 1 \in DOMAIN starts /\ Len(body') = 0
    BY <1>1, <2>1, <2>2 DEF N, RecvInv
  <2>4. HeadLen \in Nat /\ Len(head) \in Nat  BY <1>1, SizesFacts
  <2>5. Len(head') < HeadLen /\ rd' = starts[N + 1] + Len(head') + Len(body')
    BY <2>1, <2>2, <2>3, <2>4
  <2>6. body' = Bytes(starts[N + 1] + HeadLen, Len(body'))
    <3>1. starts[N + 1] + HeadLen \in Nat /\ 0 \in Nat  BY <2>1, <2>4
    <3>2. Bytes(starts[N + 1] + HeadLen, 0) = <<>>  BY <3>1, BytesFacts
    <3>. QED  BY <2>1, <2>2, <2>3, <3>2
  <2>. QED  BY <1>2, <2>1, <2>2, <2>3, <2>5, <2>6 DEF RecvInv
<1>5. CASE ReadHead
  <2>0. /\ stage # "BODY_RECVING" /\ ReadLen > 0 /\ ReadLen = Remain /\ rd' = rd + ReadLen
        /\ nodes' = nodes
    BY <1>5 DEF ReadHead, queueVars
  <2>1. /\ rd' = starts[N + 1] + HeadLen
        /\ head \o Bytes(rd, ReadLen) = Bytes(starts[N + 1], HeadLen)
        /\ Len(head \o Bytes(rd, ReadLen)) = HeadLen
        /\ ParseLen(head \o Bytes(rd, ReadLen)) = BodyLen(N + 1) /\ BodyLen(N + 1) \in Nat
        /\ (head \o Bytes(rd, ReadLen))[1] - 1 = starts[N + 1]
    BY <1>1, <2>0, HeadWhole
  <2>2. /\ N + 1 \in Messages /\ starts[N + 1] \in Nat /\ N + 1 \in DOMAIN starts
        /\ HeadLen \in Nat /\ BuffSize \in Nat
    BY <1>1, <2>0, HeadRead, SizesFacts DEF RecvInv
  <2>3. /\ ~(BodyLen(N + 1) > BuffSize)
        /\ stage' = "BODY_RECVING" /\ head' = head \o Bytes(rd, ReadLen) /\ body' = <<>>
        /\ bodyLen' = BodyLen(N + 1) /\ type' = starts[N + 1]
    BY <1>5, <2>1 DEF ReadHead, Destroy, CloseFd
  <2>4. Len(body') = 0 /\ Len(head') = HeadLen  BY <2>1, <2>3, EmptySeq
  <2>5. body' = Bytes(starts[N + 1] + HeadLen, Len(body'))
    <3>1. starts[N + 1] + HeadLen \in Nat /\ 0 \in Nat  BY <2>2
    <3>2. Bytes(starts[N + 1] + HeadLen, 0) = <<>>  BY <3>1, BytesFacts
    <3>. QED  BY <2>3, <2>4, <3>2
  <2>6. /\ rd' = starts[N + 1] + Len(head') + Len(body')
        /\ BodyLen(N + 1) <= BuffSize
        /\ Len(body') < BodyLen(N + 1) \/ BodyLen(N + 1) = 0
    <3>1. starts[N + 1] + HeadLen = starts[N + 1] + HeadLen + 0  BY <2>2
    <3>. QED  BY <2>1, <2>2, <2>3, <2>4, <3>1
  <2>7. N' = N /\ N' + 1 \in Messages' /\ BodyLen(N + 1)' = BodyLen(N + 1)
    BY <1>2, <2>0, <2>2 DEF N, Messages, BodyLen
  <2>8. head' = Bytes(starts[N + 1], Len(head'))  BY <2>1, <2>3, <2>4
  <2>. QED  BY <1>2, <2>2, <2>3, <2>4, <2>5, <2>6, <2>7, <2>8 DEF RecvInv
<1>6. CASE ReadPartOfBody
  <2>0. /\ stage = "BODY_RECVING" /\ ReadLen > 0 /\ ReadLen < Remain /\ rd' = rd + ReadLen
        /\ body' = body \o Bytes(rd, ReadLen)
        /\ UNCHANGED <<stage, head, bodyLen, type, nodes>>
    BY <1>6 DEF ReadPartOfBody, queueVars
  <2>1. /\ ReadLen \in Nat \ {0} /\ Remain = bodyLen - Len(body) /\ bodyLen \in Nat
        /\ Len(head) = HeadLen /\ starts[N + 1] \in Nat
        /\ rd = starts[N + 1] + HeadLen + Len(body)
        /\ body' = Bytes(starts[N + 1] + HeadLen, Len(body) + ReadLen)
        /\ Len(body') = Len(body) + ReadLen
    BY <1>1, <2>0, BodyRead
  <2>2. Len(body) \in Nat /\ HeadLen \in Nat  BY <1>1, SizesFacts
  <2>3. Len(body') < bodyLen /\ rd' = starts[N + 1] + HeadLen + Len(body')
    BY <2>0, <2>1, <2>2
  <2>4. N' = N  BY <2>0 DEF N
  <2>. QED  BY <1>1, <1>2, <2>0, <2>1, <2>3, <2>4 DEF RecvInv, Messages, BodyLen
<1>7. CASE ReadBody
  <2>1. N' = N + 1 /\ rd' = starts[N + 2] /\ N + 2 \in DOMAIN starts
    BY <1>1, <1>7, NewNode
  <2>2. stage' = "NO_RECV" /\ head' = <<>> /\ body' = <<>>  BY <1>7 DEF ReadBody
  <2>3. N \in Nat /\ HeadLen \in Nat /\ starts \in Streams  BY <1>1, SizesFacts
  <2>4. N' + 1 = N + 2 /\ starts[N + 2] \in Nat  BY <2>1, <2>3, StreamFacts
  <2>5. Len(<<>>) = 0  BY EmptySeq
  <2>6. Bytes(starts[N + 2], 0) = <<>> /\ Bytes(starts[N + 2] + HeadLen, 0) = <<>>
    <3>1. 0 \in Nat /\ starts[N + 2] + HeadLen \in Nat  BY <2>3, <2>4
    <3>. QED  BY <2>4, <3>1, BytesFacts
  <2>7. starts[N + 2] = starts[N + 2] + 0 + 0  BY <2>4
  <2>. QED  BY <1>2, <2>1, <2>2, <2>4, <2>5, <2>6, <2>7 DEF RecvInv
<1>8. CASE NodeStep /\ ~ReadBody
  <2>1. /\ UNCHANGED <<rd, stage, head, body, bodyLen, type>>
    BY <1>8 DEF NodeStep, DirectWrite, DirectEagain, DirectError, QueueNode, DrainWrite,
                recvVars
  <2>2. N' = N
    <3>1. CASE DirectWrite
      <4>1. PICK k \in 1 .. SendRoom : WritesOf(cur, k)  BY <3>1, DirectWrites
      <4>. QED  BY <1>1, <3>1, <4>1, DirectWrites, WriteStep DEF UpInv, RecvInv
    <3>2. CASE DrainWrite
      <4>1. PICK k \in 1 .. SendRoom : WritesOf(cur, k)  BY <3>2, DrainWrites
      <4>. QED  BY <1>1, <3>2, <4>1, DrainWrites, WriteStep DEF UpInv, RecvInv
    <3>. QED  BY <1>8, <3>1, <3>2, LinkSteps DEF NodeStep
  <2>. QED  BY <1>3, <2>1, <2>2
<1>9. ASSUME ~NodeStep, UNCHANGED <<rd, stage, head, body, bodyLen, type>> PROVE RecvInv'
  <2>1. N' = N  BY <1>9, NodesRest DEF N
  <2>. QED  BY <1>3, <1>9, <2>1
<1>10. CASE ~(NodeStep \/ ReadPartOfHead \/ ReadHead \/ ReadPartOfBody)
  <2>1. CASE UNCHANGED vars  BY <1>9, <1>10, <2>1 DEF vars, wireVars, recvVars
  <2>2. CASE ClientStep
    BY <1>9, <1>10, <2>2 DEF ClientStep, PeerStep, PeerSend, PeerRead, PeerEnd, recvVars
  <2>3. CASE Signal  BY <1>9, <1>10, <2>3 DEF Signal, wireVars, recvVars
  <2>4. CASE Check \/ EpollWait \/ HupEvent \/ ConnEvent
    BY <1>9, <1>10, <2>4 DEF Check, EpollWait, HupEvent, ConnEvent, wireVars, recvVars
  <2>5. CASE ReadEagain \/ ReadEndsInHead \/ ReadEndsInBody \/ Sigpipe
    BY <1>9, <1>10, <2>5 DEF ReadEagain, ReadEndsInHead, ReadEndsInBody, Sigpipe, wireVars,
                             recvVars
  <2>6. CASE OutFreed \/ OutStart \/ DrainEagain \/ DrainError \/ DrainFreed \/ DrainDone
    BY <1>9, <1>10, <2>6 DEF OutFreed, OutStart, DrainEagain, DrainError, DrainFreed,
                             DrainDone, wireVars, recvVars
  <2>. QED
    BY <1>10, <2>1, <2>2, <2>3, <2>4, <2>5, <2>6 DEF Next, ServerStep, NodeStep
<1>. QED  BY <1>4, <1>5, <1>6, <1>7, <1>8, <1>10

LEMMA EdgePart ==
    ASSUME UpInv, [Next]_vars, Up'
    PROVE  EdgeInv'
<1>1. TypeOK /\ PlaceInv /\ CurInv /\ EdgeInv /\ CountInv  BY DEF UpInv
<1>2. open /\ open' /\ fate' = "runs" /\ inMap
  BY <1>1, NoReturn DEF Up, PlaceInv
<1>3. /\ "in" \in interest
      /\ OutDue \/ pc \in {"out", "drain"} => ("out" \in evs => "out" \in interest)
      /\ Unread > 0 \/ peer # "up" => ready \/ InDue
      /\ noSpace => Room = 0
      /\ qhead # NULL =>
            /\ "out" \in interest
            /\ noSpace \/ pc \in {"out", "drain"} \/ (Room > 0 /\ (ready \/ OutDue))
  BY <1>1 DEF EdgeInv
<1>4. /\ rd \in Nat /\ sent \in Nat /\ got \in Nat /\ Len(out) \in Nat
      /\ SendRoom \in Nat \ {0} /\ got <= Len(out) /\ rd <= sent
  BY <1>1, SizesFacts DEF CountInv
<1>5. Room \in Int /\ Unread \in Nat  BY <1>4 DEF Room, Unread
<1>6. UNCHANGED <<out, got>> => Room' = Room  BY DEF Room
<1>7. UNCHANGED <<sent, rd>> => Unread' = Unread  BY DEF Unread
<1> USE DEF EdgeInv, InDue, OutDue
<1>8. CASE UNCHANGED vars
  BY <1>3, <1>6, <1>7, <1>8 DEF vars, wireVars, netVars, edgeVars, queueVars
<1>9. CASE ClientStep /\ (PeerSend \/ PeerEnd)
  <2>1. UNCHANGED <<got, rd, out, noSpace, interest, pc, evs, qhead>> /\ ready'
    BY <1>2, <1>9 DEF ClientStep, PeerSend, PeerEnd, queueVars
  <2>. QED  BY <1>3, <1>6, <2>1
<1>10. CASE ClientStep /\ PeerRead
  <2>1. /\ UNCHANGED <<sent, peer, rd, out, interest, pc, evs, qhead>>
        /\ got' = got + 1 /\ noSpace' = FALSE
        /\ ready' = (ready \/ (noSpace /\ "out" \in interest))
    BY <1>10 DEF ClientStep, PeerRead, queueVars
  <2>2. Room' = Room + 1  BY <1>4, <2>1 DEF Room
  <2>3. Room' > 0 \/ (~noSpace /\ ~(Room > 0))  BY <1>3, <1>5, <2>2
  <2>4. Unread' = Unread  BY <1>7, <2>1
  <2>5. /\ "in" \in interest' /\ (Unread' > 0 \/ peer' # "up" => ready' \/ InDue')
        /\ OutDue' \/ pc' \in {"out", "drain"} => ("out" \in evs' => "out" \in interest')
    BY <1>3, <2>1, <2>4
  <2>6. ASSUME qhead' # NULL
        PROVE  /\ "out" \in interest'
               /\ pc' \in {"out", "drain"} \/ (Room' > 0 /\ (ready' \/ OutDue'))
    <3>1. /\ "out" \in interest
          /\ noSpace \/ pc \in {"out", "drain"} \/ (Room > 0 /\ (ready \/ OutDue))
      BY <1>3, <2>1, <2>6
    <3>2. OutDue' = OutDue  BY <2>1
    <3> HIDE DEF OutDue
    <3>. QED  BY <2>1, <2>3, <3>1, <3>2
  <2> HIDE DEF InDue, OutDue
  <2>. QED  BY <2>1, <2>5, <2>6
<1>11. CASE Signal
  <2>1. /\ UNCHANGED <<sent, got, peer, rd, out, interest, ready, noSpace, evs, qhead>>
        /\ pc' = pc \/ (pc = "wait" /\ pc' = "check")
    BY <1>11 DEF Signal, wireVars, netVars, edgeVars, queueVars
  <2>. QED  BY <1>3, <1>6, <1>7, <2>1
<1>12. CASE Check
  <2>1. /\ UNCHANGED <<sent, got, peer, rd, out, interest, ready, noSpace, evs, qhead>>
        /\ pc = "check" /\ pc' = "wait"
    BY <1>2, <1>12 DEF Check, Destroy, CloseFd, netVars, edgeVars, queueVars
  <2>. QED  BY <1>3, <1>6, <1>7, <2>1
<1>13. CASE EpollWait
  <2>1. /\ pc = "wait" /\ pc' = "event" /\ ready' = FALSE /\ evs' = Mask
        /\ UNCHANGED <<sent, got, peer, rd, out, noSpace, interest, qhead>>
    BY <1>13 DEF EpollWait, netVars, queueVars
  <2>2. Unread > 0 \/ peer # "up" => "in" \in Mask
    BY <1>3 DEF Mask, Reported, Conditions
  <2>3. Room > 0 /\ "out" \in interest => "out" \in Mask
    BY DEF Mask, Reported, Conditions
  <2>4. "out" \in Mask => "out" \in interest  BY DEF Mask, Reported
  <2> HIDE DEF Mask
  <2>. QED  BY <1>3, <1>6, <1>7, <2>1, <2>2, <2>3, <2>4
<1>14. CASE HupEvent \/ ReadEndsInHead \/ ReadEndsInBody \/ DrainError
  BY <1>2, <1>14 DEF HupEvent, ReadEndsInHead, ReadEndsInBody, DrainError, Destroy, CloseFd
<1>15. CASE ConnEvent
  BY <1>3, <1>6, <1>7, <1>15 DEF ConnEvent, wireVars, netVars, edgeVars, queueVars
<1>16. CASE ReadEagain
  BY <1>3, <1>5, <1>6, <1>7, <1>16
     DEF ReadEagain, AfterRead, wireVars, netVars, edgeVars, queueVars
<1>17. CASE ReadPartOfHead \/ ReadHead \/ ReadPartOfBody \/ ReadBody
  <2>1. /\ pc = "read" /\ pc' \in {"read", "direct", "queue"}
        /\ UNCHANGED <<got, out, noSpace, evs, interest, ready, qhead>>
    BY <1>2, <1>17 DEF ReadPartOfHead, ReadHead, ReadPartOfBody, ReadBody, Destroy, CloseFd,
                       netVars, edgeVars, queueVars
  <2>. QED  BY <1>3, <1>6, <2>1
<1>18. CASE DirectWrite \/ DrainWrite
  <2>1. /\ UNCHANGED <<sent, got, peer, rd, noSpace, evs, interest, ready, qhead>>
        /\ pc \in {"direct", "drain"} /\ (pc = "drain" => pc' = "drain")
        /\ pc = "direct" => qhead = NULL /\ pc' \in {"direct", "read"}
    BY <1>1, <1>18 DEF DirectWrite, DrainWrite, CurInv, netVars, edgeVars
  <2>2. PICK k \in 1 .. SendRoom : Write(cur, k)  BY <1>18 DEF DirectWrite, DrainWrite
  <2>3. ~noSpace
    <3>1. k <= Room /\ k \in Nat \ {0}  BY <1>4, <2>2 DEF Write
    <3>. QED  BY <1>3, <1>5, <3>1
  <2>. QED  BY <1>3, <1>7, <2>1, <2>3
<1>19. CASE DirectEagain \/ QueueNode
  <2>1. /\ UNCHANGED <<sent, got, peer, rd, out, evs>>
        /\ pc \in {"direct", "queue"} /\ pc' = "read" /\ Arm
    BY <1>19 DEF DirectEagain, QueueNode, netVars
  <2>2. interest' = interest \/ interest' = {"in", "out"}
    BY <2>1 DEF Arm, ModFd, edgeVars
  <2>3. ready => ready'  BY <2>1 DEF Arm, ModFd, edgeVars
  <2>4. "out" \in interest'  BY <1>3, <2>1, <2>2 DEF Arm, ModFd, edgeVars
  <2>5. CASE DirectEagain
    <3>1. Room = 0 /\ noSpace'  BY <2>5 DEF DirectEagain
    <3>. QED  BY <1>3, <1>6, <2>1, <2>2, <2>4, <3>1
  <2>6. CASE QueueNode
    <3>1. UNCHANGED noSpace /\ qhead # NULL  BY <1>1, <2>6 DEF QueueNode, CurInv
    <3>. QED  BY <1>3, <1>6, <2>1, <2>2, <2>3, <2>4, <3>1
  <2>. QED  BY <1>19, <2>5, <2>6
<1>20. CASE DirectError
  <2>1. /\ UNCHANGED <<got, out, noSpace, evs, interest, ready, qhead>>
        /\ pc = "direct" /\ pc' = "read" /\ qhead = NULL
    BY <1>1, <1>20 DEF DirectError, CurInv, edgeVars
  <2>. QED  BY <1>3, <1>6, <2>1
<1>21. CASE Sigpipe \/ OutFreed \/ DrainFreed
  BY <1>2, <1>21 DEF Sigpipe, OutFreed, DrainFreed
<1>22. CASE OutStart
  BY <1>3, <1>6, <1>7, <1>22 DEF OutStart, wireVars, netVars, edgeVars, queueVars
<1>23. CASE DrainEagain
  <2>1. /\ UNCHANGED <<sent, got, peer, rd, out, evs, qhead>>
        /\ pc = "drain" /\ pc' = "check" /\ Room = 0 /\ noSpace'
        /\ interest' = {"in", "out"} /\ (ready => ready')
    BY <1>23 DEF DrainEagain, ModFd, netVars, queueVars
  <2>. QED  BY <1>3, <1>6, <1>7, <2>1
<1>24. CASE DrainDone
  <2>1. /\ UNCHANGED <<sent, got, peer, rd, out, noSpace>>
        /\ pc = "drain" /\ pc' = "check" /\ qhead' = NULL
        /\ interest' = {"in"} /\ (ready => ready')
    BY <1>24 DEF DrainDone, ModFd, netVars
  <2>. QED  BY <1>3, <1>6, <1>7, <2>1
<1>. QED
  BY <1>8, <1>9, <1>10, <1>11, <1>12, <1>13, <1>14, <1>15, <1>16, <1>17, <1>18, <1>19,
     <1>20, <1>21, <1>22, <1>23, <1>24
     DEF Next, ServerStep, ClientStep, PeerStep

\* A connection that is closed, or a process that is gone, does little more.
LEMMA ClosedSteps ==
    ASSUME fate = "runs" => PlaceInv, [Next]_vars, ~Up
    PROVE  \/ UNCHANGED vars
           \/ ClientStep
           \/ fate = "runs" /\ ~open /\ (Signal \/ Check \/ OutFreed)
<1>1. fate = "runs" /\ ~open => /\ ~ready /\ pc \in {"check", "wait", "out", "done"}
                                /\ pc = "out" => ~inMap
  BY DEF PlaceInv
<1>2. CASE fate # "runs"  BY <1>2 DEF Next, ServerStep
<1>3. CASE fate = "runs" /\ ~open
  <2>1. ~(EpollWait \/ HupEvent \/ ConnEvent)
    BY <1>1, <1>3 DEF EpollWait, HupEvent, ConnEvent
  <2>2. ~(ReadEagain \/ ReadEndsInHead \/ ReadEndsInBody \/ ReadPartOfHead \/ ReadHead)
    BY <1>1, <1>3 DEF ReadEagain, ReadEndsInHead, ReadEndsInBody, ReadPartOfHead, ReadHead
  <2>3. ~(ReadPartOfBody \/ ReadBody \/ DirectWrite \/ DirectEagain \/ DirectError)
    BY <1>1, <1>3 DEF ReadPartOfBody, ReadBody, DirectWrite, DirectEagain, DirectError
  <2>4. ~(QueueNode \/ Sigpipe \/ OutStart \/ DrainWrite \/ DrainEagain)
    BY <1>1, <1>3 DEF QueueNode, Sigpipe, OutStart, DrainWrite, DrainEagain
  <2>5. ~(DrainError \/ DrainFreed \/ DrainDone)
    BY <1>1, <1>3 DEF DrainError, DrainFreed, DrainDone
  <2>. QED  BY <1>3, <2>1, <2>2, <2>3, <2>4, <2>5 DEF Next, ServerStep
<1>. QED  BY <1>2, <1>3 DEF Up

\* What changes in them.
LEMMA ClosedRest ==
    ASSUME fate = "runs" => PlaceInv, [Next]_vars, ~Up
    PROVE  UNCHANGED <<rd, out, stage, head, body, bodyLen, type, nodes, qhead, qtail, cur>>
<1>1. CASE UNCHANGED vars  BY <1>1 DEF vars, wireVars, recvVars, queueVars
<1>2. CASE ClientStep
  BY <1>2 DEF ClientStep, PeerStep, PeerSend, PeerRead, PeerEnd, recvVars, queueVars
<1>3. CASE Signal \/ Check \/ OutFreed
  BY <1>3 DEF Signal, Check, OutFreed, wireVars, recvVars, queueVars
<1>. QED  BY <1>1, <1>2, <1>3, ClosedSteps

LEMMA PlacePart ==
    ASSUME TypeOK, fate = "runs" => PlaceInv, [Next]_vars, fate' = "runs"
    PROVE  PlaceInv'
<1>1. fate = "runs" /\ PlaceInv  BY NoReturn
<1>2. /\ open => inMap /\ pc # "done"
      /\ ~open => /\ ~ready /\ interest = {}
                  /\ pc \in {"check", "wait", "out", "done"} /\ (pc = "out" => ~inMap)
      /\ pc = "event" /\ "hup" \in evs => peer \in {"reset", "abort"}
      /\ open \in BOOLEAN
      /\ pc \in {"check", "wait", "event", "read", "direct", "queue", "out", "drain", "done"}
  BY <1>1 DEF PlaceInv, TypeOK, WireTypeOK
<1> USE DEF PlaceInv
<1>3. CASE UNCHANGED vars
  BY <1>2, <1>3 DEF vars, wireVars, netVars, edgeVars
<1>4. CASE ClientStep
  <2>1. /\ UNCHANGED <<open, interest, pc, evs, inMap>>
        /\ ~open => ~ready'
        /\ peer \in {"reset", "abort"} => peer' = peer
    BY <1>2, <1>4 DEF ClientStep, PeerStep, PeerSend, PeerRead, PeerEnd
  <2>. QED  BY <1>2, <2>1
<1>5. CASE Signal
  <2>1. /\ UNCHANGED <<open, interest, ready, peer, evs, inMap>>
        /\ pc' = pc \/ (pc = "wait" /\ pc' = "check")
    BY <1>5 DEF Signal, wireVars, netVars, edgeVars
  <2>. QED  BY <1>2, <2>1
<1>6. CASE Check
  <2>1. pc = "check" /\ pc' \in {"wait", "done"} /\ (pc' = "done" => ~open')
    BY <1>2, <1>6 DEF Check, Destroy, CloseFd
  <2>2. \/ UNCHANGED <<open, ready, interest, inMap>>
        \/ ~open' /\ ~ready' /\ interest' = {} /\ ~inMap'
    BY <1>6 DEF Check, Destroy, CloseFd, edgeVars
  <2>. QED  BY <1>2, <2>1, <2>2
<1>7. CASE EpollWait
  <2>1. /\ open /\ open' = open /\ inMap' = inMap /\ pc' = "event"
        /\ evs' = Mask /\ peer' = peer
    BY <1>2, <1>7 DEF EpollWait, netVars
  <2>2. "hup" \in Mask => peer \in {"reset", "abort"}  BY DEF Mask, Reported, Conditions
  <2>. QED  BY <1>2, <2>1, <2>2
<1>8. CASE ConnEvent
  <2>1. /\ open /\ open' = open /\ inMap' = inMap /\ pc' \in {"read", "out"}
    BY <1>2, <1>8 DEF ConnEvent, wireVars
  <2>. QED  BY <1>2, <2>1
<1>9. CASE HupEvent \/ ReadEndsInHead \/ ReadEndsInBody
  <2>1. /\ open' = FALSE /\ ready' = FALSE /\ interest' = {} /\ inMap' = FALSE
        /\ pc' \in {"check", "out"}
    <3>1. CASE HupEvent  BY <1>1, <3>1 DEF HupEvent, Destroy, CloseFd
    <3>2. CASE ReadEndsInHead  BY <1>1, <3>2 DEF ReadEndsInHead, Destroy, CloseFd
    <3>3. CASE ReadEndsInBody
      BY <1>1, <3>3 DEF ReadEndsInBody, Destroy, CloseFd, AfterRead
    <3>. QED  BY <1>9, <3>1, <3>2, <3>3
  <2>. QED  BY <2>1
<1>10. CASE ReadEagain \/ ReadPartOfHead \/ ReadPartOfBody \/ ReadBody
  <2>1. /\ pc = "read" /\ open' = open /\ inMap' = inMap
        /\ pc' \in {"check", "out", "read", "direct", "queue"}
    BY <1>10 DEF ReadEagain, AfterRead, ReadPartOfHead, ReadPartOfBody, ReadBody, wireVars
  <2>. QED  BY <1>2, <2>1
<1>11. CASE ReadHead
  <2>1. pc = "read"  BY <1>11 DEF ReadHead
  <2>2. \/ /\ open' = FALSE /\ ready' = FALSE /\ interest' = {} /\ inMap' = FALSE
           /\ pc' \in {"check", "out"}
        \/ UNCHANGED <<open, pc, inMap>>
    BY <1>1, <1>11 DEF ReadHead, Destroy, CloseFd, AfterRead
  <2>. QED  BY <1>2, <2>1, <2>2
<1>12. CASE DirectWrite \/ DirectEagain \/ DirectError \/ QueueNode
  <2>1. /\ pc \in {"direct", "queue"} /\ open' = open /\ inMap' = inMap
        /\ pc' \in {"direct", "read"}
    BY <1>12 DEF DirectWrite, DirectEagain, DirectError, QueueNode
  <2>. QED  BY <1>2, <2>1
<1>13. CASE Sigpipe \/ OutFreed \/ DrainFreed  BY <1>13 DEF Sigpipe, OutFreed, DrainFreed
<1>14. CASE OutStart
  <2>1. /\ open' = open /\ inMap' = inMap /\ inMap /\ pc = "out" /\ pc' \in {"check", "drain"}
    BY <1>14 DEF OutStart, wireVars
  <2>. QED  BY <1>2, <2>1
<1>15. CASE DrainWrite \/ DrainEagain \/ DrainDone
  <2>1. /\ pc = "drain" /\ open' = open /\ inMap' = inMap /\ pc' \in {"check", "drain"}
    BY <1>15 DEF DrainWrite, DrainEagain, DrainDone
  <2>. QED  BY <1>2, <2>1
<1>16. CASE DrainError
  BY <1>16 DEF DrainError, CloseFd
<1>. QED
  BY <1>3, <1>4, <1>5, <1>6, <1>7, <1>8, <1>9, <1>10, <1>11, <1>12, <1>13, <1>14, <1>15,
     <1>16 DEF Next, ServerStep

\* What a step does to the numbers of bytes.
LEMMA CountPart ==
    ASSUME TypeOK, CountInv, fate = "runs" => PlaceInv, Up => UpInv, [Next]_vars
    PROVE  CountInv' /\ sent' \in Nat /\ got' \in Nat /\ rd' \in Nat
<1>1. /\ rd \in Nat /\ sent \in Nat /\ got \in Nat /\ Len(out) \in Nat /\ Total \in Nat
      /\ rd <= sent /\ sent <= Total /\ got <= Len(out)
  BY SizesFacts, StreamFacts DEF CountInv
<1>2. Total' = Total  BY NoReturn DEF Total
<1>3. CASE ClientStep
  <2>1. UNCHANGED <<rd, out>>  BY <1>3 DEF ClientStep, PeerStep, PeerSend, PeerRead, PeerEnd
  <2>2. \/ sent' = sent + 1 /\ sent < Total /\ got' = got
        \/ sent' = sent /\ got' = got + 1 /\ got < Len(out)
        \/ sent' = sent /\ got' = got
    BY <1>3 DEF ClientStep, PeerStep, PeerSend, PeerRead, PeerEnd
  <2>. QED  BY <1>1, <1>2, <2>1, <2>2 DEF CountInv
<1>4. ASSUME UNCHANGED <<sent, got, rd>>, Len(out') \in Nat, Len(out) <= Len(out')
      PROVE  CountInv' /\ sent' \in Nat /\ got' \in Nat /\ rd' \in Nat
  BY <1>1, <1>2, <1>4 DEF CountInv
<1>5. CASE UNCHANGED vars \/ Signal \/ Check \/ OutFreed
  <2>1. UNCHANGED <<sent, got, rd, out>>
    BY <1>5 DEF vars, wireVars, netVars, Signal, Check, OutFreed
  <2>. QED  BY <1>1, <1>4, <2>1
<1>0. CASE ~Up  BY <1>0, <1>3, <1>5, ClosedSteps
<1>6. CASE Up /\ (ReadPartOfHead \/ ReadHead \/ ReadPartOfBody \/ ReadBody)
  <2>2. RecvInv  BY <1>6 DEF UpInv
  <2>3. /\ ReadLen > 0 /\ rd' = rd + ReadLen /\ UNCHANGED <<sent, got, out>>
    BY <1>6 DEF ReadPartOfHead, ReadHead, ReadPartOfBody, ReadBody, netVars
  <2>4. ReadLen \in Nat /\ rd + ReadLen <= sent
    <3>1. CASE stage = "BODY_RECVING"  BY <2>2, <2>3, <3>1, BodyRead
    <3>2. CASE stage # "BODY_RECVING"  BY <2>2, <2>3, <3>2, HeadRead
    <3>. QED  BY <3>1, <3>2
  <2>. QED  BY <1>1, <1>2, <2>3, <2>4 DEF CountInv
<1>7. CASE Up /\ (DirectWrite \/ DrainWrite)
  <2>1. UNCHANGED <<sent, got, rd>>  BY <1>7 DEF DirectWrite, DrainWrite, netVars
  <2>3. UpInv  BY <1>7
  <2>4. PICK k \in 1 .. SendRoom : WritesOf(cur, k)
    BY <1>7, <2>3, DirectWrites, DrainWrites
  <2>5. cur \in 1 .. N /\ nodes[cur].live /\ Len(out) >= starts[cur]
    BY <1>7, <2>3, DirectWrites, DrainWrites
  <2>6. k \in Nat /\ Len(out') = Len(out) + k
    BY <2>3, <2>4, <2>5, WriteStep DEF UpInv, RecvInv
  <2>. QED  BY <1>1, <1>4, <2>1, <2>6
<1>8. CASE EpollWait \/ HupEvent \/ ConnEvent \/ ReadEagain \/ ReadEndsInHead \/ ReadEndsInBody
  <2>1. UNCHANGED <<sent, got, rd, out>>
    BY <1>8 DEF EpollWait, HupEvent, ConnEvent, ReadEagain, ReadEndsInHead, ReadEndsInBody,
                wireVars, netVars
  <2>. QED  BY <1>1, <1>4, <2>1
<1>9. CASE DirectEagain \/ DirectError \/ QueueNode \/ Sigpipe
  <2>1. UNCHANGED <<sent, got, rd, out>>
    BY <1>9 DEF DirectEagain, DirectError, QueueNode, Sigpipe, wireVars, netVars
  <2>. QED  BY <1>1, <1>4, <2>1
<1>10. CASE OutStart \/ DrainEagain \/ DrainError \/ DrainFreed \/ DrainDone
  <2>1. UNCHANGED <<sent, got, rd, out>>
    BY <1>10 DEF OutStart, DrainEagain, DrainError, DrainFreed, DrainDone, wireVars, netVars
  <2>. QED  BY <1>1, <1>4, <2>1
<1>. QED
  BY <1>0, <1>3, <1>5, <1>6, <1>7, <1>8, <1>9, <1>10 DEF Next, ServerStep

\* The message being received has the types of its bytes.
LEMMA RecvTypePart ==
    ASSUME TypeOK, CountInv, Up => UpInv, fate = "runs" => PlaceInv, [Next]_vars
    PROVE  /\ stage' \in {"NO_RECV", "HEAD_RECVING", "BODY_RECVING"}
           /\ head' \in Seq(Nat) /\ body' \in Seq(Nat) /\ bodyLen' \in Nat /\ type' \in Nat
<1>1. /\ stage \in {"NO_RECV", "HEAD_RECVING", "BODY_RECVING"}
      /\ head \in Seq(Nat) /\ body \in Seq(Nat) /\ bodyLen \in Nat /\ type \in Nat
  BY DEF TypeOK
<1>2. CASE ~Up  BY <1>1, <1>2, ClosedRest
<1>3. CASE Up
  <2>1. RecvInv  BY <1>3 DEF UpInv
  <2>2. <<>> \in Seq(Nat)  OBVIOUS
  <2>3. CASE ReadPartOfHead
    <3>1. /\ stage' = "HEAD_RECVING" /\ UNCHANGED <<body, bodyLen, type>>
          /\ head' = head \o Bytes(rd, ReadLen) /\ stage # "BODY_RECVING" /\ ReadLen > 0
      BY <2>3 DEF ReadPartOfHead
    <3>. QED  BY <1>1, <2>1, <3>1, HeadRead
  <2>4. CASE ReadHead
    <3>1. stage # "BODY_RECVING" /\ ReadLen > 0 /\ ReadLen = Remain  BY <2>4 DEF ReadHead
    <3>2. /\ head \o Bytes(rd, ReadLen) \in Seq(Nat)
          /\ ParseLen(head \o Bytes(rd, ReadLen)) \in Nat
          /\ (head \o Bytes(rd, ReadLen))[1] - 1 \in Nat
      <4>1. starts[N + 1] \in Nat  BY <2>1, <3>1, HeadRead
      <4>. QED  BY <2>1, <3>1, <4>1, HeadWhole
    <3>3. \/ UNCHANGED <<stage, head, body, bodyLen, type>>
          \/ /\ stage' = "BODY_RECVING" /\ head' = head \o Bytes(rd, ReadLen)
             /\ body' = <<>> /\ bodyLen' = ParseLen(head \o Bytes(rd, ReadLen))
             /\ type' = (head \o Bytes(rd, ReadLen))[1] - 1
      BY <2>4 DEF ReadHead, recvVars
    <3>. QED  BY <1>1, <2>2, <3>2, <3>3
  <2>5. CASE ReadPartOfBody
    <3>1. /\ UNCHANGED <<stage, head, bodyLen, type>> /\ stage = "BODY_RECVING"
          /\ body' = body \o Bytes(rd, ReadLen) /\ ReadLen > 0
      BY <2>5 DEF ReadPartOfBody
    <3>. QED  BY <1>1, <2>1, <3>1, BodyRead
  <2>6. CASE ReadBody
    <3>1. /\ stage' = "NO_RECV" /\ head' = <<>> /\ body' = <<>> /\ UNCHANGED <<bodyLen, type>>
      BY <2>6 DEF ReadBody
    <3>. QED  BY <1>1, <2>2, <3>1
  <2>7. ASSUME ~(ReadPartOfHead \/ ReadHead \/ ReadPartOfBody \/ ReadBody)
        PROVE  UNCHANGED <<stage, head, body, bodyLen, type>>
    <3>1. CASE UNCHANGED vars  BY <3>1 DEF vars, recvVars
    <3>2. CASE ClientStep \/ Signal  BY <3>2 DEF ClientStep, Signal, recvVars
    <3>3. CASE Check \/ EpollWait \/ HupEvent \/ ConnEvent
      BY <3>3 DEF Check, EpollWait, HupEvent, ConnEvent, recvVars
    <3>4. CASE ReadEagain \/ ReadEndsInHead \/ ReadEndsInBody \/ Sigpipe
      BY <3>4 DEF ReadEagain, ReadEndsInHead, ReadEndsInBody, Sigpipe, recvVars
    <3>5. CASE DirectWrite \/ DirectEagain \/ DirectError \/ QueueNode
      BY <3>5 DEF DirectWrite, DirectEagain, DirectError, QueueNode, recvVars
    <3>6. CASE \/ OutFreed \/ OutStart \/ DrainWrite \/ DrainEagain \/ DrainError
               \/ DrainFreed \/ DrainDone
      BY <3>6 DEF OutFreed, OutStart, DrainWrite, DrainEagain, DrainError, DrainFreed,
                  DrainDone, recvVars
    <3>. QED
      BY <2>7, <3>1, <3>2, <3>3, <3>4, <3>5, <3>6 DEF Next, ServerStep
  <2>. QED  BY <1>1, <2>3, <2>4, <2>5, <2>6, <2>7
<1>. QED  BY <1>2, <1>3

\* The ends of the queue and the node at hand are nodes.
LEMMA EndsPart ==
    ASSUME UpInv, [Next]_vars
    PROVE  qhead' \in 0 .. N' /\ qtail' \in 0 .. N' /\ cur' \in 0 .. N'
<1>1. TypeOK /\ LinkInv /\ N + 1 \in DOMAIN starts  BY DEF UpInv, RecvInv
<1>2. qhead \in 0 .. N /\ qtail \in 0 .. N /\ cur \in 0 .. N /\ N \in Nat /\ 0 \in 0 .. N
  BY <1>1, EndsFacts
<1>3. CASE ReadBody
  <2>1. N' = N + 1 /\ cur' = N'  BY <1>1, <1>3, NewNode DEF UpInv
  <2>2. qhead' = qhead /\ qtail' = qtail  BY <1>3 DEF ReadBody
  <2>. QED  BY <1>2, <2>1, <2>2
<1>4. CASE DirectWrite
  <2>1. PICK k \in 1 .. SendRoom : WritesOf(cur, k)  BY <1>4, DirectWrites
  <2>2. N' = N  BY <1>1, <1>4, <2>1, DirectWrites, WriteStep DEF UpInv
  <2>3. UNCHANGED <<qhead, qtail, cur>>  BY <1>4 DEF DirectWrite
  <2>. QED  BY <1>2, <2>2, <2>3
<1>5. CASE DrainWrite
  <2>1. PICK k \in 1 .. SendRoom :
            WritesOf(cur, k) /\ cur' = IF k < Unsent(cur) THEN cur ELSE nodes[cur].next
    BY <1>5, DrainWrites
  <2>2. N' = N /\ cur \in 1 .. N  BY <1>1, <1>5, <2>1, DrainWrites, WriteStep DEF UpInv
  <2>3. UNCHANGED <<qhead, qtail>>  BY <1>5 DEF DrainWrite
  <2>4. nodes[cur].next \in 0 .. N  BY <1>1, <2>2 DEF LinkInv
  <2>. QED  BY <1>2, <2>1, <2>2, <2>3, <2>4
<1>6. CASE DirectEagain \/ QueueNode \/ DirectError
  <2>1. N' = N  BY <1>6, LinkSteps
  <2>2. /\ qhead' \in {qhead, cur} /\ qtail' \in {qtail, cur} /\ cur' = cur
    BY <1>6 DEF DirectEagain, QueueNode, DirectError, Enqueue
  <2>. QED  BY <1>2, <2>1, <2>2
<1>7. CASE ~NodeStep
  <2>1. N' = N  BY <1>7, NodesRest DEF N
  <2>2. qhead' \in {qhead, NULL} /\ qtail' \in {qtail, NULL} /\ cur' \in {cur, qhead}
    <3> USE DEF NodeStep
    <3>1. CASE UNCHANGED vars  BY <3>1 DEF vars, queueVars
    <3>2. CASE ClientStep \/ Signal  BY <3>2 DEF ClientStep, Signal, queueVars
    <3>3. CASE Check \/ EpollWait \/ HupEvent \/ ConnEvent
      BY <3>3 DEF Check, EpollWait, HupEvent, ConnEvent, queueVars
    <3>4. CASE ReadEagain \/ ReadEndsInHead \/ ReadEndsInBody \/ ReadPartOfHead
      BY <3>4 DEF ReadEagain, ReadEndsInHead, ReadEndsInBody, ReadPartOfHead, queueVars
    <3>5. CASE ReadHead \/ ReadPartOfBody \/ Sigpipe
      BY <3>5 DEF ReadHead, ReadPartOfBody, Sigpipe, queueVars
    <3>6. CASE OutFreed \/ OutStart \/ DrainEagain \/ DrainError \/ DrainFreed \/ DrainDone
      BY <3>6 DEF OutFreed, OutStart, DrainEagain, DrainError, DrainFreed, DrainDone, queueVars
    <3>. QED
      BY <1>7, <3>1, <3>2, <3>3, <3>4, <3>5, <3>6 DEF Next, ServerStep
  <2>. QED  BY <1>2, <2>1, <2>2 DEF NULL
<1>. QED  BY <1>3, <1>4, <1>5, <1>6, <1>7 DEF NodeStep

\* The flags, masks and places keep their types.
SmallTypes ==
    /\ peer \in {"up", "fin", "reset", "abort"} /\ interest \subseteq {"in", "out"}
    /\ open \in BOOLEAN /\ noSpace \in BOOLEAN /\ ready \in BOOLEAN
    /\ fate \in {"runs", "sigpipe", "undefined"} /\ stop \in BOOLEAN /\ inMap \in BOOLEAN
    /\ pc \in {"check", "wait", "event", "read", "direct", "queue", "out", "drain", "done"}
    /\ evs \subseteq {"in", "out", "hup"}

LEMMA SmallPart == TypeOK /\ [Next]_vars => SmallTypes'
<1> SUFFICES ASSUME TypeOK, [Next]_vars PROVE SmallTypes'  OBVIOUS
<1>1. SmallTypes  BY DEF TypeOK, WireTypeOK, SmallTypes
<1>2. Mask \subseteq {"in", "out", "hup"}  BY DEF Mask, Reported, Conditions
<1> USE DEF SmallTypes
<1>4. CASE UNCHANGED vars  BY <1>1, <1>4 DEF vars, wireVars, netVars, edgeVars
<1>5. CASE ClientStep
  <2>1. UNCHANGED <<interest, open, fate, stop, inMap, pc, evs>>
    BY <1>5 DEF ClientStep, PeerStep, PeerSend, PeerRead, PeerEnd
  <2>2. noSpace' \in {noSpace, FALSE} /\ peer' \in {"up", "fin", "reset", "abort"}
    BY <1>1, <1>5 DEF ClientStep, PeerStep, PeerSend, PeerRead, PeerEnd
  <2>3. ready' \in BOOLEAN
    BY <1>1, <1>5 DEF ClientStep, PeerStep, PeerSend, PeerRead, PeerEnd
  <2>. QED  BY <1>1, <2>1, <2>2, <2>3
<1>6. CASE Signal
  BY <1>1, <1>6 DEF Signal, wireVars, netVars, edgeVars
<1>7. CASE Check
  BY <1>1, <1>7 DEF Check, Destroy, CloseFd, netVars, edgeVars
<1>8. CASE EpollWait
  <2>1. /\ UNCHANGED <<peer, interest, open, noSpace, fate, stop, inMap>>
        /\ evs' = Mask /\ ready' = FALSE /\ pc' = "event"
    BY <1>8 DEF EpollWait, netVars
  <2>. QED  BY <1>1, <1>2, <2>1
<1>9. CASE HupEvent \/ ReadEndsInHead \/ ReadEndsInBody
  <2>1. /\ UNCHANGED <<peer, noSpace, stop, evs>>
        /\ open' = FALSE /\ ready' = FALSE /\ interest' = {} /\ inMap' = FALSE
        /\ pc' \in {pc, "check", "out"} /\ fate' \in {fate, "undefined"}
    <3>1. CASE HupEvent  BY <3>1 DEF HupEvent, Destroy, CloseFd, netVars
    <3>2. CASE ReadEndsInHead  BY <3>2 DEF ReadEndsInHead, Destroy, CloseFd, netVars
    <3>3. CASE ReadEndsInBody
      BY <3>3 DEF ReadEndsInBody, Destroy, CloseFd, AfterRead, netVars
    <3>. QED  BY <1>9, <3>1, <3>2, <3>3
  <2>. QED  BY <1>1, <2>1
<1>10. CASE ConnEvent \/ ReadEagain \/ ReadPartOfHead \/ ReadPartOfBody \/ ReadBody
  <2>1. /\ UNCHANGED <<peer, interest, open, ready, noSpace, fate, stop, inMap, evs>>
        /\ pc' \in {pc, "read", "out", "check", "direct", "queue"}
    BY <1>10 DEF ConnEvent, ReadEagain, AfterRead, ReadPartOfHead, ReadPartOfBody, ReadBody,
                 wireVars, netVars, edgeVars
  <2>. QED  BY <1>1, <2>1
<1>11. CASE ReadHead
  <2>1. /\ UNCHANGED <<peer, noSpace, stop, evs>>
        /\ \/ /\ open' = FALSE /\ ready' = FALSE /\ interest' = {} /\ inMap' = FALSE
              /\ pc' \in {pc, "check", "out"} /\ fate' \in {fate, "undefined"}
           \/ UNCHANGED <<open, interest, ready, fate, pc, inMap>>
    BY <1>11 DEF ReadHead, Destroy, CloseFd, AfterRead, netVars, edgeVars
  <2>. QED  BY <1>1, <2>1
<1>12. CASE DirectWrite \/ DirectError \/ Sigpipe \/ OutFreed \/ OutStart
  <2>1. /\ UNCHANGED <<interest, open, ready, noSpace, stop, inMap, evs>>
        /\ pc' \in {pc, "direct", "read", "check", "drain"}
        /\ fate' \in {fate, "sigpipe", "undefined"} /\ peer' \in {peer, "abort"}
    BY <1>12 DEF DirectWrite, DirectError, Sigpipe, OutFreed, OutStart, wireVars, netVars,
                 edgeVars
  <2>. QED  BY <1>1, <2>1
<1>13. CASE DrainWrite \/ DrainError \/ DrainFreed
  <2>1. /\ UNCHANGED <<noSpace, stop, inMap, evs, peer>>
        /\ pc' \in {pc, "check"} /\ fate' \in {fate, "undefined"}
        /\ \/ UNCHANGED <<interest, open, ready>>
           \/ open' = FALSE /\ ready' = FALSE /\ interest' = {}
    BY <1>13 DEF DrainWrite, DrainError, DrainFreed, CloseFd, wireVars, netVars, edgeVars
  <2>. QED  BY <1>1, <2>1
<1>14. CASE DirectEagain \/ QueueNode \/ DrainEagain \/ DrainDone
  <2>1. /\ UNCHANGED <<open, fate, stop, inMap, evs, peer>>
        /\ noSpace' \in {noSpace, TRUE} /\ pc' \in {"read", "check"}
        /\ interest' \in {interest, {"in", "out"}, {"in"}} /\ ready' \in BOOLEAN
    BY <1>1, <1>14 DEF DirectEagain, QueueNode, DrainEagain, DrainDone, Arm, ModFd, netVars,
                 edgeVars
  <2>. QED  BY <1>1, <2>1
<1>. QED
  BY <1>4, <1>5, <1>6, <1>7, <1>8, <1>9, <1>10, <1>11, <1>12, <1>13, <1>14
     DEF Next, ServerStep

LEMMA StepInv == ServerInv /\ [Next]_vars => ServerInv'
<1> SUFFICES ASSUME ServerInv, [Next]_vars PROVE ServerInv'  OBVIOUS
<1>1. TypeOK /\ CountInv /\ (fate = "runs" => PlaceInv) /\ out = Bytes(0, Len(out))
  BY DEF ServerInv
<1>2. Up => UpInv  BY <1>1 DEF ServerInv, Up, UpInv
<1>3. CountInv' /\ sent' \in Nat /\ got' \in Nat /\ rd' \in Nat  BY <1>1, <1>2, CountPart
<1>4. /\ out' = Bytes(0, Len(out')) /\ out' \in Seq(Nat) /\ nodes' \in Seq(Node)
  <2>1. CASE Up  BY <1>2, <2>1, NodesPart
  <2>2. CASE ~Up
    <3>1. out' = out /\ nodes' = nodes  BY <1>1, <2>2, ClosedRest
    <3>. QED  BY <1>1, <3>1 DEF TypeOK, WireTypeOK
  <2>. QED  BY <2>1, <2>2
<1>5. {qhead', qtail', cur'} \subseteq 0 .. Len(nodes')
  <2>1. CASE Up  BY <1>2, <2>1, EndsPart DEF N
  <2>2. CASE ~Up
    <3>1. UNCHANGED <<qhead, qtail, cur, nodes>>  BY <1>1, <2>2, ClosedRest
    <3>. QED  BY <1>1, <3>1 DEF TypeOK
  <2>. QED  BY <2>1, <2>2
<1>6. TypeOK'
  <2>1. SmallTypes'  BY <1>1, SmallPart
  <2>2. /\ stage' \in {"NO_RECV", "HEAD_RECVING", "BODY_RECVING"}
        /\ head' \in Seq(Nat) /\ body' \in Seq(Nat) /\ bodyLen' \in Nat /\ type' \in Nat
    BY <1>1, <1>2, RecvTypePart
  <2>3. starts' \in Streams  BY <1>1, NoReturn DEF TypeOK, WireTypeOK
  <2>. QED  BY <1>3, <1>4, <1>5, <2>1, <2>2, <2>3 DEF TypeOK, WireTypeOK, SmallTypes
<1>7. fate' = "runs" => PlaceInv'  BY <1>1, PlacePart
<1>8. ASSUME fate' = "runs", open'
      PROVE  RecvInv' /\ NodesInv' /\ LinkInv' /\ CurInv' /\ EdgeInv'
  <2>1. UpInv /\ Up'  BY <1>2, <1>8, NoReturn DEF Up
  <2>. QED  BY <1>8, <2>1, RecvPart, NodesPart, LinkPart, CurPart, EdgePart
<1>. QED  BY <1>3, <1>4, <1>6, <1>7, <1>8 DEF ServerInv

LEMMA InitInv == Init => ServerInv
<1> SUFFICES ASSUME Init PROVE ServerInv  OBVIOUS
<1> USE DEF Init, WireInit
<1>1. starts \in Streams /\ HeadLen \in Nat \ {0} /\ SendRoom \in Nat \ {0}
  BY SizesAssumption
<1>2. /\ \A S : <<>> \in Seq(S)
      /\ Len(<<>>) = 0 /\ Len(out) = 0 /\ Len(head) = 0 /\ Len(body) = 0
      /\ N = 0 /\ 1 .. N = {}
  BY EmptySeq DEF N
<1>3. Bytes(0, 0) = <<>> /\ Bytes(HeadLen, 0) = <<>>
  <2>1. 0 \in Nat /\ HeadLen \in Nat  BY <1>1
  <2>. QED  BY <2>1, BytesFacts
<1>4. 1 \in DOMAIN starts /\ starts[1] = 0 /\ Total \in Nat  BY <1>1, StreamFacts
<1>5. TypeOK
  <2>1. WireTypeOK  BY <1>1, <1>2 DEF WireTypeOK
  <2>2. {qhead, qtail, cur} \subseteq 0 .. Len(nodes)  BY <1>2 DEF NULL, N
  <2>3. head \in Seq(Nat) /\ body \in Seq(Nat) /\ nodes \in Seq(Node)  BY <1>2
  <2>. QED  BY <2>1, <2>2, <2>3 DEF TypeOK
<1>6. CountInv  BY <1>2, <1>4 DEF CountInv
<1>7. PlaceInv  BY DEF PlaceInv
<1>8. RecvInv
  <2>1. N + 1 = 1 /\ 0 + HeadLen = HeadLen /\ 0 = 0 + 0 + 0  BY <1>1, <1>2
  <2>. QED  BY <1>2, <1>3, <1>4, <2>1 DEF RecvInv
<1>9. NodesInv
  <2>1. N + 1 = 1  BY <1>2
  <2>. QED  BY <1>2, <1>4, <2>1 DEF NodesInv
<1>10. LinkInv  BY <1>2 DEF LinkInv, NULL
<1>11. CurInv
  <2>1. N + 1 = 1  BY <1>2
  <2>. QED  BY <1>2, <1>4, <2>1 DEF CurInv, NULL
<1>12. EdgeInv
  <2>1. Unread = 0  BY DEF Unread
  <2>. QED  BY <2>1 DEF EdgeInv, OutDue, NULL
<1>. QED
  BY <1>2, <1>3, <1>5, <1>6, <1>7, <1>8, <1>9, <1>10, <1>11, <1>12 DEF ServerInv

LEMMA ServerInvHolds == Spec => []ServerInv
<1>1. ServerInv /\ [Next]_vars => ServerInv'  BY StepInv
<1>. QED  BY <1>1, InitInv, PTL DEF Spec


-----------------------------------------------------------------------------
(* The theorems.                                                           *)

\* What is left of a node that is not written to its end.
LEMMA RestOfNode ==
    ASSUME TypeOK, N + 1 \in DOMAIN starts, NodesInv, NEW i \in 1 .. N, nodes[i].live
    PROVE  LET p == IF Len(out) <= starts[i] THEN starts[i] ELSE Len(out)
               r == NodeRest(nodes[i])
           IN  /\ Len(out) < starts[i + 1] /\ starts[i] \in Nat /\ starts[i + 1] \in Nat
               /\ r = Bytes(p, Len(r)) /\ Len(r) \in Nat /\ r # <<>>
               /\ r[1] - 1 = p /\ p + Len(r) = starts[i + 1]
<1> DEFINE a == starts[i]
           e == starts[i + 1]
           l == Len(out)
           p == IF l <= a THEN a ELSE l
           r == NodeRest(nodes[i])
<1>1. a \in Nat /\ e \in Nat /\ a < e /\ l \in Nat  BY SizesFacts, NodesAreMessages
<1>2. NodeInv(i)  BY DEF NodesInv
<1>3. /\ nodes[i].buf = Bytes(a, e - a) /\ nodes[i].off = Written(l, a, e)
      /\ l < e
  BY <1>2 DEF NodeInv
<1> HIDE DEF a, e, l
<1> DEFINE d == e - a
           o == p - a
<1>4. d \in Nat /\ o \in 0 .. d /\ p \in Nat /\ a + o = p /\ d - o = e - p /\ e - p \in Nat \ {0}
  BY <1>1, <1>3
<1>5. nodes[i].off = o  BY <1>1, <1>3 DEF Written
<1>6. nodes[i].buf = Bytes(a, d)  BY <1>3
<1> HIDE DEF d, o, p
<1>7. Len(Bytes(a, d)) = d /\ d \in o .. d  BY <1>1, <1>4, BytesFacts
<1>8. r = Bytes(p, e - p)
  <2>1. SubSeq(Bytes(a, d), o + 1, d) = Bytes(a + o, d - o)  BY <1>1, <1>4, <1>7, BytesCut
  <2>. QED  BY <1>4, <1>5, <1>6, <1>7, <2>1 DEF NodeRest
<1> DEFINE m == e - p
<1>9. m \in Nat \ {0} /\ p + m = e /\ r = Bytes(p, m)  BY <1>1, <1>4, <1>8
<1> HIDE DEF m, r
<1>10. Len(r) = m /\ r[1] = p + 1 /\ r # <<>>
  <2>1. p \in Nat /\ m \in Nat /\ m # 0 /\ 1 \in 1 .. m  BY <1>4, <1>9
  <2>2. Len(Bytes(p, m)) = m /\ Bytes(p, m)[1] = p + 1 /\ Bytes(p, m) # <<>>
    BY <2>1, BytesFacts
  <2>. QED  BY <1>9, <2>2
<1>11. /\ r = Bytes(p, Len(r)) /\ Len(r) \in Nat /\ r # <<>>
       /\ r[1] - 1 = p /\ p + Len(r) = e /\ l < e
  BY <1>3, <1>4, <1>9, <1>10
<1>. QED  BY <1>1, <1>11 DEF a, e, l, p, r

\* The list goes from node to node in memory, from the one that out ends in to the last.
LEMMA QueueIsRun ==
    ASSUME ServerInv, Idle, Writable, NEW q \in Queues
    PROVE  /\ Len(q) \in Nat /\ DOMAIN q = 1 .. Len(q)
           /\ \A i \in DOMAIN q : q[i] \in 1 .. N /\ nodes[q[i]].live
           /\ \A i \in DOMAIN q : i < Len(q) => q[i + 1] = q[i] + 1
           /\ q = <<>> => Len(q) = 0 /\ Len(out) = starts[N + 1]
           /\ q # <<>> => Len(q) > 0 /\ Len(out) >= starts[q[1]] /\ q[Len(q)] = N
<1>1. TypeOK /\ RecvInv /\ NodesInv /\ LinkInv /\ CurInv /\ N + 1 \in DOMAIN starts
  BY DEF ServerInv, Idle, RecvInv
<1>2. IsQueue(q) /\ q \in SeqOf(1 .. N, N)  BY DEF Queues, N
<1>3. q \in Seq(1 .. N)
  <2>1. PICK m \in 0 .. N : q \in [1 .. m -> 1 .. N]  BY <1>2 DEF SeqOf
  <2>2. N \in Nat  BY <1>1, SizesFacts
  <2>3. m \in Nat  BY <2>2
  <2>. QED  BY <2>1, <2>3, FunctionIsSeq
<1>4. /\ Len(q) \in Nat /\ DOMAIN q = 1 .. Len(q) /\ (q = <<>> <=> Len(q) = 0)
      /\ \A i \in DOMAIN q : q[i] \in 1 .. N
  BY <1>3, LenProperties, EmptySeq, ElementOfSeq
<1>5. \A i \in DOMAIN q : /\ nodes[q[i]].live
                          /\ nodes[q[i]].next = IF i < Len(q) THEN q[i + 1] ELSE NULL
  BY <1>2 DEF IsQueue
<1>6. /\ pc \in {"check", "wait"} /\ N \in Nat /\ Len(out) \in Nat
      /\ qhead # NULL => Len(out) >= starts[qhead] /\ qhead \in 1 .. N
      /\ qhead = NULL => Len(out) >= starts[N + 1]
      /\ Len(out) <= starts[N + 1] /\ starts[N + 1] \in Nat
  BY <1>1, EndsFacts, SizesFacts, NodesAreMessages DEF Idle, CurInv, NodesInv, NULL
<1>7. CASE q = <<>>
  <2>1. qhead = NULL  BY <1>2, <1>7 DEF IsQueue
  <2>2. Len(out) = starts[N + 1]  BY <1>6, <2>1
  <2>. QED  BY <1>4, <1>5, <1>7, <2>2
<1>8. CASE q # <<>>
  <2>1. qhead # NULL /\ q[1] = qhead  BY <1>2, <1>8 DEF IsQueue
  <2>2. /\ qtail = N /\ qhead <= N
        /\ \A i \in 1 .. N : /\ qhead <= i /\ i < N => nodes[i].next = i + 1
                             /\ i = N => nodes[i].next \in {NULL, i}
    BY <1>1, <1>6, <2>1 DEF LinkInv
  <2>3. ASSUME NEW i \in DOMAIN q PROVE qhead <= q[i]
    <3>1. q[i] \in 1 .. N /\ nodes[q[i]].live  BY <1>4, <1>5
    <3>2. Len(out) < starts[q[i] + 1] /\ starts[q[i] + 1] \in Nat /\ q[i] + 1 \in DOMAIN starts
      BY <1>1, <3>1, NodesAreMessages DEF NodesInv, NodeInv
    <3>3. starts[qhead] \in Nat /\ qhead \in DOMAIN starts /\ qhead \in 1 .. N
      BY <1>1, <1>6, <2>1, NodesAreMessages
    <3>4. starts[qhead] < starts[q[i] + 1]  BY <1>6, <2>1, <3>2, <3>3
    <3>5. starts \in Streams  BY <1>1, SizesFacts
    <3>6. ~(q[i] + 1 <= qhead)
      <4>1. q[i] + 1 <= qhead => starts[q[i] + 1] <= starts[qhead]
        BY <3>2, <3>3, <3>5, StartsAscend
      <4>. QED  BY <3>2, <3>3, <3>4, <4>1
    <3>. QED  BY <1>6, <3>1, <3>3, <3>6
  <2>4. \A i \in DOMAIN q : q[i] < N \/ q[i] = N  BY <1>4, <1>6
  <2>5. Len(q) \in DOMAIN q  BY <1>4, <1>8
  <2>6. q[Len(q)] = N /\ nodes[N].next = NULL
    <3>1. nodes[q[Len(q)]].next = NULL  BY <1>4, <1>5, <2>5
    <3>2. ~(q[Len(q)] < N)
      <4>1. q[Len(q)] < N => nodes[q[Len(q)]].next = q[Len(q)] + 1
        BY <1>4, <2>2, <2>3, <2>5
      <4>2. q[Len(q)] \in 1 .. N  BY <1>4, <2>5
      <4>. QED  BY <1>6, <3>1, <4>1, <4>2 DEF NULL
    <3>. QED  BY <2>4, <2>5, <3>1, <3>2
  <2>7. ASSUME NEW i \in DOMAIN q, i < Len(q) PROVE q[i + 1] = q[i] + 1
    <3>1. nodes[q[i]].next = q[i + 1] /\ i + 1 \in DOMAIN q  BY <1>4, <1>5, <2>7
    <3>2. q[i + 1] \in 1 .. N /\ q[i + 1] # NULL  BY <1>4, <1>6, <3>1 DEF NULL
    <3>3. q[i] # N  BY <2>6, <3>1, <3>2
    <3>. QED  BY <1>4, <2>2, <2>3, <2>4, <3>1, <3>3
  <2>. QED  BY <1>4, <1>5, <1>6, <1>8, <2>1, <2>6, <2>7
<1>. QED  BY <1>7, <1>8

\* async_send, handle_epollout and the list they share neither lose, double nor overtake a
\* byte: written, queued and being received are, in order, what was read.
THEOREM NothingIsOvertaken == Spec => []PipelineInOrder
<1>1. ServerInv => PipelineInOrder
  <2> DEFINE received == rd - Len(head) - Len(body)
  <2> SUFFICES ASSUME ServerInv, Idle, Writable, NEW q \in Queues
               PROVE  /\ out = Bytes(0, Len(out))
                      /\ InOrder([i \in DOMAIN q |-> NodeRest(nodes[q[i]])], Len(out), received)
                      /\ head \o body = Bytes(received, Len(head) + Len(body))
    BY DEF PipelineInOrder, ServerInv, Writable
  <2>1. TypeOK /\ RecvInv /\ NodesInv /\ N + 1 \in DOMAIN starts /\ out = Bytes(0, Len(out))
    BY DEF ServerInv, Idle, RecvInv
  <2>2. /\ starts[N + 1] \in Nat /\ Len(head) \in Nat /\ Len(body) \in Nat /\ HeadLen \in Nat
        /\ rd \in Nat /\ Len(out) \in Nat /\ N \in Nat
    BY <2>1, SizesFacts, NodesAreMessages
  <2>3. received = starts[N + 1]
    <3>1. rd = starts[N + 1] + Len(head) + Len(body)  BY <2>1 DEF RecvInv
    <3>. QED  BY <2>2, <3>1
  <2> HIDE DEF received
  <2>4. head \o body = Bytes(received, Len(head) + Len(body))
    <3> DEFINE a == starts[N + 1]
               m == Len(head)
               n == Len(body)
    <3>1. a \in Nat /\ m \in Nat /\ n \in Nat  BY <2>2
    <3>2. head = Bytes(a, m) /\ body = Bytes(a + m, n)
      <4>1. CASE stage = "BODY_RECVING"  BY <2>1, <4>1 DEF RecvInv
      <4>2. CASE stage # "BODY_RECVING"
        <5>1. body = <<>>  BY <2>1, <4>2 DEF RecvInv, TypeOK
        <5>2. n = 0 /\ Bytes(a + m, n) = <<>>
          <6>1. n = 0  BY <5>1, EmptySeq
          <6>2. a + m \in Nat /\ 0 \in Nat  BY <3>1
          <6> HIDE DEF a, m, n
          <6>. QED  BY <6>1, <6>2, BytesFacts
        <5>. QED  BY <2>1, <5>1, <5>2 DEF RecvInv
      <4>. QED  BY <4>1, <4>2
    <3> HIDE DEF a, m, n
    <3>3. Bytes(a, m) \o Bytes(a + m, n) = Bytes(a, m + n)  BY <3>1, BytesJoin
    <3>4. head \o body = Bytes(a, m + n)  BY <3>2, <3>3, Zenon
    <3>. QED  BY <2>3, <3>4 DEF a, m, n
  <2> DEFINE s == [i \in DOMAIN q |-> NodeRest(nodes[q[i]])]
             l == Len(out)
             At(i) == IF l <= starts[q[i]] THEN starts[q[i]] ELSE l
  <2>5. /\ Len(q) \in Nat /\ DOMAIN q = 1 .. Len(q)
        /\ \A i \in DOMAIN q : q[i] \in 1 .. N /\ nodes[q[i]].live
        /\ \A i \in DOMAIN q : i < Len(q) => q[i + 1] = q[i] + 1
        /\ q = <<>> => Len(q) = 0 /\ l = starts[N + 1]
        /\ q # <<>> => Len(q) > 0 /\ l >= starts[q[1]] /\ q[Len(q)] = N
    BY QueueIsRun
  <2>6. DOMAIN s = DOMAIN q /\ Len(s) = Len(q)
    <3>1. s \in [1 .. Len(q) -> {s[i] : i \in 1 .. Len(q)}]  BY <2>5
    <3>. QED  BY <2>5, <3>1, FunctionIsSeq
  <2>7. ASSUME NEW i \in DOMAIN q
        PROVE  /\ l < starts[q[i] + 1] /\ starts[q[i]] \in Nat /\ starts[q[i] + 1] \in Nat
               /\ s[i] = Bytes(At(i), Len(s[i])) /\ Len(s[i]) \in Nat /\ s[i] # <<>>
               /\ s[i][1] - 1 = At(i) /\ At(i) + Len(s[i]) = starts[q[i] + 1]
    <3>1. s[i] = NodeRest(nodes[q[i]]) /\ q[i] \in 1 .. N /\ nodes[q[i]].live  BY <2>5
    <3>. QED  BY <2>1, <3>1, RestOfNode
  <2> HIDE DEF s
  <2>8. \A i \in DOMAIN q : Begin(s, i, received) = At(i)
    BY <2>5, <2>6, <2>7 DEF Begin
  <2>9. Begin(s, 1, received) = l
    <3>1. CASE q = <<>>
      <4>1. ~(1 <= Len(s)) /\ l = starts[N + 1]  BY <2>5, <2>6, <3>1
      <4>. QED  BY <2>3, <4>1 DEF Begin
    <3>2. CASE q # <<>>
      <4>1. 1 \in DOMAIN q /\ l >= starts[q[1]]  BY <2>5, <3>2
      <4>2. At(1) = l  BY <2>2, <2>7, <4>1
      <4>. QED  BY <2>8, <4>1, <4>2
    <3>. QED  BY <3>1, <3>2
  <2>10. ASSUME NEW i \in DOMAIN q PROVE Begin(s, i + 1, received) = starts[q[i] + 1]
    <3>1. CASE i < Len(q)
      <4>1. i + 1 \in DOMAIN q /\ q[i + 1] = q[i] + 1  BY <2>5, <3>1
      <4>2. At(i + 1) = starts[q[i] + 1]  BY <2>2, <2>7, <4>1
      <4>. QED  BY <2>8, <4>1, <4>2
    <3>2. CASE ~(i < Len(q))
      <4>1. i = Len(q) /\ q # <<>>
        <5>1. i \in 1 .. Len(q)  BY <2>5
        <5>2. i = Len(q) /\ Len(q) > 0  BY <2>5, <3>2, <5>1
        <5>. QED  BY <2>5, <5>2
      <4>2. q[i] = N /\ ~(i + 1 <= Len(s))  BY <2>5, <2>6, <4>1
      <4>. QED  BY <2>3, <4>2 DEF Begin
    <3>. QED  BY <3>1, <3>2
  <2>11. InOrder(s, l, received)
    <3>1. ASSUME NEW i \in DOMAIN s
          PROVE  /\ s[i] # <<>>
                 /\ s[i] = Bytes(Begin(s, i, received), Len(s[i]))
                 /\ Begin(s, i + 1, received) = Begin(s, i, received) + Len(s[i])
      <4>1. i \in DOMAIN q  BY <2>6
      <4> HIDE DEF At
      <4>. QED  BY <2>7, <2>8, <2>10, <4>1
    <3>. QED  BY <2>9, <3>1 DEF InOrder
  <2>. QED  BY <2>1, <2>4, <2>11 DEF s
<1>. QED  BY <1>1, ServerInvHolds, PTL

\* main never waits in epoll_wait for an edge that has already been used up, although
\* enqueue_node trusts the mask of the event at hand.
THEOREM EveryEdgeIsUsed == Spec => []NoEdgeIsLost
<1>1. ServerInv => NoEdgeIsLost
  <2> SUFFICES ASSUME ServerInv, Idle,
                      Unread > 0 \/ peer # "up" \/ (qhead # NULL /\ Room > 0)
               PROVE  ready
    BY DEF NoEdgeIsLost
  <2>1. EdgeInv /\ ~InDue /\ ~OutDue /\ pc \notin {"out", "drain"}
    BY DEF ServerInv, Idle, InDue, OutDue
  <2>2. CASE Unread > 0 \/ peer # "up"  BY <2>1, <2>2 DEF EdgeInv
  <2>3. CASE qhead # NULL /\ Room > 0  BY <2>1, <2>3 DEF EdgeInv
  <2>. QED  BY <2>2, <2>3
<1>. QED  BY <1>1, ServerInvHolds, PTL

-----------------------------------------------------------------------------
(* The connection implements the safety part of EchoService.               *)

LEMMA EchoInit == Init => Echo!Init
<1> SUFFICES ASSUME Init PROVE Echo!Init  OBVIOUS
<1>1. starts \in Streams /\ sent = 0 /\ out = <<>> /\ open = TRUE /\ peer = "up" /\ ~stop
  BY DEF Init, WireInit
<1>2. ~Refused /\ ~Empty
  <2>1. ASSUME NEW i \in Messages PROVE ~(sent >= starts[i] + HeadLen)
    <3>1. starts[i] \in Nat /\ HeadLen \in Nat \ {0}
      BY <1>1, StreamFacts, SizesAssumption
    <3>. QED  BY <1>1, <3>1
  <2>. QED  BY <2>1 DEF Refused, Empty
<1>. QED  BY <1>1, <1>2 DEF Echo!Init

LEMMA EchoStep == ServerInv /\ [Next]_vars => [Echo!Next]_(Echo!vars)
<1> SUFFICES ASSUME ServerInv, [Next]_vars PROVE [Echo!Next]_(Echo!vars)  OBVIOUS
<1> DEFINE E == {starts[i + 1] : i \in Messages}
           M == peer # "up" \/ Refused \/ Empty \/ stop
<1>1. /\ TypeOK /\ CountInv /\ (fate = "runs" => PlaceInv) /\ (Up => UpInv)
      /\ open \in BOOLEAN /\ stop \in BOOLEAN
  BY DEF ServerInv, Up, UpInv, TypeOK, WireTypeOK
<1>2. starts' = starts  BY NoReturn
<1>3. E' = E  BY <1>2 DEF Messages
<1>4. /\ starts \in Streams /\ sent \in Nat /\ rd \in Nat /\ HeadLen \in Nat
      /\ rd <= sent /\ Len(out) \in Nat
  BY <1>1, SizesFacts DEF CountInv
<1>5. sent' = sent => (Refused' <=> Refused) /\ (Empty' <=> Empty)
  BY <1>2 DEF Refused, Empty, Messages, BodyLen
<1>6. sent' = sent + 1 => (Refused => Refused') /\ (Empty => Empty')
  <2>1. \A i \in Messages : starts[i] \in Nat  BY <1>4, StreamFacts
  <2>. QED  BY <1>2, <1>4, <2>1 DEF Refused, Empty, Messages, BodyLen
<1>7. ASSUME UNCHANGED <<sent, out, open, stop>>, peer' # "up" <=> peer # "up"
      PROVE  UNCHANGED Echo!vars
  <2>1. M' = M  BY <1>5, <1>7
  <2>. QED  BY <1>3, <1>7, <2>1 DEF Echo!vars
<1>8. ASSUME UNCHANGED <<sent, peer, out, stop>>, open' = FALSE, M PROVE Echo!Next
  <2>1. M' = M  BY <1>5, <1>8
  <2>. QED  BY <1>3, <1>8, <2>1 DEF Echo!Next, Echo!Close
<1>9. CASE UNCHANGED vars  BY <1>7, <1>9 DEF vars, wireVars, netVars
<1>10. CASE ClientStep /\ PeerSend
  <2>1. sent' = sent + 1 /\ UNCHANGED <<out, open, peer, stop>>
    BY <1>10 DEF ClientStep, PeerSend
  <2>2. M' \in {M, TRUE}  BY <1>6, <2>1
  <2>. QED  BY <1>3, <2>1, <2>2 DEF Echo!Next, Echo!Request
<1>11. CASE ClientStep /\ PeerRead
  <2>1. UNCHANGED <<sent, peer, out, open, stop>>  BY <1>11 DEF ClientStep, PeerRead
  <2>. QED  BY <1>7, <2>1
<1>12. CASE ClientStep /\ PeerEnd
  <2>1. peer' # "up" /\ UNCHANGED <<sent, out, open, stop>>
    BY <1>12 DEF ClientStep, PeerEnd
  <2>2. M' = TRUE  BY <2>1
  <2>. QED  BY <1>3, <2>1, <2>2 DEF Echo!Next, Echo!End
<1>13. CASE Signal
  <2>1. stop' = TRUE /\ UNCHANGED <<sent, out, open>>  BY <1>13 DEF Signal, wireVars, netVars
  <2>2. M' = TRUE  BY <2>1
  <2>. QED  BY <1>3, <2>1, <2>2 DEF Echo!Next, Echo!End
<1>14. CASE Check
  <2>1. UNCHANGED <<sent, peer, out, stop>> /\ (open' = open \/ (stop /\ open' = FALSE))
    BY <1>14 DEF Check, Destroy, CloseFd, netVars
  <2>2. CASE open' = open  BY <1>7, <2>1, <2>2
  <2>3. CASE stop /\ open' = FALSE  BY <1>8, <2>1, <2>3
  <2>. QED  BY <2>1, <2>2, <2>3
<1>15. CASE EpollWait \/ ConnEvent \/ ReadEagain \/ ReadPartOfHead \/ ReadPartOfBody \/ ReadBody
  <2>1. UNCHANGED <<sent, peer, out, open, stop>>
    BY <1>15 DEF EpollWait, ConnEvent, ReadEagain, ReadPartOfHead, ReadPartOfBody, ReadBody,
                 wireVars, netVars
  <2>. QED  BY <1>7, <2>1
<1>16. CASE fate = "runs" /\ (HupEvent \/ ReadEndsInHead)
  <2>1. /\ UNCHANGED <<sent, peer, out, stop>> /\ open' = FALSE
        /\ (pc = "event" /\ "hup" \in evs) \/ peer # "up"
    BY <1>16 DEF HupEvent, ReadEndsInHead, Destroy, CloseFd, netVars
  <2>2. M  BY <1>1, <1>16, <2>1 DEF PlaceInv
  <2>. QED  BY <1>8, <2>1, <2>2
<1>17. CASE fate = "runs" /\ ReadEndsInBody
  <2>1. /\ UNCHANGED <<sent, peer, out, stop>> /\ open' = FALSE
        /\ pc = "read" /\ stage = "BODY_RECVING" /\ (Remain = 0 \/ peer # "up")
    BY <1>17 DEF ReadEndsInBody, Destroy, CloseFd, netVars
  <2>2. UpInv  BY <1>1, <1>17, <2>1 DEF PlaceInv, Up
  <2>3. ASSUME Remain = 0 PROVE Empty
    <3>1. /\ N + 1 \in Messages /\ bodyLen = BodyLen(N + 1) /\ Len(head) = HeadLen
          /\ Len(body) < bodyLen \/ bodyLen = 0
          /\ rd = starts[N + 1] + Len(head) + Len(body)
      BY <2>1, <2>2 DEF UpInv, RecvInv
    <3>2. Remain = bodyLen - Len(body) /\ Len(body) \in Nat /\ bodyLen \in Nat
      BY <1>1, <2>1, SizesFacts DEF Remain
    <3>3. BodyLen(N + 1) = 0  BY <2>3, <3>1, <3>2
    <3>4. starts[N + 1] \in Nat  BY <1>4, <3>1, StreamFacts
    <3>5. sent >= starts[N + 1] + HeadLen  BY <1>4, <3>1, <3>2, <3>4
    <3>. QED  BY <3>1, <3>3, <3>5 DEF Empty
  <2>4. M  BY <2>1, <2>3
  <2>. QED  BY <1>8, <2>1, <2>4
<1>18. CASE fate = "runs" /\ ReadHead
  <2>1. /\ UNCHANGED <<sent, peer, out, stop>> /\ pc = "read" /\ stage # "BODY_RECVING"
        /\ ReadLen > 0 /\ ReadLen = Remain
        /\ \/ UNCHANGED open
           \/ open' = FALSE /\ ParseLen(head \o Bytes(rd, ReadLen)) > BuffSize
    BY <1>18 DEF ReadHead, Destroy, CloseFd, netVars
  <2>2. UpInv  BY <1>1, <1>18, <2>1 DEF PlaceInv, Up
  <2>3. CASE UNCHANGED open  BY <1>7, <2>1, <2>3
  <2>4. CASE open' = FALSE /\ ParseLen(head \o Bytes(rd, ReadLen)) > BuffSize
    <3>1. /\ N + 1 \in Messages /\ rd + ReadLen <= sent
          /\ rd + ReadLen = starts[N + 1] + HeadLen
          /\ ParseLen(head \o Bytes(rd, ReadLen)) = BodyLen(N + 1)
      BY <2>1, <2>2, HeadRead, HeadWhole DEF UpInv
    <3>2. starts[N + 1] \in Nat  BY <1>4, <3>1, StreamFacts
    <3>3. sent >= starts[N + 1] + HeadLen  BY <1>4, <3>1, <3>2
    <3>4. Refused  BY <2>4, <3>1, <3>3 DEF Refused
    <3>. QED  BY <1>8, <2>1, <2>4, <3>4
  <2>. QED  BY <2>1, <2>3, <2>4
<1>19. CASE fate = "runs" /\ (DirectWrite \/ DrainWrite)
  <2>1. UNCHANGED <<sent, peer, open, stop>>  BY <1>19 DEF DirectWrite, DrainWrite, netVars
  <2>2. UpInv /\ open
    <3>1. pc \in {"direct", "drain"}  BY <1>19 DEF DirectWrite, DrainWrite
    <3>. QED  BY <1>1, <1>19, <3>1 DEF PlaceInv, Up
  <2>3. PICK k \in 1 .. SendRoom : WritesOf(cur, k)
    BY <1>19, <2>2, DirectWrites, DrainWrites
  <2>4. cur \in 1 .. N /\ nodes[cur].live /\ Len(out) >= starts[cur]
    BY <1>19, <2>2, DirectWrites, DrainWrites
  <2>5. /\ k \in Nat \ {0} /\ Len(out) + k <= starts[cur + 1]
        /\ out' = out \o Bytes(Len(out), k)
    BY <1>1, <2>2, <2>3, <2>4, WriteStep DEF UpInv, RecvInv
  <2>6. /\ cur \in Messages /\ starts[cur + 1] \in Nat /\ starts[cur + 1] <= starts[N + 1]
        /\ starts[N + 1] \in Nat
    BY <1>1, <2>2, <2>4, NodesAreMessages DEF UpInv, RecvInv
  <2>7. starts[N + 1] <= rd
    <3>1. rd = starts[N + 1] + Len(head) + Len(body)  BY <2>2 DEF UpInv, RecvInv
    <3>. QED  BY <1>1, <2>6, <3>1, SizesFacts
  <2>8. /\ k \in 1 .. sent /\ starts[cur + 1] \in E
        /\ Len(out) + k <= starts[cur + 1] /\ starts[cur + 1] <= sent
    BY <1>4, <2>5, <2>6, <2>7
  <2>9. out' = out \o [i \in 1 .. k |-> Len(out) + i]  BY <2>5 DEF Bytes
  <2>10. M' = M  BY <1>5, <2>1
  <2> HIDE DEF E, M
  <2>11. \E e \in E : Len(out) + k <= e /\ e <= sent  BY <2>8
  <2>12. Echo!Reply
    BY <1>3, <2>1, <2>2, <2>8, <2>9, <2>10, <2>11 DEF Echo!Reply, E, M
  <2>. QED  BY <2>12 DEF Echo!Next
<1>20. CASE DirectEagain \/ QueueNode \/ Sigpipe \/ OutFreed \/ OutStart
  <2>1. UNCHANGED <<sent, peer, out, open, stop>>
    BY <1>20 DEF DirectEagain, QueueNode, Sigpipe, OutFreed, OutStart, wireVars, netVars
  <2>. QED  BY <1>7, <2>1
<1>21. CASE DirectError
  <2>1. UNCHANGED <<sent, out, open, stop>> /\ peer = "reset" /\ peer' = "abort"
    BY <1>21 DEF DirectError
  <2>. QED  BY <1>7, <2>1
<1>22. CASE DrainEagain \/ DrainFreed \/ DrainDone
  <2>1. UNCHANGED <<sent, peer, out, open, stop>>
    BY <1>22 DEF DrainEagain, DrainFreed, DrainDone, wireVars, netVars
  <2>. QED  BY <1>7, <2>1
<1>23. CASE DrainError
  <2>1. UNCHANGED <<sent, peer, out, stop>> /\ open' = FALSE /\ peer = "reset"
    BY <1>23 DEF DrainError, CloseFd, netVars
  <2>. QED  BY <1>8, <2>1
<1>. QED
  BY <1>9, <1>10, <1>11, <1>12, <1>13, <1>14, <1>15, <1>16, <1>17, <1>18, <1>19, <1>20,
     <1>21, <1>22, <1>23 DEF Next, ServerStep, ClientStep, PeerStep

\* A connection of the C server writes back the bytes it was sent, in order and none twice,
\* only of messages that have arrived whole, and closes for a reason only.
THEOREM ServerIsAnEcho == Spec => Echo!Safety
<1>1. Init => Echo!Init  BY EchoInit
<1>2. ServerInv /\ [Next]_vars => [Echo!Next]_(Echo!vars)  BY EchoStep
<1>. QED  BY <1>1, <1>2, ServerInvHolds, PTL DEF Spec, Echo!Safety


-----------------------------------------------------------------------------
(* The clients: messages that follow each other in a stream.               *)

Message == [from : Nat, len : Nat]

\* Each message begins where the one before it ends, the first at 0.
Consecutive(s) ==
    /\ \A i \in DOMAIN s :
          s[i].from = After(s, i - 1) /\ After(s, i) <= After(s, Len(s))
    /\ \A i, j \in DOMAIN s : i < j => s[i].from < s[j].from

LEMMA AfterFacts ==
    ASSUME NEW s \in Seq(Message), NEW n \in 0 .. Len(s)
    PROVE  /\ After(s, n) \in Nat /\ HeadSize \in Nat \ {0} /\ FieldLen \in Nat \ {0}
           /\ HeadSize = FieldLen + FieldLen
           /\ n > 0 => After(s, n) >= s[n].from + HeadSize
<1>1. Len(s) \in Nat /\ \A i \in 1 .. Len(s) : s[i] \in Message
  BY ElementOfSeq, LenProperties
<1>2. HeadSize \in Nat \ {0} /\ FieldLen \in Nat \ {0} /\ HeadSize = FieldLen + FieldLen
  BY ClientAssumption DEF HeadSize
<1>3. CASE n = 0  BY <1>2, <1>3 DEF After
<1>4. CASE n # 0
  <2>1. s[n].from \in Nat /\ s[n].len \in Nat  BY <1>1, <1>4 DEF Message
  <2>. QED  BY <1>2, <1>4, <2>1 DEF After
<1>. QED  BY <1>3, <1>4

\* One more message at the end.
LEMMA OneMore ==
    ASSUME NEW s \in Seq(Message), Consecutive(s), NEW l \in Nat
    PROVE  LET m == [from |-> After(s, Len(s)), len |-> l]
               r == Append(s, m) IN
           /\ m \in Message /\ r \in Seq(Message) /\ Consecutive(r)
           /\ Len(r) = Len(s) + 1 /\ r[Len(s) + 1] = m
           /\ \A i \in 1 .. Len(s) : r[i] = s[i]
           /\ \A i \in 0 .. Len(s) : After(r, i) = After(s, i)
           /\ After(r, Len(r)) = After(s, Len(s)) + HeadSize + l
<1> DEFINE n == Len(s)
           e == After(s, n)
           m == [from |-> e, len |-> l]
           r == Append(s, m)
<1>1. n \in Nat /\ \A i \in 1 .. n : s[i] \in Message
  BY ElementOfSeq, LenProperties
<1>2. e \in Nat /\ HeadSize \in Nat \ {0}  BY <1>1, AfterFacts
<1>3. m \in Message  BY <1>2 DEF Message
<1>4. /\ r \in Seq(Message) /\ Len(r) = n + 1 /\ r[n + 1] = m
      /\ \A i \in 1 .. n : r[i] = s[i]
      /\ DOMAIN r = 1 .. n + 1 /\ DOMAIN s = 1 .. n
  BY <1>3, AppendProperties, LenProperties
<1>5. /\ \A i \in 1 .. n : s[i].from = After(s, i - 1) /\ After(s, i) <= e
      /\ \A i, j \in 1 .. n : i < j => s[i].from < s[j].from
  BY <1>4 DEF Consecutive
<1>6. \A i \in 0 .. n : After(r, i) = After(s, i) /\ After(s, i) \in Nat
  <2>1. TAKE i \in 0 .. n
  <2>2. After(s, i) \in Nat  BY AfterFacts
  <2>3. i = 0 \/ i \in 1 .. n  BY <1>1
  <2>. QED  BY <1>4, <2>2, <2>3 DEF After
<1>7. \A i \in 1 .. n : s[i].from < e /\ s[i].from \in Nat
  <2>1. TAKE i \in 1 .. n
  <2>2. s[i].from \in Nat  BY <1>1 DEF Message
  <2>3. i \in 0 .. Len(s) /\ i > 0  BY <1>1
  <2>4. After(s, i) >= s[i].from + HeadSize /\ After(s, i) \in Nat  BY <2>3, AfterFacts
  <2>. QED  BY <1>2, <1>5, <2>2, <2>4
<1>8. m.from = e /\ m.len = l  OBVIOUS
<1> HIDE DEF n, e, m, r
<1>9. After(r, n + 1) = e + HeadSize + l  BY <1>1, <1>4, <1>8 DEF After
<1>10. ASSUME NEW i \in 1 .. n + 1
       PROVE  r[i].from = After(r, i - 1) /\ After(r, i) <= After(r, n + 1)
  <2>1. CASE i = n + 1
    <3>1. i - 1 = n /\ n \in 0 .. n  BY <1>1, <2>1
    <3>2. After(r, i - 1) = e  BY <1>6, <3>1 DEF e, n
    <3>. QED  BY <1>2, <1>4, <1>8, <1>9, <2>1, <3>2
  <2>2. CASE i \in 1 .. n
    <3>1. i - 1 \in 0 .. n /\ i \in 0 .. n  BY <1>1, <2>2
    <3>2. After(r, i - 1) = After(s, i - 1) /\ After(r, i) = After(s, i) /\ After(s, i) \in Nat
      BY <1>6, <3>1
    <3>3. After(s, i) <= e  BY <1>5, <2>2
    <3>. QED  BY <1>2, <1>4, <1>5, <1>9, <2>2, <3>2, <3>3
  <2>. QED  BY <1>1, <2>1, <2>2
<1>11. ASSUME NEW i \in 1 .. n + 1, NEW j \in 1 .. n + 1, i < j
       PROVE  r[i].from < r[j].from
  <2>1. i \in 1 .. n  BY <1>1, <1>11
  <2>2. CASE j = n + 1  BY <1>4, <1>7, <1>8, <2>1, <2>2
  <2>3. CASE j \in 1 .. n  BY <1>4, <1>5, <1>11, <2>1, <2>3
  <2>. QED  BY <1>1, <2>2, <2>3
<1>12. Consecutive(r)  BY <1>4, <1>10, <1>11 DEF Consecutive
<1>. QED  BY <1>3, <1>4, <1>6, <1>9, <1>12 DEF n, e, m, r

\* Where n messages end and there is more of the stream, message n + 1 begins, and it is
\* the only one to begin there.
LEMMA NextMessage ==
    ASSUME NEW s \in Seq(Message), Consecutive(s), NEW n \in 0 .. Len(s),
           After(s, n) < After(s, Len(s))
    PROVE  /\ n + 1 \in DOMAIN s /\ s[n + 1].from = After(s, n)
           /\ \A i \in DOMAIN s : s[i].from = After(s, n) <=> i = n + 1
<1>1. Len(s) \in Nat /\ DOMAIN s = 1 .. Len(s)
      /\ \A i \in 1 .. Len(s) : s[i] \in Message
  BY ElementOfSeq, LenProperties
<1>2. After(s, n) \in Nat /\ After(s, Len(s)) \in Nat  BY <1>1, AfterFacts
<1>3. n # Len(s)  BY <1>2
<1>4. n + 1 \in DOMAIN s /\ (n + 1) - 1 = n
  <2>0. Len(s) \in Nat /\ n \in 0 .. Len(s) /\ n # Len(s)  BY <1>1, <1>3
  <2>1. n + 1 \in 1 .. Len(s) /\ (n + 1) - 1 = n  BY ONLY <2>0
  <2>. QED  BY <1>1, <2>1
<1>5. s[n + 1].from = After(s, n)  BY <1>4 DEF Consecutive
<1>6. \A i \in DOMAIN s : s[i].from \in Nat  BY <1>1 DEF Message
<1>7. ASSUME NEW i \in DOMAIN s, s[i].from = After(s, n) PROVE i = n + 1
  <2>1. ~(i < n + 1) /\ ~(n + 1 < i)  BY <1>4, <1>5, <1>6, <1>7 DEF Consecutive
  <2>. QED  BY <1>1, <1>4, <2>1
<1>. QED  BY <1>4, <1>5, <1>7

-----------------------------------------------------------------------------
(* The invariant of client and server.                                     *)

\* The lines that were written are those that were read, but for the last where it is
\* still to be written or never was.
TypedInv ==
    /\ Consecutive(typed)
    /\ at = "write" => line > 0
    /\ at = "write" => Len(typed) = line - 1
    /\ at = "prompt" \/ Reading => Len(typed) = line
    /\ \A i \in DOMAIN typed : i \in DOMAIN lines /\ typed[i].len = lines[i]

\* The server cuts from the stream what was typed, up to the first line whose length the
\* head cannot say.
SameMessage(i, j) == parsed[i].from = typed[j].from /\ parsed[i].len = typed[j].len

ParsedInv ==
    /\ Consecutive(parsed)
    /\ Parsed <= Wrote /\ echoed <= Parsed
    /\ \A i \in DOMAIN parsed : Sayable(i) => i \in DOMAIN typed /\ SameMessage(i, i)
    /\ due # NONE => Parsed + HeadSize <= Wrote
    /\ due # NONE /\ Sayable(Len(parsed) + 1) =>
          Len(parsed) + 1 \in DOMAIN typed /\ typed[Len(parsed) + 1].len = due

\* The client is within the answer behind those it has shown.
AnswerInv ==
    /\ Len(shown) <= Len(parsed)
    /\ \A i \in DOMAIN shown : shown[i] = parsed[i]
    /\ taken <= echoed
    /\ at \in {"prompt", "write"} => taken = After(parsed, Len(shown))
    /\ Reading => from = After(parsed, Len(shown))
    /\ at = "type" => want \in 1 .. FieldLen /\ taken = from + FieldLen - want
    /\ at = "len" => want \in 1 .. FieldLen /\ taken = from + HeadSize - want
    /\ at = "body" => /\ Len(shown) < Len(parsed)
                      /\ rspLen = parsed[Len(shown) + 1].len
                      /\ want \in 0 .. rspLen /\ taken = from + HeadSize + rspLen - want

AnswersInv == EchoClientTypeOK /\ TypedInv /\ ParsedInv /\ AnswerInv

LEMMA AnswersFacts ==
    ASSUME EchoClientTypeOK
    PROVE  /\ typed \in Seq(Message) /\ parsed \in Seq(Message)
           /\ Len(typed) \in Nat /\ Len(parsed) \in Nat /\ Len(shown) \in Nat
           /\ DOMAIN typed = 1 .. Len(typed) /\ DOMAIN parsed = 1 .. Len(parsed)
           /\ DOMAIN shown = 1 .. Len(shown)
           /\ \A i \in DOMAIN parsed : /\ parsed[i].from \in Nat
                                       /\ parsed[i].len \in 1 .. LongestBody
           /\ \A i \in DOMAIN typed : typed[i].from \in Nat /\ typed[i].len \in Nat
           /\ lines \in Seq(Nat) /\ Len(lines) \in Nat /\ DOMAIN lines = 1 .. Len(lines)
           /\ \A i \in DOMAIN lines : lines[i] \in Nat
           /\ line \in Nat /\ line <= Len(lines)
           /\ taken \in Nat /\ want \in Nat /\ from \in Nat /\ rspLen \in Nat /\ echoed \in Nat
           /\ FieldLen \in Nat \ {0} /\ HeadSize = FieldLen + FieldLen /\ HeadSize \in Nat \ {0}
           /\ LongestBody \in Nat /\ LongestBody < LenMod /\ LenMod \in Nat
           /\ NONE \notin 1 .. LongestBody
           /\ Parsed \in Nat /\ Wrote \in Nat
<1> DEFINE P == [from : Nat, len : 1 .. LongestBody]
<1>1. /\ lines \in Seq(Nat) /\ line \in 0 .. Len(lines)
      /\ typed \in Seq([from : Nat, len : Nat]) /\ parsed \in Seq(P)
      /\ shown \in Seq([from : Nat, len : 0 .. LongestBody])
      /\ taken \in Nat /\ want \in Nat /\ from \in Nat /\ rspLen \in Nat /\ echoed \in Nat
  BY ClientAssumption DEF EchoClientTypeOK
<1>2. /\ FieldLen \in Nat \ {0} /\ HeadSize = FieldLen + FieldLen /\ HeadSize \in Nat \ {0}
      /\ LongestBody \in Nat /\ LongestBody < LenMod /\ LenMod \in Nat
      /\ NONE \notin 1 .. LongestBody
  BY ClientAssumption DEF HeadSize, NONE
<1>3. /\ Len(lines) \in Nat /\ DOMAIN lines = 1 .. Len(lines)
      /\ \A i \in DOMAIN lines : lines[i] \in Nat
  BY <1>1, LenProperties, ElementOfSeq
<1>4. /\ typed \in Seq(Message) /\ Len(typed) \in Nat /\ DOMAIN typed = 1 .. Len(typed)
      /\ \A i \in DOMAIN typed : typed[i] \in Message
  BY <1>1, LenProperties, ElementOfSeq DEF Message
<1>5. /\ Len(parsed) \in Nat /\ DOMAIN parsed = 1 .. Len(parsed)
      /\ \A i \in DOMAIN parsed : parsed[i] \in P
      /\ parsed \in [1 .. Len(parsed) -> P]
  BY <1>1, LenProperties, ElementOfSeq
<1>6. P \subseteq Message  BY <1>2 DEF Message
<1>7. parsed \in [1 .. Len(parsed) -> Message]  BY <1>5, <1>6
<1>8. parsed \in Seq(Message)  BY <1>5, <1>7, SeqDef
<1>9. Len(shown) \in Nat /\ DOMAIN shown = 1 .. Len(shown)  BY <1>1, LenProperties
<1>10. Parsed \in Nat /\ Wrote \in Nat
  <2>1. Len(typed) \in 0 .. Len(typed) /\ Len(parsed) \in 0 .. Len(parsed)  BY <1>4, <1>5
  <2>. QED  BY <1>4, <1>8, <2>1, AfterFacts DEF Parsed, Wrote
<1>. QED  BY <1>1, <1>2, <1>3, <1>4, <1>5, <1>8, <1>9, <1>10 DEF Message

\* What keeps the invariant where neither stream grows.
LEMMA StreamsStay ==
    ASSUME ParsedInv, UNCHANGED <<lines, typed, parsed, due, echoed>>
    PROVE  ParsedInv'
BY DEF ParsedInv, Consecutive, Parsed, Wrote, After, Sayable, SameMessage

\* The client reads a line or ends.
LEMMA AnswersBetween ==
    ASSUME AnswersInv, ReadLine \/ EndOfInput \/ WriteFails \/ NoMemory \/ ReadFails
    PROVE  AnswersInv'
<1>1. EchoClientTypeOK /\ TypedInv /\ ParsedInv /\ AnswerInv  BY DEF AnswersInv
<1>2. UNCHANGED <<lines, typed, taken, want, from, rspLen, shown, serving, parsed, due, echoed>>
  BY DEF ReadLine, EndOfInput, WriteFails, NoMemory, ReadFails, serverVars
<1>3. \/ at = "prompt" /\ line < Len(lines) /\ line' = line + 1 /\ at' = "write"
      \/ at' \in {"closed", "killed", "noMemory"} /\ line' = line
  BY DEF ReadLine, EndOfInput, WriteFails, NoMemory, ReadFails
<1>4. line \in Nat /\ Len(lines) \in Nat /\ line <= Len(lines)  BY <1>1, AnswersFacts
<1>5. EchoClientTypeOK'
  <2>1. line' \in 0 .. Len(lines)  BY <1>3, <1>4
  <2>. QED  BY <1>1, <1>2, <1>3, <2>1 DEF EchoClientTypeOK
<1>6. TypedInv'
  <2>1. /\ at' = "write" => line' > 0 /\ Len(typed) = line' - 1
        /\ at' = "prompt" \/ Reading' => FALSE
    BY <1>1, <1>3, <1>4 DEF TypedInv, Reading
  <2>2. Consecutive(typed)'  BY <1>1, <1>2 DEF TypedInv, Consecutive, After
  <2>. QED  BY <1>1, <1>2, <2>1, <2>2 DEF TypedInv
<1>7. ParsedInv'  BY <1>1, <1>2, StreamsStay
<1>8. AnswerInv'
  <2>1. ~Reading' /\ at' \notin {"prompt", "type", "len", "body"}  BY <1>3 DEF Reading
  <2>2. at' = "write" => taken = After(parsed, Len(shown))  BY <1>1, <1>3 DEF AnswerInv
  <2>. QED  BY <1>1, <1>2, <2>1, <2>2 DEF AnswerInv, After
<1>. QED  BY <1>5, <1>6, <1>7, <1>8 DEF AnswersInv

LEMMA AnswersWrite ==
    ASSUME AnswersInv, WriteLine
    PROVE  AnswersInv'
<1>1. EchoClientTypeOK /\ TypedInv /\ ParsedInv /\ AnswerInv  BY DEF AnswersInv
<1>2. /\ typed \in Seq(Message) /\ Len(typed) \in Nat /\ DOMAIN typed = 1 .. Len(typed)
      /\ Len(parsed) \in Nat /\ DOMAIN lines = 1 .. Len(lines)
      /\ line \in Nat /\ line <= Len(lines) /\ taken \in Nat
      /\ FieldLen \in Nat \ {0} /\ HeadSize \in Nat \ {0} /\ Wrote \in Nat /\ Parsed \in Nat
  BY <1>1, AnswersFacts
<1>3. /\ Len(typed) = line - 1 /\ line > 0 /\ Consecutive(typed)
      /\ \A i \in DOMAIN typed : i \in DOMAIN lines /\ typed[i].len = lines[i]
  BY <1>1 DEF TypedInv, WriteLine
<1>4. line \in DOMAIN lines /\ lines[line] \in Nat
  <2>1. line \in DOMAIN lines  BY <1>2, <1>3
  <2>. QED  BY <1>1, <2>1, AnswersFacts
<1>5. /\ UNCHANGED <<lines, line, taken, rspLen, shown, serving, parsed, due, echoed>>
      /\ at' = "type" /\ want' = FieldLen /\ from' = taken
      /\ typed' = Append(typed, [from |-> Wrote, len |-> lines[line]])
  BY DEF WriteLine, serverVars
<1>6. /\ typed' \in Seq(Message) /\ Consecutive(typed') /\ Len(typed') = Len(typed) + 1
      /\ typed'[Len(typed) + 1] = [from |-> Wrote, len |-> lines[line]]
      /\ \A i \in 1 .. Len(typed) : typed'[i] = typed[i]
      /\ After(typed', Len(typed')) = Wrote + HeadSize + lines[line]
  BY <1>2, <1>3, <1>4, <1>5, OneMore DEF Wrote
<1>7. DOMAIN typed' = 1 .. Len(typed) + 1  BY <1>6, LenProperties
<1>8. EchoClientTypeOK'
  BY <1>1, <1>2, <1>5, <1>6 DEF EchoClientTypeOK, Message
<1>9. TypedInv'
  <2>1. \A i \in DOMAIN typed' : i \in DOMAIN lines /\ typed'[i].len = lines[i]
    <3>1. TAKE i \in DOMAIN typed'
    <3>2. CASE i = Len(typed) + 1
      <4>1. Len(typed) + 1 = line  BY <1>2, <1>3
      <4>2. i = line /\ typed'[line] = [from |-> Wrote, len |-> lines[line]]
        BY <1>6, <3>2, <4>1
      <4>. QED  BY <1>4, <4>2
    <3>3. CASE i \in 1 .. Len(typed)  BY <1>2, <1>3, <1>6, <3>3
    <3>. QED  BY <1>2, <1>7, <3>2, <3>3
  <2>2. Len(typed') = line  BY <1>2, <1>3, <1>6
  <2>. QED  BY <1>5, <1>6, <2>1, <2>2 DEF TypedInv
<1>10. ParsedInv'
  <2>1. Wrote' = Wrote + HeadSize + lines[line]  BY <1>6 DEF Wrote
  <2>2. Parsed' = Parsed /\ Consecutive(parsed)'
    BY <1>1, <1>5 DEF Parsed, After, Consecutive, ParsedInv
  <2>3. Parsed <= Wrote /\ echoed <= Parsed /\ (due # NONE => Parsed + HeadSize <= Wrote)
    BY <1>1 DEF ParsedInv
  <2>4. Parsed <= Wrote' /\ (due # NONE => Parsed + HeadSize <= Wrote')
    BY <1>2, <1>4, <2>1, <2>3
  <2>5. \A i : i \in DOMAIN typed => i \in DOMAIN typed' /\ typed'[i] = typed[i]
    BY <1>2, <1>6, <1>7
  <2>6. \A i : Sayable(i)' <=> Sayable(i)  BY <1>5 DEF Sayable
  <2>7. /\ \A i \in DOMAIN parsed : Sayable(i) => i \in DOMAIN typed' /\ SameMessage(i, i)'
        /\ due # NONE /\ Sayable(Len(parsed) + 1) =>
              /\ Len(parsed) + 1 \in DOMAIN typed'
              /\ typed'[Len(parsed) + 1].len = due
    BY <1>1, <1>5, <2>5 DEF ParsedInv, SameMessage
  <2>. QED  BY <1>5, <2>2, <2>3, <2>4, <2>6, <2>7 DEF ParsedInv
<1>11. AnswerInv'
  <2>1. taken = After(parsed, Len(shown))  BY <1>1 DEF AnswerInv, WriteLine
  <2>2. want' \in 1 .. FieldLen /\ taken = from' + FieldLen - want'  BY <1>2, <1>5
  <2>3. After(parsed, Len(shown))' = After(parsed, Len(shown))  BY <1>5 DEF After
  <2>. QED  BY <1>1, <1>5, <2>1, <2>2, <2>3 DEF AnswerInv
<1>. QED  BY <1>8, <1>9, <1>10, <1>11 DEF AnswersInv

\* A read of the answer: its head is that of the next message, whose length it gives.
LEMMA AnswersRead ==
    ASSUME AnswersInv, ReadFull
    PROVE  AnswersInv'
<1>1. EchoClientTypeOK /\ TypedInv /\ ParsedInv /\ AnswerInv  BY DEF AnswersInv
<1>2. /\ parsed \in Seq(Message) /\ Len(parsed) \in Nat /\ Len(shown) \in Nat
      /\ DOMAIN parsed = 1 .. Len(parsed)
      /\ \A i \in DOMAIN parsed : parsed[i].from \in Nat /\ parsed[i].len \in 1 .. LongestBody
      /\ taken \in Nat /\ want \in Nat /\ from \in Nat /\ rspLen \in Nat /\ echoed \in Nat
      /\ FieldLen \in Nat \ {0} /\ HeadSize = FieldLen + FieldLen /\ LongestBody \in Nat
      /\ Parsed \in Nat
  BY <1>1, AnswersFacts
<1>3. PICK n \in 1 .. Least(want, echoed - taken) :
          /\ taken' = taken + n
          /\ IF n < want \/ at = "body" THEN want' = want - n /\ UNCHANGED <<at, rspLen>>
             ELSE NextField
  BY DEF ReadFull
<1>4. /\ UNCHANGED <<lines, line, typed, from, shown, serving, parsed, due, echoed>>
      /\ at \in {"type", "len", "body"} /\ want > 0
  BY DEF ReadFull, Reading, serverVars
<1>5. /\ n \in Nat \ {0} /\ n <= want /\ taken + n <= echoed /\ taken + n \in Nat
  BY <1>2, <1>3 DEF Least
<1>6. /\ Len(shown) <= Len(parsed) /\ \A i \in DOMAIN shown : shown[i] = parsed[i]
      /\ from = After(parsed, Len(shown))
      /\ at = "type" => want \in 1 .. FieldLen /\ taken = from + FieldLen - want
      /\ at = "len" => want \in 1 .. FieldLen /\ taken = from + HeadSize - want
      /\ at = "body" => /\ Len(shown) < Len(parsed)
                        /\ rspLen = parsed[Len(shown) + 1].len
                        /\ want \in 0 .. rspLen /\ taken = from + HeadSize + rspLen - want
  BY <1>1, <1>4 DEF AnswerInv, Reading
<1>7. ParsedInv'  BY <1>1, <1>4, StreamsStay
<1>8. After(parsed, Len(shown))' = After(parsed, Len(shown))  BY <1>4 DEF After
<1> DEFINE Goal == /\ at' \in {"type", "len", "body"} /\ want' \in Nat /\ rspLen' \in Nat
                   /\ at' = "type" => want' \in 1 .. FieldLen /\ taken' = from + FieldLen - want'
                   /\ at' = "len" => want' \in 1 .. FieldLen /\ taken' = from + HeadSize - want'
                   /\ at' = "body" => /\ Len(shown) < Len(parsed)
                                      /\ rspLen' = parsed[Len(shown) + 1].len
                                      /\ want' \in 0 .. rspLen'
                                      /\ taken' = from + HeadSize + rspLen' - want'
<1>9. Goal
  <2>1. CASE n < want \/ at = "body"
    <3>1. want' = want - n /\ UNCHANGED <<at, rspLen>>  BY <1>3, <2>1
    <3>2. want - n \in Nat /\ (n < want => want - n > 0)  BY <1>2, <1>5
    <3>3. CASE at = "type"  BY <1>2, <1>3, <1>5, <1>6, <2>1, <3>1, <3>2, <3>3
    <3>4. CASE at = "len"  BY <1>2, <1>3, <1>5, <1>6, <2>1, <3>1, <3>2, <3>4
    <3>5. CASE at = "body"  BY <1>2, <1>3, <1>5, <1>6, <3>1, <3>2, <3>5
    <3>. QED  BY <1>4, <3>3, <3>4, <3>5
  <2>2. CASE ~(n < want \/ at = "body")
    <3>0. n = want /\ NextField  BY <1>2, <1>3, <1>5, <2>2
    <3>1. CASE at = "type"
      <4>1. at' = "len" /\ want' = FieldLen /\ rspLen' = rspLen
        BY <3>0, <3>1 DEF NextField
      <4>. QED  BY <1>2, <1>3, <1>6, <3>0, <3>1, <4>1
    <3>2. CASE at = "len"
      <4>1. at' = "body" /\ rspLen' \in EchoedLens(from) /\ want' = rspLen'
        BY <3>0, <3>2 DEF NextField
      <4>2. taken' = from + HeadSize /\ taken' <= echoed /\ echoed <= Parsed
        BY <1>1, <1>2, <1>3, <1>5, <1>6, <3>0, <3>2 DEF ParsedInv
      <4>3. After(parsed, Len(shown)) < After(parsed, Len(parsed))
        BY <1>2, <1>6, <4>2 DEF Parsed
      <4>4. Len(shown) \in 0 .. Len(parsed) /\ Consecutive(parsed)
        BY <1>1, <1>2, <1>6 DEF ParsedInv
      <4>5. /\ Len(shown) + 1 \in DOMAIN parsed
            /\ \A i \in DOMAIN parsed : parsed[i].from = from <=> i = Len(shown) + 1
        BY <1>2, <1>6, <4>3, <4>4, NextMessage
      <4> DEFINE here == {i \in DOMAIN parsed : parsed[i].from = from}
      <4>6. here = {Len(shown) + 1}  BY <4>5
      <4>7. EchoedLens(from) = {parsed[i].len : i \in here}  BY <4>6 DEF EchoedLens
      <4>8. rspLen' = parsed[Len(shown) + 1].len  BY <4>1, <4>6, <4>7
      <4>9. Len(shown) < Len(parsed) /\ rspLen' \in Nat  BY <1>2, <4>5, <4>8
      <4>10. want' \in 0 .. rspLen' /\ taken' = from + HeadSize + rspLen' - want'
        <5>1. \A x, y \in Nat : y \in 0 .. y /\ x + y - y = x  OBVIOUS
        <5>2. from + HeadSize \in Nat  BY <1>2
        <5>. QED  BY <4>1, <4>2, <4>9, <5>1, <5>2
      <4>. QED  BY <4>1, <4>8, <4>9, <4>10
    <3>. QED  BY <1>4, <2>2, <3>1, <3>2
  <2>. QED  BY <2>1, <2>2
<1>10. EchoClientTypeOK'
  <2>1. taken' \in Nat /\ want' \in Nat /\ rspLen' \in Nat /\ from' \in Nat /\ echoed' \in Nat
    BY <1>2, <1>3, <1>4, <1>5, <1>9
  <2>2. at' \in {"prompt", "write", "type", "len", "body", "closed", "noMemory", "killed"}
    BY <1>9
  <2>. QED  BY <1>1, <1>4, <2>1, <2>2 DEF EchoClientTypeOK
<1>11. TypedInv'
  <2>1. Len(typed) = line  BY <1>1, <1>4 DEF TypedInv, Reading
  <2>2. Consecutive(typed)'  BY <1>1, <1>4 DEF TypedInv, Consecutive, After
  <2>. QED  BY <1>1, <1>4, <1>9, <2>1, <2>2 DEF TypedInv
<1>12. AnswerInv'
  BY <1>3, <1>4, <1>5, <1>6, <1>8, <1>9 DEF AnswerInv
<1>. QED  BY <1>7, <1>10, <1>11, <1>12 DEF AnswersInv

LEMMA AnswersShow ==
    ASSUME AnswersInv, Show
    PROVE  AnswersInv'
<1>1. EchoClientTypeOK /\ TypedInv /\ ParsedInv /\ AnswerInv  BY DEF AnswersInv
<1>2. /\ parsed \in Seq(Message) /\ Len(parsed) \in Nat /\ Len(shown) \in Nat
      /\ DOMAIN parsed = 1 .. Len(parsed) /\ DOMAIN shown = 1 .. Len(shown)
      /\ \A i \in DOMAIN parsed : parsed[i].from \in Nat /\ parsed[i].len \in 1 .. LongestBody
      /\ taken \in Nat /\ from \in Nat /\ rspLen \in Nat /\ LongestBody \in Nat
      /\ HeadSize \in Nat /\ line \in Nat
  BY <1>1, AnswersFacts
<1>3. /\ UNCHANGED <<lines, line, typed, taken, want, from, rspLen, serving, parsed, due, echoed>>
      /\ at = "body" /\ want = 0 /\ at' = "prompt"
      /\ shown' = Append(shown, [from |-> from, len |-> rspLen])
  BY DEF Show, serverVars
<1>4. /\ Len(shown) < Len(parsed) /\ rspLen = parsed[Len(shown) + 1].len
      /\ from = After(parsed, Len(shown)) /\ taken = from + HeadSize + rspLen
      /\ taken <= echoed /\ \A i \in DOMAIN shown : shown[i] = parsed[i]
  BY <1>1, <1>2, <1>3 DEF AnswerInv, Reading
<1> DEFINE n == Len(shown) + 1
           m == [from |-> from, len |-> rspLen]
           A == [from : Nat, len : 0 .. LongestBody]
<1>5. n \in DOMAIN parsed /\ n - 1 = Len(shown) /\ n # 0  BY <1>2, <1>4
<1>6. parsed[n].from = from
  BY <1>1, <1>4, <1>5 DEF ParsedInv, Consecutive
<1>7. parsed[n] = m
  <2>1. parsed[n] \in [from : Nat, len : 1 .. LongestBody]
    BY <1>1, <1>5, ElementOfSeq, <1>2 DEF EchoClientTypeOK
  <2>. QED  BY <1>4, <1>6, <2>1
<1>8. m \in A  BY <1>2, <1>4, <1>5
<1>9. /\ shown' \in Seq(A) /\ Len(shown') = n /\ shown'[n] = m
      /\ \A i \in 1 .. Len(shown) : shown'[i] = shown[i]
  <2>1. shown \in Seq(A)  BY <1>1 DEF EchoClientTypeOK
  <2>. QED  BY <1>3, <1>8, <2>1, AppendProperties
<1>10. DOMAIN shown' = 1 .. n  BY <1>9, LenProperties
<1>11. EchoClientTypeOK'  BY <1>1, <1>3, <1>9 DEF EchoClientTypeOK
<1>12. TypedInv'
  <2>1. Len(typed) = line  BY <1>1, <1>3 DEF TypedInv, Reading
  <2>2. Consecutive(typed)'  BY <1>1, <1>3 DEF TypedInv, Consecutive, After
  <2>. QED  BY <1>1, <1>3, <2>1, <2>2 DEF TypedInv, Reading
<1>13. ParsedInv'  BY <1>1, <1>3, StreamsStay
<1>14. AnswerInv'
  <2>1. \A i \in DOMAIN shown' : shown'[i] = parsed[i]
    <3>1. TAKE i \in DOMAIN shown'
    <3>2. i = n \/ i \in 1 .. Len(shown)  BY <1>2, <1>10
    <3>. QED  BY <1>2, <1>4, <1>7, <1>9, <3>2
  <2>2. After(parsed, n) = taken  BY <1>4, <1>5, <1>6 DEF After
  <2>3. After(parsed, Len(shown))' = After(parsed, n)  BY <1>3, <1>9 DEF After
  <2>4. n <= Len(parsed)  BY <1>2, <1>5
  <2>. QED  BY <1>3, <1>4, <1>9, <2>1, <2>2, <2>3, <2>4 DEF AnswerInv, Reading
<1>. QED  BY <1>11, <1>12, <1>13, <1>14 DEF AnswersInv

\* The server reads a head: of the line that the client has typed there, as long as no
\* length before it was cut.
LEMMA ServerReadsHead ==
    ASSUME AnswersInv, ServerHead
    PROVE  AnswersInv'
<1>1. EchoClientTypeOK /\ TypedInv /\ ParsedInv /\ AnswerInv  BY DEF AnswersInv
<1>2. /\ typed \in Seq(Message) /\ Len(typed) \in Nat /\ DOMAIN typed = 1 .. Len(typed)
      /\ Len(parsed) \in Nat /\ DOMAIN parsed = 1 .. Len(parsed)
      /\ \A i \in DOMAIN lines : lines[i] \in Nat
      /\ HeadSize \in Nat \ {0} /\ Wrote \in Nat /\ Parsed \in Nat
      /\ LenMod \in Nat
  BY <1>1, AnswersFacts
<1>3. /\ UNCHANGED <<lines, line, at, typed, taken, want, from, rspLen, shown, parsed, echoed>>
      /\ Parsed + HeadSize <= Wrote
  BY DEF ServerHead, clientVars
<1>4. PICK len \in SentLens(Parsed) :
          IF len \in 1 .. LongestBody THEN due' = len /\ UNCHANGED serving
          ELSE serving' = FALSE /\ UNCHANGED due
  BY DEF ServerHead
<1>5. due = NONE  BY DEF ServerHead
<1>6. EchoClientTypeOK'
  BY <1>1, <1>3, <1>4 DEF EchoClientTypeOK
<1>7. TypedInv'  BY <1>1, <1>3 DEF TypedInv, Consecutive, After, Reading
<1>8. AnswerInv'  BY <1>1, <1>3 DEF AnswerInv, After, Reading
<1> DEFINE n == Len(parsed)
<1>9. ASSUME due' # NONE, Sayable(n + 1)
      PROVE  n + 1 \in DOMAIN typed /\ typed[n + 1].len = due'
  <2>1. due' = len  BY <1>4, <1>5, <1>9
  <2>2. n \in 0 .. Len(typed) /\ Parsed = After(typed, n)
    <3>1. CASE n = 0  BY <1>2, <3>1 DEF Parsed, After
    <3>2. CASE n # 0
      <4>1. n \in DOMAIN parsed  BY <1>2, <3>2
      <4>2. Sayable(n)
        <5>1. \A j \in DOMAIN lines : j \in Nat
          <6>1. DOMAIN lines = 1 .. Len(lines) /\ Len(lines) \in Nat  BY <1>1, AnswersFacts
          <6>. QED  BY <6>1
        <5>2. \A j \in DOMAIN lines : j <= n => j <= n + 1  BY <1>2, <5>1
        <5>. QED  BY <1>9, <5>2 DEF Sayable
      <4>3. n \in DOMAIN typed /\ SameMessage(n, n)  BY <1>1, <4>1, <4>2 DEF ParsedInv
      <4>. QED  BY <1>2, <3>2, <4>3 DEF SameMessage, Parsed, After
    <3>. QED  BY <3>1, <3>2
  <2>3. After(typed, n) < After(typed, Len(typed))
    BY <1>2, <1>3, <2>2 DEF Wrote
  <2>4. /\ n + 1 \in DOMAIN typed
        /\ \A i \in DOMAIN typed : typed[i].from = Parsed <=> i = n + 1
    BY <1>1, <1>2, <2>2, <2>3, NextMessage DEF TypedInv
  <2> DEFINE here == {i \in DOMAIN typed : typed[i].from = Parsed}
  <2>5. here = {n + 1}  BY <2>4
  <2>6. SentLens(Parsed) = {typed[i].len % LenMod : i \in here}  BY <2>5 DEF SentLens
  <2>7. len = typed[n + 1].len % LenMod  BY <2>5, <2>6
  <2>8. n + 1 \in DOMAIN lines /\ typed[n + 1].len = lines[n + 1]
    BY <1>1, <2>4 DEF TypedInv
  <2>9. lines[n + 1] < LenMod /\ lines[n + 1] \in Nat
    BY <1>2, <1>9, <2>8 DEF Sayable
  <2>10. \A x, y \in Nat : x < y => x % y = x  OBVIOUS
  <2>. QED  BY <1>2, <2>1, <2>4, <2>7, <2>8, <2>9, <2>10
<1>10. ParsedInv'
  <2>1. Parsed' = Parsed /\ Wrote' = Wrote /\ Consecutive(parsed)'
    BY <1>1, <1>3 DEF Parsed, Wrote, After, ParsedInv, Consecutive
  <2>2. \A i : (Sayable(i)' <=> Sayable(i))  BY <1>3 DEF Sayable
  <2>3. \A i \in DOMAIN parsed : SameMessage(i, i)' <=> SameMessage(i, i)
    BY <1>3 DEF SameMessage
  <2>. QED  BY <1>1, <1>3, <1>9, <2>1, <2>2, <2>3 DEF ParsedInv
<1>. QED  BY <1>6, <1>7, <1>8, <1>10 DEF AnswersInv

LEMMA ServerReadsBody ==
    ASSUME AnswersInv, ServerBody
    PROVE  AnswersInv'
<1>1. EchoClientTypeOK /\ TypedInv /\ ParsedInv /\ AnswerInv  BY DEF AnswersInv
<1>2. /\ typed \in Seq(Message) /\ Len(typed) \in Nat /\ DOMAIN typed = 1 .. Len(typed)
      /\ parsed \in Seq(Message) /\ Len(parsed) \in Nat /\ DOMAIN parsed = 1 .. Len(parsed)
      /\ Len(shown) \in Nat /\ DOMAIN shown = 1 .. Len(shown)
      /\ HeadSize \in Nat \ {0} /\ Wrote \in Nat /\ Parsed \in Nat /\ echoed \in Nat
      /\ LongestBody \in Nat /\ NONE \notin 1 .. LongestBody
  BY <1>1, AnswersFacts
<1> DEFINE n == Len(parsed)
           m == [from |-> Parsed, len |-> due]
           P == [from : Nat, len : 1 .. LongestBody]
<1>3. /\ UNCHANGED <<lines, line, at, typed, taken, want, from, rspLen, shown, serving, echoed>>
      /\ Parsed + HeadSize + due <= Wrote /\ due # NONE /\ due' = NONE
      /\ parsed' = Append(parsed, m)
  BY DEF ServerBody, clientVars
<1>4. due \in 1 .. LongestBody /\ due \in Nat  BY <1>1, <1>2, <1>3 DEF EchoClientTypeOK
<1>5. /\ parsed' \in Seq(Message) /\ Consecutive(parsed') /\ Len(parsed') = n + 1
      /\ parsed'[n + 1] = m /\ \A i \in 1 .. n : parsed'[i] = parsed[i]
      /\ \A i \in 0 .. n : After(parsed', i) = After(parsed, i)
      /\ After(parsed', Len(parsed')) = Parsed + HeadSize + due
  BY <1>1, <1>2, <1>3, <1>4, OneMore DEF Parsed, ParsedInv
<1>6. DOMAIN parsed' = 1 .. n + 1  BY <1>5, LenProperties
<1>7. EchoClientTypeOK'
  <2>1. m \in P  BY <1>2, <1>4
  <2>2. parsed \in Seq(P)  BY <1>1 DEF EchoClientTypeOK
  <2>3. parsed' \in Seq(P)  BY <1>3, <2>1, <2>2, AppendProperties
  <2>. QED  BY <1>1, <1>3, <2>3 DEF EchoClientTypeOK
<1>8. TypedInv'  BY <1>1, <1>3 DEF TypedInv, Consecutive, After, Reading
<1>9. AnswerInv'
  <2>1. Len(shown) <= n /\ \A i \in DOMAIN shown : shown[i] = parsed[i]
    BY <1>1 DEF AnswerInv
  <2>2. Len(shown) <= n + 1 /\ Len(shown) \in 0 .. n  BY <1>2, <2>1
  <2>3. \A i \in DOMAIN shown : shown[i] = parsed'[i]
    <3>1. \A i \in DOMAIN shown : i \in 1 .. n  BY <1>2, <2>1
    <3>. QED  BY <1>5, <2>1, <3>1
  <2>4. After(parsed, Len(shown))' = After(parsed, Len(shown))
    BY <1>3, <1>5, <2>2 DEF After
  <2>5. at = "body" => /\ Len(shown) < n + 1
                       /\ rspLen = parsed'[Len(shown) + 1].len
    <3>1. SUFFICES ASSUME at = "body" PROVE Len(shown) < n + 1 /\ rspLen = parsed'[Len(shown) + 1].len
      OBVIOUS
    <3>2. Len(shown) < n /\ rspLen = parsed[Len(shown) + 1].len
      BY <1>1, <3>1 DEF AnswerInv
    <3>3. Len(shown) + 1 \in 1 .. n  BY <1>2, <3>2
    <3>. QED  BY <1>2, <1>5, <3>2, <3>3
  <2>. QED  BY <1>1, <1>3, <1>5, <2>2, <2>3, <2>4, <2>5 DEF AnswerInv, Reading
<1>10. ParsedInv'
  <2>1. Parsed' = Parsed + HeadSize + due /\ Wrote' = Wrote
    BY <1>3, <1>5 DEF Parsed, Wrote, After
  <2>2. Parsed' <= Wrote' /\ echoed <= Parsed'
    BY <1>1, <1>2, <1>3, <1>4, <2>1 DEF ParsedInv
  <2>3. ASSUME NEW i \in DOMAIN parsed', Sayable(i)
        PROVE  /\ i \in DOMAIN typed
               /\ parsed'[i].from = typed[i].from /\ parsed'[i].len = typed[i].len
    <3>1. CASE i \in 1 .. n
      BY <1>1, <1>2, <1>5, <2>3, <3>1 DEF ParsedInv, SameMessage
    <3>2. CASE i = n + 1
      <4>1. n + 1 \in DOMAIN typed /\ typed[n + 1].len = due
        BY <1>1, <1>3, <2>3, <3>2 DEF ParsedInv
      <4>2. Parsed = After(typed, n)
        <5>1. CASE n = 0  BY <5>1 DEF Parsed, After
        <5>2. CASE n # 0
          <6>1. n \in DOMAIN parsed  BY <1>2, <5>2
          <6>2. Sayable(n)
            <7>1. \A j \in DOMAIN lines : j \in Nat
              <8>1. DOMAIN lines = 1 .. Len(lines) /\ Len(lines) \in Nat  BY <1>1, AnswersFacts
              <8>. QED  BY <8>1
            <7>2. \A j \in DOMAIN lines : j <= n => j <= n + 1  BY <1>2, <7>1
            <7>. QED  BY <2>3, <3>2, <7>2 DEF Sayable
          <6>3. SameMessage(n, n)  BY <1>1, <6>1, <6>2 DEF ParsedInv
          <6>. QED  BY <5>2, <6>3 DEF SameMessage, Parsed, After
        <5>. QED  BY <5>1, <5>2
      <4>3. (n + 1) - 1 = n  BY <1>2
      <4>4. typed[n + 1].from = Parsed
        BY <1>1, <4>1, <4>2, <4>3 DEF TypedInv, Consecutive
      <4>. QED  BY <1>5, <3>2, <4>1, <4>4
    <3>. QED  BY <1>2, <1>6, <3>1, <3>2
  <2>4. \A i : (Sayable(i)' <=> Sayable(i))  BY <1>3 DEF Sayable
  <2>5. \A i \in DOMAIN parsed' : SameMessage(i, i)' <=>
           parsed'[i].from = typed[i].from /\ parsed'[i].len = typed[i].len
    BY <1>3 DEF SameMessage
  <2>6. Consecutive(parsed)'  BY <1>5 DEF Consecutive, After
  <2>. QED  BY <1>3, <2>2, <2>3, <2>4, <2>5, <2>6 DEF ParsedInv
<1>. QED  BY <1>7, <1>8, <1>9, <1>10 DEF AnswersInv

LEMMA ServerWrites ==
    ASSUME AnswersInv, ServerWrite
    PROVE  AnswersInv'
<1>1. EchoClientTypeOK /\ TypedInv /\ ParsedInv /\ AnswerInv  BY DEF AnswersInv
<1>2. taken \in Nat /\ echoed \in Nat /\ Parsed \in Nat  BY <1>1, AnswersFacts
<1>3. /\ UNCHANGED <<lines, line, at, typed, taken, want, from, rspLen, shown, serving,
                     parsed, due>>
      /\ echoed' \in echoed + 1 .. Parsed
  BY DEF ServerWrite, clientVars
<1>4. echoed' \in Nat /\ echoed' > echoed /\ echoed' <= Parsed  BY <1>2, <1>3
<1>5. EchoClientTypeOK'  BY <1>1, <1>3, <1>4 DEF EchoClientTypeOK
<1>6. TypedInv'  BY <1>1, <1>3 DEF TypedInv, Consecutive, After, Reading
<1>7. ParsedInv'
  <2>1. Parsed' = Parsed /\ Wrote' = Wrote /\ Consecutive(parsed)'
    BY <1>1, <1>3 DEF Parsed, Wrote, After, ParsedInv, Consecutive
  <2>2. \A i : (Sayable(i)' <=> Sayable(i))  BY <1>3 DEF Sayable
  <2>3. \A i \in DOMAIN parsed : SameMessage(i, i)' <=> SameMessage(i, i)
    BY <1>3 DEF SameMessage
  <2>. QED  BY <1>1, <1>3, <1>4, <2>1, <2>2, <2>3 DEF ParsedInv
<1>8. AnswerInv'
  <2>1. taken <= echoed'  BY <1>1, <1>2, <1>4 DEF AnswerInv
  <2>. QED  BY <1>1, <1>3, <2>1 DEF AnswerInv, After, Reading
<1>. QED  BY <1>5, <1>6, <1>7, <1>8 DEF AnswersInv

LEMMA AnswersInit == EchoClientInit => AnswersInv
<1> SUFFICES ASSUME EchoClientInit PROVE AnswersInv  OBVIOUS
<1>1. /\ lines \in Seq(Nat) /\ line = 0 /\ at = "prompt" /\ typed = <<>> /\ taken = 0
      /\ want = 0 /\ from = 0 /\ rspLen = 0 /\ shown = <<>> /\ serving = TRUE
      /\ parsed = <<>> /\ due = NONE /\ echoed = 0 /\ lines \in Inputs
  BY ClientAssumption DEF EchoClientInit
<1>2. Len(<<>>) = 0 /\ DOMAIN <<>> = {} /\ \A S : <<>> \in Seq(S)  BY EmptySeq
<1>3. Len(lines) \in Nat  BY <1>1, LenProperties
<1>4. EchoClientTypeOK  BY <1>1, <1>2, <1>3 DEF EchoClientTypeOK
<1>5. DOMAIN typed = {} /\ DOMAIN parsed = {} /\ DOMAIN shown = {}
      /\ Len(typed) = 0 /\ Len(parsed) = 0 /\ Len(shown) = 0
  BY <1>1, <1>2
<1>6. Parsed = 0 /\ Wrote = 0 /\ After(parsed, Len(shown)) = 0
  BY <1>5 DEF Parsed, Wrote, After
<1>7. TypedInv  BY <1>1, <1>5 DEF TypedInv, Consecutive, Reading
<1>8. ParsedInv  BY <1>1, <1>5, <1>6 DEF ParsedInv, Consecutive
<1>9. AnswerInv  BY <1>1, <1>5, <1>6 DEF AnswerInv, Reading
<1>. QED  BY <1>4, <1>7, <1>8, <1>9 DEF AnswersInv

\* Neither the client nor the server leaves the invariant.
LEMMA AnswersStep == AnswersInv /\ [EchoClientNext]_echoClientVars => AnswersInv'
<1> SUFFICES ASSUME AnswersInv, [EchoClientNext]_echoClientVars PROVE AnswersInv'  OBVIOUS
<1>1. CASE UNCHANGED echoClientVars
  <2>1. UNCHANGED <<lines, line, at, typed, taken, want, from, rspLen, shown, serving, parsed,
                    due, echoed>>
    BY <1>1 DEF echoClientVars, clientVars, serverVars
  <2>2. ParsedInv'  BY <2>1, StreamsStay DEF AnswersInv
  <2>. QED  BY <2>1, <2>2 DEF AnswersInv, EchoClientTypeOK, TypedInv, AnswerInv, Consecutive,
                             After, Reading
<1>. QED
  BY <1>1, AnswersBetween, AnswersWrite, AnswersRead, AnswersShow, ServerReadsHead,
     ServerReadsBody, ServerWrites DEF EchoClientNext, ClientProgram, ServerOfClient

\* A client's answers are the messages that the server has cut, and up to the first line
\* whose length 16 bits cannot say they are the lines that were typed, in order.
THEOREM AnswersAreTheLines ==
    EchoClientInit /\ [][EchoClientNext]_echoClientVars => []ShownIsTyped
<1>1. AnswersInv => ShownIsTyped
  <2> SUFFICES ASSUME AnswersInv PROVE ShownIsTyped  OBVIOUS
  <2>1. EchoClientTypeOK /\ TypedInv /\ ParsedInv /\ AnswerInv  BY DEF AnswersInv
  <2>2. /\ Len(shown) \in Nat /\ Len(parsed) \in Nat /\ DOMAIN shown = 1 .. Len(shown)
        /\ DOMAIN parsed = 1 .. Len(parsed)
    BY <2>1, AnswersFacts
  <2>3. Len(shown) <= Len(parsed) /\ \A i \in DOMAIN shown : shown[i] = parsed[i]
    BY <2>1 DEF AnswerInv
  <2>4. ASSUME NEW i \in DOMAIN shown, Sayable(i)
        PROVE  shown[i] = [from |-> typed[i].from, len |-> lines[i]]
    <3>1. i \in DOMAIN parsed  BY <2>2, <2>3
    <3>2. i \in DOMAIN typed /\ SameMessage(i, i)  BY <2>1, <2>4, <3>1 DEF ParsedInv
    <3>3. typed[i].len = lines[i]  BY <2>1, <3>2 DEF TypedInv
    <3>4. shown[i] \in [from : Nat, len : 0 .. LongestBody]
      BY <2>1, <2>2, ElementOfSeq DEF EchoClientTypeOK
    <3>. QED  BY <2>3, <3>2, <3>3, <3>4 DEF SameMessage
  <2>. QED  BY <2>1, <2>3, <2>4 DEF ShownIsTyped
<1>. QED  BY <1>1, AnswersInit, AnswersStep, PTL
=============================================================================
