----------------------------- MODULE SessionProofs -----------------------------
(***************************************************************************)
(* Theorems about Session, for every head and body length, every stream of *)
(* requests, every size of the send buffer and every way of cutting reads  *)
(* and writes: no byte is lost, doubled or overtaken, no edge of epoll is  *)
(* lost, and the connection keeps what EchoService promises of an echo.    *)
(***************************************************************************)
EXTENDS Session, WireProofs

-----------------------------------------------------------------------------
(* The inductive invariants.                                               *)

\* The read loop and send_data run for an open descriptor only, the local queue is empty
\* outside of deal_enque_task, and a hang-up is of the client's making.
PlaceInv ==
    /\ pc \in {"read", "send"} => open
    /\ pc \notin {"deal", "send"} => q = <<>>
    /\ pc = "wait" => batch = {}
    /\ "conn" \in batch /\ "hup" \in evs => peer \in {"reset", "abort"}

CountInv == rd <= sent /\ sent <= Total /\ got <= Len(out)

\* Message i of the stream is the one that is being received.
Receives(i) ==
    /\ i \in DOMAIN starts /\ starts[i] = Received
    /\ stage = "BODY_RECVING" =>
          i \in Messages /\ bodyLen = BodyLen(i) /\ type = starts[i]

\* The state machine: the buffers hold what the stream has from the start of a message
\* on, and the machine asks for more as long as that is not the whole message.
RecvInv ==
    open =>
        /\ stage = "NO_RECV" => head = <<>> /\ body = <<>>
        /\ stage = "HEAD_RECVING" => Len(head) < HeadLen /\ body = <<>>
        /\ stage = "BODY_RECVING" =>
              Len(head) = HeadLen /\ Len(body) < bodyLen /\ bodyLen <= BuffSize
        /\ Received \in Nat
        /\ head = Bytes(Received, Len(head))
        /\ body = Bytes(Received + Len(head), Len(body))
        /\ \E i \in DOMAIN starts : Receives(i)

\* A task carries the type and the body of a message of stream s, of which r bytes are
\* read.
IsReply(s, r, t) ==
    \E i \in 1 .. Len(s) - 1 :
        /\ s[i + 1] <= r
        /\ t.type = s[i]
        /\ t.data = Bytes(s[i] + HeadLen, s[i + 1] - s[i] - HeadLen)

\* A DataBuf is such a message, not written to its end.
IsMessage(s, r, n) ==
    /\ n.off < Len(n.buf)
    /\ \E i \in 1 .. Len(s) - 1 : s[i + 1] <= r /\ n.buf = Bytes(s[i], s[i + 1] - s[i])

RepliesInv ==
    /\ \A i \in DOMAIN tasks : IsReply(starts, rd, tasks[i])
    /\ \A i \in DOMAIN q : IsReply(starts, rd, q[i])
    /\ \A i \in DOMAIN sendQ : IsMessage(starts, rd, sendQ[i])

\* What is unsent, of a send queue s and tasks a before b.
Reply(t) == Bytes(t.type, HeadLen + Len(t.data))

Pieces(s, a, b) ==
    [i \in DOMAIN s |-> NodeRest(s[i])] \o [i \in DOMAIN a |-> Reply(a[i])]
        \o [i \in DOMAIN b |-> Reply(b[i])]

OrderInv ==
    open => out = Bytes(0, Len(out)) /\ InOrder(Pieces(sendQ, q, tasks), Len(out), Received)

\* What is still to come in this batch: a handler that reads, and one that writes.
InDue  == ("conn" \in batch /\ "in" \in evs) \/ pc = "read"
OutDue == ("conn" \in batch \/ pc = "read") /\ "out" \in evs

\* Input is reported or about to be read; and while something is unsent, either the next
\* read of the client's will be reported, or room is reported, or about to be used.
EdgeInv ==
    open =>
        /\ "in" \in interest
        /\ Unread > 0 \/ peer # "up" => ready \/ InDue
        /\ noSpace => Room = 0
        /\ sendQ # <<>> /\ pc # "send" =>
              /\ "out" \in interest
              /\ noSpace \/ pc = "out" \/ (Room > 0 /\ (ready \/ OutDue))

SessionInv ==
    /\ TypeOK
    /\ PlaceInv
    /\ CountInv
    /\ RecvInv
    /\ RepliesInv
    /\ OrderInv
    /\ EdgeInv

-----------------------------------------------------------------------------
(* What is unsent, as a sequence of runs.                                  *)

LEMMA ReplyFacts == ASSUME NEW t \in Task PROVE Reply(t) \in Seq(Nat)
<1>1. t.type \in Nat /\ t.data \in Seq(Nat) /\ Len(t.data) \in Nat
  BY LenProperties DEF Task
<1>2. HeadLen + Len(t.data) \in Nat  BY <1>1, SizesAssumption
<1>. QED  BY <1>1, <1>2, BytesFacts DEF Reply

LEMMA RestFacts == ASSUME NEW n \in Node PROVE NodeRest(n) \in Seq(Nat)
<1>1. n.buf \in Seq(Nat) /\ Len(n.buf) \in Nat /\ n.off \in Nat
  BY LenProperties DEF Node
<1>2. \A i \in n.off + 1 .. Len(n.buf) : n.buf[i] \in Nat
  <2>1. \A i \in n.off + 1 .. Len(n.buf) : i \in 1 .. Len(n.buf)  BY <1>1
  <2>. QED  BY <1>1, <2>1, ElementOfSeq
<1>3. n.off + 1 \in Int /\ Len(n.buf) \in Int  BY <1>1
<1>. QED  BY <1>2, <1>3, SubSeqProperties DEF NodeRest

LEMMA PiecesFacts ==
    ASSUME NEW s \in Seq(Node), NEW a \in Seq(Task), NEW b \in Seq(Task)
    PROVE  /\ Pieces(s, a, b) \in Runs
           /\ Len(Pieces(s, a, b)) = Len(s) + Len(a) + Len(b)
           /\ \A i \in 1 .. Len(s) : Pieces(s, a, b)[i] = NodeRest(s[i])
           /\ \A i \in 1 .. Len(a) : Pieces(s, a, b)[Len(s) + i] = Reply(a[i])
           /\ \A i \in 1 .. Len(b) : Pieces(s, a, b)[Len(s) + Len(a) + i] = Reply(b[i])
<1> DEFINE S == [i \in DOMAIN s |-> NodeRest(s[i])]
           A == [i \in DOMAIN a |-> Reply(a[i])]
           B == [i \in DOMAIN b |-> Reply(b[i])]
<1>1. /\ Len(s) \in Nat /\ DOMAIN s = 1 .. Len(s)
      /\ Len(a) \in Nat /\ DOMAIN a = 1 .. Len(a)
      /\ Len(b) \in Nat /\ DOMAIN b = 1 .. Len(b)
  BY LenProperties
<1>2. /\ \A i \in 1 .. Len(s) : s[i] \in Node
      /\ \A i \in 1 .. Len(a) : a[i] \in Task
      /\ \A i \in 1 .. Len(b) : b[i] \in Task
  BY ElementOfSeq
<1>3. S \in Runs /\ Len(S) = Len(s) /\ \A i \in 1 .. Len(s) : S[i] = NodeRest(s[i])
  <2>1. S \in [1 .. Len(s) -> Seq(Nat)]  BY <1>1, <1>2, RestFacts
  <2>2. S \in Runs  BY <1>1, <2>1, SeqDef DEF Runs
  <2>. QED  BY <1>1, <2>1, <2>2, LenProperties DEF Runs
<1>4. A \in Runs /\ Len(A) = Len(a) /\ \A i \in 1 .. Len(a) : A[i] = Reply(a[i])
  <2>1. A \in [1 .. Len(a) -> Seq(Nat)]  BY <1>1, <1>2, ReplyFacts
  <2>2. A \in Runs  BY <1>1, <2>1, SeqDef DEF Runs
  <2>. QED  BY <1>1, <2>1, <2>2, LenProperties DEF Runs
<1>5. B \in Runs /\ Len(B) = Len(b) /\ \A i \in 1 .. Len(b) : B[i] = Reply(b[i])
  <2>1. B \in [1 .. Len(b) -> Seq(Nat)]  BY <1>1, <1>2, ReplyFacts
  <2>2. B \in Runs  BY <1>1, <2>1, SeqDef DEF Runs
  <2>. QED  BY <1>1, <2>1, <2>2, LenProperties DEF Runs
<1>6. Pieces(s, a, b) = (S \o A) \o B  BY DEF Pieces
<1> HIDE DEF S, A, B
<1>7. /\ S \o A \in Runs /\ Len(S \o A) = Len(s) + Len(a)
      /\ \A i \in 1 .. Len(s) + Len(a) :
            (S \o A)[i] = IF i <= Len(s) THEN S[i] ELSE A[i - Len(s)]
  <2>1. S \in Seq(Seq(Nat)) /\ A \in Seq(Seq(Nat))  BY <1>3, <1>4 DEF Runs
  <2>2. /\ S \o A \in Seq(Seq(Nat)) /\ Len(S \o A) = Len(S) + Len(A)
        /\ \A i \in 1 .. Len(S) + Len(A) :
              (S \o A)[i] = IF i <= Len(S) THEN S[i] ELSE A[i - Len(S)]
    BY <2>1, ConcatProperties
  <2>3. Len(S) = Len(s) /\ Len(A) = Len(a)  BY <1>3, <1>4
  <2>. QED  BY <2>2, <2>3 DEF Runs
<1> DEFINE P == (S \o A) \o B
<1>8. /\ P \in Runs /\ Len(P) = Len(s) + Len(a) + Len(b)
      /\ \A i \in 1 .. Len(s) + Len(a) + Len(b) :
            P[i] = IF i <= Len(s) + Len(a) THEN (S \o A)[i] ELSE B[i - (Len(s) + Len(a))]
  <2> DEFINE C == S \o A
  <2>1. C \in Seq(Seq(Nat)) /\ B \in Seq(Seq(Nat))  BY <1>5, <1>7 DEF Runs
  <2>2. Len(C) = Len(s) + Len(a) /\ Len(B) = Len(b)  BY <1>5, <1>7
  <2> HIDE DEF C
  <2>3. /\ C \o B \in Seq(Seq(Nat)) /\ Len(C \o B) = Len(C) + Len(B)
        /\ \A i \in 1 .. Len(C) + Len(B) :
              (C \o B)[i] = IF i <= Len(C) THEN C[i] ELSE B[i - Len(C)]
    BY <2>1, ConcatProperties
  <2>4. /\ C \o B \in Runs /\ Len(C \o B) = Len(s) + Len(a) + Len(b)
        /\ \A i \in 1 .. Len(s) + Len(a) + Len(b) :
              (C \o B)[i] = IF i <= Len(s) + Len(a) THEN C[i]
                            ELSE B[i - (Len(s) + Len(a))]
    BY <2>2, <2>3 DEF Runs
  <2>. QED  BY <2>4 DEF C
<1> HIDE DEF P
<1>9. \A i \in 1 .. Len(s) : P[i] = NodeRest(s[i])  BY <1>1, <1>3, <1>7, <1>8
<1>10. ASSUME NEW i \in 1 .. Len(a) PROVE P[Len(s) + i] = Reply(a[i])
  <2>1. /\ Len(s) + i \in 1 .. Len(s) + Len(a) + Len(b) /\ Len(s) + i <= Len(s) + Len(a)
        /\ Len(s) + i \in 1 .. Len(s) + Len(a) /\ ~(Len(s) + i <= Len(s))
        /\ (Len(s) + i) - Len(s) = i
    BY <1>1
  <2>. QED  BY <1>4, <1>7, <1>8, <2>1
<1>11. ASSUME NEW i \in 1 .. Len(b) PROVE P[Len(s) + Len(a) + i] = Reply(b[i])
  <2>1. /\ Len(s) + Len(a) + i \in 1 .. Len(s) + Len(a) + Len(b)
        /\ ~(Len(s) + Len(a) + i <= Len(s) + Len(a))
        /\ (Len(s) + Len(a) + i) - (Len(s) + Len(a)) = i
    BY <1>1
  <2>. QED  BY <1>5, <1>8, <2>1
<1>. QED  BY <1>6, <1>8, <1>9, <1>10, <1>11 DEF P

\* Sequences of runs of the same three parts are the same.
SameParts(p, r, k, l, m) ==
    /\ p \in Runs /\ r \in Runs /\ k \in Nat /\ l \in Nat /\ m \in Nat
    /\ Len(p) = k + l + m /\ Len(r) = k + l + m
    /\ \A i \in 1 .. k : p[i] = r[i]
    /\ \A i \in 1 .. l : p[k + i] = r[k + i]
    /\ \A i \in 1 .. m : p[k + l + i] = r[k + l + i]

LEMMA PiecesEqual ==
    ASSUME NEW p, NEW r, NEW k, NEW l, NEW m, SameParts(p, r, k, l, m)
    PROVE  p = r
<1> USE DEF SameParts
<1>1. ASSUME NEW i \in 1 .. Len(p) PROVE p[i] = r[i]
  <2>1. CASE i <= k  BY <2>1
  <2>2. CASE ~(i <= k) /\ i <= k + l
    <3>1. i - k \in 1 .. l /\ k + (i - k) = i  BY <2>2
    <3>2. p[k + (i - k)] = r[k + (i - k)]  BY <3>1
    <3>. QED  BY <3>1, <3>2
  <2>3. CASE ~(i <= k + l)
    <3>1. i - (k + l) \in 1 .. m /\ k + l + (i - (k + l)) = i  BY <2>3
    <3>2. p[k + l + (i - (k + l))] = r[k + l + (i - (k + l))]  BY <3>1
    <3>. QED  BY <3>1, <3>2
  <2>. QED  BY <2>1, <2>2, <2>3
<1>. QED  BY <1>1, SeqEqual DEF Runs

\* Session::Send appends.
LEMMA PiecesPost ==
    ASSUME NEW s \in Seq(Node), NEW a \in Seq(Task), NEW b \in Seq(Task), NEW t \in Task
    PROVE  Pieces(s, a, Append(b, t)) = Append(Pieces(s, a, b), Reply(t))
<1> DEFINE p == Pieces(s, a, b)
           c == Append(b, t)
           w == Pieces(s, a, c)
           r == Append(p, Reply(t))
<1>1. Len(s) \in Nat /\ Len(a) \in Nat /\ Len(b) \in Nat  BY LenProperties
<1>2. /\ c \in Seq(Task) /\ Len(c) = Len(b) + 1 /\ c[Len(b) + 1] = t
      /\ \A i \in 1 .. Len(b) : c[i] = b[i]
  BY AppendProperties
<1> HIDE DEF c
<1>3. /\ p \in Runs /\ Len(p) = Len(s) + Len(a) + Len(b)
      /\ \A i \in 1 .. Len(s) : p[i] = NodeRest(s[i])
      /\ \A i \in 1 .. Len(a) : p[Len(s) + i] = Reply(a[i])
      /\ \A i \in 1 .. Len(b) : p[Len(s) + Len(a) + i] = Reply(b[i])
  BY PiecesFacts
<1>4. /\ w \in Runs /\ Len(w) = Len(s) + Len(a) + Len(c)
      /\ \A i \in 1 .. Len(s) : w[i] = NodeRest(s[i])
      /\ \A i \in 1 .. Len(a) : w[Len(s) + i] = Reply(a[i])
      /\ \A i \in 1 .. Len(c) : w[Len(s) + Len(a) + i] = Reply(c[i])
  BY <1>2, PiecesFacts
<1> HIDE DEF p, w
<1>5. /\ r \in Runs /\ Len(r) = Len(p) + 1
      /\ \A i \in 1 .. Len(p) : r[i] = p[i]
      /\ r[Len(p) + 1] = Reply(t)
  BY <1>3, ReplyFacts, AppendProperties DEF Runs
<1> HIDE DEF r
<1>6. \A i \in 1 .. Len(s) : w[i] = r[i]  BY <1>1, <1>3, <1>4, <1>5
<1>7. ASSUME NEW i \in 1 .. Len(a) PROVE w[Len(s) + i] = r[Len(s) + i]
  <2>1. Len(s) + i \in 1 .. Len(p)  BY <1>1, <1>3
  <2>. QED  BY <1>3, <1>4, <1>5, <2>1
<1>8. ASSUME NEW i \in 1 .. Len(c)
      PROVE  w[Len(s) + Len(a) + i] = r[Len(s) + Len(a) + i]
  <2>1. CASE i = Len(b) + 1
    <3>1. Len(s) + Len(a) + i = Len(p) + 1  BY <1>1, <1>3, <2>1
    <3>. QED  BY <1>2, <1>4, <1>5, <2>1, <3>1
  <2>2. CASE i # Len(b) + 1
    <3>1. i \in 1 .. Len(b) /\ Len(s) + Len(a) + i \in 1 .. Len(p)
      BY <1>1, <1>2, <1>3, <2>2
    <3>. QED  BY <1>2, <1>3, <1>4, <1>5, <3>1
  <2>. QED  BY <2>1, <2>2
<1>9. Len(c) \in Nat /\ Len(r) = Len(s) + Len(a) + Len(c)  BY <1>1, <1>2, <1>3, <1>5
<1>10. SameParts(w, r, Len(s), Len(a), Len(c))
  BY <1>1, <1>4, <1>5, <1>6, <1>7, <1>8, <1>9 DEF SameParts
<1>11. w = r  BY <1>10, PiecesEqual
<1>. QED  BY <1>11 DEF c, p, r, w

\* deal_enque_task swaps the queues.
LEMMA PiecesSwap ==
    ASSUME NEW s \in Seq(Node), NEW b \in Seq(Task)
    PROVE  Pieces(s, b, <<>>) = Pieces(s, <<>>, b)
<1> DEFINE e == <<>>
           p == Pieces(s, e, b)
           w == Pieces(s, b, e)
<1>1. Len(s) \in Nat /\ Len(b) \in Nat /\ e \in Seq(Task) /\ Len(e) = 0
  BY LenProperties, EmptySeq
<1> HIDE DEF e
<1>2. /\ p \in Runs /\ Len(p) = Len(s) + Len(e) + Len(b)
      /\ \A i \in 1 .. Len(s) : p[i] = NodeRest(s[i])
      /\ \A i \in 1 .. Len(b) : p[Len(s) + Len(e) + i] = Reply(b[i])
  BY <1>1, PiecesFacts
<1>3. /\ w \in Runs /\ Len(w) = Len(s) + Len(b) + Len(e)
      /\ \A i \in 1 .. Len(s) : w[i] = NodeRest(s[i])
      /\ \A i \in 1 .. Len(b) : w[Len(s) + i] = Reply(b[i])
  BY <1>1, PiecesFacts
<1> HIDE DEF p, w
<1>4. \A i \in 1 .. Len(b) : Len(s) + Len(e) + i = Len(s) + i  BY <1>1
<1>5. \A i \in 1 .. Len(b) : w[Len(s) + i] = p[Len(s) + i]  BY <1>2, <1>3, <1>4
<1>6. Len(p) = Len(s) + Len(b) + 0 /\ Len(w) = Len(s) + Len(b) + 0  BY <1>1, <1>2, <1>3
<1>7. SameParts(w, p, Len(s), Len(b), 0)
  BY <1>1, <1>2, <1>3, <1>5, <1>6 DEF SameParts
<1>8. w = p  BY <1>7, PiecesEqual
<1>. QED  BY <1>8 DEF e, p, w

\* A task becomes a DataBuf in the send queue.
LEMMA PiecesMove ==
    ASSUME NEW s \in Seq(Node), NEW a \in Seq(Task), NEW b \in Seq(Task), a # <<>>,
           NEW n \in Node, NodeRest(n) = Reply(Head(a))
    PROVE  Pieces(Append(s, n), Tail(a), b) = Pieces(s, a, b)
<1> DEFINE u == Append(s, n)
           d == Tail(a)
           p == Pieces(s, a, b)
           w == Pieces(u, d, b)
<1>1. Len(s) \in Nat /\ Len(a) \in Nat \ {0} /\ Len(b) \in Nat  BY LenProperties, EmptySeq
<1>2. /\ u \in Seq(Node) /\ Len(u) = Len(s) + 1 /\ u[Len(s) + 1] = n
      /\ \A i \in 1 .. Len(s) : u[i] = s[i]
  BY AppendProperties
<1>3. /\ d \in Seq(Task) /\ Len(d) = Len(a) - 1
      /\ \A i \in 1 .. Len(d) : d[i] = a[i + 1]
  BY HeadTailProperties
<1>4. Head(a) = a[1]  BY <1>1
<1> HIDE DEF u, d
<1>5. /\ p \in Runs /\ Len(p) = Len(s) + Len(a) + Len(b)
      /\ \A i \in 1 .. Len(s) : p[i] = NodeRest(s[i])
      /\ \A i \in 1 .. Len(a) : p[Len(s) + i] = Reply(a[i])
      /\ \A i \in 1 .. Len(b) : p[Len(s) + Len(a) + i] = Reply(b[i])
  BY PiecesFacts
<1>6. /\ w \in Runs /\ Len(w) = Len(u) + Len(d) + Len(b)
      /\ \A i \in 1 .. Len(u) : w[i] = NodeRest(u[i])
      /\ \A i \in 1 .. Len(d) : w[Len(u) + i] = Reply(d[i])
      /\ \A i \in 1 .. Len(b) : w[Len(u) + Len(d) + i] = Reply(b[i])
  BY <1>2, <1>3, PiecesFacts
<1> HIDE DEF p, w
<1>7. \A i \in 1 .. Len(s) : w[i] = p[i]  BY <1>1, <1>2, <1>5, <1>6
<1>8. ASSUME NEW i \in 1 .. Len(a) PROVE w[Len(s) + i] = p[Len(s) + i]
  <2>1. CASE i = 1
    <3>1. Len(s) + 1 \in 1 .. Len(u) /\ 1 \in 1 .. Len(a)  BY <1>1, <1>2
    <3>2. w[Len(s) + 1] = NodeRest(n)  BY <1>2, <1>6, <3>1
    <3>3. p[Len(s) + 1] = Reply(a[1])  BY <1>5, <3>1
    <3>. QED  BY <1>4, <2>1, <3>2, <3>3
  <2>2. CASE i # 1
    <3>1. i - 1 \in 1 .. Len(d) /\ Len(u) + (i - 1) = Len(s) + i /\ (i - 1) + 1 = i
      BY <1>1, <1>2, <1>3, <2>2
    <3>2. w[Len(u) + (i - 1)] = Reply(d[i - 1]) /\ d[i - 1] = a[(i - 1) + 1]
      BY <1>3, <1>6, <3>1
    <3>. QED  BY <1>5, <3>1, <3>2
  <2>. QED  BY <2>1, <2>2
<1>9. Len(u) + Len(d) = Len(s) + Len(a)  BY <1>1, <1>2, <1>3
<1>10. \A i \in 1 .. Len(b) : w[Len(s) + Len(a) + i] = p[Len(s) + Len(a) + i]
  BY <1>5, <1>6, <1>9
<1>11. Len(w) = Len(s) + Len(a) + Len(b)  BY <1>6, <1>9
<1>12. SameParts(w, p, Len(s), Len(a), Len(b))
  BY <1>1, <1>5, <1>6, <1>7, <1>8, <1>10, <1>11 DEF SameParts
<1>13. w = p  BY <1>12, PiecesEqual
<1>. QED  BY <1>13 DEF d, p, u, w

\* The first DataBuf is popped.
LEMMA PiecesPop ==
    ASSUME NEW s \in Seq(Node), NEW a \in Seq(Task), NEW b \in Seq(Task), s # <<>>
    PROVE  Pieces(Tail(s), a, b) = Tail(Pieces(s, a, b))
<1> DEFINE u == Tail(s)
           p == Pieces(s, a, b)
           w == Pieces(u, a, b)
           r == Tail(p)
<1>1. Len(s) \in Nat \ {0} /\ Len(a) \in Nat /\ Len(b) \in Nat  BY LenProperties, EmptySeq
<1>2. /\ u \in Seq(Node) /\ Len(u) = Len(s) - 1
      /\ \A i \in 1 .. Len(u) : u[i] = s[i + 1]
  BY HeadTailProperties
<1> HIDE DEF u
<1>3. /\ p \in Runs /\ Len(p) = Len(s) + Len(a) + Len(b)
      /\ \A i \in 1 .. Len(s) : p[i] = NodeRest(s[i])
      /\ \A i \in 1 .. Len(a) : p[Len(s) + i] = Reply(a[i])
      /\ \A i \in 1 .. Len(b) : p[Len(s) + Len(a) + i] = Reply(b[i])
  BY PiecesFacts
<1>4. /\ w \in Runs /\ Len(w) = Len(u) + Len(a) + Len(b)
      /\ \A i \in 1 .. Len(u) : w[i] = NodeRest(u[i])
      /\ \A i \in 1 .. Len(a) : w[Len(u) + i] = Reply(a[i])
      /\ \A i \in 1 .. Len(b) : w[Len(u) + Len(a) + i] = Reply(b[i])
  BY <1>2, PiecesFacts
<1> HIDE DEF p, w
<1>5. p # <<>>  BY <1>1, <1>3, RunFacts
<1>6. /\ r \in Runs /\ Len(r) = Len(p) - 1
      /\ \A i \in 1 .. Len(r) : r[i] = p[i + 1]
  BY <1>3, <1>5, HeadTailProperties DEF Runs
<1> HIDE DEF r
<1>7. Len(u) \in Nat /\ Len(r) = Len(u) + Len(a) + Len(b)  BY <1>1, <1>2, <1>3, <1>6
<1>8. ASSUME NEW i \in 1 .. Len(u) PROVE w[i] = r[i]
  <2>1. i \in 1 .. Len(r) /\ i + 1 \in 1 .. Len(s)  BY <1>1, <1>2, <1>7
  <2>. QED  BY <1>2, <1>3, <1>4, <1>6, <2>1
<1>9. ASSUME NEW i \in 1 .. Len(a) PROVE w[Len(u) + i] = r[Len(u) + i]
  <2>1. Len(u) + i \in 1 .. Len(r) /\ (Len(u) + i) + 1 = Len(s) + i  BY <1>1, <1>2, <1>7
  <2>. QED  BY <1>3, <1>4, <1>6, <2>1
<1>10. ASSUME NEW i \in 1 .. Len(b) PROVE w[Len(u) + Len(a) + i] = r[Len(u) + Len(a) + i]
  <2>1. /\ Len(u) + Len(a) + i \in 1 .. Len(r)
        /\ (Len(u) + Len(a) + i) + 1 = Len(s) + Len(a) + i
    BY <1>1, <1>2, <1>7
  <2>. QED  BY <1>3, <1>4, <1>6, <2>1
<1>11. SameParts(w, r, Len(u), Len(a), Len(b))
  BY <1>1, <1>4, <1>6, <1>7, <1>8, <1>9, <1>10 DEF SameParts
<1>12. w = r  BY <1>11, PiecesEqual
<1>. QED  BY <1>12 DEF p, r, u, w

\* A write of n bytes takes them off the first DataBuf.
LEMMA RestParts ==
    ASSUME NEW m \in Node, m.off <= Len(m.buf), NEW a \in Nat, NEW n \in Nat,
           n <= Len(m.buf) - m.off, NodeRest(m) = Bytes(a, Len(m.buf) - m.off)
    PROVE  /\ SubSeq(m.buf, m.off + 1, m.off + n) = Bytes(a, n)
           /\ NodeRest([m EXCEPT !.off = @ + n]) = Bytes(a + n, Len(m.buf) - m.off - n)
<1> DEFINE b == m.buf
           o == m.off
           l == Len(b)
           e == o + n
           r == SubSeq(b, o + 1, l)
           f == SubSeq(b, o + 1, e)
           d == SubSeq(b, e + 1, l)
<1>1. b \in Seq(Nat) /\ l \in Nat /\ o \in Nat /\ o <= l /\ n <= l - o
  BY LenProperties DEF Node
<1>2. [m EXCEPT !.off = @ + n].buf = b /\ [m EXCEPT !.off = @ + n].off = o + n
  BY DEF Node
<1>3. NodeRest([m EXCEPT !.off = @ + n]) = d  BY <1>2, Zenon DEF NodeRest
<1>4. r = Bytes(a, l - o)  BY DEF NodeRest
<1> HIDE DEF b, o, e, l
<1>0. e \in Nat /\ o <= e /\ e <= l /\ e = o + n  BY <1>1 DEF e
<1>5. \A i \in 1 .. l : b[i] \in Nat  BY <1>1, ElementOfSeq DEF l
<1>6. /\ r \in Seq(Nat) /\ Len(r) = l - o /\ \A i \in 1 .. l - o : r[i] = b[o + i]
  <2>1. \A i \in o + 1 .. l : i \in 1 .. l  BY <1>1
  <2>2. \A i \in o + 1 .. l : b[i] \in Nat  BY <1>5, <2>1
  <2>3. o + 1 \in Int /\ l \in Int  BY <1>1
  <2>4. /\ r \in Seq(Nat) /\ Len(r) = IF o + 1 <= l THEN l - (o + 1) + 1 ELSE 0
        /\ \A i \in 1 .. l - (o + 1) + 1 : r[i] = b[o + 1 + i - 1]
    BY <2>2, <2>3, SubSeqProperties
  <2>. QED  BY <1>1, <2>4
<1>7. /\ f \in Seq(Nat) /\ Len(f) = e - o /\ \A i \in 1 .. e - o : f[i] = b[o + i]
  <2>1. \A i \in o + 1 .. e : i \in 1 .. l  BY <1>0, <1>1
  <2>2. \A i \in o + 1 .. e : b[i] \in Nat  BY <1>5, <2>1
  <2>3. o + 1 \in Int /\ e \in Int  BY <1>0, <1>1
  <2>4. /\ f \in Seq(Nat) /\ Len(f) = IF o + 1 <= e THEN e - (o + 1) + 1 ELSE 0
        /\ \A i \in 1 .. e - (o + 1) + 1 : f[i] = b[o + 1 + i - 1]
    BY <2>2, <2>3, SubSeqProperties
  <2>. QED  BY <1>0, <1>1, <2>4
<1>8. /\ d \in Seq(Nat) /\ Len(d) = l - e /\ \A i \in 1 .. l - e : d[i] = b[e + i]
  <2>1. \A i \in e + 1 .. l : i \in 1 .. l  BY <1>0, <1>1
  <2>2. \A i \in e + 1 .. l : b[i] \in Nat  BY <1>5, <2>1
  <2>3. e + 1 \in Int /\ l \in Int  BY <1>0, <1>1
  <2>4. /\ d \in Seq(Nat) /\ Len(d) = IF e + 1 <= l THEN l - (e + 1) + 1 ELSE 0
        /\ \A i \in 1 .. l - (e + 1) + 1 : d[i] = b[e + 1 + i - 1]
    BY <2>2, <2>3, SubSeqProperties
  <2>. QED  BY <1>0, <1>1, <2>4
<1>9. \A i \in 1 .. l - o : b[o + i] = a + i
  <2>1. l - o \in Nat  BY <1>1
  <2>2. \A i \in 1 .. l - o : Bytes(a, l - o)[i] = a + i  BY <2>1, BytesFacts
  <2>. QED  BY <1>4, <1>6, <2>2
<1> HIDE DEF r, f, d
<1>10. f = Bytes(a, n)
  <2>1. \A i \in 1 .. e - o : i \in 1 .. l - o  BY <1>0, <1>1
  <2>2. \A i \in 1 .. Len(f) : f[i] = a + i  BY <1>7, <1>9, <2>1
  <2>3. Len(f) = n  BY <1>0, <1>1, <1>7
  <2>. QED  BY <1>7, <2>2, <2>3, BytesUnique
<1>11. d = Bytes(a + n, l - o - n)
  <2>1. ASSUME NEW i \in 1 .. Len(d) PROVE d[i] = (a + n) + i
    <3>1. n + i \in 1 .. l - o /\ e + i = o + (n + i)  BY <1>0, <1>1, <1>8
    <3>2. b[o + (n + i)] = a + (n + i)  BY <1>9, <3>1
    <3>3. d[i] = b[e + i]  BY <1>8
    <3>. QED  BY <3>1, <3>2, <3>3
  <2>2. a + n \in Nat  OBVIOUS
  <2>3. d = Bytes(a + n, Len(d))  BY <1>8, <2>1, <2>2, BytesUnique
  <2>4. Len(d) = l - o - n  BY <1>0, <1>1, <1>8
  <2>. QED  BY <2>3, <2>4
<1>. QED  BY <1>3, <1>10, <1>11 DEF b, o, e, l, f, d

LEMMA PiecesCut ==
    ASSUME NEW s \in Seq(Node), NEW a \in Seq(Task), NEW b \in Seq(Task), s # <<>>,
           s[1].off < Len(s[1].buf),
           NEW from \in Nat, NEW end \in Nat, InOrder(Pieces(s, a, b), from, end),
           NEW n \in Nat, n < Len(s[1].buf) - s[1].off
    PROVE  InOrder(Pieces([s EXCEPT ![1].off = @ + n], a, b), from + n, end)
<1> DEFINE m == s[1]
           v == [m EXCEPT !.off = @ + n]
           u == [s EXCEPT ![1].off = @ + n]
           l == Len(m.buf) - m.off
           p == Pieces(s, a, b)
           w == Pieces(u, a, b)
<1>1. Len(s) \in Nat \ {0} /\ Len(a) \in Nat /\ Len(b) \in Nat /\ DOMAIN s = 1 .. Len(s)
  BY LenProperties, EmptySeq
<1>2. m \in Node  BY <1>1, ElementOfSeq
<1> HIDE DEF m
<1>3. v \in Node
  <2>1. m.off + n \in Nat  BY <1>2 DEF Node
  <2>. QED  BY <1>2, <2>1 DEF Node
<1>4. /\ u \in Seq(Node) /\ Len(u) = Len(s) /\ u[1] = v
      /\ \A i \in 2 .. Len(s) : u[i] = s[i]
  <2>1. 1 \in 1 .. Len(s) /\ u = [s EXCEPT ![1] = v]  BY <1>1 DEF m
  <2> HIDE DEF u, v
  <2>2. u \in Seq(Node) /\ Len(u) = Len(s)  BY <1>3, <2>1, ExceptSeq
  <2>. QED  BY <1>1, <2>1, <2>2
<1>5. l \in Nat /\ l # 0 /\ n <= l /\ m.off <= Len(m.buf)
  BY <1>2, LenProperties DEF Node, m
<1> HIDE DEF u, v
<1>6. /\ p \in Runs /\ Len(p) = Len(s) + Len(a) + Len(b)
      /\ \A i \in 1 .. Len(s) : p[i] = NodeRest(s[i])
      /\ \A i \in 1 .. Len(a) : p[Len(s) + i] = Reply(a[i])
      /\ \A i \in 1 .. Len(b) : p[Len(s) + Len(a) + i] = Reply(b[i])
  BY PiecesFacts
<1>7. /\ w \in Runs /\ Len(w) = Len(u) + Len(a) + Len(b)
      /\ \A i \in 1 .. Len(u) : w[i] = NodeRest(u[i])
      /\ \A i \in 1 .. Len(a) : w[Len(u) + i] = Reply(a[i])
      /\ \A i \in 1 .. Len(b) : w[Len(u) + Len(a) + i] = Reply(b[i])
  BY <1>4, PiecesFacts
<1>8. InOrder(p, from, end)  OBVIOUS
<1> HIDE DEF p, w
<1>9. p # <<>> /\ Len(w) = Len(p)  BY <1>1, <1>4, <1>6, <1>7, RunFacts
<1>10. p[1] = NodeRest(m) /\ w[1] = NodeRest(v)  BY <1>1, <1>4, <1>6, <1>7 DEF m
<1>11. p[1] = Bytes(from, Len(p[1])) /\ Len(p[1]) \in Nat  BY <1>6, <1>8, <1>9, FirstRun
<1>12. Len(p[1]) = l /\ NodeRest(m) = Bytes(from, l)
  <2>1. m.buf \in Seq(Nat) /\ m.off \in Nat /\ Len(m.buf) \in Nat
    BY <1>2, LenProperties DEF Node
  <2>2. \A i \in m.off + 1 .. Len(m.buf) : m.buf[i] \in Nat
    <3>1. \A i \in m.off + 1 .. Len(m.buf) : i \in 1 .. Len(m.buf)  BY <2>1
    <3>. QED  BY <2>1, <3>1, ElementOfSeq
  <2>3. m.off + 1 \in Int /\ Len(m.buf) \in Int  BY <2>1
  <2>4. Len(NodeRest(m)) = IF m.off + 1 <= Len(m.buf)
                           THEN Len(m.buf) - (m.off + 1) + 1 ELSE 0
    BY <2>2, <2>3, SubSeqProperties DEF NodeRest
  <2>5. Len(NodeRest(m)) = l  BY <1>5, <2>1, <2>4
  <2>. QED  BY <1>10, <1>11, <2>5
<1>13. NodeRest(v) = Bytes(from + n, l - n)
  <2>1. n <= Len(m.buf) - m.off /\ NodeRest(m) = Bytes(from, Len(m.buf) - m.off)
    BY <1>5, <1>12
  <2>. QED  BY <1>2, <1>5, <2>1, RestParts DEF v
<1>14. w[1] = SubSeq(p[1], n + 1, Len(p[1]))
  <2>1. n \in 0 .. l /\ l \in n .. l  BY <1>5
  <2> HIDE DEF l
  <2>2. SubSeq(Bytes(from, l), n + 1, l) = Bytes(from + n, l - n)
    BY <1>5, <2>1, BytesCut
  <2>. QED  BY <1>10, <1>12, <1>13, <2>2
<1>15. \A i \in 2 .. Len(p) : w[i] = p[i]
  <2> SUFFICES ASSUME NEW i \in 2 .. Len(p) PROVE w[i] = p[i]  OBVIOUS
  <2>1. CASE i <= Len(s)
    <3>1. i \in 2 .. Len(s) /\ i \in 1 .. Len(s) /\ i \in 1 .. Len(u)
      BY <1>1, <1>4, <2>1
    <3>. QED  BY <1>4, <1>6, <1>7, <3>1
  <2>2. CASE ~(i <= Len(s)) /\ i <= Len(s) + Len(a)
    <3>1. i - Len(s) \in 1 .. Len(a) /\ Len(s) + (i - Len(s)) = i  BY <1>1, <2>2
    <3>2. p[Len(s) + (i - Len(s))] = w[Len(s) + (i - Len(s))]
      BY <1>4, <1>6, <1>7, <3>1
    <3>. QED  BY <3>1, <3>2
  <2>3. CASE ~(i <= Len(s) + Len(a))
    <3> DEFINE j == i - (Len(s) + Len(a))
    <3>1. j \in 1 .. Len(b) /\ Len(s) + Len(a) + j = i  BY <1>1, <1>6, <2>3
    <3> HIDE DEF j
    <3>2. p[Len(s) + Len(a) + j] = w[Len(s) + Len(a) + j]
      BY <1>4, <1>6, <1>7, <3>1
    <3>. QED  BY <3>1, <3>2
  <2>. QED  BY <2>1, <2>2, <2>3
<1>16. n < Len(p[1])  BY <1>12 DEF m
<1>17. InOrder(w, from + n, end)
  BY <1>6, <1>7, <1>8, <1>9, <1>14, <1>15, <1>16, RunsCut
<1>. QED  BY <1>17 DEF u, w

-----------------------------------------------------------------------------
(* The state machine.                                                      *)

LEMMA SizesFacts ==
    ASSUME TypeOK
    PROVE  /\ HeadLen \in Nat \ {0} /\ BuffSize \in Nat /\ SendRoom \in Nat \ {0}
           /\ Len(head) \in Nat /\ Len(body) \in Nat /\ Len(out) \in Nat
           /\ rd \in Nat /\ sent \in Nat /\ got \in Nat /\ bodyLen \in Nat
           /\ starts \in Streams
BY SizesAssumption, LenProperties DEF TypeOK, WireTypeOK

\* What a read of a head gets.
LEMMA HeadRead ==
    ASSUME TypeOK, CountInv, RecvInv, open, stage # "BODY_RECVING", ReadLen > 0
    PROVE  /\ ReadLen \in Nat \ {0} /\ rd + ReadLen <= sent
           /\ Remain = HeadLen - Len(head) /\ Len(head) < HeadLen /\ ReadLen <= Remain
           /\ body = <<>> /\ rd = Received + Len(head) /\ Received \in Nat
           /\ head \o Bytes(rd, ReadLen) = Bytes(Received, Len(head) + ReadLen)
<1>1. /\ body = <<>> /\ Len(head) < HeadLen
      /\ Received \in Nat /\ head = Bytes(Received, Len(head))
  <2>1. stage \in {"NO_RECV", "HEAD_RECVING"}  BY DEF TypeOK
  <2>. QED  BY <2>1, SizesFacts, EmptySeq DEF RecvInv
<1>2. rd = Received + Len(head)
  <2>1. Len(body) = 0  BY <1>1, EmptySeq
  <2>. QED  BY <2>1, SizesFacts DEF Received
<1>3. Remain = HeadLen - Len(head)  BY DEF Remain
<1>4. ReadLen \in Nat \ {0} /\ rd + ReadLen <= sent /\ ReadLen <= Remain
  BY <1>1, <1>3, SizesFacts DEF CountInv, ReadLen, Unread
<1>5. head \o Bytes(rd, ReadLen) = Bytes(Received, Len(head) + ReadLen)
  <2> DEFINE a == Received
             m == Len(head)
             n == ReadLen
  <2>1. a \in Nat /\ m \in Nat /\ n \in Nat  BY <1>1, <1>4, SizesFacts
  <2>2. head = Bytes(a, m) /\ rd = a + m  BY <1>1, <1>2
  <2> HIDE DEF a, m, n
  <2>3. Bytes(a, m) \o Bytes(a + m, n) = Bytes(a, m + n)  BY <2>1, BytesJoin
  <2>4. head \o Bytes(rd, n) = Bytes(a, m + n)  BY <2>2, <2>3, Zenon
  <2>. QED  BY <2>4 DEF a, m, n
<1>. QED  BY <1>1, <1>2, <1>3, <1>4, <1>5

\* A whole head is the head of a message of the stream.
LEMMA HeadWhole ==
    ASSUME TypeOK, CountInv, RecvInv, open, stage # "BODY_RECVING", ReadLen > 0,
           ReadLen = Remain
    PROVE  LET h == head \o Bytes(rd, ReadLen)
           IN  \E i \in Messages :
                   /\ starts[i] = Received /\ starts[i] \in Nat /\ BodyLen(i) \in Nat
                   /\ rd + ReadLen = starts[i] + HeadLen
                   /\ h = Bytes(starts[i], HeadLen) /\ Len(h) = HeadLen /\ h \in Seq(Nat)
                   /\ ParseLen(h) = BodyLen(i)
                   /\ h[1] - 1 = starts[i]
<1> DEFINE h == head \o Bytes(rd, ReadLen)
<1>1. PICK i \in DOMAIN starts : starts[i] = Received  BY DEF RecvInv, Receives
<1>2. starts \in Streams /\ HeadLen \in Nat \ {0}  BY SizesFacts
<1>3. starts[i] \in Nat /\ rd + ReadLen = starts[i] + HeadLen
  BY <1>1, HeadRead, SizesFacts
<1>4. h = Bytes(starts[i], HeadLen)
  <2>1. Len(head) + ReadLen = HeadLen  BY HeadRead, SizesFacts
  <2>. QED  BY <1>1, <2>1, HeadRead
<1>5. i \in Messages
  <2>1. starts[i] < Total
    BY <1>2, <1>3, HeadRead, SizesFacts, StreamFacts DEF CountInv
  <2>. QED  BY <1>1, <1>2, <2>1, StreamFacts
<1> HIDE DEF h
<1>6. ParseLen(h) = BodyLen(i) /\ BodyLen(i) \in Nat
  BY <1>2, <1>4, <1>5, HeadIsParsed, StreamFacts
<1>7. h \in Seq(Nat) /\ Len(h) = HeadLen /\ h[1] = starts[i] + 1
  <2>1. 1 \in 1 .. HeadLen  BY <1>2
  <2>. QED  BY <1>2, <1>3, <1>4, <2>1, BytesFacts
<1>8. h[1] - 1 = starts[i]  BY <1>3, <1>7
<1>9. /\ i \in Messages /\ starts[i] = Received /\ starts[i] \in Nat /\ BodyLen(i) \in Nat
      /\ rd + ReadLen = starts[i] + HeadLen
      /\ h = Bytes(starts[i], HeadLen) /\ Len(h) = HeadLen /\ h \in Seq(Nat)
      /\ ParseLen(h) = BodyLen(i)
      /\ h[1] - 1 = starts[i]
  BY <1>1, <1>3, <1>4, <1>5, <1>6, <1>7, <1>8
<1>. QED  BY <1>9 DEF h

\* What a read of a body gets.
LEMMA BodyRead ==
    ASSUME TypeOK, CountInv, RecvInv, open, stage = "BODY_RECVING", ReadLen > 0
    PROVE  LET b == body \o Bytes(rd, ReadLen)
           IN  /\ ReadLen \in Nat \ {0} /\ rd + ReadLen <= sent
               /\ Remain = bodyLen - Len(body) /\ Len(body) < bodyLen /\ ReadLen <= Remain
               /\ bodyLen \in Nat /\ bodyLen <= BuffSize /\ Len(head) = HeadLen
               /\ Received \in Nat /\ head = Bytes(Received, HeadLen)
               /\ rd = Received + HeadLen + Len(body)
               /\ b = Bytes(Received + HeadLen, Len(body) + ReadLen)
               /\ b \in Seq(Nat) /\ Len(b) = Len(body) + ReadLen
               /\ \E i \in Messages :
                      /\ starts[i] = Received /\ bodyLen = BodyLen(i) /\ type = starts[i]
                      /\ starts[i + 1] = Received + HeadLen + bodyLen
<1>1. /\ Len(head) = HeadLen /\ Len(body) < bodyLen /\ bodyLen <= BuffSize
      /\ Received \in Nat /\ head = Bytes(Received, HeadLen)
      /\ body = Bytes(Received + HeadLen, Len(body))
      /\ \E i \in DOMAIN starts : Receives(i)
  BY DEF RecvInv
<1>2. rd = Received + HeadLen + Len(body)  BY <1>1, SizesFacts DEF Received
<1>3. Remain = bodyLen - Len(body)  BY DEF Remain
<1>4. ReadLen \in Nat \ {0} /\ rd + ReadLen <= sent /\ ReadLen <= Remain
  BY <1>1, <1>3, SizesFacts DEF CountInv, ReadLen, Unread
<1> DEFINE a == Received + HeadLen
           m == Len(body)
           n == ReadLen
<1>5. a \in Nat /\ m \in Nat /\ n \in Nat /\ m + n \in Nat  BY <1>1, <1>4, SizesFacts
<1>6. body = Bytes(a, m) /\ rd = a + m  BY <1>1, <1>2
<1> HIDE DEF a, m, n
<1>7. Bytes(a, m) \o Bytes(a + m, n) = Bytes(a, m + n)  BY <1>5, BytesJoin
<1>8. body \o Bytes(rd, n) = Bytes(a, m + n)  BY <1>6, <1>7, Zenon
<1>9. Bytes(a, m + n) \in Seq(Nat) /\ Len(Bytes(a, m + n)) = m + n  BY <1>5, BytesFacts
<1>10. /\ body \o Bytes(rd, ReadLen) = Bytes(Received + HeadLen, Len(body) + ReadLen)
       /\ body \o Bytes(rd, ReadLen) \in Seq(Nat)
       /\ Len(body \o Bytes(rd, ReadLen)) = Len(body) + ReadLen
  BY <1>8, <1>9, Zenon DEF a, m, n
<1>11. PICK i \in Messages : starts[i] = Received /\ bodyLen = BodyLen(i) /\ type = starts[i]
  BY <1>1 DEF Receives
<1>12. starts[i + 1] = Received + HeadLen + bodyLen
  <2>1. starts[i] \in Nat /\ starts[i + 1] \in Nat /\ HeadLen \in Nat
    BY SizesFacts, StreamFacts
  <2>. QED  BY <1>11, <2>1 DEF BodyLen
<1>. QED  BY <1>1, <1>2, <1>3, <1>4, <1>10, <1>11, <1>12, SizesFacts

\* Nobody but the reads takes bytes off the connection or moves the state machine, and
\* nobody opens a connection that is closed.
LEMMA OtherSteps ==
    ASSUME [Next]_vars, ~ReadPartOfHead, ~ReadHead, ~ReadBody
    PROVE  UNCHANGED <<starts, rd, recvVars>> /\ (open' => open)
<1>1. CASE UNCHANGED vars  BY <1>1 DEF vars, wireVars, netVars, recvVars
<1>2. CASE ClientStep
  BY <1>2 DEF ClientStep, PeerStep, PeerSend, PeerRead, PeerEnd, recvVars
<1>3. CASE EpollWait \/ EndBatch \/ HupEvent \/ ConnEvent \/ BellEvent
  BY <1>3 DEF EpollWait, EndBatch, HupEvent, ConnEvent, BellEvent, CloseFd,
              wireVars, netVars, recvVars
<1>4. CASE ReadEagain \/ ReadEnds
  BY <1>4 DEF ReadEagain, ReadEnds, Reading, CloseFd, netVars, recvVars
<1>5. CASE SendTask \/ Dealt
  BY <1>5 DEF SendTask, Dealt, wireVars, netVars, recvVars
<1>6. CASE SendWrite \/ SendEagain \/ SendError \/ SendDone
  BY <1>6 DEF SendWrite, SendEagain, SendError, SendDone, WriteSome, WriteSigpipe,
              Writing, CloseFd, netVars, recvVars
<1>7. CASE OutWrite \/ OutEagain \/ OutError \/ OutDone \/ OutOnCleared
  BY <1>7 DEF OutWrite, OutEagain, OutError, OutDone, OutOnCleared, WriteSome,
              WriteSigpipe, Writing, CloseFd, netVars, recvVars
<1>. QED  BY <1>1, <1>2, <1>3, <1>4, <1>5, <1>6, <1>7 DEF Next, ServerStep

\* A step of the state machine leaves it in front of what it has not read: a whole
\* message is passed over, a part of one is kept.
LEMMA HeadStep ==
    ASSUME SessionInv, ReadPartOfHead, open
    PROVE  /\ UNCHANGED <<starts, open, body, bodyLen, type, tasks, q, sendQ, out>>
           /\ stage' = "HEAD_RECVING" /\ Received' = Received
           /\ rd' \in Nat /\ rd < rd' /\ rd' <= sent
           /\ head' = Bytes(Received, Len(head')) /\ head' \in Seq(Nat)
           /\ Len(head') < HeadLen /\ body = <<>> /\ open'
<1>1. TypeOK /\ CountInv /\ RecvInv  BY DEF SessionInv
<1>2. /\ UNCHANGED <<starts, open, body, bodyLen, type, tasks, q, sendQ, out>>
      /\ stage' = "HEAD_RECVING" /\ stage # "BODY_RECVING"
      /\ ReadLen > 0 /\ ReadLen < Remain
      /\ rd' = rd + ReadLen /\ head' = head \o Bytes(rd, ReadLen)
  BY DEF ReadPartOfHead, Reading, edgeVars, netVars
<1>3. /\ ReadLen \in Nat \ {0} /\ rd + ReadLen <= sent
      /\ Remain = HeadLen - Len(head) /\ body = <<>>
      /\ rd = Received + Len(head) /\ Received \in Nat
      /\ head' = Bytes(Received, Len(head) + ReadLen)
  BY <1>1, <1>2, HeadRead
<1>4. rd' \in Nat /\ rd < rd' /\ rd' <= sent  BY <1>1, <1>2, <1>3, SizesFacts
<1> DEFINE a == Received
           n == Len(head) + ReadLen
<1>5. a \in Nat /\ n \in Nat /\ n < HeadLen
  BY <1>1, <1>2, <1>3, SizesFacts
<1>6. head' \in Seq(Nat) /\ Len(head') = n
  <2>1. head' = Bytes(a, n)  BY <1>3
  <2> HIDE DEF a, n
  <2>. QED  BY <1>5, <2>1, BytesFacts
<1>7. head' = Bytes(Received, Len(head'))  BY <1>3, <1>6
<1>8. Received' = Received
  <2>1. Len(body') = 0  BY <1>2, <1>3, EmptySeq
  <2>2. Received' = rd' - Len(head')  BY <1>2, <1>4, <1>5, <1>6, <2>1 DEF Received
  <2>. QED  BY <1>1, <1>2, <1>3, <1>6, <2>2, SizesFacts
<1>. QED  BY <1>2, <1>3, <1>4, <1>5, <1>6, <1>7, <1>8

\* The message i is read to its end, and task t is its reply.
Completes(i, t) ==
    /\ starts[i] = Received /\ starts[i + 1] = Received' /\ Received' = rd'
    /\ t = [type |-> starts[i], data |-> Bytes(starts[i] + HeadLen, BodyLen(i))]
    /\ tasks' = Append(tasks, t)
    /\ event' = TRUE
    /\ stage' = "NO_RECV" /\ head' = <<>> /\ body' = <<>>

WholeHeadStep(i) ==
    \/ ~open' /\ ~ready' /\ interest' = {} /\ pc' = AfterRead /\ BodyLen(i) > BuffSize
       /\ UNCHANGED <<event, tasks, recvVars>>
    \/ BodyLen(i) = 0 /\ (\E t : Completes(i, t))
       /\ UNCHANGED <<pc, edgeVars, open, bodyLen, type>>
    \/ /\ stage' = "BODY_RECVING" /\ Received' = Received
       /\ head' = Bytes(Received, HeadLen) /\ head' \in Seq(Nat) /\ Len(head') = HeadLen
       /\ body' = <<>> /\ type' = starts[i]
       /\ bodyLen' = BodyLen(i) /\ bodyLen' > 0 /\ bodyLen' <= BuffSize
       /\ UNCHANGED <<pc, edgeVars, event, tasks, open>>

LEMMA WholeHead ==
    ASSUME SessionInv, ReadHead, open
    PROVE  /\ UNCHANGED <<netVars, out, noSpace, alive, batch, evs, q, sendQ>>
           /\ rd' \in Nat /\ rd < rd' /\ rd' <= sent
           /\ \E i \in Messages :
                 /\ starts[i] = Received /\ rd' = starts[i] + HeadLen
                 /\ WholeHeadStep(i)
<1>1. TypeOK /\ CountInv /\ RecvInv  BY DEF SessionInv
<1> DEFINE h == head \o Bytes(rd, ReadLen)
<1>2. /\ UNCHANGED <<netVars, out, noSpace, alive, batch, evs, q, sendQ>>
      /\ stage # "BODY_RECVING" /\ ReadLen > 0 /\ ReadLen = Remain
      /\ rd' = rd + ReadLen
      /\ \/ ParseLen(h) > BuffSize /\ CloseFd /\ pc' = AfterRead
            /\ UNCHANGED <<event, tasks, recvVars>>
         \/ ParseLen(h) = 0 /\ Send(h[1] - 1, <<>>) /\ NextMessage
            /\ UNCHANGED <<pc, edgeVars, open>>
         \/ /\ ParseLen(h) \in 1 .. BuffSize
            /\ stage' = "BODY_RECVING" /\ head' = h /\ body' = <<>>
            /\ bodyLen' = ParseLen(h) /\ type' = h[1] - 1
            /\ UNCHANGED <<pc, edgeVars, event, tasks, open>>
  BY DEF ReadHead, Reading
<1>3. rd' \in Nat /\ rd < rd' /\ rd' <= sent  BY <1>1, <1>2, HeadRead, SizesFacts
<1>4. PICK i \in Messages :
          /\ starts[i] = Received /\ starts[i] \in Nat /\ BodyLen(i) \in Nat
          /\ rd + ReadLen = starts[i] + HeadLen
          /\ h = Bytes(starts[i], HeadLen) /\ Len(h) = HeadLen /\ h \in Seq(Nat)
          /\ ParseLen(h) = BodyLen(i)
          /\ h[1] - 1 = starts[i]
  BY <1>1, <1>2, HeadWhole
<1> HIDE DEF h
<1>5. HeadLen \in Nat \ {0} /\ BuffSize \in Nat /\ starts \in Streams  BY <1>1, SizesFacts
<1>6. CASE ParseLen(h) > BuffSize /\ CloseFd /\ pc' = AfterRead
           /\ UNCHANGED <<event, tasks, recvVars>>
  <2>1. WholeHeadStep(i)  BY <1>4, <1>6 DEF WholeHeadStep, CloseFd
  <2>. QED  BY <1>2, <1>3, <1>4, <2>1
<1>7. CASE ParseLen(h) = 0 /\ Send(h[1] - 1, <<>>) /\ NextMessage
           /\ UNCHANGED <<pc, edgeVars, open>>
  <2> DEFINE t == [type |-> starts[i], data |-> Bytes(starts[i] + HeadLen, BodyLen(i))]
  <2>1. BodyLen(i) = 0 /\ h[1] - 1 = starts[i]  BY <1>4, <1>7
  <2>2. Bytes(starts[i] + HeadLen, BodyLen(i)) = <<>>
    <3>1. starts[i] + HeadLen \in Nat  BY <1>4, <1>5
    <3>. QED  BY <2>1, <3>1, BytesFacts
  <2>3. /\ tasks' = Append(tasks, [type |-> starts[i], data |-> <<>>])
        /\ event' = TRUE /\ stage' = "NO_RECV" /\ head' = <<>> /\ body' = <<>>
    BY <1>7, <2>1 DEF Send, NextMessage
  <2>4. Received' = starts[i + 1] /\ Received' = rd'
    <3>1. Len(head') = 0 /\ Len(body') = 0  BY <2>3, EmptySeq
    <3>2. Received' = rd'
      <4>1. Received' = rd' - Len(head') - Len(body')  BY DEF Received
      <4>2. rd' \in Nat  BY <1>3
      <4>3. \A x \in Nat : x - 0 - 0 = x  OBVIOUS
      <4>. QED  BY <3>1, <4>1, <4>2, <4>3
    <3>3. starts[i + 1] \in Nat  BY <1>5, StreamFacts
    <3>. QED  BY <1>2, <1>4, <1>5, <2>1, <3>2, <3>3 DEF BodyLen
  <2>5. tasks' = Append(tasks, t)  BY <2>2, <2>3
  <2>6. Completes(i, t)  BY <1>4, <2>3, <2>4, <2>5 DEF Completes
  <2> HIDE DEF t
  <2>7. UNCHANGED <<bodyLen, type>>  BY <1>7 DEF NextMessage
  <2>8. WholeHeadStep(i)  BY <1>7, <2>1, <2>6, <2>7 DEF WholeHeadStep
  <2>. QED  BY <1>2, <1>3, <1>4, <2>8
<1>8. CASE /\ ParseLen(h) \in 1 .. BuffSize
           /\ stage' = "BODY_RECVING" /\ head' = h /\ body' = <<>>
           /\ bodyLen' = ParseLen(h) /\ type' = h[1] - 1
           /\ UNCHANGED <<pc, edgeVars, event, tasks, open>>
  <2>1. Received' = Received
    <3>1. Len(head') = HeadLen /\ Len(body') = 0  BY <1>4, <1>8, EmptySeq
    <3>. QED  BY <1>2, <1>3, <1>4, <1>5, <3>1 DEF Received
  <2>2. WholeHeadStep(i)  BY <1>4, <1>5, <1>8, <2>1 DEF WholeHeadStep
  <2>. QED  BY <1>2, <1>3, <1>4, <2>2
<1>. QED  BY <1>2, <1>6, <1>7, <1>8

WholeBodyStep(i) ==
    \/ /\ Received' = Received /\ body' = Bytes(Received + HeadLen, Len(body'))
       /\ body' \in Seq(Nat) /\ Len(body') < bodyLen
       /\ UNCHANGED <<stage, head, bodyLen, type, event, tasks>>
    \/ (\E t : Completes(i, t)) /\ UNCHANGED <<bodyLen, type>>

LEMMA BodyStep ==
    ASSUME SessionInv, ReadBody, open
    PROVE  /\ UNCHANGED <<netVars, out, noSpace, alive, batch, evs, q, sendQ,
                          pc, edgeVars, open>>
           /\ rd' \in Nat /\ rd < rd' /\ rd' <= sent
           /\ stage = "BODY_RECVING"
           /\ \E i \in Messages : starts[i] = Received /\ WholeBodyStep(i)
<1>1. TypeOK /\ CountInv /\ RecvInv  BY DEF SessionInv
<1> DEFINE b == body \o Bytes(rd, ReadLen)
<1>2. /\ UNCHANGED <<netVars, out, noSpace, alive, batch, evs, q, sendQ, pc, edgeVars, open>>
      /\ stage = "BODY_RECVING" /\ ReadLen > 0
      /\ rd' = rd + ReadLen
      /\ \/ ReadLen < Remain /\ body' = b
            /\ UNCHANGED <<stage, head, bodyLen, type, event, tasks>>
         \/ ~(ReadLen < Remain) /\ Send(type, b) /\ NextMessage
  BY DEF ReadBody, Reading
<1>3. /\ ReadLen \in Nat \ {0} /\ rd + ReadLen <= sent
      /\ Remain = bodyLen - Len(body) /\ Len(body) < bodyLen /\ ReadLen <= Remain
      /\ bodyLen \in Nat /\ bodyLen <= BuffSize /\ Len(head) = HeadLen
      /\ Received \in Nat /\ rd = Received + HeadLen + Len(body)
      /\ b = Bytes(Received + HeadLen, Len(body) + ReadLen)
      /\ b \in Seq(Nat) /\ Len(b) = Len(body) + ReadLen
  BY <1>1, <1>2, BodyRead
<1>4. PICK i \in Messages :
          /\ starts[i] = Received /\ bodyLen = BodyLen(i) /\ type = starts[i]
          /\ starts[i + 1] = Received + HeadLen + bodyLen
  BY <1>1, <1>2, BodyRead
<1> HIDE DEF b
<1>0. /\ HeadLen \in Nat /\ rd \in Nat /\ sent \in Nat
      /\ Len(head) \in Nat /\ Len(body) \in Nat
  BY <1>1, SizesFacts
<1>5. rd' \in Nat /\ rd < rd' /\ rd' <= sent  BY <1>0, <1>2, <1>3
<1>6. CASE ReadLen < Remain /\ body' = b
           /\ UNCHANGED <<stage, head, bodyLen, type, event, tasks>>
  <2>1. Len(body') = Len(body) + ReadLen /\ Len(body') < bodyLen
    BY <1>1, <1>3, <1>6, SizesFacts
  <2>2. body' = Bytes(Received + HeadLen, Len(body')) /\ body' \in Seq(Nat)
    BY <1>3, <1>6, <2>1
  <2>3. Received' = Received
    <3>1. Received' = rd' - Len(head') - Len(body')  BY DEF Received
    <3>. QED  BY <1>0, <1>2, <1>3, <1>6, <2>1, <3>1
  <2>4. WholeBodyStep(i)  BY <1>6, <2>1, <2>2, <2>3 DEF WholeBodyStep
  <2>. QED  BY <1>2, <1>4, <1>5, <2>4
<1>7. CASE ~(ReadLen < Remain) /\ Send(type, b) /\ NextMessage
  <2> DEFINE t == [type |-> starts[i], data |-> Bytes(starts[i] + HeadLen, BodyLen(i))]
  <2>1. ReadLen = Remain /\ Len(body) + ReadLen = BodyLen(i)
    <3>1. ReadLen = Remain  BY <1>0, <1>3, <1>7
    <3>2. Len(body) + ReadLen = bodyLen  BY <1>0, <1>3, <3>1
    <3>. QED  BY <1>4, <3>1, <3>2
  <2>2. b = Bytes(starts[i] + HeadLen, BodyLen(i))  BY <1>3, <1>4, <2>1
  <2>3. /\ tasks' = Append(tasks, [type |-> type, data |-> b])
        /\ event' = TRUE /\ stage' = "NO_RECV" /\ head' = <<>> /\ body' = <<>>
        /\ UNCHANGED <<bodyLen, type>>
    BY <1>7 DEF Send, NextMessage
  <2>4. tasks' = Append(tasks, t)  BY <1>4, <2>2, <2>3
  <2>5. Received' = starts[i + 1] /\ Received' = rd'
    <3>1. Len(head') = 0 /\ Len(body') = 0  BY <2>3, EmptySeq
    <3>2. Received' = rd' - Len(head') - Len(body')  BY DEF Received
    <3>3. \A x \in Nat : x - 0 - 0 = x  OBVIOUS
    <3>4. Received' = rd'  BY <1>5, <3>1, <3>2, <3>3
    <3>5. rd' = starts[i + 1]  BY <1>1, <1>2, <1>3, <1>4, <2>1, SizesFacts
    <3>. QED  BY <3>4, <3>5
  <2>6. Completes(i, t)  BY <1>4, <2>3, <2>4, <2>5 DEF Completes
  <2> HIDE DEF t
  <2>7. WholeBodyStep(i)  BY <2>3, <2>6 DEF WholeBodyStep
  <2>. QED  BY <1>2, <1>4, <1>5, <2>7
<1>. QED  BY <1>2, <1>6, <1>7

\* The DataBuf made of a task is the message the task replies to.
LEMMA TaskFacts ==
    ASSUME starts \in Streams, NEW r, NEW t, IsReply(starts, r, t)
    PROVE  LET n == DataBuf(t.type, t.data)
           IN  /\ t.type \in Nat /\ t.data \in Seq(Nat)
               /\ n \in Node /\ IsMessage(starts, r, n)
               /\ TaskBytes(t) = Reply(t) /\ NodeRest(n) = Reply(t)
<1>1. PICK i \in Messages :
          /\ starts[i + 1] <= r
          /\ t.type = starts[i] /\ t.data = Bytes(starts[i] + HeadLen, BodyLen(i))
  BY DEF IsReply, Messages, BodyLen
<1>2. /\ starts[i] \in Nat /\ starts[i + 1] \in Nat /\ BodyLen(i) \in Nat
      /\ HeadLen \in Nat \ {0}
  BY StreamFacts, SizesAssumption
<1> DEFINE a == starts[i]
           l == HeadLen + BodyLen(i)
<1>3. a \in Nat /\ l \in Nat /\ l # 0 /\ l = starts[i + 1] - starts[i]
      /\ starts[i] + HeadLen \in Nat
  BY <1>2 DEF BodyLen
<1>4. t.data \in Seq(Nat) /\ Len(t.data) = BodyLen(i)
  <2> DEFINE c == starts[i] + HeadLen
             e == BodyLen(i)
  <2>1. c \in Nat /\ e \in Nat /\ t.data = Bytes(c, e)  BY <1>1, <1>2, <1>3
  <2> HIDE DEF c, e
  <2>2. t.data \in Seq(Nat) /\ Len(t.data) = e  BY <2>1, BytesFacts
  <2>. QED  BY <2>2 DEF e
<1>5. Reply(t) = Bytes(a, l)  BY <1>1, <1>4 DEF Reply
<1>6. Frame(t.type, t.data) = Bytes(a, l)  BY <1>1, ReplyIsMessage
<1> DEFINE n == DataBuf(t.type, t.data)
<1>7. n.buf = Bytes(a, l) /\ n.off = 0 /\ n = [buf |-> Bytes(a, l), off |-> 0]
  BY <1>6 DEF DataBuf
<1> HIDE DEF a, l, n
<1>8. Bytes(a, l) \in Seq(Nat) /\ Len(Bytes(a, l)) = l  BY <1>3, BytesFacts
<1>9. n \in Node  BY <1>7, <1>8 DEF Node
<1>10. IsMessage(starts, r, n)
  <2>1. n.off < Len(n.buf)  BY <1>3, <1>7, <1>8
  <2>2. n.buf = Bytes(starts[i], starts[i + 1] - starts[i])  BY <1>3, <1>7 DEF a
  <2>. QED  BY <1>1, <2>1, <2>2 DEF IsMessage, Messages
<1>11. NodeRest(n) = Bytes(a, l)
  <2>1. NodeRest(n) = SubSeq(Bytes(a, l), 0 + 1, l)  BY <1>7, <1>8 DEF NodeRest
  <2>2. 0 \in 0 .. l /\ l \in 0 .. l /\ a + 0 = a /\ l - 0 = l  BY <1>3
  <2>3. SubSeq(Bytes(a, l), 0 + 1, l) = Bytes(a + 0, l - 0)  BY <1>3, <2>2, BytesCut
  <2>. QED  BY <2>1, <2>2, <2>3
<1>12. TaskBytes(t) = Bytes(a, l)  BY <1>7 DEF TaskBytes, n
<1>. QED  BY <1>1, <1>2, <1>4, <1>5, <1>9, <1>10, <1>11, <1>12 DEF n

\* The task of a message read to its end.
LEMMA CompletesFacts ==
    ASSUME starts \in Streams, NEW i \in Messages, NEW t, Completes(i, t)
    PROVE  /\ t \in Task /\ IsReply(starts, rd', t)
           /\ Received \in Nat /\ Received' - Received \in Nat \ {0}
           /\ Reply(t) = Bytes(Received, Received' - Received)
<1>1. /\ starts[i] = Received /\ starts[i + 1] = Received' /\ Received' = rd'
      /\ t.type = starts[i] /\ t.data = Bytes(starts[i] + HeadLen, BodyLen(i))
      /\ t = [type |-> t.type, data |-> t.data]
  BY DEF Completes
<1>2. /\ starts[i] \in Nat /\ starts[i + 1] \in Nat /\ BodyLen(i) \in Nat
      /\ HeadLen \in Nat \ {0}
  BY StreamFacts, SizesAssumption
<1>3. IsReply(starts, rd', t)
  <2>1. starts[i + 1] <= rd'  BY <1>1, <1>2
  <2>. QED  BY <1>1, <2>1 DEF IsReply, Messages, BodyLen
<1>4. t \in Task
  <2>1. t.type \in Nat /\ t.data \in Seq(Nat)  BY <1>3, TaskFacts
  <2>. QED  BY <1>1, <2>1 DEF Task
<1>5. Received' - Received \in Nat \ {0} /\ HeadLen + BodyLen(i) = Received' - Received
  BY <1>1, <1>2 DEF BodyLen
<1>6. Len(t.data) = BodyLen(i)
  <2>1. starts[i] + HeadLen \in Nat  BY <1>2
  <2>. QED  BY <1>1, <1>2, <2>1, BytesFacts
<1>. QED  BY <1>1, <1>2, <1>3, <1>4, <1>5, <1>6 DEF Reply

\* What a write takes from the send queue, and adds to what is written.
Writes(n, i) ==
    /\ n <= Room /\ n <= Len(sendQ[1].buf) - sendQ[1].off
    /\ Len(out) + n <= starts[i + 1] /\ starts[i + 1] <= rd
    /\ out' = out \o Bytes(Len(out), n) /\ out' = Bytes(0, Len(out) + n)
    /\ out' \in Seq(Nat) /\ Len(out') = Len(out) + n
    /\ sendQ' = IF sendQ[1].off + n = Len(sendQ[1].buf) THEN Tail(sendQ)
                ELSE [sendQ EXCEPT ![1].off = @ + n]

LEMMA WriteFacts ==
    ASSUME SessionInv, open, sendQ # <<>>, WriteSome
    PROVE  /\ UNCHANGED <<noSpace, edgeVars, alive, open, pc>>
           /\ peer \in {"up", "fin"}
           /\ 1 \in DOMAIN sendQ /\ sendQ[1] \in Node /\ sendQ[1].off < Len(sendQ[1].buf)
           /\ NodeRest(sendQ[1]) = Bytes(Len(out), Len(sendQ[1].buf) - sendQ[1].off)
           /\ \E n \in Nat \ {0} : \E i \in Messages : Writes(n, i)
<1>1. TypeOK /\ RepliesInv /\ OrderInv  BY DEF SessionInv
<1>2. /\ UNCHANGED <<noSpace, edgeVars, alive, open, pc>> /\ peer \in {"up", "fin"}
  BY DEF WriteSome
<1>3. PICK n \in 1 .. SendRoom :
          /\ n <= Room /\ n <= Len(sendQ[1].buf) - sendQ[1].off
          /\ out' = out \o SubSeq(sendQ[1].buf, sendQ[1].off + 1, sendQ[1].off + n)
          /\ sendQ' = IF sendQ[1].off + n = Len(sendQ[1].buf) THEN Tail(sendQ)
                      ELSE [sendQ EXCEPT ![1].off = @ + n]
  BY DEF WriteSome
<1>4. n \in Nat \ {0}  BY <1>1, SizesFacts
<1>5. 1 \in DOMAIN sendQ /\ sendQ[1] \in Node
  BY <1>1, LenProperties, EmptySeq, ElementOfSeq DEF TypeOK
<1> DEFINE m == sendQ[1]
           l == Len(m.buf) - m.off
           a == Len(out)
<1>6. PICK i \in Messages :
          starts[i + 1] <= rd /\ m.buf = Bytes(starts[i], starts[i + 1] - starts[i])
  BY <1>1, <1>5 DEF RepliesInv, IsMessage, Messages
<1>7. m.off < Len(m.buf)  BY <1>1, <1>5 DEF RepliesInv, IsMessage
<1>8. m.buf \in Seq(Nat) /\ m.off \in Nat /\ Len(m.buf) \in Nat
  BY <1>5, LenProperties DEF Node
<1>9. a \in Nat /\ out \in Seq(Nat)  BY <1>1, SizesFacts DEF TypeOK, WireTypeOK
<1> HIDE DEF m, a
<1>10. Len(NodeRest(m)) = l /\ NodeRest(m)[1] = m.buf[m.off + 1]
  <2>1. \A j \in m.off + 1 .. Len(m.buf) : m.buf[j] \in Nat
    <3>1. \A j \in m.off + 1 .. Len(m.buf) : j \in 1 .. Len(m.buf)  BY <1>8
    <3>. QED  BY <1>8, <3>1, ElementOfSeq
  <2>2. m.off + 1 \in Int /\ Len(m.buf) \in Int  BY <1>8
  <2>3. /\ Len(NodeRest(m)) = IF m.off + 1 <= Len(m.buf)
                              THEN Len(m.buf) - (m.off + 1) + 1 ELSE 0
        /\ \A j \in 1 .. Len(m.buf) - (m.off + 1) + 1 :
              NodeRest(m)[j] = m.buf[m.off + 1 + j - 1]
    BY <2>1, <2>2, SubSeqProperties DEF NodeRest
  <2>4. 1 \in 1 .. Len(m.buf) - (m.off + 1) + 1 /\ m.off + 1 + 1 - 1 = m.off + 1
    BY <1>7, <1>8
  <2>5. NodeRest(m)[1] = m.buf[m.off + 1 + 1 - 1]  BY <2>3, <2>4
  <2>6. Len(NodeRest(m)) = l  BY <1>7, <1>8, <2>3
  <2>. QED  BY <2>4, <2>5, <2>6
<1>11. NodeRest(m) = Bytes(a, l)
  <2> DEFINE p == Pieces(sendQ, q, tasks)
  <2>1. /\ sendQ \in Seq(Node) /\ q \in Seq(Task) /\ tasks \in Seq(Task)
    BY <1>1 DEF TypeOK
  <2>2. /\ p \in Runs /\ Len(p) = Len(sendQ) + Len(q) + Len(tasks)
        /\ \A j \in 1 .. Len(sendQ) : p[j] = NodeRest(sendQ[j])
    BY <2>1, PiecesFacts
  <2>3. Len(sendQ) \in Nat \ {0} /\ Len(q) \in Nat /\ Len(tasks) \in Nat
    BY <2>1, LenProperties, EmptySeq
  <2>4. InOrder(p, a, Received) /\ Received \in Nat  BY DEF SessionInv, OrderInv, RecvInv, a
  <2> HIDE DEF p
  <2>5. p # <<>> /\ p[1] = NodeRest(m)  BY <2>2, <2>3, RunFacts DEF m
  <2>6. p[1] = Bytes(a, Len(p[1]))  BY <1>9, <2>2, <2>4, <2>5, FirstRun
  <2>. QED  BY <1>10, <2>5, <2>6
<1>12. a + n <= starts[i + 1]
  <2>1. starts[i] \in Nat /\ starts[i + 1] \in Nat /\ starts[i + 1] - starts[i] \in Nat
    <3>1. starts \in Streams /\ HeadLen \in Nat  BY <1>1, SizesFacts
    <3>2. starts[i] \in Nat /\ starts[i + 1] \in Nat /\ BodyLen(i) \in Nat
      BY <3>1, StreamFacts
    <3>. QED  BY <3>1, <3>2 DEF BodyLen
  <2> DEFINE c == starts[i]
             k == starts[i + 1] - starts[i]
  <2>2. Len(m.buf) = k /\ m.buf[m.off + 1] = c + (m.off + 1)
    <3>1. c \in Nat /\ k \in Nat /\ m.buf = Bytes(c, k)  BY <1>6, <2>1
    <3> HIDE DEF c, k
    <3>2. Len(Bytes(c, k)) = k  BY <3>1, BytesFacts
    <3>3. Len(m.buf) = k  BY <3>1, <3>2, Zenon
    <3>4. m.off + 1 \in 1 .. k  BY <1>7, <1>8, <3>3
    <3>5. Bytes(c, k)[m.off + 1] = c + (m.off + 1)  BY <3>1, <3>4, BytesFacts
    <3>. QED  BY <3>1, <3>3, <3>5
  <2>5. NodeRest(m)[1] = a + 1
    <3>1. l \in Nat /\ 1 \in 1 .. l  BY <1>7, <1>8
    <3> HIDE DEF l
    <3>. QED  BY <1>9, <1>11, <3>1, BytesFacts
  <2>6. a = starts[i] + m.off
    <3>1. a + 1 = starts[i] + (m.off + 1)  BY <1>10, <2>2, <2>5
    <3>2. \A x, y, z \in Nat : x + 1 = y + (z + 1) => x = y + z  OBVIOUS
    <3>. QED  BY <1>8, <1>9, <2>1, <3>1, <3>2
  <2>7. n <= Len(m.buf) - m.off  BY <1>3 DEF m
  <2>. QED  BY <1>4, <1>8, <2>1, <2>2, <2>6, <2>7
<1>13. SubSeq(m.buf, m.off + 1, m.off + n) = Bytes(a, n)
  <2>1. n \in Nat /\ m.off <= Len(m.buf) /\ n <= Len(m.buf) - m.off /\ m \in Node
    BY <1>3, <1>4, <1>5, <1>7, <1>8 DEF m
  <2>. QED  BY <1>9, <1>11, <2>1, RestParts
<1>14. out' = out \o Bytes(a, n)  BY <1>3, <1>13 DEF m
<1>15. out' = Bytes(0, a + n)
  <2>1. out = Bytes(0, a)  BY <1>1 DEF OrderInv, a
  <2>2. Bytes(0, a) \o Bytes(0 + a, n) = Bytes(0, a + n)  BY <1>4, <1>9, BytesJoin
  <2>3. 0 + a = a  BY <1>9
  <2>. QED  BY <1>14, <2>1, <2>2, <2>3
<1>16. out' \in Seq(Nat) /\ Len(out') = a + n
  <2>1. a + n \in Nat  BY <1>4, <1>9
  <2>. QED  BY <1>15, <2>1, BytesFacts
<1>17. Writes(n, i)  BY <1>3, <1>6, <1>12, <1>14, <1>15, <1>16 DEF Writes, a
<1>. QED  BY <1>2, <1>4, <1>5, <1>7, <1>11, <1>17 DEF m, a

-----------------------------------------------------------------------------
(* Every step keeps the parts of the invariant.                            *)

LEMMA RecvStep == SessionInv /\ [Next]_vars => RecvInv'
<1> SUFFICES ASSUME SessionInv, [Next]_vars, open' PROVE RecvInv'  BY DEF RecvInv
<1>1. TypeOK /\ CountInv /\ RecvInv  BY DEF SessionInv
<1>2. HeadLen \in Nat \ {0} /\ starts \in Streams  BY <1>1, SizesFacts
<1>3. CASE UNCHANGED <<starts, rd, recvVars>> /\ open
  BY <1>1, <1>3 DEF RecvInv, Receives, Received, recvVars, Messages, BodyLen
<1>4. CASE ReadPartOfHead
  <2>1. open  BY <1>4 DEF ReadPartOfHead
  <2>2. /\ UNCHANGED <<starts, open, body, bodyLen, type, tasks, q, sendQ, out>>
        /\ stage' = "HEAD_RECVING" /\ Received' = Received
        /\ head' = Bytes(Received, Len(head')) /\ head' \in Seq(Nat)
        /\ Len(head') < HeadLen /\ body = <<>>
    BY <1>4, <2>1, HeadStep
  <2>3. Received \in Nat /\ \E i \in DOMAIN starts : starts[i] = Received
    BY <1>1, <2>1 DEF RecvInv, Receives
  <2>4. \E i \in DOMAIN starts' : Receives(i)'  BY <2>2, <2>3 DEF Receives
  <2>5. body' = Bytes(Received' + Len(head'), Len(body'))
    <3>1. Len(head') \in Nat /\ Len(body') = 0 /\ body' = <<>>
      BY <2>2, LenProperties, EmptySeq
    <3>2. Received' + Len(head') \in Nat  BY <2>2, <2>3, <3>1
    <3>. QED  BY <3>1, <3>2, BytesFacts
  <2>. QED  BY <2>2, <2>3, <2>4, <2>5 DEF RecvInv
<1>5. ASSUME NEW i \in Messages, NEW t, Completes(i, t), UNCHANGED starts
      PROVE  RecvInv'
  <2>1. stage' = "NO_RECV" /\ head' = <<>> /\ body' = <<>> /\ Received' = starts[i + 1]
    BY <1>5 DEF Completes
  <2>2. i + 1 \in DOMAIN starts /\ starts[i + 1] \in Nat  BY <1>2, StreamFacts
  <2>3. Len(head') = 0 /\ Len(body') = 0  BY <2>1, EmptySeq
  <2>4. Receives(i + 1)'  BY <1>5, <2>1, <2>2 DEF Receives
  <2>5. head' = Bytes(Received', Len(head')) /\ body' = Bytes(Received' + Len(head'), Len(body'))
    <3>1. Received' + Len(head') \in Nat /\ Received' \in Nat  BY <2>1, <2>2, <2>3
    <3>. QED  BY <2>1, <2>3, <3>1, BytesFacts
  <2>. QED  BY <1>5, <2>1, <2>2, <2>4, <2>5 DEF RecvInv
<1>6. CASE ReadHead
  <2>1. open  BY <1>6, OtherSteps DEF ReadHead, CloseFd
  <2>2. PICK i \in Messages : starts[i] = Received /\ WholeHeadStep(i)
    BY <1>6, <2>1, WholeHead
  <2>3. UNCHANGED starts  BY <1>6 DEF ReadHead, Reading, netVars
  <2>4. CASE \E t : Completes(i, t)  BY <1>5, <2>3, <2>4
  <2>5. CASE /\ stage' = "BODY_RECVING" /\ Received' = Received
             /\ head' = Bytes(Received, HeadLen) /\ head' \in Seq(Nat)
             /\ Len(head') = HeadLen
             /\ body' = <<>> /\ type' = starts[i]
             /\ bodyLen' = BodyLen(i) /\ bodyLen' > 0 /\ bodyLen' <= BuffSize
    <3>1. i \in DOMAIN starts /\ starts[i] \in Nat  BY <1>2, StreamFacts
    <3>2. Len(body') = 0  BY <2>5, EmptySeq
    <3>3. Receives(i)'
      BY <2>2, <2>3, <2>5, <3>1 DEF Receives, Messages, BodyLen
    <3>4. body' = Bytes(Received' + Len(head'), Len(body'))
      <4>1. Received' + Len(head') \in Nat  BY <1>2, <2>2, <2>5, <3>1
      <4>. QED  BY <2>5, <3>2, <4>1, BytesFacts
    <3>. QED  BY <2>2, <2>3, <2>5, <3>1, <3>2, <3>3, <3>4 DEF RecvInv
  <2>. QED  BY <2>2, <2>4, <2>5 DEF WholeHeadStep
<1>7. CASE ReadBody
  <2>1. open  BY <1>7 DEF ReadBody
  <2>2. PICK i \in Messages : starts[i] = Received /\ WholeBodyStep(i)
    BY <1>7, <2>1, BodyStep
  <2>3. UNCHANGED starts /\ stage = "BODY_RECVING"  BY <1>7 DEF ReadBody, Reading, netVars
  <2>4. CASE \E t : Completes(i, t)  BY <1>5, <2>3, <2>4
  <2>5. CASE /\ Received' = Received /\ body' = Bytes(Received + HeadLen, Len(body'))
             /\ body' \in Seq(Nat) /\ Len(body') < bodyLen
             /\ UNCHANGED <<stage, head, bodyLen, type, event, tasks>>
    <3>1. /\ Len(head) = HeadLen /\ bodyLen <= BuffSize
          /\ Received \in Nat /\ head = Bytes(Received, Len(head))
          /\ \E j \in DOMAIN starts : Receives(j)
      BY <1>1, <2>1, <2>3 DEF RecvInv
    <3>2. \E j \in DOMAIN starts' : Receives(j)'
      BY <2>3, <2>5, <3>1 DEF Receives, Messages, BodyLen
    <3>. QED  BY <2>3, <2>5, <3>1, <3>2 DEF RecvInv
  <2>. QED  BY <2>2, <2>4, <2>5 DEF WholeBodyStep
<1>. QED  BY <1>3, <1>4, <1>6, <1>7, OtherSteps

\* The steps by what they do to the task queues, the send queue and what is written.
LEMMA QueueSteps ==
    ASSUME SessionInv, [Next]_vars
    PROVE  \/ UNCHANGED <<tasks, q, sendQ, out>>
           \/ /\ open /\ UNCHANGED <<q, sendQ, out>>
              /\ \E i \in Messages : \E t : Completes(i, t)
           \/ BellEvent
           \/ SendTask
           \/ open /\ sendQ # <<>> /\ WriteSome /\ UNCHANGED <<tasks, q>>
<1>0. PlaceInv  BY DEF SessionInv
<1>1. CASE UNCHANGED vars  BY <1>1 DEF vars, wireVars
<1>2. CASE ClientStep
  BY <1>2 DEF ClientStep, PeerStep, PeerSend, PeerRead, PeerEnd
<1>3. CASE EpollWait \/ EndBatch \/ HupEvent \/ ConnEvent
  BY <1>3 DEF EpollWait, EndBatch, HupEvent, ConnEvent, CloseFd, wireVars
<1>4. CASE ReadEagain \/ ReadEnds \/ ReadPartOfHead
  BY <1>4 DEF ReadEagain, ReadEnds, ReadPartOfHead, Reading
<1>5. CASE ReadHead
  <2>1. open  BY <1>0, <1>5 DEF ReadHead, Reading, PlaceInv
  <2>2. PICK i \in Messages : WholeHeadStep(i)  BY <1>5, <2>1, WholeHead
  <2>3. UNCHANGED <<q, sendQ, out>>  BY <1>5 DEF ReadHead, Reading
  <2>. QED  BY <2>1, <2>2, <2>3 DEF WholeHeadStep
<1>6. CASE ReadBody
  <2>1. open  BY <1>0, <1>6 DEF ReadBody, Reading, PlaceInv
  <2>2. PICK i \in Messages : WholeBodyStep(i)  BY <1>6, <2>1, BodyStep
  <2>3. UNCHANGED <<q, sendQ, out>>  BY <1>6 DEF ReadBody, Reading
  <2>. QED  BY <2>1, <2>2, <2>3 DEF WholeBodyStep
<1>7. CASE Dealt \/ SendEagain \/ SendError \/ SendDone
  BY <1>7 DEF Dealt, SendEagain, SendError, SendDone, Writing, wireVars
<1>8. CASE SendWrite
  BY <1>0, <1>8 DEF SendWrite, WriteSigpipe, Writing, PlaceInv
<1>9. CASE OutEagain \/ OutError \/ OutDone \/ OutOnCleared
  BY <1>9 DEF OutEagain, OutError, OutDone, OutOnCleared, Writing
<1>10. CASE OutWrite
  BY <1>10 DEF OutWrite, WriteSigpipe, Writing
<1>. QED
  BY <1>1, <1>2, <1>3, <1>4, <1>5, <1>6, <1>7, <1>8, <1>9, <1>10 DEF Next, ServerStep

\* The server reads no more than was sent, and never gives a byte back.
LEMMA ReadStep ==
    ASSUME SessionInv, [Next]_vars
    PROVE  /\ UNCHANGED starts /\ rd' \in Nat /\ sent' \in Nat /\ rd <= rd' /\ rd' <= sent'
           /\ sent <= sent' /\ sent' <= Total
<1>1. TypeOK /\ CountInv /\ PlaceInv  BY DEF SessionInv
<1>2. /\ rd \in Nat /\ sent \in Nat /\ rd <= sent /\ sent <= Total /\ Total \in Nat
  BY <1>1, SizesFacts, StreamFacts DEF CountInv
<1>3. UNCHANGED starts /\ sent' \in Nat /\ sent <= sent' /\ sent' <= Total
  <2>1. CASE UNCHANGED netVars  BY <1>2, <2>1 DEF netVars
  <2>2. CASE ClientStep
    BY <1>2, <2>2 DEF ClientStep, PeerStep, PeerSend, PeerRead, PeerEnd
  <2>3. CASE UNCHANGED vars  BY <1>2, <2>3 DEF vars, wireVars, netVars
  <2>4. CASE ServerStep
    BY <2>1, <2>4 DEF ServerStep, EpollWait, EndBatch, HupEvent, ConnEvent, BellEvent,
              ReadEagain, ReadEnds, ReadPartOfHead, ReadHead, ReadBody, Reading,
              SendTask, Dealt, SendWrite, SendEagain, SendError, SendDone,
              OutWrite, OutEagain, OutError, OutDone, OutOnCleared, Writing, wireVars
  <2>. QED  BY <2>2, <2>3, <2>4 DEF Next
<1>4. CASE ReadPartOfHead
  <2>1. open  BY <1>1, <1>4 DEF ReadPartOfHead, Reading, PlaceInv
  <2>2. rd' \in Nat /\ rd < rd' /\ rd' <= sent  BY <1>4, <2>1, HeadStep
  <2>. QED  BY <1>2, <1>3, <2>2
<1>5. CASE ReadHead
  <2>1. open  BY <1>1, <1>5 DEF ReadHead, Reading, PlaceInv
  <2>2. rd' \in Nat /\ rd < rd' /\ rd' <= sent  BY <1>5, <2>1, WholeHead
  <2>. QED  BY <1>2, <1>3, <2>2
<1>6. CASE ReadBody
  <2>1. open  BY <1>1, <1>6 DEF ReadBody, Reading, PlaceInv
  <2>2. rd' \in Nat /\ rd < rd' /\ rd' <= sent  BY <1>6, <2>1, BodyStep
  <2>. QED  BY <1>2, <1>3, <2>2
<1>7. CASE UNCHANGED rd  BY <1>2, <1>3, <1>7
<1>. QED  BY <1>4, <1>5, <1>6, <1>7, OtherSteps

LEMMA CountStep == SessionInv /\ [Next]_vars => CountInv'
<1> SUFFICES ASSUME SessionInv, [Next]_vars PROVE CountInv'  OBVIOUS
<1>1. TypeOK /\ CountInv  BY DEF SessionInv
<1>2. rd' <= sent' /\ sent' <= Total'  BY ReadStep DEF Total
<1>3. got \in Nat /\ Len(out) \in Nat /\ got <= Len(out)
  BY <1>1, SizesFacts DEF CountInv
<1>4. got' = got \/ (got' = got + 1 /\ got < Len(out) /\ UNCHANGED out)
  <2>1. CASE UNCHANGED netVars  BY <2>1 DEF netVars
  <2>2. CASE ClientStep
    BY <2>2 DEF ClientStep, PeerStep, PeerSend, PeerRead, PeerEnd
  <2>3. CASE UNCHANGED vars  BY <2>3 DEF vars, wireVars, netVars
  <2>4. CASE ServerStep
    BY <2>1, <2>4 DEF ServerStep, EpollWait, EndBatch, HupEvent, ConnEvent, BellEvent,
              ReadEagain, ReadEnds, ReadPartOfHead, ReadHead, ReadBody, Reading,
              SendTask, Dealt, SendWrite, SendEagain, SendError, SendDone,
              OutWrite, OutEagain, OutError, OutDone, OutOnCleared, Writing, wireVars
  <2>. QED  BY <2>2, <2>3, <2>4 DEF Next
<1>5. UNCHANGED out \/ \E n \in Nat : Len(out') = Len(out) + n
  <2>1. CASE open /\ sendQ # <<>> /\ WriteSome
    BY <2>1, WriteFacts DEF Writes
  <2>2. CASE BellEvent \/ SendTask  BY <2>2 DEF BellEvent, SendTask, wireVars
  <2>. QED  BY <2>1, <2>2, QueueSteps
<1>6. got' <= Len(out')  BY <1>3, <1>4, <1>5
<1>. QED  BY <1>2, <1>6 DEF CountInv

LEMMA RepliesStep == SessionInv /\ [Next]_vars => RepliesInv'
<1> SUFFICES ASSUME SessionInv, [Next]_vars PROVE RepliesInv'  OBVIOUS
<1>1. TypeOK /\ RepliesInv  BY DEF SessionInv
<1>2. /\ starts \in Streams /\ UNCHANGED starts
      /\ rd \in Nat /\ rd' \in Nat /\ rd <= rd'
  BY <1>1, SizesFacts, ReadStep
<1>3. /\ tasks \in Seq(Task) /\ q \in Seq(Task) /\ sendQ \in Seq(Node)
  BY <1>1 DEF TypeOK
<1>4. ASSUME NEW t, IsReply(starts, rd, t) PROVE IsReply(starts, rd', t)
  <2>1. \A i \in Messages : starts[i + 1] \in Nat  BY <1>2, StreamFacts
  <2>. QED  BY <1>2, <1>4, <2>1 DEF IsReply, Messages
<1>5. ASSUME NEW n, IsMessage(starts, rd, n) PROVE IsMessage(starts, rd', n)
  <2>1. \A i \in Messages : starts[i + 1] \in Nat  BY <1>2, StreamFacts
  <2>. QED  BY <1>2, <1>5, <2>1 DEF IsMessage, Messages
<1>6. /\ \A i \in DOMAIN tasks : IsReply(starts, rd', tasks[i])
      /\ \A i \in DOMAIN q : IsReply(starts, rd', q[i])
      /\ \A i \in DOMAIN sendQ : IsMessage(starts, rd', sendQ[i])
  BY <1>1, <1>4, <1>5 DEF RepliesInv
<1>7. CASE UNCHANGED <<tasks, q, sendQ, out>>  BY <1>2, <1>6, <1>7 DEF RepliesInv
<1>8. CASE /\ open /\ UNCHANGED <<q, sendQ, out>>
           /\ \E i \in Messages : \E t : Completes(i, t)
  <2>0. PICK i \in Messages : \E t : Completes(i, t)  BY <1>8
  <2>1. PICK t : Completes(i, t)  BY <2>0
  <2>2. t \in Task /\ IsReply(starts, rd', t) /\ tasks' = Append(tasks, t)
    BY <1>2, <2>1, CompletesFacts DEF Completes
  <2>3. \A j \in DOMAIN tasks' : tasks'[j] = t \/ (j \in DOMAIN tasks /\ tasks'[j] = tasks[j])
    BY <1>3, <2>2, AppendProperties, LenProperties
  <2>. QED  BY <1>2, <1>6, <1>8, <2>2, <2>3 DEF RepliesInv
<1>9. CASE BellEvent
  <2>1. q' = tasks /\ tasks' = <<>> /\ sendQ' = sendQ  BY <1>9 DEF BellEvent
  <2>. QED  BY <1>2, <1>6, <2>1, EmptySeq, LenProperties DEF RepliesInv
<1>10. CASE SendTask
  <2>1. q # <<>> /\ q' = Tail(q) /\ tasks' = tasks
        /\ (sendQ' = sendQ \/ sendQ' = Append(sendQ, DataBuf(Head(q).type, Head(q).data)))
    BY <1>10 DEF SendTask
  <2>2. 1 \in DOMAIN q /\ Head(q) = q[1]
    BY <1>3, <2>1, EmptySeq, LenProperties
  <2>3. \A j \in DOMAIN q' : j + 1 \in DOMAIN q /\ q'[j] = q[j + 1]
    BY <1>3, <2>1, HeadTailProperties, LenProperties
  <2> DEFINE n == DataBuf(Head(q).type, Head(q).data)
  <2>4. n \in Node /\ IsMessage(starts, rd', n)  BY <1>2, <1>6, <2>2, TaskFacts
  <2> HIDE DEF n
  <2>5. \A j \in DOMAIN sendQ' :
            sendQ'[j] = n \/ (j \in DOMAIN sendQ /\ sendQ'[j] = sendQ[j])
    <3>1. CASE sendQ' = Append(sendQ, n)
      BY <1>3, <2>4, <3>1, AppendProperties, LenProperties
    <3>. QED  BY <2>1, <3>1 DEF n
  <2>. QED  BY <1>2, <1>6, <2>1, <2>3, <2>4, <2>5 DEF RepliesInv
<1>11. CASE open /\ sendQ # <<>> /\ WriteSome /\ UNCHANGED <<tasks, q>>
  <2>1. PICK n \in Nat \ {0} : \E i \in Messages : Writes(n, i)  BY <1>11, WriteFacts
  <2> DEFINE m == sendQ[1]
  <2>2. /\ n <= Len(m.buf) - m.off
        /\ sendQ' = IF m.off + n = Len(m.buf) THEN Tail(sendQ)
                    ELSE [sendQ EXCEPT ![1].off = @ + n]
    BY <2>1 DEF Writes
  <2>3. 1 \in DOMAIN sendQ /\ m \in Node  BY <1>11, WriteFacts
  <2>4. m.off \in Nat /\ Len(m.buf) \in Nat  BY <2>3, LenProperties DEF Node
  <2>5. CASE m.off + n = Len(m.buf)
    <3>1. \A j \in DOMAIN sendQ' : j + 1 \in DOMAIN sendQ /\ sendQ'[j] = sendQ[j + 1]
      BY <1>3, <1>11, <2>2, <2>5, HeadTailProperties, LenProperties
    <3>. QED  BY <1>2, <1>6, <1>11, <3>1 DEF RepliesInv
  <2>6. CASE m.off + n # Len(m.buf)
    <3> DEFINE v == [m EXCEPT !.off = @ + n]
    <3>1. v.buf = m.buf /\ v.off = m.off + n  BY <2>3 DEF Node
    <3>2. IsMessage(starts, rd', v)
      <4>1. v.off < Len(v.buf)  BY <2>2, <2>4, <2>6, <3>1
      <4>2. IsMessage(starts, rd', m)  BY <1>6, <2>3
      <4>. QED  BY <3>1, <4>1, <4>2 DEF IsMessage
    <3>3. sendQ' = [sendQ EXCEPT ![1] = v]  BY <2>2, <2>6
    <3> HIDE DEF v
    <3>4. DOMAIN sendQ' = DOMAIN sendQ
          /\ \A j \in DOMAIN sendQ : sendQ'[j] = IF j = 1 THEN v ELSE sendQ[j]
      BY <1>3, <2>3, <3>3, LenProperties
    <3>. QED  BY <1>2, <1>6, <1>11, <3>2, <3>4 DEF RepliesInv
  <2>. QED  BY <2>5, <2>6
<1>. QED  BY <1>7, <1>8, <1>9, <1>10, <1>11, QueueSteps

LEMMA OrderStep == SessionInv /\ [Next]_vars => OrderInv'
<1> SUFFICES ASSUME SessionInv, [Next]_vars, open' PROVE OrderInv'  BY DEF OrderInv
<1>1. TypeOK /\ RepliesInv /\ RecvInv /\ PlaceInv  BY DEF SessionInv
<1>2. open
  <2>1. CASE ReadPartOfHead \/ ReadHead \/ ReadBody
    BY <1>1, <2>1 DEF ReadPartOfHead, ReadHead, ReadBody, Reading, PlaceInv
  <2>. QED  BY <2>1, OtherSteps
<1>3. /\ out = Bytes(0, Len(out)) /\ InOrder(Pieces(sendQ, q, tasks), Len(out), Received)
      /\ Received \in Nat /\ Len(out) \in Nat /\ starts \in Streams
  BY <1>1, <1>2, SizesFacts DEF SessionInv, OrderInv, RecvInv
<1>4. tasks \in Seq(Task) /\ q \in Seq(Task) /\ sendQ \in Seq(Node)
  BY <1>1 DEF TypeOK
<1>5. ASSUME UNCHANGED <<tasks, q, sendQ, out>>, Received' = Received PROVE OrderInv'
  BY <1>3, <1>5 DEF OrderInv
<1>6. ASSUME ~ReadPartOfHead, ~ReadHead, ~ReadBody PROVE Received' = Received
  BY <1>6, OtherSteps DEF Received, recvVars
<1>7. ASSUME NEW i \in Messages, NEW t, Completes(i, t), UNCHANGED <<q, sendQ, out>>
      PROVE  OrderInv'
  <2>1. /\ t \in Task /\ Received' - Received \in Nat \ {0}
        /\ Reply(t) = Bytes(Received, Received' - Received)
        /\ tasks' = Append(tasks, t)
    BY <1>3, <1>7, CompletesFacts DEF Completes
  <2>2. Pieces(sendQ, q, tasks') = Append(Pieces(sendQ, q, tasks), Reply(t))
    BY <1>4, <2>1, PiecesPost
  <2>3. InOrder(Pieces(sendQ, q, tasks'), Len(out), Received')
    <3> DEFINE p == Pieces(sendQ, q, tasks)
               r == Received
               n == Received' - Received
               a == Len(out)
    <3>1. p \in Runs /\ InOrder(p, a, r)  BY <1>3, <1>4, PiecesFacts
    <3>2. r \in Nat /\ a \in Nat /\ n \in Nat \ {0}  BY <1>3, <2>1
    <3>3. Received' = r + n
      <4>1. Received' \in Int
        <5>1. starts[i + 1] = Received'  BY <1>7 DEF Completes
        <5>2. starts[i + 1] \in Nat  BY <1>3, StreamFacts
        <5>. QED  BY <5>1, <5>2
      <4>2. \A x \in Int, y \in Nat : x = y + (x - y)  OBVIOUS
      <4>. QED  BY <1>3, <4>1, <4>2
    <3>4. Pieces(sendQ, q, tasks') = Append(p, Bytes(r, n))  BY <2>1, <2>2
    <3> HIDE DEF p, r, n, a
    <3>5. InOrder(Append(p, Bytes(r, n)), a, r + n)  BY <3>1, <3>2, RunsAppend
    <3>6. InOrder(Pieces(sendQ, q, tasks'), a, Received')  BY <3>3, <3>4, <3>5
    <3>. QED  BY <3>6 DEF a
  <2>. QED  BY <1>3, <1>7, <2>3 DEF OrderInv
<1>8. CASE ReadPartOfHead
  BY <1>2, <1>5, <1>8, HeadStep
<1>9. CASE ReadHead
  <2>1. PICK i \in Messages : WholeHeadStep(i)  BY <1>2, <1>9, WholeHead
  <2>2. UNCHANGED <<q, sendQ, out>>  BY <1>9 DEF ReadHead, Reading
  <2>. QED  BY <1>5, <1>7, <2>1, <2>2 DEF WholeHeadStep
<1>10. CASE ReadBody
  <2>1. PICK i \in Messages : WholeBodyStep(i)  BY <1>2, <1>10, BodyStep
  <2>2. UNCHANGED <<q, sendQ, out>>  BY <1>10 DEF ReadBody, Reading
  <2>. QED  BY <1>5, <1>7, <2>1, <2>2 DEF WholeBodyStep
<1>11. CASE ~ReadPartOfHead /\ ~ReadHead /\ ~ReadBody
  <2>1. Received' = Received  BY <1>6, <1>11
  <2>2. CASE UNCHANGED <<tasks, q, sendQ, out>>  BY <1>5, <2>1, <2>2
  <2>3. CASE /\ open /\ UNCHANGED <<q, sendQ, out>>
             /\ \E i \in Messages : \E t : Completes(i, t)
    BY <1>7, <2>3
  <2>4. CASE BellEvent
    <3>1. q = <<>> /\ q' = tasks /\ tasks' = <<>> /\ UNCHANGED <<sendQ, out>>
      BY <1>1, <2>4 DEF BellEvent, PlaceInv, wireVars
    <3>2. Pieces(sendQ', q', tasks') = Pieces(sendQ, q, tasks)
      BY <1>4, <3>1, PiecesSwap
    <3>. QED  BY <1>3, <2>1, <3>1, <3>2 DEF OrderInv
  <2>5. CASE SendTask
    <3>1. /\ q # <<>> /\ q' = Tail(q) /\ UNCHANGED <<tasks, out>>
          /\ sendQ' = Append(sendQ, DataBuf(Head(q).type, Head(q).data))
      BY <1>2, <2>5 DEF SendTask, wireVars
    <3>2. 1 \in DOMAIN q /\ Head(q) = q[1]  BY <1>4, <3>1, EmptySeq, LenProperties
    <3> DEFINE n == DataBuf(Head(q).type, Head(q).data)
    <3>3. n \in Node /\ NodeRest(n) = Reply(Head(q))
      BY <1>1, <1>3, <3>2, TaskFacts DEF RepliesInv
    <3>4. sendQ' = Append(sendQ, n)  BY <3>1
    <3> HIDE DEF n
    <3>5. Pieces(Append(sendQ, n), Tail(q), tasks) = Pieces(sendQ, q, tasks)
      BY <1>4, <3>1, <3>3, PiecesMove
    <3>6. Pieces(sendQ', q', tasks') = Pieces(sendQ, q, tasks)
      BY <3>1, <3>4, <3>5
    <3>. QED  BY <1>3, <2>1, <3>1, <3>6 DEF OrderInv
  <2>6. CASE open /\ sendQ # <<>> /\ WriteSome /\ UNCHANGED <<tasks, q>>
    <3>1. PICK n \in Nat \ {0} : \E i \in Messages : Writes(n, i)  BY <2>6, WriteFacts
    <3> DEFINE m == sendQ[1]
               a == Len(out)
               l == Len(m.buf) - m.off
               p == Pieces(sendQ, q, tasks)
               w == Pieces(sendQ', q, tasks)
    <3>2. /\ n <= l
          /\ out' = Bytes(0, a + n) /\ Len(out') = a + n
          /\ sendQ' = IF m.off + n = Len(m.buf) THEN Tail(sendQ)
                      ELSE [sendQ EXCEPT ![1].off = @ + n]
      BY <3>1 DEF Writes
    <3>3. 1 \in DOMAIN sendQ /\ m \in Node /\ m.off < Len(m.buf) /\ NodeRest(m) = Bytes(a, l)
      BY <2>6, WriteFacts
    <3>4. m.off \in Nat /\ Len(m.buf) \in Nat /\ l \in Nat
      BY <3>3, LenProperties DEF Node
    <3>5. InOrder(w, a + n, Received)
      <4>1. CASE m.off + n = Len(m.buf)
        <5>1. sendQ' = Tail(sendQ)  BY <3>2, <4>1
        <5>2. w = Tail(p)  BY <1>4, <2>6, <5>1, PiecesPop
        <5>3. /\ p \in Runs /\ Len(p) = Len(sendQ) + Len(q) + Len(tasks)
              /\ \A j \in 1 .. Len(sendQ) : p[j] = NodeRest(sendQ[j])
          BY <1>4, PiecesFacts
        <5>4. Len(sendQ) \in Nat \ {0} /\ Len(q) \in Nat /\ Len(tasks) \in Nat
          BY <1>4, <2>6, LenProperties, EmptySeq
        <5>5. InOrder(p, a, Received)  BY <1>3
        <5>6. n = l  BY <3>1, <3>4, <4>1
        <5>7. Len(Bytes(a, l)) = l  BY <1>3, <3>4, BytesFacts
        <5> HIDE DEF p, w
        <5>8. p # <<>> /\ p[1] = NodeRest(m)  BY <5>3, <5>4, RunFacts
        <5>9. InOrder(Tail(p), a + Len(p[1]), Received)
          BY <1>3, <5>3, <5>5, <5>8, RunsTail
        <5>. QED  BY <3>3, <5>2, <5>6, <5>7, <5>8, <5>9
      <4>2. CASE m.off + n # Len(m.buf)
        <5>1. sendQ' = [sendQ EXCEPT ![1].off = @ + n]  BY <3>2, <4>2
        <5>2. n \in Nat /\ n < Len(m.buf) - m.off  BY <3>1, <3>2, <3>4, <4>2
        <5>3. InOrder(Pieces([sendQ EXCEPT ![1].off = @ + n], q, tasks), a + n, Received)
          BY <1>3, <1>4, <2>6, <3>3, <5>2, PiecesCut
        <5>. QED  BY <5>1, <5>3
      <4>. QED  BY <4>1, <4>2
    <3>. QED  BY <2>1, <2>6, <3>2, <3>5 DEF OrderInv
  <2>. QED  BY <2>2, <2>3, <2>4, <2>5, <2>6, QueueSteps
<1>. QED  BY <1>8, <1>9, <1>10, <1>11

LEMMA PlaceStep == SessionInv /\ [Next]_vars => PlaceInv'
<1> SUFFICES ASSUME SessionInv, [Next]_vars PROVE PlaceInv'  OBVIOUS
<1>1. TypeOK /\ PlaceInv  BY DEF SessionInv
<1> USE DEF PlaceInv, TypeOK, WireTypeOK
<1>2. CASE UNCHANGED vars  BY <1>1, <1>2 DEF vars, wireVars, netVars
<1>3. CASE ClientStep
  BY <1>1, <1>3 DEF ClientStep, PeerStep, PeerSend, PeerRead, PeerEnd
<1>4. CASE EpollWait
  BY <1>1, <1>4 DEF EpollWait, Mask, Reported, Conditions, netVars
<1>5. CASE EndBatch  BY <1>1, <1>5 DEF EndBatch, wireVars, netVars
<1>6. CASE HupEvent  BY <1>1, <1>6 DEF HupEvent, CloseFd, netVars
<1>7. CASE ConnEvent  BY <1>1, <1>7 DEF ConnEvent, wireVars, netVars
<1>8. CASE BellEvent  BY <1>1, <1>8 DEF BellEvent, wireVars, netVars
<1>9. CASE ReadEagain \/ ReadEnds
  BY <1>1, <1>9 DEF ReadEagain, ReadEnds, Reading, AfterRead, CloseFd, netVars
<1>10. CASE ReadPartOfHead
  BY <1>1, <1>10 DEF ReadPartOfHead, Reading, netVars
<1>11. CASE ReadHead
  <2>1. /\ pc = "read" /\ UNCHANGED <<peer, batch, evs, q>>
        /\ (pc' = AfterRead \/ UNCHANGED <<pc, open>>)
    BY <1>11 DEF ReadHead, Reading, netVars
  <2>. QED  BY <1>1, <2>1 DEF AfterRead
<1>12. CASE ReadBody
  BY <1>1, <1>12 DEF ReadBody, Reading, netVars
<1>13. CASE SendTask  BY <1>1, <1>13 DEF SendTask, wireVars, netVars
<1>14. CASE Dealt  BY <1>1, <1>14 DEF Dealt, wireVars, netVars
<1>15. CASE SendWrite
  <2>1. UNCHANGED <<pc, open, q, batch, evs, peer>>
    BY <1>15 DEF SendWrite, WriteSome, WriteSigpipe, Writing, netVars
  <2>. QED  BY <1>1, <2>1
<1>16. CASE SendEagain  BY <1>1, <1>16 DEF SendEagain, Writing, netVars
<1>17. CASE SendError  BY <1>1, <1>17 DEF SendError, CloseFd, Writing, netVars
<1>18. CASE SendDone  BY <1>1, <1>18 DEF SendDone, Writing, netVars
<1>19. CASE OutWrite
  BY <1>1, <1>19 DEF OutWrite, WriteSome, WriteSigpipe, Writing, netVars
<1>20. CASE OutEagain \/ OutError \/ OutDone \/ OutOnCleared
  BY <1>1, <1>20 DEF OutEagain, OutError, OutDone, OutOnCleared, CloseFd, Writing, netVars
<1>. QED
  BY <1>2, <1>3, <1>4, <1>5, <1>6, <1>7, <1>8, <1>9, <1>10, <1>11, <1>12, <1>13, <1>14,
     <1>15, <1>16, <1>17, <1>18, <1>19, <1>20 DEF Next, ServerStep

\* The types of what is not a sequence.
SmallTypes ==
    /\ peer \in {"up", "fin", "reset", "abort"} /\ got \in Nat
    /\ interest \subseteq {"in", "out"}
    /\ open \in BOOLEAN /\ noSpace \in BOOLEAN /\ ready \in BOOLEAN
    /\ event \in BOOLEAN /\ alive \in BOOLEAN
    /\ pc \in {"wait", "event", "read", "deal", "send", "out"}
    /\ batch \subseteq {"conn", "eventfd"}
    /\ evs \subseteq {"in", "out", "hup"}

LEMMA SmallStep == SessionInv /\ [Next]_vars => SmallTypes'
<1> SUFFICES ASSUME SessionInv, [Next]_vars PROVE SmallTypes'  OBVIOUS
<1>1. SmallTypes  BY DEF SessionInv, TypeOK, WireTypeOK, SmallTypes
<1> USE DEF SmallTypes
<1>2. CASE UNCHANGED vars  BY <1>1, <1>2 DEF vars, wireVars, netVars, edgeVars
<1>3. CASE ClientStep
  <2>1. UNCHANGED <<interest, open, event, alive, pc, batch, evs>>
    BY <1>3 DEF ClientStep, PeerStep, PeerSend, PeerRead, PeerEnd
  <2>2. ready' \in BOOLEAN /\ noSpace' \in BOOLEAN
    BY <1>1, <1>3, Zenon DEF ClientStep, PeerStep, PeerSend, PeerRead, PeerEnd
  <2>3. peer' \in {"up", "fin", "reset", "abort"}
    BY <1>1, <1>3 DEF ClientStep, PeerStep, PeerSend, PeerRead, PeerEnd
  <2>4. got' \in {got, got + 1}
    BY <1>3 DEF ClientStep, PeerStep, PeerSend, PeerRead, PeerEnd
  <2>5. got' \in Nat  BY <1>1, <2>4
  <2>. QED  BY <1>1, <2>1, <2>2, <2>3, <2>5
<1>4. CASE EpollWait
  BY <1>1, <1>4 DEF EpollWait, Mask, Reported, Conditions, netVars
<1>5. CASE EndBatch  BY <1>1, <1>5 DEF EndBatch, wireVars, netVars, edgeVars
<1>6. CASE HupEvent  BY <1>1, <1>6 DEF HupEvent, CloseFd, netVars
<1>7. CASE ConnEvent  BY <1>1, <1>7 DEF ConnEvent, wireVars, netVars, edgeVars
<1>8. CASE BellEvent  BY <1>1, <1>8 DEF BellEvent, wireVars, netVars, edgeVars
<1>9. CASE ReadEagain \/ ReadEnds
  BY <1>1, <1>9 DEF ReadEagain, ReadEnds, Reading, AfterRead, CloseFd, netVars, edgeVars
<1>10. CASE ReadPartOfHead
  BY <1>1, <1>10 DEF ReadPartOfHead, Reading, netVars, edgeVars
<1>11. CASE ReadHead
  BY <1>1, <1>11 DEF ReadHead, Reading, AfterRead, Send, CloseFd, netVars, edgeVars
<1>12. CASE ReadBody
  BY <1>1, <1>12 DEF ReadBody, Reading, Send, netVars, edgeVars
<1>13. CASE SendTask  BY <1>1, <1>13 DEF SendTask, wireVars, netVars, edgeVars
<1>14. CASE Dealt  BY <1>1, <1>14 DEF Dealt, wireVars, netVars, edgeVars
<1>15. CASE SendWrite \/ OutWrite
  <2>1. /\ UNCHANGED <<peer, got, interest, open, noSpace, ready, event, pc, batch, evs>>
        /\ alive' \in {alive, FALSE}
    BY <1>15 DEF SendWrite, OutWrite, WriteSome, WriteSigpipe, Writing, netVars, edgeVars
  <2>. QED  BY <1>1, <2>1
<1>16. CASE SendEagain  BY <1>1, <1>16 DEF SendEagain, ModFd, Writing, netVars
<1>17. CASE SendError  BY <1>1, <1>17 DEF SendError, CloseFd, Writing, netVars
<1>18. CASE SendDone  BY <1>1, <1>18 DEF SendDone, Writing, netVars, edgeVars
<1>19. CASE OutDone  BY <1>1, <1>19 DEF OutDone, ModFd, Writing, netVars
<1>20. CASE OutEagain \/ OutError \/ OutOnCleared
  BY <1>1, <1>20 DEF OutEagain, OutError, OutOnCleared, CloseFd, Writing, netVars, edgeVars
<1>. QED
  BY <1>2, <1>3, <1>4, <1>5, <1>6, <1>7, <1>8, <1>9, <1>10, <1>11, <1>12, <1>13, <1>14,
     <1>15, <1>16, <1>17, <1>18, <1>19, <1>20 DEF Next, ServerStep

RecvTypes ==
    /\ stage \in {"NO_RECV", "HEAD_RECVING", "BODY_RECVING"}
    /\ head \in Seq(Nat) /\ body \in Seq(Nat) /\ bodyLen \in Nat /\ type \in Nat

LEMMA RecvTypeStep == SessionInv /\ [Next]_vars => RecvTypes'
<1> SUFFICES ASSUME SessionInv, [Next]_vars PROVE RecvTypes'  OBVIOUS
<1>1. RecvTypes /\ PlaceInv /\ starts \in Streams
  BY DEF SessionInv, TypeOK, WireTypeOK, RecvTypes
<1> USE DEF RecvTypes
<1>2. CASE UNCHANGED recvVars  BY <1>1, <1>2 DEF recvVars
<1>3. ASSUME NEW i \in Messages, NEW t, Completes(i, t), UNCHANGED <<bodyLen, type>>
      PROVE  RecvTypes'
  BY <1>1, <1>3, EmptySeq DEF Completes
<1>4. CASE ReadPartOfHead
  <2>1. open  BY <1>1, <1>4 DEF ReadPartOfHead, Reading, PlaceInv
  <2>. QED  BY <1>1, <1>4, <2>1, HeadStep
<1>5. CASE ReadHead
  <2>1. open  BY <1>1, <1>5 DEF ReadHead, Reading, PlaceInv
  <2>2. PICK i \in Messages : WholeHeadStep(i)  BY <1>5, <2>1, WholeHead
  <2>3. starts[i] \in Nat /\ BodyLen(i) \in Nat  BY <1>1, StreamFacts
  <2>. QED  BY <1>2, <1>3, <2>2, <2>3, EmptySeq DEF WholeHeadStep
<1>6. CASE ReadBody
  <2>1. open  BY <1>1, <1>6 DEF ReadBody, Reading, PlaceInv
  <2>2. PICK i \in Messages : WholeBodyStep(i)  BY <1>6, <2>1, BodyStep
  <2>. QED  BY <1>1, <1>3, <2>2 DEF WholeBodyStep
<1>. QED  BY <1>2, <1>4, <1>5, <1>6, OtherSteps

QueueTypes ==
    tasks \in Seq(Task) /\ q \in Seq(Task) /\ sendQ \in Seq(Node) /\ out \in Seq(Nat)

LEMMA QueueTypeStep == SessionInv /\ [Next]_vars => QueueTypes'
<1> SUFFICES ASSUME SessionInv, [Next]_vars PROVE QueueTypes'  OBVIOUS
<1>1. QueueTypes /\ RepliesInv /\ starts \in Streams
  BY DEF SessionInv, TypeOK, WireTypeOK, QueueTypes
<1> USE DEF QueueTypes
<1>2. CASE UNCHANGED <<tasks, q, sendQ, out>>  BY <1>1, <1>2
<1>3. CASE /\ open /\ UNCHANGED <<q, sendQ, out>>
           /\ \E i \in Messages : \E t : Completes(i, t)
  <2>0. PICK i \in Messages : \E t : Completes(i, t)  BY <1>3
  <2>1. PICK t : Completes(i, t)  BY <2>0
  <2>2. t \in Task /\ tasks' = Append(tasks, t)
    BY <1>1, <2>1, CompletesFacts DEF Completes
  <2>3. tasks' \in Seq(Task)  BY <1>1, <2>2, AppendProperties
  <2>. QED  BY <1>1, <1>3, <2>3
<1>4. CASE BellEvent
  <2>1. q' = tasks /\ tasks' = <<>> /\ UNCHANGED <<sendQ, out>>
    BY <1>4 DEF BellEvent, wireVars
  <2>. QED  BY <1>1, <2>1, EmptySeq
<1>5. CASE SendTask
  <2> DEFINE n == DataBuf(Head(q).type, Head(q).data)
  <2>1. /\ q # <<>> /\ q' = Tail(q) /\ UNCHANGED <<tasks, out>>
        /\ (sendQ' = sendQ \/ sendQ' = Append(sendQ, n))
    BY <1>5 DEF SendTask, wireVars
  <2>2. 1 \in DOMAIN q /\ Head(q) = q[1]  BY <1>1, <2>1, EmptySeq, LenProperties
  <2>3. n \in Node  BY <1>1, <2>2, TaskFacts DEF RepliesInv
  <2> HIDE DEF n
  <2>4. Append(sendQ, n) \in Seq(Node)  BY <1>1, <2>3, AppendProperties
  <2>5. Tail(q) \in Seq(Task)  BY <1>1, <2>1, HeadTailProperties
  <2>. QED  BY <1>1, <2>1, <2>4, <2>5
<1>6. CASE open /\ sendQ # <<>> /\ WriteSome /\ UNCHANGED <<tasks, q>>
  <2>1. PICK n \in Nat \ {0} : \E i \in Messages : Writes(n, i)  BY <1>6, WriteFacts
  <2> DEFINE m == sendQ[1]
             v == [m EXCEPT !.off = @ + n]
  <2>2. /\ out' \in Seq(Nat)
        /\ sendQ' = Tail(sendQ) \/ sendQ' = [sendQ EXCEPT ![1] = v]
    BY <2>1 DEF Writes
  <2>3. 1 \in DOMAIN sendQ /\ m \in Node  BY <1>6, WriteFacts
  <2> HIDE DEF m
  <2>4. v \in Node
    <3>1. m.off + n \in Nat  BY <2>3 DEF Node
    <3>. QED  BY <2>3, <3>1 DEF Node
  <2> HIDE DEF v
  <2>5. [sendQ EXCEPT ![1] = v] \in Seq(Node)  BY <1>1, <2>3, <2>4, ExceptSeq, LenProperties
  <2>6. Tail(sendQ) \in Seq(Node)  BY <1>1, <1>6, HeadTailProperties
  <2>. QED  BY <1>1, <1>6, <2>2, <2>5, <2>6
<1>. QED  BY <1>2, <1>3, <1>4, <1>5, <1>6, QueueSteps

LEMMA TypeStep == SessionInv /\ [Next]_vars => TypeOK'
<1> SUFFICES ASSUME SessionInv, [Next]_vars PROVE TypeOK'  OBVIOUS
<1>1. SmallTypes' /\ RecvTypes' /\ QueueTypes'
  BY SmallStep, RecvTypeStep, QueueTypeStep
<1>2. starts' \in Streams /\ sent' \in Nat /\ rd' \in Nat
  BY ReadStep DEF SessionInv, TypeOK, WireTypeOK
<1>. QED  BY <1>1, <1>2 DEF TypeOK, WireTypeOK, SmallTypes, RecvTypes, QueueTypes

LEMMA EdgeStep == SessionInv /\ [Next]_vars => EdgeInv'
<1> SUFFICES ASSUME SessionInv, [Next]_vars, open' PROVE EdgeInv'  BY DEF EdgeInv
<1>1. TypeOK /\ PlaceInv /\ EdgeInv /\ CountInv  BY DEF SessionInv
<1>2. open
  <2>1. CASE ReadPartOfHead \/ ReadHead \/ ReadBody
    BY <1>1, <2>1 DEF ReadPartOfHead, ReadHead, ReadBody, Reading, PlaceInv
  <2>. QED  BY <2>1, OtherSteps
<1>3. /\ "in" \in interest
      /\ Unread > 0 \/ peer # "up" => ready \/ InDue
      /\ noSpace => Room = 0
      /\ sendQ # <<>> /\ pc # "send" =>
            /\ "out" \in interest
            /\ noSpace \/ pc = "out" \/ (Room > 0 /\ (ready \/ OutDue))
  BY <1>1, <1>2 DEF EdgeInv
<1>4. /\ rd \in Nat /\ sent \in Nat /\ got \in Nat /\ Len(out) \in Nat
      /\ SendRoom \in Nat \ {0} /\ got <= Len(out) /\ rd <= sent
  BY <1>1, SizesFacts DEF CountInv
<1>5. Room \in Int /\ Unread \in Nat  BY <1>4 DEF Room, Unread
<1>6. UNCHANGED <<out, got>> => Room' = Room  BY DEF Room
<1>7. UNCHANGED <<sent, rd>> => Unread' = Unread  BY DEF Unread
<1> USE DEF EdgeInv, InDue, OutDue
<1>8. CASE UNCHANGED vars
  BY <1>2, <1>3, <1>6, <1>7, <1>8 DEF vars, wireVars, netVars, edgeVars
<1>9. CASE ClientStep /\ (PeerSend \/ PeerEnd)
  <2>1. UNCHANGED <<got, open, rd, out, noSpace, interest, pc, batch, evs, sendQ>> /\ ready'
    BY <1>2, <1>9 DEF ClientStep, PeerSend, PeerEnd
  <2>. QED  BY <1>2, <1>3, <1>6, <2>1
<1>10. CASE ClientStep /\ PeerRead
  <2>1. /\ UNCHANGED <<sent, peer, open, rd, out, interest, pc, batch, evs, sendQ>>
        /\ got' = got + 1 /\ noSpace' = FALSE
        /\ ready' = (ready \/ (noSpace /\ "out" \in interest))
    BY <1>10 DEF ClientStep, PeerRead
  <2>2. Room' = Room + 1  BY <1>4, <2>1 DEF Room
  <2>3. Room' > 0 \/ (~noSpace /\ ~(Room > 0))  BY <1>3, <1>5, <2>2
  <2>4. Unread' = Unread  BY <1>7, <2>1
  <2>5. "in" \in interest' /\ (Unread' > 0 \/ peer' # "up" => ready' \/ InDue')
    BY <1>2, <1>3, <2>1, <2>4
  <2>6. ASSUME sendQ' # <<>>, pc' # "send"
        PROVE  /\ "out" \in interest'
               /\ pc' = "out" \/ (Room' > 0 /\ (ready' \/ OutDue'))
    <3>1. /\ "out" \in interest
          /\ noSpace \/ pc = "out" \/ (Room > 0 /\ (ready \/ OutDue))
      BY <1>3, <2>1, <2>6
    <3>2. OutDue' = OutDue  BY <2>1
    <3> HIDE DEF OutDue
    <3>. QED  BY <2>1, <2>3, <3>1, <3>2
  <2> HIDE DEF InDue, OutDue
  <2>. QED  BY <2>1, <2>5, <2>6
<1>11. CASE EpollWait
  <2>1. /\ pc = "wait" /\ batch = {} /\ pc' = "event" /\ ready' = FALSE
        /\ UNCHANGED <<netVars, rd, out, noSpace, interest, open, sendQ>>
        /\ evs' = (IF ready THEN Mask ELSE {})
        /\ ready /\ Mask # {} => "conn" \in batch'
    BY <1>1, <1>11 DEF EpollWait, PlaceInv
  <2>2. UNCHANGED <<sent, got, peer>>  BY <2>1 DEF netVars
  <2>3. Unread > 0 \/ peer # "up" => "in" \in Mask
    BY <1>3 DEF Mask, Reported, Conditions
  <2>4. Room > 0 /\ "out" \in interest => "out" \in Mask
    BY DEF Mask, Reported, Conditions
  <2> HIDE DEF Mask
  <2>. QED  BY <1>2, <1>3, <1>6, <1>7, <2>1, <2>2, <2>3, <2>4
<1>12. CASE EndBatch
  BY <1>2, <1>3, <1>6, <1>7, <1>12 DEF EndBatch, wireVars, netVars, edgeVars
<1>13. CASE HupEvent  BY <1>13 DEF HupEvent, CloseFd
<1>14. CASE ConnEvent
  BY <1>2, <1>3, <1>6, <1>7, <1>14 DEF ConnEvent, wireVars, netVars, edgeVars
<1>15. CASE BellEvent
  BY <1>2, <1>3, <1>6, <1>7, <1>15 DEF BellEvent, wireVars, netVars, edgeVars
<1>16. CASE ReadEagain
  BY <1>2, <1>3, <1>5, <1>6, <1>7, <1>16
     DEF ReadEagain, Reading, AfterRead, netVars, edgeVars
<1>17. CASE ReadEnds  BY <1>17 DEF ReadEnds, CloseFd
<1>18. CASE ReadPartOfHead \/ ReadHead \/ ReadBody
  <2>1. /\ pc = "read" /\ UNCHANGED <<netVars, out, noSpace, batch, evs, sendQ>>
        /\ UNCHANGED <<pc, edgeVars, open>>
    BY <1>18 DEF ReadPartOfHead, ReadHead, ReadBody, Reading, CloseFd
  <2>2. UNCHANGED <<got, interest, ready>>  BY <2>1 DEF netVars, edgeVars
  <2>. QED  BY <1>2, <1>3, <1>6, <2>1, <2>2
<1>19. CASE SendTask
  <2>1. /\ pc = "deal" /\ pc' = "send"
        /\ UNCHANGED <<wireVars, batch, evs>>
    BY <1>2, <1>19 DEF SendTask
  <2>. QED  BY <1>2, <1>3, <1>6, <1>7, <2>1 DEF wireVars, netVars, edgeVars
<1>20. CASE Dealt
  BY <1>2, <1>3, <1>6, <1>7, <1>20 DEF Dealt, wireVars, netVars, edgeVars
<1>21. CASE (SendWrite \/ OutWrite) /\ WriteSome
  <2>1. /\ sendQ # <<>> /\ pc \in {"send", "out"} /\ WriteSome
        /\ UNCHANGED <<sent, got, peer, rd, batch, evs, noSpace, interest, ready, open, pc>>
    BY <1>21 DEF SendWrite, OutWrite, WriteSome, Writing, netVars, edgeVars
  <2>2. PICK n \in Nat \ {0} : \E i \in Messages : Writes(n, i)
    BY <1>2, <2>1, WriteFacts
  <2>3. n <= Room  BY <2>2 DEF Writes
  <2>4. ~noSpace  BY <1>3, <1>5, <2>3
  <2>. QED  BY <1>2, <1>3, <1>7, <2>1, <2>4
<1>22. CASE (SendWrite \/ OutWrite) /\ WriteSigpipe
  <2>1. UNCHANGED <<sent, got, peer, rd, batch, evs, noSpace, interest, ready, open, pc,
                    out, sendQ>>
    BY <1>22 DEF SendWrite, OutWrite, WriteSigpipe, Writing, netVars, edgeVars
  <2>. QED  BY <1>2, <1>3, <1>6, <1>7, <2>1
<1>23. CASE SendEagain
  <2>1. /\ pc = "send" /\ pc' = "deal" /\ Room = 0 /\ noSpace' = TRUE
        /\ interest' = {"in", "out"} /\ (ready => ready')
        /\ UNCHANGED <<sent, got, peer, rd, batch, evs, open, out, sendQ>>
    BY <1>23 DEF SendEagain, ModFd, Writing, netVars
  <2>. QED  BY <1>2, <1>3, <1>6, <1>7, <2>1
<1>24. CASE SendError  BY <1>24 DEF SendError, CloseFd
<1>25. CASE SendDone
  BY <1>2, <1>3, <1>6, <1>7, <1>25 DEF SendDone, Writing, netVars, edgeVars
<1>26. CASE OutEagain
  BY <1>2, <1>3, <1>6, <1>7, <1>26 DEF OutEagain, Writing, netVars, edgeVars
<1>27. CASE OutError  BY <1>27 DEF OutError, CloseFd
<1>28. CASE OutDone
  <2>1. /\ pc = "out" /\ pc' = "event" /\ sendQ = <<>>
        /\ interest' = {"in"} /\ (ready => ready')
        /\ UNCHANGED <<sent, got, peer, rd, batch, evs, open, out, sendQ, noSpace>>
    BY <1>28 DEF OutDone, ModFd, Writing, netVars
  <2>. QED  BY <1>2, <1>3, <1>6, <1>7, <2>1
<1>29. CASE OutOnCleared  BY <1>2, <1>29 DEF OutOnCleared
<1>30. CASE SendWrite \/ OutWrite
  BY <1>21, <1>22, <1>30 DEF SendWrite, OutWrite
<1>. QED
  BY <1>8, <1>9, <1>10, <1>11, <1>12, <1>13, <1>14, <1>15, <1>16, <1>17, <1>18, <1>19,
     <1>20, <1>23, <1>24, <1>25, <1>26, <1>27, <1>28, <1>29, <1>30
     DEF Next, ServerStep, ClientStep, PeerStep

-----------------------------------------------------------------------------
(* The theorems.                                                           *)

LEMMA InitInv == Init => SessionInv
<1> SUFFICES ASSUME Init PROVE SessionInv  OBVIOUS
<1> USE DEF Init, WireInit
<1>1. starts \in Streams /\ HeadLen \in Nat \ {0} /\ SendRoom \in Nat \ {0}
  BY SizesAssumption
<1>2. /\ \A S : <<>> \in Seq(S)
      /\ Len(<<>>) = 0 /\ Len(out) = 0 /\ Len(head) = 0 /\ Len(body) = 0
  BY EmptySeq
<1>3. TypeOK  BY <1>1, <1>2 DEF TypeOK, WireTypeOK
<1>4. PlaceInv  BY DEF PlaceInv
<1>5. CountInv  BY <1>1, <1>2, StreamFacts DEF CountInv
<1>6. Received = 0
  <2>1. rd = 0 /\ Len(head) = 0 /\ Len(body) = 0  BY <1>2
  <2>2. 0 - 0 - 0 = 0  OBVIOUS
  <2>. QED  BY <2>1, <2>2, Zenon DEF Received
<1>7. Bytes(0, 0) = <<>>  BY BytesFacts
<1>8. RecvInv
  <2>1. 1 \in DOMAIN starts /\ starts[1] = 0  BY <1>1, StreamFacts
  <2>2. Receives(1)  BY <1>6, <2>1 DEF Receives
  <2>3. head = Bytes(Received, Len(head)) /\ body = Bytes(Received + Len(head), Len(body))
    BY <1>2, <1>6, <1>7
  <2>. QED  BY <1>2, <1>6, <2>1, <2>2, <2>3 DEF RecvInv
<1>9. RepliesInv  BY <1>2 DEF RepliesInv
<1>10. OrderInv
  <2> DEFINE e == <<>>
             p == Pieces(e, e, e)
  <2>0. e \in Seq(Node) /\ e \in Seq(Task) /\ Len(e) = 0  BY <1>2
  <2> HIDE DEF e
  <2>1. p \in Runs /\ Len(p) = Len(e) + Len(e) + Len(e)  BY <2>0, PiecesFacts
  <2>2. Len(p) = 0  BY <2>0, <2>1
  <2>3. p = <<>>  BY <2>1, <2>2, RunFacts
  <2> HIDE DEF p
  <2>4. InOrder(p, 0, 0)  BY <2>3, NoRuns
  <2>5. out = Bytes(0, Len(out))  BY <1>2, <1>7
  <2>. QED  BY <1>2, <1>6, <2>4, <2>5 DEF OrderInv, e, p
<1>11. EdgeInv
  <2>1. Unread = 0  BY DEF Unread
  <2>. QED  BY <2>1 DEF EdgeInv
<1>. QED  BY <1>3, <1>4, <1>5, <1>8, <1>9, <1>10, <1>11 DEF SessionInv

LEMMA StepInv == SessionInv /\ [Next]_vars => SessionInv'
BY TypeStep, PlaceStep, CountStep, RecvStep, RepliesStep, OrderStep, EdgeStep DEF SessionInv

LEMMA SessionInvHolds == Spec => []SessionInv
<1>1. SessionInv /\ [Next]_vars => SessionInv'  BY StepInv
<1>. QED  BY <1>1, InitInv, PTL DEF Spec

\* Session::Send, deal_enque_task, send_data and handle_epollout neither lose, double nor
\* overtake a byte: written, unsent and being received are, in order, what was read.
THEOREM NothingIsOvertaken == Spec => []PipelineInOrder
<1>1. SessionInv => PipelineInOrder
  <2> SUFFICES ASSUME SessionInv, open
               PROVE  /\ out = Bytes(0, Len(out))
                      /\ InOrder(Unsent, Len(out), Received)
                      /\ head \o body = Bytes(Received, Len(head) + Len(body))
    BY DEF PipelineInOrder, SessionInv
  <2>1. TypeOK /\ RepliesInv /\ OrderInv /\ RecvInv  BY DEF SessionInv
  <2>2. \A i \in DOMAIN q : TaskBytes(q[i]) = Reply(q[i])
    BY <2>1, SizesFacts, TaskFacts DEF RepliesInv
  <2>3. \A i \in DOMAIN tasks : TaskBytes(tasks[i]) = Reply(tasks[i])
    BY <2>1, SizesFacts, TaskFacts DEF RepliesInv
  <2>4. Unsent = Pieces(sendQ, q, tasks)
    <3>1. [i \in DOMAIN q |-> TaskBytes(q[i])] = [i \in DOMAIN q |-> Reply(q[i])]
      BY <2>2
    <3>2. [i \in DOMAIN tasks |-> TaskBytes(tasks[i])] = [i \in DOMAIN tasks |-> Reply(tasks[i])]
      BY <2>3
    <3>. QED  BY <3>1, <3>2, Zenon DEF Unsent, Pieces
  <2>5. head \o body = Bytes(Received, Len(head) + Len(body))
    <3> DEFINE a == Received
               m == Len(head)
               n == Len(body)
    <3>1. a \in Nat /\ m \in Nat /\ n \in Nat  BY <2>1, SizesFacts DEF RecvInv
    <3>2. head = Bytes(a, m) /\ body = Bytes(a + m, n)  BY <2>1 DEF RecvInv
    <3> HIDE DEF a, m, n
    <3>3. Bytes(a, m) \o Bytes(a + m, n) = Bytes(a, m + n)  BY <3>1, BytesJoin
    <3>4. head \o body = Bytes(a, m + n)  BY <3>2, <3>3, Zenon
    <3>. QED  BY <3>4 DEF a, m, n
  <2>. QED  BY <2>1, <2>4, <2>5 DEF OrderInv
<1>. QED  BY <1>1, SessionInvHolds, PTL

\* The read loop never calls read for no bytes, whose result 0 is taken for the end.
THEOREM EveryReadAsks == Spec => []AlwaysAsksForBytes
<1>1. SessionInv => AlwaysAsksForBytes
  <2> SUFFICES ASSUME SessionInv, open PROVE Remain > 0  BY DEF AlwaysAsksForBytes
  <2>1. TypeOK /\ RecvInv  BY DEF SessionInv
  <2>2. CASE stage = "BODY_RECVING"
    BY <2>1, <2>2, SizesFacts DEF RecvInv, Remain
  <2>3. CASE stage # "BODY_RECVING"
    <3>1. Len(head) < HeadLen
      <4>1. stage \in {"NO_RECV", "HEAD_RECVING"}  BY <2>1, <2>3 DEF TypeOK
      <4>. QED  BY <2>1, <4>1, SizesFacts, EmptySeq DEF RecvInv
    <3>. QED  BY <2>1, <2>3, <3>1, SizesFacts DEF Remain
  <2>. QED  BY <2>2, <2>3
<1>. QED  BY <1>1, SessionInvHolds, PTL

\* The thread never waits in epoll_wait for an edge that has already been used up.
THEOREM EveryEdgeIsUsed == Spec => []NoEdgeIsLost
<1>1. SessionInv => NoEdgeIsLost
  <2> SUFFICES ASSUME SessionInv, pc = "wait", open,
                      Unread > 0 \/ peer # "up" \/ (sendQ # <<>> /\ Room > 0)
               PROVE  ready
    BY DEF NoEdgeIsLost
  <2>1. batch = {} /\ ~InDue /\ ~OutDue
    BY DEF SessionInv, PlaceInv, InDue, OutDue
  <2>2. EdgeInv  BY DEF SessionInv
  <2>3. CASE Unread > 0 \/ peer # "up"  BY <2>1, <2>2, <2>3 DEF EdgeInv
  <2>4. CASE sendQ # <<>> /\ Room > 0  BY <2>1, <2>2, <2>4 DEF EdgeInv
  <2>. QED  BY <2>3, <2>4
<1>. QED  BY <1>1, SessionInvHolds, PTL

-----------------------------------------------------------------------------
(* The connection implements the safety part of EchoService.               *)

LEMMA EchoInit == Init => Echo!Init
<1> SUFFICES ASSUME Init PROVE Echo!Init  OBVIOUS
<1>1. starts \in Streams /\ sent = 0 /\ out = <<>> /\ open /\ alive /\ peer = "up"
  BY DEF Init, WireInit
<1>2. ~Refused
  <2> SUFFICES ASSUME NEW i \in Messages PROVE ~(0 >= starts[i] + HeadLen)
    BY <1>1 DEF Refused
  <2>1. starts[i] \in Nat /\ HeadLen \in Nat \ {0}
    BY <1>1, StreamFacts, SizesAssumption
  <2>. QED  BY <2>1
<1>3. open = TRUE /\ alive = TRUE  BY DEF Init, WireInit
<1>. QED  BY <1>1, <1>2, <1>3 DEF Echo!Init

LEMMA EchoStep == SessionInv /\ [Next]_vars => [Echo!Next]_(Echo!vars)
<1> SUFFICES ASSUME SessionInv, [Next]_vars PROVE [Echo!Next]_(Echo!vars)  OBVIOUS
<1> DEFINE E == {starts[i + 1] : i \in Messages}
           O == open /\ alive
           M == peer # "up" \/ Refused
<1>1. TypeOK /\ PlaceInv /\ CountInv /\ RecvInv  BY DEF SessionInv
<1>2. starts' = starts /\ sent' \in Nat /\ sent <= sent'  BY ReadStep
<1>3. E' = E  BY <1>2 DEF Messages
<1>4. /\ starts \in Streams /\ sent \in Nat /\ rd \in Nat /\ HeadLen \in Nat
      /\ rd <= sent /\ Len(out) \in Nat
  BY <1>1, SizesFacts DEF CountInv
<1>5. sent' = sent => (Refused' <=> Refused)
  BY <1>2 DEF Refused, Messages, BodyLen
<1>6. Refused => Refused'
  <2>1. \A i \in Messages : starts[i] \in Nat  BY <1>4, StreamFacts
  <2>. QED  BY <1>2, <1>4, <2>1 DEF Refused, Messages, BodyLen
<1>7. ASSUME UNCHANGED <<sent, peer, out, open, alive>> PROVE UNCHANGED Echo!vars
  <2>1. M' = M /\ O' = O  BY <1>5, <1>7
  <2>. QED  BY <1>3, <1>7, <2>1 DEF Echo!vars
<1>8. ASSUME UNCHANGED <<sent, peer, out>>, ~open' \/ ~alive', M PROVE Echo!Next
  <2>1. M' = M /\ O' = FALSE  BY <1>5, <1>8
  <2>. QED  BY <1>3, <1>8, <2>1 DEF Echo!Next, Echo!Close
<1>9. CASE UNCHANGED vars  BY <1>7, <1>9 DEF vars, wireVars, netVars
<1>10. CASE ClientStep /\ PeerSend
  <2>1. sent' = sent + 1 /\ UNCHANGED <<out, open, alive, peer>>
    BY <1>10 DEF ClientStep, PeerSend
  <2>2. M' \in {M, TRUE} /\ O' = O  BY <1>6, <2>1
  <2>. QED  BY <1>3, <2>1, <2>2 DEF Echo!Next, Echo!Request
<1>11. CASE ClientStep /\ PeerRead
  <2>1. UNCHANGED <<sent, peer, out, open, alive>>  BY <1>11 DEF ClientStep, PeerRead
  <2>. QED  BY <1>7, <2>1
<1>12. CASE ClientStep /\ PeerEnd
  <2>1. peer' # "up" /\ UNCHANGED <<sent, out, open, alive>>
    BY <1>12 DEF ClientStep, PeerEnd
  <2>2. M' = TRUE /\ O' = O  BY <2>1
  <2>. QED  BY <1>3, <2>1, <2>2 DEF Echo!Next, Echo!End
<1>13. CASE \/ EpollWait \/ EndBatch \/ ConnEvent \/ BellEvent \/ SendTask \/ Dealt
  <2>1. UNCHANGED <<sent, peer, out, open, alive>>
    BY <1>13 DEF EpollWait, EndBatch, ConnEvent, BellEvent, SendTask, Dealt,
                 wireVars, netVars
  <2>. QED  BY <1>7, <2>1
<1>14. CASE HupEvent
  <2>1. /\ UNCHANGED <<sent, peer, out>> /\ ~open'
        /\ "conn" \in batch /\ "hup" \in evs
    BY <1>14 DEF HupEvent, CloseFd, netVars
  <2>2. M  BY <1>1, <2>1 DEF PlaceInv
  <2>. QED  BY <1>8, <2>1, <2>2
<1>15. CASE ReadEagain \/ ReadPartOfHead \/ ReadBody
  <2>1. UNCHANGED <<sent, peer, out, open, alive>>
    BY <1>15 DEF ReadEagain, ReadPartOfHead, ReadBody, Reading, netVars
  <2>. QED  BY <1>7, <2>1
<1>16. CASE ReadEnds
  <2>1. /\ UNCHANGED <<sent, peer, out>> /\ ~open' /\ open
        /\ Remain = 0 \/ peer # "up"
    BY <1>1, <1>16 DEF ReadEnds, Reading, CloseFd, PlaceInv, netVars
  <2>2. Remain # 0
    <3>1. stage = "BODY_RECVING" => Len(body) < bodyLen  BY <1>1, <2>1 DEF RecvInv
    <3>2. stage # "BODY_RECVING" => Len(head) < HeadLen
      BY <1>1, <2>1, SizesFacts, EmptySeq DEF RecvInv, TypeOK
    <3>. QED  BY <1>1, <3>1, <3>2, SizesFacts DEF Remain
  <2>3. M  BY <2>1, <2>2
  <2>. QED  BY <1>8, <2>1, <2>3
<1>17. CASE ReadHead
  <2>1. /\ open /\ UNCHANGED <<sent, peer, out, alive>>
    BY <1>1, <1>17 DEF ReadHead, Reading, PlaceInv, netVars
  <2>2. PICK i \in Messages : rd' = starts[i] + HeadLen /\ WholeHeadStep(i)
    BY <1>17, <2>1, WholeHead
  <2>3. CASE UNCHANGED open  BY <1>7, <2>1, <2>3
  <2>4. CASE ~open' /\ BodyLen(i) > BuffSize
    <3>1. rd' <= sent  BY <1>17, <2>1, WholeHead
    <3>2. sent >= starts[i] + HeadLen  BY <1>4, <2>2, <3>1
    <3>3. Refused  BY <2>4, <3>2 DEF Refused
    <3>. QED  BY <1>8, <2>1, <2>4, <3>3
  <2>. QED  BY <2>2, <2>3, <2>4 DEF WholeHeadStep
<1>18. CASE SendEagain \/ SendDone \/ OutEagain \/ OutDone \/ OutOnCleared
  <2>1. UNCHANGED <<sent, peer, out, open, alive>>
    BY <1>18 DEF SendEagain, SendDone, OutEagain, OutDone, OutOnCleared, Writing, netVars
  <2>. QED  BY <1>7, <2>1
<1>19. CASE SendError \/ OutError
  <2>1. UNCHANGED <<sent, peer, out>> /\ ~open' /\ peer = "reset"
    BY <1>19 DEF SendError, OutError, CloseFd, Writing, netVars
  <2>2. M  BY <2>1
  <2>. QED  BY <1>8, <2>1, <2>2
<1>20. CASE (SendWrite \/ OutWrite) /\ WriteSigpipe
  <2>1. UNCHANGED <<sent, peer, out>> /\ ~alive' /\ peer = "abort"
    BY <1>20 DEF SendWrite, OutWrite, WriteSigpipe, Writing, netVars
  <2>2. M  BY <2>1
  <2>. QED  BY <1>8, <2>1, <2>2
<1>21. CASE alive /\ (SendWrite \/ OutWrite) /\ WriteSome
  <2>1. /\ open /\ sendQ # <<>> /\ WriteSome
        /\ UNCHANGED <<sent, peer, open, alive>>
    BY <1>1, <1>21 DEF SendWrite, OutWrite, WriteSome, Writing, PlaceInv, netVars
  <2>2. PICK n \in Nat \ {0}, i \in Messages : Writes(n, i)  BY <2>1, WriteFacts
  <2>3. /\ Len(out) + n <= starts[i + 1] /\ starts[i + 1] <= rd
        /\ out' = out \o [k \in 1 .. n |-> Len(out) + k]
    BY <2>2 DEF Writes, Bytes
  <2>4. starts[i + 1] \in Nat  BY <1>4, StreamFacts
  <2>5. /\ n \in 1 .. sent /\ starts[i + 1] \in E
        /\ Len(out) + n <= starts[i + 1] /\ starts[i + 1] <= sent
    BY <1>4, <2>3, <2>4
  <2>6. M' = M /\ O' = O /\ O  BY <1>5, <1>21, <2>1
  <2> HIDE DEF E, O, M
  <2>7. \E e \in E : Len(out) + n <= e /\ e <= sent  BY <2>5
  <2>8. Echo!Reply
    BY <1>3, <2>1, <2>3, <2>5, <2>6, <2>7 DEF Echo!Reply, E, O, M
  <2>. QED  BY <2>8 DEF Echo!Next
<1>22. CASE alive /\ (SendWrite \/ OutWrite)
  BY <1>20, <1>21, <1>22 DEF SendWrite, OutWrite
<1>. QED
  BY <1>9, <1>10, <1>11, <1>12, <1>13, <1>14, <1>15, <1>16, <1>17, <1>18, <1>19, <1>22
     DEF Next, ServerStep, ClientStep, PeerStep

\* A connection of the C++ server writes back the bytes it was sent, in order and none
\* twice, only of messages that have arrived whole, and closes for a reason only.
THEOREM SessionIsAnEcho == Spec => Echo!Safety
<1>1. Init => Echo!Init  BY EchoInit
<1>2. SessionInv /\ [Next]_vars => [Echo!Next]_(Echo!vars)  BY EchoStep
<1>. QED  BY <1>1, <1>2, SessionInvHolds, PTL DEF Spec, Echo!Safety
=============================================================================
