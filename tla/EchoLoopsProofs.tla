---------------------------- MODULE EchoLoopsProofs ----------------------------
(***************************************************************************)
(* Theorems about EchoLoops, for all five programs and any clients, slots  *)
(* and buffer sizes: what a client gets back are bytes of its own, in      *)
(* order, and all of them unless the socket was full.                      *)
(***************************************************************************)
EXTENDS EchoLoops, TLAPS, SequenceTheorems, FiniteSetTheorems

-----------------------------------------------------------------------------
(* Where main stands, and what it has in its buffer.                       *)

PlaceInv ==
    /\ TypeOK
    /\ pc \in {"read", "write"} <=> cur \in Conns
    /\ pc # "write" => buf = <<>>

\* The clients in slots are as many as there are slots, at most.
SlotsInv == Level => IsFiniteSet(Opened) /\ Cardinality(Opened) <= MaxClients

\* The bytes of c from a on.
OwnBytes(c, a, n) == [b \in 1 .. n |-> <<c, a + b>>]

\* The buffer holds the last bytes that were read, and nothing of it is sent.
Behind(c)  == IF c = cur THEN Len(buf) ELSE 0

BufferInv ==
    pc = "write" => /\ conn[cur] = "open"
                    /\ buf = OwnBytes(cur, rd[cur] - Len(buf), Len(buf))

\* What c was sent are its own bytes in order, up to where the buffer begins, and all of
\* them unless the socket was full.
SentOf(c) ==
    /\ Behind(c) <= rd[c]
    /\ conn[c] \in {"none", "pending"} => rd[c] = 0 /\ out[c] = <<>>
    /\ \A n \in DOMAIN out[c] :
          /\ out[c][n][1] = c /\ out[c][n][2] <= rd[c] - Behind(c)
          /\ n > 1 => out[c][n - 1][2] < out[c][n][2]
    /\ conn[c] = "open" /\ c \notin lossy => Len(out[c]) = rd[c] - Behind(c)

BytesInv == BufferInv /\ \A c \in Conns : SentOf(c)

LoopsInv == PlaceInv /\ SlotsInv /\ BytesInv

-----------------------------------------------------------------------------
(* Types and places.                                                       *)

LEMMA ReadFacts ==
    ASSUME NetTypeOK, NEW c \in Conns, Unread(c) > 0
    PROVE  /\ ReadLen(c) \in Nat \ {0} /\ ReadLen(c) <= Unread(c) /\ ReadLen(c) <= BufferSize
           /\ ReadBytes(c) = OwnBytes(c, rd[c], ReadLen(c))
           /\ ReadBytes(c) \in Seq(Conns \X Nat) /\ Len(ReadBytes(c)) = ReadLen(c)
<1>1. sent[c] \in Nat /\ rd[c] \in Nat  BY DEF NetTypeOK
<1>2. ReadLen(c) \in Nat \ {0} /\ ReadLen(c) <= Unread(c) /\ ReadLen(c) <= BufferSize
  BY <1>1, ClientsAssumption DEF ReadLen, Unread
<1>3. \A b \in 1 .. ReadLen(c) : rd[c] + b \in Nat  BY <1>1
<1>4. ReadBytes(c) \in [1 .. ReadLen(c) -> Conns \X Nat]  BY <1>3 DEF ReadBytes
<1>5. ReadBytes(c) \in Seq(Conns \X Nat)  BY <1>2, <1>4, SeqDef
<1>6. ReadBytes(c) = OwnBytes(c, rd[c], ReadLen(c))  BY DEF ReadBytes, OwnBytes
<1>. QED  BY <1>2, <1>4, <1>5, <1>6, LenProperties

\* The buffer cut in two, where a write takes k bytes of it.
LEMMA CutFacts ==
    ASSUME NEW b \in Seq(Conns \X Nat), NEW k \in Nat \ {0}, k <= Len(b)
    PROVE  LET f == SubSeq(b, 1, k)
               g == SubSeq(b, k + 1, Len(b)) IN
           /\ f \in Seq(Conns \X Nat) /\ Len(f) = k /\ \A l \in 1 .. k : f[l] = b[l]
           /\ g \in Seq(Conns \X Nat) /\ Len(g) = Len(b) - k
           /\ \A l \in 1 .. Len(b) - k : g[l] = b[k + l]
<1> DEFINE f == SubSeq(b, 1, k)
           g == SubSeq(b, k + 1, Len(b))
           n == Len(b)
<1>1. n \in Nat /\ \A l \in 1 .. n : b[l] \in Conns \X Nat  BY LenProperties, ElementOfSeq
<1>2. k <= n  OBVIOUS
<1> HIDE DEF n
<1>3. \A l \in 1 .. k : b[l] \in Conns \X Nat  BY <1>1, <1>2
<1>4. /\ f \in Seq(Conns \X Nat)
      /\ Len(f) = IF 1 <= k THEN k - 1 + 1 ELSE 0
      /\ \A l \in 1 .. k - 1 + 1 : f[l] = b[1 + l - 1]
  BY <1>3, SubSeqProperties
<1>5. \A l \in k + 1 .. n : b[l] \in Conns \X Nat  BY <1>1
<1>6. k + 1 \in Int /\ n \in Int  BY <1>1
<1>7. /\ g \in Seq(Conns \X Nat)
      /\ Len(g) = IF k + 1 <= n THEN n - (k + 1) + 1 ELSE 0
      /\ \A l \in 1 .. n - (k + 1) + 1 : g[l] = b[(k + 1) + l - 1]
  BY <1>5, <1>6, SubSeqProperties DEF n
<1> HIDE DEF f, g
<1>8. Len(f) = k /\ \A l \in 1 .. k : f[l] = b[l]  BY <1>4
<1>9. Len(g) = n - k /\ \A l \in 1 .. n - k : g[l] = b[k + l]
  <2>1. Len(g) = n - k  BY <1>1, <1>2, <1>7
  <2>2. ASSUME NEW l \in 1 .. n - k PROVE g[l] = b[k + l]
    <3>1. l \in 1 .. n - (k + 1) + 1 /\ (k + 1) + l - 1 = k + l  BY <1>1
    <3>. QED  BY <1>7, <3>1
  <2>. QED  BY <2>1, <2>2
<1>. QED  BY <1>4, <1>7, <1>8, <1>9 DEF f, g, n

\* Closing keeps the types.
LEMMA CloseFacts ==
    ASSUME PlaceInv, NEW c \in Conns, Close(c)
    PROVE  /\ conn' \in [Conns -> {"none", "pending", "open", "refused", "closed"}]
           /\ conn'[c] = "closed" /\ \A d \in Conns \ {c} : conn'[d] = conn[d]
           /\ edge' \subseteq Conns \cup {LISTEN}
BY DEF PlaceInv, TypeOK, NetTypeOK, Close

-----------------------------------------------------------------------------
(* The slots.                                                              *)

LEMMA SlotsClient ==
    ASSUME PlaceInv, SlotsInv, NEW c \in Conns, ClientStep(c)
    PROVE  SlotsInv'
<1>1. conn \in [Conns -> {"none", "pending", "open", "refused", "closed"}]
  BY DEF PlaceInv, TypeOK, NetTypeOK
<1>2. UNCHANGED <<program, slotless>>  BY DEF ClientStep
<1>3. \A d \in Conns : conn'[d] = "open" <=> conn[d] = "open"
  <2>1. CASE Connect(c)  BY <1>1, <2>1 DEF Connect
  <2>2. CASE ClientSend(c) \/ ClientRead(c) \/ ClientEnd(c)
    BY <2>2 DEF ClientSend, ClientRead, ClientEnd
  <2>. QED  BY <2>1, <2>2 DEF ClientStep
<1>4. Opened' = Opened  BY <1>2, <1>3 DEF Opened, Held
<1>. QED  BY <1>2, <1>4 DEF SlotsInv, Level

LEMMA SlotsServer ==
    ASSUME PlaceInv, SlotsInv, ServerStep
    PROVE  SlotsInv'
<1>0. /\ conn \in [Conns -> {"none", "pending", "open", "refused", "closed"}]
      /\ MaxClients \in Nat
  BY LoopsAssumption DEF PlaceInv, TypeOK, NetTypeOK
<1>1. UNCHANGED program
  BY DEF ServerStep, PollWait, EpollWait, ListenEvent, BatchEnd, AcceptEnds,
         BlockingAcceptFails, HupEvent,
         ConnEvent, EpollAccept, PollAccept, BlockingAccept, ReadSome, ReadEagain, ReadEnd,
         ReadError, WriteSome, WriteEagain, WriteError, SendCut, Sigpipe, serverVars
<1>k. ASSUME UNCHANGED <<conn, slotless>>  PROVE SlotsInv'
  BY <1>1, <1>k DEF SlotsInv, Opened, Held, Level
<1>s. ASSUME Opened' \subseteq Opened  PROVE SlotsInv'
  <2>1. SUFFICES ASSUME Level
                 PROVE  IsFiniteSet(Opened') /\ Cardinality(Opened') <= MaxClients
    BY <1>1 DEF SlotsInv, Level
  <2>2. IsFiniteSet(Opened) /\ Cardinality(Opened) <= MaxClients  BY <2>1 DEF SlotsInv
  <2>3. IsFiniteSet(Opened') /\ Cardinality(Opened') <= Cardinality(Opened)
    BY <1>s, <2>2, FS_Subset
  <2>4. Cardinality(Opened) \in Nat /\ Cardinality(Opened') \in Nat
    BY <2>2, <2>3, FS_CardinalityType
  <2>. QED  BY <1>0, <2>2, <2>3, <2>4
<1>c. ASSUME NEW c, Close(c), UNCHANGED slotless  PROVE SlotsInv'
  <2>1. Opened' \subseteq Opened  BY <1>0, <1>c DEF Close, Opened, Held
  <2>. QED  BY <1>s, <2>1
<1>a. ASSUME NEW c \in Conns, Opened' \subseteq Opened \cup {c}, Level,
             Cardinality(Opened) < MaxClients
      PROVE  SlotsInv'
  <2>1. IsFiniteSet(Opened)  BY <1>a DEF SlotsInv
  <2>2. CASE Opened' \subseteq Opened  BY <1>s, <2>2
  <2>3. CASE ~(Opened' \subseteq Opened)
    <3>1. c \notin Opened  BY <1>a, <2>3
    <3>2. IsFiniteSet(Opened \cup {c}) /\ Cardinality(Opened \cup {c}) = Cardinality(Opened) + 1
      BY <2>1, <3>1, FS_AddElement
    <3>3. IsFiniteSet(Opened') /\ Cardinality(Opened') <= Cardinality(Opened \cup {c})
      BY <1>a, <3>2, FS_Subset
    <3>4. Cardinality(Opened) \in Nat /\ Cardinality(Opened') \in Nat
      BY <2>1, <3>3, FS_CardinalityType
    <3>5. Cardinality(Opened') <= MaxClients  BY <1>0, <1>a, <3>2, <3>3, <3>4
    <3>. QED  BY <3>3, <3>5 DEF SlotsInv
  <2>. QED  BY <2>2, <2>3
<1>2. CASE PollWait \/ EpollWait \/ ListenEvent \/ BatchEnd \/ AcceptEnds \/ BlockingAcceptFails
  BY <1>k, <1>2
     DEF PollWait, EpollWait, ListenEvent, BatchEnd, AcceptEnds, BlockingAcceptFails, netVars
<1>3. CASE \E c \in Conns : HupEvent(c) \/ ConnEvent(c)
  <2>1. ASSUME NEW c \in Conns, HupEvent(c) PROVE SlotsInv'
    BY <1>c, <2>1 DEF HupEvent
  <2>2. ASSUME NEW c \in Conns, ConnEvent(c) PROVE SlotsInv'
    BY <1>k, <2>2 DEF ConnEvent, netVars
  <2>. QED  BY <1>3, <2>1, <2>2
<1>4. ASSUME NEW c \in Conns, EpollAccept(c) PROVE SlotsInv'
  BY <1>1, <1>4 DEF EpollAccept, SlotsInv, Level
<1>5. ASSUME NEW c \in Conns, PollAccept(c) PROVE SlotsInv'
  <2>1. UNCHANGED slotless /\ Level  BY <1>5 DEF PollAccept, serverVars, Level
  <2>2. CASE Cardinality(Opened) < MaxClients
    <3>1. Opened' \subseteq Opened \cup {c}
      BY <1>0, <1>5, <2>1, <2>2 DEF PollAccept, Opened, Held
    <3>. QED  BY <1>a, <2>1, <2>2, <3>1
  <2>3. CASE ~(Cardinality(Opened) < MaxClients)
    <3>1. Opened' \subseteq Opened
      BY <1>0, <1>5, <2>1, <2>3 DEF PollAccept, Opened, Held
    <3>. QED  BY <1>s, <3>1
  <2>. QED  BY <2>2, <2>3
<1>6. ASSUME NEW c \in Conns, BlockingAccept(c) PROVE SlotsInv'
  <2>1. Level  BY <1>6 DEF BlockingAccept, Level
  <2>2. CASE Cardinality(Opened) < MaxClients
    <3>1. Opened' \subseteq Opened \cup {c}
      BY <1>0, <1>6, <2>2 DEF BlockingAccept, Opened, Held
    <3>. QED  BY <1>a, <2>1, <2>2, <3>1
  <2>3. CASE ~(Cardinality(Opened) < MaxClients)
    <3>1. Opened' \subseteq Opened
      BY <1>0, <1>6, <2>3 DEF BlockingAccept, Opened, Held
    <3>. QED  BY <1>s, <3>1
  <2>. QED  BY <2>2, <2>3
<1>7. CASE ReadSome \/ ReadEagain
  BY <1>k, <1>7 DEF ReadSome, ReadEagain, netVars
<1>8. CASE ReadEnd \/ ReadError \/ WriteError
  BY <1>c, <1>8 DEF ReadEnd, ReadError, WriteError
<1>9. CASE WriteSome \/ WriteEagain \/ SendCut \/ Sigpipe
  BY <1>k, <1>9 DEF WriteSome, WriteEagain, SendCut, Sigpipe, netVars
<1>. QED
  BY <1>2, <1>3, <1>4, <1>5, <1>6, <1>7, <1>8, <1>9 DEF ServerStep

-----------------------------------------------------------------------------
(* Types and places, once the slots are known to suffice.                  *)

LEMMA ClientPlaces ==
    ASSUME PlaceInv, SlotsInv', NEW c \in Conns, ClientStep(c)
    PROVE  PlaceInv'
<1>1. /\ NetTypeOK
      /\ UNCHANGED <<program, limit, alive, pc, batch, hups, cur, buf, slotless, lossy, dropped>>
  BY DEF PlaceInv, TypeOK, ClientStep
<1>2. edge' \subseteq Conns \cup {LISTEN}
  BY DEF PlaceInv, TypeOK, ClientStep, Edge
<1>3. NetTypeOK'
  <2>1. CASE Connect(c)  BY <1>1, <2>1 DEF NetTypeOK, Connect, clientVars
  <2>2. CASE ClientSend(c)
    <3>1. sent' = [sent EXCEPT ![c] = sent[c] + 1]  BY <2>2 DEF ClientSend
    <3>. QED  BY <1>1, <2>2, <3>1 DEF NetTypeOK, ClientSend
  <2>3. CASE ClientRead(c)
    <3>1. got' = [got EXCEPT ![c] = got[c] + 1]  BY <2>3 DEF ClientRead
    <3>2. got' \in [Conns -> Nat]  BY <1>1, <3>1 DEF NetTypeOK
    <3>. QED  BY <1>1, <2>3, <3>2 DEF NetTypeOK, ClientRead
  <2>4. CASE ClientEnd(c)
    <3>1. peer' \in [Conns -> {"up", "fin", "reset", "abort"}]
      BY <1>1, <2>4, ClientsAssumption DEF NetTypeOK, ClientEnd
    <3>. QED  BY <1>1, <2>4, <3>1 DEF NetTypeOK, ClientEnd
  <2>. QED  BY <2>1, <2>2, <2>3, <2>4 DEF ClientStep
<1>. QED  BY <1>1, <1>2, <1>3 DEF PlaceInv, TypeOK, SlotsInv

LEMMA ServerPlaces ==
    ASSUME PlaceInv, BytesInv, SlotsInv', ServerStep
    PROVE  PlaceInv'
<1>0. /\ NetTypeOK /\ program \in Programs /\ limit \in FdLimits /\ alive \in BOOLEAN
      /\ edge \subseteq Conns \cup {LISTEN} /\ batch \subseteq Conns \cup {LISTEN}
      /\ hups \subseteq Conns /\ slotless \subseteq Conns /\ lossy \subseteq Conns
      /\ dropped \subseteq Conns \cup {LISTEN}
      /\ cur \in Conns \cup {NONE} /\ (pc \in {"read", "write"} <=> cur \in Conns)
      /\ buf \in Seq(Conns \X Nat) /\ Len(buf) <= BufferSize
      /\ (pc # "write" => buf = <<>>)
      /\ NONE \notin Conns /\ LISTEN \notin Conns
      /\ pc \in {"wait", "event", "accept", "read", "write"}
  BY LoopsAssumption DEF PlaceInv, TypeOK
<1>e. <<>> \in Seq(Conns \X Nat) /\ Len(<<>>) <= BufferSize
  BY EmptySeq, ClientsAssumption
<1> DEFINE Goal ==
               /\ NetTypeOK' /\ program' \in Programs /\ limit' \in FdLimits /\ alive' \in BOOLEAN
               /\ edge' \subseteq Conns \cup {LISTEN} /\ batch' \subseteq Conns \cup {LISTEN}
               /\ hups' \subseteq Conns /\ slotless' \subseteq Conns /\ lossy' \subseteq Conns
               /\ dropped' \subseteq Conns \cup {LISTEN}
               /\ cur' \in Conns \cup {NONE} /\ (pc' \in {"read", "write"} <=> cur' \in Conns)
               /\ buf' \in Seq(Conns \X Nat) /\ Len(buf') <= BufferSize
               /\ (pc' # "write" => buf' = <<>>)
               /\ pc' \in {"wait", "event", "accept", "read", "write"}
<1>1. SUFFICES Goal  BY DEF PlaceInv, TypeOK, SlotsInv
<1>n. UNCHANGED netVars => NetTypeOK'  BY <1>0 DEF NetTypeOK, netVars, clientVars
<1>2. CASE PollWait
  <2>1. \A c : Ready(c) => c \in Conns  BY DEF Ready, Opened, Held
  <2>2. batch' \subseteq Conns \cup {LISTEN}  BY <1>2, <2>1 DEF PollWait
  <2>3. hups' \subseteq Conns  BY <1>2, <2>2 DEF PollWait
  <2>. QED  BY <1>0, <1>n, <1>2, <2>2, <2>3 DEF PollWait
<1>3. CASE EpollWait
  <2>1. batch' \subseteq Conns \cup {LISTEN}  BY <1>0, <1>3 DEF EpollWait
  <2>2. edge' = {} /\ dropped' \subseteq Conns \cup {LISTEN}  BY <1>0, <1>3 DEF EpollWait
  <2>. QED  BY <1>0, <1>n, <1>3, <2>1, <2>2 DEF EpollWait
<1>4. CASE ListenEvent \/ BatchEnd \/ AcceptEnds \/ BlockingAcceptFails
  BY <1>0, <1>n, <1>4 DEF ListenEvent, BatchEnd, AcceptEnds, BlockingAcceptFails
<1>5. ASSUME NEW c \in Conns, HupEvent(c)
      PROVE  Goal
  <2>1. NetTypeOK' /\ edge' \subseteq Conns \cup {LISTEN}
    BY <1>0, <1>5, CloseFacts DEF HupEvent, NetTypeOK, clientVars
  <2>. QED  BY <1>0, <1>5, <2>1 DEF HupEvent
<1>6. ASSUME NEW c \in Conns, ConnEvent(c)
      PROVE  Goal
  BY <1>0, <1>n, <1>6 DEF ConnEvent
<1>7. ASSUME NEW c \in Conns, EpollAccept(c) \/ PollAccept(c) \/ BlockingAccept(c)
      PROVE  Goal
  <2>1. conn' \in [Conns -> {"none", "pending", "open", "refused", "closed"}]
    BY <1>0, <1>7 DEF EpollAccept, PollAccept, BlockingAccept, NetTypeOK
  <2>2. NetTypeOK'
    BY <1>0, <1>7, <2>1 DEF EpollAccept, PollAccept, BlockingAccept, NetTypeOK, clientVars
  <2>3. CASE EpollAccept(c)  BY <1>0, <2>2, <2>3 DEF EpollAccept
  <2>4. CASE PollAccept(c)  BY <1>0, <2>2, <2>4 DEF PollAccept, serverVars
  <2>5. CASE BlockingAccept(c)  BY <1>0, <2>2, <2>5 DEF BlockingAccept
  <2>. QED  BY <1>7, <2>3, <2>4, <2>5
<1>8. CASE ReadSome
  <2>1. cur \in Conns /\ Unread(cur) > 0  BY <1>0, <1>8 DEF ReadSome
  <2>2. /\ ReadLen(cur) \in Nat /\ ReadLen(cur) <= BufferSize
        /\ ReadBytes(cur) \in Seq(Conns \X Nat) /\ Len(ReadBytes(cur)) = ReadLen(cur)
    BY <1>0, <2>1, ReadFacts
  <2>3. NetTypeOK'
    <3>1. rd' \in [Conns -> Nat]  BY <1>0, <1>8, <2>1, <2>2 DEF ReadSome, NetTypeOK
    <3>. QED  BY <1>0, <1>8, <3>1 DEF ReadSome, NetTypeOK, clientVars
  <2>. QED  BY <1>0, <1>8, <2>1, <2>2, <2>3 DEF ReadSome
<1>9. DropRest => batch' \subseteq Conns \cup {LISTEN} /\ dropped' \subseteq Conns \cup {LISTEN}
  BY <1>0 DEF DropRest
<1>10. CASE ReadEagain
  BY <1>0, <1>n, <1>9, <1>10 DEF ReadEagain, Leave
<1>11. CASE ReadEnd
  <2>1. NetTypeOK' /\ edge' \subseteq Conns \cup {LISTEN}
    BY <1>0, <1>11, CloseFacts DEF ReadEnd, NetTypeOK, clientVars
  <2>. QED  BY <1>0, <1>11, <2>1 DEF ReadEnd, Leave
<1>12. CASE ReadError
  <2>1. NetTypeOK' /\ edge' \subseteq Conns \cup {LISTEN}
    BY <1>0, <1>12, CloseFacts DEF ReadError, NetTypeOK, clientVars
  <2>. QED  BY <1>0, <1>9, <1>12, <2>1 DEF ReadError, Leave
<1>13. AfterWrite /\ cur \in Conns =>
          /\ pc' \in {"event", "read"} /\ cur' \in {cur, NONE}
          /\ (pc' = "read" <=> cur' = cur)
  BY <1>0 DEF AfterWrite, Leave
<1>14. CASE WriteSome
  <2>1. PICK k \in 1 .. SendRoom :
           /\ k <= Len(buf)
           /\ out' = [out EXCEPT ![cur] = @ \o SubSeq(buf, 1, k)]
           /\ IF k = Len(buf) THEN buf' = <<>> /\ AfterWrite /\ UNCHANGED lossy
              ELSE IF program = "select"
              THEN buf' = <<>> /\ AfterWrite /\ lossy' = lossy \cup {cur}
              ELSE buf' = SubSeq(buf, k + 1, Len(buf)) /\ UNCHANGED <<pc, cur, lossy>>
    BY <1>14 DEF WriteSome
  <2>2. k \in Nat \ {0} /\ cur \in Conns /\ pc = "write" /\ Len(buf) \in Nat
        /\ BufferSize \in Nat
    BY <1>0, <1>14, ClientsAssumption, LenProperties DEF WriteSome
  <2>3. /\ SubSeq(buf, 1, k) \in Seq(Conns \X Nat)
        /\ SubSeq(buf, k + 1, Len(buf)) \in Seq(Conns \X Nat)
        /\ Len(SubSeq(buf, k + 1, Len(buf))) = Len(buf) - k
    BY <1>0, <2>1, <2>2, CutFacts
  <2>4. NetTypeOK'
    <3>1. out \in [Conns -> Seq(Conns \X Nat)]  BY <1>0 DEF NetTypeOK
    <3>2. out[cur] \o SubSeq(buf, 1, k) \in Seq(Conns \X Nat)
      BY <2>2, <2>3, <3>1, ConcatProperties
    <3>3. out' \in [Conns -> Seq(Conns \X Nat)]  BY <2>1, <2>2, <3>1, <3>2
    <3>. QED  BY <1>0, <1>14, <3>3 DEF WriteSome, NetTypeOK, clientVars
  <2>5. CASE buf' = <<>> /\ AfterWrite /\ lossy' \in {lossy, lossy \cup {cur}}
    BY <1>0, <1>e, <1>13, <1>14, <2>2, <2>4, <2>5 DEF WriteSome
  <2>6. CASE buf' = SubSeq(buf, k + 1, Len(buf)) /\ UNCHANGED <<pc, cur, lossy>>
    <3>1. Len(buf') <= BufferSize  BY <1>0, <2>2, <2>3, <2>6
    <3>. QED  BY <1>0, <1>14, <2>2, <2>3, <2>4, <2>6, <3>1 DEF WriteSome
  <2>. QED  BY <2>1, <2>5, <2>6
<1>15. CASE WriteEagain
  <2>1. cur \in Conns  BY <1>0, <1>15 DEF WriteEagain
  <2>. QED  BY <1>0, <1>e, <1>n, <1>13, <1>15, <2>1 DEF WriteEagain
<1>16. CASE WriteError
  <2>0. cur \in Conns  BY <1>0, <1>16 DEF WriteError
  <2>1. NetTypeOK' /\ edge' \subseteq Conns \cup {LISTEN}
    BY <1>0, <1>16, <2>0, CloseFacts DEF WriteError, NetTypeOK, clientVars
  <2>2. /\ pc' \in {"event", "read"} /\ cur' \in {cur, NONE} /\ (pc' = "read" <=> cur' = cur)
    BY <1>0, <1>16, <2>0 DEF WriteError, Leave
  <2>. QED  BY <1>0, <1>e, <1>16, <2>0, <2>1, <2>2 DEF WriteError
<1>17. CASE SendCut
  <2>1. cur \in Conns  BY <1>0, <1>17 DEF SendCut
  <2>. QED  BY <1>0, <1>e, <1>n, <1>17, <2>1 DEF SendCut, Leave
<1>18. CASE Sigpipe  BY <1>0, <1>n, <1>18 DEF Sigpipe
<1>. QED
  BY <1>1, <1>2, <1>3, <1>4, <1>5, <1>6, <1>7, <1>8, <1>10, <1>11, <1>12, <1>14, <1>15,
     <1>16, <1>17, <1>18 DEF ServerStep

-----------------------------------------------------------------------------
(* The bytes.                                                              *)

\* What a connection was sent stays in order where nothing is sent on it, and complete
\* unless bytes are dropped.
LEMMA SentStays ==
    ASSUME PlaceInv, NEW c \in Conns, SentOf(c),
           rd'[c] = rd[c], out'[c] = out[c], lossy \subseteq lossy',
           Behind(c)' \in Nat, Behind(c)' <= Behind(c),
           Behind(c)' = Behind(c) \/ conn'[c] = "closed" \/ c \in lossy',
           \/ conn'[c] = conn[c] \/ conn'[c] \in {"refused", "closed"}
           \/ conn[c] \in {"none", "pending"}
    PROVE  SentOf(c)'
<1>1. /\ rd[c] \in Nat /\ out[c] \in Seq(Conns \X Nat)
      /\ Behind(c) \in Nat /\ buf \in Seq(Conns \X Nat)
  BY LenProperties DEF PlaceInv, TypeOK, NetTypeOK, Behind
<1>2. \A n \in DOMAIN out[c] : out[c][n][2] \in Nat
  BY <1>1, ElementOfSeq, LenProperties
<1> DEFINE a == Behind(c)
           z == Behind(c)'
<1>3. a \in Nat /\ z \in Nat /\ z <= a /\ (z = a \/ conn'[c] = "closed" \/ c \in lossy')
  BY <1>1
<1>4. /\ a <= rd[c] /\ (conn[c] \in {"none", "pending"} => rd[c] = 0 /\ out[c] = <<>>)
      /\ \A n \in DOMAIN out[c] :
            /\ out[c][n][1] = c /\ out[c][n][2] <= rd[c] - a
            /\ n > 1 => out[c][n - 1][2] < out[c][n][2]
      /\ conn[c] = "open" /\ c \notin lossy => Len(out[c]) = rd[c] - a
  BY DEF SentOf
<1> HIDE DEF a, z
<1>5. z <= rd[c]  BY <1>1, <1>3, <1>4
<1>6. conn'[c] \in {"none", "pending"} => rd'[c] = 0 /\ out'[c] = <<>>
  BY <1>4
<1>7. ASSUME NEW n \in DOMAIN out[c]
      PROVE  /\ out[c][n][1] = c /\ out[c][n][2] <= rd[c] - z
             /\ n > 1 => out[c][n - 1][2] < out[c][n][2]
  <2>1. out[c][n][2] <= rd[c] - z  BY <1>1, <1>2, <1>3, <1>4
  <2>. QED  BY <1>4, <2>1
<1>8. ASSUME conn'[c] = "open", c \notin lossy'  PROVE Len(out[c]) = rd[c] - z
  <2>1. z = a /\ c \notin lossy  BY <1>3, <1>8
  <2>2. CASE conn[c] = "open"  BY <1>4, <2>1, <2>2
  <2>3. CASE conn[c] # "open"
    <3>1. rd[c] = 0 /\ out[c] = <<>>  BY <1>4, <1>8, <2>3
    <3>2. Len(out[c]) = 0  BY <3>1
    <3>3. z = 0  BY <1>3, <1>5, <3>1
    <3>. QED  BY <3>1, <3>2, <3>3
  <2>. QED  BY <2>2, <2>3
<1>. QED  BY <1>5, <1>6, <1>7, <1>8 DEF SentOf, z

\* A step with nothing in the buffer, before it and after it, that neither reads nor sends.
LEMMA BytesKept ==
    ASSUME PlaceInv, BytesInv, PlaceInv', UNCHANGED <<rd, out, lossy>>,
           pc' # "write" \/ UNCHANGED <<pc, cur, buf>>,
           (buf = <<>> /\ buf' = <<>>) \/ UNCHANGED <<cur, buf>>,
           \A c \in Conns :
              \/ conn'[c] = conn[c]
              \/ conn'[c] \in {"refused", "closed"} /\ pc' # "write"
              \/ conn[c] \in {"none", "pending"}
    PROVE  BytesInv'
<1>1. /\ buf \in Seq(Conns \X Nat) /\ Len(<<>>) = 0 /\ (pc = "write" => cur \in Conns)
      /\ (pc' = "write" => cur' \in Conns)
  BY DEF PlaceInv, TypeOK
<1>2. ASSUME NEW c \in Conns PROVE SentOf(c)'
  <2>1. Behind(c)' = Behind(c) /\ Behind(c) \in Nat
    BY <1>1, LenProperties DEF Behind
  <2>2. SentOf(c)  BY DEF BytesInv
  <2>3. Behind(c)' \in Nat /\ Behind(c)' <= Behind(c)  BY <2>1
  <2>. QED  BY <2>1, <2>2, <2>3, SentStays
<1>3. BufferInv'
  <2>1. SUFFICES ASSUME pc' = "write"
                 PROVE  /\ conn'[cur'] = "open"
                        /\ buf' = OwnBytes(cur', rd'[cur'] - Len(buf'), Len(buf'))
    BY DEF BufferInv, OwnBytes
  <2>2. pc = "write" /\ UNCHANGED <<cur, buf>> /\ cur \in Conns  BY <1>1, <2>1
  <2>3. conn[cur] = "open" /\ buf = OwnBytes(cur, rd[cur] - Len(buf), Len(buf))
    BY <2>2 DEF BytesInv, BufferInv
  <2>. QED  BY <2>1, <2>2, <2>3
<1>. QED  BY <1>2, <1>3 DEF BytesInv

\* What is in the buffer is given up, on a connection that is lossy then or closed.
LEMMA BytesDropped ==
    ASSUME PlaceInv, BytesInv, PlaceInv', pc = "write", UNCHANGED <<rd, out>>, pc' # "write",
           lossy \subseteq lossy',
           cur' \in {cur, NONE}, cur \in lossy' \/ conn'[cur] = "closed",
           \A c \in Conns : conn'[c] = conn[c] \/ conn'[c] = "closed"
    PROVE  BytesInv'
<1>1. /\ buf \in Seq(Conns \X Nat) /\ Len(<<>>) = 0 /\ buf' = <<>> /\ cur \in Conns
      /\ NONE \notin Conns
  BY LoopsAssumption DEF PlaceInv, TypeOK
<1>2. ASSUME NEW c \in Conns PROVE SentOf(c)'
  <2>1. Behind(c)' = 0 /\ Behind(c) \in Nat
    BY <1>1, LenProperties DEF Behind
  <2>2. c # cur => Behind(c) = 0  BY DEF Behind
  <2>3. SentOf(c)  BY DEF BytesInv
  <2>4. Behind(c)' \in Nat /\ Behind(c)' <= Behind(c)  BY <2>1
  <2>. QED  BY <1>1, <2>1, <2>2, <2>3, <2>4, SentStays
<1>. QED  BY <1>2 DEF BytesInv, BufferInv

\* What is read is in the buffer, behind all that was sent.
LEMMA BytesRead ==
    ASSUME PlaceInv, BytesInv, ReadSome
    PROVE  BytesInv'
<1>1. /\ cur \in Conns /\ buf = <<>> /\ pc = "read" /\ NetTypeOK /\ Unread(cur) > 0
      /\ conn[cur] = "open"
  BY DEF PlaceInv, TypeOK, ReadSome
<1>2. PICK l \in Nat \ {0} : /\ l = ReadLen(cur) /\ Len(ReadBytes(cur)) = l
                             /\ ReadBytes(cur) = OwnBytes(cur, rd[cur], l)
  BY <1>1, ReadFacts
<1>3. /\ rd \in [Conns -> Nat] /\ rd' = [rd EXCEPT ![cur] = rd[cur] + l]
      /\ buf' = OwnBytes(cur, rd[cur], l) /\ Len(buf') = l
      /\ UNCHANGED <<conn, out, cur, lossy>>
  BY <1>1, <1>2 DEF NetTypeOK, ReadSome
<1>4. BufferInv'
  <2>1. rd'[cur'] - Len(buf') = rd[cur] /\ rd[cur] \in Nat  BY <1>1, <1>3
  <2>2. buf' = OwnBytes(cur', rd'[cur'] - Len(buf'), Len(buf'))
    BY <1>3, <2>1 DEF OwnBytes
  <2>. QED  BY <1>1, <1>3, <2>2 DEF BufferInv, OwnBytes
<1>5. ASSUME NEW c \in Conns PROVE SentOf(c)'
  <2>1. SentOf(c) /\ rd[c] \in Nat  BY <1>3 DEF BytesInv
  <2>2. Behind(c) = 0  BY <1>1 DEF Behind
  <2>3. Behind(c)' <= rd'[c] /\ rd'[c] - Behind(c)' = rd[c]
    BY <1>1, <1>3, <2>1 DEF Behind
  <2>4. conn'[c] \in {"none", "pending"} => rd'[c] = 0
    BY <1>1, <1>3, <2>1 DEF SentOf
  <2>5. rd[c] - 0 = rd[c]  BY <2>1
  <2>. QED  BY <1>3, <2>1, <2>2, <2>3, <2>4, <2>5 DEF SentOf
<1>. QED  BY <1>4, <1>5 DEF BytesInv

\* What is sent is the first of the buffer, behind what was sent before.
LEMMA BytesWritten ==
    ASSUME PlaceInv, BytesInv, PlaceInv', WriteSome
    PROVE  BytesInv'
<1>1. /\ cur \in Conns /\ pc = "write" /\ buf \in Seq(Conns \X Nat) /\ Len(buf) \in Nat
      /\ rd \in [Conns -> Nat] /\ out \in [Conns -> Seq(Conns \X Nat)]
      /\ SendRoom \in Nat /\ NONE \notin Conns /\ Len(<<>>) = 0
      /\ (pc' # "write" => buf' = <<>>)
  BY ClientsAssumption, LoopsAssumption, LenProperties
     DEF PlaceInv, TypeOK, NetTypeOK, WriteSome
<1>2. PICK k \in 1 .. SendRoom :
           /\ k <= Len(buf)
           /\ out' = [out EXCEPT ![cur] = @ \o SubSeq(buf, 1, k)]
           /\ IF k = Len(buf) THEN buf' = <<>> /\ AfterWrite /\ UNCHANGED lossy
              ELSE IF program = "select"
              THEN buf' = <<>> /\ AfterWrite /\ lossy' = lossy \cup {cur}
              ELSE buf' = SubSeq(buf, k + 1, Len(buf)) /\ UNCHANGED <<pc, cur, lossy>>
  BY DEF WriteSome
<1>s. PICK s \in Conns : s = cur  BY <1>1
<1> DEFINE n == Len(buf)
           a == rd[s] - n
           o == out[s]
           f == SubSeq(buf, 1, k)
           g == SubSeq(buf, k + 1, Len(buf))
<1>3. k \in Nat \ {0} /\ k <= n /\ n \in Nat  BY <1>1, <1>2
<1>4. /\ f \in Seq(Conns \X Nat) /\ Len(f) = k /\ \A l \in 1 .. k : f[l] = buf[l]
      /\ g \in Seq(Conns \X Nat) /\ Len(g) = n - k
      /\ \A l \in 1 .. n - k : g[l] = buf[k + l]
  BY <1>1, <1>3, CutFacts
<1>5. /\ SentOf(s) /\ conn[s] = "open" /\ buf = OwnBytes(s, a, n)
      /\ UNCHANGED <<conn, rd>>
  BY <1>1, <1>s DEF BytesInv, BufferInv, WriteSome
<1>6. a \in Nat  BY <1>1, <1>5, <1>s DEF SentOf, Behind
<1>7. \A l \in 1 .. n : buf[l] = <<s, a + l>>  BY <1>5 DEF OwnBytes
<1>8. /\ cur' \in {s, NONE} /\ lossy' \in {lossy, lossy \cup {s}}
      /\ (cur' = s \/ buf' = <<>>)
      /\ \/ buf' = <<>> /\ (k = n \/ s \in lossy') /\ pc' # "write"
         \/ buf' = g /\ cur' = s
  BY <1>1, <1>2, <1>s DEF AfterWrite, Leave, g, n
<1> HIDE DEF n, a, o, f, g
\* Where the buffer begins, after the step.
<1>9. /\ Len(buf') \in {0, n - k}
      /\ Behind(s)' \in {0, n - k} /\ (Behind(s)' = n - k \/ s \in lossy')
  <2>1. n - k \in Nat /\ (k = n => n - k = 0)  BY <1>3
  <2>2. Len(g) = n - k /\ Len(<<>>) = 0  BY <1>1, <1>4
  <2> DEFINE d == n - k
  <2> HIDE DEF d
  <2>3. Len(buf') \in {0, d} /\ (Len(buf') = d \/ s \in lossy')
    <3>1. CASE buf' = <<>> /\ k = n  BY <2>1, <2>2, <3>1 DEF d
    <3>2. CASE buf' = <<>> /\ s \in lossy'  BY <2>2, <3>2
    <3>3. CASE buf' = g  BY <2>2, <3>3 DEF d
    <3>. QED  BY <1>8, <3>1, <3>2, <3>3
  <2>4. CASE cur' = s  BY <2>3, <2>4 DEF Behind, d
  <2>5. CASE cur' # s
    <3>1. Behind(s)' = 0 /\ buf' = <<>>  BY <1>8, <2>5 DEF Behind
    <3>. QED  BY <2>2, <2>3, <3>1 DEF d
  <2>. QED  BY <2>4, <2>5
<1>10. SentOf(s)'
  <2>1. /\ o \in Seq(Conns \X Nat) /\ Len(o) \in Nat /\ out'[s] = o \o f
        /\ DOMAIN o = 1 .. Len(o)
        /\ \A i \in DOMAIN o : o[i] \in Conns \X Nat
    BY <1>1, <1>2, <1>s, LenProperties, ElementOfSeq DEF o, f
  <2> DEFINE w == o \o f
  <2>2. /\ w \in Seq(Conns \X Nat) /\ Len(w) = Len(o) + k
        /\ DOMAIN w = 1 .. Len(o) + k
        /\ \A i \in 1 .. Len(o) + k : w[i] = IF i <= Len(o) THEN o[i]
                                                     ELSE f[i - Len(o)]
    <3>1. /\ w \in Seq(Conns \X Nat) /\ Len(w) = Len(o) + Len(f)
          /\ \A i \in 1 .. Len(o) + Len(f) : w[i] = IF i <= Len(o) THEN o[i]
                                                         ELSE f[i - Len(o)]
      <4>1. f \in Seq(Conns \X Nat) /\ o \in Seq(Conns \X Nat)  BY <1>4, <2>1
      <4>. QED  BY ONLY <4>1, ConcatProperties
    <3>2. Len(f) = k  BY <1>4
    <3>. QED  BY <3>1, <3>2, LenProperties
  <2> HIDE DEF w
  <2>3. /\ \A i \in DOMAIN o : /\ o[i][1] = s /\ o[i][2] <= a /\ o[i][2] \in Nat
                               /\ i > 1 => o[i - 1][2] < o[i][2]
        /\ s \notin lossy => Len(o) = a
    BY <1>5, <1>s, <2>1 DEF SentOf, Behind, a, n, o
  <2>4. \A i \in 1 .. Len(o) + k : i > Len(o) =>
             i - Len(o) \in 1 .. k /\ w[i] = <<s, a + (i - Len(o))>>
    <3>1. TAKE i \in 1 .. Len(o) + k
    <3>2. HAVE i > Len(o)
    <3>3. i - Len(o) \in 1 .. k  BY <1>3, <2>1, <3>2
    <3>4. i - Len(o) \in 1 .. n  BY <1>3, <3>3
    <3>5. w[i] = f[i - Len(o)]  BY <2>1, <2>2, <3>2
    <3>6. f[i - Len(o)] = buf[i - Len(o)]  BY <1>4, <3>3
    <3>7. buf[i - Len(o)] = <<s, a + (i - Len(o))>>  BY <1>7, <3>4
    <3>. QED  BY <3>3, <3>5, <3>6, <3>7
  <2>5. rd[s] = a + n /\ rd[s] \in Nat /\ a + k <= rd[s]
    BY <1>1, <1>3, <1>6 DEF a
  <2>6. ASSUME NEW i \in 1 .. Len(o) + k
        PROVE  /\ w[i][1] = s /\ w[i][2] <= a + k /\ w[i][2] \in Nat
               /\ i > Len(o) => w[i][2] > a
    <3>1. CASE i <= Len(o)
      <4>1. i \in DOMAIN o /\ w[i] = o[i]  BY <2>1, <2>2, <3>1
      <4>2. o[i][1] = s /\ o[i][2] <= a /\ o[i][2] \in Nat  BY <2>3, <4>1
      <4>3. o[i][2] <= a + k  BY <1>3, <1>6, <4>2
      <4>. QED  BY <2>1, <3>1, <4>1, <4>2, <4>3
    <3>2. CASE i > Len(o)
      <4>1. i - Len(o) \in 1 .. k /\ w[i] = <<s, a + (i - Len(o))>>  BY <2>4, <3>2
      <4>. QED  BY <1>3, <1>6, <2>1, <4>1
    <3>. QED  BY <2>1, <3>1, <3>2
  <2>7. ASSUME NEW i \in 1 .. Len(o) + k, i > 1
        PROVE  w[i - 1][2] < w[i][2]
    <3>0. i - 1 \in 1 .. Len(o) + k  BY <1>3, <2>1, <2>7
    <3>1. CASE i <= Len(o)
      <4>1. i \in DOMAIN o /\ w[i] = o[i] /\ w[i - 1] = o[i - 1]
        BY <2>1, <2>2, <3>0, <3>1
      <4>. QED  BY <2>3, <2>7, <4>1
    <3>2. CASE i = Len(o) + 1
      <4>1. i - 1 \in DOMAIN o /\ w[i - 1] = o[i - 1]
        BY <2>1, <2>2, <2>7, <3>0, <3>2
      <4>2. w[i][2] > a /\ w[i][2] \in Nat  BY <2>1, <2>6, <3>2
      <4>3. o[i - 1][2] <= a /\ o[i - 1][2] \in Nat  BY <2>3, <4>1
      <4>. QED  BY <1>6, <4>1, <4>2, <4>3
    <3>3. CASE i > Len(o) + 1
      <4>0. i > Len(o) /\ i - 1 > Len(o)  BY <2>1, <3>3
      <4>1. /\ w[i] = <<s, a + (i - Len(o))>>
            /\ w[i - 1] = <<s, a + ((i - 1) - Len(o))>>
        BY <2>4, <3>0, <4>0
      <4>. QED  BY <1>6, <2>1, <4>1
    <3>. QED  BY <2>1, <3>1, <3>2, <3>3
  <2> DEFINE z == Behind(s)'
  <2>8. /\ z \in Nat /\ z <= rd[s] /\ a + k <= rd[s] - z
        /\ (s \notin lossy' => rd[s] - z = a + k)
    BY <1>3, <1>6, <1>9, <2>5
  <2>9. rd'[s] = rd[s] /\ conn'[s] = "open"  BY <1>5
  <2> HIDE DEF z
  <2>10. ASSUME NEW i \in DOMAIN w
         PROVE  /\ w[i][1] = s /\ w[i][2] <= rd[s] - z
                /\ i > 1 => w[i - 1][2] < w[i][2]
    <3>1. /\ i \in 1 .. Len(o) + k /\ w[i][1] = s
          /\ w[i][2] <= a + k /\ w[i][2] \in Nat
      BY <2>2, <2>6
    <3>2. w[i][2] <= rd[s] - z  BY <1>3, <1>6, <2>5, <2>8, <3>1
    <3>. QED  BY <2>7, <3>1, <3>2
  <2>11. s \notin lossy' => Len(w) = rd[s] - z
    BY <1>8, <2>2, <2>3, <2>8
  <2>12. out'[s] = w  BY <2>1 DEF w
  <2>. QED  BY <2>8, <2>9, <2>10, <2>11, <2>12 DEF SentOf, z
<1>11. ASSUME NEW c \in Conns, c # s PROVE SentOf(c)'
  <2>1. SentOf(c) /\ rd'[c] = rd[c] /\ out'[c] = out[c] /\ conn'[c] = conn[c]
    BY <1>1, <1>2, <1>5, <1>11, <1>s DEF BytesInv
  <2>2. Behind(c) = 0 /\ Behind(c)' = 0
    BY <1>1, <1>8, <1>11, <1>s DEF Behind
  <2>3. lossy \subseteq lossy'  BY <1>8
  <2>4. Behind(c)' \in Nat /\ Behind(c)' <= Behind(c)  BY <2>2
  <2>. QED  BY <2>1, <2>2, <2>3, <2>4, SentStays
<1>12. BufferInv'
  <2>1. SUFFICES ASSUME pc' = "write"
                 PROVE  /\ conn'[cur'] = "open"
                        /\ buf' = OwnBytes(cur', rd'[cur'] - Len(buf'), Len(buf'))
    BY DEF BufferInv, OwnBytes
  <2>2. buf' = g /\ cur' = s  BY <1>8, <2>1
  <2>3. rd'[cur'] - Len(buf') = a + k /\ Len(buf') = n - k /\ a + k \in Nat
    <3>1. Len(buf') = n - k /\ rd'[cur'] = rd[s] /\ rd[s] \in Nat
      BY <1>1, <1>4, <1>5, <2>2
    <3>. QED  BY <1>3, <1>6, <3>1 DEF a
  <2>4. \A l \in 1 .. n - k : g[l] = <<s, (a + k) + l>>
    <3>1. TAKE l \in 1 .. n - k
    <3>2. k + l \in 1 .. n /\ (a + k) + l = a + (k + l)  BY <1>3, <1>6
    <3>. QED  BY <1>4, <1>7, <3>2
  <2>5. DOMAIN g = 1 .. n - k /\ g = [l \in DOMAIN g |-> g[l]]  BY <1>4, LenProperties, SeqDef
  <2>6. g = OwnBytes(s, a + k, n - k)  BY <2>4, <2>5 DEF OwnBytes
  <2>. QED  BY <1>5, <2>2, <2>3, <2>6
<1>. QED  BY <1>10, <1>11, <1>12, <1>s DEF BytesInv

LEMMA ClientBytes ==
    ASSUME PlaceInv, PlaceInv', BytesInv, NEW c \in Conns, ClientStep(c)
    PROVE  BytesInv'
<1>1. UNCHANGED <<pc, cur, buf, lossy>>  BY DEF ClientStep
<1>2. UNCHANGED <<rd, out>>
  BY DEF ClientStep, Connect, ClientSend, ClientRead, ClientEnd
<1>3. conn \in [Conns -> {"none", "pending", "open", "refused", "closed"}]
  BY DEF PlaceInv, TypeOK, NetTypeOK
<1>4. ASSUME NEW d \in Conns PROVE conn'[d] = conn[d] \/ conn[d] \in {"none", "pending"}
  BY <1>3, <1>4 DEF ClientStep, Connect, ClientSend, ClientRead, ClientEnd
<1>. QED  BY <1>1, <1>2, <1>4, BytesKept

LEMMA ServerBytes ==
    ASSUME PlaceInv, PlaceInv', BytesInv, ServerStep
    PROVE  BytesInv'
<1>0. /\ conn \in [Conns -> {"none", "pending", "open", "refused", "closed"}]
      /\ (pc # "write" => buf = <<>>) /\ (pc' # "write" => buf' = <<>>)
      /\ (pc \in {"read", "write"} => cur \in Conns)
  BY DEF PlaceInv, TypeOK, NetTypeOK
<1>1. CASE \/ PollWait \/ EpollWait \/ ListenEvent \/ BatchEnd \/ AcceptEnds
           \/ BlockingAcceptFails \/ Sigpipe
  <2>1. UNCHANGED <<conn, rd, out, lossy, cur, buf>> /\ (pc' # "write" \/ UNCHANGED pc)
    BY <1>1
    DEF PollWait, EpollWait, ListenEvent, BatchEnd, AcceptEnds, BlockingAcceptFails, Sigpipe,
        netVars
  <2>. QED  BY <2>1, BytesKept
<1>2. ASSUME NEW c \in Conns, HupEvent(c) PROVE BytesInv'
  <2>1. /\ UNCHANGED <<rd, out, lossy, cur, buf>> /\ pc' # "write"
        /\ \A d \in Conns : conn'[d] = conn[d] \/ conn'[d] = "closed"
    BY <1>0, <1>2 DEF HupEvent, Close
  <2>. QED  BY <2>1, BytesKept
<1>3. ASSUME NEW c \in Conns, ConnEvent(c) PROVE BytesInv'
  <2>1. /\ UNCHANGED <<conn, rd, out, lossy>> /\ pc' # "write" /\ pc # "write"
    BY <1>3 DEF ConnEvent, netVars
  <2>. QED  BY <1>0, <2>1, BytesKept
<1>4. ASSUME NEW c \in Conns, EpollAccept(c) \/ PollAccept(c) \/ BlockingAccept(c)
      PROVE  BytesInv'
  <2>1. /\ UNCHANGED <<rd, out, lossy, cur, buf>> /\ pc' # "write"
        /\ \A d \in Conns : conn'[d] = conn[d] \/ conn[d] = "pending"
    BY <1>0, <1>4 DEF EpollAccept, PollAccept, BlockingAccept, Pending, serverVars
  <2>. QED  BY <2>1, BytesKept
<1>5. CASE ReadEagain \/ ReadEnd \/ ReadError
  <2>1. UNCHANGED <<rd, out, lossy>> /\ pc # "write" /\ pc' # "write"
    BY <1>5 DEF ReadEagain, ReadEnd, ReadError, Leave, netVars
  <2>2. \A d \in Conns : conn'[d] = conn[d] \/ conn'[d] = "closed"
    BY <1>0, <1>5 DEF ReadEagain, ReadEnd, ReadError, Close, netVars
  <2>. QED  BY <1>0, <2>1, <2>2, BytesKept
<1>6. CASE WriteEagain \/ SendCut
  <2>1. /\ pc = "write" /\ UNCHANGED <<conn, rd, out>> /\ lossy' = lossy \cup {cur}
        /\ pc' # "write" /\ cur' \in {cur, NONE}
    BY <1>6 DEF WriteEagain, SendCut, AfterWrite, Leave, netVars
  <2>. QED  BY <2>1, BytesDropped
<1>7. CASE WriteError
  <2>1. /\ pc = "write" /\ UNCHANGED <<rd, out, lossy>> /\ pc' # "write" /\ cur' \in {cur, NONE}
    BY <1>7 DEF WriteError, Leave
  <2>2. conn'[cur] = "closed" /\ \A d \in Conns : conn'[d] = conn[d] \/ conn'[d] = "closed"
    BY <1>0, <1>7, <2>1 DEF WriteError, Close
  <2>. QED  BY <2>1, <2>2, BytesDropped
<1>. QED
  BY <1>1, <1>2, <1>3, <1>4, <1>5, <1>6, <1>7, BytesRead, BytesWritten DEF ServerStep

-----------------------------------------------------------------------------
(* The theorem.                                                            *)

LEMMA LoopsInit == Init => LoopsInv
<1>1. SUFFICES ASSUME Init PROVE LoopsInv  OBVIOUS
<1>2. NetTypeOK  BY <1>1, EmptySeq DEF Init, NetInit, NetTypeOK
<1>3. Opened = {}  BY <1>1 DEF Init, NetInit, Opened, Held
<1>4. IsFiniteSet(Opened) /\ Cardinality(Opened) = 0  BY <1>3, FS_EmptySet
<1>5. SlotsInv  BY <1>4, LoopsAssumption DEF SlotsInv
<1>6. Len(<<>>) = 0 /\ <<>> \in Seq(Conns \X Nat) /\ BufferSize \in Nat
  BY ClientsAssumption, EmptySeq
<1>7. TypeOK
  BY <1>1, <1>2, <1>5, <1>6, LoopsAssumption DEF Init, TypeOK, SlotsInv
<1>8. PlaceInv  BY <1>1, <1>7, LoopsAssumption DEF Init, PlaceInv
<1>9. BytesInv
  <2>1. BufferInv  BY <1>1 DEF Init, BufferInv
  <2>2. ASSUME NEW c \in Conns PROVE SentOf(c)
    <3>1. rd[c] = 0 /\ out[c] = <<>> /\ conn[c] = "none"  BY <1>1 DEF Init, NetInit
    <3>2. Behind(c) = 0  BY <1>1, <1>6 DEF Init, Behind
    <3>3. DOMAIN out[c] = {}  BY <3>1
    <3>. QED  BY <3>1, <3>2, <3>3 DEF SentOf
  <2>. QED  BY <2>1, <2>2 DEF BytesInv
<1>. QED  BY <1>5, <1>8, <1>9 DEF LoopsInv

LEMMA LoopsStep == LoopsInv /\ [Next]_vars => LoopsInv'
<1>1. SUFFICES ASSUME LoopsInv, [Next]_vars PROVE LoopsInv'  OBVIOUS
<1>2. PlaceInv /\ SlotsInv /\ BytesInv  BY <1>1 DEF LoopsInv
<1>3. CASE ServerStep
  <2>1. SlotsInv'  BY <1>2, <1>3, SlotsServer
  <2>2. PlaceInv'  BY <1>2, <1>3, <2>1, ServerPlaces
  <2>3. BytesInv'  BY <1>2, <1>3, <2>2, ServerBytes
  <2>. QED  BY <2>1, <2>2, <2>3 DEF LoopsInv
<1>4. ASSUME NEW c \in Conns, ClientStep(c) PROVE LoopsInv'
  <2>1. SlotsInv'  BY <1>2, <1>4, SlotsClient
  <2>2. PlaceInv'  BY <1>2, <1>4, <2>1, ClientPlaces
  <2>3. BytesInv'  BY <1>2, <1>4, <2>2, ClientBytes
  <2>. QED  BY <2>1, <2>2, <2>3 DEF LoopsInv
<1>5. CASE UNCHANGED vars
  <2>1. UNCHANGED <<conn, sent, got, peer, rd, out, program, limit, alive, edge, pc, batch, hups,
                    cur, buf, slotless, lossy, dropped>>
    BY <1>5 DEF vars, netVars, clientVars, serverVars
  <2>2. SlotsInv'  BY <1>2, <2>1 DEF SlotsInv, Level, Opened, Held
  <2>3. PlaceInv'
    BY <1>2, <2>1, <2>2 DEF PlaceInv, TypeOK, NetTypeOK, SlotsInv
  <2>4. BytesInv'  BY <1>2, <2>1, <2>3, BytesKept
  <2>. QED  BY <2>2, <2>3, <2>4 DEF LoopsInv
<1>. QED  BY <1>1, <1>3, <1>4, <1>5 DEF Next

\* Behind EchoesAreInOrder: the buffer holds the end of what was read, and it is sent from
\* its beginning, or what is left of it is given up.
THEOREM LoopsInvHolds == Spec => []LoopsInv
BY LoopsInit, LoopsStep, PTL DEF Spec

\* Whichever of the five programs runs, the tables of select and poll are never over full, a
\* client gets back only bytes of its own in the order it sent them, and all that were read,
\* unless its socket was full once or it ended before blocking had sent them.
THEOREM EchoesAreInOrder == Spec => []EchoOrLoss
<1>1. LoopsInv => EchoOrLoss
  <2>1. SUFFICES ASSUME LoopsInv PROVE EchoOrLoss  OBVIOUS
  <2>2. TypeOK /\ buf \in Seq(Conns \X Nat) /\ rd \in [Conns -> Nat]
        /\ out \in [Conns -> Seq(Conns \X Nat)]
    BY <2>1 DEF LoopsInv, PlaceInv, TypeOK, NetTypeOK
  <2>3. ASSUME NEW c \in Conns
        PROVE  /\ \A n \in DOMAIN out[c] :
                     /\ out[c][n][1] = c /\ out[c][n][2] <= rd[c]
                     /\ n > 1 => out[c][n - 1][2] < out[c][n][2]
               /\ conn[c] = "open" /\ c \notin lossy /\ cur # c => Len(out[c]) = rd[c]
    <3>1. SentOf(c)  BY <2>1 DEF LoopsInv, BytesInv
    <3>2. Behind(c) \in Nat /\ rd[c] \in Nat /\ (cur # c => Behind(c) = 0)
      BY <2>2, LenProperties DEF Behind
    <3>3. \A n \in DOMAIN out[c] : out[c][n][2] \in Nat
      BY <2>2, ElementOfSeq, LenProperties
    <3>4. \A n \in DOMAIN out[c] : out[c][n][2] <= rd[c]
      BY <3>1, <3>2, <3>3 DEF SentOf
    <3>5. rd[c] - 0 = rd[c]  BY <3>2
    <3>. QED  BY <3>1, <3>2, <3>4, <3>5 DEF SentOf
  <2>. QED  BY <2>2, <2>3 DEF EchoOrLoss
<1>. QED  BY <1>1, LoopsInvHolds, PTL
=============================================================================
