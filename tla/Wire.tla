--------------------------------- MODULE Wire ---------------------------------
(***************************************************************************)
(* One TCP connection between a client and an echo server of chapters 22   *)
(* and 23, as the servers' system calls see it: the byte stream in both    *)
(* directions, the edge-triggered epoll interest, and the ends a client    *)
(* can make.  Session.tla and CServer.tla extend it with their servers.    *)
(*                                                                         *)
(* A byte is its position in the stream of requests: an echo server has to *)
(* write back exactly 1, 2, 3, ...  A stream is the sequence of the places *)
(* where its messages start, counted in bytes before them, and of the      *)
(* place where the last one ends.                                          *)
(***************************************************************************)
EXTENDS Integers, Sequences

CONSTANTS
    HeadLen,    \* HEAD_LEN
    BuffSize,   \* BUFF_SIZE, the longest body accepted
    SendRoom,   \* bytes the socket holds between a write and the client's read
    Streams,    \* the streams of requests a client may send
    PeerEnds    \* the ends a client may make: "fin", "reset", "abort"

ASSUME SizesAssumption ==
    /\ HeadLen \in Nat \ {0} /\ BuffSize \in Nat /\ SendRoom \in Nat \ {0}
    /\ \A s \in Streams :
          /\ s \in Seq(Nat) /\ s # <<>> /\ s[1] = 0
          /\ \A i, j \in DOMAIN s : i < j => s[i] + HeadLen <= s[j]
    /\ PeerEnds \subseteq {"fin", "reset", "abort"}

VARIABLES
    \* The client and the network.
    starts,    \* the stream of requests it sends
    sent,      \* bytes it has sent
    got,       \* bytes it has read
    peer,      \* "up"; "fin", no more requests; "reset"; "abort", a reset after a fin
    \* The connection as the server's kernel keeps it.
    open,      \* the server's descriptor is open
    rd,        \* bytes the server has read
    out,       \* the bytes the server has written
    noSpace,   \* a write found the send buffer full
    interest,  \* the events registered with epoll, "in" and "out"
    ready      \* the connection is on epoll's ready list

netVars  == <<starts, sent, got, peer>>
edgeVars == <<interest, ready>>
wireVars == <<netVars, open, rd, out, noSpace, edgeVars>>

-----------------------------------------------------------------------------
(* The protocol: a message is a head (type and length) and a body.         *)

Messages   == 1 .. Len(starts) - 1
BodyLen(i) == starts[i + 1] - starts[i] - HeadLen
Total      == starts[Len(starts)]

Bytes(from, n) == [i \in 1 .. n |-> from + i]

\* The body length a head announces.  Bytes that are no head could announce anything.
ParseLen(h) ==
    IF \E i \in Messages : h = Bytes(starts[i], HeadLen)
    THEN BodyLen(CHOOSE i \in Messages : h = Bytes(starts[i], HeadLen))
    ELSE BuffSize + 1

\* Mutant: the length of the message does not count the head.
FrameShort(t, data) == SubSeq(Bytes(t, HeadLen) \o data, 1, Len(data))

\* The message that carries a reply: a head made of the type, here the position of the
\* head it was read from, and of the length of the data, before the data.
Frame(t, data) ==
    (IF Len(data) = ParseLen(Bytes(t, HeadLen)) THEN Bytes(t, HeadLen)
     ELSE [i \in 1 .. HeadLen |-> 0]) \o data

\* The ways to cut a read or a write: each takes what there is, or some of it.
Unread == sent - rd
Room   == SendRoom - (Len(out) - got)

-----------------------------------------------------------------------------
(* Edge-triggered epoll.                                                   *)

\* What the connection is ready for; errors and hang-ups need no registration.
Conditions(unread, room, end) ==
    (IF unread > 0 \/ end # "up" THEN {"in"} ELSE {})
      \cup (IF room > 0 \/ end \in {"reset", "abort"} THEN {"out"} ELSE {})
      \cup (IF end \in {"reset", "abort"} THEN {"hup"} ELSE {})

Reported(events) == Conditions(Unread, Room, peer) \cap (events \cup {"hup"})
Mask == Reported(interest)

\* epoll_ctl MOD: the new interest, and the ready list if the connection is ready for it.
ModFd(events) ==
    /\ interest' = events
    /\ ready' = (ready \/ Reported(events) # {})

\* The connection is removed from epoll and closed.
CloseFd ==
    /\ open' = FALSE
    /\ ready' = FALSE
    /\ interest' = {}

\* A connection without a byte sent, its descriptor registered for EPOLLIN.
WireInit ==
    /\ starts \in Streams
    /\ sent = 0 /\ got = 0 /\ peer = "up"
    /\ open = TRUE /\ rd = 0 /\ out = <<>> /\ noSpace = FALSE
    /\ interest = {"in"} /\ ready = FALSE

-----------------------------------------------------------------------------
(* The client.                                                             *)

\* A byte arrives: an edge of EPOLLIN.
PeerSend ==
    /\ peer = "up"
    /\ sent < Total
    /\ sent' = sent + 1
    /\ ready' = open
    /\ UNCHANGED <<starts, got, peer, open, rd, out, noSpace, interest>>

\* The client reads a byte: room after a full buffer is an edge of EPOLLOUT.
PeerRead ==
    /\ peer \in {"up", "fin"}
    /\ got < Len(out)
    /\ got' = got + 1
    /\ noSpace' = FALSE
    /\ ready' = (ready \/ (noSpace /\ "out" \in interest))
    /\ UNCHANGED <<starts, sent, peer, open, rd, out, interest>>

PeerEnd ==
    /\ \/ peer = "up" /\ peer' \in PeerEnds \cap {"fin", "reset"}
       \/ peer = "fin" /\ got < Len(out) /\ peer' \in PeerEnds \cap {"abort"}
    /\ ready' = open
    /\ UNCHANGED <<starts, sent, got, open, rd, out, noSpace, interest>>

PeerStep == PeerSend \/ PeerRead \/ PeerEnd

-----------------------------------------------------------------------------
WireTypeOK ==
    /\ starts \in Streams
    /\ sent \in Nat /\ got \in Nat /\ rd \in Nat
    /\ peer \in {"up", "fin", "reset", "abort"}
    /\ out \in Seq(Nat)
    /\ interest \subseteq {"in", "out"}
    /\ open \in BOOLEAN /\ noSpace \in BOOLEAN /\ ready \in BOOLEAN

\* A message that is too long has been announced.
Refused == \E i \in Messages : BodyLen(i) > BuffSize /\ sent >= starts[i] + HeadLen

\* The byte strings of s, none of them empty, are in their order all that is in the stream
\* between two places: each starts where the one before it ends.
Begin(s, i, end) == IF i <= Len(s) THEN s[i][1] - 1 ELSE end

InOrder(s, from, end) ==
    /\ \A i \in DOMAIN s : s[i] # <<>>
    /\ Begin(s, 1, end) = from
    /\ \A i \in DOMAIN s :
          /\ s[i] = Bytes(Begin(s, i, end), Len(s[i]))
          /\ Begin(s, i + 1, end) = Begin(s, i, end) + Len(s[i])
=============================================================================
