------------------------------- MODULE CServer -------------------------------
(***************************************************************************)
(* One connection of the C echo server (22_.../server/src: main.c and      *)
(* server.c), system call by system call: the read state machine written   *)
(* into main, async_send, handle_epollout, and the linked send queue they  *)
(* share.  The connection itself is Wire.tla.  The server has one thread,  *)
(* and its connections do not touch each other.                            *)
(*                                                                         *)
(* What has been freed is kept, so that a use of it can be seen.  Such a   *)
(* use may do anything; the model stops there (fate = "undefined").        *)
(***************************************************************************)
EXTENDS Wire, SequencesExt

VARIABLES
    fate,          \* "runs"; "sigpipe", killed; "undefined", freed memory was used
    stop,          \* stop_server
    pc,            \* where main and the functions it calls stand
    evs,           \* the event mask of the connection
    inMap,         \* the session is in session_map, and not freed
    stage,         \* recv_stage
    head,          \* the bytes in head_buf
    body,          \* the bytes in data_buf
    bodyLen,       \* data_len of data_buf
    type,          \* type of data_buf
    nodes,         \* the send nodes made so far, a node is its index
    qhead, qtail,  \* head and tail of the send queue
    cur            \* send_node of async_send, cur of handle_epollout

NULL == 0

recvVars  == <<stage, head, body, bodyLen, type>>
queueVars == <<nodes, qhead, qtail>>
vars == <<wireVars, fate, stop, pc, evs, inMap, recvVars, queueVars, cur>>

\* A session has been created for an accepted connection.
Init ==
    /\ WireInit
    /\ fate = "runs" /\ stop = FALSE /\ pc = "check" /\ evs = {} /\ inMap = TRUE
    /\ stage = "NO_RECV" /\ head = <<>> /\ body = <<>> /\ bodyLen = 0 /\ type = 0
    /\ nodes = <<>> /\ qhead = NULL /\ qtail = NULL /\ cur = NULL

-----------------------------------------------------------------------------
(* The linked list.                                                        *)

\* What the head leads to, link by link up to the end, with no node of it freed.  There is
\* one such sequence, or none if the links lead to a freed node or back to themselves.
IsQueue(q) ==
    /\ q = <<>> <=> qhead = NULL
    /\ q # <<>> => q[1] = qhead
    /\ \A i \in DOMAIN q :
          /\ nodes[q[i]].live
          /\ nodes[q[i]].next = IF i < Len(q) THEN q[i + 1] ELSE NULL

Queues == {q \in SeqOf(1 .. Len(nodes), Len(nodes)) : IsQueue(q)}
IsList == Queues # {}

\* Mutant: the head is set whether or not the queue is empty.
EnqueueAtHead(n) ==
    /\ UNCHANGED nodes
    /\ qhead' = n
    /\ qtail' = n

\* The node goes behind the tail.
Enqueue(n) ==
    /\ nodes' = IF qhead = NULL THEN nodes ELSE [nodes EXCEPT ![qtail].next = n]
    /\ qhead' = IF qhead = NULL THEN n ELSE qhead
    /\ qtail' = n

\* enqueue_node enables EPOLLOUT, unless the event at hand has it.
Arm == IF "out" \in evs THEN UNCHANGED edgeVars ELSE ModFd({"in", "out"})

\* session_destroy: epoll DEL, close, and every node of the list is freed, in the order
\* of the links; then hashmap_remove_int.  A list that leads to a node already freed is
\* followed all the same.
Destroy(next) ==
    /\ CloseFd
    /\ inMap' = FALSE
    /\ IF IsList THEN pc' = next /\ UNCHANGED fate
       ELSE fate' = "undefined" /\ UNCHANGED pc

-----------------------------------------------------------------------------
(* main: the events of the connection.                                     *)

\* Mutant: the flag is looked at in an inner loop only.
CheckNothing ==
    /\ pc = "check"
    /\ pc' = "wait"
    /\ UNCHANGED <<wireVars, fate, stop, evs, inMap, recvVars, queueVars, cur>>

\* The loop's condition.  Behind it the sessions still in the map are destroyed.
Check ==
    /\ pc = "check"
    /\ IF ~stop THEN pc' = "wait" /\ UNCHANGED <<open, edgeVars, inMap, fate>>
       ELSE IF inMap THEN Destroy("done")
       ELSE pc' = "done" /\ UNCHANGED <<open, edgeVars, inMap, fate>>
    /\ UNCHANGED <<netVars, rd, out, noSpace, stop, evs, recvVars, queueVars, cur>>

\* handle_signal, at any point.  It interrupts epoll_wait, unless main was only about to
\* call it and sleeps until the next event.
Signal ==
    /\ ~stop
    /\ stop' = TRUE
    /\ pc' \in IF pc = "wait" THEN {"wait", "check"} ELSE {pc}
    /\ UNCHANGED <<wireVars, fate, evs, inMap, recvVars, queueVars, cur>>

EpollWait ==
    /\ pc = "wait"
    /\ ready /\ Mask # {}
    /\ evs' = Mask
    /\ ready' = FALSE
    /\ pc' = "event"
    /\ UNCHANGED <<netVars, open, rd, out, noSpace, interest, fate, stop, inMap, recvVars,
                   queueVars, cur>>

HupEvent ==
    /\ pc = "event" /\ "hup" \in evs
    /\ Destroy("check")
    /\ UNCHANGED <<netVars, rd, out, noSpace, stop, evs, recvVars, queueVars, cur>>

ConnEvent ==
    /\ pc = "event" /\ "hup" \notin evs
    /\ pc' = IF "in" \in evs THEN "read" ELSE "out"
    /\ UNCHANGED <<wireVars, fate, stop, evs, inMap, recvVars, queueVars, cur>>

-----------------------------------------------------------------------------
(* main: the read loop.                                                    *)

AfterRead == IF "out" \in evs THEN "out" ELSE "check"

Remain == IF stage = "BODY_RECVING" THEN bodyLen - Len(body) ELSE HeadLen - Len(head)
ReadLen == IF Unread < Remain THEN Unread ELSE Remain

ReadEagain ==
    /\ pc = "read"
    /\ Remain > 0 /\ Unread = 0 /\ peer = "up"
    /\ pc' = AfterRead
    /\ UNCHANGED <<wireVars, fate, stop, evs, inMap, recvVars, queueVars, cur>>

\* The connection ends between two messages or within a head: net_error, which skips the
\* EPOLLOUT of the event.
ReadEndsInHead ==
    /\ pc = "read" /\ stage # "BODY_RECVING"
    /\ Unread = 0 /\ peer # "up"
    /\ Destroy("check")
    /\ UNCHANGED <<netVars, rd, out, noSpace, stop, evs, recvVars, queueVars, cur>>

\* It ends within a body, or a body of no bytes is read: the loop is left, and the
\* EPOLLOUT of the event comes next.
ReadEndsInBody ==
    /\ pc = "read" /\ stage = "BODY_RECVING"
    /\ Remain = 0 \/ (Unread = 0 /\ peer # "up")
    /\ Destroy(AfterRead)
    /\ UNCHANGED <<netVars, rd, out, noSpace, stop, evs, recvVars, queueVars, cur>>

ReadPartOfHead ==
    /\ pc = "read" /\ stage # "BODY_RECVING"
    /\ ReadLen > 0 /\ ReadLen < Remain
    /\ rd' = rd + ReadLen
    /\ head' = head \o Bytes(rd, ReadLen)
    /\ stage' = "HEAD_RECVING"
    /\ UNCHANGED <<netVars, open, out, noSpace, edgeVars, fate, stop, pc, evs, inMap,
                   body, bodyLen, type, queueVars, cur>>

ReadHead ==
    /\ pc = "read" /\ stage # "BODY_RECVING"
    /\ ReadLen > 0 /\ ReadLen = Remain
    /\ rd' = rd + ReadLen
    /\ LET h == head \o Bytes(rd, ReadLen) IN
          IF ParseLen(h) > BuffSize
          THEN /\ Destroy(AfterRead)
               /\ UNCHANGED recvVars
          ELSE /\ stage' = "BODY_RECVING"
               /\ head' = h
               /\ body' = <<>>
               /\ bodyLen' = ParseLen(h)
               /\ type' = h[1] - 1
               /\ UNCHANGED <<open, edgeVars, fate, pc, inMap>>
    /\ UNCHANGED <<netVars, out, noSpace, stop, evs, queueVars, cur>>

ReadPartOfBody ==
    /\ pc = "read" /\ stage = "BODY_RECVING"
    /\ ReadLen > 0 /\ ReadLen < Remain
    /\ rd' = rd + ReadLen
    /\ body' = body \o Bytes(rd, ReadLen)
    /\ UNCHANGED <<netVars, open, out, noSpace, edgeVars, fate, stop, pc, evs, inMap,
                   stage, head, bodyLen, type, queueVars, cur>>

\* The message is whole: async_send makes a node of it and looks whether the queue is
\* empty; the buffers are reset, which async_send does not see.
ReadBody ==
    /\ pc = "read" /\ stage = "BODY_RECVING"
    /\ ReadLen > 0 /\ ReadLen = Remain
    /\ rd' = rd + ReadLen
    /\ nodes' = Append(nodes, [buf |-> Frame(type, body \o Bytes(rd, ReadLen)), off |-> 0,
                               next |-> NULL, live |-> TRUE])
    /\ cur' = Len(nodes) + 1
    /\ pc' = IF qhead = NULL THEN "direct" ELSE "queue"
    /\ stage' = "NO_RECV" /\ head' = <<>> /\ body' = <<>>
    /\ UNCHANGED <<netVars, open, out, noSpace, edgeVars, fate, stop, evs, inMap,
                   bodyLen, type, qhead, qtail>>

-----------------------------------------------------------------------------
(* server.c: async_send.                                                   *)

Unsent(n) == Len(nodes[n].buf) - nodes[n].off

\* write takes k bytes of a node.
Write(n, k) ==
    /\ peer \in {"up", "fin"}
    /\ k <= Room /\ k <= Unsent(n)
    /\ out' = out \o SubSeq(nodes[n].buf, nodes[n].off + 1, nodes[n].off + k)

\* Mutant: the read loop ends with a message that is answered.
DirectWriteBreaks ==
    /\ pc = "direct"
    /\ \E k \in 1 .. SendRoom :
          /\ Write(cur, k)
          /\ nodes' = [nodes EXCEPT ![cur].off = @ + k, ![cur].live = k < Unsent(cur)]
          /\ pc' = IF k < Unsent(cur) THEN "direct" ELSE AfterRead
    /\ UNCHANGED <<netVars, open, rd, noSpace, edgeVars, fate, stop, evs, inMap, recvVars,
                   qhead, qtail, cur>>

DirectWrite ==
    /\ pc = "direct"
    /\ \E k \in 1 .. SendRoom :
          /\ Write(cur, k)
          /\ nodes' = [nodes EXCEPT ![cur].off = @ + k, ![cur].live = k < Unsent(cur)]
          /\ pc' = IF k < Unsent(cur) THEN "direct" ELSE "read"
    /\ UNCHANGED <<netVars, open, rd, noSpace, edgeVars, fate, stop, evs, inMap,
                   recvVars, qhead, qtail, cur>>

\* EWOULDBLOCK: the node is enqueued.  Nothing returns then: the code for a queue that
\* was not empty follows, and enqueues the same node behind itself.
DirectEagain ==
    /\ pc = "direct"
    /\ Room = 0 /\ peer \in {"up", "fin"}
    /\ noSpace' = TRUE
    /\ nodes' = [nodes EXCEPT ![cur].next = cur]
    /\ qhead' = cur /\ qtail' = cur
    /\ Arm
    /\ pc' = "read"
    /\ UNCHANGED <<netVars, open, rd, out, fate, stop, evs, inMap, recvVars, cur>>

\* Any other error frees the node; main does not look at the result.  The socket reports
\* its reset once: a further write raises SIGPIPE.
DirectError ==
    /\ pc = "direct" /\ peer = "reset"
    /\ peer' = "abort"
    /\ nodes' = [nodes EXCEPT ![cur].live = FALSE]
    /\ pc' = "read"
    /\ UNCHANGED <<starts, sent, got, open, rd, out, noSpace, edgeVars, fate, stop, evs,
                   inMap, recvVars, qhead, qtail, cur>>

QueueNode ==
    /\ pc = "queue"
    /\ Enqueue(cur)
    /\ Arm
    /\ pc' = "read"
    /\ UNCHANGED <<netVars, open, rd, out, noSpace, fate, stop, evs, inMap, recvVars,
                   cur>>

\* The default action of SIGPIPE, raised by a write to a connection that was reset
\* after the client's fin.
Sigpipe ==
    /\ \/ pc = "direct"
       \/ pc = "drain" /\ cur # NULL /\ nodes[cur].live
    /\ peer = "abort"
    /\ fate' = "sigpipe"
    /\ UNCHANGED <<wireVars, stop, pc, evs, inMap, recvVars, queueVars, cur>>

-----------------------------------------------------------------------------
(* server.c: handle_epollout.                                              *)

\* The session was freed by the read loop: sess->send_que is read all the same.
OutFreed ==
    /\ pc = "out" /\ ~inMap
    /\ fate' = "undefined"
    /\ UNCHANGED <<wireVars, stop, pc, evs, inMap, recvVars, queueVars, cur>>

\* With an empty queue it returns at once, and EPOLLOUT stays registered.
OutStart ==
    /\ pc = "out" /\ inMap
    /\ pc' = IF qhead = NULL THEN "check" ELSE "drain"
    /\ cur' = qhead
    /\ UNCHANGED <<wireVars, fate, stop, evs, inMap, recvVars, queueVars>>

DrainWrite ==
    /\ pc = "drain" /\ cur # NULL /\ nodes[cur].live
    /\ \E k \in 1 .. SendRoom :
          /\ Write(cur, k)
          /\ nodes' = [nodes EXCEPT ![cur].off = @ + k, ![cur].live = k < Unsent(cur)]
          /\ cur' = IF k < Unsent(cur) THEN cur ELSE nodes[cur].next
    /\ UNCHANGED <<netVars, open, rd, noSpace, edgeVars, fate, stop, pc, evs, inMap,
                   recvVars, qhead, qtail>>

\* EAGAIN: wait for the next EPOLLOUT, with head where it was.
DrainEagain ==
    /\ pc = "drain" /\ cur # NULL /\ nodes[cur].live
    /\ Room = 0 /\ peer \in {"up", "fin"}
    /\ noSpace' = TRUE
    /\ ModFd({"in", "out"})
    /\ pc' = "check"
    /\ UNCHANGED <<netVars, open, rd, out, fate, stop, evs, inMap, recvVars, queueVars,
                   cur>>

\* An error: close, but the session stays in the map.
DrainError ==
    /\ pc = "drain" /\ cur # NULL /\ nodes[cur].live
    /\ peer = "reset"
    /\ CloseFd
    /\ pc' = "check"
    /\ UNCHANGED <<netVars, rd, out, noSpace, fate, stop, evs, inMap, recvVars,
                   queueVars, cur>>

DrainFreed ==
    /\ pc = "drain" /\ cur # NULL /\ ~nodes[cur].live
    /\ fate' = "undefined"
    /\ UNCHANGED <<wireVars, stop, pc, evs, inMap, recvVars, queueVars, cur>>

DrainDone ==
    /\ pc = "drain" /\ cur = NULL
    /\ qhead' = NULL /\ qtail' = NULL
    /\ ModFd({"in"})
    /\ pc' = "check"
    /\ UNCHANGED <<netVars, open, rd, out, noSpace, fate, stop, evs, inMap, recvVars,
                   nodes, cur>>

ServerStep ==
    /\ fate = "runs"
    /\ \/ Check \/ EpollWait \/ HupEvent \/ ConnEvent
       \/ ReadEagain \/ ReadEndsInHead \/ ReadEndsInBody \/ ReadPartOfHead \/ ReadHead
       \/ ReadPartOfBody \/ ReadBody
       \/ DirectWrite \/ DirectEagain \/ DirectError \/ QueueNode \/ Sigpipe
       \/ OutFreed \/ OutStart \/ DrainWrite \/ DrainEagain \/ DrainError \/ DrainFreed
       \/ DrainDone

ClientStep ==
    /\ PeerStep
    /\ UNCHANGED <<fate, stop, pc, evs, inMap, recvVars, queueVars, cur>>

Next == ServerStep \/ (fate = "runs" /\ pc # "done" /\ Signal) \/ ClientStep

\* The server runs, and the client reads what was written to it.  Nobody has to send,
\* or to stop the server.
Fairness == WF_vars(ServerStep) /\ WF_vars(ClientStep /\ PeerRead)

Spec == Init /\ [][Next]_vars /\ Fairness

-----------------------------------------------------------------------------
(* Properties.                                                             *)

Node == [buf : Seq(Nat), off : Nat, next : Nat, live : BOOLEAN]

TypeOK ==
    /\ WireTypeOK
    /\ fate \in {"runs", "sigpipe", "undefined"}
    /\ stop \in BOOLEAN
    /\ pc \in {"check", "wait", "event", "read", "direct", "queue", "out", "drain", "done"}
    /\ evs \subseteq {"in", "out", "hup"}
    /\ inMap \in BOOLEAN
    /\ stage \in {"NO_RECV", "HEAD_RECVING", "BODY_RECVING"}
    /\ head \in Seq(Nat) /\ body \in Seq(Nat) /\ bodyLen \in Nat /\ type \in Nat
    /\ nodes \in Seq(Node)
    /\ {qhead, qtail, cur} \subseteq 0 .. Len(nodes)

\* main is about to sleep, or asleep.
Idle == pc \in {"check", "wait"} /\ fate = "runs" /\ open

NodeRest(n) == SubSeq(n.buf, n.off + 1, Len(n.buf))

\* As long as the queue is a list, what was written, what it holds and the message being
\* received are, in this order, the bytes that were read.  The list's ends name nodes.
PipelineInOrder ==
    /\ TypeOK
    /\ Idle /\ peer \in {"up", "fin"} =>
        \A q \in Queues :
           LET received == rd - Len(head) - Len(body) IN
           /\ out = Bytes(0, Len(out))
           /\ InOrder([i \in DOMAIN q |-> NodeRest(nodes[q[i]])], Len(out), received)
           /\ head \o body = Bytes(received, Len(head) + Len(body))

\* No edge is lost: main never sleeps with something to read, an end to notice, or room
\* for what is unsent, with epoll not about to report it; although enqueue_node trusts the
\* mask of the event at hand instead of asking what is registered.
NoEdgeIsLost ==
    Idle /\ (Unread > 0 \/ peer # "up" \/ (qhead # NULL /\ Room > 0)) => ready

\* A signal ends the server, wherever it finds main but in epoll_wait or just before.
StopIsSeen == stop /\ pc # "wait" ~> pc = "done" \/ fate # "runs"

\* A body of no bytes has been announced, which the server takes for the connection's end.
Empty == \E i \in Messages : BodyLen(i) = 0 /\ sent >= starts[i] + HeadLen

Echo == INSTANCE EchoService WITH
    ends     <- {starts[i + 1] : i \in Messages},
    requests <- sent,
    replies  <- out,
    open     <- open,
    mayClose <- peer # "up" \/ Refused \/ Empty \/ stop

\* The connection implements the echo service, as long as the process lives and has used
\* nothing freed, but for messages without a body, on which it is closed.
EchoSpec == Echo!Safety /\ (<>(fate # "runs") \/ Echo!Liveness)

\* async_send unlocks and returns once the node is enqueued: no freed node and no freed
\* session is ever used.
NothingFreedIsUsed == fate # "undefined"
=============================================================================
