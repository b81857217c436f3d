------------------------------- MODULE Session -------------------------------
(***************************************************************************)
(* One connection of the C++ echo server, from its registration to its     *)
(* close, system call by system call (23_.../src: session.cpp, and the     *)
(* handlers of io_thread.cpp): the state machine that cuts the byte stream *)
(* into messages, the SendData tasks that carry the replies, the send      *)
(* queue with its partial writes, and the edge-triggered epoll interest.   *)
(* The thread that owns the connection has no other; the hand-over of      *)
(* connections between threads is the subject of EventLoop.tla.            *)
(*                                                                         *)
(* The connection itself is Wire.tla.                                    *)
(***************************************************************************)
EXTENDS Wire

VARIABLES
    event,     \* the thread's eventfd has a nonzero count
    alive,     \* the process has not been killed by SIGPIPE
    \* The IO thread.
    pc,        \* where loop and the handlers it calls stand
    batch,     \* events of the last epoll_wait not yet handled: "conn", "eventfd"
    evs,       \* the event mask of the connection in that batch
    tasks, q,  \* _tasks, and the local queue of deal_enque_task
    \* The Session, in _sessions as long as its descriptor is open.
    stage,     \* _recv_stage
    head,      \* the bytes in _head_buf
    body,      \* the bytes in _data_buf
    bodyLen,   \* _data_len of _data_buf
    type,      \* _type of _data_buf
    sendQ      \* _send_que

recvVars == <<stage, head, body, bodyLen, type>>
vars == <<wireVars, event, alive, pc, batch, evs, tasks, q, recvVars, sendQ>>

\* The DataBuf that sends a message.
DataBuf(t, data) == [buf |-> Frame(t, data), off |-> 0]

\* The connection has just been registered.
Init ==
    /\ WireInit
    /\ event = FALSE /\ alive = TRUE
    /\ pc = "wait" /\ batch = {} /\ evs = {} /\ tasks = <<>> /\ q = <<>>
    /\ stage = "NO_RECV" /\ head = <<>> /\ body = <<>> /\ bodyLen = 0 /\ type = 0
    /\ sendQ = <<>>

-----------------------------------------------------------------------------
(* IOThread::loop.                                                         *)

EpollWait ==
    /\ pc = "wait"
    /\ event \/ (ready /\ Mask # {})
    /\ batch' = (IF event THEN {"eventfd"} ELSE {})
                  \cup (IF ready /\ Mask # {} THEN {"conn"} ELSE {})
    /\ evs' = IF ready THEN Mask ELSE {}
    /\ ready' = FALSE
    /\ pc' = "event"
    /\ UNCHANGED <<netVars, rd, out, noSpace, interest, event, alive, tasks, q, open,
                   recvVars, sendQ>>

EndBatch ==
    /\ pc = "event"
    /\ batch = {}
    /\ pc' = "wait"
    /\ UNCHANGED <<wireVars, event, alive, batch, evs, tasks, q, recvVars, sendQ>>

\* EPOLLERR or EPOLLHUP: clear_fd.
HupEvent ==
    /\ pc = "event"
    /\ "conn" \in batch /\ "hup" \in evs
    /\ batch' = batch \ {"conn"}
    /\ CloseFd
    /\ UNCHANGED <<netVars, rd, out, noSpace, event, alive, pc, evs, tasks, q, recvVars,
                   sendQ>>

\* EPOLLIN before EPOLLOUT, for a connection still in _sessions.
ConnEvent ==
    /\ pc = "event"
    /\ "conn" \in batch /\ "hup" \notin evs
    /\ batch' = batch \ {"conn"}
    /\ pc' = IF ~open THEN "event" ELSE IF "in" \in evs THEN "read" ELSE "out"
    /\ UNCHANGED <<wireVars, event, alive, evs, tasks, q, recvVars, sendQ>>

\* The eventfd: deal_enque_task swaps the whole queue out.
BellEvent ==
    /\ pc = "event"
    /\ "eventfd" \in batch
    /\ batch' = batch \ {"eventfd"}
    /\ event' = FALSE
    /\ q' = tasks
    /\ tasks' = <<>>
    /\ pc' = "deal"
    /\ UNCHANGED <<wireVars, alive, evs, recvVars, sendQ>>

-----------------------------------------------------------------------------
(* The read loop of loop, with read_head_data and read_body_data.          *)

AfterRead == IF "out" \in evs THEN "out" ELSE "event"

Reading ==
    /\ pc = "read"
    /\ UNCHANGED <<netVars, out, noSpace, alive, batch, evs, q, sendQ>>

\* What the read still asks for, and what it gets of it.
Remain == IF stage = "BODY_RECVING" THEN bodyLen - Len(body) ELSE HeadLen - Len(head)
ReadLen == IF Unread < Remain THEN Unread ELSE Remain

\* EAGAIN: all is read, the state machine stays where it is.
ReadEagain ==
    /\ Reading
    /\ Remain > 0 /\ Unread = 0 /\ peer = "up"
    /\ pc' = AfterRead
    /\ UNCHANGED <<rd, edgeVars, event, tasks, open, recvVars>>

\* Mutant: the end is taken for EAGAIN.
ReadEndsUnnoticed ==
    /\ Reading
    /\ Remain = 0 \/ (Unread = 0 /\ peer # "up")
    /\ pc' = AfterRead
    /\ UNCHANGED <<rd, edgeVars, event, tasks, open, recvVars>>

\* read returns 0 or an error: clear_fd.  A read of no bytes returns 0, too.
ReadEnds ==
    /\ Reading
    /\ Remain = 0 \/ (Unread = 0 /\ peer # "up")
    /\ CloseFd
    /\ pc' = AfterRead
    /\ UNCHANGED <<rd, event, tasks, recvVars>>

ReadPartOfHead ==
    /\ Reading
    /\ stage # "BODY_RECVING"
    /\ ReadLen > 0 /\ ReadLen < Remain
    /\ rd' = rd + ReadLen
    /\ head' = head \o Bytes(rd, ReadLen)
    /\ stage' = "HEAD_RECVING"
    /\ UNCHANGED <<pc, edgeVars, event, tasks, open, body, bodyLen, type>>

\* Session::Send: a SendData task for the thread itself, and its eventfd.
Send(t, data) ==
    /\ tasks' = Append(tasks, [type |-> t, data |-> data])
    /\ event' = TRUE

\* Mutant: _offset of _head_buf is not reset.
NextMessageKeepsHead ==
    /\ stage' = "NO_RECV"
    /\ body' = <<>>
    /\ UNCHANGED <<head, bodyLen, type>>

NextMessage ==
    /\ stage' = "NO_RECV"
    /\ head' = <<>>
    /\ body' = <<>>
    /\ UNCHANGED <<bodyLen, type>>

ReadHead ==
    /\ Reading
    /\ stage # "BODY_RECVING"
    /\ ReadLen > 0 /\ ReadLen = Remain
    /\ rd' = rd + ReadLen
    /\ LET h == head \o Bytes(rd, ReadLen) IN
          \/ /\ ParseLen(h) > BuffSize
             /\ CloseFd
             /\ pc' = AfterRead
             /\ UNCHANGED <<event, tasks, recvVars>>
          \/ /\ ParseLen(h) = 0
             /\ Send(h[1] - 1, <<>>)
             /\ NextMessage
             /\ UNCHANGED <<pc, edgeVars, open>>
          \/ /\ ParseLen(h) \in 1 .. BuffSize
             /\ stage' = "BODY_RECVING"
             /\ head' = h
             /\ body' = <<>>
             /\ bodyLen' = ParseLen(h)
             /\ type' = h[1] - 1
             /\ UNCHANGED <<pc, edgeVars, event, tasks, open>>

\* Mutant: the read loop ends with a whole message.
ReadBodyOnly ==
    /\ Reading
    /\ stage = "BODY_RECVING"
    /\ ReadLen > 0
    /\ rd' = rd + ReadLen
    /\ LET b == body \o Bytes(rd, ReadLen) IN
          IF ReadLen < Remain
          THEN /\ body' = b
               /\ UNCHANGED <<pc, stage, head, bodyLen, type, event, tasks>>
          ELSE /\ Send(type, b)
               /\ NextMessage
               /\ pc' = AfterRead
    /\ UNCHANGED <<edgeVars, open>>

ReadBody ==
    /\ Reading
    /\ stage = "BODY_RECVING"
    /\ ReadLen > 0
    /\ rd' = rd + ReadLen
    /\ LET b == body \o Bytes(rd, ReadLen) IN
          IF ReadLen < Remain
          THEN /\ body' = b
               /\ UNCHANGED <<stage, head, bodyLen, type, event, tasks>>
          ELSE /\ Send(type, b)
               /\ NextMessage
    /\ UNCHANGED <<pc, edgeVars, open>>

-----------------------------------------------------------------------------
(* Writing: the loop that send_data and handle_epollout have in common.    *)

Writing == UNCHANGED <<netVars, rd, event, batch, evs, tasks, q, recvVars>>

\* write takes some bytes of the first message; one that is written whole is popped.
WriteSome ==
    /\ peer \in {"up", "fin"}
    /\ \E n \in 1 .. SendRoom :
          /\ n <= Room /\ n <= Len(sendQ[1].buf) - sendQ[1].off
          /\ out' = out \o SubSeq(sendQ[1].buf, sendQ[1].off + 1, sendQ[1].off + n)
          /\ sendQ' = IF sendQ[1].off + n = Len(sendQ[1].buf) THEN Tail(sendQ)
                      ELSE [sendQ EXCEPT ![1].off = @ + n]
    /\ UNCHANGED <<noSpace, edgeVars, alive, open, pc>>

\* A reset that answers bytes sent after the client's fin makes the write raise
\* SIGPIPE, whose default action ends the process.
WriteSigpipe ==
    /\ peer = "abort"
    /\ alive' = FALSE
    /\ UNCHANGED <<out, sendQ, noSpace, edgeVars, open, pc>>

\* Mutant: the reply at hand is written before what is unsent.
SendTaskFirst ==
    /\ pc = "deal"
    /\ q # <<>>
    /\ q' = Tail(q)
    /\ IF open
       THEN /\ sendQ' = <<DataBuf(Head(q).type, Head(q).data)>> \o sendQ
            /\ pc' = "send"
       ELSE UNCHANGED <<sendQ, pc>>
    /\ UNCHANGED <<wireVars, event, alive, batch, evs, tasks, recvVars>>

\* deal_enque_task: a task for a connection that is gone is skipped, otherwise
\* send_data queues its DataBuf behind what is still unsent, and writes.
SendTask ==
    /\ pc = "deal"
    /\ q # <<>>
    /\ q' = Tail(q)
    /\ IF open
       THEN /\ sendQ' = Append(sendQ, DataBuf(Head(q).type, Head(q).data))
            /\ pc' = "send"
       ELSE UNCHANGED <<sendQ, pc>>
    /\ UNCHANGED <<wireVars, event, alive, batch, evs, tasks, recvVars>>

Dealt ==
    /\ pc = "deal"
    /\ q = <<>>
    /\ pc' = "event"
    /\ UNCHANGED <<wireVars, event, alive, batch, evs, tasks, q, recvVars, sendQ>>

SendWrite ==
    /\ pc = "send" /\ sendQ # <<>>
    /\ WriteSome \/ WriteSigpipe
    /\ Writing

\* IO_EAGAIN: the rest waits for EPOLLOUT.
SendEagain ==
    /\ pc = "send" /\ sendQ # <<>>
    /\ Room = 0 /\ peer \in {"up", "fin"}
    /\ noSpace' = TRUE
    /\ ModFd({"in", "out"})
    /\ pc' = "deal"
    /\ Writing /\ UNCHANGED <<out, sendQ, alive, open>>

\* IO_ERROR: erase, epoll DEL, close.
SendError ==
    /\ pc = "send" /\ sendQ # <<>>
    /\ peer = "reset"
    /\ CloseFd
    /\ pc' = "deal"
    /\ Writing /\ UNCHANGED <<out, sendQ, noSpace, alive>>

\* IO_SUCCESS: the queue is empty, the interest stays what it is.
SendDone ==
    /\ pc = "send" /\ sendQ = <<>>
    /\ pc' = "deal"
    /\ Writing /\ UNCHANGED <<out, sendQ, noSpace, edgeVars, alive, open>>

\* handle_epollout.
OutWrite ==
    /\ pc = "out" /\ open /\ sendQ # <<>>
    /\ WriteSome \/ WriteSigpipe
    /\ Writing

\* Mutant: the message is popped before it is written whole.
OutEagainPops ==
    /\ pc = "out" /\ open /\ sendQ # <<>>
    /\ Room = 0 /\ peer \in {"up", "fin"}
    /\ noSpace' = TRUE
    /\ sendQ' = Tail(sendQ)
    /\ pc' = "event"
    /\ Writing /\ UNCHANGED <<out, edgeVars, alive, open>>

\* EAGAIN: return, with EPOLLOUT still registered.
OutEagain ==
    /\ pc = "out" /\ open /\ sendQ # <<>>
    /\ Room = 0 /\ peer \in {"up", "fin"}
    /\ noSpace' = TRUE
    /\ pc' = "event"
    /\ Writing /\ UNCHANGED <<out, sendQ, edgeVars, alive, open>>

OutError ==
    /\ pc = "out" /\ open /\ sendQ # <<>>
    /\ peer = "reset"
    /\ CloseFd
    /\ pc' = "event"
    /\ Writing /\ UNCHANGED <<out, sendQ, noSpace, alive>>

\* The queue is drained: EPOLLOUT is given back.
OutDone ==
    /\ pc = "out" /\ open /\ sendQ = <<>>
    /\ ModFd({"in"})
    /\ pc' = "event"
    /\ Writing /\ UNCHANGED <<out, sendQ, noSpace, alive, open>>

\* The read loop has cleared the connection before: every call on its descriptor,
\* whose number is not in use again here, fails and changes nothing.
OutOnCleared ==
    /\ pc = "out" /\ ~open
    /\ pc' = "event"
    /\ Writing /\ UNCHANGED <<out, sendQ, noSpace, edgeVars, alive, open>>

ServerStep ==
    /\ alive
    /\ \/ EpollWait \/ EndBatch \/ HupEvent \/ ConnEvent \/ BellEvent
       \/ ReadEagain \/ ReadEnds \/ ReadPartOfHead \/ ReadHead \/ ReadBody
       \/ SendTask \/ Dealt \/ SendWrite \/ SendEagain \/ SendError \/ SendDone
       \/ OutWrite \/ OutEagain \/ OutError \/ OutDone \/ OutOnCleared

\* The client's steps, of which the IO thread notices nothing but through epoll.
ClientStep ==
    /\ PeerStep
    /\ UNCHANGED <<event, alive, pc, batch, evs, tasks, q, recvVars, sendQ>>

-----------------------------------------------------------------------------
Next == ServerStep \/ ClientStep

\* The thread runs, and the client reads what was written to it.  It need not send.
Fairness == WF_vars(ServerStep) /\ WF_vars(ClientStep /\ PeerRead)

Spec == Init /\ [][Next]_vars /\ Fairness

-----------------------------------------------------------------------------
(* Properties.                                                             *)

Task == [type : Nat, data : Seq(Nat)]
Node == [buf : Seq(Nat), off : Nat]

TypeOK ==
    /\ WireTypeOK
    /\ event \in BOOLEAN /\ alive \in BOOLEAN
    /\ pc \in {"wait", "event", "read", "deal", "send", "out"}
    /\ batch \subseteq {"conn", "eventfd"}
    /\ evs \subseteq {"in", "out", "hup"}
    /\ tasks \in Seq(Task) /\ q \in Seq(Task)
    /\ stage \in {"NO_RECV", "HEAD_RECVING", "BODY_RECVING"}
    /\ head \in Seq(Nat) /\ body \in Seq(Nat) /\ bodyLen \in Nat /\ type \in Nat
    /\ sendQ \in Seq(Node)

\* The bytes of a message waiting as a task or, unwritten, in the send queue.
TaskBytes(t) == DataBuf(t.type, t.data).buf
NodeRest(n)  == SubSeq(n.buf, n.off + 1, Len(n.buf))

Unsent ==
    [i \in DOMAIN sendQ |-> NodeRest(sendQ[i])] \o [i \in DOMAIN q |-> TaskBytes(q[i])]
        \o [i \in DOMAIN tasks |-> TaskBytes(tasks[i])]

\* Where the message that is being received starts.
Received == rd - Len(head) - Len(body)

\* Nothing is lost, doubled or overtaken between the read and the write: what was
\* written, what is unsent, the replies that are still tasks and the message being
\* received are together, in this order, the bytes that were read.  Offsets and lengths
\* stay natural numbers on every way through the partial writes.
PipelineInOrder ==
    /\ TypeOK
    /\ open =>
          /\ out = Bytes(0, Len(out))
          /\ InOrder(Unsent, Len(out), Received)
          /\ head \o body = Bytes(Received, Len(head) + Len(body))

\* The state machine never reads with nothing left to ask for: such a read returns 0,
\* which the handlers take for the end of the connection.
AlwaysAsksForBytes == pc = "read" /\ open => Remain > 0

\* No edge is lost: the thread never waits while there is something to read, an end to
\* notice, or room for what is unsent, with epoll not about to report the connection.
NoEdgeIsLost ==
    pc = "wait" /\ open /\ (Unread > 0 \/ peer # "up" \/ (sendQ # <<>> /\ Room > 0))
        => ready

\* An end of the client's, half-way through whatever the thread is doing, is noticed and
\* the connection closed.
EndIsNoticed == peer # "up" ~> ~open \/ ~alive

Echo == INSTANCE EchoService WITH
    ends     <- {starts[i + 1] : i \in Messages},
    requests <- sent,
    replies  <- out,
    open     <- open /\ alive,
    mayClose <- peer # "up" \/ Refused

\* The connection implements the echo service: the replies are exactly the requests,
\* whole messages only, and it is closed for a reason only.
EchoSpec == Echo!Spec
=============================================================================
