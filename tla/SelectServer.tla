----------------------------- MODULE SelectServer -----------------------------
(***************************************************************************)
(* The select echo server with send queues (19_Select模型/发送优化.c), by  *)
(* system calls: its table of clients, descriptor numbers that come back,  *)
(* level-triggered select, and partial sends.                              *)
(*                                                                         *)
(* The clients and their connections are Clients.tla.                      *)
(***************************************************************************)
EXTENDS Clients

CONSTANTS
    Fds,          \* descriptor numbers
    ServerFd,     \* server_fd
    FdLimits,     \* how many connections the process may hold open (RLIMIT_NOFILE)
    MaxClients    \* MAX_CLIENTS

FREE == "free"

ASSUME ServerAssumption ==
    /\ Fds \cup {ServerFd} \subseteq Nat \ {0} /\ ServerFd \notin Fds
    /\ MaxClients \in Nat /\ FdLimits \subseteq Nat
    /\ FREE \notin Conns

VARIABLES
    table,     \* the descriptor table: a connection, or FREE
    alive,     \* not killed by SIGPIPE
    pc,        \* where main stands
    clients,   \* clients: sockfd, and the send queue from its head
    rset, wset,\* read_fds and write_fds as select leaves them
    i, sd,     \* main's locals, 0 out of their scope; sd is new_socket while accepting
    limit      \* the limit of the process at hand, which no step changes

serverVars == <<table, alive, pc, clients, rset, wset, i, sd>>
vars == <<netVars, serverVars, limit>>

Slots == 0 .. MaxClients - 1
NoClient == [sockfd |-> 0, queue |-> <<>>]

Init ==
    /\ NetInit
    /\ table = [fd \in Fds |-> FREE] /\ alive = TRUE
    /\ pc = "select" /\ clients = [s \in Slots |-> NoClient]
    /\ rset = {} /\ wset = {} /\ i = 0 /\ sd = 0
    /\ limit \in FdLimits

-----------------------------------------------------------------------------
\* select: what the sets are made of, and what it finds ready.
ReadFds  == {ServerFd} \cup ({clients[s].sockfd : s \in Slots} \ {0})
WriteFds == {clients[s].sockfd : s \in {t \in Slots : clients[t].queue # <<>>}} \ {0}

Readable(fd) ==
    IF fd = ServerFd THEN Pending # {}
    ELSE table[fd] # FREE /\ HasInput(table[fd])
Writable(fd) ==
    table[fd] # FREE /\ (Room(table[fd]) > 0 \/ peer[table[fd]] \in {"reset", "abort"})

Select ==
    /\ pc = "select"
    /\ rset' = {fd \in ReadFds : Readable(fd)}
    /\ wset' = {fd \in WriteFds : Writable(fd)}
    /\ rset' \cup wset' # {}
    /\ pc' = IF ServerFd \in rset' THEN "accept" ELSE "slots"
    /\ UNCHANGED <<conn, clientVars, rd, out, table, alive, clients, i, sd>>

-----------------------------------------------------------------------------
(* The accept loop.                                                        *)

NumberFree == Cardinality({fd \in Fds : table[fd] # FREE}) < limit

\* A new descriptor is the lowest free number, unless there is none: EMFILE.
NewFd(fd) ==
    /\ NumberFree
    /\ table[fd] = FREE /\ \A f \in Fds : table[f] = FREE => fd <= f

FreeSlots == {s \in Slots : clients[s].sockfd = 0}

\* A connection gets a number and the first free slot.
Accept ==
    /\ pc = "accept" /\ FreeSlots # {}
    /\ \E c \in Pending, fd \in Fds :
          /\ NewFd(fd)
          /\ table' = [table EXCEPT ![fd] = c]
          /\ conn' = [conn EXCEPT ![c] = "open"]
          /\ LET s == CHOOSE s \in FreeSlots : \A t \in FreeSlots : s <= t IN
                clients' = [clients EXCEPT ![s] = [sockfd |-> fd, queue |-> <<>>]]
    /\ UNCHANGED <<clientVars, rd, out, alive, pc, rset, wset, i, sd>>

\* All slots are taken: the new socket is closed.
AcceptRefuses ==
    /\ pc = "accept" /\ FreeSlots = {}
    /\ \E c \in Pending, fd \in Fds :
          /\ NewFd(fd)
          /\ table' = [table EXCEPT ![fd] = c]
          /\ sd' = fd
          /\ conn' = [conn EXCEPT ![c] = "refused"]
    /\ pc' = "refuse"
    /\ UNCHANGED <<clientVars, rd, out, alive, clients, rset, wset, i>>

\* close: the number is free again, the connection over.  Closing a number that is free
\* fails and changes nothing.
Close(fd) ==
    /\ table' = [table EXCEPT ![fd] = FREE]
    /\ conn' = [c \in Conns |-> IF c = table[fd] THEN "closed" ELSE conn[c]]

CloseRefused ==
    /\ pc = "refuse"
    /\ Close(sd)
    /\ pc' = "accept" /\ sd' = 0
    /\ UNCHANGED <<clientVars, rd, out, alive, clients, rset, wset, i>>

\* Every error ends the loop: EAGAIN (nothing is pending), EMFILE (no number is free), and
\* at any time another one, ENFILE or ENOMEM.  What is pending stays so, and select
\* reports it again.
AcceptEnds ==
    /\ pc = "accept"
    /\ pc' = "slots"
    /\ UNCHANGED <<conn, clientVars, rd, out, table, alive, clients, rset, wset, i, sd>>

-----------------------------------------------------------------------------
(* The loop over the clients.                                              *)

Slot ==
    /\ pc = "slots" /\ i < MaxClients
    /\ sd' = clients[i].sockfd
    /\ IF sd' = 0 THEN i' = i + 1 /\ UNCHANGED pc
       ELSE pc' = (IF sd' \in wset THEN "send" ELSE "recv") /\ UNCHANGED i
    /\ UNCHANGED <<conn, clientVars, rd, out, table, alive, clients, rset, wset>>

\* The sets are made anew.
SlotsEnd ==
    /\ pc = "slots" /\ i = MaxClients
    /\ pc' = "select"
    /\ rset' = {} /\ wset' = {} /\ i' = 0
    /\ UNCHANGED <<conn, clientVars, rd, out, table, alive, clients, sd>>

NextSlot == pc' = "slots" /\ i' = i + 1 /\ sd' = 0

Queue == clients[i].queue
Node  == Queue[1]
Left  == Len(Node.data) - Node.off

enqueue_send(data) == Append(Queue, [data |-> data, off |-> 0])
dequeue_sent       == Tail(Queue)
advance_sent(k)    == [Queue EXCEPT ![1].off = @ + k]

\* Mutant: a node is removed whatever is left of it.
SendDropsRest ==
    /\ pc = "send" /\ Queue # <<>>
    /\ peer[table[sd]] \in {"up", "fin"}
    /\ \E k \in 1 .. SendRoom :
          /\ k <= Room(table[sd]) /\ k <= Left
          /\ out' = [out EXCEPT ![table[sd]] =
                        @ \o SubSeq(Node.data, Node.off + 1, Node.off + k)]
          /\ clients' = [clients EXCEPT ![i].queue = dequeue_sent]
          /\ pc' = "recv"
    /\ UNCHANGED <<conn, clientVars, rd, table, alive, rset, wset, i, sd>>

\* Some bytes of the first node are sent.  A node sent whole is freed, and then looked at
\* to decide whether to go on: either may come out.  One sent in part ends the sending if
\* at least as much is left as was sent.
SendSome ==
    /\ pc = "send" /\ Queue # <<>>
    /\ peer[table[sd]] \in {"up", "fin"}
    /\ \E k \in 1 .. SendRoom :
          /\ k <= Room(table[sd]) /\ k <= Left
          /\ out' = [out EXCEPT ![table[sd]] =
                        @ \o SubSeq(Node.data, Node.off + 1, Node.off + k)]
          /\ clients' = [clients EXCEPT ![i].queue =
                            IF k = Left THEN dequeue_sent ELSE advance_sent(k)]
          /\ pc' \in IF k = Left THEN {"send", "recv"}
                     ELSE IF k <= Left - k THEN {"recv"} ELSE {"send"}
    /\ UNCHANGED <<conn, clientVars, rd, table, alive, rset, wset, i, sd>>

\* The queue is empty, or EAGAIN.
SendEnds ==
    /\ pc = "send"
    /\ Queue = <<>> \/ (Room(table[sd]) = 0 /\ peer[table[sd]] \in {"up", "fin"})
    /\ pc' = "recv"
    /\ UNCHANGED <<conn, clientVars, rd, out, table, alive, clients, rset, wset, i, sd>>

\* An error: close, empty the queue, free the slot; sd keeps the number.
SendError ==
    /\ pc = "send" /\ Queue # <<>> /\ peer[table[sd]] = "reset"
    /\ Close(sd)
    /\ clients' = [clients EXCEPT ![i] = NoClient]
    /\ pc' = "recv"
    /\ UNCHANGED <<clientVars, rd, out, alive, rset, wset, i, sd>>

Sigpipe ==
    /\ pc = "send" /\ Queue # <<>> /\ peer[table[sd]] = "abort"
    /\ alive' = FALSE
    /\ UNCHANGED <<conn, clientVars, rd, out, table, pc, clients, rset, wset, i, sd>>

RecvSkips ==
    /\ pc = "recv" /\ sd \notin rset
    /\ NextSlot
    /\ UNCHANGED <<conn, clientVars, rd, out, table, alive, clients, rset, wset>>

\* What is received is queued, to be sent after the next select.
RecvSome ==
    /\ pc = "recv" /\ sd \in rset /\ table[sd] # FREE
    /\ LET c == table[sd] IN
          /\ Unread(c) > 0
          /\ rd' = [rd EXCEPT ![c] = @ + ReadLen(c)]
          /\ clients' = [clients EXCEPT ![i].queue = enqueue_send(ReadBytes(c))]
    /\ UNCHANGED <<conn, clientVars, out, table, alive, pc, rset, wset, i, sd>>

RecvEagain ==
    /\ pc = "recv" /\ sd \in rset /\ table[sd] # FREE
    /\ Unread(table[sd]) = 0 /\ peer[table[sd]] = "up"
    /\ NextSlot
    /\ UNCHANGED <<conn, clientVars, rd, out, table, alive, clients, rset, wset>>

\* Mutant: the descriptor is closed, but the slot not freed.
RecvEndKeepsSlot ==
    /\ pc = "recv" /\ sd \in rset
    /\ table[sd] # FREE => Unread(table[sd]) = 0 /\ peer[table[sd]] # "up"
    /\ Close(sd)
    /\ clients' = [clients EXCEPT ![i].queue = <<>>]
    /\ NextSlot
    /\ UNCHANGED <<clientVars, rd, out, alive, rset, wset>>

\* Mutant: the end is taken for EAGAIN.
RecvEndUnnoticed ==
    /\ pc = "recv" /\ sd \in rset
    /\ table[sd] # FREE => Unread(table[sd]) = 0 /\ peer[table[sd]] # "up"
    /\ NextSlot
    /\ UNCHANGED <<conn, clientVars, rd, out, table, alive, clients, rset, wset>>

\* The end of the connection, or an error, as of a number that SendError has closed.
\* What is unsent is dropped.
RecvEnd ==
    /\ pc = "recv" /\ sd \in rset
    /\ table[sd] # FREE => Unread(table[sd]) = 0 /\ peer[table[sd]] # "up"
    /\ Close(sd)
    /\ clients' = [clients EXCEPT ![i] = NoClient]
    /\ NextSlot
    /\ UNCHANGED <<clientVars, rd, out, alive, rset, wset>>

ServerStep ==
    /\ alive /\ UNCHANGED limit
    /\ \/ Select \/ Accept \/ AcceptRefuses \/ CloseRefused \/ AcceptEnds
       \/ Slot \/ SlotsEnd \/ SendSome \/ SendEnds \/ SendError \/ Sigpipe
       \/ RecvSkips \/ RecvSome \/ RecvEagain \/ RecvEnd

-----------------------------------------------------------------------------
Next ==
    \/ ServerStep
    \/ /\ \E c \in Conns : Connect(c) \/ ClientSend(c) \/ ClientRead(c) \/ ClientEnd(c)
       /\ UNCHANGED <<serverVars, limit>>

\* The server runs, an error of accept that is none of its own doing (not EAGAIN, not
\* EMFILE) passes, and the clients read what is sent to them.
Fairness ==
    /\ WF_vars(ServerStep)
    /\ SF_vars(ServerStep /\ (Accept \/ AcceptRefuses))
    /\ \A c \in Conns : WF_vars(ClientRead(c) /\ UNCHANGED <<serverVars, limit>>)

Spec == Init /\ [][Next]_vars /\ Fairness

-----------------------------------------------------------------------------
(* Properties.                                                             *)

TypeOK ==
    /\ NetTypeOK
    /\ table \in [Fds -> Conns \cup {FREE}]
    /\ alive \in BOOLEAN
    /\ pc \in {"select", "accept", "refuse", "slots", "send", "recv"}
    /\ \A s \in Slots : /\ clients[s].sockfd \in Fds \cup {0}
                        /\ clients[s].queue \in
                              Seq([data : Seq(Conns \X Nat), off : Nat])
    /\ rset \subseteq Fds \cup {ServerFd} /\ wset \subseteq Fds
    /\ i \in 0 .. MaxClients /\ sd \in Fds \cup {0} /\ limit \in FdLimits

\* Whenever main sleeps, the slots in use name different open descriptors and leave out
\* none: no connection is forgotten, and none of its bytes are queued at another's slot.
SlotsMatchTable ==
    /\ TypeOK
    /\ pc = "select" =>
        /\ \A s \in Slots : clients[s].sockfd # 0 => table[clients[s].sockfd] # FREE
        /\ \A s, t \in Slots :
              s # t /\ clients[s].sockfd # 0 => clients[s].sockfd # clients[t].sockfd
        /\ \A fd \in Fds : table[fd] # FREE => \E s \in Slots : clients[s].sockfd = fd
        /\ \A s \in Slots : \A n \in ToSet(clients[s].queue) : \A b \in ToSet(n.data) :
              clients[s].sockfd # 0 /\ b[1] = table[clients[s].sockfd]

\* A client's end gives its slot and its number back, unless the process is killed.
EndFreesSlot ==
    \A c \in Conns : conn[c] = "open" /\ peer[c] # "up" ~> conn[c] = "closed" \/ ~alive

Echo(c) == INSTANCE EchoService WITH
    ends     <- 1 .. Total[c],
    requests <- sent[c],
    replies  <- [n \in DOMAIN out[c] |-> IF out[c][n][1] = c THEN out[c][n][2] ELSE 0],
    open     <- conn[c] # "closed",
    mayClose <- peer[c] # "up" \/ conn[c] \in {"refused", "closed"}

\* What a step of the server or of a client is to each of the echoes: one of its own, or none.
EchoStep == \A c \in Conns : Echo(c)!Next \/ UNCHANGED Echo(c)!vars

\* Each connection gets back its own bytes, in order, unless it ends, is refused, or the
\* process is killed, or it stays in the accept queue because no number ever becomes free:
\* others, idle ones among them, hold all that the process may have (fewer than there are
\* slots, as with the program's 1024 slots and the usual limit), and select spins.
EchoSpec ==
    /\ \A c \in Conns : Echo(c)!Init
    /\ [][EchoStep]_vars
    /\ \A c \in Conns :
          <>(~alive) \/ <>[](conn[c] = "pending" /\ ~NumberFree) \/ Echo(c)!Liveness
=============================================================================
