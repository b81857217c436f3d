----------------------------- MODULE ThreadServer -----------------------------
(***************************************************************************)
(* Two servers of 17_TCP with blocking calls, which answer whatever a recv *)
(* returns with a greeting:                                                *)
(*   threads  多线程TCP阻塞服务.c, a detached thread for each client       *)
(*   turns    轮询服务端.c, one client after the other                     *)
(*                                                                         *)
(* The handler of a client is a thread of its own in threads, and main     *)
(* itself in turns; it goes by the client's number.  One recv returns one  *)
(* message, or several at once, and one answer is sent for them.           *)
(***************************************************************************)
EXTENDS Integers, SequencesExt

CONSTANTS
    Guests,     \* the clients
    Goers,      \* those of them that may leave
    Sockets,    \* the numbers that accept can give to connections
    AnswerRoom, \* answers that fit into a connection that its client does not read
    MaxAsked    \* a bound on the messages of a client

VARIABLES
    style,     \* the server at issue: "threads" or "turns"
    dead,      \* the process has ended: SIGPIPE, or the exit of turns
    \* The clients.
    queue,     \* connected and not yet accepted
    asked,     \* messages sent, or OFF before the connection
    pieces,    \* those of them that wait to be received
    answers,   \* answers sent and not yet read
    left,      \* it has closed its end
    broken,    \* and has answered bytes sent to it with a reset
    \* The server.
    socketOf,  \* the connections by number: a client or NOBODY
    mainpc,    \* "accept", or "create" with a connection at hand
    newSocket, \* new_socket
    hpc,       \* the handler of each client: "none", "refused", "new", "recv", "send",
               \* "close", "ended"
    argument,  \* the number in the memory that its thread is given
    mine       \* client_socket

guestVars    == <<queue, asked, pieces, answers, left, broken>>
threadedVars == <<style, dead, guestVars, socketOf, mainpc, newSocket, hpc, argument, mine>>

OFF    == -1
NOBODY == "nobody"

ThreadedInit ==
    /\ style \in {"threads", "turns"} /\ dead = FALSE
    /\ queue = <<>>
    /\ asked = [g \in Guests |-> OFF] /\ pieces = [g \in Guests |-> 0]
    /\ answers = [g \in Guests |-> 0]
    /\ left = [g \in Guests |-> FALSE] /\ broken = [g \in Guests |-> FALSE]
    /\ socketOf = [n \in Sockets |-> NOBODY]
    /\ mainpc = "accept" /\ newSocket = OFF
    /\ hpc = [g \in Guests |-> "none"]
    /\ argument = [g \in Guests |-> OFF] /\ mine = [g \in Guests |-> OFF]

FreeSockets == {n \in Sockets : socketOf[n] = NOBODY}
Refused(g)  == hpc[g] = "refused"

-----------------------------------------------------------------------------
(* The clients.                                                            *)

GuestConnects(g) ==
    /\ asked[g] = OFF
    /\ asked' = [asked EXCEPT ![g] = 0]
    /\ queue' = Append(queue, g)
    /\ UNCHANGED <<style, dead, pieces, answers, left, broken,
                   socketOf, mainpc, newSocket, hpc, argument, mine>>

\* A client may ask again before it has, or has read, an answer.
GuestAsks(g) ==
    /\ asked[g] \in 0 .. MaxAsked - 1 /\ ~left[g] /\ ~Refused(g)
    /\ asked' = [asked EXCEPT ![g] = @ + 1]
    /\ pieces' = [pieces EXCEPT ![g] = @ + 1]
    /\ UNCHANGED <<style, dead, queue, answers, left, broken,
                   socketOf, mainpc, newSocket, hpc, argument, mine>>

GuestReads(g) ==
    /\ answers[g] > 0 /\ ~left[g]
    /\ answers' = [answers EXCEPT ![g] = @ - 1]
    /\ UNCHANGED <<style, dead, queue, asked, pieces, left, broken,
                   socketOf, mainpc, newSocket, hpc, argument, mine>>

GuestLeaves(g) ==
    /\ g \in Goers /\ asked[g] # OFF /\ ~left[g]
    /\ left' = [left EXCEPT ![g] = TRUE]
    /\ UNCHANGED <<style, dead, queue, asked, pieces, answers, broken,
                   socketOf, mainpc, newSocket, hpc, argument, mine>>

-----------------------------------------------------------------------------
(* main.                                                                   *)

\* turns accepts when it has closed the client before.
AtAccept ==
    /\ ~dead /\ mainpc = "accept"
    /\ style = "turns" => \A g \in Guests : hpc[g] \in {"none", "ended"}

\* accept blocks for want of a connection.  When it fails, as for want of a number, threads
\* tries again.
Accept ==
    /\ AtAccept /\ queue # <<>>
    /\ \E n \in FreeSockets :
        /\ \A free \in FreeSockets : n <= free
        /\ newSocket' = n
        /\ socketOf' = [socketOf EXCEPT ![n] = Head(queue)]
        /\ IF style = "threads"
           THEN mainpc' = "create" /\ UNCHANGED <<hpc, mine>>
           ELSE /\ hpc' = [hpc EXCEPT ![Head(queue)] = "recv"]
                /\ mine' = [mine EXCEPT ![Head(queue)] = n]
                /\ UNCHANGED mainpc
    /\ queue' = Tail(queue)
    /\ UNCHANGED <<style, dead, asked, pieces, answers, left, broken, argument>>

\* When it fails, turns exits.
AcceptFails ==
    /\ AtAccept /\ style = "turns"
    /\ dead' = TRUE
    /\ UNCHANGED <<style, guestVars, socketOf, mainpc, newSocket, hpc, argument, mine>>

\* The number goes to the new thread in memory of its own.
Create ==
    /\ ~dead /\ mainpc = "create"
    /\ LET g == socketOf[newSocket]
       IN /\ argument' = [argument EXCEPT ![g] = newSocket]
          /\ hpc' = [hpc EXCEPT ![g] = "new"]
    /\ mainpc' = "accept"
    /\ UNCHANGED <<style, dead, guestVars, socketOf, newSocket, mine>>

\* malloc or pthread_create fails.
CreateFails ==
    /\ ~dead /\ mainpc = "create"
    /\ hpc' = [hpc EXCEPT ![socketOf[newSocket]] = "refused"]
    /\ socketOf' = [socketOf EXCEPT ![newSocket] = NOBODY]
    /\ mainpc' = "accept"
    /\ UNCHANGED <<style, dead, guestVars, newSocket, argument, mine>>

-----------------------------------------------------------------------------
(* The handler that was started for g.                                     *)

\* Mutant: the thread is given the address of main's variable.
ThreadStartShared(g) ==
    /\ ~dead /\ hpc[g] = "new"
    /\ mine' = [mine EXCEPT ![g] = newSocket]
    /\ hpc' = [hpc EXCEPT ![g] = "recv"]
    /\ UNCHANGED <<style, dead, guestVars, socketOf, mainpc, newSocket, argument>>

ThreadStart(g) ==
    /\ ~dead /\ hpc[g] = "new"
    /\ mine' = [mine EXCEPT ![g] = argument[g]]
    /\ hpc' = [hpc EXCEPT ![g] = "recv"]
    /\ UNCHANGED <<style, dead, guestVars, socketOf, mainpc, newSocket, argument>>

\* recv blocks until there is a message, an end, or no such descriptor.
Recv(g) ==
    /\ ~dead /\ hpc[g] = "recv"
    /\ LET c == socketOf[mine[g]]
       IN \/ /\ c # NOBODY /\ pieces[c] > 0
             /\ \E n \in 1 .. pieces[c] : pieces' = [pieces EXCEPT ![c] = @ - n]
             /\ hpc' = [hpc EXCEPT ![g] = "send"]
          \/ /\ c # NOBODY => pieces[c] = 0 /\ left[c]
             /\ hpc' = [hpc EXCEPT ![g] = "close"]
             /\ UNCHANGED pieces
    /\ UNCHANGED <<style, dead, queue, asked, answers, left, broken,
                   socketOf, mainpc, newSocket, argument, mine>>

\* send blocks as long as the client stays and does not read.
SendResponse(g) ==
    /\ ~dead /\ hpc[g] = "send"
    /\ LET c == socketOf[mine[g]]
       IN /\ c # NOBODY /\ ~left[c] /\ answers[c] < AnswerRoom
          /\ answers' = [answers EXCEPT ![c] = @ + 1]
    /\ hpc' = [hpc EXCEPT ![g] = "recv"]
    /\ UNCHANGED <<style, dead, queue, asked, pieces, left, broken,
                   socketOf, mainpc, newSocket, argument, mine>>

\* To a client that has left it succeeds once more, and is answered with a reset.
SendToLeft(g) ==
    /\ ~dead /\ hpc[g] = "send"
    /\ LET c == socketOf[mine[g]]
       IN /\ c # NOBODY /\ left[c]
          /\ broken' = [broken EXCEPT ![c] = TRUE]
    /\ hpc' = [hpc EXCEPT ![g] = "recv"]
    /\ UNCHANGED <<style, dead, queue, asked, pieces, answers, left,
                   socketOf, mainpc, newSocket, argument, mine>>

\* It fails after a reset, of that kind or of a client that left with answers unread, and
\* for a number that is closed.
SendFails(g) ==
    /\ ~dead /\ hpc[g] = "send"
    /\ LET c == socketOf[mine[g]]
       IN c # NOBODY => left[c] /\ (broken[c] \/ answers[c] > 0)
    /\ hpc' = [hpc EXCEPT ![g] = "close"]
    /\ UNCHANGED <<style, dead, guestVars, socketOf, mainpc, newSocket, argument, mine>>

\* Or it raises SIGPIPE.
SendKills(g) ==
    /\ ~dead /\ hpc[g] = "send"
    /\ socketOf[mine[g]] # NOBODY /\ broken[socketOf[mine[g]]]
    /\ dead' = TRUE
    /\ UNCHANGED <<style, guestVars, socketOf, mainpc, newSocket, hpc, argument, mine>>

CloseSocket(g) ==
    /\ ~dead /\ hpc[g] = "close"
    /\ socketOf' = [socketOf EXCEPT ![mine[g]] = NOBODY]
    /\ hpc' = [hpc EXCEPT ![g] = "ended"]
    /\ UNCHANGED <<style, dead, guestVars, mainpc, newSocket, argument, mine>>

Handler(g) ==
    \/ ThreadStart(g) \/ Recv(g) \/ CloseSocket(g)
    \/ SendResponse(g) \/ SendToLeft(g) \/ SendFails(g) \/ SendKills(g)

MainStep == Accept \/ AcceptFails \/ Create \/ CreateFails

ThreadedNext ==
    \/ MainStep
    \/ \E g \in Guests : \/ Handler(g) \/ GuestConnects(g) \/ GuestAsks(g) \/ GuestReads(g)
                           \/ GuestLeaves(g)

\* main and the threads run, and accept does not fail for ever while there are a connection
\* and a number.  No client has to do anything.
ThreadedFairness ==
    /\ WF_threadedVars(MainStep)
    /\ \A g \in Guests : WF_threadedVars(Handler(g))

-----------------------------------------------------------------------------
(* Properties.                                                             *)

\* A message that was not received, or not answered.
Unanswered(g) == pieces[g] > 0 \/ hpc[g] = "send"

\* The clients that are being served and stay: silent, or talking on and on, or not reading
\* what is sent to them.
Staying == {g \in Guests : hpc[g] \in {"recv", "send"} /\ ~left[g]}

\* What keeps a client from its answer though the server runs.  It waits in the queue behind
\* such ones: in turns a single one is enough, in threads they hold all the numbers.  Or it
\* does not read itself.
HeldUp(g) ==
    \/ /\ g \in ToSet(queue)
       /\ Cardinality(Staying) >= IF style = "turns" THEN 1 ELSE Cardinality(Sockets)
    \/ hpc[g] = "send" /\ answers[g] = AnswerRoom

\* The messages of a client that stays are answered, however main and the threads are
\* interleaved: each handler has the number of its own client, and no client that has left
\* keeps a number or the server.  The exceptions: the client is refused, for want of memory
\* or of a thread; it waits for ever in the queue behind clients that are being served and
\* never leave; it does not read its answers; or the process has ended, by a client that
\* left before its answers or by a failing accept in turns.
ClientIsAnswered ==
    \A g \in Guests :
        <>[](Unanswered(g) /\ ~left[g] /\ ~Refused(g)) => <>[](dead \/ HeldUp(g))
=============================================================================
