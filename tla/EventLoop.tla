------------------------------ MODULE EventLoop ------------------------------
(***************************************************************************)
(* The threads of the C++ echo server (23_.../src: server.cpp,             *)
(* event_loop.cpp, the loop and the task queue of io_thread.cpp): the main *)
(* thread accepts connections and hands each one to an IO thread through   *)
(* that thread's task queue and eventfd, every IO thread serves its own    *)
(* connections, and a signal stops them all.                               *)
(*                                                                         *)
(* A connection is its descriptor; no number is used twice here, reuse is  *)
(* the subject of FdReuse.tla.  A request is one complete message; its     *)
(* bytes, and partial reads and writes, are the subject of Session.tla.    *)
(***************************************************************************)
EXTENDS Integers, Sequences, FiniteSets

CONSTANTS
    NumThreads,  \* server.thread_num, the number of IO threads
    Fds,         \* the descriptors accept may return
    FdLimit,     \* how many connections the process may hold open (RLIMIT_NOFILE)
    MaxRequests, \* bound: requests a client sends, for each connection
    MaxSignals   \* bound: deliveries of SIGINT or SIGTERM

ASSUME NumThreadsAssumption == NumThreads \in Nat \ {0}
ASSUME FdsAssumption == Fds \subseteq Nat /\ IsFiniteSet(Fds) /\ FdLimit \in Nat
ASSUME BoundsAssumption == MaxRequests \in [Fds -> Nat] /\ MaxSignals \in Nat

Threads == 0 .. NumThreads - 1
Main    == -1   \* the main thread
Nobody  == -2   \* no thread runs the signal handler
EventFd == -1   \* the eventfd of the thread at hand, among the events of its epoll

RegisterConn(fd) == [type |-> "RegisterConn", fd |-> fd]
SendData(fd)     == [type |-> "SendData", fd |-> fd]
ShutDown         == [type |-> "ShutDown", fd |-> EventFd]

\* NotifyNewConns: the thread that owns a connection for all its life.
Owner(fd) == fd % NumThreads

VARIABLES
    \* The main thread and the Server object.
    mpc,        \* where Server::run, ~Server or ~EventLoop stands
    mevents,    \* events of the last epoll_wait not yet handled
    connFds,    \* _conn_fds
    toWake,     \* notify_threads of NotifyNewConns
    k,          \* the index of the loops of StopIOThread and ~EventLoop
    srvStop,    \* Server::_stop
    srvEvent,   \* Server::_event_fd has a nonzero count
    \* The listening socket.
    backlog,    \* connections waiting in the accept queue
    listenEdge, \* an edge of the listening socket that epoll_wait has not returned
    leftBehind, \* history: accept failed with a connection queued, and no edge since
    \* The IO threads, each by its index.
    ipc,        \* where IOThread::loop stands
    ievents,    \* events of the last epoll_wait not yet handled
    event,      \* _event_fd has a nonzero count
    tasks,      \* _tasks
    q,          \* the local queue of deal_enque_task
    cur,        \* the connection whose EPOLLIN is being handled
    ioStop,     \* _stop
    sessions,   \* the keys of _sessions
    \* The connections, each by its descriptor.
    conn,       \* "none", "open" or "closed", as the process's descriptor table has it
    edge,       \* an edge of the connection that epoll_wait has not returned
    unread,     \* requests in the socket's receive buffer
    sent,       \* requests the client has sent
    replied,    \* replies written to the connection
    peerClosed, \* the client has closed its end
    \* The signal handler.
    handler,    \* the thread it interrupts, or Nobody
    hpc,        \* where Server::stop stands
    signals     \* signals delivered so far

mainVars    == <<mpc, mevents, connFds, toWake, k>>
serverVars  == <<srvStop, srvEvent>>
listenVars  == <<backlog, listenEdge, leftBehind>>
threadVars  == <<ipc, ievents, q, cur>>
mailVars    == <<event, tasks>>
clientVars  == <<unread, sent, peerClosed>>
handlerVars == <<handler, hpc, signals>>
vars == <<mainVars, serverVars, listenVars, threadVars, mailVars, ioStop, sessions,
          conn, edge, replied, clientVars, handlerVars>>

Opened == {fd \in Fds : conn[fd] = "open"}
Fresh  == {fd \in Fds : conn[fd] = "none"}
Registered(fd) == fd \in sessions[Owner(fd)]

\* main has constructed the Server, whose EventLoop has started every IO thread,
\* and has installed the handler: run is about to be called.
Init ==
    /\ mpc = "start" /\ mevents = {} /\ connFds = <<>> /\ toWake = {} /\ k = 0
    /\ srvStop = TRUE /\ srvEvent = FALSE
    /\ backlog = 0 /\ listenEdge = FALSE /\ leftBehind = FALSE
    /\ ipc = [t \in Threads |-> "check"]
    /\ ievents = [t \in Threads |-> {}]
    /\ event = [t \in Threads |-> FALSE]
    /\ tasks = [t \in Threads |-> <<>>]
    /\ q = [t \in Threads |-> <<>>]
    /\ cur = [t \in Threads |-> EventFd]
    /\ ioStop = [t \in Threads |-> FALSE]
    /\ sessions = [t \in Threads |-> {}]
    /\ conn = [fd \in Fds |-> "none"]
    /\ edge = [fd \in Fds |-> FALSE]
    /\ unread = [fd \in Fds |-> 0]
    /\ sent = [fd \in Fds |-> 0]
    /\ replied = [fd \in Fds |-> 0]
    /\ peerClosed = [fd \in Fds |-> FALSE]
    /\ handler = Nobody /\ hpc = "flag" /\ signals = 0

-----------------------------------------------------------------------------
(* The main thread: Server::run.                                           *)

\* run clears _stop, whatever a handler that ran before it has set.
Run ==
    /\ mpc = "start"
    /\ srvStop' = FALSE
    /\ mpc' = "check"
    /\ UNCHANGED <<mevents, connFds, toWake, k, srvEvent, listenVars, threadVars,
                   mailVars, ioStop, sessions, conn, edge, replied, clientVars, handlerVars>>

\* while(!_stop); the return of run goes on to ~Server.
Check ==
    /\ mpc = "check"
    /\ mpc' = IF srvStop THEN "stopFlag" ELSE "wait"
    /\ UNCHANGED <<mevents, connFds, toWake, k, serverVars, listenVars, threadVars,
                   mailVars, ioStop, sessions, conn, edge, replied, clientVars, handlerVars>>

\* epoll_wait returns every source that is ready: the listening socket once per
\* edge, the eventfd as long as its count is not zero.
Wait ==
    /\ mpc = "wait"
    /\ listenEdge \/ srvEvent
    /\ mevents' = (IF listenEdge THEN {"listen"} ELSE {})
                    \cup (IF srvEvent THEN {"eventfd"} ELSE {})
    /\ listenEdge' = FALSE
    /\ mpc' = "event"
    /\ UNCHANGED <<connFds, toWake, k, serverVars, backlog, leftBehind, threadVars, mailVars,
                   ioStop, sessions, conn, edge, replied, clientVars, handlerVars>>

\* The for over the events, in whatever order the kernel reported them.
ListenEvent ==
    /\ mpc = "event"
    /\ "listen" \in mevents
    /\ mevents' = mevents \ {"listen"}
    /\ mpc' = "accept"
    /\ UNCHANGED <<connFds, toWake, k, serverVars, listenVars, threadVars, mailVars,
                   ioStop, sessions, conn, edge, replied, clientVars, handlerVars>>

\* The eventfd makes run return, whatever events are left.
StopEvent ==
    /\ mpc = "event"
    /\ "eventfd" \in mevents
    /\ srvEvent' = FALSE
    /\ mevents' = {}
    /\ mpc' = "stopFlag"
    /\ UNCHANGED <<connFds, toWake, k, srvStop, listenVars, threadVars, mailVars,
                   ioStop, sessions, conn, edge, replied, clientVars, handlerVars>>

EndEvents ==
    /\ mpc = "event"
    /\ mevents = {}
    /\ mpc' = "check"
    /\ UNCHANGED <<mevents, connFds, toWake, k, serverVars, listenVars, threadVars,
                   mailVars, ioStop, sessions, conn, edge, replied, clientVars, handlerVars>>

\* Mutant: one accept for each event.
AcceptOnce ==
    /\ mpc = "accept"
    /\ backlog > 0
    /\ Cardinality(Opened) < FdLimit
    /\ \E fd \in Fresh :
          /\ conn' = [conn EXCEPT ![fd] = "open"]
          /\ connFds' = Append(connFds, fd)
    /\ backlog' = backlog - 1
    /\ mpc' = "push"
    /\ UNCHANGED <<mevents, toWake, k, serverVars, listenEdge, leftBehind, threadVars,
                   mailVars, ioStop, sessions, edge, replied, clientVars, handlerVars>>

\* accept takes a connection from the queue under a free number.
Accept ==
    /\ mpc = "accept"
    /\ backlog > 0
    /\ Cardinality(Opened) < FdLimit
    /\ \E fd \in Fresh :
          /\ conn' = [conn EXCEPT ![fd] = "open"]
          /\ connFds' = Append(connFds, fd)
    /\ backlog' = backlog - 1
    /\ UNCHANGED <<mpc, mevents, toWake, k, serverVars, listenEdge, leftBehind, threadVars,
                   mailVars, ioStop, sessions, edge, replied, clientVars, handlerVars>>

\* Mutant: what was accepted before the error is not handed on.
AcceptFailsForgets ==
    /\ mpc = "accept"
    /\ leftBehind' = (backlog > 0 /\ ~listenEdge)
    /\ mpc' = "event"
    /\ UNCHANGED <<mevents, connFds, toWake, k, serverVars, backlog, listenEdge, threadVars,
                   mailVars, ioStop, sessions, conn, edge, replied, clientVars, handlerVars>>

\* Every error leaves the accept loop; what was accepted is then handed on.  EAGAIN
\* says that the queue is empty; EMFILE (no number is free: Accept is not possible),
\* and at any time ENFILE, ENOMEM or ECONNABORTED, leave in it what is there, with the
\* edge used up.  (EINTR only retries; a connection that an error takes from the queue
\* is one that has never come.)
AcceptFails ==
    /\ mpc = "accept"
    /\ leftBehind' = (backlog > 0 /\ ~listenEdge)
    /\ mpc' = IF connFds = <<>> THEN "event" ELSE "push"
    /\ UNCHANGED <<mevents, connFds, toWake, k, serverVars, backlog, listenEdge, threadVars,
                   mailVars, ioStop, sessions, conn, edge, replied, clientVars, handlerVars>>

-----------------------------------------------------------------------------
(* The main thread: EventLoop::NotifyNewConns, called by run.              *)

\* catch_new_conn of the owner: a push under _task_mtx, without a wakeup.
CatchNewConn ==
    /\ mpc = "push"
    /\ connFds # <<>>
    /\ LET t == Owner(Head(connFds)) IN
          /\ tasks' = [tasks EXCEPT ![t] = Append(@, RegisterConn(Head(connFds)))]
          /\ toWake' = toWake \cup {t}
    /\ connFds' = Tail(connFds)
    /\ mpc' = IF Tail(connFds) = <<>> THEN "wake" ELSE "push"
    /\ UNCHANGED <<mevents, k, serverVars, listenVars, threadVars, event, ioStop,
                   sessions, conn, edge, replied, clientVars, handlerVars>>

\* Then one wakeup for every thread that got a connection, in any order.
Wakeup ==
    /\ mpc = "wake"
    /\ \E t \in toWake :
          /\ event' = [event EXCEPT ![t] = TRUE]
          /\ toWake' = toWake \ {t}
          /\ mpc' = IF toWake = {t} THEN "event" ELSE "wake"
    /\ UNCHANGED <<mevents, connFds, k, serverVars, listenVars, threadVars, tasks, ioStop,
                   sessions, conn, edge, replied, clientVars, handlerVars>>

-----------------------------------------------------------------------------
(* The main thread: ~Server (StopIOThread), then ~EventLoop (join).        *)

\* stop of thread k: _stop = true, push ShutDown, wakeup.
StopFlag ==
    /\ mpc = "stopFlag"
    /\ ioStop' = [ioStop EXCEPT ![k] = TRUE]
    /\ mpc' = "stopPush"
    /\ UNCHANGED <<mevents, connFds, toWake, k, serverVars, listenVars, threadVars,
                   mailVars, sessions, conn, edge, replied, clientVars, handlerVars>>

StopPush ==
    /\ mpc = "stopPush"
    /\ tasks' = [tasks EXCEPT ![k] = Append(@, ShutDown)]
    /\ mpc' = "stopWake"
    /\ UNCHANGED <<mevents, connFds, toWake, k, serverVars, listenVars, threadVars,
                   event, ioStop, sessions, conn, edge, replied, clientVars, handlerVars>>

\* Mutant: ShutDown is pushed without a wakeup.
StopWakeSilent ==
    /\ mpc = "stopWake"
    /\ k' = IF k + 1 < NumThreads THEN k + 1 ELSE 0
    /\ mpc' = IF k + 1 < NumThreads THEN "stopFlag" ELSE "join"
    /\ UNCHANGED <<mevents, connFds, toWake, serverVars, listenVars, threadVars, mailVars,
                   ioStop, sessions, conn, edge, replied, clientVars, handlerVars>>

\* Mutant: the loop runs one thread too far (i <= _thread_num).
StopWakeOneMore ==
    /\ mpc = "stopWake"
    /\ event' = [event EXCEPT ![k] = TRUE]
    /\ k' = k + 1
    /\ mpc' = IF k < NumThreads THEN "stopFlag" ELSE "join"
    /\ UNCHANGED <<mevents, connFds, toWake, serverVars, listenVars, threadVars,
                   tasks, ioStop, sessions, conn, edge, replied, clientVars, handlerVars>>

StopWake ==
    /\ mpc = "stopWake"
    /\ event' = [event EXCEPT ![k] = TRUE]
    /\ k' = IF k + 1 < NumThreads THEN k + 1 ELSE 0
    /\ mpc' = IF k + 1 < NumThreads THEN "stopFlag" ELSE "join"
    /\ UNCHANGED <<mevents, connFds, toWake, serverVars, listenVars, threadVars,
                   tasks, ioStop, sessions, conn, edge, replied, clientVars, handlerVars>>

\* Mutant: detach instead of join.
JoinDetaches ==
    /\ mpc = "join"
    /\ k' = IF k + 1 < NumThreads THEN k + 1 ELSE 0
    /\ mpc' = IF k + 1 < NumThreads THEN "join" ELSE "done"
    /\ UNCHANGED <<mevents, connFds, toWake, serverVars, listenVars, threadVars,
                   mailVars, ioStop, sessions, conn, edge, replied, clientVars, handlerVars>>

\* join of thread k blocks until its loop has returned.
Join ==
    /\ mpc = "join"
    /\ ipc[k] = "done"
    /\ k' = IF k + 1 < NumThreads THEN k + 1 ELSE 0
    /\ mpc' = IF k + 1 < NumThreads THEN "join" ELSE "done"
    /\ UNCHANGED <<mevents, connFds, toWake, serverVars, listenVars, threadVars,
                   mailVars, ioStop, sessions, conn, edge, replied, clientVars, handlerVars>>

MainStep ==
    /\ handler # Main
    /\ \/ Run \/ Check \/ Wait \/ ListenEvent \/ StopEvent \/ EndEvents
       \/ Accept \/ AcceptFails \/ CatchNewConn \/ Wakeup
       \/ StopFlag \/ StopPush \/ StopWake \/ Join

-----------------------------------------------------------------------------
(* An IO thread: IOThread::loop.                                           *)

IoCheck(t) ==
    /\ ipc[t] = "check"
    /\ ipc' = [ipc EXCEPT ![t] = IF ioStop[t] THEN "done" ELSE "wait"]
    /\ UNCHANGED <<mainVars, serverVars, listenVars, ievents, q, cur, mailVars, ioStop,
                   sessions, conn, edge, replied, clientVars, handlerVars>>

Ready(t) == {fd \in sessions[t] : edge[fd]} \cup (IF event[t] THEN {EventFd} ELSE {})

IoWait(t) ==
    /\ ipc[t] = "wait"
    /\ Ready(t) # {}
    /\ ievents' = [ievents EXCEPT ![t] = Ready(t)]
    /\ edge' = [fd \in Fds |-> edge[fd] /\ fd \notin sessions[t]]
    /\ ipc' = [ipc EXCEPT ![t] = "event"]
    /\ UNCHANGED <<mainVars, serverVars, listenVars, q, cur, mailVars, ioStop, sessions,
                   conn, replied, clientVars, handlerVars>>

\* An event of a connection that is still registered starts the read loop; one of a
\* connection that is gone is skipped.
IoConnEvent(t) ==
    /\ ipc[t] = "event"
    /\ \E fd \in ievents[t] \ {EventFd} :
          /\ ievents' = [ievents EXCEPT ![t] = @ \ {fd}]
          /\ IF fd \in sessions[t]
                THEN /\ cur' = [cur EXCEPT ![t] = fd]
                     /\ ipc' = [ipc EXCEPT ![t] = "read"]
                ELSE UNCHANGED <<cur, ipc>>
    /\ UNCHANGED <<mainVars, serverVars, listenVars, q, mailVars, ioStop, sessions,
                   conn, edge, replied, clientVars, handlerVars>>

\* The eventfd: its count is read, and so cleared, before the tasks are taken.
IoBell(t) ==
    /\ ipc[t] = "event"
    /\ EventFd \in ievents[t]
    /\ ievents' = [ievents EXCEPT ![t] = @ \ {EventFd}]
    /\ event' = [event EXCEPT ![t] = FALSE]
    /\ ipc' = [ipc EXCEPT ![t] = "swap"]
    /\ UNCHANGED <<mainVars, serverVars, listenVars, q, cur, tasks, ioStop, sessions,
                   conn, edge, replied, clientVars, handlerVars>>

IoEndEvents(t) ==
    /\ ipc[t] = "event"
    /\ ievents[t] = {}
    /\ ipc' = [ipc EXCEPT ![t] = "check"]
    /\ UNCHANGED <<mainVars, serverVars, listenVars, ievents, q, cur, mailVars, ioStop,
                   sessions, conn, edge, replied, clientVars, handlerVars>>

\* One complete request is read and Session::Send pushes its reply as a task.
IoRead(t) ==
    /\ ipc[t] = "read"
    /\ unread[cur[t]] > 0
    /\ unread' = [unread EXCEPT ![cur[t]] = @ - 1]
    /\ tasks' = [tasks EXCEPT ![t] = Append(@, SendData(cur[t]))]
    /\ ipc' = [ipc EXCEPT ![t] = "readWake"]
    /\ UNCHANGED <<mainVars, serverVars, listenVars, ievents, q, cur, event, ioStop,
                   sessions, conn, edge, replied, sent, peerClosed, handlerVars>>

\* Mutant: a task of the thread's own needs no wakeup.
IoReadWakeSilent(t) ==
    /\ ipc[t] = "readWake"
    /\ ipc' = [ipc EXCEPT ![t] = "read"]
    /\ UNCHANGED <<mainVars, serverVars, listenVars, ievents, q, cur, mailVars, ioStop,
                   sessions, conn, edge, replied, clientVars, handlerVars>>

\* ... and rings the thread's own eventfd.
IoReadWake(t) ==
    /\ ipc[t] = "readWake"
    /\ event' = [event EXCEPT ![t] = TRUE]
    /\ ipc' = [ipc EXCEPT ![t] = "read"]
    /\ UNCHANGED <<mainVars, serverVars, listenVars, ievents, q, cur, tasks, ioStop,
                   sessions, conn, edge, replied, clientVars, handlerVars>>

\* Mutant: clear_fd closes without erasing.
IoReadEndKeepsSession(t) ==
    /\ ipc[t] = "read"
    /\ unread[cur[t]] = 0
    /\ IF peerClosed[cur[t]]
          THEN /\ conn' = [conn EXCEPT ![cur[t]] = "closed"]
               /\ edge' = [edge EXCEPT ![cur[t]] = FALSE]
          ELSE UNCHANGED <<conn, edge>>
    /\ ipc' = [ipc EXCEPT ![t] = "event"]
    /\ UNCHANGED <<mainVars, serverVars, listenVars, ievents, q, cur, mailVars, ioStop,
                   sessions, replied, clientVars, handlerVars>>

\* EAGAIN, nothing is left to read; or end of file, clear_fd erases and closes.
IoReadEnd(t) ==
    /\ ipc[t] = "read"
    /\ unread[cur[t]] = 0
    /\ IF peerClosed[cur[t]]
          THEN /\ sessions' = [sessions EXCEPT ![t] = @ \ {cur[t]}]
               /\ conn' = [conn EXCEPT ![cur[t]] = "closed"]
               /\ edge' = [edge EXCEPT ![cur[t]] = FALSE]
          ELSE UNCHANGED <<sessions, conn, edge>>
    /\ ipc' = [ipc EXCEPT ![t] = "event"]
    /\ UNCHANGED <<mainVars, serverVars, listenVars, ievents, q, cur, mailVars, ioStop,
                   replied, clientVars, handlerVars>>

-----------------------------------------------------------------------------
(* An IO thread: IOThread::deal_enque_task.                                *)

\* Mutant: the queue is copied, not swapped.
IoCopy(t) ==
    /\ ipc[t] = "swap"
    /\ q' = [q EXCEPT ![t] = tasks[t]]
    /\ ipc' = [ipc EXCEPT ![t] = "deal"]
    /\ UNCHANGED <<mainVars, serverVars, listenVars, ievents, cur, mailVars, ioStop, sessions,
                   conn, edge, replied, clientVars, handlerVars>>

IoSwap(t) ==
    /\ ipc[t] = "swap"
    /\ q' = [q EXCEPT ![t] = tasks[t]]
    /\ tasks' = [tasks EXCEPT ![t] = <<>>]
    /\ ipc' = [ipc EXCEPT ![t] = "deal"]
    /\ UNCHANGED <<mainVars, serverVars, listenVars, ievents, cur, event, ioStop, sessions,
                   conn, edge, replied, clientVars, handlerVars>>

\* A Session is created and the descriptor added to epoll, which reports at once
\* what is already readable.
IoRegister(t) ==
    /\ ipc[t] = "deal"
    /\ q[t] # <<>>
    /\ Head(q[t]).type = "RegisterConn"
    /\ LET fd == Head(q[t]).fd IN
          /\ sessions' = [sessions EXCEPT ![t] = @ \cup {fd}]
          /\ edge' = [edge EXCEPT ![fd] = unread[fd] > 0 \/ peerClosed[fd]]
    /\ q' = [q EXCEPT ![t] = Tail(@)]
    /\ UNCHANGED <<mainVars, serverVars, listenVars, ipc, ievents, cur, mailVars, ioStop,
                   conn, replied, clientVars, handlerVars>>

\* The reply is written; if the connection is gone it is dropped.
IoSend(t) ==
    /\ ipc[t] = "deal"
    /\ q[t] # <<>>
    /\ Head(q[t]).type = "SendData"
    /\ LET fd == Head(q[t]).fd IN
          replied' = IF fd \in sessions[t] THEN [replied EXCEPT ![fd] = @ + 1] ELSE replied
    /\ q' = [q EXCEPT ![t] = Tail(@)]
    /\ UNCHANGED <<mainVars, serverVars, listenVars, ipc, ievents, cur, mailVars, ioStop,
                   sessions, conn, edge, clientVars, handlerVars>>

\* send_data returns -1, which a client that has closed can cause: erase, epoll DEL, close.
IoSendFails(t) ==
    /\ ipc[t] = "deal"
    /\ q[t] # <<>>
    /\ Head(q[t]).type = "SendData"
    /\ LET fd == Head(q[t]).fd IN
          /\ fd \in sessions[t]
          /\ peerClosed[fd]
          /\ sessions' = [sessions EXCEPT ![t] = @ \ {fd}]
          /\ conn' = [conn EXCEPT ![fd] = "closed"]
          /\ edge' = [edge EXCEPT ![fd] = FALSE]
    /\ q' = [q EXCEPT ![t] = Tail(@)]
    /\ UNCHANGED <<mainVars, serverVars, listenVars, ipc, ievents, cur, mailVars, ioStop,
                   replied, clientVars, handlerVars>>

\* ShutDown returns false, and loop returns: the tasks behind it are dropped.
IoShutDown(t) ==
    /\ ipc[t] = "deal"
    /\ q[t] # <<>>
    /\ Head(q[t]).type = "ShutDown"
    /\ q' = [q EXCEPT ![t] = <<>>]
    /\ ievents' = [ievents EXCEPT ![t] = {}]
    /\ ipc' = [ipc EXCEPT ![t] = "done"]
    /\ UNCHANGED <<mainVars, serverVars, listenVars, cur, mailVars, ioStop, sessions,
                   conn, edge, replied, clientVars, handlerVars>>

\* Mutant: the eventfd's count is read after the tasks.
IoDealtReadsCount(t) ==
    /\ ipc[t] = "deal"
    /\ q[t] = <<>>
    /\ event' = [event EXCEPT ![t] = FALSE]
    /\ ipc' = [ipc EXCEPT ![t] = "event"]
    /\ UNCHANGED <<mainVars, serverVars, listenVars, ievents, q, cur, tasks, ioStop,
                   sessions, conn, edge, replied, clientVars, handlerVars>>

IoDealt(t) ==
    /\ ipc[t] = "deal"
    /\ q[t] = <<>>
    /\ ipc' = [ipc EXCEPT ![t] = "event"]
    /\ UNCHANGED <<mainVars, serverVars, listenVars, ievents, q, cur, mailVars, ioStop,
                   sessions, conn, edge, replied, clientVars, handlerVars>>

IoStep(t) ==
    /\ handler # t
    /\ \/ IoCheck(t) \/ IoWait(t) \/ IoConnEvent(t) \/ IoBell(t) \/ IoEndEvents(t)
       \/ IoRead(t) \/ IoReadWake(t) \/ IoReadEnd(t)
       \/ IoSwap(t) \/ IoRegister(t) \/ IoSend(t) \/ IoSendFails(t) \/ IoShutDown(t)
       \/ IoDealt(t)

-----------------------------------------------------------------------------
(* A signal: the kernel runs the handler, which calls Server::stop, on any *)
(* thread; an epoll_wait it interrupts returns EINTR and the loop goes on. *)

Deliver(p) ==
    /\ handler = Nobody
    /\ signals < MaxSignals
    /\ mpc # "done" /\ (p \in Threads => ipc[p] # "done")
    /\ signals' = signals + 1
    /\ handler' = p
    /\ mpc' = IF p = Main /\ mpc = "wait" THEN "check" ELSE mpc
    /\ ipc' = [t \in Threads |-> IF t = p /\ ipc[t] = "wait" THEN "check" ELSE ipc[t]]
    /\ UNCHANGED <<mevents, connFds, toWake, k, serverVars, listenVars, ievents, q, cur,
                   mailVars, ioStop, sessions, conn, edge, replied, clientVars, hpc>>

HandlerFlag ==
    /\ handler # Nobody
    /\ hpc = "flag"
    /\ srvStop' = TRUE
    /\ hpc' = "write"
    /\ UNCHANGED <<mainVars, srvEvent, listenVars, threadVars, mailVars, ioStop, sessions,
                   conn, edge, replied, clientVars, handler, signals>>

\* Mutant: the handler sets the flag only.
HandlerNoWrite ==
    /\ handler # Nobody
    /\ hpc = "write"
    /\ hpc' = "flag"
    /\ handler' = Nobody
    /\ UNCHANGED <<mainVars, serverVars, listenVars, threadVars, mailVars, ioStop, sessions,
                   conn, edge, replied, clientVars, signals>>

HandlerWrite ==
    /\ handler # Nobody
    /\ hpc = "write"
    /\ srvEvent' = TRUE
    /\ hpc' = "flag"
    /\ handler' = Nobody
    /\ UNCHANGED <<mainVars, srvStop, listenVars, threadVars, mailVars, ioStop, sessions,
                   conn, edge, replied, clientVars, signals>>

HandlerStep == HandlerFlag \/ HandlerWrite

-----------------------------------------------------------------------------
(* The clients.                                                            *)

\* A client connects: an edge of the listening socket.
Connect ==
    /\ backlog < Cardinality(Fresh)
    /\ backlog' = backlog + 1
    /\ listenEdge' = TRUE
    /\ leftBehind' = FALSE
    /\ UNCHANGED <<mainVars, serverVars, threadVars, mailVars, ioStop, sessions, conn,
                   edge, replied, clientVars, handlerVars>>

Request(fd) ==
    /\ conn[fd] = "open" /\ ~peerClosed[fd]
    /\ sent[fd] < MaxRequests[fd]
    /\ sent' = [sent EXCEPT ![fd] = @ + 1]
    /\ unread' = [unread EXCEPT ![fd] = @ + 1]
    /\ edge' = [edge EXCEPT ![fd] = Registered(fd)]
    /\ UNCHANGED <<mainVars, serverVars, listenVars, threadVars, mailVars, ioStop, sessions,
                   conn, replied, peerClosed, handlerVars>>

PeerClose(fd) ==
    /\ conn[fd] = "open" /\ ~peerClosed[fd]
    /\ peerClosed' = [peerClosed EXCEPT ![fd] = TRUE]
    /\ edge' = [edge EXCEPT ![fd] = Registered(fd)]
    /\ UNCHANGED <<mainVars, serverVars, listenVars, threadVars, mailVars, ioStop, sessions,
                   conn, replied, unread, sent, handlerVars>>

ClientStep == Connect \/ \E fd \in Fds : Request(fd) \/ PeerClose(fd)

-----------------------------------------------------------------------------
Next ==
    \/ MainStep
    \/ \E t \in Threads : IoStep(t)
    \/ \E p \in Threads \cup {Main} : Deliver(p)
    \/ HandlerStep
    \/ ClientStep

\* The scheduler runs every thread that can run, and a handler to its end.  Nothing
\* makes a client connect, send or close, nor a signal arrive.
Fairness ==
    /\ WF_vars(MainStep)
    /\ \A t \in Threads : WF_vars(IoStep(t))
    /\ WF_vars(HandlerStep)

Spec == Init /\ [][Next]_vars /\ Fairness
-----------------------------------------------------------------------------
(* Properties.                                                             *)

TaskType == {RegisterConn(fd) : fd \in Fds} \cup {SendData(fd) : fd \in Fds} \cup {ShutDown}

TypeOK ==
    /\ mpc \in {"start", "check", "wait", "event", "accept", "push", "wake",
                "stopFlag", "stopPush", "stopWake", "join", "done"}
    /\ mevents \subseteq {"listen", "eventfd"}
    /\ connFds \in Seq(Fds)
    /\ toWake \subseteq Threads
    /\ k \in Threads
    /\ srvStop \in BOOLEAN /\ srvEvent \in BOOLEAN
    /\ backlog \in Nat /\ listenEdge \in BOOLEAN /\ leftBehind \in BOOLEAN
    /\ ipc \in [Threads -> {"check", "wait", "event", "swap", "deal", "read", "readWake",
                            "done"}]
    /\ ievents \in [Threads -> SUBSET (Fds \cup {EventFd})]
    /\ event \in [Threads -> BOOLEAN]
    /\ tasks \in [Threads -> Seq(TaskType)]
    /\ q \in [Threads -> Seq(TaskType)]
    /\ cur \in [Threads -> Fds \cup {EventFd}]
    /\ ioStop \in [Threads -> BOOLEAN]
    /\ sessions \in [Threads -> SUBSET Fds]
    /\ conn \in [Fds -> {"none", "open", "closed"}]
    /\ edge \in [Fds -> BOOLEAN]
    /\ unread \in [Fds -> Nat] /\ sent \in [Fds -> Nat] /\ replied \in [Fds -> Nat]
    /\ peerClosed \in [Fds -> BOOLEAN]
    /\ handler \in Threads \cup {Main, Nobody}
    /\ hpc \in {"flag", "write"}
    /\ signals \in Nat

\* Somebody has pushed to thread t's queue and is yet to ring t's eventfd.
WakeupDue(t) ==
    \/ mpc \in {"push", "wake"} /\ t \in toWake
    \/ mpc = "stopWake" /\ k = t
    \/ ipc[t] = "readWake"

\* No wakeup is lost: an IO thread never sleeps in epoll_wait on an unread queue with
\* its eventfd at zero, unless the one that pushed last is about to ring it.  This is
\* why the count is read before the queue is swapped, and why NotifyNewConns may push
\* a whole batch before it rings.
NoLostWakeup ==
    \A t \in Threads :
        ipc[t] = "wait" /\ tasks[t] # <<>> => event[t] \/ WakeupDue(t)

Positions(s, x) == {i \in DOMAIN s : s[i] = x}

\* Every place that is answerable for a connection.
Holders(fd) ==
    {<<"accepted", Owner(fd), i>> : i \in Positions(connFds, fd)}
      \cup UNION {{<<"tasks", t, i>> : i \in Positions(tasks[t], RegisterConn(fd))}
                  \cup {<<"q", t, i>> : i \in Positions(q[t], RegisterConn(fd))}
                  \cup {<<"session", t, 0>> : x \in sessions[t] \cap {fd}} : t \in Threads}

\* A connection that is open is held in exactly one place, on its way to its owner or
\* in the owner's session map, also when the server stops half-way: it is never served
\* by two threads and never forgotten.  A closed one is held nowhere.
Custody ==
    \A fd \in Fds :
        /\ Cardinality(Holders(fd)) = IF conn[fd] = "open" THEN 1 ELSE 0
        /\ \A h \in Holders(fd) : h[2] = Owner(fd)

\* As long as a connection is open and its thread runs, each request the client has sent
\* is unread, or its reply is a task, or its reply was written: none is lost between
\* the read loop, Session::Send and the swapped queue.
RequestsAccounted ==
    \A fd \in Fds :
        conn[fd] = "open" /\ ipc[Owner(fd)] # "done" =>
            sent[fd] = unread[fd] + replied[fd]
                         + Cardinality(Positions(tasks[Owner(fd)], SendData(fd)))
                         + Cardinality(Positions(q[Owner(fd)], SendData(fd)))

\* When ~EventLoop has joined its threads and goes on to destroy the IOThreads, none of
\* them runs any more.
JoinedMeansStopped == mpc = "done" => \A t \in Threads : ipc[t] = "done"

\* The main thread never waits with a connection in the accept queue and its edge used
\* up, but when accept itself has failed (no number free, or another error) and no
\* client has come since: an accept loop that ends with EAGAIN leaves nothing behind,
\* and what a failing one leaves is taken up with the next connection.
AcceptUntilEagain == mpc = "wait" /\ backlog > 0 => listenEdge \/ leftBehind

\* A client that connects is accepted, unless accept fails (then it waits, numbers
\* becoming free or not, until another client connects, and this starts again), and
\* what is accepted is registered with its IO thread, unless the server is told to stop.
ConnectionIsServed ==
    /\ backlog > 0 ~> backlog = 0 \/ leftBehind \/ signals > 0
    /\ \A fd \in Fds :
          conn[fd] = "open" ~> Registered(fd) \/ conn[fd] = "closed" \/ signals > 0

\* Every request is answered, unless the client closes or the server is told to stop.
RequestIsAnswered ==
    \A fd \in Fds :
        sent[fd] > replied[fd] ~> sent[fd] = replied[fd] \/ peerClosed[fd] \/ signals > 0

\* A signal, at whatever point and on whatever thread it strikes, run not yet entered
\* included, ends with every thread joined.
SignalStopsServer == signals > 0 ~> mpc = "done"

Done == {t \in Threads : ipc[t] = "done"}

\* The tasks thread t has not handled: those of the swapped queue come first.
Mail(t) == IF t \in Done THEN <<>> ELSE q[t] \o tasks[t]

Mailbox == INSTANCE TaskMailbox WITH
    Owners  <- Threads,
    Letters <- TaskType,
    mail    <- [t \in Threads |-> Mail(t)],
    asked   <- {t \in Threads : ioStop[t]},
    closed  <- Done

\* The queues, eventfds and batches implement the mailboxes of TaskMailbox: every task
\* is handled once, in the order of posting, a sleeping thread is woken for it, and no
\* thread leaves before StopIOThread has asked it to.
MailboxSpec == Mailbox!Spec
=============================================================================
