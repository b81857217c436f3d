--------------------------- MODULE EventLoopProofs ---------------------------
(***************************************************************************)
(* Theorems about EventLoop, for every number of threads, every finite set *)
(* of descriptors and every bound: the types, wake-ups, joins and queues;  *)
(* then where a connection is held, from its accept to its close, what     *)
(* waits in the accept queue, and what becomes of a request.               *)
(***************************************************************************)
EXTENDS EventLoop, TLAPS, FiniteSetTheorems

-----------------------------------------------------------------------------
(* Facts about the operators.                                              *)

\* The owner of a descriptor is a thread.
LEMMA OwnerIsThread == ASSUME NEW fd \in Fds PROVE Owner(fd) \in Threads
BY NumThreadsAssumption, FdsAssumption DEF Owner, Threads

\* The tasks that are built belong to TaskType, and one that says RegisterConn or
\* SendData names a connection.
LEMMA TaskFacts ==
    /\ \A fd \in Fds : RegisterConn(fd) \in TaskType /\ SendData(fd) \in TaskType
    /\ ShutDown \in TaskType
    /\ \A x \in TaskType : x.type \in {"RegisterConn", "SendData"} => x.fd \in Fds
<1>1. \A fd \in Fds : RegisterConn(fd) \in TaskType /\ SendData(fd) \in TaskType
  BY DEF TaskType
<1>2. ShutDown \in TaskType
  BY DEF TaskType
<1>3. ASSUME NEW x \in TaskType, x.type \in {"RegisterConn", "SendData"} PROVE x.fd \in Fds
  <2>1. x # ShutDown  BY <1>3 DEF ShutDown
  <2>2. \E fd \in Fds : x = RegisterConn(fd) \/ x = SendData(fd)
    BY <2>1 DEF TaskType
  <2>. QED  BY <2>2 DEF RegisterConn, SendData
<1>. QED
  BY <1>1, <1>2, <1>3

\* What Append, Head and Tail do to a sequence of any kind.
LEMMA SeqFacts ==
    ASSUME NEW S, NEW s \in Seq(S)
    PROVE  /\ <<>> \in Seq(S)
           /\ \A x \in S : Append(s, x) \in Seq(S)
           /\ s # <<>> => Head(s) \in S /\ Tail(s) \in Seq(S)
OBVIOUS

-----------------------------------------------------------------------------
(* The type invariant.  It is inductive together with the fact that a      *)
(* thread that reads has a connection to read.                             *)

CurIsConn == \A t \in Threads : ipc[t] \in {"read", "readWake"} => cur[t] \in Fds

TypeInv == TypeOK /\ CurIsConn

LEMMA TypeInit == Init => TypeInv
<1> SUFFICES ASSUME Init PROVE TypeInv OBVIOUS
<1>1. 0 \in Threads
  BY NumThreadsAssumption DEF Threads
<1>2. <<>> \in Seq(Fds) /\ <<>> \in Seq(TaskType)
  OBVIOUS
<1>. QED
  BY <1>1, <1>2 DEF Init, TypeInv, TypeOK, CurIsConn

LEMMA TypeMain == TypeInv /\ MainStep => TypeInv'
<1> SUFFICES ASSUME TypeInv, MainStep PROVE TypeInv' OBVIOUS
<1> USE DEF TypeInv, TypeOK, CurIsConn, mainVars, serverVars, listenVars, threadVars,
            mailVars, clientVars, handlerVars
<1>m. (IF k + 1 < NumThreads THEN k + 1 ELSE 0) \in Threads
  BY NumThreadsAssumption DEF Threads
<1>1. CASE Run  BY <1>1 DEF Run
<1>2. CASE Check  BY <1>2 DEF Check
<1>3. CASE Wait  BY <1>3 DEF Wait
<1>4. CASE ListenEvent  BY <1>4 DEF ListenEvent
<1>5. CASE StopEvent  BY <1>5 DEF StopEvent
<1>6. CASE EndEvents  BY <1>6 DEF EndEvents
<1>7. CASE Accept
  <2> PICK fd \in Fresh : /\ conn' = [conn EXCEPT ![fd] = "open"]
                          /\ connFds' = Append(connFds, fd)
    BY <1>7 DEF Accept
  <2>1. fd \in Fds  BY DEF Fresh
  <2>2. connFds' \in Seq(Fds)  BY <2>1, SeqFacts
  <2>. QED  BY <1>7, <2>1, <2>2 DEF Accept
<1>8. CASE AcceptFails  BY <1>8 DEF AcceptFails
<1>9. CASE CatchNewConn
  <2>1. Head(connFds) \in Fds /\ Tail(connFds) \in Seq(Fds)
    BY <1>9, SeqFacts DEF CatchNewConn
  <2>2. Owner(Head(connFds)) \in Threads
    BY <2>1, OwnerIsThread
  <2>3. Append(tasks[Owner(Head(connFds))], RegisterConn(Head(connFds))) \in Seq(TaskType)
    BY <2>1, <2>2, TaskFacts, SeqFacts
  <2>. QED  BY <1>9, <2>1, <2>2, <2>3 DEF CatchNewConn
<1>10. CASE Wakeup  BY <1>10 DEF Wakeup
<1>11. CASE StopFlag  BY <1>11 DEF StopFlag
<1>12. CASE StopPush
  <2>1. Append(tasks[k], ShutDown) \in Seq(TaskType)  BY TaskFacts, SeqFacts
  <2>. QED  BY <1>12, <2>1 DEF StopPush
<1>13. CASE StopWake  BY <1>13, <1>m DEF StopWake
<1>14. CASE Join  BY <1>14, <1>m DEF Join
<1>. QED
  BY <1>1, <1>2, <1>3, <1>4, <1>5, <1>6, <1>7, <1>8, <1>9, <1>10, <1>11, <1>12, <1>13,
     <1>14 DEF MainStep

LEMMA TypeIo == ASSUME NEW t \in Threads PROVE TypeInv /\ IoStep(t) => TypeInv'
<1> SUFFICES ASSUME TypeInv, IoStep(t) PROVE TypeInv' OBVIOUS
<1> USE DEF TypeInv, TypeOK, CurIsConn, mainVars, serverVars, listenVars, threadVars,
            mailVars, clientVars, handlerVars
<1>0. q[t] # <<>> => Head(q[t]) \in TaskType /\ Tail(q[t]) \in Seq(TaskType)
  BY SeqFacts
<1>1. CASE IoCheck(t)  BY <1>1 DEF IoCheck
<1>2. CASE IoWait(t)
  <2>1. Ready(t) \subseteq Fds \cup {EventFd}  BY DEF Ready
  <2>. QED  BY <1>2, <2>1 DEF IoWait
<1>3. CASE IoConnEvent(t)
  <2> PICK fd \in ievents[t] \ {EventFd} :
         /\ ievents' = [ievents EXCEPT ![t] = @ \ {fd}]
         /\ IF fd \in sessions[t]
               THEN /\ cur' = [cur EXCEPT ![t] = fd]
                    /\ ipc' = [ipc EXCEPT ![t] = "read"]
               ELSE UNCHANGED <<cur, ipc>>
    BY <1>3 DEF IoConnEvent
  <2>1. fd \in Fds  OBVIOUS
  <2>2. CASE fd \in sessions[t]
    <3>1. /\ cur' = [cur EXCEPT ![t] = fd]
          /\ ipc' = [ipc EXCEPT ![t] = "read"]
      BY <2>2
    <3>2. ipc' \in [Threads -> {"check", "wait", "event", "swap", "deal", "read",
                               "readWake", "done"}]
      BY <3>1
    <3>3. cur' \in [Threads -> Fds \cup {EventFd}] /\ CurIsConn'  BY <2>1, <3>1
    <3>4. ievents' \in [Threads -> SUBSET (Fds \cup {EventFd})]  OBVIOUS
    <3>. QED  BY <1>3, <3>2, <3>3, <3>4 DEF IoConnEvent
  <2>3. CASE fd \notin sessions[t]  BY <1>3, <2>1, <2>3 DEF IoConnEvent
  <2>. QED  BY <2>2, <2>3
<1>4. CASE IoBell(t)  BY <1>4 DEF IoBell
<1>5. CASE IoEndEvents(t)  BY <1>5 DEF IoEndEvents
<1>6. CASE IoRead(t)
  <2>1. cur[t] \in Fds  BY <1>6 DEF IoRead
  <2>2. Append(tasks[t], SendData(cur[t])) \in Seq(TaskType)
    BY <2>1, TaskFacts, SeqFacts
  <2>. QED  BY <1>6, <2>1, <2>2 DEF IoRead
<1>7. CASE IoReadWake(t)  BY <1>7 DEF IoReadWake
<1>8. CASE IoReadEnd(t)
  <2>1. cur[t] \in Fds  BY <1>8 DEF IoReadEnd
  <2>2. CASE peerClosed[cur[t]]
    <3>1. /\ sessions' = [sessions EXCEPT ![t] = @ \ {cur[t]}]
          /\ conn' = [conn EXCEPT ![cur[t]] = "closed"]
          /\ edge' = [edge EXCEPT ![cur[t]] = FALSE]
      BY <1>8, <2>2 DEF IoReadEnd
    <3>2. sessions' \in [Threads -> SUBSET Fds]  BY <3>1
    <3>3. conn' \in [Fds -> {"none", "open", "closed"}] /\ edge' \in [Fds -> BOOLEAN]
      BY <2>1, <3>1
    <3>. QED  BY <1>8, <3>2, <3>3 DEF IoReadEnd
  <2>3. CASE ~peerClosed[cur[t]]  BY <1>8, <2>1, <2>3 DEF IoReadEnd
  <2>. QED  BY <2>2, <2>3
<1>9. CASE IoSwap(t)  BY <1>9, SeqFacts DEF IoSwap
<1>10. CASE IoRegister(t)
  <2>1. Head(q[t]).fd \in Fds  BY <1>0, <1>10, TaskFacts DEF IoRegister
  <2>. QED  BY <1>0, <1>10, <2>1 DEF IoRegister
<1>11. CASE IoSend(t)
  <2>1. Head(q[t]).fd \in Fds  BY <1>0, <1>11, TaskFacts DEF IoSend
  <2>2. replied[Head(q[t]).fd] + 1 \in Nat  BY <2>1
  <2>3. replied' \in [Fds -> Nat]  BY <1>11, <2>1, <2>2 DEF IoSend
  <2>. QED  BY <1>0, <1>11, <2>3 DEF IoSend
<1>12. CASE IoSendFails(t)
  <2>1. Head(q[t]).fd \in Fds  BY <1>0, <1>12, TaskFacts DEF IoSendFails
  <2>. QED  BY <1>0, <1>12, <2>1 DEF IoSendFails
<1>13. CASE IoShutDown(t)  BY <1>13, SeqFacts DEF IoShutDown
<1>14. CASE IoDealt(t)  BY <1>14 DEF IoDealt
<1>. QED
  BY <1>1, <1>2, <1>3, <1>4, <1>5, <1>6, <1>7, <1>8, <1>9, <1>10, <1>11, <1>12, <1>13,
     <1>14 DEF IoStep

LEMMA TypeRest ==
    /\ \A p \in Threads \cup {Main} : TypeInv /\ Deliver(p) => TypeInv'
    /\ TypeInv /\ HandlerStep => TypeInv'
    /\ TypeInv /\ ClientStep => TypeInv'
    /\ TypeInv /\ UNCHANGED vars => TypeInv'
<1> USE DEF TypeInv, TypeOK, CurIsConn, mainVars, serverVars, listenVars, threadVars,
            mailVars, clientVars, handlerVars
<1>1. ASSUME NEW p \in Threads \cup {Main}, TypeInv, Deliver(p) PROVE TypeInv'
  BY <1>1 DEF Deliver
<1>2. ASSUME TypeInv, HandlerStep PROVE TypeInv'
  BY <1>2 DEF HandlerStep, HandlerFlag, HandlerWrite
<1>3. ASSUME TypeInv, Connect PROVE TypeInv'
  <2>1. backlog' \in Nat
    <3>1. backlog \in Nat /\ backlog' = backlog + 1  BY <1>3 DEF Connect
    <3>. QED  BY ONLY <3>1
  <2>0. listenEdge' = TRUE /\ leftBehind' = FALSE  BY <1>3 DEF Connect
  <2>2. UNCHANGED <<mainVars, serverVars, threadVars, mailVars, ioStop, sessions, conn,
                    edge, replied, clientVars, handlerVars>>
    BY <1>3 DEF Connect
  <2>. QED  BY <2>0, <2>1, <2>2, <1>3
<1>4. ASSUME TypeInv, NEW fd \in Fds, Request(fd) \/ PeerClose(fd) PROVE TypeInv'
  <2>1. edge' \in [Fds -> BOOLEAN]
    <3>1. edge' = [edge EXCEPT ![fd] = Registered(fd)]
      BY <1>4 DEF Request, PeerClose
    <3>2. CASE Registered(fd)
      <4>1. edge' = [edge EXCEPT ![fd] = TRUE]  BY <3>1, <3>2, Zenon
      <4>. QED  BY <1>4, <4>1
    <3>3. CASE ~Registered(fd)
      <4>1. Registered(fd) = FALSE  BY <3>3 DEF Registered
      <4>2. edge' = [edge EXCEPT ![fd] = FALSE]  BY <3>1, <4>1, Zenon
      <4>. QED  BY <1>4, <4>2
    <3>. QED  BY <3>2, <3>3
  <2>2. CASE Request(fd)
    <3>1. sent[fd] + 1 \in Nat /\ unread[fd] + 1 \in Nat  BY <1>4
    <3>. QED  BY <1>4, <2>1, <2>2, <3>1 DEF Request
  <2>3. CASE PeerClose(fd)  BY <1>4, <2>1, <2>3 DEF PeerClose
  <2>. QED  BY <1>4, <2>2, <2>3
<1>5. ASSUME TypeInv, UNCHANGED vars PROVE TypeInv'
  BY <1>5 DEF vars
<1>. QED
  BY <1>1, <1>2, <1>3, <1>4, <1>5 DEF ClientStep

\* The inductive form of the type invariant holds.
LEMMA TypeInvHolds == Spec => []TypeInv
<1>1. TypeInv /\ [Next]_vars => TypeInv'
  BY TypeMain, TypeIo, TypeRest DEF Next
<1>. QED
  BY TypeInit, <1>1, PTL DEF Spec

\* Every variable keeps its type, whatever the number of threads and of connections.
THEOREM TypeCorrect == Spec => []TypeOK
<1>1. TypeInv => TypeOK
  BY DEF TypeInv
<1>. QED
  BY TypeInvHolds, <1>1, PTL

-----------------------------------------------------------------------------
(* No wakeup is lost.  The obligation to ring outlives the moment: a       *)
(* nonempty queue has a rung eventfd, a ringer, or a reader about to swap. *)

WakeupInv ==
    \A t \in Threads :
        tasks[t] # <<>> => event[t] \/ WakeupDue(t) \/ ipc[t] \in {"swap", "done"}

LEMMA WakeupMain == TypeInv /\ WakeupInv /\ MainStep => WakeupInv'
<1> SUFFICES ASSUME TypeInv, WakeupInv, MainStep, NEW u \in Threads, tasks'[u] # <<>>
             PROVE  (event[u] \/ WakeupDue(u) \/ ipc[u] \in {"swap", "done"})'
  BY DEF WakeupInv
<1>0. tasks[u] # <<>> => event[u] \/ WakeupDue(u) \/ ipc[u] \in {"swap", "done"}
  BY DEF WakeupInv
<1> USE <1>0 DEF TypeInv, TypeOK, WakeupDue, threadVars, mailVars
<1>1. CASE Run  BY <1>1 DEF Run
<1>2. CASE Check  BY <1>2 DEF Check
<1>3. CASE Wait  BY <1>3 DEF Wait
<1>4. CASE ListenEvent  BY <1>4 DEF ListenEvent
<1>5. CASE StopEvent  BY <1>5 DEF StopEvent
<1>6. CASE EndEvents  BY <1>6 DEF EndEvents
<1>7. CASE Accept  BY <1>7 DEF Accept
<1>8. CASE AcceptFails  BY <1>8 DEF AcceptFails
<1>9. CASE CatchNewConn
  <2>1. tasks'[u] # tasks[u] => u = Owner(Head(connFds))
    BY <1>9 DEF CatchNewConn
  <2>. QED  BY <1>9, <2>1 DEF CatchNewConn
<1>10. CASE Wakeup  BY <1>10 DEF Wakeup
<1>11. CASE StopFlag  BY <1>11 DEF StopFlag
<1>12. CASE StopPush  BY <1>12 DEF StopPush
<1>13. CASE StopWake  BY <1>13 DEF StopWake
<1>14. CASE Join  BY <1>14 DEF Join
<1>. QED
  BY <1>1, <1>2, <1>3, <1>4, <1>5, <1>6, <1>7, <1>8, <1>9, <1>10, <1>11, <1>12, <1>13,
     <1>14 DEF MainStep

LEMMA WakeupIo ==
    ASSUME NEW t \in Threads PROVE TypeInv /\ WakeupInv /\ IoStep(t) => WakeupInv'
<1> SUFFICES ASSUME TypeInv, WakeupInv, IoStep(t), NEW u \in Threads, tasks'[u] # <<>>
             PROVE  (event[u] \/ WakeupDue(u) \/ ipc[u] \in {"swap", "done"})'
  BY DEF WakeupInv
<1>0. tasks[u] # <<>> => event[u] \/ WakeupDue(u) \/ ipc[u] \in {"swap", "done"}
  BY DEF WakeupInv
<1> USE <1>0 DEF TypeInv, TypeOK, WakeupDue, mainVars, mailVars
<1>1. CASE IoCheck(t)  BY <1>1 DEF IoCheck
<1>2. CASE IoWait(t)  BY <1>2 DEF IoWait
<1>3. CASE IoConnEvent(t)  BY <1>3 DEF IoConnEvent
<1>4. CASE IoBell(t)  BY <1>4 DEF IoBell
<1>5. CASE IoEndEvents(t)  BY <1>5 DEF IoEndEvents
<1>6. CASE IoRead(t)  BY <1>6 DEF IoRead
<1>7. CASE IoReadWake(t)  BY <1>7 DEF IoReadWake
<1>8. CASE IoReadEnd(t)  BY <1>8 DEF IoReadEnd
<1>9. CASE IoSwap(t)  BY <1>9 DEF IoSwap
<1>10. CASE IoRegister(t)  BY <1>10 DEF IoRegister
<1>11. CASE IoSend(t)  BY <1>11 DEF IoSend
<1>12. CASE IoSendFails(t)  BY <1>12 DEF IoSendFails
<1>13. CASE IoShutDown(t)  BY <1>13 DEF IoShutDown
<1>14. CASE IoDealt(t)  BY <1>14 DEF IoDealt
<1>. QED
  BY <1>1, <1>2, <1>3, <1>4, <1>5, <1>6, <1>7, <1>8, <1>9, <1>10, <1>11, <1>12, <1>13,
     <1>14 DEF IoStep

LEMMA WakeupRest ==
    /\ \A p \in Threads \cup {Main} : TypeInv /\ WakeupInv /\ Deliver(p) => WakeupInv'
    /\ TypeInv /\ WakeupInv /\ HandlerStep => WakeupInv'
    /\ TypeInv /\ WakeupInv /\ ClientStep => WakeupInv'
    /\ TypeInv /\ WakeupInv /\ UNCHANGED vars => WakeupInv'
<1> USE DEF TypeInv, TypeOK, WakeupInv, WakeupDue, mainVars, threadVars, mailVars
<1>1. ASSUME NEW p \in Threads \cup {Main}, TypeInv, WakeupInv, Deliver(p)
      PROVE  WakeupInv'
  BY <1>1 DEF Deliver
<1>2. ASSUME TypeInv, WakeupInv, HandlerStep PROVE WakeupInv'
  BY <1>2 DEF HandlerStep, HandlerFlag, HandlerWrite
<1>3. ASSUME TypeInv, WakeupInv, ClientStep PROVE WakeupInv'
  BY <1>3 DEF ClientStep, Connect, Request, PeerClose
<1>4. ASSUME TypeInv, WakeupInv, UNCHANGED vars PROVE WakeupInv'
  BY <1>4 DEF vars
<1>. QED  BY <1>1, <1>2, <1>3, <1>4

\* An IO thread never sleeps on a nonempty queue that nobody is about to ring for:
\* reading the count before swapping the queue, and pushing before ringing, suffice.
THEOREM NoWakeupIsLost == Spec => []NoLostWakeup
<1>1. Init => WakeupInv
  BY DEF Init, WakeupInv
<1>2. TypeInv /\ WakeupInv /\ [Next]_vars => WakeupInv'
  BY WakeupMain, WakeupIo, WakeupRest DEF Next
<1>3. WakeupInv => NoLostWakeup
  BY DEF WakeupInv, NoLostWakeup
<1>. QED
  BY TypeInvHolds, <1>1, <1>2, <1>3, PTL DEF Spec

-----------------------------------------------------------------------------
(* The shutdown.  A thread leaves its loop only if StopIOThread has asked  *)
(* it to, and ~EventLoop returns only when every thread has left.          *)

\* The tasks other than ShutDown.
Requests == TaskType \ {ShutDown}

StopInv ==
    /\ \A t \in Threads : ~ioStop[t] => tasks[t] \in Seq(Requests) /\ q[t] \in Seq(Requests)
    /\ \A t \in Threads : ipc[t] = "done" => ioStop[t]
    /\ \A t \in Threads : ipc[t] # "deal" => q[t] = <<>>
    /\ mpc = "stopPush" => ioStop[k]
    /\ mpc = "join" => \A t \in 0 .. k - 1 : ipc[t] = "done"
    /\ mpc = "done" => \A t \in Threads : ipc[t] = "done"

LEMMA StopInit == Init => StopInv
<1>1. <<>> \in Seq(Requests)  OBVIOUS
<1>. QED  BY <1>1 DEF Init, StopInv

LEMMA StopMain == TypeInv /\ StopInv /\ MainStep => StopInv'
<1> SUFFICES ASSUME TypeInv, StopInv, MainStep PROVE StopInv' OBVIOUS
<1> USE DEF TypeInv, TypeOK, StopInv, threadVars, mailVars
<1>k. k \in Nat /\ NumThreads \in Nat /\ k < NumThreads
  BY NumThreadsAssumption DEF Threads
<1>1. CASE Run  BY <1>1 DEF Run
<1>2. CASE Check  BY <1>2 DEF Check
<1>3. CASE Wait  BY <1>3 DEF Wait
<1>4. CASE ListenEvent  BY <1>4 DEF ListenEvent
<1>5. CASE StopEvent  BY <1>5 DEF StopEvent
<1>6. CASE EndEvents  BY <1>6 DEF EndEvents
<1>7. CASE Accept  BY <1>7 DEF Accept
<1>8. CASE AcceptFails  BY <1>8 DEF AcceptFails
<1>9. CASE CatchNewConn
  <2> DEFINE task == RegisterConn(Head(connFds))
             t == Owner(Head(connFds))
  <2>1. Head(connFds) \in Fds  BY <1>9, SeqFacts DEF CatchNewConn
  <2>2. t \in Threads /\ task \in Requests
    BY <2>1, OwnerIsThread, TaskFacts DEF Requests, RegisterConn, ShutDown
  <2>3. tasks[t] \in Seq(Requests) => Append(tasks[t], task) \in Seq(Requests)
    BY <2>2, SeqFacts
  <2>4. tasks' = [tasks EXCEPT ![t] = Append(tasks[t], task)]
    BY <1>9 DEF CatchNewConn
  <2>5. mpc' \in {"push", "wake"}  BY <1>9 DEF CatchNewConn
  <2> HIDE DEF task, t
  <2>. QED  BY <1>9, <2>2, <2>3, <2>4, <2>5 DEF CatchNewConn
<1>10. CASE Wakeup  BY <1>10 DEF Wakeup
<1>11. CASE StopFlag  BY <1>11 DEF StopFlag
<1>12. CASE StopPush  BY <1>12 DEF StopPush
<1>13. CASE StopWake
  <2>1. CASE k + 1 < NumThreads  BY <1>13, <2>1 DEF StopWake
  <2>2. CASE ~(k + 1 < NumThreads)
    <3>1. k + 1 = NumThreads  BY <1>k, <2>2
    <3>2. k' = 0  BY <1>13, <1>k, <3>1 DEF StopWake
    <3>. QED  BY <1>13, <2>2, <3>2 DEF StopWake
  <2>. QED  BY <2>1, <2>2
<1>14. CASE Join
  <2>1. \A t \in 0 .. k : ipc[t] = "done"  BY <1>14, <1>k DEF Join
  <2>2. CASE k + 1 < NumThreads
    <3>1. k' = k + 1  BY <1>14, <1>k, <2>2 DEF Join
    <3>2. 0 .. k' - 1 = 0 .. k  BY <1>k, <3>1
    <3>. QED  BY <1>14, <2>1, <2>2, <3>2 DEF Join
  <2>3. CASE ~(k + 1 < NumThreads)
    <3>1. Threads = 0 .. k  BY <1>k, <2>3 DEF Threads
    <3>. QED  BY <1>14, <2>1, <2>3, <3>1 DEF Join
  <2>. QED  BY <2>2, <2>3
<1>. QED
  BY <1>1, <1>2, <1>3, <1>4, <1>5, <1>6, <1>7, <1>8, <1>9, <1>10, <1>11, <1>12, <1>13,
     <1>14 DEF MainStep

LEMMA StopIo == ASSUME NEW t \in Threads PROVE TypeInv /\ StopInv /\ IoStep(t) => StopInv'
<1> SUFFICES ASSUME TypeInv, StopInv, IoStep(t) PROVE StopInv' OBVIOUS
<1> USE DEF TypeInv, TypeOK, StopInv, mainVars, mailVars
<1>0. \A u \in 0 .. k - 1 : u \in Threads
  BY NumThreadsAssumption DEF Threads
<1>q. q[t] # <<>> => /\ q[t] \in Seq(Requests) => /\ Head(q[t]) \in Requests
                                                /\ Tail(q[t]) \in Seq(Requests)
  BY SeqFacts
<1>1. CASE IoCheck(t)  BY <1>0, <1>1 DEF IoCheck
<1>2. CASE IoWait(t)  BY <1>0, <1>2 DEF IoWait
<1>3. CASE IoConnEvent(t)
  <2>1. ipc' = ipc \/ (ipc[t] = "event" /\ ipc' = [ipc EXCEPT ![t] = "read"])
    BY <1>3 DEF IoConnEvent
  <2>. QED  BY <1>0, <1>3, <2>1 DEF IoConnEvent
<1>4. CASE IoBell(t)  BY <1>0, <1>4 DEF IoBell
<1>5. CASE IoEndEvents(t)  BY <1>0, <1>5 DEF IoEndEvents
<1>6. CASE IoRead(t)
  <2> DEFINE task == SendData(cur[t])
  <2>1. task \in Requests
    BY <1>6, TaskFacts DEF IoRead, CurIsConn, Requests, SendData, ShutDown
  <2>2. tasks[t] \in Seq(Requests) => Append(tasks[t], task) \in Seq(Requests)
    BY <2>1, SeqFacts
  <2>3. tasks' = [tasks EXCEPT ![t] = Append(tasks[t], task)]  BY <1>6 DEF IoRead
  <2> HIDE DEF task
  <2>. QED  BY <1>0, <1>6, <2>2, <2>3 DEF IoRead
<1>7. CASE IoReadWake(t)  BY <1>0, <1>7 DEF IoReadWake
<1>8. CASE IoReadEnd(t)  BY <1>0, <1>8 DEF IoReadEnd
<1>9. CASE IoSwap(t)
  <2>1. <<>> \in Seq(Requests)  OBVIOUS
  <2>. QED  BY <1>0, <1>9, <2>1 DEF IoSwap
<1>10. CASE IoRegister(t)  BY <1>0, <1>q, <1>10 DEF IoRegister
<1>11. CASE IoSend(t)  BY <1>0, <1>q, <1>11 DEF IoSend
<1>12. CASE IoSendFails(t)  BY <1>0, <1>q, <1>12 DEF IoSendFails
<1>13. CASE IoShutDown(t)
  <2>1. Head(q[t]) \notin Requests
    <3>1. Head(q[t]) \in TaskType  BY <1>13, SeqFacts DEF IoShutDown
    <3>. QED  BY <1>13, <3>1 DEF IoShutDown, Requests, TaskType, RegisterConn, SendData
  <2>2. ioStop[t]  BY <1>13, <1>q, <2>1 DEF IoShutDown
  <2>. QED  BY <1>0, <1>13, <2>2 DEF IoShutDown
<1>14. CASE IoDealt(t)  BY <1>0, <1>14 DEF IoDealt
<1>. QED
  BY <1>1, <1>2, <1>3, <1>4, <1>5, <1>6, <1>7, <1>8, <1>9, <1>10, <1>11, <1>12, <1>13,
     <1>14 DEF IoStep

LEMMA StopRest ==
    /\ \A p \in Threads \cup {Main} : TypeInv /\ StopInv /\ Deliver(p) => StopInv'
    /\ TypeInv /\ StopInv /\ HandlerStep => StopInv'
    /\ TypeInv /\ StopInv /\ ClientStep => StopInv'
    /\ TypeInv /\ StopInv /\ UNCHANGED vars => StopInv'
<1> USE DEF TypeInv, TypeOK, StopInv, mainVars, threadVars, mailVars
<1>1. ASSUME NEW p \in Threads \cup {Main}, TypeInv, StopInv, Deliver(p)
      PROVE  StopInv'
  <2>0. \A u \in 0 .. k - 1 : u \in Threads
    BY <1>1, NumThreadsAssumption DEF Threads
  <2>1. \A u \in Threads : /\ ipc'[u] = "done" <=> ipc[u] = "done"
                           /\ ipc'[u] = "deal" <=> ipc[u] = "deal"
    BY <1>1 DEF Deliver
  <2>2. mpc' = mpc \/ mpc' = "check"  BY <1>1 DEF Deliver
  <2>. QED  BY <1>1, <2>0, <2>1, <2>2 DEF Deliver
<1>2. ASSUME TypeInv, StopInv, HandlerStep PROVE StopInv'
  BY <1>2 DEF HandlerStep, HandlerFlag, HandlerWrite
<1>3. ASSUME TypeInv, StopInv, ClientStep PROVE StopInv'
  BY <1>3 DEF ClientStep, Connect, Request, PeerClose
<1>4. ASSUME TypeInv, StopInv, UNCHANGED vars PROVE StopInv'
  BY <1>4 DEF vars
<1>. QED  BY <1>1, <1>2, <1>3, <1>4

\* The bookkeeping of the shutdown is an invariant.
LEMMA StopInvHolds == Spec => []StopInv
<1>1. TypeInv /\ StopInv /\ [Next]_vars => StopInv'
  BY StopMain, StopIo, StopRest DEF Next
<1>. QED
  BY TypeInvHolds, StopInit, <1>1, PTL DEF Spec

\* When ~EventLoop has joined its threads, none of them runs: the IOThreads, their
\* descriptors and their session maps can be destroyed.
THEOREM JoinIsSafe == Spec => []JoinedMeansStopped
<1>1. StopInv => JoinedMeansStopped
  BY DEF StopInv, JoinedMeansStopped
<1>. QED
  BY StopInvHolds, <1>1, PTL

-----------------------------------------------------------------------------
(* The queues implement the mailboxes: every step of a thread posts one    *)
(* letter, handles the oldest, asks, closes or is invisible.               *)

MailOf == [t \in Threads |-> Mail(t)]
Asked  == {t \in Threads : ioStop[t]}

\* A step that leaves the queues, the stop flags and the set of threads that are done
\* alone is invisible.
LEMMA MailUnchanged ==
    ASSUME q' = q, tasks' = tasks, ioStop' = ioStop, Done' = Done
    PROVE  UNCHANGED Mailbox!vars
<1>1. [t \in Threads |-> Mail(t)]' = [t \in Threads |-> Mail(t)]
  BY DEF Mail
<1>. QED  BY <1>1 DEF Mailbox!vars

\* A push onto a thread's queue posts a letter, or is lost if the thread is done.
LEMMA MailPost ==
    ASSUME TypeInv, NEW t \in Threads, NEW x \in TaskType,
           tasks' = [tasks EXCEPT ![t] = Append(@, x)], q' = q, ioStop' = ioStop,
           Done' = Done
    PROVE  [Mailbox!Next]_(Mailbox!vars)
<1> USE DEF TypeInv, TypeOK
<1>1. CASE t \in Done
  <2>1. [u \in Threads |-> Mail(u)]' = [u \in Threads |-> Mail(u)]
    BY <1>1 DEF Mail
  <2>. QED  BY <2>1 DEF Mailbox!vars
<1>2. CASE t \notin Done
  <2>1. q[t] \in Seq(TaskType) /\ tasks[t] \in Seq(TaskType)  OBVIOUS
  <2>2. q[t] \o Append(tasks[t], x) = Append(q[t] \o tasks[t], x)
    BY <2>1
  <2>3. MailOf' = [MailOf EXCEPT ![t] = Append(@, x)]
    BY <1>2, <2>2 DEF MailOf, Mail
  <2>4. Mailbox!Post(t, x)
    BY <1>2, <2>3 DEF Mailbox!Post, MailOf
  <2>. QED  BY <2>4 DEF Mailbox!Next
<1>. QED  BY <1>1, <1>2

\* Taking the head of the swapped queue handles the oldest letter.
LEMMA MailHandle ==
    ASSUME TypeInv, NEW t \in Threads, ipc[t] = "deal", q[t] # <<>>,
           q' = [q EXCEPT ![t] = Tail(@)], tasks' = tasks, ioStop' = ioStop, Done' = Done
    PROVE  [Mailbox!Next]_(Mailbox!vars)
<1> USE DEF TypeInv, TypeOK
<1>1. t \notin Done  BY DEF Done
<1>2. q[t] \in Seq(TaskType) /\ tasks[t] \in Seq(TaskType)  OBVIOUS
<1>3. /\ q[t] \o tasks[t] # <<>>
      /\ Tail(q[t] \o tasks[t]) = Tail(q[t]) \o tasks[t]
  BY <1>2
<1>4. MailOf' = [MailOf EXCEPT ![t] = Tail(@)] /\ MailOf[t] # <<>>
  BY <1>1, <1>3 DEF MailOf, Mail
<1>5. Mailbox!Handle(t)
  BY <1>1, <1>4 DEF Mailbox!Handle, MailOf
<1>. QED  BY <1>5 DEF Mailbox!Next

\* A thread that was asked to stop closes its mailbox when it leaves its loop.
LEMMA MailClose ==
    ASSUME TypeInv, NEW t \in Threads, ioStop[t], t \notin Done,
           Done' = Done \cup {t}, tasks' = tasks, ioStop' = ioStop,
           \A u \in Threads \ {t} : q'[u] = q[u]
    PROVE  [Mailbox!Next]_(Mailbox!vars)
<1>1. MailOf' = [MailOf EXCEPT ![t] = <<>>]
  BY DEF MailOf, Mail
<1>2. Mailbox!Close(t)
  BY <1>1 DEF Mailbox!Close, MailOf
<1>. QED  BY <1>2 DEF Mailbox!Next

LEMMA MailMain == TypeInv /\ StopInv /\ MainStep => [Mailbox!Next]_(Mailbox!vars)
<1> SUFFICES ASSUME TypeInv, StopInv, MainStep PROVE [Mailbox!Next]_(Mailbox!vars)
  OBVIOUS
<1> USE DEF threadVars, mailVars
<1>1. CASE Run \/ Check \/ Wait \/ ListenEvent \/ StopEvent \/ EndEvents \/ Accept
             \/ AcceptFails \/ Wakeup \/ StopWake \/ Join
  <2>1. q' = q /\ tasks' = tasks /\ ioStop' = ioStop /\ ipc' = ipc
    BY <1>1 DEF Run, Check, Wait, ListenEvent, StopEvent, EndEvents, Accept, AcceptFails,
                Wakeup, StopWake, Join
  <2>2. Done' = Done  BY <2>1 DEF Done
  <2>. QED  BY <2>1, <2>2, MailUnchanged
<1>2. CASE CatchNewConn
  <2>1. Head(connFds) \in Fds  BY <1>2, SeqFacts DEF CatchNewConn, TypeInv, TypeOK
  <2>2. Owner(Head(connFds)) \in Threads /\ RegisterConn(Head(connFds)) \in TaskType
    BY <2>1, OwnerIsThread, TaskFacts
  <2>3. Done' = Done  BY <1>2 DEF CatchNewConn, Done
  <2>. QED  BY <1>2, <2>2, <2>3, MailPost DEF CatchNewConn
<1>3. CASE StopFlag
  <2>1. ioStop' = [ioStop EXCEPT ![k] = TRUE] /\ k \in Threads
    BY <1>3 DEF StopFlag, TypeInv, TypeOK
  <2>2. Asked' = Asked \cup {k}
    BY <2>1 DEF Asked, TypeInv, TypeOK
  <2>3. Done' = Done /\ MailOf' = MailOf
    BY <1>3 DEF StopFlag, Done, Mail, MailOf
  <2>4. \E t \in Threads : Mailbox!Ask(t)
    BY <2>1, <2>2, <2>3 DEF Mailbox!Ask, Asked, MailOf
  <2>. QED  BY <2>4 DEF Mailbox!Next
<1>4. CASE StopPush
  <2>1. Done' = Done  BY <1>4 DEF StopPush, Done
  <2>2. k \in Threads  BY DEF TypeInv, TypeOK
  <2>. QED  BY <1>4, <2>1, <2>2, TaskFacts, MailPost DEF StopPush
<1>. QED
  BY <1>1, <1>2, <1>3, <1>4 DEF MainStep

LEMMA MailIo ==
    ASSUME NEW t \in Threads
    PROVE  TypeInv /\ StopInv /\ IoStep(t) => [Mailbox!Next]_(Mailbox!vars)
<1> SUFFICES ASSUME TypeInv, StopInv, IoStep(t) PROVE [Mailbox!Next]_(Mailbox!vars)
  OBVIOUS
<1> USE DEF mailVars
<1>t. ipc \in [Threads -> {"check", "wait", "event", "swap", "deal", "read", "readWake",
                          "done"}]
  BY DEF TypeInv, TypeOK
<1>1. CASE IoWait(t) \/ IoConnEvent(t) \/ IoBell(t) \/ IoEndEvents(t) \/ IoReadWake(t)
             \/ IoReadEnd(t) \/ IoDealt(t)
  <2>1. q' = q /\ tasks' = tasks /\ ioStop' = ioStop
    BY <1>1 DEF IoWait, IoConnEvent, IoBell, IoEndEvents, IoReadWake, IoReadEnd, IoDealt
  <2>2. ipc[t] # "done" /\ \E pc : pc # "done" /\ ipc' = [ipc EXCEPT ![t] = pc]
    <3>1. CASE IoConnEvent(t)  BY <1>t, <3>1 DEF IoConnEvent
    <3>2. CASE ~IoConnEvent(t)
      BY <1>1, <3>2 DEF IoWait, IoBell, IoEndEvents, IoReadWake, IoReadEnd, IoDealt
    <3>. QED  BY <3>1, <3>2
  <2>3. Done' = Done  BY <1>t, <2>2 DEF Done
  <2>. QED  BY <2>1, <2>3, MailUnchanged
<1>2. CASE IoCheck(t)
  <2>1. CASE ioStop[t]
    <3>1. t \notin Done /\ Done' = Done \cup {t}
      BY <1>t, <1>2, <2>1 DEF IoCheck, Done
    <3>. QED  BY <1>2, <2>1, <3>1, MailClose DEF IoCheck
  <2>2. CASE ~ioStop[t]
    <3>1. Done' = Done  BY <1>t, <1>2, <2>2 DEF IoCheck, Done
    <3>. QED  BY <1>2, <3>1, MailUnchanged DEF IoCheck
  <2>. QED  BY <2>1, <2>2
<1>3. CASE IoRead(t)
  <2>1. SendData(cur[t]) \in TaskType
    BY <1>3, TaskFacts DEF IoRead, TypeInv, CurIsConn
  <2>2. Done' = Done  BY <1>t, <1>3 DEF IoRead, Done
  <2>. QED  BY <1>3, <2>1, <2>2, MailPost DEF IoRead
<1>4. CASE IoSwap(t)
  <2>1. Done' = Done /\ ioStop' = ioStop  BY <1>t, <1>4 DEF IoSwap, Done
  <2>2. q[t] = <<>> /\ q'[t] = tasks[t] /\ tasks'[t] = <<>>
    BY <1>4 DEF IoSwap, StopInv, TypeInv, TypeOK
  <2>3. tasks[t] \in Seq(TaskType)  BY DEF TypeInv, TypeOK
  <2>4. q'[t] \o tasks'[t] = q[t] \o tasks[t]  BY <2>2, <2>3
  <2>5. \A u \in Threads \ {t} : q'[u] = q[u] /\ tasks'[u] = tasks[u]
    BY <1>4 DEF IoSwap, TypeInv, TypeOK
  <2>6. [u \in Threads |-> Mail(u)]' = [u \in Threads |-> Mail(u)]
    BY <2>1, <2>4, <2>5 DEF Mail
  <2>. QED  BY <2>1, <2>6 DEF Mailbox!vars
<1>5. CASE IoRegister(t) \/ IoSend(t) \/ IoSendFails(t)
  <2>1. /\ ipc[t] = "deal" /\ q[t] # <<>> /\ q' = [q EXCEPT ![t] = Tail(@)]
        /\ tasks' = tasks /\ ioStop' = ioStop /\ ipc' = ipc
    BY <1>5 DEF IoRegister, IoSend, IoSendFails
  <2>2. Done' = Done  BY <2>1 DEF Done
  <2>. QED  BY <2>1, <2>2, MailHandle
<1>6. CASE IoShutDown(t)
  <2>1. t \notin Done /\ Done' = Done \cup {t}
    BY <1>t, <1>6 DEF IoShutDown, Done
  <2>2. ioStop[t]
    <3>1. Head(q[t]) \in TaskType /\ Head(q[t]).type = "ShutDown" /\ q[t] # <<>>
      BY <1>6, SeqFacts DEF IoShutDown, TypeInv, TypeOK
    <3>2. Head(q[t]) \notin Requests
      BY <3>1 DEF Requests, TaskType, RegisterConn, SendData
    <3>3. q[t] \notin Seq(Requests)  BY <3>1, <3>2, SeqFacts
    <3>. QED  BY <3>3 DEF StopInv
  <2>3. \A u \in Threads \ {t} : q'[u] = q[u]
    BY <1>6 DEF IoShutDown, TypeInv, TypeOK
  <2>. QED  BY <1>6, <2>1, <2>2, <2>3, MailClose DEF IoShutDown
<1>. QED
  BY <1>1, <1>2, <1>3, <1>4, <1>5, <1>6 DEF IoStep

LEMMA MailRest ==
    ASSUME TypeInv, \/ \E p \in Threads \cup {Main} : Deliver(p)
                    \/ HandlerStep \/ ClientStep \/ UNCHANGED vars
    PROVE  UNCHANGED Mailbox!vars
<1> USE DEF mailVars, threadVars
<1>1. q' = q /\ tasks' = tasks /\ ioStop' = ioStop
  BY DEF Deliver, HandlerStep, HandlerFlag, HandlerWrite, ClientStep, Connect, Request,
         PeerClose, vars
<1>2. Done' = Done
  <2>1. CASE \E p \in Threads \cup {Main} : Deliver(p)
    BY <2>1 DEF Deliver, Done, TypeInv, TypeOK
  <2>2. CASE HandlerStep \/ ClientStep \/ UNCHANGED vars
    BY <2>2 DEF HandlerStep, HandlerFlag, HandlerWrite, ClientStep, Connect, Request,
                PeerClose, vars, Done
  <2>. QED  BY <2>1, <2>2
<1>. QED  BY <1>1, <1>2, MailUnchanged

\* Every behaviour of the threads is, seen through the mapping of EventLoop, a behaviour
\* of the mailboxes: first in, first out, no task twice, none dropped before the owner was
\* asked to close.
THEOREM QueuesAreMailboxes == Spec => Mailbox!Init /\ [][Mailbox!Next]_(Mailbox!vars)
<1>1. Init => Mailbox!Init
  <2> SUFFICES ASSUME Init PROVE Mailbox!Init  OBVIOUS
  <2>1. Done = {} /\ {t \in Threads : ioStop[t]} = {}  BY DEF Init, Done
  <2>2. \A t \in Threads : Mail(t) = <<>>
    BY <2>1 DEF Mail, Init
  <2>. QED  BY <2>1, <2>2 DEF Mailbox!Init
<1>2. TypeInv /\ StopInv /\ [Next]_vars => [Mailbox!Next]_(Mailbox!vars)
  BY MailMain, MailIo, MailRest DEF Next
<1>. QED
  BY TypeInvHolds, StopInvHolds, <1>1, <1>2, PTL DEF Spec

-----------------------------------------------------------------------------
(* What is in a queue, and how often.                                      *)

Has(s, x)  == \E i \in DOMAIN s : s[i] = x
Once(s, x) == \A i, j \in DOMAIN s : s[i] = x /\ s[j] = x => i = j

\* Behind a ShutDown there is no RegisterConn, which would be dropped with it.
ShutIsLast(s) ==
    \A i, j \in DOMAIN s : i < j /\ s[i] = ShutDown => s[j].type # "RegisterConn"

LEMMA EmptyFacts == \A x : ~Has(<<>>, x) /\ Once(<<>>, x) /\ ShutIsLast(<<>>)
BY DEF Has, Once, ShutIsLast

LEMMA AppendFacts ==
    ASSUME NEW S, NEW s \in Seq(S), NEW y \in S
    PROVE  /\ \A x : /\ Has(Append(s, y), x) <=> Has(s, x) \/ x = y
                     /\ Once(Append(s, y), x) <=> Once(s, x) /\ (x = y => ~Has(s, x))
           /\ ShutIsLast(Append(s, y)) <=>
                  ShutIsLast(s) /\ (y.type = "RegisterConn" => ~Has(s, ShutDown))
<1> DEFINE a == Append(s, y)
<1>1. /\ DOMAIN s = 1 .. Len(s) /\ DOMAIN a = 1 .. Len(s) + 1 /\ Len(s) \in Nat
      /\ \A i \in 1 .. Len(s) : a[i] = s[i]
      /\ a[Len(s) + 1] = y
  OBVIOUS
<1> HIDE DEF a
<1>2. \A i \in DOMAIN a : i \in DOMAIN s \/ i = Len(s) + 1
  BY <1>1
<1>3. \A i \in DOMAIN s : i \in DOMAIN a /\ i # Len(s) + 1 /\ i < Len(s) + 1
  BY <1>1
<1>4. ASSUME NEW x PROVE Has(a, x) <=> Has(s, x) \/ x = y
  BY <1>1, <1>2, <1>3 DEF Has
<1>5. ASSUME NEW x PROVE Once(a, x) <=> Once(s, x) /\ (x = y => ~Has(s, x))
  BY <1>1, <1>2, <1>3 DEF Has, Once
<1>6. ShutIsLast(a) <=> ShutIsLast(s) /\ (y.type = "RegisterConn" => ~Has(s, ShutDown))
  <2>1. ASSUME ShutIsLast(a) PROVE ShutIsLast(s)
    BY <2>1, <1>1, <1>3 DEF ShutIsLast
  <2>2. ASSUME ShutIsLast(a), Has(s, ShutDown) PROVE y.type # "RegisterConn"
    <3> PICK i \in DOMAIN s : s[i] = ShutDown  BY <2>2 DEF Has
    <3>1. i \in DOMAIN a /\ Len(s) + 1 \in DOMAIN a /\ i < Len(s) + 1 /\ a[i] = ShutDown
      BY <1>1, <1>3
    <3>. QED  BY <1>1, <2>2, <3>1 DEF ShutIsLast
  <2>3. ASSUME ShutIsLast(s), y.type = "RegisterConn" => ~Has(s, ShutDown)
        PROVE  ShutIsLast(a)
    <3> SUFFICES ASSUME NEW i \in DOMAIN a, NEW j \in DOMAIN a, i < j, a[i] = ShutDown
                 PROVE  a[j].type # "RegisterConn"
      BY DEF ShutIsLast
    <3>1. i \in DOMAIN s  BY <1>1, <1>2
    <3>2. CASE j \in DOMAIN s  BY <1>1, <2>3, <3>1, <3>2 DEF ShutIsLast
    <3>3. CASE j = Len(s) + 1  BY <1>1, <2>3, <3>1, <3>3 DEF Has
    <3>. QED  BY <1>2, <3>2, <3>3
  <2>. QED  BY <2>1, <2>2, <2>3
<1>. QED  BY <1>4, <1>5, <1>6 DEF a

LEMMA TailFacts ==
    ASSUME NEW S, NEW s \in Seq(S), s # <<>>
    PROVE  /\ \A x : /\ Has(s, x) <=> Has(Tail(s), x) \/ x = Head(s)
                     /\ Once(s, x) <=> Once(Tail(s), x) /\ (x = Head(s) => ~Has(Tail(s), x))
           /\ ShutIsLast(s) =>
                  /\ ShutIsLast(Tail(s))
                  /\ \A x : Head(s) = ShutDown /\ x.type = "RegisterConn" => ~Has(s, x)
<1> DEFINE r == Tail(s)
<1>1. /\ DOMAIN s = 1 .. Len(s) /\ Len(s) \in Nat \ {0} /\ DOMAIN r = 1 .. Len(s) - 1
      /\ \A i \in 1 .. Len(s) - 1 : r[i] = s[i + 1]
      /\ s[1] = Head(s)
  OBVIOUS
<1> HIDE DEF r
<1>2. \A i \in DOMAIN s : i = 1 \/ (i > 1 /\ i - 1 \in DOMAIN r /\ r[i - 1] = s[i])
  <2> SUFFICES ASSUME NEW i \in 2 .. Len(s) PROVE i - 1 \in DOMAIN r /\ r[i - 1] = s[i]
    BY <1>1
  <2>1. i - 1 \in 1 .. Len(s) - 1 /\ (i - 1) + 1 = i  BY <1>1
  <2>. QED  BY <1>1, <2>1
<1>3. \A i \in DOMAIN r : i + 1 \in DOMAIN s /\ i + 1 # 1 /\ r[i] = s[i + 1]
  BY <1>1
<1>4. ASSUME NEW x PROVE Has(s, x) <=> Has(r, x) \/ x = Head(s)
  <2>1. ASSUME Has(s, x), x # Head(s) PROVE Has(r, x)
    BY <1>1, <1>2, <2>1 DEF Has
  <2>2. ASSUME Has(r, x) \/ x = Head(s) PROVE Has(s, x)
    BY <1>1, <1>3, <2>2 DEF Has
  <2>. QED  BY <2>1, <2>2
<1>5. ASSUME NEW x PROVE Once(s, x) <=> Once(r, x) /\ (x = Head(s) => ~Has(r, x))
  <2>1. ASSUME Once(s, x) PROVE Once(r, x)
    <3> SUFFICES ASSUME NEW i \in DOMAIN r, NEW j \in DOMAIN r, r[i] = x, r[j] = x PROVE i = j
      BY DEF Once
    <3>1. i + 1 = j + 1  BY <1>3, <2>1 DEF Once
    <3>. QED  BY <1>1, <3>1
  <2>2. ASSUME Once(s, x), x = Head(s) PROVE ~Has(r, x)
    BY <1>1, <1>3, <2>2 DEF Once, Has
  <2>3. ASSUME Once(r, x), x = Head(s) => ~Has(r, x) PROVE Once(s, x)
    <3> SUFFICES ASSUME NEW i \in DOMAIN s, NEW j \in DOMAIN s, s[i] = x, s[j] = x PROVE i = j
      BY DEF Once
    <3>1. CASE i = 1 \/ j = 1  BY <1>1, <1>2, <2>3, <3>1 DEF Has
    <3>2. CASE i # 1 /\ j # 1
      <4>1. i - 1 = j - 1  BY <1>2, <2>3, <3>2 DEF Once
      <4>. QED  BY <1>1, <4>1
    <3>. QED  BY <3>1, <3>2
  <2>. QED  BY <2>1, <2>2, <2>3
<1>6. ASSUME ShutIsLast(s) PROVE ShutIsLast(r)
  <2> SUFFICES ASSUME NEW i \in DOMAIN r, NEW j \in DOMAIN r, i < j, r[i] = ShutDown
               PROVE  r[j].type # "RegisterConn"
    BY DEF ShutIsLast
  <2>1. i + 1 \in DOMAIN s /\ j + 1 \in DOMAIN s /\ i + 1 < j + 1  BY <1>1
  <2>. QED  BY <1>3, <1>6, <2>1 DEF ShutIsLast
<1>7. ASSUME ShutIsLast(s), Head(s) = ShutDown, NEW x, x.type = "RegisterConn"
      PROVE  ~Has(s, x)
  <2> SUFFICES ASSUME NEW i \in DOMAIN s, s[i] = x PROVE FALSE
    BY DEF Has
  <2>1. i # 1  BY <1>1, <1>7 DEF ShutDown
  <2>2. 1 \in DOMAIN s /\ 1 < i  BY <1>1, <2>1
  <2>. QED  BY <1>1, <1>7, <2>2 DEF ShutIsLast
<1>. QED  BY <1>4, <1>5, <1>6, <1>7 DEF r

-----------------------------------------------------------------------------
(* Custody.  The places a connection passes through, one after the other:  *)
(* accepted, task, swapped task, session.                                  *)

Stopping == {"stopFlag", "stopPush", "stopWake", "join", "done"}

\* Where fd is answered for, with its owner.
Accepted(fd) == Has(connFds, fd)
Posted(fd)   == Has(tasks[Owner(fd)], RegisterConn(fd))
Swapped(fd)  == Has(q[Owner(fd)], RegisterConn(fd))

\* fd is in no place twice and in one place at most, in one if and only if it is open.
HeldOnce(fd) ==
    /\ Once(connFds, fd)
    /\ Once(tasks[Owner(fd)], RegisterConn(fd))
    /\ Once(q[Owner(fd)], RegisterConn(fd))
    /\ Accepted(fd)   => ~Posted(fd) /\ ~Swapped(fd) /\ ~Registered(fd)
    /\ Posted(fd)     => ~Swapped(fd) /\ ~Registered(fd)
    /\ Swapped(fd)    => ~Registered(fd)
    /\ conn[fd] = "open" <=> Accepted(fd) \/ Posted(fd) \/ Swapped(fd) \/ Registered(fd)

\* No other thread has it.
HeldByOwner(fd) ==
    \A t \in Threads :
        Has(tasks[t], RegisterConn(fd)) \/ Has(q[t], RegisterConn(fd)) \/ fd \in sessions[t]
            => t = Owner(fd)

\* The tasks a stopping thread drops hold no connection: nothing is accepted once the
\* first thread was asked to stop.
DropsNone ==
    /\ mpc \notin Stopping => \A t \in Threads : ~ioStop[t]
    /\ \A t \in Threads : ShutIsLast(tasks[t]) /\ ShutIsLast(q[t])

\* A thread reads from a connection of its own only.
ReadsOwn == \A t \in Threads : ipc[t] \in {"read", "readWake"} => cur[t] \in sessions[t]

CustodyInv ==
    /\ \A fd \in Fds : HeldOnce(fd) /\ HeldByOwner(fd)
    /\ DropsNone
    /\ ReadsOwn

LEMMA TaskNames ==
    \A f, g : /\ RegisterConn(f) = RegisterConn(g) <=> f = g
              /\ SendData(f) = SendData(g) <=> f = g
              /\ RegisterConn(f) # SendData(g)
              /\ RegisterConn(f) # ShutDown /\ SendData(f) # ShutDown
              /\ RegisterConn(f).type = "RegisterConn" /\ RegisterConn(f).fd = f
              /\ SendData(f).type = "SendData" /\ SendData(f).fd = f
              /\ ShutDown.type = "ShutDown"
BY DEF RegisterConn, SendData, ShutDown

\* A task is what its type says.
LEMMA TaskCases ==
    ASSUME NEW x \in TaskType
    PROVE  /\ x.type = "RegisterConn" => x.fd \in Fds /\ x = RegisterConn(x.fd)
           /\ x.type = "SendData" => x.fd \in Fds /\ x = SendData(x.fd)
           /\ x.type = "ShutDown" => x = ShutDown
<1>1. \/ \E fd \in Fds : x = RegisterConn(fd) \/ x = SendData(fd)
      \/ x = ShutDown
  BY DEF TaskType
<1>. QED  BY <1>1, TaskNames

LEMMA CustodyInit == Init => CustodyInv
<1> SUFFICES ASSUME Init PROVE CustodyInv  OBVIOUS
<1> USE DEF Init
<1>1. ASSUME NEW fd \in Fds PROVE HeldOnce(fd) /\ HeldByOwner(fd)
  <2>1. Owner(fd) \in Threads  BY OwnerIsThread
  <2>. QED
    BY <2>1, EmptyFacts DEF HeldOnce, HeldByOwner, Accepted, Posted, Swapped, Registered
<1>2. DropsNone /\ ReadsOwn
  BY EmptyFacts DEF DropsNone, ReadsOwn
<1>. QED  BY <1>1, <1>2 DEF CustodyInv

\* What the invariant says of is the queues, the sessions and the descriptor table.
custodyVars == <<connFds, tasks, q, sessions, conn>>

LEMMA CustodyKept ==
    ASSUME CustodyInv, UNCHANGED custodyVars
    PROVE  /\ \A fd \in Fds : HeldOnce(fd)' /\ HeldByOwner(fd)'
           /\ \A t \in Threads : ShutIsLast(tasks[t])' /\ ShutIsLast(q[t])'
BY DEF custodyVars, CustodyInv, HeldOnce, HeldByOwner, DropsNone, Accepted, Posted, Swapped,
       Registered

-----------------------------------------------------------------------------
(* Custody and the main thread.                                            *)

LEMMA CustodyAccept == TypeInv /\ CustodyInv /\ Accept => CustodyInv'
<1> SUFFICES ASSUME TypeInv, CustodyInv, Accept PROVE CustodyInv'  OBVIOUS
<1> USE DEF threadVars, mailVars
<1> PICK new \in Fresh : /\ conn' = [conn EXCEPT ![new] = "open"]
                         /\ connFds' = Append(connFds, new)
  BY DEF Accept
<1>1. new \in Fds /\ conn[new] # "open"  BY DEF Fresh
<1>2. tasks' = tasks /\ q' = q /\ sessions' = sessions  BY DEF Accept
<1>3. \A x : /\ Has(connFds', x) <=> Has(connFds, x) \/ x = new
             /\ Once(connFds', x) <=> Once(connFds, x) /\ (x = new => ~Has(connFds, x))
  BY <1>1, AppendFacts DEF TypeInv, TypeOK
<1>4. ASSUME NEW fd \in Fds PROVE HeldOnce(fd)' /\ HeldByOwner(fd)'
  <2>1. HeldOnce(fd) /\ HeldByOwner(fd)  BY DEF CustodyInv
  <2>2. conn'[fd] = (IF fd = new THEN "open" ELSE conn[fd])
    BY DEF TypeInv, TypeOK
  <2>. QED
    BY <1>1, <1>2, <1>3, <2>1, <2>2 DEF HeldOnce, HeldByOwner, Accepted, Posted, Swapped,
       Registered
<1>5. DropsNone' /\ ReadsOwn'
  BY <1>2 DEF CustodyInv, DropsNone, ReadsOwn, Accept
<1>. QED  BY <1>4, <1>5 DEF CustodyInv

LEMMA CustodyCatch ==
    TypeInv /\ StopInv /\ CustodyInv /\ CatchNewConn => CustodyInv'
<1> SUFFICES ASSUME TypeInv, StopInv, CustodyInv, CatchNewConn PROVE CustodyInv'  OBVIOUS
<1> USE DEF threadVars
<1> DEFINE fst == Head(connFds)
           t == Owner(fst)
<1>1. /\ connFds # <<>> /\ connFds \in Seq(Fds) /\ fst \in Fds /\ t \in Threads
      /\ tasks \in [Threads -> Seq(TaskType)] /\ RegisterConn(fst) \in TaskType
  <2>1. connFds # <<>> /\ connFds \in Seq(Fds) /\ tasks \in [Threads -> Seq(TaskType)]
    BY DEF CatchNewConn, TypeInv, TypeOK
  <2>. QED  BY <2>1, SeqFacts, OwnerIsThread, TaskFacts
<1>2. /\ connFds' = Tail(connFds)
      /\ tasks' = [tasks EXCEPT ![t] = Append(tasks[t], RegisterConn(fst))]
      /\ q' = q /\ sessions' = sessions /\ conn' = conn /\ ioStop' = ioStop
      /\ ipc' = ipc /\ cur' = cur /\ mpc \notin Stopping
  BY DEF CatchNewConn, Stopping
<1> HIDE DEF t, fst
<1>3. \A x : /\ Has(connFds, x) <=> Has(connFds', x) \/ x = fst
             /\ Once(connFds, x) <=> Once(connFds', x) /\ (x = fst => ~Has(connFds', x))
  BY <1>1, <1>2, TailFacts DEF fst
<1>4. \A x : /\ Has(tasks'[t], x) <=> Has(tasks[t], x) \/ x = RegisterConn(fst)
             /\ Once(tasks'[t], x) <=>
                    Once(tasks[t], x) /\ (x = RegisterConn(fst) => ~Has(tasks[t], x))
  BY <1>1, <1>2, AppendFacts
<1>5. \A u \in Threads \ {t} : tasks'[u] = tasks[u]  BY <1>1, <1>2
<1>6. ASSUME NEW fd \in Fds PROVE HeldOnce(fd)' /\ HeldByOwner(fd)'
  <2>1. HeldOnce(fd) /\ HeldByOwner(fd) /\ Owner(fd) \in Threads
    BY OwnerIsThread DEF CustodyInv
  <2>2. CASE fd = fst
    BY <1>2, <1>3, <1>4, <1>5, <2>1, <2>2 DEF t, HeldOnce, HeldByOwner, Accepted, Posted,
       Swapped, Registered
  <2>3. CASE fd # fst
    <3>1. RegisterConn(fd) # RegisterConn(fst)  BY <2>3, TaskNames
    <3>2. \A u \in Threads :
             /\ Has(tasks'[u], RegisterConn(fd)) <=> Has(tasks[u], RegisterConn(fd))
             /\ Once(tasks'[u], RegisterConn(fd)) <=> Once(tasks[u], RegisterConn(fd))
      BY <1>4, <1>5, <3>1
    <3>. QED
      BY <1>2, <1>3, <2>1, <2>3, <3>2 DEF HeldOnce, HeldByOwner, Accepted, Posted, Swapped,
         Registered
  <2>. QED  BY <2>2, <2>3
<1>7. DropsNone'
  <2>1. ~ioStop[t]  BY <1>1, <1>2 DEF CustodyInv, DropsNone
  <2>2. ~Has(tasks[t], ShutDown)
    <3>1. tasks[t] \in Seq(Requests)  BY <1>1, <2>1 DEF StopInv
    <3>. QED  BY <3>1 DEF Has, Requests
  <2>3. ShutIsLast(tasks'[t])
    BY <1>1, <1>2, <2>2, AppendFacts DEF CustodyInv, DropsNone
  <2>. QED  BY <1>2, <1>5, <2>3 DEF CustodyInv, DropsNone
<1>8. ReadsOwn'  BY <1>2 DEF CustodyInv, ReadsOwn
<1>. QED  BY <1>6, <1>7, <1>8 DEF CustodyInv

LEMMA CustodyMain ==
    TypeInv /\ StopInv /\ CustodyInv /\ MainStep => CustodyInv'
<1> SUFFICES ASSUME TypeInv, StopInv, CustodyInv, MainStep PROVE CustodyInv'  OBVIOUS
<1> USE DEF threadVars, mailVars
<1>1. CASE Run \/ Check \/ Wait \/ ListenEvent \/ StopEvent \/ EndEvents \/ AcceptFails
             \/ Wakeup \/ StopFlag \/ StopWake \/ Join
  <2>1. UNCHANGED custodyVars /\ UNCHANGED <<ipc, cur>>
    BY <1>1 DEF custodyVars, Run, Check, Wait, ListenEvent, StopEvent, EndEvents, AcceptFails,
                Wakeup, StopFlag, StopWake, Join
  <2>2. mpc' \in Stopping \/ (mpc \notin Stopping /\ ioStop' = ioStop)
    BY <1>1 DEF Stopping, Run, Check, Wait, ListenEvent, StopEvent, EndEvents, AcceptFails,
                Wakeup, StopFlag, StopWake, Join
  <2>3. ReadsOwn'  BY <2>1 DEF custodyVars, CustodyInv, ReadsOwn
  <2>. QED  BY <2>1, <2>2, <2>3, CustodyKept DEF CustodyInv, DropsNone
<1>2. CASE StopPush
  <2>1. /\ tasks' = [tasks EXCEPT ![k] = Append(tasks[k], ShutDown)]
        /\ UNCHANGED <<connFds, q, sessions, conn, ipc, cur, ioStop>>
        /\ mpc' \in Stopping
    BY <1>2 DEF StopPush, Stopping
  <2>2. k \in Threads /\ tasks \in [Threads -> Seq(TaskType)] /\ ShutDown \in TaskType
    BY TaskFacts DEF TypeInv, TypeOK
  <2>3. \A t \in Threads, fd \in Fds :
           /\ Has(tasks'[t], RegisterConn(fd)) <=> Has(tasks[t], RegisterConn(fd))
           /\ Once(tasks'[t], RegisterConn(fd)) <=> Once(tasks[t], RegisterConn(fd))
    BY <2>1, <2>2, AppendFacts, TaskNames
  <2>4. \A t \in Threads : ShutIsLast(tasks'[t])
    BY <2>1, <2>2, AppendFacts, TaskNames DEF CustodyInv, DropsNone
  <2>5. ASSUME NEW fd \in Fds PROVE HeldOnce(fd)' /\ HeldByOwner(fd)'
    <3>1. HeldOnce(fd) /\ HeldByOwner(fd) /\ Owner(fd) \in Threads
      BY OwnerIsThread DEF CustodyInv
    <3>. QED
      BY <2>1, <2>3, <3>1 DEF HeldOnce, HeldByOwner, Accepted, Posted, Swapped, Registered
  <2>6. DropsNone' /\ ReadsOwn'
    BY <2>1, <2>4 DEF CustodyInv, DropsNone, ReadsOwn
  <2>. QED  BY <2>5, <2>6 DEF CustodyInv
<1>. QED
  BY <1>1, <1>2, CustodyAccept, CustodyCatch DEF MainStep

-----------------------------------------------------------------------------
(* Custody and the IO threads.                                             *)

\* Taking a task other than RegisterConn off a swapped queue.
LEMMA DropTask ==
    ASSUME TypeInv, CustodyInv, NEW t \in Threads, q[t] # <<>>,
           Head(q[t]).type # "RegisterConn", q' = [q EXCEPT ![t] = Tail(@)]
    PROVE  /\ \A u \in Threads, fd \in Fds :
                 /\ Has(q'[u], RegisterConn(fd)) <=> Has(q[u], RegisterConn(fd))
                 /\ Once(q'[u], RegisterConn(fd)) <=> Once(q[u], RegisterConn(fd))
           /\ \A u \in Threads : ShutIsLast(q'[u])
<1>0. q \in [Threads -> Seq(TaskType)]  BY DEF TypeInv, TypeOK
<1>1. \A u \in Threads, fd \in Fds :
         /\ Has(q'[u], RegisterConn(fd)) <=> Has(q[u], RegisterConn(fd))
         /\ Once(q'[u], RegisterConn(fd)) <=> Once(q[u], RegisterConn(fd))
  BY <1>0, TailFacts, TaskNames
<1>2. \A u \in Threads : ShutIsLast(q'[u])
  BY <1>0, TailFacts DEF CustodyInv, DropsNone
<1>. QED  BY <1>1, <1>2

\* A step that erases a connection from the session map and closes it.
LEMMA CustodyClose ==
    ASSUME TypeInv, CustodyInv, NEW t \in Threads, NEW fd \in sessions[t],
           sessions' = [sessions EXCEPT ![t] = @ \ {fd}],
           conn' = [conn EXCEPT ![fd] = "closed"], UNCHANGED <<connFds, tasks>>,
           \A u \in Threads, f \in Fds :
                 /\ Has(q'[u], RegisterConn(f)) <=> Has(q[u], RegisterConn(f))
                 /\ Once(q'[u], RegisterConn(f)) <=> Once(q[u], RegisterConn(f))
    PROVE  \A f \in Fds : HeldOnce(f)' /\ HeldByOwner(f)'
<1>0. sessions \in [Threads -> SUBSET Fds] /\ fd \in Fds
  BY DEF TypeInv, TypeOK
<1>1. HeldOnce(fd) /\ HeldByOwner(fd) /\ t = Owner(fd)
  BY <1>0 DEF CustodyInv, HeldByOwner
<1>. SUFFICES ASSUME NEW f \in Fds PROVE HeldOnce(f)' /\ HeldByOwner(f)'
  OBVIOUS
<1>2. HeldOnce(f) /\ HeldByOwner(f) /\ Owner(f) \in Threads
  BY OwnerIsThread DEF CustodyInv
<1>3. conn'[f] = (IF f = fd THEN "closed" ELSE conn[f])
  BY <1>0 DEF TypeInv, TypeOK
<1>4. \A u \in Threads : f \in sessions'[u] <=> f \in sessions[u] /\ ~(u = t /\ f = fd)
  BY <1>0
<1>. QED
  BY <1>1, <1>2, <1>3, <1>4 DEF HeldOnce, HeldByOwner, Accepted, Posted, Swapped, Registered

LEMMA CustodyRegister ==
    ASSUME NEW t \in Threads PROVE TypeInv /\ CustodyInv /\ IoRegister(t) => CustodyInv'
<1> SUFFICES ASSUME TypeInv, CustodyInv, IoRegister(t) PROVE CustodyInv'  OBVIOUS
<1> USE DEF mainVars, mailVars
<1> DEFINE new == Head(q[t]).fd
<1>1. /\ q \in [Threads -> Seq(TaskType)] /\ sessions \in [Threads -> SUBSET Fds]
      /\ q[t] # <<>> /\ Head(q[t]).type = "RegisterConn"
  BY DEF IoRegister, TypeInv, TypeOK
<1>2. new \in Fds /\ Head(q[t]) = RegisterConn(new)
  BY <1>1, SeqFacts, TaskCases
<1>3. /\ sessions' = [sessions EXCEPT ![t] = @ \cup {new}]
      /\ q' = [q EXCEPT ![t] = Tail(@)]
      /\ UNCHANGED <<connFds, tasks, conn, mpc, ioStop, ipc, cur>>
  BY DEF IoRegister
<1> HIDE DEF new
<1>4. \A x : /\ Has(q[t], x) <=> Has(q'[t], x) \/ x = RegisterConn(new)
             /\ Once(q[t], x) <=>
                    Once(q'[t], x) /\ (x = RegisterConn(new) => ~Has(q'[t], x))
  BY <1>1, <1>2, <1>3, TailFacts
<1>5. \A u \in Threads \ {t} : q'[u] = q[u] /\ sessions'[u] = sessions[u]
  BY <1>1, <1>3
<1>6. sessions'[t] = sessions[t] \cup {new}  BY <1>1, <1>3
<1>7. ASSUME NEW fd \in Fds PROVE HeldOnce(fd)' /\ HeldByOwner(fd)'
  <2>1. HeldOnce(fd) /\ HeldByOwner(fd) /\ Owner(fd) \in Threads
    BY OwnerIsThread DEF CustodyInv
  <2>2. CASE fd = new
    BY <1>3, <1>4, <1>5, <1>6, <2>1, <2>2 DEF HeldOnce, HeldByOwner, Accepted, Posted, Swapped,
       Registered
  <2>3. CASE fd # new
    <3>1. RegisterConn(fd) # RegisterConn(new)  BY <2>3, TaskNames
    <3>2. \A u \in Threads :
             /\ Has(q'[u], RegisterConn(fd)) <=> Has(q[u], RegisterConn(fd))
             /\ Once(q'[u], RegisterConn(fd)) <=> Once(q[u], RegisterConn(fd))
             /\ fd \in sessions'[u] <=> fd \in sessions[u]
      BY <1>4, <1>5, <1>6, <2>3, <3>1
    <3>. QED
      BY <1>3, <2>1, <3>2 DEF HeldOnce, HeldByOwner, Accepted, Posted, Swapped, Registered
  <2>. QED  BY <2>2, <2>3
<1>8. DropsNone'
  <2>1. ShutIsLast(q'[t])  BY <1>1, <1>3, TailFacts DEF CustodyInv, DropsNone
  <2>. QED  BY <1>3, <1>5, <2>1 DEF CustodyInv, DropsNone
<1>9. ReadsOwn'  BY <1>3, <1>5, <1>6 DEF CustodyInv, ReadsOwn
<1>. QED  BY <1>7, <1>8, <1>9 DEF CustodyInv

LEMMA CustodyIo ==
    ASSUME NEW t \in Threads
    PROVE  TypeInv /\ StopInv /\ CustodyInv /\ IoStep(t) => CustodyInv'
<1> SUFFICES ASSUME TypeInv, StopInv, CustodyInv, IoStep(t) PROVE CustodyInv'  OBVIOUS
<1> USE DEF mainVars, mailVars
<1>t. /\ ipc \in [Threads -> {"check", "wait", "event", "swap", "deal", "read", "readWake",
                              "done"}]
      /\ q \in [Threads -> Seq(TaskType)] /\ tasks \in [Threads -> Seq(TaskType)]
      /\ sessions \in [Threads -> SUBSET Fds] /\ cur \in [Threads -> Fds \cup {EventFd}]
  BY DEF TypeInv, TypeOK
<1>d. mpc' = mpc /\ ioStop' = ioStop
  BY DEF IoStep, IoCheck, IoWait, IoConnEvent, IoBell, IoEndEvents, IoRead, IoReadWake,
         IoReadEnd, IoSwap, IoRegister, IoSend, IoSendFails, IoShutDown, IoDealt
<1>1. CASE IoCheck(t) \/ IoWait(t) \/ IoBell(t) \/ IoEndEvents(t) \/ IoReadWake(t)
             \/ IoDealt(t)
  <2>1. UNCHANGED custodyVars /\ cur' = cur
    BY <1>1 DEF custodyVars, IoCheck, IoWait, IoBell, IoEndEvents, IoReadWake, IoDealt
  <2>2. \A u \in Threads :
           ipc'[u] \in {"read", "readWake"} => ipc[u] \in {"read", "readWake"}
    BY <1>t, <1>1 DEF IoCheck, IoWait, IoBell, IoEndEvents, IoReadWake, IoDealt
  <2>3. ReadsOwn'  BY <2>1, <2>2 DEF custodyVars, CustodyInv, ReadsOwn
  <2>. QED  BY <1>d, <2>1, <2>3, CustodyKept DEF CustodyInv, DropsNone
<1>2. CASE IoConnEvent(t)
  <2>1. UNCHANGED custodyVars  BY <1>2 DEF custodyVars, IoConnEvent
  <2>2. PICK fd \in ievents[t] \ {EventFd} :
           IF fd \in sessions[t]
              THEN cur' = [cur EXCEPT ![t] = fd] /\ ipc' = [ipc EXCEPT ![t] = "read"]
              ELSE UNCHANGED <<cur, ipc>>
    BY <1>2 DEF IoConnEvent
  <2>3. ReadsOwn'
    BY <1>t, <2>1, <2>2 DEF custodyVars, CustodyInv, ReadsOwn
  <2>. QED  BY <1>d, <2>1, <2>3, CustodyKept DEF CustodyInv, DropsNone
<1>3. CASE IoRead(t)
  <2>1. /\ tasks' = [tasks EXCEPT ![t] = Append(tasks[t], SendData(cur[t]))]
        /\ UNCHANGED <<connFds, q, sessions, conn, cur>>
        /\ ipc[t] = "read" /\ ipc' = [ipc EXCEPT ![t] = "readWake"]
    BY <1>3 DEF IoRead
  <2>2. SendData(cur[t]) \in TaskType
    BY <2>1, TaskFacts DEF TypeInv, CurIsConn
  <2>3. \A u \in Threads, fd \in Fds :
           /\ Has(tasks'[u], RegisterConn(fd)) <=> Has(tasks[u], RegisterConn(fd))
           /\ Once(tasks'[u], RegisterConn(fd)) <=> Once(tasks[u], RegisterConn(fd))
    BY <1>t, <2>1, <2>2, AppendFacts, TaskNames
  <2>4. ASSUME NEW u \in Threads PROVE ShutIsLast(tasks'[u])
    <3>1. ShutIsLast(tasks[u])  BY DEF CustodyInv, DropsNone
    <3>2. SendData(cur[t]).type # "RegisterConn"  BY TaskNames
    <3>3. ShutIsLast(Append(tasks[t], SendData(cur[t]))) <=> ShutIsLast(tasks[t])
      BY <1>t, <2>2, <3>2, AppendFacts
    <3>. QED  BY <1>t, <2>1, <3>1, <3>3
  <2>5. ASSUME NEW fd \in Fds PROVE HeldOnce(fd)' /\ HeldByOwner(fd)'
    <3>1. HeldOnce(fd) /\ HeldByOwner(fd) /\ Owner(fd) \in Threads
      BY OwnerIsThread DEF CustodyInv
    <3>. QED
      BY <2>1, <2>3, <3>1 DEF HeldOnce, HeldByOwner, Accepted, Posted, Swapped, Registered
  <2>6. DropsNone'  BY <1>d, <2>1, <2>4 DEF CustodyInv, DropsNone
  <2>7. ReadsOwn'  BY <1>t, <2>1 DEF CustodyInv, ReadsOwn
  <2>. QED  BY <2>5, <2>6, <2>7 DEF CustodyInv
<1>4. CASE IoReadEnd(t)
  <2>1. /\ ipc[t] = "read" /\ ipc' = [ipc EXCEPT ![t] = "event"]
        /\ UNCHANGED <<connFds, tasks, q, cur>>
    BY <1>4 DEF IoReadEnd
  <2>2. cur[t] \in sessions[t]  BY <2>1 DEF CustodyInv, ReadsOwn
  <2>3. \A u \in Threads \ {t} : sessions'[u] = sessions[u] /\ ipc'[u] = ipc[u]
    BY <1>t, <1>4 DEF IoReadEnd
  <2>4. ReadsOwn'  BY <1>t, <2>1, <2>3 DEF CustodyInv, ReadsOwn
  <2>5. CASE peerClosed[cur[t]]
    <3>1. /\ sessions' = [sessions EXCEPT ![t] = @ \ {cur[t]}]
          /\ conn' = [conn EXCEPT ![cur[t]] = "closed"]
      BY <1>4, <2>5 DEF IoReadEnd
    <3>2. \A f \in Fds : HeldOnce(f)' /\ HeldByOwner(f)'
      BY <2>1, <2>2, <3>1, CustodyClose
    <3>3. DropsNone'  BY <1>d, <2>1 DEF CustodyInv, DropsNone
    <3>. QED  BY <2>4, <3>2, <3>3 DEF CustodyInv
  <2>6. CASE ~peerClosed[cur[t]]
    <3>1. UNCHANGED custodyVars  BY <1>4, <2>1, <2>6 DEF custodyVars, IoReadEnd
    <3>. QED  BY <1>d, <2>4, <3>1, CustodyKept DEF CustodyInv, DropsNone
  <2>. QED  BY <2>5, <2>6
<1>5. CASE IoSwap(t)
  <2>1. /\ q' = [q EXCEPT ![t] = tasks[t]] /\ tasks' = [tasks EXCEPT ![t] = <<>>]
        /\ UNCHANGED <<connFds, sessions, conn, cur>>
        /\ ipc[t] = "swap" /\ ipc' = [ipc EXCEPT ![t] = "deal"]
    BY <1>5 DEF IoSwap
  <2>2. q[t] = <<>>  BY <2>1 DEF StopInv
  <2>3. \A u \in Threads :
           IF u = t THEN q'[u] = tasks[u] /\ tasks'[u] = <<>>
                    ELSE q'[u] = q[u] /\ tasks'[u] = tasks[u]
    BY <1>t, <2>1
  <2>4. ASSUME NEW fd \in Fds PROVE HeldOnce(fd)' /\ HeldByOwner(fd)'
    <3>1. HeldOnce(fd) /\ HeldByOwner(fd) /\ Owner(fd) \in Threads
      BY OwnerIsThread DEF CustodyInv
    <3>. QED
      BY <2>1, <2>2, <2>3, <3>1, EmptyFacts DEF HeldOnce, HeldByOwner, Accepted, Posted,
         Swapped, Registered
  <2>5. DropsNone'
    BY <1>d, <2>3, EmptyFacts DEF CustodyInv, DropsNone
  <2>6. ReadsOwn'  BY <1>t, <2>1 DEF CustodyInv, ReadsOwn
  <2>. QED  BY <2>4, <2>5, <2>6 DEF CustodyInv
<1>6. CASE IoSend(t)
  <2>1. /\ q[t] # <<>> /\ Head(q[t]).type # "RegisterConn" /\ q' = [q EXCEPT ![t] = Tail(@)]
        /\ UNCHANGED <<connFds, tasks, sessions, conn>> /\ UNCHANGED <<ipc, cur>>
    BY <1>6 DEF IoSend
  <2>2. /\ \A u \in Threads, fd \in Fds :
              /\ Has(q'[u], RegisterConn(fd)) <=> Has(q[u], RegisterConn(fd))
              /\ Once(q'[u], RegisterConn(fd)) <=> Once(q[u], RegisterConn(fd))
        /\ \A u \in Threads : ShutIsLast(q'[u])
    BY <2>1, DropTask
  <2>3. ASSUME NEW fd \in Fds PROVE HeldOnce(fd)' /\ HeldByOwner(fd)'
    <3>1. HeldOnce(fd) /\ HeldByOwner(fd) /\ Owner(fd) \in Threads
      BY OwnerIsThread DEF CustodyInv
    <3>. QED
      BY <2>1, <2>2, <3>1 DEF HeldOnce, HeldByOwner, Accepted, Posted, Swapped, Registered
  <2>4. DropsNone' /\ ReadsOwn'  BY <1>d, <2>1, <2>2 DEF CustodyInv, DropsNone, ReadsOwn
  <2>. QED  BY <2>3, <2>4 DEF CustodyInv
<1>7. CASE IoSendFails(t)
  <2> DEFINE fd == Head(q[t]).fd
  <2>1. /\ ipc[t] = "deal" /\ q[t] # <<>> /\ Head(q[t]).type = "SendData"
        /\ q' = [q EXCEPT ![t] = Tail(@)]
        /\ fd \in sessions[t] /\ sessions' = [sessions EXCEPT ![t] = @ \ {fd}]
        /\ conn' = [conn EXCEPT ![fd] = "closed"]
        /\ UNCHANGED <<connFds, tasks, ipc, cur>>
    BY <1>7 DEF IoSendFails
  <2> HIDE DEF fd
  <2>2. /\ \A u \in Threads, f \in Fds :
              /\ Has(q'[u], RegisterConn(f)) <=> Has(q[u], RegisterConn(f))
              /\ Once(q'[u], RegisterConn(f)) <=> Once(q[u], RegisterConn(f))
        /\ \A u \in Threads : ShutIsLast(q'[u])
    BY <2>1, DropTask
  <2>3. \A f \in Fds : HeldOnce(f)' /\ HeldByOwner(f)'
    BY <2>1, <2>2, CustodyClose
  <2>4. DropsNone'  BY <1>d, <2>1, <2>2 DEF CustodyInv, DropsNone
  <2>5. ReadsOwn'
    <3>1. \A u \in Threads \ {t} : sessions'[u] = sessions[u]  BY <1>t, <2>1
    <3>. QED  BY <2>1, <3>1 DEF CustodyInv, ReadsOwn
  <2>. QED  BY <2>3, <2>4, <2>5 DEF CustodyInv
<1>8. CASE IoShutDown(t)
  <2>1. /\ ipc[t] = "deal" /\ ipc' = [ipc EXCEPT ![t] = "done"]
        /\ q[t] # <<>> /\ Head(q[t]).type = "ShutDown" /\ q' = [q EXCEPT ![t] = <<>>]
        /\ UNCHANGED <<connFds, tasks, sessions, conn, cur>>
    BY <1>8 DEF IoShutDown
  <2>2. Head(q[t]) = ShutDown  BY <1>t, <2>1, SeqFacts, TaskCases
  <2>3. \A fd \in Fds : ~Has(q[t], RegisterConn(fd))
    BY <1>t, <2>1, <2>2, TailFacts, TaskNames DEF CustodyInv, DropsNone
  <2>4. \A u \in Threads : IF u = t THEN q'[u] = <<>> ELSE q'[u] = q[u]
    BY <1>t, <2>1
  <2>5. ASSUME NEW fd \in Fds PROVE HeldOnce(fd)' /\ HeldByOwner(fd)'
    <3>1. HeldOnce(fd) /\ HeldByOwner(fd) /\ Owner(fd) \in Threads
      BY OwnerIsThread DEF CustodyInv
    <3>. QED
      BY <2>1, <2>3, <2>4, <3>1, EmptyFacts DEF HeldOnce, HeldByOwner, Accepted, Posted,
         Swapped, Registered
  <2>6. DropsNone'
    BY <1>d, <2>1, <2>4, EmptyFacts DEF CustodyInv, DropsNone
  <2>7. ReadsOwn'  BY <1>t, <2>1 DEF CustodyInv, ReadsOwn
  <2>. QED  BY <2>5, <2>6, <2>7 DEF CustodyInv
<1>. QED
  BY <1>1, <1>2, <1>3, <1>4, <1>5, <1>6, <1>7, <1>8, CustodyRegister DEF IoStep

LEMMA CustodyRest ==
    ASSUME TypeInv, CustodyInv,
           \/ \E p \in Threads \cup {Main} : Deliver(p)
           \/ HandlerStep \/ ClientStep \/ UNCHANGED vars
    PROVE  CustodyInv'
<1> USE DEF mailVars, threadVars, mainVars
<1>1. UNCHANGED custodyVars /\ UNCHANGED <<ioStop, cur>>
  BY DEF custodyVars, Deliver, HandlerStep, HandlerFlag, HandlerWrite, ClientStep, Connect,
         Request, PeerClose, vars
<1>2. /\ mpc' \in Stopping <=> mpc \in Stopping
      /\ \A t \in Threads :
            ipc'[t] \in {"read", "readWake"} => ipc[t] \in {"read", "readWake"}
  <2>1. CASE \E p \in Threads \cup {Main} : Deliver(p)
    BY <2>1 DEF Deliver, Stopping
  <2>2. CASE HandlerStep \/ ClientStep \/ UNCHANGED vars
    BY <2>2 DEF HandlerStep, HandlerFlag, HandlerWrite, ClientStep, Connect, Request,
                PeerClose, vars
  <2>. QED  BY <2>1, <2>2
<1>3. ReadsOwn'  BY <1>1, <1>2 DEF custodyVars, CustodyInv, ReadsOwn
<1>. QED  BY <1>1, <1>2, <1>3, CustodyKept DEF CustodyInv, DropsNone

\* Where the connections are, and the facts it rests on.
LEMMA CustodyInvHolds == Spec => []CustodyInv
<1>1. TypeInv /\ StopInv /\ CustodyInv /\ [Next]_vars => CustodyInv'
  BY CustodyMain, CustodyIo, CustodyRest DEF Next
<1>. QED
  BY TypeInvHolds, StopInvHolds, CustodyInit, <1>1, PTL DEF Spec

\* The places of a queue that hold x are none, or one.
LEMMA PositionsFacts ==
    ASSUME NEW s, NEW x
    PROVE  /\ ~Has(s, x) => Positions(s, x) = {}
           /\ Has(s, x) /\ Once(s, x) => \E i : Positions(s, x) = {i}
<1>1. ~Has(s, x) => Positions(s, x) = {}
  BY DEF Has, Positions
<1>2. ASSUME Has(s, x), Once(s, x) PROVE \E i : Positions(s, x) = {i}
  <2> PICK i \in DOMAIN s : s[i] = x  BY <1>2 DEF Has
  <2>1. Positions(s, x) = {i}  BY <1>2 DEF Once, Positions
  <2>. QED  BY <2>1
<1>. QED  BY <1>1, <1>2

\* What answers for a connection, place by place.
LEMMA HoldersOf ==
    ASSUME NEW fd \in Fds, HeldByOwner(fd)
    PROVE  \A h : h \in Holders(fd) <=>
              \/ \E i \in Positions(connFds, fd) : h = <<"accepted", Owner(fd), i>>
              \/ \E i \in Positions(tasks[Owner(fd)], RegisterConn(fd)) :
                    h = <<"tasks", Owner(fd), i>>
              \/ \E i \in Positions(q[Owner(fd)], RegisterConn(fd)) :
                    h = <<"q", Owner(fd), i>>
              \/ Registered(fd) /\ h = <<"session", Owner(fd), 0>>
<1> DEFINE H(t) == {<<"tasks", t, i>> : i \in Positions(tasks[t], RegisterConn(fd))}
                     \cup {<<"q", t, i>> : i \in Positions(q[t], RegisterConn(fd))}
                     \cup {<<"session", t, 0>> : x \in sessions[t] \cap {fd}}
<1>1. Owner(fd) \in Threads  BY OwnerIsThread
<1>2. ASSUME NEW t \in Threads, t # Owner(fd) PROVE H(t) = {}
  <2>1. /\ ~Has(tasks[t], RegisterConn(fd)) /\ ~Has(q[t], RegisterConn(fd))
        /\ fd \notin sessions[t]
    BY <1>2 DEF HeldByOwner
  <2>. QED  BY <2>1, PositionsFacts
<1>3. UNION {H(t) : t \in Threads} = H(Owner(fd))
  BY <1>1, <1>2
<1>4. Holders(fd) = {<<"accepted", Owner(fd), i>> : i \in Positions(connFds, fd)}
                      \cup H(Owner(fd))
  BY <1>3 DEF Holders
<1>. QED  BY <1>4 DEF Registered

\* Every open connection is held in exactly one place, by its owner; a closed one in
\* none: for any number of threads and connections, and also while the server stops.
THEOREM CustodyHolds == Spec => []Custody
<1>1. CustodyInv => Custody
  <2> SUFFICES ASSUME CustodyInv, NEW fd \in Fds
               PROVE  /\ Cardinality(Holders(fd)) = IF conn[fd] = "open" THEN 1 ELSE 0
                      /\ \A h \in Holders(fd) : h[2] = Owner(fd)
    BY DEF Custody
  <2>0. HeldOnce(fd) /\ HeldByOwner(fd)  BY DEF CustodyInv
  <2>1. \A h \in Holders(fd) : h[2] = Owner(fd)
    BY <2>0, HoldersOf
  <2>2. CASE conn[fd] # "open"
    <3>1. Holders(fd) = {}
      BY <2>0, <2>2, HoldersOf, PositionsFacts DEF HeldOnce, Accepted, Posted, Swapped
    <3>. QED  BY <2>1, <2>2, <3>1, FS_EmptySet
  <2>3. CASE conn[fd] = "open"
    <3>1. \E h : Holders(fd) = {h}
      <4>1. CASE Accepted(fd)
        <5> PICK i : Positions(connFds, fd) = {i}
          BY <2>0, <4>1, PositionsFacts DEF HeldOnce, Accepted
        <5>1. Holders(fd) = {<<"accepted", Owner(fd), i>>}
          BY <2>0, <4>1, HoldersOf, PositionsFacts DEF HeldOnce, Posted, Swapped
        <5>. QED  BY <5>1
      <4>2. CASE Posted(fd)
        <5> PICK i : Positions(tasks[Owner(fd)], RegisterConn(fd)) = {i}
          BY <2>0, <4>2, PositionsFacts DEF HeldOnce, Posted
        <5>1. Holders(fd) = {<<"tasks", Owner(fd), i>>}
          BY <2>0, <4>2, HoldersOf, PositionsFacts DEF HeldOnce, Accepted, Swapped
        <5>. QED  BY <5>1
      <4>3. CASE Swapped(fd)
        <5> PICK i : Positions(q[Owner(fd)], RegisterConn(fd)) = {i}
          BY <2>0, <4>3, PositionsFacts DEF HeldOnce, Swapped
        <5>1. Holders(fd) = {<<"q", Owner(fd), i>>}
          BY <2>0, <4>3, HoldersOf, PositionsFacts DEF HeldOnce, Accepted, Posted
        <5>. QED  BY <5>1
      <4>4. CASE Registered(fd)
        <5>1. Holders(fd) = {<<"session", Owner(fd), 0>>}
          BY <2>0, <4>4, HoldersOf, PositionsFacts
          DEF HeldOnce, Accepted, Posted, Swapped
        <5>. QED  BY <5>1
      <4>. QED  BY <2>0, <2>3, <4>1, <4>2, <4>3, <4>4 DEF HeldOnce
    <3>. QED  BY <2>1, <2>3, <3>1, FS_Singleton
  <2>. QED  BY <2>2, <2>3
<1>. QED  BY CustodyInvHolds, <1>1, PTL

\* A connection that a thread has in its session map is an open one of its own.
LEMMA SessionIsOpen ==
    ASSUME TypeInv, CustodyInv, NEW t \in Threads, NEW fd \in sessions[t]
    PROVE  fd \in Fds /\ t = Owner(fd) /\ Registered(fd) /\ conn[fd] = "open"
<1>1. fd \in Fds  BY DEF TypeInv, TypeOK
<1>2. t = Owner(fd)  BY <1>1 DEF CustodyInv, HeldByOwner
<1>. QED  BY <1>1, <1>2 DEF CustodyInv, HeldOnce, Registered

-----------------------------------------------------------------------------
(* The accept queue.                                                       *)

\* A connection in the queue has an edge that is still to be reported, was reported and
\* not yet come to, or is being accepted, or accept has failed with it in the queue.
AcceptInv ==
    /\ "listen" \in mevents => mpc = "event"
    /\ backlog > 0 =>
          \/ listenEdge \/ "listen" \in mevents \/ mpc = "accept" \/ mpc \in Stopping
          \/ leftBehind

LEMMA AcceptInit == Init => AcceptInv
BY DEF Init, AcceptInv

LEMMA AcceptMain ==
    ASSUME AcceptInv, TypeInv, MainStep
    PROVE  AcceptInv'
<1> USE DEF AcceptInv, Stopping, TypeInv, TypeOK, listenVars
<1>1. CASE Run  BY <1>1 DEF Run
<1>2. CASE Check  BY <1>2 DEF Check
<1>3. CASE Wait  BY <1>3 DEF Wait
<1>4. CASE ListenEvent  BY <1>4 DEF ListenEvent
<1>5. CASE StopEvent  BY <1>5 DEF StopEvent
<1>6. CASE EndEvents  BY <1>6 DEF EndEvents
<1>7. CASE Accept  BY <1>7 DEF Accept
<1>8. CASE AcceptFails
  <2>1. UNCHANGED <<mevents, backlog, listenEdge>> /\ mpc = "accept"
    BY <1>8 DEF AcceptFails
  <2>2. backlog > 0 => listenEdge \/ leftBehind'
    BY <1>8 DEF AcceptFails
  <2>. QED  BY <2>1, <2>2
<1>9. CASE CatchNewConn  BY <1>9 DEF CatchNewConn
<1>10. CASE Wakeup  BY <1>10 DEF Wakeup
<1>11. CASE StopFlag  BY <1>11 DEF StopFlag
<1>12. CASE StopPush  BY <1>12 DEF StopPush
<1>13. CASE StopWake  BY <1>13 DEF StopWake
<1>14. CASE Join  BY <1>14 DEF Join
<1>. QED
  BY <1>1, <1>2, <1>3, <1>4, <1>5, <1>6, <1>7, <1>8, <1>9, <1>10, <1>11, <1>12, <1>13, <1>14
  DEF MainStep

LEMMA AcceptRest ==
    ASSUME AcceptInv, TypeInv,
           \/ \E t \in Threads : IoStep(t)
           \/ \E p \in Threads \cup {Main} : Deliver(p)
           \/ HandlerStep \/ ClientStep \/ UNCHANGED vars
    PROVE  AcceptInv'
<1> USE DEF listenVars, mainVars
<1>1. CASE \E t \in Threads : IoStep(t)
  <2>1. UNCHANGED <<mpc, mevents, backlog, listenEdge, leftBehind>>
    BY <1>1 DEF IoStep, IoCheck, IoWait, IoConnEvent, IoBell, IoEndEvents, IoRead, IoReadWake,
           IoReadEnd, IoSwap, IoRegister, IoSend, IoSendFails, IoShutDown, IoDealt
  <2>. QED  BY <2>1 DEF AcceptInv
<1>2. CASE \E p \in Threads \cup {Main} : Deliver(p)
  <2>1. /\ UNCHANGED <<mevents, backlog, listenEdge, leftBehind>>
        /\ mpc' = mpc \/ (mpc = "wait" /\ mpc' = "check")
    BY <1>2 DEF Deliver
  <2>. QED  BY <2>1 DEF AcceptInv, Stopping
<1>3. CASE HandlerStep \/ UNCHANGED vars \/ (\E fd \in Fds : Request(fd) \/ PeerClose(fd))
  <2>1. UNCHANGED <<mpc, mevents, backlog, listenEdge, leftBehind>>
    BY <1>3 DEF HandlerStep, HandlerFlag, HandlerWrite, Request, PeerClose, vars
  <2>. QED  BY <2>1 DEF AcceptInv
<1>4. CASE Connect
  <2>1. UNCHANGED <<mpc, mevents>> /\ listenEdge'
    BY <1>4 DEF Connect
  <2>. QED  BY <2>1 DEF AcceptInv
<1>. QED  BY <1>1, <1>2, <1>3, <1>4 DEF ClientStep

\* An accept loop leaves nothing behind unless accept fails: with however many threads and
\* numbers, the main thread waits with a connection in the queue and the edge that
\* announced it used up only when accept has failed since the last client came.
THEOREM NothingLeftInBacklog == Spec => []AcceptUntilEagain
<1>1. TypeInv /\ AcceptInv /\ [Next]_vars => AcceptInv'
  BY AcceptMain, AcceptRest DEF Next
<1>2. AcceptInv => AcceptUntilEagain
  BY DEF AcceptInv, AcceptUntilEagain, Stopping
<1>. QED
  BY TypeInvHolds, AcceptInit, <1>1, <1>2, PTL DEF Spec

-----------------------------------------------------------------------------
(* The requests.  Counting the replies that are under way.                 *)

Count(s, x) == Cardinality(Positions(s, x))

LEMMA CountFacts ==
    ASSUME NEW S, NEW s \in Seq(S), NEW x
    PROVE  /\ Count(s, x) \in Nat
           /\ Count(<<>>, x) = 0
           /\ Count(s, x) = 0 <=> ~Has(s, x)
           /\ \A y \in S : Count(Append(s, y), x) = Count(s, x) + (IF y = x THEN 1 ELSE 0)
           /\ s # <<>> => Count(s, x) = Count(Tail(s), x) + (IF Head(s) = x THEN 1 ELSE 0)
<1> DEFINE P(r) == Positions(r, x)
<1>1. ASSUME NEW r \in Seq(S) PROVE IsFiniteSet(P(r)) /\ Cardinality(P(r)) \in Nat
  <2>1. P(r) \in SUBSET (1 .. Len(r))  BY DEF Positions
  <2>2. IsFiniteSet(1 .. Len(r))  BY FS_Interval
  <2>3. IsFiniteSet(P(r))  BY <2>1, <2>2, FS_Subset
  <2>. QED  BY <2>3, FS_CardinalityType
<1>2. P(<<>>) = {}  BY DEF Positions
<1>3. Cardinality(P(s)) = 0 <=> ~Has(s, x)
  <2>1. P(s) = {} <=> ~Has(s, x)  BY DEF Positions, Has
  <2>. QED  BY <1>1, <2>1, FS_EmptySet
<1>4. ASSUME NEW y \in S
      PROVE  Cardinality(P(Append(s, y))) = Cardinality(P(s)) + (IF y = x THEN 1 ELSE 0)
  <2>1. P(Append(s, y)) = IF y = x THEN P(s) \cup {Len(s) + 1} ELSE P(s)
    <3>1. /\ DOMAIN Append(s, y) = (DOMAIN s) \cup {Len(s) + 1}
          /\ \A i \in DOMAIN s : Append(s, y)[i] = s[i]
          /\ Append(s, y)[Len(s) + 1] = y
      OBVIOUS
    <3>. QED  BY <3>1 DEF Positions
  <2>2. Len(s) + 1 \notin P(s)  BY DEF Positions
  <2>3. Cardinality(P(s) \cup {Len(s) + 1}) = Cardinality(P(s)) + 1
    BY <1>1, <2>2, FS_AddElement
  <2>4. CASE y = x  BY <2>1, <2>3, <2>4
  <2>5. CASE y # x  BY <1>1, <2>1, <2>5
  <2>. QED  BY <2>4, <2>5
<1>5. ASSUME s # <<>>
      PROVE  Cardinality(P(s)) = Cardinality(P(Tail(s))) + (IF Head(s) = x THEN 1 ELSE 0)
  <2> DEFINE r == Tail(s)
             B == {i + 1 : i \in P(r)}
  <2>1. /\ r \in Seq(S) /\ DOMAIN s = 1 .. Len(s) /\ Len(s) \in Nat \ {0}
        /\ DOMAIN r = 1 .. Len(s) - 1 /\ s[1] = Head(s)
        /\ \A i \in 1 .. Len(s) - 1 : r[i] = s[i + 1]
    BY <1>5
  <2>2. P(s) = IF Head(s) = x THEN B \cup {1} ELSE B
    <3>1. ASSUME NEW i \in P(s), i # 1 PROVE i \in B
      <4>1. i - 1 \in 1 .. Len(s) - 1 /\ (i - 1) + 1 = i  BY <2>1, <3>1 DEF Positions
      <4>2. i - 1 \in P(r)  BY <2>1, <4>1 DEF Positions
      <4>. QED  BY <4>1, <4>2
    <3>2. B \subseteq P(s) \ {1}
      BY <2>1 DEF Positions
    <3>3. 1 \in P(s) <=> Head(s) = x  BY <2>1 DEF Positions
    <3>. QED  BY <3>1, <3>2, <3>3
  <2>3. Cardinality(B) = Cardinality(P(r)) /\ IsFiniteSet(B)
    <3> DEFINE f == [i \in P(r) |-> i + 1]
    <3>1. f \in Bijection(P(r), B)
      <4>1. \A i \in P(r) : i \in Nat  BY <2>1 DEF Positions
      <4>2. f \in [P(r) -> B] /\ \A i, j \in P(r) : f[i] = f[j] => i = j
        BY <4>1
      <4>3. \A b \in B : \E i \in P(r) : f[i] = b  OBVIOUS
      <4>4. f \in Injection(P(r), B)  BY <4>2 DEF Injection, IsInjective
      <4>5. f \in Surjection(P(r), B)  BY <4>2, <4>3 DEF Surjection
      <4>. QED  BY <4>4, <4>5 DEF Bijection
    <3>2. ExistsBijection(P(r), B)  BY <3>1 DEF ExistsBijection
    <3>. QED  BY <1>1, <2>1, <3>2, FS_Bijection
  <2>4. 1 \notin B  BY <2>1 DEF Positions
  <2>5. Cardinality(P(r)) \in Nat  BY <1>1, <2>1
  <2>6. Cardinality(B \cup {1}) = Cardinality(B) + 1  BY <2>3, <2>4, FS_AddElement
  <2>7. CASE Head(s) = x  BY <2>2, <2>3, <2>6, <2>7
  <2>8. CASE Head(s) # x  BY <2>2, <2>3, <2>5, <2>8
  <2>. QED  BY <2>7, <2>8
<1>. QED  BY <1>1, <1>2, <1>3, <1>4, <1>5, FS_EmptySet DEF Count

\* A reply under way is a task of the owner of its connection, which was registered and
\* is open or closed since.
UnderWay(fd) ==
    \A t \in Threads :
        Has(tasks[t], SendData(fd)) \/ Has(q[t], SendData(fd)) =>
            /\ t = Owner(fd) /\ conn[fd] # "none"
            /\ conn[fd] = "open" => Registered(fd)

Balanced(fd) ==
    conn[fd] = "open" /\ ipc[Owner(fd)] # "done" =>
        sent[fd] = unread[fd] + replied[fd] + Count(tasks[Owner(fd)], SendData(fd))
                     + Count(q[Owner(fd)], SendData(fd))

\* No number was used before, so a connection starts with nothing sent or answered.
Unused(fd) == conn[fd] = "none" => sent[fd] = 0 /\ unread[fd] = 0 /\ replied[fd] = 0

RequestsInv == \A fd \in Fds : UnderWay(fd) /\ Balanced(fd) /\ Unused(fd)

LEMMA RequestsInit == Init => RequestsInv
<1> SUFFICES ASSUME Init, NEW fd \in Fds PROVE UnderWay(fd) /\ Balanced(fd) /\ Unused(fd)
  BY DEF RequestsInv
<1>. QED  BY EmptyFacts DEF Init, UnderWay, Balanced, Unused

\* A step that leaves the counts of fd and its tasks alone.
LEMMA RequestsKept ==
    ASSUME NEW fd \in Fds, UnderWay(fd), Balanced(fd), Unused(fd),
           sent'[fd] = sent[fd], unread'[fd] = unread[fd], replied'[fd] = replied[fd],
           \A t \in Threads :
              /\ Has(tasks'[t], SendData(fd)) \/ Has(q'[t], SendData(fd)) =>
                    Has(tasks[t], SendData(fd)) \/ Has(q[t], SendData(fd))
              /\ Count(tasks'[t], SendData(fd)) = Count(tasks[t], SendData(fd))
              /\ Count(q'[t], SendData(fd)) = Count(q[t], SendData(fd)),
           \/ conn'[fd] = conn[fd] /\ (Registered(fd) => Registered(fd)')
           \/ conn'[fd] = "closed" /\ conn[fd] # "none",
           ipc[Owner(fd)] = "done" => ipc'[Owner(fd)] = "done"
    PROVE  (UnderWay(fd) /\ Balanced(fd) /\ Unused(fd))'
<1>1. Owner(fd) \in Threads  BY OwnerIsThread
<1>2. UnderWay(fd)'  BY DEF UnderWay
<1>3. Balanced(fd)'  BY <1>1 DEF Balanced
<1>4. Unused(fd)'  BY DEF Unused
<1>. QED  BY <1>2, <1>3, <1>4

LEMMA RequestsMain == TypeInv /\ RequestsInv /\ MainStep => RequestsInv'
<1> SUFFICES ASSUME TypeInv, RequestsInv, MainStep, NEW fd \in Fds
             PROVE  (UnderWay(fd) /\ Balanced(fd) /\ Unused(fd))'
  BY DEF RequestsInv
<1>0. UnderWay(fd) /\ Balanced(fd) /\ Unused(fd)  BY DEF RequestsInv
<1>u. UNCHANGED <<ipc, q, sent, unread, replied, sessions>>
  BY DEF MainStep, Run, Check, Wait, ListenEvent, StopEvent, EndEvents, Accept, AcceptFails,
     CatchNewConn, Wakeup, StopFlag, StopPush, StopWake, Join, threadVars, clientVars
<1>t. tasks \in [Threads -> Seq(TaskType)] /\ q \in [Threads -> Seq(TaskType)]
  BY DEF TypeInv, TypeOK
<1>1. CASE Accept
  <2> PICK new \in Fresh : conn' = [conn EXCEPT ![new] = "open"]
    BY <1>1 DEF Accept
  <2>1. tasks' = tasks  BY <1>1 DEF Accept, mailVars
  <2>2. CASE fd # new
    <3>1. conn'[fd] = conn[fd]  BY <2>2
    <3>. QED  BY <1>0, <1>u, <2>1, <3>1, RequestsKept DEF Registered
  <2>3. CASE fd = new
    <3>1. conn[fd] = "none" /\ conn'[fd] = "open"
      BY <2>3 DEF Fresh, TypeInv, TypeOK
    <3>2. \A t \in Threads : ~Has(tasks[t], SendData(fd)) /\ ~Has(q[t], SendData(fd))
      BY <1>0, <3>1 DEF UnderWay
    <3>3. \A t \in Threads : Count(tasks[t], SendData(fd)) = 0 /\ Count(q[t], SendData(fd)) = 0
      BY <1>t, <3>2, CountFacts
    <3>4. UnderWay(fd)' /\ Unused(fd)'  BY <1>u, <2>1, <3>1, <3>2 DEF UnderWay, Unused
    <3>5. Balanced(fd)'
      BY <1>0, <1>u, <2>1, <3>1, <3>3, OwnerIsThread DEF Balanced, Unused
    <3>. QED  BY <3>4, <3>5
  <2>. QED  BY <2>2, <2>3
<1>2. CASE CatchNewConn \/ StopPush
  <2>1. \E t \in Threads, y \in TaskType :
           /\ y # SendData(fd) /\ tasks' = [tasks EXCEPT ![t] = Append(tasks[t], y)]
    <3>1. CASE CatchNewConn
      <4>1. Head(connFds) \in Fds
        BY <3>1, SeqFacts DEF CatchNewConn, TypeInv, TypeOK
      <4>. QED  BY <3>1, <4>1, OwnerIsThread, TaskFacts, TaskNames DEF CatchNewConn
    <3>2. CASE StopPush
      BY <3>2, TaskFacts, TaskNames DEF StopPush, TypeInv, TypeOK
    <3>. QED  BY <1>2, <3>1, <3>2
  <2>2. PICK t \in Threads, y \in TaskType :
           /\ y # SendData(fd) /\ tasks' = [tasks EXCEPT ![t] = Append(tasks[t], y)]
    BY <2>1
  <2>3. /\ Has(tasks'[t], SendData(fd)) <=> Has(tasks[t], SendData(fd))
        /\ Count(tasks'[t], SendData(fd)) = Count(tasks[t], SendData(fd))
    BY <1>t, <2>2, AppendFacts, CountFacts
  <2>4. \A u \in Threads \ {t} : tasks'[u] = tasks[u]  BY <1>t, <2>2
  <2>5. conn' = conn  BY <1>2 DEF CatchNewConn, StopPush
  <2>. QED  BY <1>0, <1>u, <2>3, <2>4, <2>5, RequestsKept DEF Registered
<1>3. CASE ~Accept /\ ~CatchNewConn /\ ~StopPush
  <2>1. conn' = conn /\ tasks' = tasks
    BY <1>3 DEF MainStep, Run, Check, Wait, ListenEvent, StopEvent, EndEvents, AcceptFails,
       Wakeup, StopFlag, StopWake, Join, mailVars
  <2>. QED  BY <1>0, <1>u, <2>1, RequestsKept DEF Registered
<1>. QED  BY <1>1, <1>2, <1>3

LEMMA RequestsIo ==
    ASSUME NEW t \in Threads
    PROVE  TypeInv /\ StopInv /\ CustodyInv /\ RequestsInv /\ IoStep(t) => RequestsInv'
<1> SUFFICES ASSUME TypeInv, StopInv, CustodyInv, RequestsInv, IoStep(t), NEW fd \in Fds
             PROVE  (UnderWay(fd) /\ Balanced(fd) /\ Unused(fd))'
  BY DEF RequestsInv
<1>0. UnderWay(fd) /\ Balanced(fd) /\ Unused(fd) /\ Owner(fd) \in Threads
  BY OwnerIsThread DEF RequestsInv
<1>t. /\ tasks \in [Threads -> Seq(TaskType)] /\ q \in [Threads -> Seq(TaskType)]
      /\ ipc \in [Threads -> {"check", "wait", "event", "swap", "deal", "read", "readWake",
                              "done"}]
      /\ conn \in [Fds -> {"none", "open", "closed"}]
      /\ sessions \in [Threads -> SUBSET Fds]
      /\ unread \in [Fds -> Nat] /\ sent \in [Fds -> Nat] /\ replied \in [Fds -> Nat]
  BY DEF TypeInv, TypeOK
<1>d. ipc[Owner(fd)] = "done" => ipc'[Owner(fd)] = "done"
  <2>1. ipc[t] # "done"
    BY DEF IoStep, IoCheck, IoWait, IoConnEvent, IoBell, IoEndEvents, IoRead, IoReadWake,
           IoReadEnd, IoSwap, IoRegister, IoSend, IoSendFails, IoShutDown, IoDealt
  <2>2. \A u \in Threads \ {t} : ipc'[u] = ipc[u]
    BY <1>t DEF IoStep, IoCheck, IoWait, IoConnEvent, IoBell, IoEndEvents, IoRead,
       IoReadWake, IoReadEnd, IoSwap, IoRegister, IoSend, IoSendFails, IoShutDown, IoDealt
  <2>. QED  BY <1>0, <2>1, <2>2
<1>1. CASE IoCheck(t) \/ IoWait(t) \/ IoConnEvent(t) \/ IoBell(t) \/ IoEndEvents(t)
             \/ IoReadWake(t) \/ IoDealt(t)
  <2>1. UNCHANGED <<tasks, q, sent, unread, replied, conn, sessions>>
    BY <1>1 DEF IoCheck, IoWait, IoConnEvent, IoBell, IoEndEvents, IoReadWake, IoDealt,
                clientVars, mailVars
  <2>. QED  BY <1>0, <1>d, <2>1, RequestsKept DEF Registered
<1>2. CASE IoRead(t)
  <2> DEFINE c == cur[t]
  <2>1. /\ c \in sessions[t] /\ ipc[t] = "read" /\ unread[c] > 0
        /\ unread' = [unread EXCEPT ![c] = @ - 1]
        /\ tasks' = [tasks EXCEPT ![t] = Append(tasks[t], SendData(c))]
        /\ UNCHANGED <<q, sent, replied, conn, sessions>>
    BY <1>2 DEF IoRead, CustodyInv, ReadsOwn
  <2>2. c \in Fds /\ t = Owner(c) /\ Registered(c) /\ conn[c] = "open"
    BY <2>1, SessionIsOpen
  <2>3. SendData(c) \in TaskType  BY <2>2, TaskFacts
  <2>4. \A u \in Threads \ {t} : tasks'[u] = tasks[u]  BY <1>t, <2>1
  <2> HIDE DEF c
  <2>5. CASE fd # c
    <3>1. SendData(c) # SendData(fd)  BY <2>5, TaskNames
    <3>2. /\ Has(tasks'[t], SendData(fd)) <=> Has(tasks[t], SendData(fd))
          /\ Count(tasks'[t], SendData(fd)) = Count(tasks[t], SendData(fd))
      BY <1>t, <2>1, <2>3, <3>1, AppendFacts, CountFacts
    <3>3. unread'[fd] = unread[fd]  BY <2>1, <2>5
    <3>. QED  BY <1>0, <1>d, <2>1, <2>4, <3>2, <3>3, RequestsKept DEF Registered
  <2>6. CASE fd = c
    <3>1. Count(tasks'[t], SendData(fd)) = Count(tasks[t], SendData(fd)) + 1
      BY <1>t, <2>1, <2>3, <2>6, CountFacts
    <3>2. unread'[fd] = unread[fd] - 1  BY <1>t, <2>1, <2>2, <2>6
    <3>3. /\ Count(tasks[t], SendData(fd)) \in Nat /\ Count(q[t], SendData(fd)) \in Nat
          /\ unread[fd] \in Nat /\ sent[fd] \in Nat /\ replied[fd] \in Nat
      BY <1>t, CountFacts
    <3>4. sent[fd] = unread[fd] + replied[fd] + Count(tasks[t], SendData(fd))
                       + Count(q[t], SendData(fd))
      BY <1>0, <2>1, <2>2, <2>6 DEF Balanced
    <3>5. Balanced(fd)'
      BY <2>1, <2>2, <2>6, <3>1, <3>2, <3>3, <3>4 DEF Balanced
    <3>6. Unused(fd)'  BY <2>1, <2>2, <2>6 DEF Unused
    <3>7. UnderWay(fd)'
      BY <1>0, <2>1, <2>2, <2>4, <2>6 DEF UnderWay, Registered
    <3>. QED  BY <3>5, <3>6, <3>7
  <2>. QED  BY <2>5, <2>6
<1>3. CASE IoReadEnd(t)
  <2>1. UNCHANGED <<tasks, q, sent, unread, replied>>
    BY <1>3 DEF IoReadEnd, mailVars, clientVars
  <2>2. \/ conn'[fd] = conn[fd] /\ (Registered(fd) => Registered(fd)')
        \/ conn'[fd] = "closed" /\ conn[fd] # "none"
    <3>1. CASE ~peerClosed[cur[t]]
      BY <1>3, <3>1 DEF IoReadEnd, Registered
    <3>2. CASE peerClosed[cur[t]]
      <4>1. /\ cur[t] \in sessions[t] /\ sessions' = [sessions EXCEPT ![t] = @ \ {cur[t]}]
            /\ conn' = [conn EXCEPT ![cur[t]] = "closed"]
        BY <1>3, <3>2 DEF IoReadEnd, CustodyInv, ReadsOwn
      <4>2. cur[t] \in Fds /\ conn[cur[t]] = "open"  BY <4>1, SessionIsOpen
      <4>. QED  BY <1>0, <1>t, <4>1, <4>2 DEF Registered
    <3>. QED  BY <3>1, <3>2
  <2>. QED  BY <1>0, <1>d, <2>1, <2>2, RequestsKept
<1>4. CASE IoSwap(t)
  <2>1. /\ q' = [q EXCEPT ![t] = tasks[t]] /\ tasks' = [tasks EXCEPT ![t] = <<>>]
        /\ UNCHANGED <<sent, unread, replied, conn, sessions>> /\ ipc[t] = "swap"
    BY <1>4 DEF IoSwap, clientVars
  <2>2. q[t] = <<>>  BY <2>1 DEF StopInv
  <2>3. \A u \in Threads :
           IF u = t THEN q'[u] = tasks[u] /\ tasks'[u] = <<>>
                    ELSE q'[u] = q[u] /\ tasks'[u] = tasks[u]
    BY <1>t, <2>1
  <2>4. UnderWay(fd)' /\ Unused(fd)'
    BY <1>0, <2>1, <2>3, EmptyFacts DEF UnderWay, Unused, Registered
  <2>5. \A u \in Threads : Count(tasks[u], SendData(fd)) \in Nat
    BY <1>t, CountFacts
  <2>6. Count(<<>>, SendData(fd)) = 0  BY <1>t, CountFacts
  <2>7. \A u \in Threads : Count(tasks'[u], SendData(fd)) + Count(q'[u], SendData(fd))
                             = Count(tasks[u], SendData(fd)) + Count(q[u], SendData(fd))
    BY <2>2, <2>3, <2>5, <2>6
  <2>8. \A u \in Threads : Count(q[u], SendData(fd)) \in Nat  BY <1>t, CountFacts
  <2>9. \A u \in Threads : /\ Count(q'[u], SendData(fd)) \in Nat
                           /\ Count(tasks'[u], SendData(fd)) \in Nat
    BY <2>3, <2>5, <2>6, <2>8
  <2>10. Balanced(fd)'
    <3> DEFINE o == Owner(fd)
    <3> SUFFICES ASSUME conn[fd] = "open", ipc[o] # "done"
                 PROVE  sent[fd] = unread[fd] + replied[fd] + Count(tasks'[o], SendData(fd))
                                     + Count(q'[o], SendData(fd))
      BY <1>d, <2>1 DEF Balanced
    <3>1. sent[fd] = unread[fd] + replied[fd] + Count(tasks[o], SendData(fd))
                       + Count(q[o], SendData(fd))
      BY <1>0 DEF Balanced
    <3>2. unread[fd] \in Nat /\ replied[fd] \in Nat  BY <1>t
    <3> HIDE DEF o
    <3>3. o \in Threads  BY <1>0 DEF o
    <3>4. /\ Count(tasks[o], SendData(fd)) \in Nat /\ Count(q[o], SendData(fd)) \in Nat
          /\ Count(tasks'[o], SendData(fd)) \in Nat /\ Count(q'[o], SendData(fd)) \in Nat
          /\ Count(tasks'[o], SendData(fd)) + Count(q'[o], SendData(fd))
               = Count(tasks[o], SendData(fd)) + Count(q[o], SendData(fd))
      BY <2>5, <2>7, <2>8, <2>9, <3>3
    <3>. QED  BY <3>1, <3>2, <3>4
  <2>. QED  BY <2>4, <2>10
<1>5. CASE IoRegister(t) \/ IoSendFails(t) \/ (IoSend(t) /\ Head(q[t]) # SendData(fd))
  <2>1. /\ q[t] # <<>> /\ q' = [q EXCEPT ![t] = Tail(@)]
        /\ UNCHANGED <<tasks, sent, unread>>
    BY <1>5 DEF IoRegister, IoSendFails, IoSend, clientVars, mailVars
  <2>2. Head(q[t]) \in TaskType  BY <1>t, <2>1, SeqFacts
  <2>3. CASE Head(q[t]) # SendData(fd)
    <3>1. /\ Has(q'[t], SendData(fd)) <=> Has(q[t], SendData(fd))
          /\ Count(q'[t], SendData(fd)) = Count(q[t], SendData(fd))
      <4>1. q'[t] = Tail(q[t]) /\ q[t] \in Seq(TaskType) /\ q'[t] \in Seq(TaskType)
        BY <1>t, <2>1, SeqFacts
      <4>2. Count(q'[t], SendData(fd)) \in Nat  BY <4>1, CountFacts
      <4>. QED  BY <2>1, <2>3, <4>1, <4>2, TailFacts, CountFacts
    <3>2. \A u \in Threads \ {t} : q'[u] = q[u]  BY <1>t, <2>1
    <3>3. replied'[fd] = replied[fd]
      <4>1. CASE IoSend(t)
        <5>1. Head(q[t]).fd # fd  BY <2>2, <2>3, <4>1, TaskCases DEF IoSend
        <5>. QED  BY <4>1, <5>1 DEF IoSend
      <4>. QED  BY <1>5, <4>1 DEF IoRegister, IoSendFails
    <3>4. \/ conn'[fd] = conn[fd] /\ (Registered(fd) => Registered(fd)')
          \/ conn'[fd] = "closed" /\ conn[fd] # "none"
      <4>1. CASE IoSendFails(t)
        <5> DEFINE c == Head(q[t]).fd
        <5>1. /\ c \in sessions[t] /\ sessions' = [sessions EXCEPT ![t] = @ \ {c}]
              /\ conn' = [conn EXCEPT ![c] = "closed"]
          BY <4>1 DEF IoSendFails
        <5>2. c \in Fds /\ conn[c] = "open"  BY <5>1, SessionIsOpen
        <5>. QED  BY <1>0, <1>t, <5>1, <5>2 DEF Registered
      <4>2. CASE IoRegister(t) \/ IoSend(t)
        BY <1>0, <1>t, <4>2 DEF IoRegister, IoSend, Registered
      <4>. QED  BY <1>5, <4>1, <4>2
    <3>. QED  BY <1>0, <1>d, <2>1, <3>1, <3>2, <3>3, <3>4, RequestsKept
  <2>4. CASE Head(q[t]) = SendData(fd)
    <3>1. IoSendFails(t) /\ Head(q[t]).fd = fd
      BY <1>5, <2>4, TaskNames DEF IoRegister
    <3>2. fd \in sessions[t] /\ conn' = [conn EXCEPT ![fd] = "closed"] /\ replied' = replied
      BY <3>1 DEF IoSendFails
    <3>3. conn'[fd] = "closed" /\ conn[fd] = "open" /\ t = Owner(fd)
      BY <1>t, <3>2, SessionIsOpen
    <3>4. Balanced(fd)' /\ Unused(fd)'  BY <3>3 DEF Balanced, Unused
    <3>5. \A u \in Threads \ {t} : q'[u] = q[u]  BY <1>t, <2>1
    <3>6. UnderWay(fd)'
      BY <1>0, <2>1, <3>3, <3>5 DEF UnderWay
    <3>. QED  BY <3>4, <3>6
  <2>. QED  BY <2>3, <2>4
<1>6. CASE IoSend(t) /\ Head(q[t]) = SendData(fd)
  <2>0. Head(q[t]).fd = fd  BY <1>6, TaskNames
  <2>1. /\ q[t] # <<>> /\ q' = [q EXCEPT ![t] = Tail(@)]
        /\ replied' = (IF fd \in sessions[t] THEN [replied EXCEPT ![fd] = @ + 1] ELSE replied)
        /\ UNCHANGED <<tasks, sent, unread, conn, sessions, ipc>>
    BY <1>6, <2>0 DEF IoSend, clientVars, mailVars
  <2>2. q[t] \in Seq(TaskType) /\ q'[t] = Tail(q[t]) /\ q'[t] \in Seq(TaskType)
    BY <1>t, <2>1, SeqFacts
  <2>3. Has(q[t], SendData(fd))  BY <1>6, <2>1, <2>2, TailFacts
  <2>4. t = Owner(fd) /\ conn[fd] # "none" /\ (conn[fd] = "open" => Registered(fd))
    BY <1>0, <2>3 DEF UnderWay
  <2>5. Count(q[t], SendData(fd)) = Count(q'[t], SendData(fd)) + 1
    BY <1>6, <2>1, <2>2, CountFacts
  <2>6. /\ Count(q[t], SendData(fd)) \in Nat /\ Count(q'[t], SendData(fd)) \in Nat
        /\ Count(tasks[t], SendData(fd)) \in Nat
    BY <1>t, <2>2, CountFacts
  <2>7. UnderWay(fd)' /\ Unused(fd)'
    <3>1. \A u \in Threads \ {t} : q'[u] = q[u]  BY <1>t, <2>1
    <3>. QED  BY <1>0, <2>1, <2>4, <3>1 DEF UnderWay, Unused, Registered
  <2>8. Balanced(fd)'
    <3> SUFFICES ASSUME conn[fd] = "open", ipc[t] # "done"
                 PROVE  sent[fd] = unread[fd] + replied'[fd] + Count(tasks[t], SendData(fd))
                                     + Count(q'[t], SendData(fd))
      BY <2>1, <2>4 DEF Balanced
    <3>1. sent[fd] = unread[fd] + replied[fd] + Count(tasks[t], SendData(fd))
                       + Count(q[t], SendData(fd))
      BY <1>0, <2>4 DEF Balanced
    <3>2. replied'[fd] = replied[fd] + 1  BY <1>t, <2>1, <2>4 DEF Registered
    <3>3. sent[fd] \in Nat /\ unread[fd] \in Nat /\ replied[fd] \in Nat  BY <1>t
    <3>. QED  BY <2>5, <2>6, <3>1, <3>2, <3>3
  <2>. QED  BY <2>7, <2>8
<1>7. CASE IoShutDown(t)
  <2>1. /\ q' = [q EXCEPT ![t] = <<>>] /\ ipc' = [ipc EXCEPT ![t] = "done"]
        /\ UNCHANGED <<tasks, sent, unread, replied, conn, sessions>>
    BY <1>7 DEF IoShutDown, clientVars, mailVars
  <2>2. \A u \in Threads \ {t} : q'[u] = q[u] /\ ipc'[u] = ipc[u]  BY <1>t, <2>1
  <2>3. q'[t] = <<>> /\ ipc'[t] = "done"  BY <1>t, <2>1
  <2>4. UnderWay(fd)' /\ Unused(fd)'
    BY <1>0, <2>1, <2>2, <2>3, EmptyFacts DEF UnderWay, Unused, Registered
  <2>5. Balanced(fd)'  BY <1>0, <2>1, <2>2, <2>3 DEF Balanced
  <2>. QED  BY <2>4, <2>5
<1>. QED
  BY <1>1, <1>2, <1>3, <1>4, <1>5, <1>6, <1>7 DEF IoStep

LEMMA RequestsRest ==
    ASSUME TypeInv, RequestsInv,
           \/ \E p \in Threads \cup {Main} : Deliver(p)
           \/ HandlerStep \/ ClientStep \/ UNCHANGED vars
    PROVE  RequestsInv'
<1> SUFFICES ASSUME NEW fd \in Fds PROVE (UnderWay(fd) /\ Balanced(fd) /\ Unused(fd))'
  BY DEF RequestsInv
<1>0. UnderWay(fd) /\ Balanced(fd) /\ Unused(fd) /\ Owner(fd) \in Threads
  BY OwnerIsThread DEF RequestsInv
<1>u. UNCHANGED <<tasks, q, conn, sessions, replied>>
  BY DEF Deliver, HandlerStep, HandlerFlag, HandlerWrite, ClientStep, Connect, Request,
         PeerClose, vars, mailVars, threadVars
<1>d. ipc[Owner(fd)] = "done" => ipc'[Owner(fd)] = "done"
  <2>1. CASE \E p \in Threads \cup {Main} : Deliver(p)
    BY <1>0, <2>1 DEF Deliver
  <2>2. CASE HandlerStep \/ ClientStep \/ UNCHANGED vars
    BY <2>2 DEF HandlerStep, HandlerFlag, HandlerWrite, ClientStep, Connect, Request,
                PeerClose, vars, threadVars
  <2>. QED  BY <2>1, <2>2
<1>1. CASE \E f \in Fds : Request(f)
  <2> PICK f \in Fds : Request(f)  BY <1>1
  <2>t. unread \in [Fds -> Nat] /\ sent \in [Fds -> Nat] /\ replied \in [Fds -> Nat]
    BY DEF TypeInv, TypeOK
  <2>1. CASE f # fd
    <3>1. sent'[fd] = sent[fd] /\ unread'[fd] = unread[fd]  BY <2>1 DEF Request
    <3>. QED  BY <1>0, <1>u, <1>d, <3>1, RequestsKept DEF Registered
  <2>2. CASE f = fd
    <3>1. /\ sent'[fd] = sent[fd] + 1 /\ unread'[fd] = unread[fd] + 1
          /\ conn[fd] = "open" /\ ipc' = ipc
      BY <2>t, <2>2 DEF Request, threadVars
    <3>2. /\ Count(tasks[Owner(fd)], SendData(fd)) \in Nat
          /\ Count(q[Owner(fd)], SendData(fd)) \in Nat
          /\ sent[fd] \in Nat /\ unread[fd] \in Nat /\ replied[fd] \in Nat
      BY <1>0, <2>t, CountFacts DEF TypeInv, TypeOK
    <3>3. Balanced(fd)'  BY <1>0, <1>u, <3>1, <3>2 DEF Balanced
    <3>4. UnderWay(fd)' /\ Unused(fd)'
      BY <1>0, <1>u, <3>1 DEF UnderWay, Unused, Registered
    <3>. QED  BY <3>3, <3>4
  <2>. QED  BY <2>1, <2>2
<1>2. CASE ~\E f \in Fds : Request(f)
  <2>1. UNCHANGED <<sent, unread>>
    BY <1>2 DEF Deliver, HandlerStep, HandlerFlag, HandlerWrite, ClientStep, Connect,
                PeerClose, vars, clientVars
  <2>. QED  BY <1>0, <1>u, <1>d, <2>1, RequestsKept DEF Registered
<1>. QED  BY <1>1, <1>2

\* As long as a connection is open and its thread runs, each request is unread, answered,
\* or its reply is one of the owner's tasks, whatever the threads' interleaving.
THEOREM NoRequestIsLost == Spec => []RequestsAccounted
<1>1. TypeInv /\ StopInv /\ CustodyInv /\ RequestsInv /\ [Next]_vars => RequestsInv'
  BY RequestsMain, RequestsIo, RequestsRest DEF Next
<1>2. RequestsInv => RequestsAccounted
  BY DEF RequestsInv, Balanced, RequestsAccounted, Count
<1>. QED
  BY TypeInvHolds, StopInvHolds, CustodyInvHolds, RequestsInit, <1>1, <1>2, PTL DEF Spec
=============================================================================
