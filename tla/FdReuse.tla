------------------------------- MODULE FdReuse -------------------------------
(***************************************************************************)
(* Descriptor numbers in the C++ echo server (23_.../src: io_thread.cpp,   *)
(* server.cpp).  An IO thread knows its connections by number; close makes *)
(* a number free, and the main thread's next accept may return it at once, *)
(* while the IO thread still holds events, tasks and Sessions that name    *)
(* it.  The model has one IO thread, the owner of every number in Fds, and *)
(* keeps of a connection only who has its number: which events epoll       *)
(* reports and how a write ends are left open.                             *)
(***************************************************************************)
EXTENDS Integers, Sequences

CONSTANTS
    Conns,       \* the connections that clients make
    Fds,         \* the numbers that the IO thread owns
    None,        \* no connection
    MaxRequests  \* bound: requests read on one connection

ASSUME NoneAssumption == None \notin Conns

VARIABLES
    table,     \* the process's descriptor table: the connection behind a number
    state,     \* state[c]: "new", "open" or "closed"
    gone,      \* the connections whose client has closed or reset
    requests,  \* requests[c]: requests read
    \* The main thread.
    accepted,  \* what accept has returned and NotifyNewConns not yet pushed; .conn: whom
    tasks,     \* _tasks of the IO thread; .conn says whom a task was made for
    \* The IO thread.
    pc,        \* where loop stands
    batch,     \* events of the last epoll_wait not yet handled, .conn: whom they are for
    q,         \* the local queue of deal_enque_task
    sessions,  \* _sessions: the connection whose Session a number leads to
    watched,   \* the epoll set: the connection registered under a number
    sess,      \* the Session at hand, a shared_ptr that outlives _sessions' entry
    back,      \* where the thread goes on after clear_fd
    unsent,    \* the connections whose Session has a nonempty send queue
    touched    \* who was written to or closed for whom: pairs of connections

mainVars == <<accepted, tasks>>
vars == <<table, state, gone, requests, mainVars, pc, batch, q, sessions, watched, sess, back,
          unsent, touched>>

NoConn    == [fd |-> None, conn |-> None]
NoSession == [fd |-> None, conn |-> None, out |-> FALSE]

Init ==
    /\ table = [fd \in Fds |-> None]
    /\ state = [c \in Conns |-> "new"]
    /\ gone = {}
    /\ requests = [c \in Conns |-> 0]
    /\ accepted = NoConn /\ tasks = <<>>
    /\ pc = "wait" /\ batch = {} /\ q = <<>>
    /\ sessions = [fd \in Fds |-> None]
    /\ watched = [fd \in Fds |-> None]
    /\ sess = NoSession /\ back = "event"
    /\ unsent = {} /\ touched = {}

-----------------------------------------------------------------------------
(* The main thread.                                                        *)

\* accept returns a number that is free.
Accept ==
    /\ accepted = NoConn
    /\ \E fd \in Fds, c \in Conns :
          /\ table[fd] = None /\ state[c] = "new"
          /\ table' = [table EXCEPT ![fd] = c]
          /\ state' = [state EXCEPT ![c] = "open"]
          /\ accepted' = [fd |-> fd, conn |-> c]
    /\ UNCHANGED <<gone, requests, tasks, pc, batch, q, sessions, watched, sess, back, unsent,
                   touched>>

\* Mutant: new connections go before the tasks that wait.
CatchNewConnFirst ==
    /\ accepted # NoConn
    /\ tasks' = <<[type |-> "RegisterConn", fd |-> accepted.fd, conn |-> accepted.conn]>>
                   \o tasks
    /\ accepted' = NoConn
    /\ UNCHANGED <<table, state, gone, requests, pc, batch, q, sessions, watched, sess, back,
                   unsent, touched>>

\* NotifyNewConns: the number goes to the IO thread.
CatchNewConn ==
    /\ accepted # NoConn
    /\ tasks' = Append(tasks, [type |-> "RegisterConn", fd |-> accepted.fd,
                               conn |-> accepted.conn])
    /\ accepted' = NoConn
    /\ UNCHANGED <<table, state, gone, requests, pc, batch, q, sessions, watched, sess, back,
                   unsent, touched>>

-----------------------------------------------------------------------------
(* The IO thread: loop.                                                    *)

\* epoll_wait reports any of the connections registered, each with any mask; the
\* eventfd is among the events if a task is waiting.
EpollWait ==
    /\ pc = "wait"
    /\ \E S \in SUBSET {fd \in Fds : watched[fd] # None} :
          \E mask \in [S -> {{"in"}, {"out"}, {"in", "out"}, {"hup"}}] :
              /\ \A fd \in S : "hup" \in mask[fd] => watched[fd] \in gone
              /\ batch' = {[fd |-> fd, evs |-> mask[fd], conn |-> watched[fd]] : fd \in S}
                            \cup (IF tasks = <<>> THEN {}
                                  ELSE {[fd |-> None, evs |-> {"in"}, conn |-> None]})
    /\ batch' # {}
    /\ pc' = "event"
    /\ UNCHANGED <<table, state, gone, requests, mainVars, q, sessions, watched, sess, back,
                   unsent, touched>>

EndBatch ==
    /\ pc = "event"
    /\ batch = {}
    /\ pc' = "wait"
    /\ UNCHANGED <<table, state, gone, requests, mainVars, batch, q, sessions, watched, sess,
                   back, unsent, touched>>

\* The eventfd: the tasks are swapped out.
BellEvent ==
    /\ pc = "event"
    /\ \E e \in batch :
          /\ e.fd = None
          /\ batch' = batch \ {e}
    /\ q' = tasks
    /\ tasks' = <<>>
    /\ pc' = "deal"
    /\ UNCHANGED <<table, state, gone, requests, accepted, sessions, watched, sess, back,
                   unsent, touched>>

\* EPOLLERR or EPOLLHUP: clear_fd, without a look at _sessions.
HupEvent ==
    /\ pc = "event"
    /\ \E e \in batch :
          /\ e.fd # None /\ "hup" \in e.evs
          /\ batch' = batch \ {e}
          /\ sess' = [fd |-> e.fd, conn |-> e.conn, out |-> FALSE]
    /\ pc' = "clear"
    /\ back' = "event"
    /\ UNCHANGED <<table, state, gone, requests, mainVars, q, sessions, watched, unsent,
                   touched>>

\* EPOLLIN or EPOLLOUT: of a number that is in _sessions.
ConnEvent ==
    /\ pc = "event"
    /\ \E e \in batch :
          /\ e.fd # None /\ "hup" \notin e.evs
          /\ batch' = batch \ {e}
          /\ IF sessions[e.fd] = None
             THEN UNCHANGED <<pc, sess>>
             ELSE /\ sess' = [fd |-> e.fd, conn |-> sessions[e.fd], out |-> "out" \in e.evs]
                  /\ pc' = IF "in" \in e.evs THEN "read" ELSE "out"
    /\ UNCHANGED <<table, state, gone, requests, mainVars, q, sessions, watched, back, unsent,
                   touched>>

AfterRead == IF sess.out THEN "out" ELSE "event"

\* A request of whoever has the number is read, and its reply becomes a task of the
\* thread itself.
ReadRequest ==
    /\ pc = "read"
    /\ LET c == table[sess.fd] IN
          /\ c # None
          /\ requests[c] < MaxRequests
          /\ requests' = [requests EXCEPT ![c] = @ + 1]
          /\ tasks' = Append(tasks, [type |-> "SendData", fd |-> sess.fd, conn |-> c])
    /\ UNCHANGED <<table, state, gone, accepted, pc, batch, q, sessions, watched, sess, back,
                   unsent, touched>>

ReadEagain ==
    /\ pc = "read"
    /\ pc' = AfterRead
    /\ UNCHANGED <<table, state, gone, requests, mainVars, batch, q, sessions, watched, sess,
                   back, unsent, touched>>

\* The end of the connection: clear_fd; the EPOLLOUT of the same event comes after.
ReadEnds ==
    /\ pc = "read"
    /\ table[sess.fd] \in gone \cup {None}
    /\ pc' = "clear"
    /\ back' = AfterRead
    /\ UNCHANGED <<table, state, gone, requests, mainVars, batch, q, sessions, watched, sess,
                   unsent, touched>>

\* Mutant: the Session stays in _sessions.
ClearKeepsSession ==
    /\ pc = "clear"
    /\ watched' = [watched EXCEPT ![sess.fd] = None]
    /\ pc' = "close"
    /\ UNCHANGED <<table, state, gone, requests, mainVars, batch, q, sessions, sess, back,
                   unsent, touched>>

\* clear_fd, and the error path of SendData: erase from _sessions and from epoll ...
ClearErase ==
    /\ pc = "clear"
    /\ sessions' = [sessions EXCEPT ![sess.fd] = None]
    /\ watched' = [watched EXCEPT ![sess.fd] = None]
    /\ pc' = "close"
    /\ UNCHANGED <<table, state, gone, requests, mainVars, batch, q, sess, back, unsent,
                   touched>>

\* ... then close whatever has the number by now.
ClearClose ==
    /\ pc = "close"
    /\ LET c == table[sess.fd] IN
          IF c = None THEN UNCHANGED <<table, state, touched>>
          ELSE /\ table' = [table EXCEPT ![sess.fd] = None]
               /\ state' = [state EXCEPT ![c] = "closed"]
               /\ touched' = touched \cup {<<sess.conn, c>>}
    /\ pc' = back
    /\ UNCHANGED <<gone, requests, mainVars, batch, q, sessions, watched, sess, back, unsent>>

-----------------------------------------------------------------------------
(* The IO thread: handle_epollout and send_data.                           *)

\* A write that is taken reaches whatever has the number by now; the queue may be
\* drained by it, or EAGAIN leaves the rest.
WriteTaken(next) ==
    /\ table[sess.fd] # None
    /\ touched' = touched \cup {<<sess.conn, table[sess.fd]>>}
    /\ unsent' \in {unsent, unsent \ {sess.conn}}
    /\ pc' = next
    /\ UNCHANGED <<table, state, gone, requests, mainVars, batch, q, sessions, watched, sess,
                   back>>

\* EAGAIN before a byte is taken.
WriteEagain(next) ==
    /\ table[sess.fd] # None
    /\ pc' = next
    /\ UNCHANGED <<table, state, gone, requests, mainVars, batch, q, sessions, watched, sess,
                   back, unsent, touched>>

\* A write fails if the client has gone or the number is free.
WriteFails(next) ==
    /\ table[sess.fd] \in gone \cup {None}
    /\ pc' = "clear"
    /\ back' = next
    /\ UNCHANGED <<table, state, gone, requests, mainVars, batch, q, sessions, watched, sess,
                   unsent, touched>>

OutWrite ==
    /\ pc = "out" /\ sess.conn \in unsent
    /\ WriteTaken("event") \/ WriteEagain("event") \/ WriteFails("event")

OutEmpty ==
    /\ pc = "out" /\ sess.conn \notin unsent
    /\ pc' = "event"
    /\ UNCHANGED <<table, state, gone, requests, mainVars, batch, q, sessions, watched, sess,
                   back, unsent, touched>>

SendWrite ==
    /\ pc = "send"
    /\ WriteTaken("deal") \/ WriteEagain("deal") \/ WriteFails("deal")

-----------------------------------------------------------------------------
(* The IO thread: deal_enque_task.                                         *)

\* A fresh Session for the number, registered with epoll if the number is in use.
RegisterTask ==
    /\ pc = "deal" /\ q # <<>> /\ Head(q).type = "RegisterConn"
    /\ sessions' = [sessions EXCEPT ![Head(q).fd] = Head(q).conn]
    /\ watched' = [watched EXCEPT ![Head(q).fd] = table[Head(q).fd]]
    /\ q' = Tail(q)
    /\ UNCHANGED <<table, state, gone, requests, mainVars, pc, batch, sess, back, unsent,
                   touched>>

\* The Session is looked up by number; without one the reply is dropped.
SendTask ==
    /\ pc = "deal" /\ q # <<>> /\ Head(q).type = "SendData"
    /\ q' = Tail(q)
    /\ LET c == sessions[Head(q).fd] IN
          IF c = None THEN UNCHANGED <<pc, sess, unsent>>
          ELSE /\ sess' = [fd |-> Head(q).fd, conn |-> c, out |-> FALSE]
               /\ unsent' = unsent \cup {c}
               /\ pc' = "send"
    /\ UNCHANGED <<table, state, gone, requests, mainVars, batch, sessions, watched, back,
                   touched>>

Dealt ==
    /\ pc = "deal" /\ q = <<>>
    /\ pc' = "event"
    /\ UNCHANGED <<table, state, gone, requests, mainVars, batch, q, sessions, watched, sess,
                   back, unsent, touched>>

\* A client closes or resets its connection.
PeerGoes ==
    /\ \E c \in Conns \ gone :
          /\ state[c] = "open"
          /\ gone' = gone \cup {c}
    /\ UNCHANGED <<table, state, requests, mainVars, pc, batch, q, sessions, watched, sess,
                   back, unsent, touched>>

MainStep == Accept \/ CatchNewConn
IoStep ==
    \/ EpollWait \/ EndBatch \/ BellEvent \/ HupEvent \/ ConnEvent
    \/ ReadRequest \/ ReadEagain \/ ReadEnds \/ ClearErase \/ ClearClose
    \/ OutWrite \/ OutEmpty \/ SendWrite \/ RegisterTask \/ SendTask \/ Dealt

Next == MainStep \/ IoStep \/ PeerGoes

Spec == Init /\ [][Next]_vars

-----------------------------------------------------------------------------
(* Properties.                                                             *)

Tasks == [type : {"RegisterConn", "SendData"}, fd : Fds, conn : Conns]

TypeOK ==
    /\ table \in [Fds -> Conns \cup {None}]
    /\ state \in [Conns -> {"new", "open", "closed"}]
    /\ gone \subseteq Conns
    /\ requests \in [Conns -> Nat]
    /\ accepted \in [fd : Fds, conn : Conns] \cup {NoConn}
    /\ tasks \in Seq(Tasks) /\ q \in Seq(Tasks)
    /\ pc \in {"wait", "event", "deal", "read", "out", "send", "clear", "close"}
    /\ sessions \in [Fds -> Conns \cup {None}]
    /\ watched \in [Fds -> Conns \cup {None}]
    /\ unsent \subseteq Conns
    /\ touched \subseteq Conns \X Conns

\* What is done for one connection, a write of its replies or its close, never strikes
\* another one that has got its number.
OldSessionTouchesNoOther == \A p \in touched : p[1] = p[2]

\* Because clear_fd erases the Session before it closes the number, and accept's next
\* owner of the number is registered through the queue, a number in _sessions always
\* leads to the Session of the connection that has it, until a stale event or a
\* cleared Session has struck a connection that was not its own.
SessionsMatchTable ==
    /\ TypeOK
    /\ OldSessionTouchesNoOther =>
        \A fd \in Fds : sessions[fd] # None => table[fd] = sessions[fd]

\* A reply is never queued for another connection than the one whose request it
\* answers, although a task names its connection by number only: a number is given
\* back only after its replies were queued, and registered anew only behind them.
RepliesStayHome ==
    OldSessionTouchesNoOther /\ q # <<>> /\ Head(q).type = "SendData" =>
        sessions[Head(q).fd] \in {None, Head(q).conn}
=============================================================================
