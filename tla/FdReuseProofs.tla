---------------------------- MODULE FdReuseProofs ----------------------------
(***************************************************************************)
(* Theorems about FdReuse, for any connections, numbers and requests: as   *)
(* long as nothing was done to a connection for the sake of another one, a *)
(* number leads to the Session, and to the replies, of the connection that *)
(* has it.                                                                 *)
(***************************************************************************)
EXTENDS FdReuse, TLAPS

-----------------------------------------------------------------------------
(* Types.                                                                  *)

Event    == [fd : Fds, evs : SUBSET {"in", "out", "hup"}, conn : Conns]
Bell     == [fd |-> None, evs |-> {"in"}, conn |-> None]
Session  == [fd : Fds, conn : Conns, out : BOOLEAN]

TypeInv ==
    /\ TypeOK
    /\ batch \subseteq Event \cup {Bell}
    /\ back \in {"event", "out", "deal"}
    /\ sess \in Session \cup {NoSession}
    /\ pc \in {"read", "out", "send", "clear", "close"} => sess \in Session

-----------------------------------------------------------------------------
(* Who has a number, who is known by it.                                   *)

\* The tasks that wait, the oldest first.
Queue == q \o tasks

\* The IO thread holds c: in a map, in an event, or as the Session at hand.
Known(c) ==
    \/ \E fd \in Fds : sessions[fd] = c \/ watched[fd] = c
    \/ \E e \in batch : e.conn = c
    \/ sess.conn = c

\* c was accepted under the number fd and is not registered yet.
Pending(fd, c) ==
    \/ accepted = [fd |-> fd, conn |-> c]
    \/ \E i \in DOMAIN Queue :
          Queue[i] = [type |-> "RegisterConn", fd |-> fd, conn |-> c]

SessionsCurrent == \A fd \in Fds : sessions[fd] # None => table[fd] = sessions[fd]

\* A connection has one number, and none before it is accepted.
OneNumber ==
    \A fd \in Fds : table[fd] # None =>
        /\ state[table[fd]] # "new"
        /\ \A g \in Fds : table[g] = table[fd] => g = fd

KnownIsOld == \A c \in Conns : Known(c) => state[c] # "new"

\* Until it is registered, a connection keeps its number and is unknown to the IO thread,
\* which therefore cannot close it for a reason of its own.
PendingIsUnknown ==
    \A fd \in Fds, c \in Conns : Pending(fd, c) => table[fd] = c /\ ~Known(c)

\* Behind the registration of a number there is no task for the same number.
RegisterIsLast ==
    /\ \A i, j \in DOMAIN Queue :
          i < j /\ Queue[i].type = "RegisterConn" => Queue[j].fd # Queue[i].fd
    /\ accepted # NoConn => \A i \in DOMAIN Queue :
          Queue[i].type = "RegisterConn" => Queue[i].fd # accepted.fd

RepliesHome ==
    \A i \in DOMAIN Queue :
        Queue[i].type = "SendData" => sessions[Queue[i].fd] \in {None, Queue[i].conn}

SessionAtHand ==
    /\ pc = "close" => sessions[sess.fd] = None
    /\ pc \in {"read", "send"} => sessions[sess.fd] = sess.conn

\* Outside deal_enque_task there is no local queue.
SwappedIsLocal ==
    /\ pc \in {"wait", "event", "read", "out"} => q = <<>>
    /\ pc \in {"clear", "close"} /\ back # "deal" => q = <<>>

NumbersInv ==
    /\ SessionsCurrent
    /\ OneNumber
    /\ KnownIsOld
    /\ PendingIsUnknown
    /\ RegisterIsLast
    /\ RepliesHome
    /\ SessionAtHand
    /\ SwappedIsLocal

-----------------------------------------------------------------------------
(* Types are kept.                                                         *)

LEMMA SeqFacts ==
    ASSUME NEW S, NEW s \in Seq(S)
    PROVE  /\ <<>> \in Seq(S)
           /\ \A x \in S : Append(s, x) \in Seq(S)
           /\ s # <<>> => Head(s) \in S /\ Tail(s) \in Seq(S)
OBVIOUS

\* An event of a connection is no Bell.
LEMMA EventFacts ==
    ASSUME TypeInv, NEW e \in batch, e.fd # None
    PROVE  e \in Event
BY DEF TypeInv, Bell

LEMMA TypeInit == Init => TypeInv
<1> SUFFICES ASSUME Init PROVE TypeInv  OBVIOUS
<1>1. <<>> \in Seq(Tasks)  OBVIOUS
<1>. QED  BY <1>1 DEF Init, TypeInv, TypeOK

LEMMA TypeStep == TypeInv /\ [Next]_vars => TypeInv'
<1> SUFFICES ASSUME TypeInv, [Next]_vars PROVE TypeInv'  OBVIOUS
<1> USE DEF TypeInv, TypeOK, mainVars
<1>1. CASE Accept
  <2> PICK fd \in Fds, c \in Conns :
         /\ table[fd] = None /\ state[c] = "new"
         /\ table' = [table EXCEPT ![fd] = c]
         /\ state' = [state EXCEPT ![c] = "open"]
         /\ accepted' = [fd |-> fd, conn |-> c]
    BY <1>1 DEF Accept
  <2>1. accepted' \in [fd : Fds, conn : Conns]  OBVIOUS
  <2>. QED  BY <1>1, <2>1 DEF Accept
<1>2. CASE CatchNewConn
  <2>1. accepted \in [fd : Fds, conn : Conns]  BY <1>2 DEF CatchNewConn
  <2>2. [type |-> "RegisterConn", fd |-> accepted.fd, conn |-> accepted.conn] \in Tasks
    BY <2>1 DEF Tasks
  <2>3. tasks' \in Seq(Tasks)  BY <1>2, <2>2, SeqFacts DEF CatchNewConn
  <2>. QED  BY <1>2, <2>3 DEF CatchNewConn
<1>3. CASE EpollWait
  <2> PICK S \in SUBSET {fd \in Fds : watched[fd] # None} :
           \E mask \in [S -> {{"in"}, {"out"}, {"in", "out"}, {"hup"}}] :
              batch' = {[fd |-> fd, evs |-> mask[fd], conn |-> watched[fd]] : fd \in S}
                         \cup (IF tasks = <<>> THEN {}
                               ELSE {[fd |-> None, evs |-> {"in"}, conn |-> None]})
    BY <1>3 DEF EpollWait
  <2> PICK mask \in [S -> {{"in"}, {"out"}, {"in", "out"}, {"hup"}}] :
              batch' = {[fd |-> fd, evs |-> mask[fd], conn |-> watched[fd]] : fd \in S}
                         \cup (IF tasks = <<>> THEN {}
                               ELSE {[fd |-> None, evs |-> {"in"}, conn |-> None]})
    OBVIOUS
  <2>1. \A fd \in S : [fd |-> fd, evs |-> mask[fd], conn |-> watched[fd]] \in Event
    <3> TAKE fd \in S
    <3>1. fd \in Fds /\ watched[fd] \in Conns  OBVIOUS
    <3>2. mask[fd] \in SUBSET {"in", "out", "hup"}
      <4>1. mask[fd] \in {{"in"}, {"out"}, {"in", "out"}, {"hup"}}  OBVIOUS
      <4>. QED  BY <4>1
    <3>. QED  BY <3>1, <3>2 DEF Event
  <2>2. batch' \subseteq Event \cup {Bell}  BY <2>1 DEF Bell
  <2>. QED  BY <1>3, <2>2 DEF EpollWait
<1>4. CASE EndBatch  BY <1>4 DEF EndBatch
<1>5. CASE BellEvent  BY <1>5, SeqFacts DEF BellEvent
<1>6. CASE HupEvent
  <2> PICK e \in batch : /\ e.fd # None /\ "hup" \in e.evs
                         /\ batch' = batch \ {e}
                         /\ sess' = [fd |-> e.fd, conn |-> e.conn, out |-> FALSE]
    BY <1>6 DEF HupEvent
  <2>1. e \in Event  BY EventFacts
  <2>2. sess' \in Session  BY <2>1 DEF Event, Session
  <2>. QED  BY <1>6, <2>2 DEF HupEvent
<1>7. CASE ConnEvent
  <2> PICK e \in batch :
         /\ e.fd # None
         /\ batch' = batch \ {e}
         /\ IF sessions[e.fd] = None
            THEN UNCHANGED <<pc, sess>>
            ELSE /\ sess' = [fd |-> e.fd, conn |-> sessions[e.fd], out |-> "out" \in e.evs]
                 /\ pc' = IF "in" \in e.evs THEN "read" ELSE "out"
    BY <1>7 DEF ConnEvent
  <2>1. e \in Event  BY EventFacts
  <2>2. CASE sessions[e.fd] = None  BY <1>7, <2>2 DEF ConnEvent
  <2>3. CASE sessions[e.fd] # None
    <3>1. e.fd \in Fds /\ sessions[e.fd] \in Conns  BY <2>1, <2>3 DEF Event
    <3>2. sess' \in Session
      <4> DEFINE out == "out" \in e.evs
      <4>0. sess' = [fd |-> e.fd, conn |-> sessions[e.fd], out |-> out]  BY <2>3
      <4>1. out = TRUE \/ out = FALSE  OBVIOUS
      <4> HIDE DEF out
      <4>. QED  BY <3>1, <4>0, <4>1 DEF Session
    <3>. QED  BY <1>7, <2>3, <3>2 DEF ConnEvent
  <2>. QED  BY <2>2, <2>3
<1>8. CASE ReadRequest
  <2> DEFINE c == table[sess.fd]
  <2>1. sess.fd \in Fds /\ c \in Conns  BY <1>8 DEF ReadRequest, Session
  <2>2. [type |-> "SendData", fd |-> sess.fd, conn |-> c] \in Tasks  BY <2>1 DEF Tasks
  <2>3. tasks' \in Seq(Tasks)  BY <1>8, <2>2, SeqFacts DEF ReadRequest
  <2>4. requests' \in [Conns -> Nat]
    <3>1. requests[c] + 1 \in Nat  BY <2>1
    <3>. QED  BY <1>8, <2>1, <3>1 DEF ReadRequest
  <2>. QED  BY <1>8, <2>3, <2>4 DEF ReadRequest
<1>9. CASE ReadEagain  BY <1>9 DEF ReadEagain, AfterRead
<1>10. CASE ReadEnds  BY <1>10 DEF ReadEnds, AfterRead
<1>11. CASE ClearErase  BY <1>11 DEF ClearErase, Session
<1>12. CASE ClearClose
  <2> DEFINE c == table[sess.fd]
  <2>1. sess.fd \in Fds /\ sess.conn \in Conns /\ c \in Conns \cup {None}
    BY <1>12 DEF ClearClose, Session
  <2>2. CASE c = None  BY <1>12, <2>2 DEF ClearClose
  <2>3. CASE c # None
    <3>1. touched' \subseteq Conns \X Conns  BY <1>12, <2>1, <2>3 DEF ClearClose
    <3>. QED  BY <1>12, <2>1, <2>3, <3>1 DEF ClearClose
  <2>. QED  BY <2>2, <2>3
<1>13. ASSUME NEW next \in {"event", "deal"}, pc \in {"out", "send"},
              WriteTaken(next) \/ WriteEagain(next) \/ WriteFails(next)
       PROVE  TypeInv'
  <2>1. CASE WriteTaken(next)
    <3>1. sess.conn \in Conns /\ table[sess.fd] \in Conns
      BY <1>13, <2>1 DEF WriteTaken, Session
    <3>2. touched' \subseteq Conns \X Conns /\ unsent' \subseteq Conns
      BY <2>1, <3>1 DEF WriteTaken
    <3>. QED  BY <2>1, <3>2 DEF WriteTaken
  <2>2. CASE WriteEagain(next)  BY <2>2 DEF WriteEagain
  <2>3. CASE WriteFails(next)  BY <1>13, <2>3 DEF WriteFails
  <2>. QED  BY <1>13, <2>1, <2>2, <2>3
<1>14. CASE OutWrite \/ SendWrite  BY <1>13, <1>14 DEF OutWrite, SendWrite
<1>15. CASE OutEmpty  BY <1>15 DEF OutEmpty
<1>16. CASE RegisterTask
  <2>1. Head(q) \in Tasks /\ Tail(q) \in Seq(Tasks)  BY <1>16, SeqFacts DEF RegisterTask
  <2>2. Head(q).fd \in Fds /\ Head(q).conn \in Conns  BY <2>1 DEF Tasks
  <2>. QED  BY <1>16, <2>1, <2>2 DEF RegisterTask
<1>17. CASE SendTask
  <2>1. Head(q) \in Tasks /\ Tail(q) \in Seq(Tasks)  BY <1>17, SeqFacts DEF SendTask
  <2>2. Head(q).fd \in Fds  BY <2>1 DEF Tasks
  <2>3. CASE sessions[Head(q).fd] = None  BY <1>17, <2>1, <2>3 DEF SendTask
  <2>4. CASE sessions[Head(q).fd] # None
    <3>1. sessions[Head(q).fd] \in Conns  BY <2>2, <2>4
    <3>2. /\ sess' = [fd |-> Head(q).fd, conn |-> sessions[Head(q).fd], out |-> FALSE]
          /\ unsent' = unsent \cup {sessions[Head(q).fd]}
      BY <1>17, <2>4 DEF SendTask
    <3>3. sess' \in Session /\ unsent' \subseteq Conns
      BY <2>2, <3>1, <3>2 DEF Session
    <3>. QED  BY <1>17, <2>1, <2>4, <3>3 DEF SendTask
  <2>. QED  BY <2>3, <2>4
<1>18. CASE Dealt  BY <1>18 DEF Dealt
<1>19. CASE PeerGoes  BY <1>19 DEF PeerGoes
<1>20. CASE UNCHANGED vars  BY <1>20 DEF vars
<1>. QED
  BY <1>1, <1>2, <1>3, <1>4, <1>5, <1>6, <1>7, <1>8, <1>9, <1>10, <1>11, <1>12, <1>14,
     <1>15, <1>16, <1>17, <1>18, <1>19, <1>20 DEF Next, MainStep, IoStep

\* Every variable of FdReuse keeps its type.
THEOREM FdTypeCorrect == Spec => []TypeOK
<1>1. TypeInv => TypeOK  BY DEF TypeInv
<1>. QED  BY TypeInit, TypeStep, <1>1, PTL DEF Spec

-----------------------------------------------------------------------------
(* The numbers.                                                            *)

LEMMA QueueFacts ==
    TypeInv => /\ q \in Seq(Tasks) /\ tasks \in Seq(Tasks) /\ Queue \in Seq(Tasks)
               /\ \A i \in DOMAIN Queue : Queue[i] \in Tasks
BY DEF TypeInv, TypeOK, Queue

\* A push goes behind everything that waits.
LEMMA QueuePost ==
    ASSUME TypeInv, NEW x \in Tasks, tasks' = Append(tasks, x), q' = q
    PROVE  /\ DOMAIN Queue' = DOMAIN Queue \cup {Len(Queue) + 1}
           /\ Queue'[Len(Queue) + 1] = x /\ Len(Queue) \in Nat
           /\ \A i \in DOMAIN Queue :
                 i \in Nat /\ i < Len(Queue) + 1 /\ Queue'[i] = Queue[i]
<1>1. Queue' = Append(Queue, x)  BY QueueFacts DEF Queue
<1>. QED  BY <1>1, QueueFacts

\* What is handled is the oldest.
LEMMA QueueTake ==
    ASSUME TypeInv, q # <<>>, q' = Tail(q), tasks' = tasks
    PROVE  /\ 1 \in DOMAIN Queue /\ Queue[1] = Head(q) /\ Head(q) \in Tasks
           /\ \A i \in DOMAIN Queue' :
                 i \in Nat /\ 0 < i /\ i + 1 \in DOMAIN Queue /\ Queue'[i] = Queue[i + 1]
<1>1. Queue' = Tail(Queue) /\ Queue # <<>> /\ Head(Queue) = Head(q)
  BY QueueFacts DEF Queue
<1>. QED  BY <1>1, QueueFacts

\* The swap keeps the order.
LEMMA QueueSwap ==
    ASSUME TypeInv, q = <<>>, q' = tasks, tasks' = <<>> PROVE Queue' = Queue
BY QueueFacts DEF Queue

LEMMA NumbersInit == Init => NumbersInv
<1> SUFFICES ASSUME Init PROVE NumbersInv  OBVIOUS
<1> USE DEF Init
<1>1. Queue = <<>> /\ DOMAIN Queue = {}  BY DEF Queue
<1>2. \A c \in Conns : ~Known(c)  BY NoneAssumption DEF Known, NoSession
<1>3. \A fd \in Fds, c \in Conns : ~Pending(fd, c)
  BY <1>1, NoneAssumption DEF Pending, NoConn
<1>. QED
  BY <1>1, <1>2, <1>3 DEF NumbersInv, SessionsCurrent, OneNumber, KnownIsOld,
     PendingIsUnknown, RegisterIsLast, RepliesHome, SessionAtHand, SwappedIsLocal

\* A step that moves no number and no task, and makes the thread know no more than it did.
LEMMA QuietKeeps ==
    ASSUME NumbersInv, UNCHANGED <<table, state, accepted, sessions, watched>>,
           Queue' = Queue, \A c \in Conns : Known(c)' => Known(c),
           SessionAtHand', SwappedIsLocal'
    PROVE  NumbersInv'
<1> USE DEF NumbersInv
<1>1. SessionsCurrent' /\ OneNumber'  BY DEF SessionsCurrent, OneNumber
<1>2. KnownIsOld' /\ PendingIsUnknown'  BY DEF KnownIsOld, PendingIsUnknown, Pending
<1>3. RegisterIsLast' /\ RepliesHome'  BY DEF RegisterIsLast, RepliesHome
<1>. QED  BY <1>1, <1>2, <1>3

LEMMA QuietStep ==
    ASSUME TypeInv, NumbersInv,
           \/ EpollWait \/ EndBatch \/ BellEvent \/ HupEvent \/ ConnEvent
           \/ ReadEagain \/ ReadEnds \/ OutWrite \/ OutEmpty \/ SendWrite \/ Dealt
           \/ PeerGoes \/ UNCHANGED vars
    PROVE  NumbersInv'
<1> USE DEF mainVars, NumbersInv
<1>0. UNCHANGED <<table, state, accepted, sessions, watched>>
  BY DEF EpollWait, EndBatch, BellEvent, HupEvent, ConnEvent, ReadEagain, ReadEnds,
     OutWrite, OutEmpty, SendWrite, Dealt, PeerGoes, vars, WriteTaken, WriteEagain, WriteFails
<1>1. CASE EpollWait
  <2>1. Queue' = Queue /\ sess' = sess  BY <1>1 DEF EpollWait, Queue
  <2>2. ASSUME NEW c \in Conns, Known(c)' PROVE Known(c)
    <3>1. \A e \in batch' : e.conn = None \/ \E fd \in Fds : e.conn = watched[fd]
      BY <1>1 DEF EpollWait
    <3>. QED  BY <1>0, <2>1, <2>2, <3>1, NoneAssumption DEF Known
  <2>3. SessionAtHand' /\ SwappedIsLocal'
    BY <1>1 DEF EpollWait, SessionAtHand, SwappedIsLocal
  <2>. QED  BY <1>0, <2>1, <2>2, <2>3, QuietKeeps
<1>2. CASE BellEvent
  <2>1. Queue' = Queue /\ sess' = sess /\ batch' \subseteq batch
    BY <1>2, QueueSwap DEF BellEvent, SwappedIsLocal
  <2>2. \A c \in Conns : Known(c)' => Known(c)  BY <1>0, <2>1 DEF Known
  <2>3. SessionAtHand' /\ SwappedIsLocal'
    BY <1>2 DEF BellEvent, SessionAtHand, SwappedIsLocal
  <2>. QED  BY <1>0, <2>1, <2>2, <2>3, QuietKeeps
<1>3. CASE HupEvent
  <2> PICK e \in batch : /\ batch' = batch \ {e}
                         /\ sess' = [fd |-> e.fd, conn |-> e.conn, out |-> FALSE]
    BY <1>3 DEF HupEvent
  <2>1. Queue' = Queue  BY <1>3 DEF HupEvent, Queue
  <2>2. \A c \in Conns : Known(c)' => Known(c)  BY <1>0 DEF Known
  <2>3. SessionAtHand' /\ SwappedIsLocal'
    BY <1>3 DEF HupEvent, SessionAtHand, SwappedIsLocal
  <2>. QED  BY <1>0, <2>1, <2>2, <2>3, QuietKeeps
<1>4. CASE ConnEvent
  <2> PICK e \in batch :
         /\ e.fd # None
         /\ batch' = batch \ {e}
         /\ IF sessions[e.fd] = None
            THEN UNCHANGED <<pc, sess>>
            ELSE /\ sess' = [fd |-> e.fd, conn |-> sessions[e.fd], out |-> "out" \in e.evs]
                 /\ pc' = IF "in" \in e.evs THEN "read" ELSE "out"
    BY <1>4 DEF ConnEvent
  <2>0. e.fd \in Fds  BY EventFacts DEF Event
  <2>1. Queue' = Queue  BY <1>4 DEF ConnEvent, Queue
  <2>2. sess' = sess \/ (sess'.fd = e.fd /\ sess'.conn = sessions[e.fd])
    OBVIOUS
  <2>3. \A c \in Conns : Known(c)' => Known(c)  BY <1>0, <2>0, <2>2 DEF Known
  <2>4. SessionAtHand' /\ SwappedIsLocal'
    BY <1>0, <1>4 DEF ConnEvent, SessionAtHand, SwappedIsLocal
  <2>. QED  BY <1>0, <2>1, <2>3, <2>4, QuietKeeps
<1>5. CASE \/ EndBatch \/ ReadEagain \/ ReadEnds \/ OutWrite \/ OutEmpty \/ SendWrite
           \/ Dealt \/ PeerGoes \/ UNCHANGED vars
  <2>1. Queue' = Queue /\ sess' = sess /\ batch' = batch
    BY <1>5 DEF Queue, EndBatch, ReadEagain, ReadEnds, OutWrite, OutEmpty, SendWrite, Dealt,
       PeerGoes, vars, WriteTaken, WriteEagain, WriteFails
  <2>2. \A c \in Conns : Known(c)' => Known(c)  BY <1>0, <2>1 DEF Known
  <2>3. SessionAtHand' /\ SwappedIsLocal'
    BY <1>0, <1>5, <2>1 DEF SessionAtHand, SwappedIsLocal, EndBatch, ReadEagain, ReadEnds,
       OutWrite, OutEmpty, SendWrite, Dealt, PeerGoes, vars, WriteTaken, WriteEagain,
       WriteFails, AfterRead
  <2>. QED  BY <1>0, <2>1, <2>2, <2>3, QuietKeeps
<1>. QED  BY <1>1, <1>2, <1>3, <1>4, <1>5

LEMMA AcceptKeeps == TypeInv /\ NumbersInv /\ Accept => NumbersInv'
<1> SUFFICES ASSUME TypeInv, NumbersInv, Accept PROVE NumbersInv'  OBVIOUS
<1> USE DEF NumbersInv
<1> PICK fd \in Fds, c \in Conns :
         /\ table[fd] = None /\ state[c] = "new"
         /\ table' = [table EXCEPT ![fd] = c]
         /\ state' = [state EXCEPT ![c] = "open"]
         /\ accepted' = [fd |-> fd, conn |-> c]
  BY DEF Accept
<1>t. table \in [Fds -> Conns \cup {None}] /\ state \in [Conns -> {"new", "open", "closed"}]
  BY DEF TypeInv, TypeOK
<1>1. UNCHANGED <<pc, batch, q, tasks, sessions, watched, sess, back>> /\ accepted = NoConn
  BY DEF Accept
<1>2. Queue' = Queue  BY <1>1 DEF Queue
<1>3. \A d \in Conns : Known(d)' <=> Known(d)  BY <1>1 DEF Known
<1>4. /\ \A g \in Fds \ {fd} : table'[g] = table[g]
      /\ table'[fd] = c
      /\ \A d \in Conns \ {c} : state'[d] = state[d]
      /\ state'[c] = "open"
  BY <1>t
<1>5. ASSUME NEW i \in DOMAIN Queue, Queue[i].type = "RegisterConn"
      PROVE  Queue[i].fd # fd /\ Queue[i].conn # c
  <2>1. /\ Queue[i] = [type |-> "RegisterConn", fd |-> Queue[i].fd, conn |-> Queue[i].conn]
        /\ Queue[i].fd \in Fds /\ Queue[i].conn \in Conns
    BY <1>5, QueueFacts DEF Tasks
  <2>2. table[Queue[i].fd] = Queue[i].conn
    BY <2>1 DEF PendingIsUnknown, Pending
  <2>3. Queue[i].conn # None  BY <2>1, NoneAssumption
  <2>. QED  BY <2>1, <2>2, <2>3 DEF OneNumber
<1>6. SessionsCurrent'
  BY <1>1, <1>4 DEF SessionsCurrent
<1>7. OneNumber'
  BY <1>t, <1>4 DEF OneNumber
<1>8. KnownIsOld'  BY <1>3, <1>4 DEF KnownIsOld
<1>9. PendingIsUnknown'
  <2> SUFFICES ASSUME NEW g \in Fds, NEW d \in Conns, Pending(g, d)'
               PROVE  table'[g] = d /\ ~Known(d)
    BY <1>3 DEF PendingIsUnknown
  <2>1. CASE accepted' = [fd |-> g, conn |-> d]
    <3>1. g = fd /\ d = c  BY <2>1
    <3>2. ~Known(c)  BY DEF KnownIsOld
    <3>. QED  BY <1>4, <3>1, <3>2
  <2>2. CASE accepted' # [fd |-> g, conn |-> d]
    <3>1. Pending(g, d)  BY <1>2, <2>2 DEF Pending
    <3>2. table[g] = d /\ ~Known(d)  BY <3>1 DEF PendingIsUnknown
    <3>3. g # fd  BY <3>2, NoneAssumption
    <3>. QED  BY <1>4, <3>2, <3>3
  <2>. QED  BY <2>1, <2>2
<1>10. RegisterIsLast'  BY <1>2, <1>5 DEF RegisterIsLast
<1>11. RepliesHome'  BY <1>1, <1>2 DEF RepliesHome
<1>12. SessionAtHand' /\ SwappedIsLocal'  BY <1>1 DEF SessionAtHand, SwappedIsLocal
<1>. QED  BY <1>6, <1>7, <1>8, <1>9, <1>10, <1>11, <1>12

LEMMA CatchKeeps == TypeInv /\ NumbersInv /\ CatchNewConn => NumbersInv'
<1> SUFFICES ASSUME TypeInv, NumbersInv, CatchNewConn PROVE NumbersInv'  OBVIOUS
<1> USE DEF NumbersInv
<1> DEFINE new == [type |-> "RegisterConn", fd |-> accepted.fd, conn |-> accepted.conn]
           n == Len(Queue) + 1
<1>1. /\ UNCHANGED <<table, state, pc, batch, q, sessions, watched, sess, back>>
      /\ accepted # NoConn /\ accepted' = NoConn /\ tasks' = Append(tasks, new)
  BY DEF CatchNewConn
<1>2. accepted \in [fd : Fds, conn : Conns]  BY <1>1 DEF TypeInv, TypeOK
<1>3. new \in Tasks  BY <1>2 DEF Tasks
<1>4. /\ DOMAIN Queue' = DOMAIN Queue \cup {n} /\ Queue'[n] = new /\ n \in Nat
      /\ \A i \in DOMAIN Queue : i \in Nat /\ i < n /\ Queue'[i] = Queue[i]
  <2> HIDE DEF new
  <2>1. tasks' = Append(tasks, new) /\ q' = q  BY <1>1
  <2>2. /\ DOMAIN Queue' = DOMAIN Queue \cup {Len(Queue) + 1}
        /\ Queue'[Len(Queue) + 1] = new /\ Len(Queue) \in Nat
        /\ \A i \in DOMAIN Queue :
              i \in Nat /\ i < Len(Queue) + 1 /\ Queue'[i] = Queue[i]
    BY <1>3, <2>1, QueuePost
  <2>. QED  BY <2>2
<1>5. \A d \in Conns : Known(d)' <=> Known(d)  BY <1>1 DEF Known
<1>6. SessionsCurrent' /\ OneNumber' /\ KnownIsOld' /\ SessionAtHand' /\ SwappedIsLocal'
  BY <1>1, <1>5 DEF SessionsCurrent, OneNumber, KnownIsOld, SessionAtHand, SwappedIsLocal
<1>7. PendingIsUnknown'
  <2> SUFFICES ASSUME NEW g \in Fds, NEW d \in Conns, Pending(g, d)' PROVE Pending(g, d)
    BY <1>1, <1>5 DEF PendingIsUnknown
  <2>1. accepted' # [fd |-> g, conn |-> d]  BY <1>1, NoneAssumption DEF NoConn
  <2> PICK i \in DOMAIN Queue' : Queue'[i] = [type |-> "RegisterConn", fd |-> g, conn |-> d]
    BY <2>1 DEF Pending
  <2>2. CASE i \in DOMAIN Queue  BY <1>4, <2>2 DEF Pending
  <2>3. CASE i = n
    <3>1. accepted.fd = g /\ accepted.conn = d  BY <1>4, <2>3
    <3>2. accepted = [fd |-> g, conn |-> d]  BY <1>2, <3>1
    <3>. QED  BY <3>2 DEF Pending
  <2>. QED  BY <1>4, <2>2, <2>3
<1> HIDE DEF n
<1>8. RegisterIsLast'
  <2> SUFFICES ASSUME NEW i \in DOMAIN Queue', NEW j \in DOMAIN Queue', i < j,
                      Queue'[i].type = "RegisterConn"
               PROVE  Queue'[j].fd # Queue'[i].fd
    BY <1>1 DEF RegisterIsLast
  <2>1. i \in DOMAIN Queue  BY <1>4
  <2>2. CASE j \in DOMAIN Queue  BY <1>4, <2>1, <2>2 DEF RegisterIsLast
  <2>3. CASE j = n  BY <1>1, <1>4, <2>1, <2>3 DEF RegisterIsLast
  <2>. QED  BY <1>4, <2>2, <2>3
<1>9. RepliesHome'  BY <1>1, <1>4 DEF RepliesHome
<1>. QED  BY <1>6, <1>7, <1>8, <1>9

LEMMA ReadKeeps == TypeInv /\ NumbersInv /\ ReadRequest => NumbersInv'
<1> SUFFICES ASSUME TypeInv, NumbersInv, ReadRequest PROVE NumbersInv'  OBVIOUS
<1> USE DEF NumbersInv
<1> DEFINE c == table[sess.fd]
           new == [type |-> "SendData", fd |-> sess.fd, conn |-> c]
           n == Len(Queue) + 1
<1>1. /\ UNCHANGED <<table, state, accepted, pc, batch, q, sessions, watched, sess, back>>
      /\ pc = "read" /\ c # None /\ tasks' = Append(tasks, new)
  BY DEF ReadRequest
<1>2. sess.fd \in Fds /\ sess.conn \in Conns /\ c \in Conns
  BY <1>1 DEF TypeInv, TypeOK, Session
<1>3. sessions[sess.fd] = c
  <2>1. sessions[sess.fd] = sess.conn  BY <1>1 DEF SessionAtHand
  <2>. QED  BY <1>2, <2>1, NoneAssumption DEF SessionsCurrent
<1>4. new \in Tasks  BY <1>2 DEF Tasks
<1>5. /\ DOMAIN Queue' = DOMAIN Queue \cup {n} /\ Queue'[n] = new /\ n \in Nat
      /\ \A i \in DOMAIN Queue : i \in Nat /\ i < n /\ Queue'[i] = Queue[i]
  <2> HIDE DEF new
  <2>1. tasks' = Append(tasks, new) /\ q' = q  BY <1>1
  <2>2. /\ DOMAIN Queue' = DOMAIN Queue \cup {Len(Queue) + 1}
        /\ Queue'[Len(Queue) + 1] = new /\ Len(Queue) \in Nat
        /\ \A i \in DOMAIN Queue :
              i \in Nat /\ i < Len(Queue) + 1 /\ Queue'[i] = Queue[i]
    BY <1>4, <2>1, QueuePost
  <2>. QED  BY <2>2
<1>6. \A d \in Conns : Known(d)' <=> Known(d)  BY <1>1 DEF Known
<1>7. SessionsCurrent' /\ OneNumber' /\ KnownIsOld' /\ SessionAtHand' /\ SwappedIsLocal'
  BY <1>1, <1>6 DEF SessionsCurrent, OneNumber, KnownIsOld, SessionAtHand, SwappedIsLocal
<1>8. PendingIsUnknown'
  BY <1>1, <1>5, <1>6 DEF PendingIsUnknown, Pending
<1>9. ASSUME NEW i \in DOMAIN Queue, Queue[i].type = "RegisterConn"
      PROVE  Queue[i].fd # sess.fd
  <2> SUFFICES ASSUME Queue[i].fd = sess.fd PROVE FALSE  OBVIOUS
  <2>1. /\ Queue[i] = [type |-> "RegisterConn", fd |-> sess.fd, conn |-> Queue[i].conn]
        /\ Queue[i].conn \in Conns
    BY <1>9, QueueFacts DEF Tasks
  <2>2. Pending(sess.fd, Queue[i].conn)  BY <2>1 DEF Pending
  <2>3. c = Queue[i].conn /\ ~Known(c)  BY <1>2, <2>1, <2>2 DEF PendingIsUnknown
  <2>. QED  BY <1>2, <1>3, <2>3 DEF Known
<1> HIDE DEF n, c
<1>10. RegisterIsLast'
  <2>1. ASSUME NEW i \in DOMAIN Queue', NEW j \in DOMAIN Queue', i < j,
               Queue'[i].type = "RegisterConn"
        PROVE  Queue'[j].fd # Queue'[i].fd
    <3>1. i \in DOMAIN Queue  BY <1>5, <2>1
    <3>2. CASE j \in DOMAIN Queue  BY <1>5, <2>1, <3>1, <3>2 DEF RegisterIsLast
    <3>3. CASE j = n  BY <1>5, <1>9, <2>1, <3>1, <3>3
    <3>. QED  BY <1>5, <3>2, <3>3
  <2>2. accepted # NoConn => \A i \in DOMAIN Queue' :
           Queue'[i].type = "RegisterConn" => Queue'[i].fd # accepted.fd
    BY <1>5 DEF RegisterIsLast
  <2>. QED  BY <1>1, <2>1, <2>2 DEF RegisterIsLast
<1>11. RepliesHome'  BY <1>1, <1>3, <1>5 DEF RepliesHome
<1>. QED  BY <1>7, <1>8, <1>10, <1>11

LEMMA TailKeeps ==
    ASSUME TypeInv, NumbersInv, q # <<>>, q' = Tail(q), UNCHANGED <<tasks, accepted>>
    PROVE  /\ RegisterIsLast'
           /\ \A fd \in Fds, c \in Conns : Pending(fd, c)' => Pending(fd, c)
           /\ \A i \in DOMAIN Queue' : \E j \in DOMAIN Queue : Queue'[i] = Queue[j]
           /\ Head(q).type = "RegisterConn" =>
                 /\ Pending(Head(q).fd, Head(q).conn)
                 /\ \A i \in DOMAIN Queue' : Queue'[i].fd # Head(q).fd
           /\ Head(q).fd \in Fds /\ Head(q).conn \in Conns
<1> USE DEF NumbersInv
<1>1. /\ 1 \in DOMAIN Queue /\ Queue[1] = Head(q) /\ Head(q) \in Tasks
      /\ \A i \in DOMAIN Queue' :
            i \in Nat /\ 0 < i /\ i + 1 \in DOMAIN Queue /\ Queue'[i] = Queue[i + 1]
  BY QueueTake
<1>2. RegisterIsLast'
  <2>1. \A i, j \in DOMAIN Queue' : i < j => i + 1 < j + 1  BY <1>1
  <2>. QED  BY <1>1, <2>1 DEF RegisterIsLast
<1>3. \A fd \in Fds, c \in Conns : Pending(fd, c)' => Pending(fd, c)
  BY <1>1 DEF Pending
<1>4. ASSUME Head(q).type = "RegisterConn"
      PROVE  /\ Pending(Head(q).fd, Head(q).conn)
             /\ \A i \in DOMAIN Queue' : Queue'[i].fd # Head(q).fd
  <2>1. Head(q) = [type |-> "RegisterConn", fd |-> Head(q).fd, conn |-> Head(q).conn]
    BY <1>1, <1>4 DEF Tasks
  <2>2. Pending(Head(q).fd, Head(q).conn)  BY <1>1, <2>1 DEF Pending
  <2>3. ASSUME NEW i \in DOMAIN Queue' PROVE Queue'[i].fd # Head(q).fd
    <3>1. 1 < i + 1 /\ i + 1 \in DOMAIN Queue  BY <1>1
    <3>. QED  BY <1>1, <1>4, <3>1 DEF RegisterIsLast
  <2>. QED  BY <2>2, <2>3
<1>5. Head(q).fd \in Fds /\ Head(q).conn \in Conns  BY <1>1 DEF Tasks
<1>. QED  BY <1>1, <1>2, <1>3, <1>4, <1>5

LEMMA SendTaskKeeps == TypeInv /\ NumbersInv /\ SendTask => NumbersInv'
<1> SUFFICES ASSUME TypeInv, NumbersInv, SendTask PROVE NumbersInv'  OBVIOUS
<1> USE DEF NumbersInv, mainVars
<1> DEFINE fd == Head(q).fd
<1>1. /\ pc = "deal" /\ q # <<>> /\ q' = Tail(q)
      /\ UNCHANGED <<table, state, accepted, tasks, batch, sessions, watched, back>>
      /\ \/ UNCHANGED <<pc, sess>>
         \/ /\ sess'.fd = fd /\ sess'.conn = sessions[fd] /\ pc' = "send"
  BY DEF SendTask
<1>2. /\ RegisterIsLast' /\ fd \in Fds
      /\ \A g \in Fds, c \in Conns : Pending(g, c)' => Pending(g, c)
      /\ \A i \in DOMAIN Queue' : \E j \in DOMAIN Queue : Queue'[i] = Queue[j]
  BY <1>1, TailKeeps
<1>3. \A c \in Conns : Known(c)' => Known(c)  BY <1>1, <1>2 DEF Known
<1>4. SessionsCurrent' /\ OneNumber' /\ KnownIsOld' /\ PendingIsUnknown'
  BY <1>1, <1>2, <1>3 DEF SessionsCurrent, OneNumber, KnownIsOld, PendingIsUnknown
<1>5. RepliesHome'  BY <1>1, <1>2 DEF RepliesHome
<1>6. SessionAtHand' /\ SwappedIsLocal'
  BY <1>1 DEF SessionAtHand, SwappedIsLocal
<1>. QED  BY <1>2, <1>4, <1>5, <1>6

LEMMA RegisterKeeps == TypeInv /\ NumbersInv /\ RegisterTask => NumbersInv'
<1> SUFFICES ASSUME TypeInv, NumbersInv, RegisterTask PROVE NumbersInv'  OBVIOUS
<1> USE DEF NumbersInv, mainVars
<1> DEFINE fd == Head(q).fd
           c == Head(q).conn
<1>1. /\ pc = "deal" /\ q # <<>> /\ q' = Tail(q) /\ Head(q).type = "RegisterConn"
      /\ UNCHANGED <<table, state, accepted, tasks, batch, pc, sess, back>>
      /\ sessions' = [sessions EXCEPT ![fd] = c]
      /\ watched' = [watched EXCEPT ![fd] = table[fd]]
  BY DEF RegisterTask
<1>2. /\ RegisterIsLast' /\ fd \in Fds /\ c \in Conns
      /\ \A g \in Fds, d \in Conns : Pending(g, d)' => Pending(g, d)
      /\ \A i \in DOMAIN Queue' : \E j \in DOMAIN Queue : Queue'[i] = Queue[j]
      /\ Pending(fd, c)
      /\ \A i \in DOMAIN Queue' : Queue'[i].fd # fd
  BY <1>1, TailKeeps
<1> HIDE DEF fd, c
<1>3. table[fd] = c /\ ~Known(c)  BY <1>2 DEF PendingIsUnknown
<1>4. /\ \A g \in Fds \ {fd} : sessions'[g] = sessions[g] /\ watched'[g] = watched[g]
      /\ sessions'[fd] = c /\ watched'[fd] = c
  BY <1>1, <1>2, <1>3 DEF TypeInv, TypeOK
<1>5. \A d \in Conns : Known(d)' => Known(d) \/ d = c
  BY <1>1, <1>4 DEF Known
<1>6. SessionsCurrent' /\ OneNumber'
  BY <1>1, <1>3, <1>4 DEF SessionsCurrent, OneNumber
<1>7. KnownIsOld'
  <2>1. state[c] # "new"  BY <1>2, <1>3, NoneAssumption DEF OneNumber
  <2>. QED  BY <1>1, <1>5, <2>1 DEF KnownIsOld
<1>8. PendingIsUnknown'
  <2> SUFFICES ASSUME NEW g \in Fds, NEW d \in Conns, Pending(g, d)'
               PROVE  table[g] = d /\ ~Known(d)'
    BY <1>1 DEF PendingIsUnknown
  <2>1. table[g] = d /\ ~Known(d)  BY <1>2 DEF PendingIsUnknown
  <2>2. d # c
    <3> SUFFICES ASSUME d = c PROVE FALSE  OBVIOUS
    <3>1. g = fd  BY <1>2, <1>3, <2>1, NoneAssumption DEF OneNumber
    <3>2. accepted # [fd |-> g, conn |-> d]
      <4>1. \E i \in DOMAIN Queue : Queue[i].type = "RegisterConn" /\ Queue[i].fd = fd
        BY <1>1, QueueTake DEF fd
      <4>. QED  BY <3>1, <4>1, NoneAssumption DEF RegisterIsLast, NoConn
    <3>3. \E i \in DOMAIN Queue' : Queue'[i] = [type |-> "RegisterConn", fd |-> g, conn |-> d]
      BY <1>1, <3>2 DEF Pending
    <3>. QED  BY <1>2, <3>1, <3>3
  <2>. QED  BY <1>5, <2>1, <2>2
<1>9. RepliesHome'
  <2> SUFFICES ASSUME NEW i \in DOMAIN Queue', Queue'[i].type = "SendData"
               PROVE  sessions'[Queue'[i].fd] \in {None, Queue'[i].conn}
    BY DEF RepliesHome
  <2>1. Queue'[i].fd # fd  BY <1>2
  <2> PICK j \in DOMAIN Queue : Queue'[i] = Queue[j]  BY <1>2
  <2>2. Queue[j].fd \in Fds  BY QueueFacts DEF Tasks
  <2>. QED  BY <1>4, <2>1, <2>2 DEF RepliesHome
<1>10. SessionAtHand' /\ SwappedIsLocal'
  BY <1>1 DEF SessionAtHand, SwappedIsLocal
<1>. QED  BY <1>2, <1>6, <1>7, <1>8, <1>9, <1>10

LEMMA EraseKeeps == TypeInv /\ NumbersInv /\ ClearErase => NumbersInv'
<1> SUFFICES ASSUME TypeInv, NumbersInv, ClearErase PROVE NumbersInv'  OBVIOUS
<1> USE DEF NumbersInv, mainVars
<1>1. /\ pc = "clear" /\ pc' = "close"
      /\ sessions' = [sessions EXCEPT ![sess.fd] = None]
      /\ watched' = [watched EXCEPT ![sess.fd] = None]
      /\ UNCHANGED <<table, state, accepted, tasks, batch, q, sess, back>>
  BY DEF ClearErase
<1>2. sess.fd \in Fds  BY <1>1 DEF TypeInv, Session
<1>3. /\ \A g \in Fds \ {sess.fd} : sessions'[g] = sessions[g] /\ watched'[g] = watched[g]
      /\ sessions'[sess.fd] = None /\ watched'[sess.fd] = None
  BY <1>1, <1>2 DEF TypeInv, TypeOK
<1>4. Queue' = Queue  BY <1>1 DEF Queue
<1>5. \A d \in Conns : Known(d)' => Known(d)  BY <1>1, <1>3, NoneAssumption DEF Known
<1>6. SessionsCurrent' /\ OneNumber' /\ KnownIsOld' /\ PendingIsUnknown' /\ RegisterIsLast'
  BY <1>1, <1>3, <1>4, <1>5 DEF SessionsCurrent, OneNumber, KnownIsOld, PendingIsUnknown,
     Pending, RegisterIsLast
<1>7. RepliesHome'
  <2>1. \A i \in DOMAIN Queue : Queue[i].fd \in Fds  BY QueueFacts DEF Tasks
  <2>. QED  BY <1>3, <1>4, <2>1 DEF RepliesHome
<1>8. SessionAtHand' /\ SwappedIsLocal'
  BY <1>1, <1>3 DEF SessionAtHand, SwappedIsLocal
<1>. QED  BY <1>6, <1>7, <1>8

\* close strikes the connection whose Session is at hand, or there is a pair in touched
\* that should not be.
LEMMA CloseKeeps ==
    TypeInv /\ NumbersInv /\ ClearClose /\ OldSessionTouchesNoOther' => NumbersInv'
<1> SUFFICES ASSUME TypeInv, NumbersInv, ClearClose, OldSessionTouchesNoOther'
             PROVE  NumbersInv'
  OBVIOUS
<1> USE DEF NumbersInv, mainVars
<1> DEFINE c == table[sess.fd]
<1>1. /\ pc = "close" /\ pc' = back
      /\ UNCHANGED <<accepted, tasks, batch, q, sessions, watched, sess, back>>
  BY DEF ClearClose
<1>2. sess.fd \in Fds /\ sess.conn \in Conns /\ back \in {"event", "out", "deal"}
  BY <1>1 DEF TypeInv, Session
<1>3. Queue' = Queue  BY <1>1 DEF Queue
<1>4. \A d \in Conns : Known(d)' <=> Known(d)  BY <1>1 DEF Known
<1>5. SessionAtHand' /\ SwappedIsLocal' /\ RegisterIsLast' /\ RepliesHome'
  BY <1>1, <1>2, <1>3 DEF SessionAtHand, SwappedIsLocal, RegisterIsLast, RepliesHome
<1>6. CASE c = None
  <2>1. UNCHANGED <<table, state>>  BY <1>6 DEF ClearClose
  <2>. QED
    BY <1>1, <1>3, <1>4, <1>5, <2>1 DEF SessionsCurrent, OneNumber, KnownIsOld,
       PendingIsUnknown, Pending
<1>7. CASE c # None
  <2>1. /\ table' = [table EXCEPT ![sess.fd] = None]
        /\ state' = [state EXCEPT ![c] = "closed"]
        /\ touched' = touched \cup {<<sess.conn, c>>}
    BY <1>7 DEF ClearClose
  <2>2. c = sess.conn
    <3>1. <<sess.conn, c>> \in touched'  BY <2>1
    <3>. QED  BY <3>1 DEF OldSessionTouchesNoOther
  <2> HIDE DEF c
  <2>3. /\ \A g \in Fds \ {sess.fd} : table'[g] = table[g]
        /\ table'[sess.fd] = None
        /\ \A d \in Conns : state'[d] = IF d = c THEN "closed" ELSE state[d]
    BY <1>2, <2>1, <2>2 DEF TypeInv, TypeOK
  <2>4. SessionsCurrent'
    BY <1>1, <2>3 DEF SessionsCurrent, SessionAtHand
  <2>5. OneNumber'
    <3>1. table \in [Fds -> Conns \cup {None}]  BY DEF TypeInv, TypeOK
    <3>. QED  BY <2>3, <3>1 DEF OneNumber
  <2>6. KnownIsOld'  BY <1>4, <2>3 DEF KnownIsOld
  <2>7. PendingIsUnknown'
    <3> SUFFICES ASSUME NEW g \in Fds, NEW d \in Conns, Pending(g, d)
                 PROVE  table'[g] = d /\ ~Known(d)
      BY <1>1, <1>3, <1>4 DEF PendingIsUnknown, Pending
    <3>1. table[g] = d /\ ~Known(d)  BY DEF PendingIsUnknown
    <3>2. Known(c)  BY <2>2 DEF Known
    <3>3. g # sess.fd  BY <3>1, <3>2 DEF c
    <3>. QED  BY <2>3, <3>1, <3>3
  <2>. QED  BY <1>5, <2>4, <2>5, <2>6, <2>7
<1>. QED  BY <1>6, <1>7

\* While nothing was done to one connection for another, the numbers are in order.
LEMMA NumbersInvHolds == Spec => [](OldSessionTouchesNoOther => NumbersInv)
<1>1. TypeInv /\ (OldSessionTouchesNoOther => NumbersInv) /\ [Next]_vars
        => (OldSessionTouchesNoOther => NumbersInv)'
  <2> SUFFICES ASSUME TypeInv, OldSessionTouchesNoOther => NumbersInv, [Next]_vars,
                      OldSessionTouchesNoOther'
               PROVE  NumbersInv'
    OBVIOUS
  <2>1. touched \subseteq touched'
    BY DEF Next, MainStep, IoStep, Accept, CatchNewConn, EpollWait, EndBatch, BellEvent,
       HupEvent, ConnEvent, ReadRequest, ReadEagain, ReadEnds, ClearErase, ClearClose,
       OutWrite, OutEmpty, SendWrite, WriteTaken, WriteEagain, WriteFails, RegisterTask,
       SendTask, Dealt, PeerGoes, vars
  <2>2. NumbersInv  BY <2>1 DEF OldSessionTouchesNoOther
  <2>. QED
    BY <2>2, QuietStep, AcceptKeeps, CatchKeeps, ReadKeeps, SendTaskKeeps, RegisterKeeps,
       EraseKeeps, CloseKeeps DEF Next, MainStep, IoStep
<1>2. Init => (OldSessionTouchesNoOther => NumbersInv)  BY NumbersInit
<1>3. Spec => []TypeInv  BY TypeInit, TypeStep, PTL DEF Spec
<1>. QED  BY <1>1, <1>2, <1>3, PTL DEF Spec

\* A number in _sessions leads to the Session of the connection that has the number.
THEOREM SessionsAreCurrent == Spec => []SessionsMatchTable
<1>1. TypeOK /\ (OldSessionTouchesNoOther => NumbersInv) => SessionsMatchTable
  BY DEF NumbersInv, SessionsCurrent, SessionsMatchTable
<1>. QED  BY FdTypeCorrect, NumbersInvHolds, <1>1, PTL

\* A reply is queued for the connection whose request it answers, or dropped.
THEOREM RepliesReachTheirOwn == Spec => []RepliesStayHome
<1>1. TypeOK /\ (OldSessionTouchesNoOther => NumbersInv) => RepliesStayHome
  <2> SUFFICES ASSUME TypeOK, NumbersInv, q # <<>>, Head(q).type = "SendData"
               PROVE  sessions[Head(q).fd] \in {None, Head(q).conn}
    BY DEF RepliesStayHome
  <2>1. q \in Seq(Tasks) /\ tasks \in Seq(Tasks)  BY DEF TypeOK
  <2>2. 1 \in DOMAIN Queue /\ Queue[1] = Head(q)  BY <2>1 DEF Queue
  <2>. QED  BY <2>2 DEF NumbersInv, RepliesHome
<1>. QED  BY FdTypeCorrect, NumbersInvHolds, <1>1, PTL
=============================================================================
