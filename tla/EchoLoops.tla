------------------------------- MODULE EchoLoops -------------------------------
(***************************************************************************)
(* The echo servers without send queues of chapters 19 to 21, which differ *)
(* in how they wait and in how they go through what they are told:         *)
(*   blocking  19_Select模型/阻塞模式select 模型TCP服务器.c                *)
(*   select    19_Select模型/非阻塞+select模型.c                           *)
(*   poll      20_Poll模型/poll_echo_server.c                              *)
(*   epoll     21_Epoll模型/epoll_echo_server.c                            *)
(*   epoll_et  21_Epoll模型/epoll_echo_server_et.c                         *)
(* All write back at once what they have read.  blocking waits until the   *)
(* socket takes it, the others drop what it does not take.  The clients    *)
(* and their connections are Clients.tla.                                  *)
(*                                                                         *)
(* A connection stands for its descriptor and its slot: a number that is   *)
(* closed can come back only with the next accept, and no event of the     *)
(* old connection is left then.                                            *)
(***************************************************************************)
EXTENDS Clients, FiniteSets

CONSTANTS
    Programs,     \* the programs at issue
    MaxClients,   \* slots for clients: MAX_CLIENTS of select, one less of poll
    FdLimits      \* how many connections the process may hold open (RLIMIT_NOFILE)

LISTEN == "listen"   \* the listening socket, among the connections
NONE   == "none"     \* no connection at hand

ASSUME LoopsAssumption ==
    /\ Programs \subseteq {"blocking", "select", "poll", "epoll", "epoll_et"}
    /\ MaxClients \in Nat /\ FdLimits \subseteq Nat
    /\ {LISTEN, NONE} \cap Conns = {}

VARIABLES
    program,   \* the program that runs
    limit,     \* its limit of open connections
    alive,     \* not killed by SIGPIPE
    edge,      \* epoll's ready list
    pc,        \* where main stands
    batch,     \* what the last wait has reported and main has not yet come to
    hups,      \* those of it with POLLERR or POLLHUP
    cur,       \* client_fd, or sd
    buf,       \* what is read and not yet written of buffer
    slotless,  \* blocking: the connections that are in no slot
    lossy,     \* history: those that a full socket, or an end, has cost bytes
    dropped    \* history: what has lost its event with epoll, and no other reported since:
               \* connections, or the listening socket after a failing accept

serverVars == <<program, limit, alive, edge, pc, batch, hups, cur, buf, slotless, lossy,
                dropped>>
vars == <<netVars, serverVars>>

Init ==
    /\ NetInit
    /\ program \in Programs /\ limit \in FdLimits
    /\ alive = TRUE /\ edge = {} /\ pc = "wait" /\ batch = {} /\ hups = {}
    /\ cur = NONE /\ buf = <<>> /\ slotless = {} /\ lossy = {} /\ dropped = {}

\* select and poll: level-triggered, with a slot for each client.
Level == program \in {"blocking", "select", "poll"}

Held     == {c \in Conns : conn[c] = "open"}
Opened   == Held \ slotless
Ready(c) == c \in Opened /\ HasInput(c)

-----------------------------------------------------------------------------
(* Waiting.                                                                *)

\* select and poll: whatever is readable.
PollWait ==
    /\ pc = "wait" /\ Level
    /\ batch' = {c \in Conns : Ready(c)} \cup (IF Pending = {} THEN {} ELSE {LISTEN})
    /\ batch' # {}
    /\ hups' = IF program # "poll" THEN {}
               ELSE {c \in batch' \ {LISTEN} : peer[c] \in {"reset", "abort"}}
    /\ pc' = "event"
    /\ UNCHANGED <<netVars, program, limit, alive, edge, cur, buf, slotless, lossy,
                   dropped>>

\* epoll_wait: what is readable of the ready list, and is off the list then.  The
\* listening socket is edge-triggered in epoll_et only.
EpollWait ==
    /\ pc = "wait" /\ ~Level
    /\ batch' = {c \in edge \ {LISTEN} : Ready(c)}
                \cup (IF Pending # {} /\ (program = "epoll" \/ LISTEN \in edge)
                      THEN {LISTEN} ELSE {})
    /\ batch' # {}
    /\ edge' = {}
    /\ dropped' = dropped \ batch'
    /\ pc' = "event"
    /\ UNCHANGED <<netVars, program, limit, alive, hups, cur, buf, slotless, lossy>>

-----------------------------------------------------------------------------
(* The loop over what was reported.  select and poll come to the listening *)
(* socket first, epoll in any order.                                       *)

ListenEvent ==
    /\ pc = "event" /\ LISTEN \in batch
    /\ batch' = batch \ {LISTEN}
    /\ pc' = "accept"
    /\ UNCHANGED <<netVars, program, limit, alive, edge, hups, cur, buf, slotless, lossy, dropped>>

IsNext(c) == c \in batch \ {LISTEN} /\ (Level => LISTEN \notin batch)

Close(c) ==
    /\ conn' = [conn EXCEPT ![c] = "closed"]
    /\ edge' = edge \ {c}

\* poll: an error or a hang-up closes the connection, with unread requests.
HupEvent(c) ==
    /\ pc = "event" /\ IsNext(c) /\ c \in hups
    /\ Close(c)
    /\ batch' = batch \ {c} /\ hups' = hups \ {c}
    /\ UNCHANGED <<clientVars, rd, out, program, limit, alive, pc, cur, buf, slotless, lossy,
                   dropped>>

ConnEvent(c) ==
    /\ pc = "event" /\ IsNext(c) /\ c \notin hups
    /\ cur' = c
    /\ batch' = batch \ {c}
    /\ pc' = "read"
    /\ UNCHANGED <<netVars, program, limit, alive, edge, hups, buf, slotless, lossy, dropped>>

BatchEnd ==
    /\ pc = "event" /\ batch = {}
    /\ pc' = "wait"
    /\ UNCHANGED <<netVars, program, limit, alive, edge, batch, hups, cur, buf, slotless, lossy,
                   dropped>>

\* On to the rest of the batch.
Leave == pc' = "event" /\ cur' = NONE

-----------------------------------------------------------------------------
(* accept, until there is nothing left, or it fails.                       *)

\* Without a number accept fails with EMFILE.
NumberFree == Cardinality(Held) < limit

\* Mutant: one connection for each event.
EpollAcceptOnce(c) ==
    /\ pc = "accept" /\ ~Level /\ c \in Pending /\ NumberFree
    /\ conn' = [conn EXCEPT ![c] = "open"]
    /\ edge' = IF HasInput(c) THEN edge \cup {c} ELSE edge
    /\ pc' = "event"
    /\ UNCHANGED <<clientVars, rd, out, program, limit, alive, batch, hups, cur, buf, slotless,
                   lossy, dropped>>

\* epoll ADD reports what has arrived before.
EpollAccept(c) ==
    /\ pc = "accept" /\ ~Level /\ c \in Pending /\ NumberFree
    /\ conn' = [conn EXCEPT ![c] = "open"]
    /\ edge' = IF HasInput(c) THEN edge \cup {c} ELSE edge
    /\ UNCHANGED <<clientVars, rd, out, program, limit, alive, pc, batch, hups, cur, buf, slotless,
                   lossy, dropped>>

\* A free slot is taken, or the connection closed.
PollAccept(c) ==
    /\ pc = "accept" /\ program \in {"select", "poll"} /\ c \in Pending /\ NumberFree
    /\ conn' = [conn EXCEPT ![c] =
                   IF Cardinality(Opened) < MaxClients THEN "open" ELSE "refused"]
    /\ UNCHANGED <<clientVars, rd, out, serverVars>>

\* One connection for each select.  Without a free slot it stays open, and is forgotten.
BlockingAccept(c) ==
    /\ pc = "accept" /\ program = "blocking" /\ c \in Pending /\ NumberFree
    /\ conn' = [conn EXCEPT ![c] = "open"]
    /\ slotless' = IF Cardinality(Opened) < MaxClients THEN slotless ELSE slotless \cup {c}
    /\ pc' = "event"
    /\ UNCHANGED <<clientVars, rd, out, program, limit, alive, edge, batch, hups, cur, buf, lossy,
                   dropped>>

\* Every error ends the loop: EAGAIN, EMFILE, and at any time another one (ENFILE,
\* ENOMEM).  What is still queued is reported again, but in epoll_et: its edge is
\* used up, unless a client has come meanwhile.
AcceptEnds ==
    /\ pc = "accept" /\ program # "blocking"
    /\ pc' = "event"
    /\ dropped' = IF program = "epoll_et" /\ Pending # {} /\ LISTEN \notin edge
                  THEN dropped \cup {LISTEN} ELSE dropped
    /\ UNCHANGED <<netVars, program, limit, alive, edge, batch, hups, cur, buf, slotless,
                   lossy>>

\* blocking goes back to select when accept fails, without a look at its clients.
BlockingAcceptFails ==
    /\ pc = "accept" /\ program = "blocking"
    /\ batch' = {}
    /\ pc' = "wait"
    /\ UNCHANGED <<netVars, program, limit, alive, edge, hups, cur, buf, slotless, lossy,
                   dropped>>

-----------------------------------------------------------------------------
(* Reading from a client: to EAGAIN, or in blocking and poll once.  The    *)
(* terminator that blocking and select write behind what they have read,   *)
(* for their log, is left out.                                             *)

ReadSome ==
    /\ pc = "read" /\ conn[cur] = "open" /\ Unread(cur) > 0
    /\ rd' = [rd EXCEPT ![cur] = @ + ReadLen(cur)]
    /\ buf' = ReadBytes(cur)
    /\ pc' = "write"
    /\ UNCHANGED <<conn, clientVars, out, program, limit, alive, edge, batch, hups, cur, slotless,
                   lossy, dropped>>

\* The break that ends epoll's reading leaves the loop over the events: the rest is dropped.
DropRest ==
    IF program = "epoll" THEN /\ batch' = {}
                              /\ dropped' = dropped \cup (batch \ {LISTEN})
    ELSE UNCHANGED <<batch, dropped>>

ReadEagain ==
    /\ pc = "read" /\ conn[cur] = "open" /\ ~HasInput(cur)
    /\ DropRest
    /\ Leave
    /\ UNCHANGED <<netVars, program, limit, alive, edge, hups, buf, slotless, lossy>>

ReadEnd ==
    /\ pc = "read" /\ conn[cur] = "open" /\ Unread(cur) = 0 /\ peer[cur] \in {"fin", "abort"}
    /\ Close(cur)
    /\ Leave
    /\ UNCHANGED <<clientVars, rd, out, program, limit, alive, batch, hups, buf, slotless, lossy,
                   dropped>>

\* A reset, or a descriptor that the write loop has closed.  epoll drops the rest here too.
ReadError ==
    /\ pc = "read"
    /\ conn[cur] = "closed" \/ (Unread(cur) = 0 /\ peer[cur] = "reset")
    /\ Close(cur)
    /\ DropRest
    /\ Leave
    /\ UNCHANGED <<clientVars, rd, out, program, limit, alive, hups, buf, slotless, lossy>>

-----------------------------------------------------------------------------
(* Writing back.                                                           *)

\* blocking and poll go on to the next slot, the others read on.
AfterWrite == IF program \in {"blocking", "poll"} THEN Leave ELSE pc' = "read" /\ UNCHANGED cur

\* Mutant: written in part is taken for written.
WriteOnce ==
    /\ pc = "write" /\ peer[cur] \in {"up", "fin"}
    /\ \E k \in 1 .. SendRoom :
          /\ k <= Room(cur) /\ k <= Len(buf)
          /\ out' = [out EXCEPT ![cur] = @ \o SubSeq(buf, 1, k)]
    /\ buf' = <<>>
    /\ AfterWrite
    /\ UNCHANGED <<conn, clientVars, rd, program, limit, alive, edge, batch, hups, slotless, lossy,
                   dropped>>

\* write takes some bytes.  select does not offer the rest again; blocking's send goes on.
WriteSome ==
    /\ pc = "write" /\ peer[cur] \in {"up", "fin"}
    /\ \E k \in 1 .. SendRoom :
          /\ k <= Room(cur) /\ k <= Len(buf)
          /\ out' = [out EXCEPT ![cur] = @ \o SubSeq(buf, 1, k)]
          /\ IF k = Len(buf) THEN buf' = <<>> /\ AfterWrite /\ UNCHANGED lossy
             ELSE IF program = "select"
             THEN buf' = <<>> /\ AfterWrite /\ lossy' = lossy \cup {cur}
             ELSE buf' = SubSeq(buf, k + 1, Len(buf)) /\ UNCHANGED <<pc, cur, lossy>>
    /\ UNCHANGED <<conn, clientVars, rd, program, limit, alive, edge, batch, hups, slotless,
                   dropped>>

\* EAGAIN: the rest is dropped.  blocking waits in send instead.
WriteEagain ==
    /\ pc = "write" /\ program # "blocking" /\ peer[cur] \in {"up", "fin"} /\ Room(cur) = 0
    /\ buf' = <<>>
    /\ lossy' = lossy \cup {cur}
    /\ AfterWrite
    /\ UNCHANGED <<netVars, program, limit, alive, edge, batch, hups, slotless, dropped>>

\* The descriptor is closed.  select and poll are done with it, epoll reads from it again.
WriteError ==
    /\ pc = "write" /\ program # "blocking" /\ peer[cur] = "reset"
    /\ Close(cur)
    /\ buf' = <<>>
    /\ IF Level THEN Leave ELSE pc' = "read" /\ UNCHANGED cur
    /\ UNCHANGED <<clientVars, rd, out, program, limit, alive, batch, hups, slotless, lossy,
                   dropped>>

\* blocking does not look at what send returns: an error, or what it took before the end.
SendCut ==
    /\ pc = "write" /\ program = "blocking" /\ peer[cur] \in {"reset", "abort"}
    /\ buf' = <<>>
    /\ lossy' = lossy \cup {cur}
    /\ Leave
    /\ UNCHANGED <<netVars, program, limit, alive, edge, batch, hups, slotless, dropped>>

\* A reset after a fin; or a reset whose error an earlier send of blocking has returned.
Sigpipe ==
    /\ pc = "write"
    /\ \/ peer[cur] = "abort"
       \/ program = "blocking" /\ peer[cur] = "reset" /\ cur \in lossy
    /\ alive' = FALSE
    /\ UNCHANGED <<netVars, program, limit, edge, pc, batch, hups, cur, buf, slotless, lossy,
                   dropped>>

ServerStep ==
    /\ alive
    /\ \/ PollWait \/ EpollWait \/ ListenEvent \/ BatchEnd \/ AcceptEnds
       \/ BlockingAcceptFails
       \/ \E c \in Conns : HupEvent(c) \/ ConnEvent(c) \/ EpollAccept(c) \/ PollAccept(c)
                               \/ BlockingAccept(c)
       \/ ReadSome \/ ReadEagain \/ ReadEnd \/ ReadError
       \/ WriteSome \/ WriteEagain \/ WriteError \/ SendCut \/ Sigpipe

\* A connection in the queue, and bytes or an end on an open one, are edges for epoll.
Edge(e) == edge' = IF Level THEN edge ELSE edge \cup {e}

ClientStep(c) ==
    /\ \/ Connect(c) /\ Edge(LISTEN)
       \/ /\ ClientSend(c) \/ ClientEnd(c)
          /\ IF conn[c] = "open" THEN Edge(c) ELSE UNCHANGED edge
       \/ ClientRead(c) /\ UNCHANGED edge
    /\ UNCHANGED <<program, limit, alive, pc, batch, hups, cur, buf, slotless, lossy, dropped>>

Next == ServerStep \/ \E c \in Conns : ClientStep(c)

Accepts == \E c \in Conns : EpollAccept(c) \/ PollAccept(c) \/ BlockingAccept(c)

\* The server runs, and an error of accept that is none of its own doing (not EAGAIN, not
\* EMFILE) passes.  No client has to do anything.
Fairness == WF_vars(ServerStep) /\ SF_vars(ServerStep /\ Accepts)

Spec == Init /\ [][Next]_vars /\ Fairness

-----------------------------------------------------------------------------
(* Properties.                                                             *)

\* The table of select and poll has a slot for every connection.
TypeOK ==
    /\ NetTypeOK
    /\ program \in Programs /\ limit \in FdLimits /\ alive \in BOOLEAN
    /\ edge \subseteq Conns \cup {LISTEN}
    /\ pc \in {"wait", "event", "accept", "read", "write"}
    /\ batch \subseteq Conns \cup {LISTEN} /\ hups \subseteq Conns
    /\ cur \in Conns \cup {NONE}
    /\ buf \in Seq(Conns \X Nat) /\ Len(buf) <= BufferSize
    /\ slotless \subseteq Conns /\ lossy \subseteq Conns
    /\ dropped \subseteq Conns \cup {LISTEN}
    /\ Level => Cardinality(Opened) <= MaxClients

\* The slots hold what they can, and a client gets bytes of its own only, in the order it
\* sent them and none twice; and none is missing of those that were read, unless the socket
\* was full once, or the client ended before blocking had sent them.
EchoOrLoss ==
    /\ TypeOK
    /\ \A c \in Conns :
        /\ \A n \in DOMAIN out[c] :
              /\ out[c][n][1] = c /\ out[c][n][2] <= rd[c]
              /\ n > 1 => out[c][n - 1][2] < out[c][n][2]
        /\ conn[c] = "open" /\ c \notin lossy /\ cur # c => Len(out[c]) = rd[c]

Waits(c) == conn[c] = "pending" \/ (conn[c] = "open" /\ HasInput(c))

\* blocking sleeps in send until a client reads or ends.
Blocked == program = "blocking" /\ pc = "write" /\ Room(cur) = 0 /\ peer[cur] \in {"up", "fin"}

\* No number is free, and so the connection stays in the queue, or blocking comes to none
\* of its clients, their ends included, as long as another is queued.
Starved(c) ==
    /\ ~NumberFree
    /\ conn[c] = "pending" \/ (program = "blocking" /\ Pending # {})

\* Its event, or that of the listening socket it waits behind, is lost with epoll.
Missed(c) == c \in dropped \/ (conn[c] = "pending" /\ LISTEN \in dropped)

\* A client that connects, sends or ends is noticed in the end, whatever the others do and
\* wherever main stands; unless epoll has dropped its event, or a failing accept of
\* epoll_et has left it behind (until the next event comes), blocking has found no slot
\* for it, or sleeps for ever in a send to a client that does not read, or the others
\* hold all the numbers for ever.
EventsAreHandled ==
    []<>(~Blocked) =>
        \A c \in Conns :
            []<>(~Starved(c)) =>
                (Waits(c) ~> ~Waits(c) \/ ~alive \/ Missed(c) \/ c \in slotless)
=============================================================================
