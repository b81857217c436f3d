-------------------------------- MODULE CTable --------------------------------
(***************************************************************************)
(* All the connections of the C echo server (22_.../server/src: main.c,    *)
(* with session_create and session_destroy of server.c): who has a number, *)
(* whose session the map gives for it, and what epoll reports.  What is    *)
(* read and written on one connection is CServer.tla, the map itself       *)
(* HashMap.tla.                                                            *)
(*                                                                         *)
(* A session is named by the connection it was created for.  malloc may    *)
(* fail.  A use of freed memory or of a null pointer may do anything; the  *)
(* model stops there (undefined).                                          *)
(***************************************************************************)
EXTENDS Integers, FiniteSets

CONSTANTS
    Peers,       \* the connections that clients make
    Senders,     \* those whose client sends requests
    Leavers,     \* those whose client may end
    Numbers,     \* the numbers left for them
    EventCount,  \* event_count at first
    MaxFailures  \* bound: accepted connections for which an allocation fails

LISTEN == "listen"   \* the listening socket, among what epoll reports
NOBODY == "nobody"   \* no connection, no session

ASSUME TableAssumption ==
    /\ {LISTEN, NOBODY} \cap Peers = {} /\ NOBODY \notin Numbers
    /\ Senders \subseteq Peers /\ Leavers \subseteq Peers
    /\ IsFiniteSet(Peers) /\ EventCount \in Nat \ {0} /\ MaxFailures \in Nat

VARIABLES
    owner,      \* the descriptor table: the connection behind a number
    link,       \* of each connection: "new", "queued", "open", "closed"
    gone,       \* the open ones whose client has closed or reset
    input,      \* those with bytes or an end to read
    unsent,     \* those whose send queue holds something, EPOLLOUT enabled
    watched,    \* the epoll set
    ready,      \* those with an edge not reported yet
    stop,       \* stop_server
    main,       \* where main stands
    events,     \* what is left of event_addr; .conn says whom an event is for
    count,      \* event_count
    expanded,   \* expanded_once
    at,         \* the event whose EPOLLOUT is still to come
    map,        \* session_map
    life,       \* of each session: "none", "live", "freed"
    headless,   \* the sessions whose head_buf could not be allocated
    undefined,  \* freed memory or a null pointer has been used
    \* History.
    orphans,    \* connections that a failed allocation has kept out of the map
    stale       \* connections that handle_epollout has closed

linkVars  == <<owner, link, gone, input, unsent, watched, ready>>
loopVars  == <<main, events, count, expanded, at>>
sessVars  == <<map, life, headless, undefined, orphans, stale>>
tableVars == <<linkVars, stop, loopVars, sessVars>>

NoEvent == [fd |-> NOBODY, conn |-> NOBODY, evs |-> {}]

TableInit ==
    /\ owner = [n \in Numbers |-> NOBODY] /\ link = [c \in Peers |-> "new"]
    /\ gone = {} /\ input = {} /\ unsent = {} /\ watched = {LISTEN} /\ ready = {}
    /\ stop = FALSE /\ main = "check" /\ events = {} /\ at = NoEvent
    /\ count = EventCount /\ expanded = FALSE
    /\ map = [n \in Numbers |-> NOBODY] /\ life = [c \in Peers |-> "none"]
    /\ headless = {} /\ undefined = FALSE /\ orphans = {} /\ stale = {}

Queued   == {c \in Peers : link[c] = "queued"}
Free     == {n \in Numbers : owner[n] = NOBODY}
MayFail  == Cardinality(orphans \cup headless) < MaxFailures
Mapped   == {c \in Peers : \E n \in Numbers : map[n] = c}

-----------------------------------------------------------------------------
(* Waiting.                                                                *)

CheckStop ==
    /\ main = "check" /\ ~stop
    /\ main' = "wait"
    /\ UNCHANGED <<linkVars, stop, events, count, expanded, at, sessVars>>

\* The masks that epoll finds for a connection when it reports it.
Masks(c) ==
    {m \in SUBSET {"in", "out", "hup"} :
        /\ "in" \in m <=> c \in input
        /\ "out" \in m => c \in unsent
        /\ "hup" \in m => c \in gone}

\* The listening socket is level-triggered, the connections edge-triggered.
ListenReported == LISTEN \in watched /\ Queued # {}

Reportable ==
    {c \in ready \cap watched : Masks(c) # {{}}} \cup (IF ListenReported THEN {LISTEN} ELSE {})

\* The array grows once, when an epoll_wait has filled it, if there is memory.
Grow(n) ==
    IF n = count /\ ~expanded
    THEN count' \in {count, 2 * count} /\ expanded' = TRUE
    ELSE UNCHANGED <<count, expanded>>

EpollReports(S) ==
    /\ main = "wait"
    /\ S # {} /\ S \subseteq Reportable /\ Cardinality(S) <= count
    /\ S = Reportable \/ Cardinality(S) = count
    /\ \E mask \in [S \ {LISTEN} -> SUBSET {"in", "out", "hup"} \ {{}}] :
          /\ \A c \in S \ {LISTEN} : mask[c] \in Masks(c)
          /\ events' = {[fd |-> n, conn |-> owner[n], evs |-> mask[owner[n]]] :
                           n \in {m \in Numbers : owner[m] \in S}}
                       \cup {[NoEvent EXCEPT !.conn = LISTEN] : c \in S \cap {LISTEN}}
    /\ ready' = ready \ S
    /\ Grow(Cardinality(S))
    /\ main' = "event"
    /\ UNCHANGED <<owner, link, gone, input, unsent, watched, stop, at, sessVars>>

\* epoll_wait is interrupted by the signal.
Interrupted ==
    /\ main = "wait" /\ stop
    /\ main' = "check"
    /\ UNCHANGED <<linkVars, stop, events, count, expanded, at, sessVars>>

EventsEnd ==
    /\ main = "event" /\ events = {}
    /\ main' = "check"
    /\ UNCHANGED <<linkVars, stop, events, count, expanded, at, sessVars>>

-----------------------------------------------------------------------------
(* New connections.                                                        *)

ListenEvent ==
    /\ main = "event"
    /\ \E e \in events : e.conn = LISTEN /\ events' = events \ {e}
    /\ main' = "accept"
    /\ UNCHANGED <<linkVars, stop, count, expanded, at, sessVars>>

\* Mutant: when numbers run out the listening socket is taken off epoll.
AcceptDoneUnwatched ==
    /\ main = "accept" /\ (Queued = {} \/ Free = {})
    /\ watched' = IF Free = {} THEN watched \ {LISTEN} ELSE watched
    /\ main' = "event"
    /\ UNCHANGED <<owner, link, gone, input, unsent, ready, stop, events, count, expanded, at,
                   sessVars>>

\* EAGAIN, or EMFILE with connections left in the queue.
AcceptDone ==
    /\ main = "accept" /\ (Queued = {} \/ Free = {})
    /\ main' = "event"
    /\ UNCHANGED <<linkVars, stop, events, count, expanded, at, sessVars>>

AcceptAs(n, c) ==
    /\ main = "accept" /\ n \in Free /\ c \in Queued
    /\ owner' = [owner EXCEPT ![n] = c]
    /\ link' = [link EXCEPT ![c] = "open"]

\* Mutant: a number that is in the map keeps its session.
AcceptKeepsOldSession(n, c) ==
    /\ AcceptAs(n, c)
    /\ watched' = watched \cup {c}
    /\ ready' = IF c \in input THEN ready \cup {c} ELSE ready
    /\ life' = [life EXCEPT ![c] = "live"]
    /\ headless' \in IF MayFail THEN {headless, headless \cup {c}} ELSE {headless}
    /\ IF map[n] = NOBODY
       THEN \/ map' = [map EXCEPT ![n] = c] /\ UNCHANGED orphans
            \/ MayFail /\ orphans' = orphans \cup {c} /\ UNCHANGED map
       ELSE UNCHANGED <<map, orphans>>
    /\ UNCHANGED <<gone, input, unsent, stop, loopVars, undefined, stale>>

\* A session, whose head_buf may be missing, epoll ADD, which reports what has come
\* before, and the entry in the map: an old one is overwritten, a new one may fail.
AcceptConn(n, c) ==
    /\ AcceptAs(n, c)
    /\ watched' = watched \cup {c}
    /\ ready' = IF c \in input THEN ready \cup {c} ELSE ready
    /\ life' = [life EXCEPT ![c] = "live"]
    /\ headless' \in IF MayFail THEN {headless, headless \cup {c}} ELSE {headless}
    /\ \/ map' = [map EXCEPT ![n] = c] /\ UNCHANGED orphans
       \/ MayFail /\ map[n] = NOBODY /\ orphans' = orphans \cup {c} /\ UNCHANGED map
    /\ UNCHANGED <<gone, input, unsent, stop, loopVars, undefined, stale>>

\* session_create fails: the loop is left, the descriptor stays open.
AcceptNoSession(n, c) ==
    /\ MayFail /\ AcceptAs(n, c)
    /\ orphans' = orphans \cup {c}
    /\ main' = "event"
    /\ UNCHANGED <<gone, input, unsent, watched, ready, stop, events, count, expanded, at, map,
                   life, headless, undefined, stale>>

-----------------------------------------------------------------------------
(* Connections.                                                            *)

\* close: the number is free, and off the epoll set.
CloseNumber(n) ==
    LET c == owner[n] IN
    /\ owner' = [owner EXCEPT ![n] = NOBODY]
    /\ link' = IF c = NOBODY THEN link ELSE [link EXCEPT ![c] = "closed"]
    /\ watched' = watched \ {c} /\ ready' = ready \ {c}
    /\ gone' = gone \ {c} /\ input' = input \ {c}

\* Mutant: the entry stays in the map.
DestroyKeepsEntry(n) ==
    /\ CloseNumber(n)
    /\ life' = [life EXCEPT ![map[n]] = "freed"]
    /\ unsent' = unsent \ {map[n]}
    /\ UNCHANGED map

\* session_destroy and hashmap_remove_int.
Destroy(n) ==
    /\ CloseNumber(n)
    /\ life' = [life EXCEPT ![map[n]] = "freed"]
    /\ unsent' = unsent \ {map[n]}
    /\ map' = [map EXCEPT ![n] = NOBODY]

\* The send queue may be the list with a freed node that CServer shows.
QueueIsFollowed(c) == undefined' \in IF c \in unsent THEN {FALSE, TRUE} ELSE {FALSE}

\* A number that is not in the map: epoll DEL only.
UnknownEvent(e) ==
    /\ main = "event" /\ e \in events /\ e.conn # LISTEN /\ map[e.fd] = NOBODY
    /\ watched' = watched \ {owner[e.fd]} /\ ready' = ready \ {owner[e.fd]}
    /\ events' = events \ {e}
    /\ UNCHANGED <<owner, link, gone, input, unsent, stop, main, count, expanded, at, sessVars>>

Handles(e) == main = "event" /\ e \in events /\ e.conn # LISTEN /\ map[e.fd] # NOBODY

HupEvent(e) ==
    /\ Handles(e) /\ "hup" \in e.evs
    /\ QueueIsFollowed(map[e.fd])
    /\ Destroy(e.fd)
    /\ events' = events \ {e}
    /\ UNCHANGED <<stop, main, count, expanded, at, headless, orphans, stale>>

AfterRead(e) ==
    IF "out" \in e.evs THEN main' = "out" /\ at' = e ELSE UNCHANGED <<main, at>>

\* Reading to EAGAIN: the replies are sent, or some are left in the queue.  The buffer of
\* a body that cannot be allocated is used all the same.
ReadToEagain(e) ==
    /\ Handles(e) /\ "hup" \notin e.evs
    /\ "in" \in e.evs => owner[e.fd] \notin gone
    /\ IF "in" \in e.evs
       THEN /\ input' = input \ {owner[e.fd]}
            /\ unsent' \in {unsent, unsent \cup {map[e.fd]}}
            /\ undefined' \in IF map[e.fd] \in headless THEN {TRUE} ELSE {FALSE, TRUE}
       ELSE UNCHANGED <<input, unsent, undefined>>
    /\ events' = events \ {e}
    /\ AfterRead(e)
    /\ UNCHANGED <<owner, link, gone, watched, ready, stop, count, expanded, map, life, headless,
                   orphans, stale>>

\* The end or an error between two messages (net_error) leaves the event.
ReadNetError(e) ==
    /\ Handles(e) /\ "hup" \notin e.evs /\ "in" \in e.evs /\ owner[e.fd] \in gone
    /\ IF map[e.fd] \in headless THEN undefined' = TRUE ELSE QueueIsFollowed(map[e.fd])
    /\ Destroy(e.fd)
    /\ events' = events \ {e}
    /\ UNCHANGED <<stop, main, count, expanded, at, headless, orphans, stale>>

\* A refused head, or the end within a body, leaves only the loop of reads: EPOLLOUT comes
\* after, with the session that was freed.
ReadBodyError(e) ==
    /\ Handles(e) /\ "hup" \notin e.evs /\ "in" \in e.evs
    /\ IF map[e.fd] \in headless \/ "out" \in e.evs THEN undefined' = TRUE
       ELSE QueueIsFollowed(map[e.fd])
    /\ Destroy(e.fd)
    /\ events' = events \ {e}
    /\ UNCHANGED <<stop, main, count, expanded, at, headless, orphans, stale>>

Out == main = "out" /\ main' = "event" /\ at' = NoEvent

\* handle_epollout: all is written, or some; freed nodes as above.
OutWrites ==
    /\ Out
    /\ QueueIsFollowed(map[at.fd])
    /\ unsent' \in {unsent, unsent \ {map[at.fd]}}
    /\ UNCHANGED <<owner, link, gone, input, watched, ready, stop, events, count, expanded, map,
                   life, headless, orphans, stale>>

\* An error closes the number; the session stays where it is.
OutError ==
    /\ Out
    /\ map[at.fd] \in unsent /\ owner[at.fd] \in gone
    /\ CloseNumber(at.fd)
    /\ stale' = stale \cup {owner[at.fd]}
    /\ UNCHANGED <<unsent, stop, events, count, expanded, map, life, headless, undefined, orphans>>

\* Behind the loop every session in the map is destroyed, and the map.
Cleanup ==
    /\ main = "check" /\ stop
    /\ undefined' \in IF Mapped \cap unsent # {} THEN {FALSE, TRUE} ELSE {FALSE}
    /\ owner' = [n \in Numbers |-> IF map[n] # NOBODY THEN NOBODY ELSE owner[n]]
    /\ link' = [c \in Peers |->
                   IF \E n \in Numbers : owner[n] = c /\ map[n] # NOBODY THEN "closed" ELSE link[c]]
    /\ watched' = watched \ {c \in Peers : link'[c] # "open"}
    /\ ready' = ready \cap watched'
    /\ life' = [c \in Peers |-> IF c \in Mapped THEN "freed" ELSE life[c]]
    /\ map' = [n \in Numbers |-> NOBODY]
    /\ main' = "done"
    /\ UNCHANGED <<gone, input, unsent, stop, events, count, expanded, at, headless, orphans, stale>>

-----------------------------------------------------------------------------
(* The clients and the signal.                                             *)

PeerConnects(c) ==
    /\ link[c] = "new"
    /\ link' = [link EXCEPT ![c] = "queued"]
    /\ UNCHANGED <<owner, gone, input, unsent, watched, ready, stop, loopVars, sessVars>>

Arrives(c) == ready' = IF c \in watched THEN ready \cup {c} ELSE ready

PeerSends(c) ==
    /\ c \in Senders /\ link[c] \in {"queued", "open"} /\ c \notin gone
    /\ input' = input \cup {c}
    /\ Arrives(c)
    /\ UNCHANGED <<owner, link, gone, unsent, watched, stop, loopVars, sessVars>>

PeerGoes(c) ==
    /\ c \in Leavers /\ link[c] \in {"queued", "open"} /\ c \notin gone
    /\ gone' = gone \cup {c} /\ input' = input \cup {c}
    /\ Arrives(c)
    /\ UNCHANGED <<owner, link, unsent, watched, stop, loopVars, sessVars>>

PeerReads(c) ==
    /\ c \in unsent
    /\ Arrives(c)
    /\ UNCHANGED <<owner, link, gone, input, unsent, watched, stop, loopVars, sessVars>>

Signal ==
    /\ ~stop /\ stop' = TRUE
    /\ UNCHANGED <<linkVars, loopVars, sessVars>>

ConnStep ==
    \E e \in events :
        UnknownEvent(e) \/ HupEvent(e) \/ ReadToEagain(e) \/ ReadNetError(e) \/ ReadBodyError(e)

AcceptStep == \E n \in Numbers, c \in Peers : AcceptConn(n, c) \/ AcceptNoSession(n, c)

MainStep ==
    /\ ~undefined
    /\ \/ CheckStop \/ EventsEnd \/ Cleanup
       \/ ListenEvent \/ AcceptDone \/ AcceptStep
       \/ ConnStep \/ OutWrites \/ OutError

Reports(x) == ~undefined /\ \E S \in SUBSET (Peers \cup {LISTEN}) : x \in S /\ EpollReports(S)

TableNext ==
    \/ MainStep \/ (~undefined /\ Interrupted)
    \/ \E x \in Peers \cup {LISTEN} : Reports(x)
    \/ /\ ~undefined /\ main # "done"
       /\ Signal \/ \E c \in Peers : PeerConnects(c) \/ PeerSends(c) \/ PeerGoes(c) \/ PeerReads(c)

\* main runs, and epoll, which goes through its list in turn, does not pass over the
\* listening socket for ever.
TableFairness == WF_tableVars(MainStep) /\ SF_tableVars(Reports(LISTEN))

TableSpec == TableInit /\ [][TableNext]_tableVars /\ TableFairness

-----------------------------------------------------------------------------
(* Properties.                                                             *)

TableTypeOK ==
    /\ owner \in [Numbers -> Peers \cup {NOBODY}] /\ map \in [Numbers -> Peers \cup {NOBODY}]
    /\ link \in [Peers -> {"new", "queued", "open", "closed"}]
    /\ life \in [Peers -> {"none", "live", "freed"}]
    /\ ready \subseteq watched \ {LISTEN} /\ watched \subseteq Peers \cup {LISTEN}
    /\ gone \subseteq input /\ input \subseteq Peers /\ unsent \subseteq Peers
    /\ main \in {"check", "wait", "event", "accept", "out", "done"}
    /\ Cardinality(events) <= count /\ count \in {EventCount, 2 * EventCount}
    /\ headless \cup orphans \cup stale \subseteq Peers

\* A number in the map leads to a live session, of the connection that has the number,
\* unless handle_epollout has closed it and nobody has got it since but a connection
\* without a session; and no event of a batch is for another connection than the one that
\* has its number by then, although connections are accepted and closed while the batch is
\* gone through.  The batch fits the array.
NumbersAreCurrent ==
    /\ TableTypeOK
    /\ ~undefined =>
        /\ \A n \in Numbers : map[n] # NOBODY =>
              /\ life[map[n]] = "live"
              /\ owner[n] = map[n]
                    \/ (map[n] \in stale /\ owner[n] \in {NOBODY} \cup (orphans \ watched))
        /\ \A e \in events \cup {at} : e.fd \in Numbers =>
              owner[e.fd] = e.conn /\ map[e.fd] \in {e.conn, NOBODY}

\* Nothing is left behind: every open connection is in the map, but those that a failed
\* allocation has kept out of it, and every live session, but those too and those
\* overwritten after handle_epollout has closed their number; so that after the
\* last loop nothing else is left open or allocated.
NothingIsForgotten ==
    \A c \in Peers :
        /\ link[c] = "open"  => c \in Mapped \cup orphans
        /\ life[c] = "live"  => c \in Mapped \cup orphans \cup stale

\* A connection in the queue is accepted in the end, if numbers become free again and again,
\* although accept fails for want of one in between, or leaves the queue after a session
\* that cannot be created: the level-triggered socket is reported again.
QueueIsServed ==
    \A c \in Peers :
        []<>(Free # {}) => (c \in Queued ~> c \notin Queued \/ stop \/ undefined)
=============================================================================
