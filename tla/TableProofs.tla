------------------------------ MODULE TableProofs ------------------------------
(***************************************************************************)
(* Theorems about the tables that a server keeps beside the descriptor     *)
(* table: CTable, the C server's session map, SelectServer, the select     *)
(* server's array of clients with send queues, and HashMap, the map itself *)
(* of the C server.                                                        *)
(*                                                                         *)
(* CTable, for any connections and numbers, any size of the array of       *)
(* events and any failures of malloc: map, descriptor table and the batch  *)
(* of events agree, and nothing is left behind when the server ends.       *)
(*                                                                         *)
(* SelectServer, for any clients, numbers, slots and buffer sizes: slots,  *)
(* numbers and queues go together, and each client gets its own bytes in   *)
(* order.                                                                  *)
(*                                                                         *)
(* HashMap, for any keys of one kind or both, any hash functions and any   *)
(* number of buckets: it is a map, and size counts its entries.            *)
(***************************************************************************)
EXTENDS CTable, SelectServer, HashMap, TLAPS, SequenceTheorems, FiniteSetTheorems,
        WellFoundedInduction

-----------------------------------------------------------------------------
(* CTable.                                                                 *)

-----------------------------------------------------------------------------
(* Types.                                                                  *)

Masked      == SUBSET {"in", "out", "hup"}
ConnEvents  == [fd : Numbers, conn : Peers, evs : Masked]
ListenEvt   == [NoEvent EXCEPT !.conn = LISTEN]

TableTypeInv ==
    /\ TableTypeOK
    /\ IsFiniteSet(events) /\ events \subseteq ConnEvents \cup {ListenEvt}
    /\ at \in ConnEvents \cup {NoEvent}
    /\ main = "out" <=> at # NoEvent
    /\ expanded \in BOOLEAN /\ (~expanded => count = EventCount)
    /\ main \in {"check", "wait", "done"} => events = {}

-----------------------------------------------------------------------------
(* The tables.                                                             *)

\* A connection is open as long as it has a number, and has one only.
OneNumber ==
    /\ \A n \in Numbers : owner[n] # NOBODY =>
          /\ link[owner[n]] = "open"
          /\ \A m \in Numbers : owner[m] = owner[n] => m = n
    /\ \A c \in Peers : link[c] = "open" => \E n \in Numbers : owner[n] = c

\* A connection that was not accepted is known to no table.
NotYetKnown ==
    \A c \in Peers : link[c] \in {"new", "queued"} =>
        /\ life[c] = "none" /\ c \notin watched \cup orphans \cup stale
        /\ \A n \in Numbers : map[n] # c

OneEntry ==
    \A n, m \in Numbers : map[n] # NOBODY /\ map[m] = map[n] => m = n

StaleIsClosed == \A c \in stale : link[c] = "closed"

\* The entry of a number, as NumbersAreCurrent has it.
EntryIsCurrent ==
    \A n \in Numbers : map[n] # NOBODY =>
        /\ life[map[n]] = "live"
        /\ owner[n] = map[n]
              \/ (map[n] \in stale /\ owner[n] \in {NOBODY} \cup (orphans \ watched))

\* One event for a number; none is for a number that has changed hands.
EventsAreCurrent ==
    /\ \A e \in events \cup {at} : e.fd \in Numbers =>
          owner[e.fd] = e.conn /\ map[e.fd] \in {e.conn, NOBODY}
    /\ \A e, f \in events : e.fd = f.fd => e = f
    /\ \A e \in events : e.fd # NOBODY => e.fd # at.fd
    /\ at # NoEvent => map[at.fd] # NOBODY

TableInv ==
    /\ OneNumber
    /\ NotYetKnown
    /\ OneEntry
    /\ StaleIsClosed
    /\ EntryIsCurrent
    /\ EventsAreCurrent
    /\ NothingIsForgotten

LEMMA NameFacts ==
    /\ LISTEN \notin Peers /\ NOBODY \notin Peers /\ LISTEN # NOBODY /\ NOBODY \notin Numbers
    /\ NoEvent.fd = NOBODY /\ NoEvent.conn = NOBODY
    /\ ListenEvt.fd = NOBODY /\ ListenEvt.conn = LISTEN
    /\ \A e \in ConnEvents : e # NoEvent /\ e.fd \in Numbers /\ e.conn \in Peers
BY TableAssumption DEF LISTEN, NOBODY, NoEvent, ListenEvt, ConnEvents

\* An event that is not the listening socket's is of a connection.
LEMMA EventFacts ==
    ASSUME TableTypeInv, NEW e \in events, e.conn # LISTEN
    PROVE  e \in ConnEvents /\ e.fd \in Numbers /\ e.conn \in Peers /\ e # NoEvent
BY NameFacts DEF TableTypeInv

LEMMA FewerEvents ==
    ASSUME TableTypeInv, events' \subseteq events, count' = count
    PROVE  /\ IsFiniteSet(events') /\ events' \subseteq ConnEvents \cup {ListenEvt}
           /\ Cardinality(events') <= count'
<1>1. events' \in SUBSET events /\ IsFiniteSet(events)  BY DEF TableTypeInv
<1>2. /\ IsFiniteSet(events') /\ Cardinality(events') <= Cardinality(events)
      /\ Cardinality(events) \in Nat /\ Cardinality(events') \in Nat
  BY <1>1, FS_Subset, FS_CardinalityType
<1>3. count \in Nat /\ Cardinality(events) <= count
  BY TableAssumption DEF TableTypeInv, TableTypeOK
<1>. QED  BY <1>1, <1>2, <1>3 DEF TableTypeInv

LEMMA TypeInit == TableInit => TableTypeInv
<1> SUFFICES ASSUME TableInit PROVE TableTypeInv  OBVIOUS
<1>1. IsFiniteSet({}) /\ Cardinality({}) = 0  BY FS_EmptySet
<1>2. owner \in [Numbers -> Peers \cup {NOBODY}] /\ map \in [Numbers -> Peers \cup {NOBODY}]
  BY DEF TableInit
<1>3. /\ EventCount \in Nat \ {0} /\ count = EventCount /\ expanded = FALSE /\ events = {}
      /\ main = "check" /\ at = NoEvent
  BY TableAssumption DEF TableInit
<1>4. count \in {EventCount, 2 * EventCount} /\ count \in Nat  BY <1>3
<1>5. TableTypeOK
  <2>1. Cardinality(events) <= count  BY <1>1, <1>3, <1>4
  <2>. QED  BY <1>2, <1>4, <2>1 DEF TableInit, TableTypeOK
<1>. QED
  BY <1>1, <1>3, <1>5 DEF TableTypeInv

-----------------------------------------------------------------------------
(* A batch of events.                                                      *)

\* What epoll reports has one event for each connection that has a number.
LEMMA ReportFacts ==
    ASSUME TableTypeInv, TableInv, NEW S \in SUBSET (Peers \cup {LISTEN}), EpollReports(S)
    PROVE  /\ IsFiniteSet(events') /\ events' \subseteq ConnEvents \cup {ListenEvt}
           /\ Cardinality(events') <= count'
           /\ \A e \in events' : e.fd # NOBODY =>
                 e.fd \in Numbers /\ e.conn = owner[e.fd] /\ e.conn \in S \ {LISTEN}
           /\ \A e, f \in events' : e.fd = f.fd => e = f
           /\ count' \in {EventCount, 2 * EventCount} /\ expanded' \in BOOLEAN
           /\ ~expanded' => count' = EventCount
<1> USE DEF TableTypeInv, TableTypeOK
<1> DEFINE B == {n \in Numbers : owner[n] \in S}
<1> PICK mask \in [S \ {LISTEN} -> SUBSET {"in", "out", "hup"} \ {{}}] :
       events' = {[fd |-> n, conn |-> owner[n], evs |-> mask[owner[n]]] : n \in B}
                    \cup {[NoEvent EXCEPT !.conn = LISTEN] : c \in S \cap {LISTEN}}
  BY DEF EpollReports
<1> DEFINE Ev(n) == [fd |-> n, conn |-> owner[n], evs |-> mask[owner[n]]]
<1>1. ASSUME NEW n \in B PROVE owner[n] \in Peers /\ owner[n] \in S \ {LISTEN}
  BY NameFacts
<1>2. ASSUME NEW n \in B PROVE Ev(n) \in ConnEvents /\ Ev(n).fd = n /\ Ev(n).conn = owner[n]
  <2>1. mask[owner[n]] \in Masked  BY <1>1 DEF Masked
  <2>. QED  BY <1>1, <2>1 DEF ConnEvents
<1>3. \A e \in events' : (\E n \in B : e = Ev(n)) \/ (e = ListenEvt /\ LISTEN \in S)
  BY DEF ListenEvt
<1> HIDE DEF Ev
<1>4. events' \subseteq ConnEvents \cup {ListenEvt}  BY <1>2, <1>3
<1>5. \A e \in events' : e.conn \in S
  BY <1>1, <1>2, <1>3, NameFacts
<1>6. \A e, f \in events' : e.conn = f.conn => e = f
  <2> SUFFICES ASSUME NEW e \in events', NEW f \in events', e.conn = f.conn PROVE e = f
    OBVIOUS
  <2>1. CASE e = ListenEvt \/ f = ListenEvt
    BY <1>1, <1>2, <1>3, <2>1, NameFacts
  <2>2. CASE e # ListenEvt /\ f # ListenEvt
    <3> PICK n \in B : e = Ev(n)  BY <1>3, <2>2
    <3> PICK m \in B : f = Ev(m)  BY <1>3, <2>2
    <3>1. owner[n] = owner[m] /\ owner[n] # NOBODY  BY <1>1, <1>2, NameFacts
    <3>2. n = m  BY <3>1 DEF TableInv, OneNumber
    <3>. QED  BY <3>2
  <2>. QED  BY <2>1, <2>2
<1>7. IsFiniteSet(S)
  <2>1. IsFiniteSet(Peers \cup {LISTEN})  BY TableAssumption, FS_AddElement
  <2>. QED  BY <2>1, FS_Subset
<1>8. IsFiniteSet(events') /\ Cardinality(events') <= Cardinality(S)
  <2> DEFINE f == [e \in events' |-> e.conn]
  <2>1. f \in [events' -> S] /\ \A d, e \in events' : f[d] = f[e] => d = e
    BY <1>5, <1>6
  <2>2. f \in Injection(events', S)  BY <2>1 DEF Injection, IsInjective
  <2>. QED  BY <1>7, <2>2, FS_Injection
<1>9. /\ count' \in {EventCount, 2 * EventCount} /\ expanded' \in BOOLEAN
      /\ ~expanded' => count' = EventCount
      /\ count <= count' /\ count \in Nat
  <2>1. EventCount \in Nat /\ count \in {EventCount, 2 * EventCount} /\ count \in Nat
    BY TableAssumption
  <2>2. CASE UNCHANGED <<count, expanded>>  BY <2>1, <2>2
  <2>3. CASE ~expanded /\ count' \in {count, 2 * count} /\ expanded' = TRUE
    <3>1. count = EventCount  BY <2>3
    <3>. QED  BY <2>1, <2>3, <3>1
  <2>4. Grow(Cardinality(S))  BY DEF EpollReports
  <2>. QED  BY <2>2, <2>3, <2>4 DEF Grow
<1>10. Cardinality(events') <= count'
  <2>1. Cardinality(S) <= count  BY DEF EpollReports
  <2>2. Cardinality(S) \in Nat /\ Cardinality(events') \in Nat
    BY <1>7, <1>8, FS_CardinalityType
  <2>. QED  BY <1>8, <1>9, <2>1, <2>2, TableAssumption
<1>11. \A e \in events' : e.fd # NOBODY =>
          e.fd \in Numbers /\ e.conn = owner[e.fd] /\ e.conn \in S \ {LISTEN}
  BY <1>1, <1>2, <1>3, NameFacts
<1>12. \A e, f \in events' : e.fd = f.fd => e = f
  BY <1>2, <1>3, NameFacts
<1>. QED  BY <1>4, <1>8, <1>9, <1>10, <1>11, <1>12

-----------------------------------------------------------------------------
(* Types are kept.                                                         *)

LEMMA CloseTypes ==
    ASSUME TableTypeInv, NEW n \in Numbers, CloseNumber(n)
    PROVE  /\ owner' \in [Numbers -> Peers \cup {NOBODY}]
           /\ link' \in [Peers -> {"new", "queued", "open", "closed"}]
           /\ ready' \subseteq watched' \ {LISTEN} /\ watched' \subseteq Peers \cup {LISTEN}
           /\ gone' \subseteq input' /\ input' \subseteq Peers
BY DEF TableTypeInv, TableTypeOK, CloseNumber

\* The handlers that end a connection: the event is done, number and session are given up.
LEMMA DestroyTypes ==
    ASSUME TableTypeInv, NEW e \in events, Handles(e), Destroy(e.fd), events' = events \ {e},
           UNCHANGED <<stop, main, count, expanded, at, headless, orphans, stale>>
    PROVE  TableTypeInv'
<1>1. e.fd \in Numbers  BY EventFacts DEF Handles
<1>2. map[e.fd] \in Peers  BY <1>1 DEF Handles, TableTypeInv, TableTypeOK
<1>3. life' \in [Peers -> {"none", "live", "freed"}] /\ unsent' \subseteq Peers
      /\ map' \in [Numbers -> Peers \cup {NOBODY}]
  BY <1>1, <1>2 DEF Destroy, TableTypeInv, TableTypeOK
<1>4. /\ IsFiniteSet(events') /\ events' \subseteq ConnEvents \cup {ListenEvt}
      /\ Cardinality(events') <= count'
  BY FewerEvents
<1>5. CloseNumber(e.fd)  BY DEF Destroy
<1>. QED
  BY <1>1, <1>3, <1>4, <1>5, CloseTypes DEF Handles, TableTypeInv, TableTypeOK

LEMMA TypeStep == TableTypeInv /\ TableInv /\ [TableNext]_tableVars => TableTypeInv'
<1> SUFFICES ASSUME TableTypeInv, TableInv, [TableNext]_tableVars PROVE TableTypeInv'  OBVIOUS
<1> USE DEF TableTypeInv, TableTypeOK, linkVars, loopVars, sessVars
<1>f. events' \subseteq events /\ count' = count =>
         /\ IsFiniteSet(events') /\ events' \subseteq ConnEvents \cup {ListenEvt}
         /\ Cardinality(events') <= count'
  BY FewerEvents
<1>1. CASE CheckStop \/ Interrupted \/ EventsEnd \/ ListenEvent \/ AcceptDone
  BY <1>1, <1>f DEF CheckStop, Interrupted, EventsEnd, ListenEvent, AcceptDone
<1>2. ASSUME NEW n \in Numbers, NEW c \in Peers, AcceptConn(n, c) \/ AcceptNoSession(n, c)
      PROVE  TableTypeInv'
  <2>1. /\ owner' \in [Numbers -> Peers \cup {NOBODY}]
        /\ link' \in [Peers -> {"new", "queued", "open", "closed"}]
        /\ main = "accept"
    BY <1>2 DEF AcceptConn, AcceptNoSession, AcceptAs
  <2>2. CASE AcceptConn(n, c)
    <3>1. life' \in [Peers -> {"none", "live", "freed"}]  BY <2>2 DEF AcceptConn
    <3>2. map' \in [Numbers -> Peers \cup {NOBODY}] /\ orphans' \subseteq Peers
      BY <2>2 DEF AcceptConn
    <3>3. headless' \subseteq Peers  BY <2>2 DEF AcceptConn
    <3>4. /\ ready' \subseteq watched' \ {LISTEN} /\ watched' \subseteq Peers \cup {LISTEN}
      BY <2>2, NameFacts DEF AcceptConn
    <3>5. UNCHANGED <<gone, input, unsent, stop, loopVars, undefined, stale>>
      BY <2>2 DEF AcceptConn
    <3>. QED  BY <1>f, <2>1, <3>1, <3>2, <3>3, <3>4, <3>5
  <2>3. CASE AcceptNoSession(n, c)  BY <1>f, <2>1, <2>3 DEF AcceptNoSession
  <2>. QED  BY <1>2, <2>2, <2>3
<1>3. ASSUME NEW e \in events, UnknownEvent(e) PROVE TableTypeInv'
  BY <1>3, <1>f DEF UnknownEvent
<1>4. ASSUME NEW e \in events, HupEvent(e) \/ ReadNetError(e) \/ ReadBodyError(e)
      PROVE  TableTypeInv'
  <2>1. /\ Handles(e) /\ Destroy(e.fd) /\ events' = events \ {e}
        /\ UNCHANGED <<stop, main, count, expanded, at, headless, orphans, stale>>
    BY <1>4 DEF HupEvent, ReadNetError, ReadBodyError
  <2>. QED  BY <2>1, DestroyTypes
<1>5. ASSUME NEW e \in events, ReadToEagain(e) PROVE TableTypeInv'
  <2>1. e \in ConnEvents /\ e # NoEvent /\ e.fd \in Numbers
    BY <1>5, EventFacts DEF ReadToEagain, Handles
  <2>2. map[e.fd] \in Peers  BY <1>5, <2>1 DEF ReadToEagain, Handles
  <2>3. gone' \subseteq input' /\ input' \subseteq Peers /\ unsent' \subseteq Peers
    BY <1>5, <2>2 DEF ReadToEagain
  <2>4. at' \in ConnEvents \cup {NoEvent} /\ (main' = "out" <=> at' # NoEvent)
        /\ main' \in {"event", "out"}
    BY <1>5, <2>1 DEF ReadToEagain, Handles, AfterRead
  <2>5. /\ events' \subseteq events
        /\ UNCHANGED <<owner, link, watched, ready, stop, count, expanded, map, life, headless,
                       orphans, stale>>
    BY <1>5 DEF ReadToEagain
  <2>. QED  BY <1>f, <2>3, <2>4, <2>5
<1>6. CASE OutWrites \/ OutError
  <2>1. main = "out" /\ main' = "event" /\ at' = NoEvent /\ at \in ConnEvents
    BY <1>6 DEF OutWrites, OutError, Out
  <2>2. at.fd \in Numbers  BY <2>1, NameFacts
  <2>3. CASE OutWrites
    BY <1>f, <2>1, <2>3 DEF OutWrites
  <2>4. CASE OutError
    <3>1. CloseNumber(at.fd)  BY <2>4 DEF OutError
    <3>2. stale' \subseteq Peers
      <4>1. owner[at.fd] = at.conn  BY <2>2 DEF TableInv, EventsAreCurrent
      <4>. QED  BY <2>1, <2>4, <4>1, NameFacts DEF OutError
    <3>3. UNCHANGED <<unsent, stop, events, count, expanded, map, life, headless, undefined,
                      orphans>>
      BY <2>4 DEF OutError
    <3>. QED  BY <1>f, <2>1, <2>2, <3>1, <3>2, <3>3, CloseTypes
  <2>. QED  BY <1>6, <2>3, <2>4
<1>7. CASE Cleanup
  <2>1. link' \in [Peers -> {"new", "queued", "open", "closed"}]  BY <1>7 DEF Cleanup
  <2>2. life' \in [Peers -> {"none", "live", "freed"}]  BY <1>7 DEF Cleanup
  <2>3. /\ owner' \in [Numbers -> Peers \cup {NOBODY}]
        /\ map' \in [Numbers -> Peers \cup {NOBODY}]
    BY <1>7 DEF Cleanup
  <2>4. ready' \subseteq watched' \ {LISTEN} /\ watched' \subseteq Peers \cup {LISTEN}
    BY <1>7 DEF Cleanup
  <2>5. /\ UNCHANGED <<gone, input, unsent, stop, events, count, expanded, at, headless,
                       orphans, stale>>
        /\ main = "check" /\ main' = "done"
    BY <1>7 DEF Cleanup
  <2>. QED  BY <1>f, <2>1, <2>2, <2>3, <2>4, <2>5
<1>8. ASSUME NEW S \in SUBSET (Peers \cup {LISTEN}), EpollReports(S) PROVE TableTypeInv'
  <2>1. /\ IsFiniteSet(events') /\ events' \subseteq ConnEvents \cup {ListenEvt}
        /\ Cardinality(events') <= count'
        /\ count' \in {EventCount, 2 * EventCount} /\ expanded' \in BOOLEAN
        /\ ~expanded' => count' = EventCount
    BY <1>8, ReportFacts
  <2>. QED  BY <1>8, <2>1 DEF EpollReports
<1>9. ASSUME NEW c \in Peers, PeerConnects(c) \/ PeerSends(c) \/ PeerGoes(c) \/ PeerReads(c)
      PROVE  TableTypeInv'
  BY <1>9, <1>f, NameFacts DEF PeerConnects, PeerSends, PeerGoes, PeerReads, Arrives
<1>10. CASE Signal \/ UNCHANGED tableVars
  BY <1>10, <1>f DEF Signal, tableVars
<1>. QED
  BY <1>1, <1>2, <1>3, <1>4, <1>5, <1>6, <1>7, <1>8, <1>9, <1>10
  DEF TableNext, MainStep, AcceptStep, ConnStep, Reports

-----------------------------------------------------------------------------
(* The tables are kept.                                                    *)

LEMMA TableStart == TableInit => TableInv
<1> SUFFICES ASSUME TableInit PROVE TableInv  OBVIOUS
<1>1. OneNumber /\ NotYetKnown /\ OneEntry /\ StaleIsClosed /\ EntryIsCurrent
  BY NameFacts
  DEF TableInit, OneNumber, NotYetKnown, OneEntry, StaleIsClosed, EntryIsCurrent
<1>2. EventsAreCurrent  BY NameFacts DEF TableInit, EventsAreCurrent
<1>3. NothingIsForgotten  BY DEF TableInit, NothingIsForgotten
<1>. QED  BY <1>1, <1>2, <1>3 DEF TableInv

\* Steps that leave numbers, sessions and entries alone.
LEMMA TableKept ==
    ASSUME TableInv, EventsAreCurrent', watched' \subseteq watched,
           UNCHANGED <<owner, link, map, life, orphans, stale>>
    PROVE  TableInv'
BY DEF TableInv, OneNumber, NotYetKnown, OneEntry, StaleIsClosed, EntryIsCurrent,
       NothingIsForgotten, Mapped

LEMMA EventsShrink ==
    ASSUME TableTypeInv, TableInv, events' \subseteq events, at' = at \/ at' = NoEvent,
           UNCHANGED <<owner, map>>
    PROVE  EventsAreCurrent'
BY NameFacts DEF TableInv, EventsAreCurrent

\* An event is dealt with, and its connection is closed and forgotten.
LEMMA DestroyKeeps ==
    ASSUME TableTypeInv, TableInv, NEW e \in events, Handles(e), Destroy(e.fd),
           events' = events \ {e}, UNCHANGED <<at, orphans, stale>>
    PROVE  TableInv'
<1> USE DEF TableTypeInv, TableTypeOK
<1> DEFINE n == e.fd
           c == e.conn
<1>1. n \in Numbers /\ c \in Peers  BY EventFacts DEF Handles
<1>2. owner[n] = c /\ map[n] = c  BY <1>1 DEF Handles, TableInv, EventsAreCurrent
<1>3. /\ owner' = [owner EXCEPT ![n] = NOBODY]
      /\ map' = [map EXCEPT ![n] = NOBODY]
      /\ link' = [link EXCEPT ![c] = "closed"]
      /\ life' = [life EXCEPT ![c] = "freed"]
      /\ watched' = watched \ {c}
  BY <1>1, <1>2, NameFacts DEF Destroy, CloseNumber
<1>4. \A m \in Numbers : m # n => owner[m] # c /\ map[m] # c
  BY <1>1, <1>2, NameFacts DEF TableInv, OneNumber, OneEntry
<1>5. n # at.fd  BY <1>1, NameFacts DEF TableInv, EventsAreCurrent
<1>6. \A f \in events' : f.fd # n  BY DEF TableInv, EventsAreCurrent
<1> HIDE DEF n, c
<1>7. OneNumber'
  BY <1>1, <1>2, <1>3, <1>4, NameFacts DEF TableInv, OneNumber
<1>8. NotYetKnown'  BY <1>1, <1>3, <1>4, NameFacts DEF TableInv, NotYetKnown
<1>9. OneEntry' /\ StaleIsClosed'
  BY <1>1, <1>3, NameFacts DEF TableInv, OneEntry, StaleIsClosed
<1>10. EntryIsCurrent'  BY <1>1, <1>3, <1>4, NameFacts DEF TableInv, EntryIsCurrent
<1>11. EventsAreCurrent'
  <2>1. \A f \in events' \cup {at'} : f.fd \in Numbers => f \in events \cup {at} /\ f.fd # n
    BY <1>5, <1>6
  <2>. QED  BY <1>1, <1>3, <1>5, <2>1, NameFacts DEF TableInv, EventsAreCurrent
<1>12. NothingIsForgotten'
  <2>1. \A d \in Mapped : d # c => d \in Mapped'
    BY <1>1, <1>2, <1>3 DEF Mapped
  <2>2. link'[c] = "closed" /\ life'[c] = "freed"  BY <1>1, <1>3
  <2>3. \A d \in Peers : d # c => link'[d] = link[d] /\ life'[d] = life[d]  BY <1>3
  <2>. QED  BY <2>1, <2>2, <2>3 DEF TableInv, NothingIsForgotten
<1>. QED  BY <1>7, <1>8, <1>9, <1>10, <1>11, <1>12 DEF TableInv

\* A number is given out.  An entry it still has in the map belongs to a connection that
\* handle_epollout has closed.
LEMMA AcceptAsKeeps ==
    ASSUME TableTypeInv, TableInv, NEW n \in Numbers, NEW c \in Peers, AcceptAs(n, c)
    PROVE  /\ OneNumber'
           /\ owner[n] = NOBODY /\ link[c] = "queued" /\ link'[c] = "open"
           /\ life[c] = "none" /\ c \notin watched \cup orphans \cup stale
           /\ \A m \in Numbers : owner[m] # c /\ map[m] # c
           /\ map[n] # NOBODY => map[n] \in stale
           /\ \A e \in events \cup {at} : e.fd # n
           /\ \A d \in Peers : d # c => link'[d] = link[d]
<1> USE DEF TableTypeInv, TableTypeOK
<1>1. /\ owner[n] = NOBODY /\ link[c] = "queued"
      /\ owner' = [owner EXCEPT ![n] = c] /\ link' = [link EXCEPT ![c] = "open"]
  BY DEF AcceptAs, Free, Queued
<1>2. \A m \in Numbers : owner[m] # c  BY <1>1, NameFacts DEF TableInv, OneNumber
<1>3. OneNumber'  BY <1>1, <1>2, NameFacts DEF TableInv, OneNumber
<1>4. /\ life[c] = "none" /\ c \notin watched \cup orphans \cup stale
      /\ \A m \in Numbers : map[m] # c
  BY <1>1 DEF TableInv, NotYetKnown
<1>5. map[n] # NOBODY => map[n] \in stale
  BY <1>1 DEF TableInv, EntryIsCurrent
<1>6. \A e \in events \cup {at} : e.fd # n
  <2>1. \A e \in events \cup {at} : e.fd \in Numbers => e.conn \in Peers
    BY NameFacts
  <2>. QED  BY <1>1, <2>1, NameFacts DEF TableInv, EventsAreCurrent
<1>. QED  BY <1>1, <1>2, <1>3, <1>4, <1>5, <1>6

LEMMA AcceptKeeps ==
    ASSUME TableTypeInv, TableInv, NEW n \in Numbers, NEW c \in Peers, AcceptConn(n, c)
    PROVE  TableInv'
<1> USE DEF TableTypeInv, TableTypeOK
<1>1. AcceptAs(n, c)  BY DEF AcceptConn
<1>2. /\ OneNumber'
      /\ owner[n] = NOBODY /\ link[c] = "queued" /\ link'[c] = "open"
      /\ life[c] = "none" /\ c \notin watched \cup orphans \cup stale
      /\ \A m \in Numbers : owner[m] # c /\ map[m] # c
      /\ map[n] # NOBODY => map[n] \in stale
      /\ \A e \in events \cup {at} : e.fd # n
      /\ \A d \in Peers : d # c => link'[d] = link[d]
  BY <1>1, AcceptAsKeeps
<1>3. /\ owner' = [owner EXCEPT ![n] = c] /\ watched' = watched \cup {c}
      /\ life' = [life EXCEPT ![c] = "live"] /\ UNCHANGED <<events, at, stale>>
  BY <1>1 DEF AcceptConn, AcceptAs, loopVars
<1>4. \/ map' = [map EXCEPT ![n] = c] /\ orphans' = orphans
      \/ map[n] = NOBODY /\ orphans' = orphans \cup {c} /\ map' = map
  BY DEF AcceptConn
<1>5. NotYetKnown'
  <2> SUFFICES ASSUME NEW d \in Peers, link'[d] \in {"new", "queued"}
               PROVE  /\ life'[d] = "none" /\ d \notin watched' \cup orphans' \cup stale'
                      /\ \A m \in Numbers : map'[m] # d
    BY DEF NotYetKnown
  <2>1. d # c /\ link[d] \in {"new", "queued"}  BY <1>2
  <2>. QED  BY <1>3, <1>4, <2>1 DEF TableInv, NotYetKnown
<1>6. OneEntry'  BY <1>2, <1>4, NameFacts DEF TableInv, OneEntry
<1>7. StaleIsClosed'  BY <1>2, <1>3 DEF TableInv, StaleIsClosed
<1>8. EntryIsCurrent'
  <2> SUFFICES ASSUME NEW m \in Numbers, map'[m] # NOBODY
               PROVE  /\ life'[map'[m]] = "live"
                      /\ owner'[m] = map'[m]
                            \/ (map'[m] \in stale' /\ owner'[m] \in {NOBODY} \cup (orphans' \ watched'))
    BY DEF EntryIsCurrent
  <2>1. CASE m # n
    <3>1. map'[m] = map[m] /\ owner'[m] = owner[m] /\ owner[m] # c /\ map[m] # c
      BY <1>2, <1>3, <1>4, <2>1
    <3>2. life'[map[m]] = life[map[m]]  BY <1>3, <3>1
    <3>3. orphans \ watched \subseteq (orphans' \ watched') \cup {c}  BY <1>3, <1>4
    <3>. QED  BY <1>3, <3>1, <3>2, <3>3 DEF TableInv, EntryIsCurrent
  <2>2. CASE m = n
    <3>1. map'[n] = c /\ owner'[n] = c  BY <1>3, <1>4, <2>2
    <3>. QED  BY <1>3, <2>2, <3>1
  <2>. QED  BY <2>1, <2>2
<1>9. EventsAreCurrent'
  <2>1. \A e \in events \cup {at} :
           e.fd \in Numbers => owner'[e.fd] = owner[e.fd] /\ map'[e.fd] = map[e.fd]
    BY <1>2, <1>3, <1>4
  <2>2. at # NoEvent => at.fd \in Numbers  BY NameFacts
  <2>. QED  BY <1>3, <2>1, <2>2 DEF TableInv, EventsAreCurrent
<1>10. NothingIsForgotten'
  <2>1. c \in Mapped' \cup orphans'  BY <1>4 DEF Mapped
  <2>2. \A d \in Mapped : d \in Mapped' \/ d = map[n]
    BY <1>4 DEF Mapped
  <2>3. map[n] # NOBODY => link[map[n]] = "closed"
    BY <1>2 DEF TableInv, StaleIsClosed
  <2> SUFFICES ASSUME NEW d \in Peers, d # c
               PROVE  /\ link'[d] = "open" => d \in Mapped' \cup orphans'
                      /\ life'[d] = "live" => d \in Mapped' \cup orphans' \cup stale'
    BY <2>1 DEF NothingIsForgotten
  <2>4. link'[d] = link[d] /\ life'[d] = life[d]  BY <1>2, <1>3
  <2>5. orphans \subseteq orphans' /\ stale' = stale  BY <1>3, <1>4
  <2>. QED  BY <1>2, <2>2, <2>3, <2>4, <2>5, NameFacts DEF TableInv, NothingIsForgotten
<1>. QED  BY <1>2, <1>5, <1>6, <1>7, <1>8, <1>9, <1>10 DEF TableInv

LEMMA AcceptNoSessionKeeps ==
    ASSUME TableTypeInv, TableInv, NEW n \in Numbers, NEW c \in Peers, AcceptNoSession(n, c)
    PROVE  TableInv'
<1> USE DEF TableTypeInv, TableTypeOK
<1>1. AcceptAs(n, c)  BY DEF AcceptNoSession
<1>2. /\ OneNumber'
      /\ owner[n] = NOBODY /\ link[c] = "queued" /\ link'[c] = "open"
      /\ life[c] = "none" /\ c \notin watched \cup orphans \cup stale
      /\ \A m \in Numbers : owner[m] # c /\ map[m] # c
      /\ map[n] # NOBODY => map[n] \in stale
      /\ \A e \in events \cup {at} : e.fd # n
      /\ \A d \in Peers : d # c => link'[d] = link[d]
  BY <1>1, AcceptAsKeeps
<1>3. /\ owner' = [owner EXCEPT ![n] = c] /\ orphans' = orphans \cup {c}
      /\ UNCHANGED <<watched, events, at, map, life, stale>>
  BY <1>1 DEF AcceptNoSession, AcceptAs
<1>4. NotYetKnown'  BY <1>2, <1>3 DEF TableInv, NotYetKnown
<1>5. OneEntry'  BY <1>3 DEF TableInv, OneEntry
<1>6. StaleIsClosed'  BY <1>2, <1>3 DEF TableInv, StaleIsClosed
<1>7. EntryIsCurrent'  BY <1>2, <1>3 DEF TableInv, EntryIsCurrent
<1>8. EventsAreCurrent'
  <2>1. \A e \in events \cup {at} : e.fd \in Numbers => owner'[e.fd] = owner[e.fd]
    BY <1>2, <1>3
  <2>. QED  BY <1>3, <2>1 DEF TableInv, EventsAreCurrent
<1>9. NothingIsForgotten'
  <2>1. Mapped' = Mapped  BY <1>3 DEF Mapped
  <2>. QED  BY <1>2, <1>3, <2>1 DEF TableInv, NothingIsForgotten
<1>. QED  BY <1>2, <1>4, <1>5, <1>6, <1>7, <1>8, <1>9 DEF TableInv

\* handle_epollout closes the number and leaves the session in the map.
LEMMA OutErrorKeeps == ASSUME TableTypeInv, TableInv, OutError PROVE TableInv'
<1> USE DEF TableTypeInv, TableTypeOK
<1> DEFINE n == at.fd
           c == at.conn
<1>1. at # NoEvent /\ at' = NoEvent /\ n \in Numbers /\ c \in Peers
  BY NameFacts DEF OutError, Out
<1>2. owner[n] = c /\ map[n] = c  BY <1>1 DEF TableInv, EventsAreCurrent
<1>3. /\ owner' = [owner EXCEPT ![n] = NOBODY]
      /\ link' = [link EXCEPT ![c] = "closed"]
      /\ watched' = watched \ {c} /\ stale' = stale \cup {c}
      /\ UNCHANGED <<events, map, life, orphans>>
  BY <1>1, <1>2, NameFacts DEF OutError, CloseNumber
<1>4. \A m \in Numbers : m # n => owner[m] # c /\ map[m] # c
  BY <1>1, <1>2, NameFacts DEF TableInv, OneNumber, OneEntry
<1>5. \A f \in events : f.fd # n
  BY <1>1, NameFacts DEF TableInv, EventsAreCurrent
<1> HIDE DEF n, c
<1>6. OneNumber'
  BY <1>1, <1>2, <1>3, <1>4, NameFacts DEF TableInv, OneNumber
<1>7. NotYetKnown'  BY <1>1, <1>3 DEF TableInv, NotYetKnown
<1>8. OneEntry' /\ StaleIsClosed'
  BY <1>1, <1>3 DEF TableInv, OneEntry, StaleIsClosed
<1>9. EntryIsCurrent'
  BY <1>1, <1>2, <1>3, <1>4, NameFacts DEF TableInv, EntryIsCurrent
<1>10. EventsAreCurrent'
  BY <1>1, <1>3, <1>5, NameFacts DEF TableInv, EventsAreCurrent
<1>11. NothingIsForgotten'
  <2>1. Mapped' = Mapped  BY <1>3 DEF Mapped
  <2>. QED  BY <1>1, <1>3, <2>1 DEF TableInv, NothingIsForgotten
<1>. QED  BY <1>6, <1>7, <1>8, <1>9, <1>10, <1>11 DEF TableInv

\* The sessions in the map are destroyed.  What is open and in the map has its own number,
\* so that it is closed.
LEMMA CleanupKeeps == ASSUME TableTypeInv, TableInv, Cleanup PROVE TableInv'
<1> USE DEF TableTypeInv, TableTypeOK
<1>1. events' = {} /\ at' = NoEvent /\ orphans' = orphans /\ stale' = stale
      /\ map' = [n \in Numbers |-> NOBODY]
  BY DEF Cleanup
<1>2. \A n \in Numbers : owner'[n] = IF map[n] # NOBODY THEN NOBODY ELSE owner[n]
  BY DEF Cleanup
<1>3. \A c \in Peers :
         link'[c] = IF \E n \in Numbers : owner[n] = c /\ map[n] # NOBODY
                    THEN "closed" ELSE link[c]
  BY DEF Cleanup
<1>4. \A c \in Peers : life'[c] = IF c \in Mapped THEN "freed" ELSE life[c]
  BY DEF Cleanup
<1>5. watched' \subseteq watched  BY DEF Cleanup
<1>6. OneNumber'
  <2>1. ASSUME NEW n \in Numbers, owner'[n] # NOBODY
        PROVE  /\ link'[owner'[n]] = "open"
               /\ \A m \in Numbers : owner'[m] = owner'[n] => m = n
    <3>1. owner'[n] = owner[n] /\ map[n] = NOBODY /\ owner[n] \in Peers  BY <1>2, <2>1
    <3>2. link[owner[n]] = "open" /\ \A m \in Numbers : owner[m] = owner[n] => m = n
      BY <2>1, <3>1 DEF TableInv, OneNumber
    <3>. QED  BY <1>2, <1>3, <2>1, <3>1, <3>2
  <2>2. ASSUME NEW c \in Peers, link'[c] = "open"
        PROVE  \E n \in Numbers : owner'[n] = c
    <3>1. link[c] = "open" /\ ~\E n \in Numbers : owner[n] = c /\ map[n] # NOBODY
      BY <1>3, <2>2
    <3>2. PICK n \in Numbers : owner[n] = c  BY <3>1 DEF TableInv, OneNumber
    <3>. QED  BY <1>2, <3>1, <3>2
  <2>. QED  BY <2>1, <2>2 DEF OneNumber
<1>7. NotYetKnown'
  <2> SUFFICES ASSUME NEW c \in Peers, link'[c] \in {"new", "queued"}
               PROVE  /\ life'[c] = "none" /\ c \notin watched' \cup orphans' \cup stale'
                      /\ \A n \in Numbers : map'[n] # c
    BY DEF NotYetKnown
  <2>1. link[c] \in {"new", "queued"}  BY <1>3
  <2>2. c \notin Mapped  BY <2>1 DEF TableInv, NotYetKnown, Mapped
  <2>. QED  BY <1>1, <1>4, <1>5, <2>1, <2>2, NameFacts DEF TableInv, NotYetKnown
<1>8. OneEntry' /\ EntryIsCurrent'
  BY <1>1 DEF OneEntry, EntryIsCurrent
<1>9. StaleIsClosed'  BY <1>1, <1>3 DEF TableInv, StaleIsClosed
<1>10. EventsAreCurrent'  BY <1>1, NameFacts DEF EventsAreCurrent
<1>11. NothingIsForgotten'
  <2> SUFFICES ASSUME NEW c \in Peers
               PROVE  /\ link'[c] = "open" => c \in Mapped' \cup orphans'
                      /\ life'[c] = "live" => c \in Mapped' \cup orphans' \cup stale'
    BY DEF NothingIsForgotten
  <2>1. ASSUME link'[c] = "open" PROVE c \in orphans
    <3>1. link[c] = "open" /\ ~\E n \in Numbers : owner[n] = c /\ map[n] # NOBODY
      BY <1>3, <2>1
    <3>2. c \notin stale  BY <3>1 DEF TableInv, StaleIsClosed
    <3>3. c \notin Mapped
      BY <3>1, <3>2, NameFacts DEF TableInv, EntryIsCurrent, Mapped
    <3>. QED  BY <3>1, <3>3 DEF TableInv, NothingIsForgotten
  <2>2. ASSUME life'[c] = "live" PROVE c \in orphans \cup stale
    BY <1>4, <2>2 DEF TableInv, NothingIsForgotten
  <2>. QED  BY <1>1, <2>1, <2>2
<1>. QED  BY <1>6, <1>7, <1>8, <1>9, <1>10, <1>11 DEF TableInv

\* epoll reports no connection but those that are watched, and so no number whose
\* connection has no session.
LEMMA ReportsKeep ==
    ASSUME TableTypeInv, TableInv, NEW S \in SUBSET (Peers \cup {LISTEN}), EpollReports(S)
    PROVE  TableInv'
<1> USE DEF TableTypeInv, TableTypeOK
<1>1. /\ \A e \in events' : e.fd # NOBODY =>
            e.fd \in Numbers /\ e.conn = owner[e.fd] /\ e.conn \in S \ {LISTEN}
      /\ \A e, f \in events' : e.fd = f.fd => e = f
  BY ReportFacts
<1>2. /\ UNCHANGED <<owner, link, watched, at, map, life, orphans, stale>>
      /\ main = "wait" /\ S \subseteq Reportable
  BY DEF EpollReports, sessVars
<1>3. S \ {LISTEN} \subseteq watched  BY <1>2 DEF Reportable
<1>4. at = NoEvent  BY <1>2
<1>5. EventsAreCurrent'
  <2>1. ASSUME NEW e \in events', e.fd \in Numbers
        PROVE  owner[e.fd] = e.conn /\ map[e.fd] \in {e.conn, NOBODY}
    <3>1. e.conn = owner[e.fd] /\ e.conn \in watched /\ e.conn \in Peers
      BY <1>1, <1>3, <2>1, NameFacts
    <3>. QED  BY <2>1, <3>1, NameFacts DEF TableInv, EntryIsCurrent
  <2>. QED  BY <1>1, <1>2, <1>4, <2>1, NameFacts DEF EventsAreCurrent
<1>. QED  BY <1>2, <1>5, TableKept

LEMMA TableStep == TableTypeInv /\ TableInv /\ [TableNext]_tableVars => TableInv'
<1> SUFFICES ASSUME TableTypeInv, TableInv, [TableNext]_tableVars PROVE TableInv'  OBVIOUS
<1> USE DEF linkVars, loopVars, sessVars
<1>1. CASE CheckStop \/ Interrupted \/ EventsEnd \/ ListenEvent \/ AcceptDone
  <2>1. /\ UNCHANGED <<owner, link, watched, at, map, life, orphans, stale>>
        /\ events' \subseteq events
    BY <1>1 DEF CheckStop, Interrupted, EventsEnd, ListenEvent, AcceptDone
  <2>. QED  BY <2>1, EventsShrink, TableKept
<1>2. ASSUME NEW n \in Numbers, NEW c \in Peers, AcceptConn(n, c) \/ AcceptNoSession(n, c)
      PROVE  TableInv'
  BY <1>2, AcceptKeeps, AcceptNoSessionKeeps
<1>3. ASSUME NEW e \in events, UnknownEvent(e) PROVE TableInv'
  <2>1. /\ UNCHANGED <<owner, link, at, map, life, orphans, stale>>
        /\ events' \subseteq events /\ watched' \subseteq watched
    BY <1>3 DEF UnknownEvent
  <2>. QED  BY <2>1, EventsShrink, TableKept
<1>4. ASSUME NEW e \in events, HupEvent(e) \/ ReadNetError(e) \/ ReadBodyError(e)
      PROVE  TableInv'
  <2>1. /\ Handles(e) /\ Destroy(e.fd) /\ events' = events \ {e}
        /\ UNCHANGED <<at, orphans, stale>>
    BY <1>4 DEF HupEvent, ReadNetError, ReadBodyError
  <2>. QED  BY <2>1, DestroyKeeps
<1>5. ASSUME NEW e \in events, ReadToEagain(e) PROVE TableInv'
  <2>1. /\ UNCHANGED <<owner, link, watched, map, life, orphans, stale>>
        /\ events' = events \ {e} /\ (at' = at \/ at' = e)
    BY <1>5 DEF ReadToEagain, AfterRead
  <2>2. CASE at' = at  BY <2>1, <2>2, EventsShrink, TableKept
  <2>3. CASE at' = e
    <3>1. map[e.fd] # NOBODY  BY <1>5 DEF ReadToEagain, Handles
    <3>2. \A f \in events' : f.fd # e.fd  BY <2>1 DEF TableInv, EventsAreCurrent
    <3>3. EventsAreCurrent'  BY <2>1, <2>3, <3>1, <3>2 DEF TableInv, EventsAreCurrent
    <3>. QED  BY <2>1, <3>3, TableKept
  <2>. QED  BY <2>1, <2>2, <2>3
<1>6. CASE OutWrites
  <2>1. UNCHANGED <<owner, link, watched, events, map, life, orphans, stale>> /\ at' = NoEvent
    BY <1>6 DEF OutWrites, Out
  <2>. QED  BY <2>1, EventsShrink, TableKept
<1>7. CASE OutError \/ Cleanup  BY <1>7, OutErrorKeeps, CleanupKeeps
<1>8. ASSUME NEW S \in SUBSET (Peers \cup {LISTEN}), EpollReports(S) PROVE TableInv'
  BY <1>8, ReportsKeep
<1>9. ASSUME NEW c \in Peers, PeerConnects(c) PROVE TableInv'
  <2>1. /\ link[c] = "new" /\ link' = [link EXCEPT ![c] = "queued"]
        /\ UNCHANGED <<owner, watched, events, at, map, life, orphans, stale>>
    BY <1>9 DEF PeerConnects
  <2>2. \A d \in Peers : link'[d] = link[d] \/ (d = c /\ link'[d] = "queued")
    BY <2>1 DEF TableTypeInv, TableTypeOK
  <2>3. Mapped' = Mapped /\ EventsAreCurrent'
    BY <2>1, EventsShrink DEF Mapped
  <2>4. OneNumber'  BY <2>1, <2>2 DEF TableInv, OneNumber, TableTypeInv, TableTypeOK
  <2>. QED
    BY <2>1, <2>2, <2>3, <2>4
    DEF TableInv, NotYetKnown, OneEntry, StaleIsClosed, EntryIsCurrent, NothingIsForgotten
<1>10. CASE Signal \/ UNCHANGED tableVars
            \/ \E c \in Peers : PeerSends(c) \/ PeerGoes(c) \/ PeerReads(c)
  <2>1. UNCHANGED <<owner, link, watched, events, at, map, life, orphans, stale>>
    BY <1>10 DEF Signal, tableVars, PeerSends, PeerGoes, PeerReads
  <2>. QED  BY <2>1, EventsShrink, TableKept
<1>. QED
  BY <1>1, <1>2, <1>3, <1>4, <1>5, <1>6, <1>7, <1>8, <1>9, <1>10
  DEF TableNext, MainStep, AcceptStep, ConnStep, Reports

LEMMA TableInvariant == TableSpec => [](TableTypeInv /\ TableInv)
<1>1. TableInit => TableTypeInv /\ TableInv  BY TypeInit, TableStart
<1>2. TableTypeInv /\ TableInv /\ [TableNext]_tableVars => (TableTypeInv /\ TableInv)'
  BY TypeStep, TableStep
<1>. QED  BY <1>1, <1>2, PTL DEF TableSpec

\* For any number of connections, numbers, failures of malloc and size of the array: an
\* entry of the map (hashmap_get_int) leads to a live session of the connection that has the
\* number, or to one that handle_epollout has closed; an event of the batch is for the
\* connection that has its number when it is handled; and the batch fits the array.
THEOREM NumbersStayCurrent == TableSpec => []NumbersAreCurrent
<1>1. TableTypeInv /\ TableInv => NumbersAreCurrent
  BY DEF TableTypeInv, TableInv, EntryIsCurrent, EventsAreCurrent, NumbersAreCurrent
<1>. QED  BY <1>1, TableInvariant, PTL

\* Every open connection and every live session can be reached through the map, but for
\* those that a failed malloc has kept out of it, or handle_epollout has cut off; so the
\* clean-up of main, which goes through the map, leaves nothing else behind.
THEOREM NothingEverForgotten == TableSpec => []NothingIsForgotten
<1>1. TableInv => NothingIsForgotten  BY DEF TableInv
<1>. QED  BY <1>1, TableInvariant, PTL

-----------------------------------------------------------------------------
(* SelectServer.                                                           *)

-----------------------------------------------------------------------------
(* The table of clients and the descriptor table.                          *)

QueueNode == [data : Seq(Conns \X Nat), off : Nat]
Client    == [sockfd : Fds \cup {0}, queue : Seq(QueueNode)]

SlotType ==
    /\ TypeOK
    /\ clients \in [Slots -> Client]
    /\ pc \in {"send", "recv"} => i < MaxClients

\* The socket that accept has just made and that finds no slot.
Refused(fd) == pc = "refuse" /\ fd = sd

SlotsOpen     == \A s \in Slots : clients[s].sockfd # 0 => table[clients[s].sockfd] # FREE
OneSlot       == \A s, t \in Slots :
                    clients[s].sockfd # 0 /\ clients[s].sockfd = clients[t].sockfd => s = t
NoneForgotten == \A fd \in Fds : table[fd] # FREE =>
                    Refused(fd) \/ \E s \in Slots : clients[s].sockfd = fd
FreeIsEmpty   == \A s \in Slots : clients[s].sockfd = 0 => clients[s].queue = <<>>

\* sd is the number of the slot at hand, also where SendError has closed it and freed the
\* slot; or that of the socket about to be closed.
AtHand ==
    /\ pc \in {"send", "recv", "refuse"} => sd # 0
    /\ pc = "send" => clients[i].sockfd = sd
    /\ pc = "recv" => \/ clients[i].sockfd = sd
                      \/ clients[i] = NoClient /\ table[sd] = FREE
    /\ pc = "refuse" => table[sd] # FREE /\ \A s \in Slots : clients[s].sockfd # sd

SlotsInv == SlotsOpen /\ OneSlot /\ NoneForgotten /\ FreeIsEmpty /\ AtHand

-----------------------------------------------------------------------------
(* The connections and their bytes.                                        *)

\* A connection has one number, as long as it is open.
NumbersInv ==
    /\ \A f, g \in Fds : table[f] # FREE /\ table[f] = table[g] => f = g
    /\ \A fd \in Fds : table[fd] # FREE =>
          conn[table[fd]] = IF Refused(fd) THEN "refused" ELSE "open"

\* Where the bytes of a node start, in its client's stream.
Start(n) == n.data[1][2] - 1

\* Of c's bytes d were sent and r received: q holds the others, in order, each node
\* with a rest.
InTurn(q, c, d, r) ==
    /\ \A j \in DOMAIN q :
          /\ q[j].off < Len(q[j].data) /\ (j > 1 => q[j].off = 0)
          /\ \A b \in DOMAIN q[j].data : q[j].data[b] = <<c, Start(q[j]) + b>>
          /\ Start(q[j]) + Len(q[j].data) <= r
          /\ j = 1 => Start(q[j]) + q[j].off = d
          /\ j > 1 => Start(q[j]) = Start(q[j - 1]) + Len(q[j - 1].data)
          /\ j = Len(q) => Start(q[j]) + Len(q[j].data) = r
    /\ q = <<>> => d = r

BytesInv ==
    /\ \A c \in Conns :
          /\ rd[c] <= sent[c] /\ sent[c] <= Total[c]
          /\ conn[c] \in {"none", "pending"} => rd[c] = 0 /\ out[c] = <<>>
          /\ \A b \in DOMAIN out[c] : out[c][b] = <<c, b>>
    /\ \A s \in Slots : clients[s].sockfd # 0 =>
          LET c == table[clients[s].sockfd] IN
          InTurn(clients[s].queue, c, Len(out[c]), rd[c])

-----------------------------------------------------------------------------
(* Types.                                                                  *)

LEMMA AtHandFacts ==
    ASSUME SlotType, SlotsInv
    PROVE  /\ pc \in {"send", "recv"} => i \in Slots /\ sd \in Fds
           /\ pc = "send" => clients[i].sockfd = sd /\ table[sd] \in Conns
           /\ pc = "recv" /\ table[sd] # FREE =>
                 clients[i].sockfd = sd /\ table[sd] \in Conns
           /\ pc = "refuse" => sd \in Fds /\ table[sd] \in Conns
<1>. USE DEF SlotType, TypeOK, SlotsInv, AtHand, Slots
<1>1. CASE pc = "send"
  BY <1>1, ServerAssumption DEF SlotsOpen
<1>2. CASE pc = "recv"
  BY <1>2, ServerAssumption
<1>3. CASE pc = "refuse"
  BY <1>3, ServerAssumption
<1>. QED  BY <1>1, <1>2, <1>3

LEMMA NodeFacts ==
    ASSUME SlotType, i \in Slots, Queue # <<>>
    PROVE  /\ Queue \in Seq(QueueNode) /\ Node \in QueueNode /\ Len(Queue) \in Nat \ {0}
           /\ Node.data \in Seq(Conns \X Nat) /\ Len(Node.data) \in Nat
           /\ Node.off \in Nat /\ Left \in Int
<1>1. Queue \in Seq(QueueNode)  BY DEF SlotType, Client, Queue
<1>2. Len(Queue) \in Nat \ {0} /\ Queue[1] \in QueueNode
  BY <1>1, LenProperties, EmptySeq, ElementOfSeq
<1>3. Node.data \in Seq(Conns \X Nat) /\ Node.off \in Nat
  BY <1>2 DEF Node, QueueNode
<1>4. Len(Node.data) \in Nat  BY <1>3, LenProperties
<1>. QED  BY <1>1, <1>2, <1>3, <1>4 DEF Node, Left

LEMMA ReadFacts ==
    ASSUME NetTypeOK, NEW c \in Conns, Unread(c) > 0
    PROVE  /\ ReadLen(c) \in Nat \ {0} /\ ReadLen(c) <= Unread(c)
           /\ ReadBytes(c) \in Seq(Conns \X Nat) /\ Len(ReadBytes(c)) = ReadLen(c)
<1>1. sent[c] \in Nat /\ rd[c] \in Nat  BY DEF NetTypeOK
<1>2. ReadLen(c) \in Nat \ {0} /\ ReadLen(c) <= Unread(c)
  BY <1>1, ClientsAssumption DEF ReadLen, Unread
<1>3. \A b \in 1 .. ReadLen(c) : rd[c] + b \in Nat  BY <1>1
<1>4. ReadBytes(c) \in [1 .. ReadLen(c) -> Conns \X Nat]  BY <1>3 DEF ReadBytes
<1>5. ReadBytes(c) \in Seq(Conns \X Nat)  BY <1>2, <1>4, SeqDef
<1>. QED  BY <1>2, <1>4, <1>5, LenProperties

LEMMA ClientTypes ==
    ASSUME SlotType, UNCHANGED <<serverVars, limit>>,
           NEW c \in Conns, Connect(c) \/ ClientSend(c) \/ ClientRead(c) \/ ClientEnd(c)
    PROVE  SlotType'
<1>1. NetTypeOK  BY DEF SlotType, TypeOK
<1>2. NetTypeOK'
  <2>1. CASE Connect(c)  BY <1>1, <2>1 DEF NetTypeOK, Connect, clientVars
  <2>2. CASE ClientSend(c)  BY <1>1, <2>2 DEF NetTypeOK, ClientSend
  <2>3. CASE ClientRead(c)
    <3>1. got' \in [Conns -> Nat]
      <4>1. got' = [got EXCEPT ![c] = got[c] + 1]  BY <2>3 DEF ClientRead
      <4>. QED  BY <1>1, <4>1 DEF NetTypeOK
    <3>. QED  BY <1>1, <2>3, <3>1 DEF NetTypeOK, ClientRead
  <2>4. CASE ClientEnd(c)
    <3>1. peer' \in [Conns -> {"up", "fin", "reset", "abort"}]
      BY <1>1, <2>4, ClientsAssumption DEF NetTypeOK, ClientEnd
    <3>. QED  BY <1>1, <2>4, <3>1 DEF NetTypeOK, ClientEnd
  <2>. QED  BY <2>1, <2>2, <2>3, <2>4
<1>. QED  BY <1>2 DEF SlotType, TypeOK, serverVars

LEMMA ServerTypes ==
    ASSUME SlotType, SlotsInv, ServerStep
    PROVE  SlotType'
<1>1. TypeOK /\ NetTypeOK /\ clients \in [Slots -> Client]  BY DEF SlotType, TypeOK
<1>l. limit' \in FdLimits  BY <1>1 DEF TypeOK, ServerStep
<1>2. SUFFICES /\ NetTypeOK'
               /\ table' \in [Fds -> Conns \cup {FREE}]
               /\ alive' \in BOOLEAN
               /\ pc' \in {"select", "accept", "refuse", "slots", "send", "recv"}
               /\ clients' \in [Slots -> Client]
               /\ rset' \subseteq Fds \cup {ServerFd} /\ wset' \subseteq Fds
               /\ i' \in 0 .. MaxClients /\ sd' \in Fds \cup {0}
               /\ pc' \in {"send", "recv"} => i' < MaxClients
  BY <1>2, <1>l DEF SlotType, TypeOK, Client, QueueNode
<1>3. CASE Select
  <2>1. rset' \subseteq Fds \cup {ServerFd} /\ wset' \subseteq Fds
    BY <1>1, <1>3 DEF Select, ReadFds, WriteFds, Client
  <2>. QED  BY <1>1, <1>3, <2>1 DEF Select, TypeOK, NetTypeOK, clientVars
<1>4. CASE Accept
  <2>1. PICK c \in Pending, fd \in Fds :
           /\ table' = [table EXCEPT ![fd] = c]
           /\ conn' = [conn EXCEPT ![c] = "open"]
           /\ LET s == CHOOSE s \in FreeSlots : \A t \in FreeSlots : s <= t IN
                clients' = [clients EXCEPT ![s] = [sockfd |-> fd, queue |-> <<>>]]
    BY <1>4 DEF Accept
  <2>2. [sockfd |-> fd, queue |-> <<>>] \in Client  BY EmptySeq DEF Client
  <2>3. clients' \in [Slots -> Client]  BY <1>1, <2>1, <2>2
  <2>4. conn' \in [Conns -> {"none", "pending", "open", "refused", "closed"}]
    BY <1>1, <2>1 DEF NetTypeOK
  <2>5. table' \in [Fds -> Conns \cup {FREE}]  BY <1>1, <2>1 DEF TypeOK, Pending
  <2>. QED  BY <1>1, <1>4, <2>3, <2>4, <2>5 DEF Accept, TypeOK, NetTypeOK, clientVars
<1>5. CASE AcceptRefuses
  <2>1. PICK c \in Pending, fd \in Fds :
           /\ table' = [table EXCEPT ![fd] = c]
           /\ sd' = fd
           /\ conn' = [conn EXCEPT ![c] = "refused"]
    BY <1>5 DEF AcceptRefuses
  <2>2. conn' \in [Conns -> {"none", "pending", "open", "refused", "closed"}]
    BY <1>1, <2>1 DEF NetTypeOK
  <2>3. table' \in [Fds -> Conns \cup {FREE}]  BY <1>1, <2>1 DEF TypeOK, Pending
  <2>. QED  BY <1>1, <1>5, <2>1, <2>2, <2>3 DEF AcceptRefuses, TypeOK, NetTypeOK, clientVars
<1>6. ASSUME NEW fd \in Fds, Close(fd)
      PROVE  /\ table' \in [Fds -> Conns \cup {FREE}]
             /\ conn' \in [Conns -> {"none", "pending", "open", "refused", "closed"}]
  BY <1>1, <1>6 DEF Close, TypeOK, NetTypeOK
<1>7. CASE CloseRefused
  <2>1. sd \in Fds  BY <1>7, AtHandFacts DEF CloseRefused
  <2>. QED  BY <1>1, <1>6, <1>7, <2>1 DEF CloseRefused, TypeOK, NetTypeOK, clientVars
<1>8. CASE AcceptEnds  BY <1>1, <1>8 DEF AcceptEnds, TypeOK, NetTypeOK, clientVars
<1>9. CASE Slot
  <2>2. i \in Nat /\ i < MaxClients /\ MaxClients \in Nat
    BY <1>1, <1>9, ServerAssumption DEF Slot, TypeOK
  <2>1. i \in Slots /\ clients[i].sockfd \in Fds \cup {0}
    BY <1>1, <2>2 DEF Slots, Client
  <2>3. i' \in 0 .. MaxClients /\ (pc' \in {"send", "recv"} => i' < MaxClients)
    BY <1>9, <2>2 DEF Slot
  <2>4. pc' \in {"slots", "send", "recv"}  BY <1>9 DEF Slot
  <2>. QED  BY <1>1, <1>9, <2>1, <2>3, <2>4 DEF Slot, TypeOK, NetTypeOK, clientVars
<1>10. CASE SlotsEnd
  BY <1>1, <1>10, ServerAssumption DEF SlotsEnd, TypeOK, NetTypeOK, clientVars
<1>11. CASE SendSome
  <2>0. i \in Slots /\ sd \in Fds /\ table[sd] \in Conns
    BY <1>11, AtHandFacts DEF SendSome
  <2>1. PICK k \in 1 .. SendRoom :
           /\ k <= Left
           /\ out' = [out EXCEPT ![table[sd]] =
                        @ \o SubSeq(Node.data, Node.off + 1, Node.off + k)]
           /\ clients' = [clients EXCEPT ![i].queue =
                            IF k = Left THEN dequeue_sent ELSE advance_sent(k)]
    BY <1>11 DEF SendSome
  <2>2. /\ Queue \in Seq(QueueNode) /\ Node \in QueueNode /\ Len(Queue) \in Nat \ {0}
        /\ Node.data \in Seq(Conns \X Nat) /\ Len(Node.data) \in Nat
        /\ Node.off \in Nat /\ Left \in Int
    BY <1>11, <2>0, NodeFacts DEF SendSome
  <2>3. k \in Nat  BY ClientsAssumption
  <2>4. out' \in [Conns -> Seq(Conns \X Nat)]
    <3> DEFINE chunk == SubSeq(Node.data, Node.off + 1, Node.off + k)
    <3>1. \A l \in Node.off + 1 .. Node.off + k : Node.data[l] \in Conns \X Nat
      <4> SUFFICES ASSUME NEW l \in Node.off + 1 .. Node.off + k
                   PROVE  Node.data[l] \in Conns \X Nat
        OBVIOUS
      <4>1. l \in 1 .. Len(Node.data)  BY <2>1, <2>2, <2>3 DEF Left
      <4>. QED  BY <2>2, <4>1, ElementOfSeq
    <3>2. Node.off + 1 \in Int /\ Node.off + k \in Int  BY <2>2, <2>3
    <3>3. chunk \in Seq(Conns \X Nat)  BY <3>1, <3>2, SubSeqProperties
    <3> HIDE DEF chunk
    <3>4. out[table[sd]] \in Seq(Conns \X Nat)  BY <1>1, <2>0 DEF NetTypeOK
    <3>5. out[table[sd]] \o chunk \in Seq(Conns \X Nat)  BY <3>3, <3>4, ConcatProperties
    <3>6. out' = [out EXCEPT ![table[sd]] = out[table[sd]] \o chunk]  BY <2>1 DEF chunk
    <3>. QED  BY <1>1, <2>0, <3>5, <3>6 DEF NetTypeOK
  <2>5. clients' \in [Slots -> Client]
    <3>1. CASE k = Left
      <4>1. Tail(Queue) \in Seq(QueueNode)  BY <2>2, HeadTailProperties, EmptySeq
      <4>2. clients' = [clients EXCEPT ![i].queue = Tail(Queue)]
        BY <2>1, <3>1 DEF dequeue_sent
      <4>. QED  BY <1>1, <4>1, <4>2 DEF Client
    <3>2. CASE k # Left
      <4> DEFINE node == [Node EXCEPT !.off = @ + k]
                 rest == [Queue EXCEPT ![1] = node]
      <4>1. node \in QueueNode
        <5>1. Node.off + k \in Nat  BY <2>2, <2>3
        <5>. QED  BY <2>2, <5>1 DEF QueueNode
      <4>2. rest \in Seq(QueueNode)
        <5> HIDE DEF node
        <5>. QED  BY <2>2, <4>1, ExceptSeq
      <4>3. clients' = [clients EXCEPT ![i].queue = advance_sent(k)]
        BY <2>1, <3>2
      <4>4. advance_sent(k) = rest
        BY DEF advance_sent, Node
      <4> HIDE DEF rest
      <4>. QED  BY <1>1, <4>2, <4>3, <4>4 DEF Client
    <3>. QED  BY <3>1, <3>2
  <2>6. pc' \in {"send", "recv"}  BY <1>11 DEF SendSome
  <2>. QED  BY <1>1, <1>11, <2>4, <2>5, <2>6 DEF SendSome, SlotType, TypeOK, NetTypeOK, clientVars
<1>12. CASE SendEnds
  BY <1>1, <1>12 DEF SendEnds, SlotType, TypeOK, NetTypeOK, clientVars
<1>13. NoClient \in Client  BY EmptySeq DEF NoClient, Client
<1>14. CASE SendError
  <2>1. sd \in Fds  BY <1>14, AtHandFacts DEF SendError
  <2>. QED  BY <1>1, <1>6, <1>13, <1>14, <2>1
            DEF SendError, SlotType, TypeOK, NetTypeOK, clientVars
<1>15. CASE Sigpipe
  BY <1>1, <1>15 DEF Sigpipe, SlotType, TypeOK, NetTypeOK, clientVars
<1>16. pc = "recv" /\ NextSlot => /\ pc' = "slots" /\ i' \in 0 .. MaxClients /\ sd' = 0
  BY <1>1, ServerAssumption DEF NextSlot, SlotType, TypeOK
<1>17. CASE RecvSkips
  BY <1>1, <1>16, <1>17 DEF RecvSkips, TypeOK, NetTypeOK, clientVars
<1>18. CASE RecvSome
  <2>0. i \in Slots /\ sd \in Fds /\ table[sd] \in Conns
    BY <1>18, AtHandFacts DEF RecvSome
  <2>1. ReadLen(table[sd]) \in Nat /\ ReadBytes(table[sd]) \in Seq(Conns \X Nat)
    BY <1>1, <1>18, <2>0, ReadFacts DEF RecvSome
  <2>2. rd' \in [Conns -> Nat]
    BY <1>1, <1>18, <2>0, <2>1 DEF RecvSome, NetTypeOK
  <2>3. enqueue_send(ReadBytes(table[sd])) \in Seq(QueueNode)
    BY <1>1, <2>0, <2>1, AppendProperties DEF enqueue_send, QueueNode, Client, Queue
  <2>4. clients' \in [Slots -> Client]
    BY <1>1, <1>18, <2>0, <2>3 DEF RecvSome, Client
  <2>. QED  BY <1>1, <1>18, <2>2, <2>4 DEF RecvSome, SlotType, TypeOK, NetTypeOK, clientVars
<1>19. CASE RecvEagain
  BY <1>1, <1>16, <1>19 DEF RecvEagain, TypeOK, NetTypeOK, clientVars
<1>20. CASE RecvEnd
  <2>1. sd \in Fds  BY <1>20, AtHandFacts DEF RecvEnd
  <2>. QED  BY <1>1, <1>6, <1>13, <1>16, <1>20, <2>1
            DEF RecvEnd, TypeOK, NetTypeOK, clientVars
<1>. QED
  BY <1>3, <1>4, <1>5, <1>7, <1>8, <1>9, <1>10, <1>11, <1>12, <1>14, <1>15, <1>17,
     <1>18, <1>19, <1>20 DEF ServerStep

-----------------------------------------------------------------------------
(* Slots and numbers.                                                      *)

\* accept finds the first free slot.
LEMMA FirstFree ==
    ASSUME FreeSlots # {}
    PROVE  (CHOOSE s \in FreeSlots : \A t \in FreeSlots : s <= t) \in FreeSlots
<1> DEFINE R == OpToRel(<, Nat)
<1>1. IsWellFoundedOn(R, Nat)  BY NatLessThanWellFounded
<1>2. \A s, t \in Nat : s < t => <<s, t>> \in R  BY DEF OpToRel
<1> HIDE DEF R
<1>3. FreeSlots \subseteq Nat  BY DEF FreeSlots, Slots
<1>4. PICK s \in FreeSlots : \A t \in FreeSlots : ~(<<t, s>> \in R)
  BY <1>1, <1>3, WFMin
<1>5. \A t \in FreeSlots : ~(t < s)  BY <1>2, <1>3, <1>4
<1>6. \A t \in FreeSlots : s <= t  BY <1>3, <1>5
<1>. QED  BY <1>6

\* As long as tables and slots stay, only the place in the loop can be wrong.
LEMMA SlotsKept ==
    ASSUME SlotType, SlotsInv, pc # "refuse", UNCHANGED table,
           clients' \in [Slots -> Client],
           \A s \in Slots : /\ clients'[s].sockfd = clients[s].sockfd
                            /\ clients[s].sockfd = 0 => clients'[s].queue = clients[s].queue
    PROVE  SlotsOpen' /\ OneSlot' /\ NoneForgotten' /\ FreeIsEmpty'
<1>. USE DEF SlotsInv
<1>1. SlotsOpen'  BY DEF SlotsOpen
<1>2. OneSlot'  BY DEF OneSlot
<1>3. NoneForgotten'  BY DEF NoneForgotten, Refused
<1>4. FreeIsEmpty'  BY DEF FreeIsEmpty
<1>. QED  BY <1>1, <1>2, <1>3, <1>4

\* A slot and its number are given up together.
LEMMA SlotFreed ==
    ASSUME SlotType, SlotsInv, pc \in {"send", "recv"}, Close(sd),
           clients' = [clients EXCEPT ![i] = NoClient]
    PROVE  /\ SlotsOpen' /\ OneSlot' /\ NoneForgotten' /\ FreeIsEmpty'
           /\ table'[sd] = FREE /\ clients'[i] = NoClient
           /\ \A s \in Slots \ {i} : clients[s].sockfd # sd
<1>1. i \in Slots /\ sd \in Fds  BY AtHandFacts
<1>2. clients[i].sockfd = sd \/ (clients[i] = NoClient /\ table[sd] = FREE)
  BY DEF SlotsInv, AtHand
<1>3. /\ clients'[i] = NoClient
      /\ \A s \in Slots \ {i} : clients'[s] = clients[s]
      /\ table'[sd] = FREE /\ \A fd \in Fds \ {sd} : table'[fd] = table[fd]
  BY <1>1 DEF SlotType, TypeOK, Close
<1>4. \A s \in Slots \ {i} : clients[s].sockfd # sd
  BY <1>1, <1>2, ServerAssumption DEF SlotsInv, SlotsOpen, OneSlot
<1>5. NoClient.sockfd = 0 /\ NoClient.queue = <<>>  BY DEF NoClient
<1>6. \A s \in Slots \ {i} : clients[s].sockfd \in Fds \cup {0}
  BY DEF SlotType, Client
<1>7. SlotsOpen'
  BY <1>3, <1>4, <1>5, <1>6 DEF SlotsInv, SlotsOpen
<1>8. OneSlot'
  BY <1>3, <1>5 DEF SlotsInv, OneSlot
<1>9. NoneForgotten'
  <2> SUFFICES ASSUME NEW fd \in Fds, table'[fd] # FREE
               PROVE  \E s \in Slots : clients'[s].sockfd = fd
    BY DEF NoneForgotten
  <2>1. fd # sd /\ table[fd] # FREE  BY <1>3
  <2>2. PICK s \in Slots : clients[s].sockfd = fd
    BY <2>1 DEF SlotsInv, NoneForgotten, Refused
  <2>3. s # i  BY <1>2, <2>1, <2>2, <1>5, ServerAssumption
  <2>. QED  BY <1>3, <2>2, <2>3
<1>10. FreeIsEmpty'
  BY <1>3, <1>5 DEF SlotsInv, FreeIsEmpty
<1>. QED  BY <1>3, <1>4, <1>7, <1>8, <1>9, <1>10

LEMMA ServerSlots ==
    ASSUME SlotType, SlotsInv, SlotType', ServerStep
    PROVE  SlotsInv'
<1>0. /\ clients \in [Slots -> Client] /\ clients' \in [Slots -> Client]
      /\ table \in [Fds -> Conns \cup {FREE}]
  BY DEF SlotType, TypeOK
<1>k. ASSUME pc # "refuse", UNCHANGED <<table, clients>>
      PROVE  SlotsOpen' /\ OneSlot' /\ NoneForgotten' /\ FreeIsEmpty'
  BY <1>0, <1>k, SlotsKept
<1>1. CASE Select
  <2>1. AtHand'  BY <1>1 DEF Select, AtHand
  <2>. QED  BY <1>k, <1>1, <2>1 DEF Select, SlotsInv
<1>2. CASE Accept
  <2> DEFINE s0 == CHOOSE s \in FreeSlots : \A t \in FreeSlots : s <= t
  <2>1. PICK c \in Pending, fd \in Fds :
           /\ NewFd(fd)
           /\ table' = [table EXCEPT ![fd] = c]
           /\ clients' = [clients EXCEPT ![s0] = [sockfd |-> fd, queue |-> <<>>]]
    BY <1>2 DEF Accept
  <2>2. s0 \in FreeSlots  BY <1>2, FirstFree DEF Accept
  <2> HIDE DEF s0
  <2>3. s0 \in Slots /\ clients[s0].sockfd = 0  BY <2>2 DEF FreeSlots
  <2>4. table[fd] = FREE /\ c # FREE /\ fd # 0
    BY <2>1, ServerAssumption DEF NewFd, Pending
  <2>5. /\ clients'[s0].sockfd = fd /\ clients'[s0].queue = <<>>
        /\ \A s \in Slots \ {s0} : clients'[s] = clients[s]
        /\ table'[fd] = c /\ \A f \in Fds \ {fd} : table'[f] = table[f]
    BY <1>0, <2>1, <2>3
  <2>6. \A s \in Slots : clients[s].sockfd # fd
    BY <2>4 DEF SlotsInv, SlotsOpen
  <2>7. \A s \in Slots : clients[s].sockfd \in Fds \cup {0}  BY <1>0 DEF Client
  <2>8. SlotsOpen'  BY <2>4, <2>5, <2>6, <2>7 DEF SlotsInv, SlotsOpen
  <2>9. OneSlot'  BY <2>5, <2>6 DEF SlotsInv, OneSlot
  <2>10. NoneForgotten'
    <3> SUFFICES ASSUME NEW f \in Fds, table'[f] # FREE
                 PROVE  \E s \in Slots : clients'[s].sockfd = f
      BY DEF NoneForgotten
    <3>1. CASE f = fd  BY <2>3, <2>5, <3>1
    <3>2. CASE f # fd
      <4>1. PICK s \in Slots : clients[s].sockfd = f
        BY <1>2, <2>5, <3>2 DEF SlotsInv, NoneForgotten, Refused, Accept
      <4>2. s # s0  BY <2>3, <4>1, ServerAssumption
      <4>. QED  BY <2>5, <4>1, <4>2
    <3>. QED  BY <3>1, <3>2
  <2>11. FreeIsEmpty'  BY <2>5 DEF SlotsInv, FreeIsEmpty
  <2>12. AtHand'  BY <1>2 DEF Accept, AtHand
  <2>. QED  BY <2>8, <2>9, <2>10, <2>11, <2>12 DEF SlotsInv
<1>3. CASE AcceptRefuses
  <2>1. PICK c \in Pending, fd \in Fds :
           NewFd(fd) /\ table' = [table EXCEPT ![fd] = c] /\ sd' = fd
    BY <1>3 DEF AcceptRefuses
  <2>2. table[fd] = FREE /\ c # FREE /\ fd # 0
    BY <2>1, ServerAssumption DEF NewFd, Pending
  <2>3. table'[fd] = c /\ \A f \in Fds \ {fd} : table'[f] = table[f]
    BY <1>0, <2>1
  <2>4. \A s \in Slots : clients[s].sockfd # fd /\ clients[s].sockfd \in Fds \cup {0}
    BY <1>0, <2>2 DEF SlotsInv, SlotsOpen, Client
  <2>5. UNCHANGED clients /\ pc = "accept" /\ pc' = "refuse"  BY <1>3 DEF AcceptRefuses
  <2>6. SlotsOpen'  BY <2>3, <2>4, <2>5 DEF SlotsInv, SlotsOpen
  <2>7. NoneForgotten'
    BY <2>1, <2>3, <2>5 DEF SlotsInv, NoneForgotten, Refused
  <2>8. OneSlot' /\ FreeIsEmpty'  BY <2>5 DEF SlotsInv, OneSlot, FreeIsEmpty
  <2>9. AtHand'  BY <2>1, <2>2, <2>3, <2>4, <2>5 DEF AtHand
  <2>. QED  BY <2>6, <2>7, <2>8, <2>9 DEF SlotsInv
<1>4. CASE CloseRefused
  <2>1. /\ sd \in Fds /\ pc = "refuse" /\ pc' = "accept" /\ UNCHANGED clients
        /\ \A s \in Slots : clients[s].sockfd # sd /\ clients[s].sockfd \in Fds \cup {0}
    BY <1>0, <1>4, AtHandFacts DEF CloseRefused, SlotsInv, AtHand, Client
  <2>2. table'[sd] = FREE /\ \A f \in Fds \ {sd} : table'[f] = table[f]
    BY <1>0, <1>4, <2>1 DEF CloseRefused, Close
  <2>3. SlotsOpen'  BY <2>1, <2>2 DEF SlotsInv, SlotsOpen
  <2>4. NoneForgotten'  BY <2>1, <2>2 DEF SlotsInv, NoneForgotten, Refused
  <2>5. OneSlot' /\ FreeIsEmpty'  BY <2>1 DEF SlotsInv, OneSlot, FreeIsEmpty
  <2>6. AtHand'  BY <2>1 DEF AtHand
  <2>. QED  BY <2>3, <2>4, <2>5, <2>6 DEF SlotsInv
<1>5. CASE AcceptEnds
  <2>1. AtHand'  BY <1>5 DEF AcceptEnds, AtHand
  <2>. QED  BY <1>k, <1>5, <2>1 DEF AcceptEnds, SlotsInv
<1>6. CASE Slot
  <2>1. AtHand'  BY <1>6 DEF Slot, AtHand
  <2>. QED  BY <1>k, <1>6, <2>1 DEF Slot, SlotsInv
<1>7. CASE SlotsEnd
  <2>1. AtHand'  BY <1>7 DEF SlotsEnd, AtHand
  <2>. QED  BY <1>k, <1>7, <2>1 DEF SlotsEnd, SlotsInv
<1>q. ASSUME pc \in {"send", "recv"}, clients[i].sockfd = sd, UNCHANGED <<table, i, sd>>,
             pc' \in {"send", "recv"}, NEW queue,
             clients' = [clients EXCEPT ![i].queue = queue]
      PROVE  SlotsInv'
  <2>1. i \in Slots /\ sd \in Fds /\ sd # 0  BY <1>q, AtHandFacts, ServerAssumption
  <2>2. /\ clients'[i].sockfd = sd
        /\ \A s \in Slots \ {i} : clients'[s] = clients[s]
    BY <1>0, <1>q, <2>1 DEF Client
  <2>3. SlotsOpen' /\ OneSlot' /\ NoneForgotten' /\ FreeIsEmpty'
    BY <1>0, <1>q, <2>1, <2>2, SlotsKept
  <2>4. AtHand'  BY <1>q, <2>1, <2>2 DEF AtHand
  <2>. QED  BY <2>3, <2>4 DEF SlotsInv
<1>8. CASE SendSome
  <2>1. clients[i].sockfd = sd /\ pc' \in {"send", "recv"}
    BY <1>8, AtHandFacts DEF SendSome
  <2>2. \E queue : clients' = [clients EXCEPT ![i].queue = queue]  BY <1>8 DEF SendSome
  <2>. QED  BY <1>q, <1>8, <2>1, <2>2 DEF SendSome
<1>9. CASE SendEnds
  <2>1. AtHand'  BY <1>9 DEF SendEnds, AtHand, SlotsInv
  <2>. QED  BY <1>k, <1>9, <2>1 DEF SendEnds, SlotsInv
<1>10. CASE SendError
  <2>1. /\ SlotsOpen' /\ OneSlot' /\ NoneForgotten' /\ FreeIsEmpty'
        /\ table'[sd] = FREE /\ clients'[i] = NoClient
    BY <1>10, SlotFreed DEF SendError
  <2>2. AtHand'  BY <1>10, <2>1 DEF SendError, SlotsInv, AtHand
  <2>. QED  BY <2>1, <2>2 DEF SlotsInv
<1>11. CASE Sigpipe
  <2>1. AtHand'  BY <1>11 DEF Sigpipe, AtHand, SlotsInv
  <2>. QED  BY <1>k, <1>11, <2>1 DEF Sigpipe, SlotsInv
<1>12. CASE RecvSkips
  <2>1. AtHand'  BY <1>12 DEF RecvSkips, NextSlot, AtHand
  <2>. QED  BY <1>k, <1>12, <2>1 DEF RecvSkips, SlotsInv
<1>13. CASE RecvSome
  <2>1. clients[i].sockfd = sd  BY <1>13, AtHandFacts DEF RecvSome
  <2>. QED  BY <1>q, <1>13, <2>1 DEF RecvSome
<1>14. CASE RecvEagain
  <2>1. AtHand'  BY <1>14 DEF RecvEagain, NextSlot, AtHand
  <2>. QED  BY <1>k, <1>14, <2>1 DEF RecvEagain, SlotsInv
<1>15. CASE RecvEnd
  <2>1. SlotsOpen' /\ OneSlot' /\ NoneForgotten' /\ FreeIsEmpty'
    BY <1>15, SlotFreed DEF RecvEnd
  <2>2. AtHand'  BY <1>15 DEF RecvEnd, NextSlot, AtHand
  <2>. QED  BY <2>1, <2>2 DEF SlotsInv
<1>. QED
  BY <1>1, <1>2, <1>3, <1>4, <1>5, <1>6, <1>7, <1>8, <1>9, <1>10, <1>11, <1>12, <1>13,
     <1>14, <1>15 DEF ServerStep

LEMMA NumbersClosed ==
    ASSUME SlotType, NumbersInv, NEW fd \in Fds, Close(fd), pc' # "refuse",
           pc = "refuse" => fd = sd
    PROVE  NumbersInv'
<1>1. table \in [Fds -> Conns \cup {FREE}]  BY DEF SlotType, TypeOK
<1>2. table'[fd] = FREE /\ \A f \in Fds \ {fd} : table'[f] = table[f]
  BY <1>1 DEF Close
<1>3. \A f, g \in Fds : table'[f] # FREE /\ table'[f] = table'[g] => f = g
  BY <1>2 DEF NumbersInv
<1>4. ASSUME NEW f \in Fds, table'[f] # FREE  PROVE conn'[table'[f]] = "open"
  <2>1. f # fd /\ table'[f] = table[f] /\ table[f] \in Conns  BY <1>1, <1>2, <1>4
  <2>2. table[f] # table[fd]  BY <1>4, <2>1 DEF NumbersInv
  <2>3. conn[table[f]] = "open"  BY <1>4, <2>1 DEF NumbersInv, Refused
  <2>. QED  BY <2>1, <2>2, <2>3 DEF Close
<1>. QED  BY <1>3, <1>4 DEF NumbersInv, Refused

LEMMA NumbersStep ==
    ASSUME SlotType, SlotsInv, NumbersInv, [Next]_vars
    PROVE  NumbersInv'
<1>0. /\ table \in [Fds -> Conns \cup {FREE}]
      /\ conn \in [Conns -> {"none", "pending", "open", "refused", "closed"}]
  BY DEF SlotType, TypeOK, NetTypeOK
<1>k. ASSUME UNCHANGED <<table, conn>>, pc # "refuse", pc' # "refuse"
      PROVE  NumbersInv'
  BY <1>k DEF NumbersInv, Refused
<1>1. CASE UNCHANGED vars
  BY <1>1 DEF NumbersInv, Refused, vars, netVars, serverVars
<1>n. ASSUME NEW c \in Pending, NEW fd \in Fds, NewFd(fd), pc = "accept",
             table' = [table EXCEPT ![fd] = c], NEW x, conn' = [conn EXCEPT ![c] = x],
             x = IF Refused(fd)' THEN "refused" ELSE "open",
             pc' = "refuse" => sd' = fd
      PROVE  NumbersInv'
  <2>1. c \in Conns /\ conn[c] = "pending" /\ table[fd] = FREE  BY <1>n DEF Pending, NewFd
  <2>2. table'[fd] = c /\ \A f \in Fds \ {fd} : table'[f] = table[f]  BY <1>0, <1>n
  <2>3. \A f \in Fds : table[f] # FREE => table[f] \in Conns /\ conn[table[f]] = "open"
    BY <1>0, <1>n DEF NumbersInv, Refused
  <2>4. \A f \in Fds : table[f] # c  BY <2>1, <2>3, ServerAssumption
  <2>5. \A f, g \in Fds : table'[f] # FREE /\ table'[f] = table'[g] => f = g
    BY <2>2, <2>4 DEF NumbersInv
  <2>6. conn'[c] = x /\ \A d \in Conns \ {c} : conn'[d] = conn[d]  BY <1>0, <1>n, <2>1
  <2>7. ASSUME NEW f \in Fds, table'[f] # FREE
        PROVE  conn'[table'[f]] = IF Refused(f)' THEN "refused" ELSE "open"
    <3>1. CASE f = fd  BY <1>n, <2>2, <2>6, <3>1
    <3>2. CASE f # fd
      <4>1. ~Refused(f)'  BY <1>n, <3>2 DEF Refused
      <4>. QED  BY <2>2, <2>3, <2>4, <2>6, <2>7, <3>2, <4>1
    <3>. QED  BY <3>1, <3>2
  <2>. QED  BY <2>5, <2>7 DEF NumbersInv
<1>2. CASE Accept
  <2>1. PICK c \in Pending, fd \in Fds :
           /\ NewFd(fd) /\ table' = [table EXCEPT ![fd] = c]
           /\ conn' = [conn EXCEPT ![c] = "open"]
    BY <1>2 DEF Accept
  <2>2. pc = "accept" /\ pc' = "accept"  BY <1>2 DEF Accept
  <2>3. "open" = IF Refused(fd)' THEN "refused" ELSE "open"  BY <2>2 DEF Refused
  <2>. QED  BY <1>n, <2>1, <2>2, <2>3
<1>3. CASE AcceptRefuses
  <2>1. PICK c \in Pending, fd \in Fds :
           /\ NewFd(fd) /\ table' = [table EXCEPT ![fd] = c]
           /\ sd' = fd /\ conn' = [conn EXCEPT ![c] = "refused"]
    BY <1>3 DEF AcceptRefuses
  <2>2. pc = "accept" /\ pc' = "refuse"  BY <1>3 DEF AcceptRefuses
  <2>3. "refused" = IF Refused(fd)' THEN "refused" ELSE "open"  BY <2>1, <2>2 DEF Refused
  <2>. QED  BY <1>n, <2>1, <2>2, <2>3
<1>4. CASE CloseRefused
  BY <1>4, AtHandFacts, NumbersClosed DEF CloseRefused
<1>5. CASE SendError
  BY <1>5, AtHandFacts, NumbersClosed DEF SendError
<1>6. CASE RecvEnd
  BY <1>6, AtHandFacts, NumbersClosed DEF RecvEnd, NextSlot
<1>7. CASE Select \/ AcceptEnds \/ Slot \/ SlotsEnd
  BY <1>k, <1>7 DEF Select, AcceptEnds, Slot, SlotsEnd
<1>8. CASE SendSome \/ SendEnds \/ Sigpipe
  BY <1>k, <1>8 DEF SendSome, SendEnds, Sigpipe
<1>9. CASE RecvSkips \/ RecvSome \/ RecvEagain
  BY <1>k, <1>9 DEF RecvSkips, RecvSome, RecvEagain, NextSlot
<1>10. ASSUME NEW c \in Conns, Connect(c) \/ ClientSend(c) \/ ClientRead(c) \/ ClientEnd(c),
              UNCHANGED <<serverVars, limit>>
       PROVE  NumbersInv'
  <2>1. CASE Connect(c)
    <3>1. \A f \in Fds : table[f] # FREE => table[f] # c
      BY <2>1 DEF NumbersInv, Connect
    <3>2. \A d \in Conns \ {c} : conn'[d] = conn[d]  BY <1>0, <2>1 DEF Connect
    <3>. QED  BY <1>0, <1>10, <3>1, <3>2 DEF NumbersInv, Refused, serverVars
  <2>2. CASE ClientSend(c) \/ ClientRead(c) \/ ClientEnd(c)
    BY <1>10, <2>2 DEF NumbersInv, Refused, serverVars, ClientSend, ClientRead, ClientEnd
  <2>. QED  BY <1>10, <2>1, <2>2
<1>. QED
  BY <1>1, <1>2, <1>3, <1>4, <1>5, <1>6, <1>7, <1>8, <1>9, <1>10 DEF Next, ServerStep

-----------------------------------------------------------------------------
(* The send queues.                                                        *)

OwnBytes(c, a, n) == [b \in 1 .. n |-> <<c, a + b>>]

LEMMA InTurnFacts ==
    ASSUME NEW q \in Seq(QueueNode), NEW c, NEW d \in Nat, NEW r \in Nat, InTurn(q, c, d, r)
    PROVE  d <= r /\ Len(q) \in Nat /\ (q # <<>> => 1 \in DOMAIN q /\ Len(q) >= 1)
<1>1. Len(q) \in Nat /\ DOMAIN q = 1 .. Len(q) /\ (q # <<>> => Len(q) # 0)
  BY LenProperties, EmptySeq
<1>2. CASE q = <<>>  BY <1>1, <1>2 DEF InTurn
<1>3. CASE q # <<>>
  <2>1. 1 \in DOMAIN q /\ q[1] \in QueueNode  BY <1>1, <1>3, ElementOfSeq
  <2>2. /\ q[1].off < Len(q[1].data) /\ Start(q[1]) + q[1].off = d
        /\ Start(q[1]) + Len(q[1].data) <= r
    BY <2>1 DEF InTurn
  <2>3. q[1].off \in Nat /\ Len(q[1].data) \in Nat /\ Start(q[1]) \in Int
    <3>1. q[1].data \in Seq(Conns \X Nat) /\ q[1].off \in Nat  BY <2>1 DEF QueueNode
    <3>2. Len(q[1].data) \in Nat  BY <3>1, LenProperties
    <3>3. 1 \in 1 .. Len(q[1].data)  BY <2>2, <3>1, <3>2
    <3>4. q[1].data[1] \in Conns \X Nat  BY <3>1, <3>3, ElementOfSeq
    <3>. QED  BY <3>1, <3>2, <3>4 DEF Start
  <2>. QED  BY <1>1, <1>3, <2>1, <2>2, <2>3
<1>. QED  BY <1>2, <1>3

\* What is read goes behind the queue.
LEMMA InTurnRead ==
    ASSUME NEW q \in Seq(QueueNode), NEW c \in Conns, NEW d \in Nat, NEW r \in Nat,
           InTurn(q, c, d, r), NEW n \in Nat \ {0}
    PROVE  InTurn(Append(q, [data |-> OwnBytes(c, r, n), off |-> 0]), c, d, r + n)
<1> DEFINE node == [data |-> OwnBytes(c, r, n), off |-> 0]
           p    == Append(q, node)
<1>1. /\ OwnBytes(c, r, n) \in Seq(Conns \X Nat) /\ Len(OwnBytes(c, r, n)) = n
      /\ OwnBytes(c, r, n)[1] = <<c, r + 1>>
      /\ DOMAIN OwnBytes(c, r, n) = 1 .. n
  <2>1. \A b \in 1 .. n : r + b \in Nat  OBVIOUS
  <2>2. OwnBytes(c, r, n) \in [1 .. n -> Conns \X Nat]  BY <2>1 DEF OwnBytes
  <2>3. OwnBytes(c, r, n) \in Seq(Conns \X Nat)  BY <2>2, SeqDef
  <2>4. 1 \in 1 .. n  OBVIOUS
  <2>. QED  BY <2>2, <2>3, <2>4, LenProperties DEF OwnBytes
<1>2. node \in QueueNode /\ node.off = 0 /\ node.data = OwnBytes(c, r, n)
  BY <1>1 DEF QueueNode
<1>3. Start(node) = r  BY <1>1, <1>2 DEF Start
<1>4. Len(q) \in Nat /\ (q = <<>> <=> Len(q) = 0) /\ DOMAIN q = 1 .. Len(q)
  BY LenProperties, EmptySeq
<1> HIDE DEF node
<1>5. /\ p \in Seq(QueueNode) /\ Len(p) = Len(q) + 1 /\ p # <<>>
      /\ DOMAIN p = 1 .. Len(q) + 1
      /\ \A j \in 1 .. Len(q) : p[j] = q[j]
      /\ p[Len(q) + 1] = node
  <2>1. /\ p \in Seq(QueueNode) /\ Len(p) = Len(q) + 1
        /\ \A j \in 1 .. Len(q) : p[j] = q[j]
        /\ p[Len(q) + 1] = node
    BY <1>2, AppendProperties
  <2>. QED  BY <1>4, <2>1, LenProperties, EmptySeq
<1> HIDE DEF p
<1>6. ASSUME NEW j \in 1 .. Len(q)
      PROVE  /\ p[j].off < Len(p[j].data) /\ (j > 1 => p[j].off = 0)
             /\ \A b \in DOMAIN p[j].data : p[j].data[b] = <<c, Start(p[j]) + b>>
             /\ Start(p[j]) + Len(p[j].data) <= r + n
             /\ j = 1 => Start(p[j]) + p[j].off = d
             /\ j > 1 => Start(p[j]) = Start(p[j - 1]) + Len(p[j - 1].data)
             /\ j # Len(q) + 1
             /\ j = Len(q) => Start(p[j]) + Len(p[j].data) = r
  <2>1. p[j] = q[j] /\ j \in DOMAIN q  BY <1>4, <1>5
  <2>2. j > 1 => p[j - 1] = q[j - 1]
    <3>1. j > 1 => j - 1 \in 1 .. Len(q)  BY <1>4
    <3>. QED  BY <1>5, <3>1
  <2>3. /\ q[j].off < Len(q[j].data) /\ (j > 1 => q[j].off = 0)
        /\ \A b \in DOMAIN q[j].data : q[j].data[b] = <<c, Start(q[j]) + b>>
        /\ Start(q[j]) + Len(q[j].data) <= r
        /\ j = 1 => Start(q[j]) + q[j].off = d
        /\ j > 1 => Start(q[j]) = Start(q[j - 1]) + Len(q[j - 1].data)
        /\ j = Len(q) => Start(q[j]) + Len(q[j].data) = r
    BY <2>1 DEF InTurn
  <2>4. Start(q[j]) + Len(q[j].data) <= r + n
    <3>1. q[j] \in QueueNode  BY <2>1, <1>4, ElementOfSeq
    <3>2. q[j].data \in Seq(Conns \X Nat) /\ q[j].off \in Nat  BY <3>1 DEF QueueNode
    <3>3. Len(q[j].data) \in Nat  BY <3>2, LenProperties
    <3>4. 1 \in 1 .. Len(q[j].data)  BY <2>3, <3>2, <3>3
    <3>5. q[j].data[1] \in Conns \X Nat  BY <3>2, <3>4, ElementOfSeq
    <3>6. Start(q[j]) \in Int  BY <3>5 DEF Start
    <3>. QED  BY <2>3, <3>3, <3>6
  <2>5. j # Len(q) + 1  BY <1>4
  <2>. QED  BY <2>1, <2>2, <2>3, <2>4, <2>5
<1>7. /\ node.off < Len(node.data) /\ node.off = 0
      /\ \A b \in DOMAIN node.data : node.data[b] = <<c, Start(node) + b>>
      /\ Start(node) + Len(node.data) = r + n
  BY <1>1, <1>2, <1>3 DEF OwnBytes
<1>8. Len(q) = 0 => Start(node) + node.off = d
  BY <1>2, <1>3, <1>4 DEF InTurn
<1>9. Len(q) + 1 > 1 => Start(node) = Start(p[Len(q)]) + Len(p[Len(q)].data)
  <2>1. Len(q) + 1 > 1 => Len(q) \in 1 .. Len(q)  BY <1>4
  <2>. QED  BY <1>3, <1>6, <2>1
<1>10. ASSUME NEW j \in DOMAIN p
       PROVE  /\ p[j].off < Len(p[j].data) /\ (j > 1 => p[j].off = 0)
              /\ \A b \in DOMAIN p[j].data : p[j].data[b] = <<c, Start(p[j]) + b>>
              /\ Start(p[j]) + Len(p[j].data) <= r + n
              /\ j = 1 => Start(p[j]) + p[j].off = d
              /\ j > 1 => Start(p[j]) = Start(p[j - 1]) + Len(p[j - 1].data)
              /\ j = Len(p) => Start(p[j]) + Len(p[j].data) = r + n
  <2>1. CASE j \in 1 .. Len(q)  BY <1>5, <1>6, <2>1
  <2>2. CASE j = Len(q) + 1
    <3>1. p[j] = node /\ j - 1 = Len(q) /\ (j = 1 => Len(q) = 0)  BY <1>4, <1>5, <2>2
    <3>2. Start(node) + Len(node.data) <= r + n  BY <1>7, <1>1, <1>2, <1>3
    <3>. QED  BY <1>7, <1>8, <1>9, <2>2, <3>1, <3>2
  <2>. QED  BY <1>4, <1>5, <2>1, <2>2
<1>11. InTurn(p, c, d, r + n)  BY <1>5, <1>10 DEF InTurn
<1>. QED  BY <1>11 DEF p, node

LEMMA NodeStart ==
    ASSUME NEW n \in QueueNode, n.off < Len(n.data)
    PROVE  /\ n.data \in Seq(Conns \X Nat) /\ n.off \in Nat /\ Len(n.data) \in Nat
           /\ DOMAIN n.data = 1 .. Len(n.data) /\ Start(n) \in Int
<1>1. n.data \in Seq(Conns \X Nat) /\ n.off \in Nat  BY DEF QueueNode
<1>2. Len(n.data) \in Nat /\ DOMAIN n.data = 1 .. Len(n.data)  BY <1>1, LenProperties
<1>3. 1 \in 1 .. Len(n.data)  BY <1>1, <1>2
<1>4. n.data[1] \in Conns \X Nat  BY <1>1, <1>3, ElementOfSeq
<1>. QED  BY <1>1, <1>2, <1>4 DEF Start

\* What is sent of the first node are the client's next bytes.
LEMMA InTurnBytes ==
    ASSUME NEW q \in Seq(QueueNode), NEW c \in Conns, NEW d \in Nat, NEW r \in Nat,
           InTurn(q, c, d, r), q # <<>>,
           NEW k \in Nat \ {0}, k <= Len(q[1].data) - q[1].off
    PROVE  /\ SubSeq(q[1].data, q[1].off + 1, q[1].off + k) = OwnBytes(c, d, k)
           /\ d + k <= r
<1> DEFINE n == q[1]
           s == SubSeq(n.data, n.off + 1, n.off + k)
<1>1. 1 \in DOMAIN q  BY InTurnFacts
<1>2. n \in QueueNode  BY <1>1, LenProperties, ElementOfSeq
<1>3. /\ n.off < Len(n.data) /\ Start(n) + n.off = d /\ Start(n) + Len(n.data) <= r
      /\ \A b \in DOMAIN n.data : n.data[b] = <<c, Start(n) + b>>
  BY <1>1 DEF InTurn
<1>4. k <= Len(n.data) - n.off  OBVIOUS
<1> HIDE DEF n
<1>5. /\ n.data \in Seq(Conns \X Nat) /\ n.off \in Nat /\ Len(n.data) \in Nat
      /\ DOMAIN n.data = 1 .. Len(n.data) /\ Start(n) \in Int
  BY <1>2, <1>3, NodeStart
<1>6. \A l \in n.off + 1 .. n.off + k : l \in 1 .. Len(n.data)
  BY <1>4, <1>5
<1>7. \A l \in n.off + 1 .. n.off + k : n.data[l] \in Conns \X Nat
  BY <1>5, <1>6, ElementOfSeq
<1>8. n.off + 1 \in Int /\ n.off + k \in Int /\ (n.off + k) - (n.off + 1) + 1 = k
      /\ n.off + 1 <= n.off + k
  <2>1. \A x \in Nat : /\ x + 1 \in Int /\ x + k \in Int /\ (x + k) - (x + 1) + 1 = k
                       /\ x + 1 <= x + k
    OBVIOUS
  <2>. QED  BY <1>5, <2>1
<1>9. /\ s \in Seq(Conns \X Nat)
      /\ Len(s) = IF n.off + 1 <= n.off + k THEN (n.off + k) - (n.off + 1) + 1 ELSE 0
      /\ \A l \in 1 .. (n.off + k) - (n.off + 1) + 1 : s[l] = n.data[(n.off + 1) + l - 1]
  BY <1>7, <1>8, SubSeqProperties
<1> HIDE DEF s
<1>10. Len(s) = k /\ \A l \in 1 .. k : s[l] = n.data[(n.off + 1) + l - 1]
  BY <1>8, <1>9
<1>11. \A l \in 1 .. k : s[l] = <<c, d + l>>
  <2> SUFFICES ASSUME NEW l \in 1 .. k PROVE s[l] = <<c, d + l>>  OBVIOUS
  <2>0. \A x \in Nat : (x + 1) + l - 1 = x + l /\ x + l \in x + 1 .. x + k  OBVIOUS
  <2>1. (n.off + 1) + l - 1 = n.off + l /\ n.off + l \in n.off + 1 .. n.off + k
    BY <1>5, <2>0
  <2>2. s[l] = <<c, Start(n) + (n.off + l)>>  BY <1>3, <1>5, <1>6, <1>10, <2>1
  <2>3. \A x \in Nat, y \in Int : y + x = d => y + (x + l) = d + l  OBVIOUS
  <2>4. Start(n) + (n.off + l) = d + l  BY <1>3, <1>5, <2>3
  <2>. QED  BY <2>2, <2>4
<1>12. /\ OwnBytes(c, d, k) \in Seq(Conns \X Nat) /\ Len(OwnBytes(c, d, k)) = k
       /\ \A l \in 1 .. k : OwnBytes(c, d, k)[l] = <<c, d + l>>
  <2>1. \A b \in 1 .. k : d + b \in Nat  OBVIOUS
  <2>2. OwnBytes(c, d, k) \in [1 .. k -> Conns \X Nat]  BY <2>1 DEF OwnBytes
  <2>3. OwnBytes(c, d, k) \in Seq(Conns \X Nat)  BY <2>2, SeqDef
  <2>. QED  BY <2>2, <2>3, LenProperties DEF OwnBytes
<1>13. s = OwnBytes(c, d, k)
  <2> DEFINE o == OwnBytes(c, d, k)
  <2>1. o \in Seq(Conns \X Nat) /\ Len(o) = k /\ \A l \in 1 .. k : o[l] = s[l]
    BY <1>11, <1>12
  <2> HIDE DEF o
  <2>2. s = o  BY <1>9, <1>10, <2>1, SeqEqual
  <2>. QED  BY <2>2 DEF o
<1>14. d + k <= r  BY <1>3, <1>4, <1>5
<1>. QED  BY <1>13, <1>14 DEF s, n

\* A part of the first node is sent.
LEMMA InTurnPart ==
    ASSUME NEW q \in Seq(QueueNode), NEW c \in Conns, NEW d \in Nat, NEW r \in Nat,
           InTurn(q, c, d, r), q # <<>>,
           NEW k \in Nat \ {0}, k < Len(q[1].data) - q[1].off
    PROVE  InTurn([q EXCEPT ![1].off = @ + k], c, d + k, r)
<1> DEFINE p == [q EXCEPT ![1].off = @ + k]
<1>1. 1 \in DOMAIN q /\ Len(q) \in Nat /\ DOMAIN q = 1 .. Len(q)
  BY InTurnFacts, LenProperties
<1>2. q[1] \in QueueNode /\ q[1].off < Len(q[1].data)
  BY <1>1, ElementOfSeq DEF InTurn
<1>3. q[1].off \in Nat /\ Len(q[1].data) \in Nat /\ Start(q[1]) \in Int
  BY <1>2, NodeStart
<1>4. /\ DOMAIN p = DOMAIN q
      /\ p[1] = [q[1] EXCEPT !.off = q[1].off + k]
      /\ \A j \in DOMAIN q \ {1} : p[j] = q[j]
  BY <1>1
<1>5. /\ p[1].data = q[1].data /\ p[1].off = q[1].off + k
  BY <1>2, <1>4 DEF QueueNode
<1>6. Len(p) = Len(q)
  <2>1. p \in Seq(QueueNode)
    <3>1. [q[1] EXCEPT !.off = q[1].off + k] \in QueueNode
      <4>1. q[1].off + k \in Nat  BY <1>3
      <4>. QED  BY <1>2, <4>1 DEF QueueNode
    <3>2. p = [q EXCEPT ![1] = [q[1] EXCEPT !.off = q[1].off + k]]  OBVIOUS
    <3> DEFINE e == [q[1] EXCEPT !.off = q[1].off + k]
    <3> HIDE DEF e, p
    <3>3. p = [q EXCEPT ![1] = e]  BY <3>2 DEF e
    <3>4. e \in QueueNode  BY <3>1 DEF e
    <3>. QED  BY <1>1, <3>3, <3>4, ExceptSeq
  <2> HIDE DEF p
  <2>. QED  BY <1>1, <1>4, <2>1, LenProperties
<1> HIDE DEF p
<1>7. \A j \in DOMAIN q : p[j].data = q[j].data /\ Start(p[j]) = Start(q[j])
  BY <1>4, <1>5 DEF Start
<1>8. ASSUME NEW j \in DOMAIN p
      PROVE  /\ p[j].off < Len(p[j].data) /\ (j > 1 => p[j].off = 0)
             /\ \A b \in DOMAIN p[j].data : p[j].data[b] = <<c, Start(p[j]) + b>>
             /\ Start(p[j]) + Len(p[j].data) <= r
             /\ j = 1 => Start(p[j]) + p[j].off = d + k
             /\ j > 1 => Start(p[j]) = Start(p[j - 1]) + Len(p[j - 1].data)
             /\ j = Len(p) => Start(p[j]) + Len(p[j].data) = r
  <2>1. j \in DOMAIN q /\ j \in Nat /\ (j > 1 => j - 1 \in DOMAIN q)  BY <1>1, <1>4
  <2>2. /\ q[j].off < Len(q[j].data) /\ (j > 1 => q[j].off = 0)
        /\ \A b \in DOMAIN q[j].data : q[j].data[b] = <<c, Start(q[j]) + b>>
        /\ Start(q[j]) + Len(q[j].data) <= r
        /\ j = 1 => Start(q[j]) + q[j].off = d
        /\ j > 1 => Start(q[j]) = Start(q[j - 1]) + Len(q[j - 1].data)
        /\ j = Len(q) => Start(q[j]) + Len(q[j].data) = r
    BY <2>1 DEF InTurn
  <2>3. p[j].off < Len(p[j].data) /\ (j > 1 => p[j].off = 0)
    <3>1. CASE j = 1
      <4>1. q[1].off + k < Len(q[1].data)  BY <1>3
      <4>. QED  BY <1>5, <3>1, <4>1
    <3>2. CASE j # 1  BY <1>4, <2>1, <2>2, <3>2
    <3>. QED  BY <3>1, <3>2
  <2>4. j = 1 => Start(p[j]) + p[j].off = d + k
    <3>0. \A x \in Nat, y \in Int : y + x = d => y + (x + k) = d + k  OBVIOUS
    <3>1. j = 1 => Start(q[1]) + (q[1].off + k) = d + k  BY <1>3, <2>2, <3>0
    <3>. QED  BY <1>5, <1>7, <2>1, <3>1
  <2>. QED  BY <1>6, <1>7, <2>1, <2>2, <2>3, <2>4
<1>9. p # <<>>  BY <1>1, <1>4
<1>10. InTurn(p, c, d + k, r)  BY <1>8, <1>9 DEF InTurn
<1>. QED  BY <1>10 DEF p

\* The rest of the first node is sent.
LEMMA InTurnNode ==
    ASSUME NEW q \in Seq(QueueNode), NEW c \in Conns, NEW d \in Nat, NEW r \in Nat,
           InTurn(q, c, d, r), q # <<>>
    PROVE  InTurn(Tail(q), c, d + (Len(q[1].data) - q[1].off), r)
<1> DEFINE p == Tail(q)
           k == Len(q[1].data) - q[1].off
<1>1. 1 \in DOMAIN q /\ Len(q) \in Nat /\ DOMAIN q = 1 .. Len(q) /\ Len(q) >= 1
  BY InTurnFacts, LenProperties
<1>2. /\ q[1] \in QueueNode /\ q[1].off < Len(q[1].data) /\ Start(q[1]) + q[1].off = d
      /\ 1 = Len(q) => Start(q[1]) + Len(q[1].data) = r
  BY <1>1, ElementOfSeq DEF InTurn
<1>3. q[1].off \in Nat /\ Len(q[1].data) \in Nat /\ Start(q[1]) \in Int
  BY <1>2, NodeStart
<1>4. d + k = Start(q[1]) + Len(q[1].data)  BY <1>2, <1>3
<1>5. /\ p \in Seq(QueueNode) /\ Len(p) = Len(q) - 1 /\ DOMAIN p = 1 .. Len(q) - 1
      /\ \A j \in 1 .. Len(q) - 1 : p[j] = q[j + 1]
  <2>1. /\ p \in Seq(QueueNode) /\ Len(p) = Len(q) - 1
        /\ \A j \in 1 .. Len(p) : p[j] = q[j + 1]
    BY HeadTailProperties
  <2> HIDE DEF p
  <2>. QED  BY <2>1, LenProperties
<1>6. p = <<>> => d + k = r
  <2> HIDE DEF p
  <2>1. p = <<>> => Len(p) = 0  BY <1>5, EmptySeq
  <2>. QED  BY <1>1, <1>2, <1>4, <1>5, <2>1
<1> HIDE DEF p, k
<1>7. ASSUME NEW j \in DOMAIN p
      PROVE  /\ p[j].off < Len(p[j].data) /\ (j > 1 => p[j].off = 0)
             /\ \A b \in DOMAIN p[j].data : p[j].data[b] = <<c, Start(p[j]) + b>>
             /\ Start(p[j]) + Len(p[j].data) <= r
             /\ j = 1 => Start(p[j]) + p[j].off = d + k
             /\ j > 1 => Start(p[j]) = Start(p[j - 1]) + Len(p[j - 1].data)
             /\ j = Len(p) => Start(p[j]) + Len(p[j].data) = r
  <2>1. j \in Nat /\ j >= 1 /\ j + 1 \in DOMAIN q /\ j + 1 > 1 /\ (j + 1) - 1 = j
        /\ (j = Len(p) => j + 1 = Len(q)) /\ (j > 1 => j - 1 \in 1 .. Len(q) - 1)
        /\ (j - 1) + 1 = j
    BY <1>1, <1>5
  <2>2. /\ q[j + 1].off < Len(q[j + 1].data) /\ q[j + 1].off = 0
        /\ \A b \in DOMAIN q[j + 1].data : q[j + 1].data[b] = <<c, Start(q[j + 1]) + b>>
        /\ Start(q[j + 1]) + Len(q[j + 1].data) <= r
        /\ Start(q[j + 1]) = Start(q[j]) + Len(q[j].data)
        /\ j + 1 = Len(q) => Start(q[j + 1]) + Len(q[j + 1].data) = r
    BY <2>1 DEF InTurn
  <2>3. p[j] = q[j + 1]  BY <1>5
  <2>4. j = 1 => Start(p[j]) + p[j].off = d + k
    <3>1. q[j + 1] \in QueueNode  BY <1>1, <2>1, ElementOfSeq
    <3>2. Start(q[j + 1]) \in Int  BY <2>2, <3>1, NodeStart
    <3>. QED  BY <1>4, <2>2, <2>3, <3>2
  <2>5. j > 1 => p[j - 1] = q[j]  BY <1>5, <2>1
  <2>. QED  BY <2>1, <2>2, <2>3, <2>4, <2>5
<1>8. InTurn(p, c, d + k, r)  BY <1>6, <1>7 DEF InTurn
<1>. QED  BY <1>8 DEF p, k

-----------------------------------------------------------------------------
(* The bytes of every client.                                              *)

SelectInv == SlotType /\ SlotsInv /\ NumbersInv /\ BytesInv

LEMMA SlotBytes ==
    ASSUME SelectInv, NEW s \in Slots, clients[s].sockfd # 0
    PROVE  LET c == table[clients[s].sockfd] IN
           /\ c \in Conns /\ rd[c] \in Nat /\ sent[c] \in Nat /\ rd[c] <= sent[c]
           /\ out[c] \in Seq(Conns \X Nat) /\ Len(out[c]) \in Nat
           /\ clients[s].queue \in Seq(QueueNode)
           /\ InTurn(clients[s].queue, c, Len(out[c]), rd[c])
           /\ Len(out[c]) <= rd[c]
<1> DEFINE c == table[clients[s].sockfd]
<1>1. clients[s].sockfd \in Fds /\ clients[s].queue \in Seq(QueueNode)
  BY DEF SelectInv, SlotType, Client
<1>2. c \in Conns
  BY <1>1 DEF SelectInv, SlotType, TypeOK, SlotsInv, SlotsOpen
<1>3. InTurn(clients[s].queue, c, Len(out[c]), rd[c])  BY DEF SelectInv, BytesInv
<1> HIDE DEF c
<1>4. rd[c] \in Nat /\ sent[c] \in Nat /\ out[c] \in Seq(Conns \X Nat)
  BY <1>2 DEF SelectInv, SlotType, TypeOK, NetTypeOK
<1>5. Len(out[c]) \in Nat  BY <1>4, LenProperties
<1>6. rd[c] <= sent[c]  BY <1>2 DEF SelectInv, BytesInv
<1>7. Len(out[c]) <= rd[c]  BY <1>1, <1>3, <1>4, <1>5, InTurnFacts
<1>. QED  BY <1>1, <1>2, <1>3, <1>4, <1>5, <1>6, <1>7 DEF c

\* Two slots in use are two connections.
LEMMA OtherSlots ==
    ASSUME SelectInv, NEW s \in Slots, NEW t \in Slots, s # t,
           clients[s].sockfd # 0, clients[t].sockfd # 0
    PROVE  table[clients[s].sockfd] # table[clients[t].sockfd]
<1>1. clients[s].sockfd \in Fds /\ clients[t].sockfd \in Fds
  BY DEF SelectInv, SlotType, Client
<1>2. clients[s].sockfd # clients[t].sockfd  BY DEF SelectInv, SlotsInv, OneSlot
<1>3. table[clients[s].sockfd] # FREE  BY DEF SelectInv, SlotsInv, SlotsOpen
<1>. QED  BY <1>1, <1>2, <1>3 DEF SelectInv, NumbersInv

\* What is sent of a client's own bytes are its next ones.
LEMMA OwnBytesSent ==
    ASSUME NEW c \in Conns, NEW o \in Seq(Conns \X Nat), NEW k \in Nat \ {0},
           \A b \in DOMAIN o : o[b] = <<c, b>>
    PROVE  LET p == o \o OwnBytes(c, Len(o), k) IN
           /\ p \in Seq(Conns \X Nat) /\ Len(p) = Len(o) + k
           /\ \A b \in DOMAIN p : p[b] = <<c, b>>
<1> DEFINE d == Len(o)
           e == OwnBytes(c, d, k)
           p == o \o e
<1>1. d \in Nat /\ DOMAIN o = 1 .. d  BY LenProperties
<1> HIDE DEF d
<1>2. e \in Seq(Conns \X Nat) /\ Len(e) = k /\ \A l \in 1 .. k : e[l] = <<c, d + l>>
  <2>1. \A b \in 1 .. k : d + b \in Nat  BY <1>1
  <2>2. OwnBytes(c, d, k) \in [1 .. k -> Conns \X Nat]  BY <2>1 DEF OwnBytes
  <2>3. OwnBytes(c, d, k) \in Seq(Conns \X Nat)  BY <2>2, SeqDef
  <2>. QED  BY <2>2, <2>3, LenProperties DEF OwnBytes
<1> HIDE DEF e
<1>3. /\ p \in Seq(Conns \X Nat) /\ Len(p) = d + k
      /\ \A b \in 1 .. d + k : p[b] = IF b <= d THEN o[b] ELSE e[b - d]
  BY <1>1, <1>2, ConcatProperties DEF d
<1> HIDE DEF p
<1>4. DOMAIN p = 1 .. d + k  BY <1>3, LenProperties
<1>5. ASSUME NEW b \in 1 .. d + k  PROVE p[b] = <<c, b>>
  <2>1. CASE b <= d
    <3>1. b \in DOMAIN o  BY <1>1, <2>1
    <3>2. o[b] = <<c, b>>  BY <3>1
    <3>. QED  BY <1>3, <2>1, <3>2
  <2>2. CASE ~(b <= d)
    <3>1. b - d \in 1 .. k /\ d + (b - d) = b  BY <1>1, <2>2
    <3>. QED  BY <1>2, <1>3, <2>2, <3>1
  <2>. QED  BY <2>1, <2>2
<1>6. p \in Seq(Conns \X Nat) /\ Len(p) = d + k /\ \A b \in DOMAIN p : p[b] = <<c, b>>
  BY <1>3, <1>4, <1>5
<1>. QED  BY <1>6 DEF p, e, d

LEMMA BytesKept ==
    ASSUME SelectInv, SlotType', UNCHANGED <<sent, rd, out>>,
           \A c \in Conns : conn'[c] \in {"none", "pending"} => conn[c] \in {"none", "pending"},
           \A s \in Slots : clients'[s].sockfd # 0 =>
              /\ clients'[s] = clients[s]
              /\ table'[clients[s].sockfd] = table[clients[s].sockfd]
    PROVE  BytesInv'
<1>1. \A s \in Slots : clients'[s].sockfd # 0 =>
         InTurn(clients'[s].queue, table'[clients'[s].sockfd],
                Len(out'[table'[clients'[s].sockfd]]), rd'[table'[clients'[s].sockfd]])
  BY DEF SelectInv, BytesInv
<1>. QED  BY <1>1 DEF SelectInv, BytesInv

LEMMA BytesClient ==
    ASSUME SelectInv, UNCHANGED <<serverVars, limit>>,
           NEW c \in Conns, Connect(c) \/ ClientSend(c) \/ ClientRead(c) \/ ClientEnd(c)
    PROVE  BytesInv'
<1>1. UNCHANGED <<clients, table, rd, out>>
  BY DEF serverVars, Connect, ClientSend, ClientRead, ClientEnd
<1>2. \A s \in Slots : clients'[s].sockfd # 0 =>
         InTurn(clients'[s].queue, table'[clients'[s].sockfd],
                Len(out'[table'[clients'[s].sockfd]]), rd'[table'[clients'[s].sockfd]])
  BY <1>1 DEF SelectInv, BytesInv
<1>3. \A d \in Conns : rd[d] \in Nat /\ sent[d] \in Nat /\ Total[d] \in Nat
  BY ClientsAssumption DEF SelectInv, SlotType, TypeOK, NetTypeOK
<1>4. ASSUME NEW d \in Conns
      PROVE  /\ rd[d] <= sent'[d] /\ sent'[d] <= Total[d]
             /\ conn'[d] \in {"none", "pending"} => conn[d] \in {"none", "pending"}
  <2>1. rd[d] <= sent[d] /\ sent[d] <= Total[d]  BY DEF SelectInv, BytesInv
  <2>2. CASE Connect(c)
    <3>1. UNCHANGED sent /\ conn[c] = "none" /\ conn' = [conn EXCEPT ![c] = "pending"]
      BY <2>2 DEF Connect, clientVars
    <3>. QED  BY <2>1, <3>1 DEF SelectInv, SlotType, TypeOK, NetTypeOK
  <2>3. CASE ClientSend(c)
    <3>1. UNCHANGED conn /\ sent[c] < Total[c] /\ sent' = [sent EXCEPT ![c] = sent[c] + 1]
      BY <2>3 DEF ClientSend
    <3>2. sent'[d] = IF d = c THEN sent[d] + 1 ELSE sent[d]
      BY <3>1 DEF SelectInv, SlotType, TypeOK, NetTypeOK
    <3>. QED  BY <1>3, <2>1, <3>1, <3>2
  <2>4. CASE ClientRead(c) \/ ClientEnd(c)
    BY <2>1, <2>4 DEF ClientRead, ClientEnd
  <2>. QED  BY <2>2, <2>3, <2>4
<1>5. \A d \in Conns :
         /\ conn[d] \in {"none", "pending"} => rd[d] = 0 /\ out[d] = <<>>
         /\ \A b \in DOMAIN out[d] : out[d][b] = <<d, b>>
  BY DEF SelectInv, BytesInv
<1>. QED  BY <1>1, <1>2, <1>4, <1>5 DEF BytesInv

LEMMA BytesServer ==
    ASSUME SelectInv, SlotType', ServerStep
    PROVE  BytesInv'
<1>0. /\ SlotType /\ SlotsInv /\ NumbersInv /\ BytesInv
      /\ clients \in [Slots -> Client] /\ table \in [Fds -> Conns \cup {FREE}]
      /\ conn \in [Conns -> {"none", "pending", "open", "refused", "closed"}]
      /\ rd \in [Conns -> Nat] /\ out \in [Conns -> Seq(Conns \X Nat)]
      /\ \A s \in Slots : clients[s].sockfd \in Fds \cup {0}
  BY DEF SelectInv, SlotType, TypeOK, NetTypeOK, Client
<1>k. ASSUME UNCHANGED <<conn, sent, rd, out, table, clients>>  PROVE BytesInv'
  BY <1>k, BytesKept
<1>1. CASE Select \/ AcceptEnds \/ Slot \/ SlotsEnd
  BY <1>k, <1>1 DEF Select, AcceptEnds, Slot, SlotsEnd, clientVars
<1>2. CASE SendEnds \/ Sigpipe \/ RecvSkips \/ RecvEagain
  BY <1>k, <1>2 DEF SendEnds, Sigpipe, RecvSkips, RecvEagain, clientVars
<1>3. CASE Accept
  <2> DEFINE s0 == CHOOSE s \in FreeSlots : \A t \in FreeSlots : s <= t
  <2>1. PICK c \in Pending, fd \in Fds :
           /\ NewFd(fd)
           /\ table' = [table EXCEPT ![fd] = c] /\ conn' = [conn EXCEPT ![c] = "open"]
           /\ clients' = [clients EXCEPT ![s0] = [sockfd |-> fd, queue |-> <<>>]]
    BY <1>3 DEF Accept
  <2>2. s0 \in Slots  BY <1>3, FirstFree DEF Accept, FreeSlots
  <2> HIDE DEF s0
  <2>3. /\ clients'[s0] = [sockfd |-> fd, queue |-> <<>>]
        /\ \A s \in Slots \ {s0} : clients'[s] = clients[s]
        /\ table'[fd] = c /\ \A f \in Fds \ {fd} : table'[f] = table[f]
    BY <1>0, <2>1, <2>2
  <2>4. UNCHANGED <<sent, rd, out>>  BY <1>3 DEF Accept, clientVars
  <2>5. c \in Conns /\ rd[c] = 0 /\ out[c] = <<>>
    BY <1>0 DEF Pending, BytesInv
  <2>6. \A s \in Slots : clients[s].sockfd # fd
    BY <1>0, <2>1, ServerAssumption DEF NewFd, SlotsInv, SlotsOpen
  <2>7. ASSUME NEW s \in Slots, clients'[s].sockfd # 0
        PROVE  InTurn(clients'[s].queue, table'[clients'[s].sockfd],
                      Len(out'[table'[clients'[s].sockfd]]),
                      rd'[table'[clients'[s].sockfd]])
    <3>1. CASE s = s0
      <4>1. InTurn(<<>>, c, Len(<<>>), 0)  BY DEF InTurn
      <4>. QED  BY <2>3, <2>4, <2>5, <3>1, <4>1
    <3>2. CASE s # s0
      <4>1. clients'[s] = clients[s] /\ clients[s].sockfd \in Fds \ {fd}
        BY <1>0, <2>3, <2>6, <2>7, <3>2
      <4>. QED  BY <1>0, <2>3, <2>4, <2>7, <4>1 DEF BytesInv
    <3>. QED  BY <3>1, <3>2
  <2>8. \A d \in Conns : conn'[d] \in {"none", "pending"} => conn[d] \in {"none", "pending"}
    BY <1>0, <2>1
  <2>. QED  BY <1>0, <2>4, <2>7, <2>8 DEF BytesInv
<1>4. CASE AcceptRefuses
  <2>1. PICK c \in Pending, fd \in Fds :
           /\ NewFd(fd)
           /\ table' = [table EXCEPT ![fd] = c] /\ conn' = [conn EXCEPT ![c] = "refused"]
    BY <1>4 DEF AcceptRefuses
  <2>2. \A s \in Slots : clients[s].sockfd # fd
    BY <1>0, <2>1, ServerAssumption DEF NewFd, SlotsInv, SlotsOpen
  <2>3. \A f \in Fds \ {fd} : table'[f] = table[f]  BY <1>0, <2>1
  <2>4. UNCHANGED <<sent, rd, out, clients>>  BY <1>4 DEF AcceptRefuses, clientVars
  <2>5. \A d \in Conns : conn'[d] \in {"none", "pending"} => conn[d] \in {"none", "pending"}
    BY <1>0, <2>1
  <2>6. \A s \in Slots : clients[s].sockfd # 0 =>
           table'[clients[s].sockfd] = table[clients[s].sockfd]
    BY <1>0, <2>2, <2>3
  <2>. QED  BY <2>4, <2>5, <2>6, BytesKept
<1>c. ASSUME NEW fd \in Fds, Close(fd), UNCHANGED <<sent, rd, out>>,
             \A s \in Slots : clients'[s].sockfd # 0 =>
                clients'[s] = clients[s] /\ clients[s].sockfd # fd
      PROVE  BytesInv'
  <2>1. \A f \in Fds \ {fd} : table'[f] = table[f]  BY <1>0, <1>c DEF Close
  <2>2. \A d \in Conns : conn'[d] \in {"none", "pending"} => conn[d] \in {"none", "pending"}
    BY <1>c DEF Close
  <2>3. \A s \in Slots : clients'[s].sockfd # 0 =>
           /\ clients'[s] = clients[s]
           /\ table'[clients[s].sockfd] = table[clients[s].sockfd]
    BY <1>0, <1>c, <2>1
  <2>. QED  BY <1>c, <2>2, <2>3, BytesKept
<1>5. CASE CloseRefused
  <2>1. sd \in Fds /\ \A s \in Slots : clients[s].sockfd # sd
    BY <1>0, <1>5, AtHandFacts DEF CloseRefused, SlotsInv, AtHand
  <2>. QED  BY <1>5, <1>c, <2>1 DEF CloseRefused, clientVars
<1>6. CASE SendError \/ RecvEnd
  <2>1. /\ pc \in {"send", "recv"} /\ Close(sd) /\ UNCHANGED <<sent, rd, out>>
        /\ clients' = [clients EXCEPT ![i] = NoClient]
    BY <1>6 DEF SendError, RecvEnd, clientVars
  <2>2. i \in Slots /\ sd \in Fds  BY <1>0, <2>1, AtHandFacts
  <2>3. clients'[i].sockfd = 0 /\ \A s \in Slots \ {i} : clients'[s] = clients[s]
    BY <1>0, <2>1, <2>2 DEF NoClient
  <2>4. \A s \in Slots \ {i} : clients[s].sockfd # sd  BY <1>0, <2>1, SlotFreed
  <2>. QED  BY <1>c, <2>1, <2>2, <2>3, <2>4
<1>q. ASSUME i \in Slots, clients[i].sockfd = sd, sd \in Fds, UNCHANGED <<table, conn, sent>>,
             clients'[i].sockfd = sd, \A s \in Slots \ {i} : clients'[s] = clients[s],
             NEW c \in Conns, c = table[sd],
             \A d \in Conns \ {c} : rd'[d] = rd[d] /\ out'[d] = out[d],
             rd'[c] <= sent[c], \A b \in DOMAIN out'[c] : out'[c][b] = <<c, b>>,
             InTurn(clients'[i].queue, c, Len(out'[c]), rd'[c])
      PROVE  BytesInv'
  <2>1. conn[c] \notin {"none", "pending"}
    <3>1. sd # 0  BY <1>q, ServerAssumption
    <3>2. c # FREE  BY <1>0, <1>q, <3>1 DEF SlotsInv, SlotsOpen
    <3>3. conn[c] \in {"open", "refused"}  BY <1>0, <1>q, <3>2 DEF NumbersInv
    <3>. QED  BY <1>0, <1>q, <3>1, <3>2, <3>3
  <2>3. ASSUME NEW s \in Slots, clients'[s].sockfd # 0
        PROVE  InTurn(clients'[s].queue, table'[clients'[s].sockfd],
                      Len(out'[table'[clients'[s].sockfd]]),
                      rd'[table'[clients'[s].sockfd]])
    <3>1. CASE s = i  BY <1>q, <3>1
    <3>2. CASE s # i
      <4>1. clients'[s] = clients[s] /\ clients[s].sockfd # 0  BY <1>q, <2>3, <3>2
      <4>2. table[clients[s].sockfd] \in Conns
        BY <1>0, <4>1 DEF SlotsInv, SlotsOpen
      <4>3. table[clients[s].sockfd] # c
        BY <1>q, <3>2, <4>1, OtherSlots, ServerAssumption
      <4>. QED  BY <1>0, <1>q, <4>1, <4>2, <4>3 DEF BytesInv
    <3>. QED  BY <3>1, <3>2
  <2>4. ASSUME NEW d \in Conns
        PROVE  /\ rd'[d] <= sent'[d] /\ sent'[d] <= Total[d]
               /\ conn'[d] \in {"none", "pending"} => rd'[d] = 0 /\ out'[d] = <<>>
               /\ \A b \in DOMAIN out'[d] : out'[d][b] = <<d, b>>
    <3>1. CASE d = c  BY <1>0, <1>q, <2>1, <3>1 DEF BytesInv
    <3>2. CASE d # c  BY <1>0, <1>q, <2>1, <3>2 DEF BytesInv
    <3>. QED  BY <3>1, <3>2
  <2>. QED  BY <2>3, <2>4 DEF BytesInv
<1>7. CASE SendSome
  <2>1. i \in Slots /\ sd \in Fds /\ clients[i].sockfd = sd /\ sd # 0
    BY <1>0, <1>7, AtHandFacts, ServerAssumption DEF SendSome
  <2> DEFINE c == table[sd]
             o == out[c]
  <2>2. /\ c \in Conns /\ rd[c] \in Nat /\ sent[c] \in Nat /\ rd[c] <= sent[c]
        /\ o \in Seq(Conns \X Nat) /\ Len(o) \in Nat
        /\ Queue \in Seq(QueueNode) /\ InTurn(Queue, c, Len(o), rd[c])
    BY <2>1, SlotBytes DEF Queue
  <2>3. PICK k \in 1 .. SendRoom :
           /\ k <= Left
           /\ out' = [out EXCEPT ![c] = o \o SubSeq(Node.data, Node.off + 1, Node.off + k)]
           /\ clients' = [clients EXCEPT ![i].queue =
                            IF k = Left THEN dequeue_sent ELSE advance_sent(k)]
    BY <1>7 DEF SendSome
  <2>4. Queue # <<>> /\ UNCHANGED <<conn, sent, rd, table>>
    BY <1>7 DEF SendSome, clientVars
  <2>5. k \in Nat \ {0}  BY ClientsAssumption
  <2>6. SubSeq(Node.data, Node.off + 1, Node.off + k) = OwnBytes(c, Len(o), k)
    BY <2>2, <2>3, <2>4, <2>5, InTurnBytes DEF Node, Left
  <2>7. \A b \in DOMAIN o : o[b] = <<c, b>>  BY <1>0, <2>2 DEF BytesInv
  <2> DEFINE p == o \o OwnBytes(c, Len(o), k)
  <2>8. /\ p \in Seq(Conns \X Nat) /\ Len(p) = Len(o) + k
        /\ \A b \in DOMAIN p : p[b] = <<c, b>>
    <3> HIDE DEF c, o
    <3>. QED  BY <2>2, <2>5, <2>7, OwnBytesSent
  <2>9. PICK queue : /\ clients' = [clients EXCEPT ![i].queue = queue]
                     /\ InTurn(queue, c, Len(o) + k, rd[c])
    <3>1. CASE k = Left
      <4>1. InTurn(Tail(Queue), c, Len(o) + Left, rd[c])
        <5> HIDE DEF c, o
        <5>. QED  BY <2>2, <2>4, InTurnNode DEF Left, Node
      <4>. QED  BY <2>3, <3>1, <4>1 DEF dequeue_sent
    <3>2. CASE k # Left
      <4>1. k < Left
        <5>1. Left \in Int  BY <1>0, <2>1, <2>4, NodeFacts
        <5>. QED  BY <2>3, <2>5, <3>2, <5>1
      <4>2. InTurn(advance_sent(k), c, Len(o) + k, rd[c])
        <5> HIDE DEF c, o
        <5>. QED  BY <2>2, <2>4, <2>5, <4>1, InTurnPart DEF Left, Node, advance_sent
      <4>. QED  BY <2>3, <3>2, <4>2
    <3>. QED  BY <3>1, <3>2
  <2>10. out' = [out EXCEPT ![c] = p]  BY <2>3, <2>6
  <2>12. c = table[sd]  OBVIOUS
  <2> HIDE DEF c, o, p
  <2>13. /\ clients'[i].sockfd = sd /\ clients'[i].queue = queue
         /\ \A s \in Slots \ {i} : clients'[s] = clients[s]
    BY <1>0, <2>1, <2>9 DEF Client
  <2>14. out'[c] = p /\ \A d \in Conns \ {c} : out'[d] = out[d]  BY <1>0, <2>2, <2>10
  <2>15. InTurn(queue, c, Len(p), rd[c])  BY <2>8, <2>9
  <2>. QED  BY <1>q, <2>1, <2>2, <2>4, <2>8, <2>12, <2>13, <2>14, <2>15
<1>8. CASE RecvSome
  <2>1. i \in Slots /\ sd \in Fds /\ clients[i].sockfd = sd /\ sd # 0
    BY <1>0, <1>8, AtHandFacts, ServerAssumption DEF RecvSome
  <2> DEFINE c == table[sd]
             o == out[c]
  <2>2. /\ c \in Conns /\ rd[c] \in Nat /\ sent[c] \in Nat /\ rd[c] <= sent[c]
        /\ o \in Seq(Conns \X Nat) /\ Len(o) \in Nat
        /\ Queue \in Seq(QueueNode) /\ InTurn(Queue, c, Len(o), rd[c])
    BY <2>1, SlotBytes DEF Queue
  <2>3. /\ Unread(c) > 0 /\ rd' = [rd EXCEPT ![c] = rd[c] + ReadLen(c)]
        /\ clients' = [clients EXCEPT ![i].queue = enqueue_send(ReadBytes(c))]
        /\ UNCHANGED <<conn, sent, out, table>>
    BY <1>8 DEF RecvSome, clientVars
  <2>4. NetTypeOK  BY <1>0 DEF SlotType, TypeOK
  <2>5. c = table[sd] /\ out'[c] = o  BY <2>3
  <2>6. \A b \in DOMAIN o : o[b] = <<c, b>>  BY <1>0, <2>2 DEF BytesInv
  <2> HIDE DEF c, o
  <2>7. ReadLen(c) \in Nat \ {0} /\ ReadLen(c) <= Unread(c)
    BY <2>2, <2>3, <2>4, ReadFacts
  <2>8. rd[c] + ReadLen(c) \in Nat /\ rd[c] + ReadLen(c) <= sent[c]
    BY <2>2, <2>7 DEF Unread
  <2>9. ReadBytes(c) = OwnBytes(c, rd[c], ReadLen(c))  BY DEF ReadBytes, OwnBytes
  <2>10. InTurn(enqueue_send(ReadBytes(c)), c, Len(o), rd[c] + ReadLen(c))
    BY <2>2, <2>7, <2>9, InTurnRead DEF enqueue_send
  <2>11. /\ clients'[i].sockfd = sd /\ clients'[i].queue = enqueue_send(ReadBytes(c))
         /\ \A s \in Slots \ {i} : clients'[s] = clients[s]
    BY <1>0, <2>1, <2>3 DEF Client
  <2>12. rd'[c] = rd[c] + ReadLen(c) /\ \A d \in Conns \ {c} : rd'[d] = rd[d]
    BY <1>0, <2>2, <2>3
  <2>. QED  BY <1>q, <2>1, <2>2, <2>3, <2>5, <2>6, <2>8, <2>10, <2>11, <2>12
<1>. QED
  BY <1>1, <1>2, <1>3, <1>4, <1>5, <1>6, <1>7, <1>8 DEF ServerStep

-----------------------------------------------------------------------------
(* The theorems.                                                           *)

LEMMA SelectInitial == Init => SelectInv
<1>. SUFFICES ASSUME Init PROVE SelectInv  OBVIOUS
<1>1. /\ pc = "select" /\ i = 0 /\ sd = 0 /\ rset = {} /\ wset = {} /\ alive = TRUE
      /\ clients = [s \in Slots |-> NoClient] /\ table = [fd \in Fds |-> FREE]
      /\ conn = [c \in Conns |-> "none"] /\ peer = [c \in Conns |-> "up"]
      /\ sent = [c \in Conns |-> 0] /\ got = [c \in Conns |-> 0]
      /\ rd = [c \in Conns |-> 0] /\ out = [c \in Conns |-> <<>>]
      /\ limit \in FdLimits
  BY DEF Init, NetInit
<1>2. NoClient \in Client /\ NoClient.sockfd = 0 /\ NoClient.queue = <<>>
  BY EmptySeq DEF NoClient, Client
<1>3. clients \in [Slots -> Client]  BY <1>1, <1>2
<1>4. NetTypeOK  BY <1>1, EmptySeq DEF NetTypeOK
<1>5. SlotType
  <2>1. \A s \in Slots : clients[s].sockfd \in Fds \cup {0} /\ clients[s].queue \in Seq(QueueNode)
    BY <1>3 DEF Client
  <2>2. i \in 0 .. MaxClients  BY <1>1, ServerAssumption
  <2>3. table \in [Fds -> Conns \cup {FREE}]  BY <1>1
  <2>. QED  BY <1>1, <1>3, <1>4, <2>1, <2>2, <2>3 DEF SlotType, TypeOK, QueueNode
<1>6. \A s \in Slots : clients[s].sockfd = 0 /\ clients[s].queue = <<>>  BY <1>1, <1>2
<1>7. SlotsInv
  BY <1>1, <1>6
     DEF SlotsInv, SlotsOpen, OneSlot, NoneForgotten, FreeIsEmpty, AtHand
<1>8. NumbersInv  BY <1>1 DEF NumbersInv
<1>9. \A c \in Conns : DOMAIN out[c] = {} /\ Total[c] \in Nat
  BY <1>1, ClientsAssumption
<1>10. BytesInv  BY <1>1, <1>6, <1>9 DEF BytesInv
<1>. QED  BY <1>5, <1>7, <1>8, <1>10 DEF SelectInv

LEMMA SelectStep == SelectInv /\ [Next]_vars => SelectInv'
<1>. SUFFICES ASSUME SelectInv, [Next]_vars PROVE SelectInv'  OBVIOUS
<1>. USE DEF SelectInv
<1>1. NumbersInv'  BY NumbersStep
<1>2. CASE UNCHANGED vars
  <2>1. SlotType'
    BY <1>2 DEF SlotType, TypeOK, NetTypeOK, vars, netVars, clientVars, serverVars
  <2>2. SlotsInv'
    BY <1>2 DEF SlotsInv, SlotsOpen, OneSlot, NoneForgotten, Refused, FreeIsEmpty, AtHand,
                vars, serverVars
  <2>3. BytesInv'
    BY <1>2, <2>1, BytesKept DEF vars, netVars, clientVars, serverVars
  <2>. QED  BY <1>1, <2>1, <2>2, <2>3
<1>3. CASE ServerStep
  <2>1. SlotType'  BY <1>3, ServerTypes
  <2>2. SlotsInv'  BY <1>3, <2>1, ServerSlots
  <2>3. BytesInv'  BY <1>3, <2>1, BytesServer
  <2>. QED  BY <1>1, <2>1, <2>2, <2>3
<1>4. ASSUME NEW c \in Conns, Connect(c) \/ ClientSend(c) \/ ClientRead(c) \/ ClientEnd(c),
             UNCHANGED <<serverVars, limit>>
      PROVE  SelectInv'
  <2>1. SlotType'  BY <1>4, ClientTypes
  <2>2. SlotsInv'
    BY <1>4 DEF SlotsInv, SlotsOpen, OneSlot, NoneForgotten, Refused, FreeIsEmpty, AtHand,
                serverVars
  <2>3. BytesInv'  BY <1>4, BytesClient
  <2>. QED  BY <1>1, <2>1, <2>2, <2>3
<1>. QED  BY <1>2, <1>3, <1>4 DEF Next

LEMMA SelectInvHolds == Spec => []SelectInv
BY SelectInitial, SelectStep, PTL DEF Spec

\* Whenever main sleeps, the slots in use are the open descriptors, each once, and what is
\* queued at a slot are bytes of its own client.
THEOREM SlotsAreTheTable == Spec => []SlotsMatchTable
<1>1. SelectInv => SlotsMatchTable
  <2>. SUFFICES ASSUME SelectInv PROVE SlotsMatchTable  OBVIOUS
  <2>1. TypeOK  BY DEF SelectInv, SlotType
  <2>2. \A s \in Slots : clients[s].sockfd # 0 => table[clients[s].sockfd] # FREE
    BY DEF SelectInv, SlotsInv, SlotsOpen
  <2>3. \A s, t \in Slots :
           s # t /\ clients[s].sockfd # 0 => clients[s].sockfd # clients[t].sockfd
    BY DEF SelectInv, SlotsInv, OneSlot
  <2>4. pc = "select" => \A fd \in Fds :
           table[fd] # FREE => \E s \in Slots : clients[s].sockfd = fd
    BY DEF SelectInv, SlotsInv, NoneForgotten, Refused
  <2>5. ASSUME NEW s \in Slots, NEW n \in ToSet(clients[s].queue), NEW b \in ToSet(n.data)
        PROVE  clients[s].sockfd # 0 /\ b[1] = table[clients[s].sockfd]
    <3>1. PICK j \in DOMAIN clients[s].queue : n = clients[s].queue[j]  BY <2>5 DEF ToSet
    <3>2. PICK l \in DOMAIN n.data : b = n.data[l]  BY <2>5 DEF ToSet
    <3>3. clients[s].sockfd # 0
      BY <3>1 DEF SelectInv, SlotsInv, FreeIsEmpty
    <3>4. b = <<table[clients[s].sockfd], Start(n) + l>>
      BY <3>1, <3>2, <3>3, SlotBytes DEF InTurn
    <3>. QED  BY <3>3, <3>4
  <2>. QED  BY <2>1, <2>2, <2>3, <2>4, <2>5 DEF SlotsMatchTable
<1>. QED  BY <1>1, SelectInvHolds, PTL

LEMMA EchoKept ==
    ASSUME NEW c \in Conns, sent'[c] = sent[c], out'[c] = out[c], peer'[c] = peer[c],
           conn'[c] = conn[c] \/ {conn[c], conn'[c]} \subseteq {"none", "pending", "open"}
    PROVE  UNCHANGED Echo(c)!vars
BY DEF Echo!vars

LEMMA EchoClose ==
    ASSUME SelectInv, NEW fd \in Fds, Close(fd), UNCHANGED <<sent, out, peer>>,
           table[fd] # FREE => peer[table[fd]] # "up" \/ conn[table[fd]] = "refused"
    PROVE  EchoStep
<1>. SUFFICES ASSUME NEW c \in Conns PROVE Echo(c)!Next \/ UNCHANGED Echo(c)!vars
  BY DEF EchoStep
<1>1. CASE c = table[fd]
  <2>1. conn'[c] = "closed" /\ (peer[c] # "up" \/ conn[c] = "refused")
    BY <1>1, ServerAssumption DEF Close
  <2>2. Echo(c)!Close  BY <2>1 DEF Echo!Close
  <2>. QED  BY <2>2 DEF Echo!Next
<1>2. CASE c # table[fd]
  <2>1. conn'[c] = conn[c]  BY <1>2 DEF Close
  <2>. QED  BY <2>1, EchoKept
<1>. QED  BY <1>1, <1>2

\* A send takes the client's next bytes, all of which the client has sent.
LEMMA EchoReply ==
    ASSUME SelectInv, SelectInv', SendSome
    PROVE  EchoStep
<1>1. /\ i \in Slots /\ sd \in Fds /\ table[sd] \in Conns /\ clients[i].sockfd = sd /\ sd # 0
      /\ Queue # <<>>
  BY AtHandFacts, ServerAssumption DEF SelectInv, SendSome
<1>c. PICK c \in Conns : c = table[sd]  BY <1>1
<1> DEFINE o == out[c]
<1>2. /\ c \in Conns /\ rd[c] \in Nat /\ sent[c] \in Nat /\ rd[c] <= sent[c]
      /\ o \in Seq(Conns \X Nat) /\ Len(o) \in Nat
      /\ Queue \in Seq(QueueNode) /\ InTurn(Queue, c, Len(o), rd[c])
  BY <1>1, <1>c, SlotBytes DEF Queue
<1>3. PICK k \in 1 .. SendRoom :
         /\ k <= Left
         /\ out' = [out EXCEPT ![c] = o \o SubSeq(Node.data, Node.off + 1, Node.off + k)]
  BY <1>c DEF SendSome
<1>4. k \in Nat \ {0}  BY ClientsAssumption
<1>5. /\ SubSeq(Node.data, Node.off + 1, Node.off + k) = OwnBytes(c, Len(o), k)
      /\ Len(o) + k <= rd[c]
  BY <1>1, <1>2, <1>3, <1>4, InTurnBytes DEF Node, Left
<1>6. UNCHANGED <<conn, sent, peer>>  BY DEF SendSome, clientVars
<1>7. out \in [Conns -> Seq(Conns \X Nat)]  BY DEF SelectInv, SlotType, TypeOK, NetTypeOK
<1>8. Total[c] \in Nat /\ sent[c] <= Total[c] /\ \A b \in DOMAIN o : o[b] = <<c, b>>
  BY <1>2, ClientsAssumption DEF SelectInv, BytesInv
<1>9. conn[c] = "open"
  BY <1>1, <1>c, ServerAssumption DEF SelectInv, NumbersInv, Refused, SendSome
<1>10. \A d \in Conns \ {c} : out'[d] = out[d]  BY <1>2, <1>3, <1>7
<1> DEFINE p == o \o OwnBytes(c, Len(o), k)
<1>11. out'[c] = p  BY <1>2, <1>3, <1>5, <1>7
<1> HIDE DEF o
<1>12. /\ p \in Seq(Conns \X Nat) /\ Len(p) = Len(o) + k
       /\ \A b \in DOMAIN p : p[b] = <<c, b>>
  BY <1>2, <1>4, <1>8, OwnBytesSent
<1> HIDE DEF p
<1> DEFINE Named(s) == [n \in DOMAIN s |-> IF s[n][1] = c THEN s[n][2] ELSE 0]
<1>13. /\ DOMAIN o = 1 .. Len(o) /\ DOMAIN p = 1 .. Len(o) + k
  BY <1>2, <1>12, LenProperties
<1>14. Named(o) = [b \in 1 .. Len(o) |-> b]  BY <1>8, <1>13
<1>15. Named(p) = [b \in 1 .. Len(o) + k |-> b]  BY <1>12, <1>13
<1>16. Named(o) \in Seq(Nat) /\ Len(Named(o)) = Len(o)
  <2>1. Named(o) \in [1 .. Len(o) -> Nat]  BY <1>2, <1>14
  <2>2. Named(o) \in Seq(Nat)  BY <1>2, <2>1, SeqDef
  <2>. QED  BY <1>2, <2>1, <2>2, LenProperties
<1>17. Named(p) = Named(o) \o [j \in 1 .. k |-> Len(Named(o)) + j]
  <2> DEFINE e == [j \in 1 .. k |-> Len(o) + j]
             f == Named(o) \o e
             g == Named(p)
  <2>1. e \in Seq(Nat) /\ Len(e) = k /\ \A j \in 1 .. k : e[j] = Len(o) + j
    <3>1. \A j \in 1 .. k : Len(o) + j \in Nat  BY <1>2
    <3>2. e \in [1 .. k -> Nat]  BY <3>1
    <3>3. e \in Seq(Nat)  BY <1>4, <3>2, SeqDef
    <3>. QED  BY <1>4, <3>2, <3>3, LenProperties
  <2>2. g \in Seq(Nat) /\ Len(g) = Len(o) + k /\ \A b \in 1 .. Len(o) + k : g[b] = b
    <3>1. g \in [1 .. Len(o) + k -> Nat]  BY <1>2, <1>4, <1>15
    <3>2. Len(o) + k \in Nat  BY <1>2, <1>4
    <3>3. g \in Seq(Nat)  BY <3>1, <3>2, SeqDef
    <3>. QED  BY <1>15, <3>1, <3>2, <3>3, LenProperties
  <2> DEFINE h == Named(o)
  <2>3. \A b \in 1 .. Len(o) : h[b] = b  BY <1>14
  <2>e. e = [j \in 1 .. k |-> Len(h) + j]  BY <1>16
  <2>h. h \in Seq(Nat) /\ Len(h) = Len(o)  BY <1>16
  <2> HIDE DEF e, g, h
  <2>4. /\ h \o e \in Seq(Nat) /\ Len(h \o e) = Len(o) + k
        /\ \A b \in 1 .. Len(o) + k : (h \o e)[b] = IF b <= Len(o) THEN h[b] ELSE e[b - Len(o)]
    <3>1. /\ h \o e \in Seq(Nat) /\ Len(h \o e) = Len(h) + Len(e)
          /\ \A b \in 1 .. Len(h) + Len(e) :
                (h \o e)[b] = IF b <= Len(h) THEN h[b] ELSE e[b - Len(h)]
      BY <2>1, <2>h, ConcatProperties
    <3>. QED  BY <2>1, <2>h, <3>1
  <2>5. ASSUME NEW b \in 1 .. Len(o) + k  PROVE (h \o e)[b] = b
    <3>1. CASE b <= Len(o)
      <4>1. b \in 1 .. Len(o)  BY <1>2, <3>1
      <4>. QED  BY <2>3, <2>4, <3>1, <4>1
    <3>2. CASE ~(b <= Len(o))
      <4>1. b - Len(o) \in 1 .. k /\ Len(o) + (b - Len(o)) = b  BY <1>2, <1>4, <3>2
      <4>. QED  BY <2>1, <2>4, <3>2, <4>1
    <3>. QED  BY <3>1, <3>2
  <2>6. g = h \o e  BY <2>2, <2>4, <2>5, SeqEqual
  <2>. QED  BY <2>6, <2>e DEF g, h
<1> HIDE DEF Named
<1>18. \A n \in {k} : /\ n \in 1 .. sent[c] /\ Len(Named(o)) + n \in 1 .. Total[c]
                      /\ Len(Named(o)) + n <= sent[c]
  BY <1>2, <1>4, <1>5, <1>8, <1>16
<1>19. Echo(c)!Reply
  <2>1. \E n \in 1 .. sent[c] :
           /\ \E e \in 1 .. Total[c] : Len(Named(o)) + n <= e /\ e <= sent[c]
           /\ Named(p) = Named(o) \o [j \in 1 .. n |-> Len(Named(o)) + j]
    BY <1>17, <1>18
  <2>2. \E n \in 1 .. sent[c] :
           /\ \E e \in 1 .. Total[c] : Len(Named(out[c])) + n <= e /\ e <= sent[c]
           /\ Named(out'[c]) = Named(out[c]) \o [j \in 1 .. n |-> Len(Named(out[c])) + j]
    BY <2>1, <1>11 DEF o
  <2>3. conn[c] # "closed" /\ UNCHANGED <<conn, sent, peer>>  BY <1>6, <1>9
  <2>. QED  BY <2>2, <2>3, Zenon DEF Echo!Reply, Named
<1>20. \A d \in Conns \ {c} : UNCHANGED Echo(d)!vars  BY <1>6, <1>10, EchoKept
<1>. QED  BY <1>2, <1>19, <1>20 DEF EchoStep, Echo!Next

LEMMA EchoNext ==
    ASSUME SelectInv, SelectInv', [Next]_vars
    PROVE  EchoStep
<1>0. /\ SlotType /\ SlotsInv /\ NumbersInv
      /\ conn \in [Conns -> {"none", "pending", "open", "refused", "closed"}]
  BY DEF SelectInv, SlotType, TypeOK, NetTypeOK
<1>k. ASSUME UNCHANGED <<sent, out, conn, peer>>  PROVE EchoStep
  BY <1>k, EchoKept DEF EchoStep
<1>1. CASE UNCHANGED vars  BY <1>k, <1>1 DEF vars, netVars, clientVars
<1>2. CASE Select \/ AcceptEnds \/ Slot \/ SlotsEnd
  BY <1>k, <1>2 DEF Select, AcceptEnds, Slot, SlotsEnd, clientVars
<1>3. CASE SendEnds \/ Sigpipe \/ RecvSkips \/ RecvSome \/ RecvEagain
  BY <1>k, <1>3 DEF SendEnds, Sigpipe, RecvSkips, RecvSome, RecvEagain, clientVars
<1>4. CASE Accept
  <2>1. PICK c \in Pending : conn' = [conn EXCEPT ![c] = "open"]  BY <1>4 DEF Accept
  <2>2. UNCHANGED <<sent, out, peer>>  BY <1>4 DEF Accept, clientVars
  <2>3. c \in Conns /\ conn[c] = "pending"  BY DEF Pending
  <2>. QED  BY <1>0, <2>1, <2>2, <2>3, EchoKept DEF EchoStep
<1>5. CASE AcceptRefuses
  <2>1. PICK c \in Pending : conn' = [conn EXCEPT ![c] = "refused"]
    BY <1>5 DEF AcceptRefuses
  <2>2. UNCHANGED <<sent, out, peer>>  BY <1>5 DEF AcceptRefuses, clientVars
  <2>3. c \in Conns /\ conn[c] = "pending" /\ conn'[c] = "refused"
    BY <1>0, <2>1 DEF Pending
  <2>4. Echo(c)!End  BY <2>2, <2>3 DEF Echo!End
  <2>5. \A d \in Conns \ {c} : UNCHANGED Echo(d)!vars  BY <1>0, <2>1, <2>2, EchoKept
  <2>. QED  BY <2>4, <2>5 DEF EchoStep, Echo!Next
<1>6. CASE CloseRefused
  <2>1. sd \in Fds /\ Close(sd) /\ UNCHANGED <<sent, out, peer>>
        /\ (table[sd] # FREE => conn[table[sd]] = "refused")
    BY <1>0, <1>6, AtHandFacts DEF CloseRefused, NumbersInv, Refused, clientVars
  <2>. QED  BY <2>1, EchoClose
<1>7. CASE SendSome  BY <1>7, EchoReply
<1>8. CASE SendError \/ RecvEnd
  <2>1. sd \in Fds /\ Close(sd) /\ UNCHANGED <<sent, out, peer>>
        /\ (table[sd] # FREE => peer[table[sd]] # "up")
    BY <1>0, <1>8, AtHandFacts DEF SendError, RecvEnd, clientVars
  <2>. QED  BY <2>1, EchoClose
<1>9. ASSUME NEW c \in Conns, Connect(c) \/ ClientSend(c) \/ ClientRead(c) \/ ClientEnd(c)
      PROVE  EchoStep
  <2>0. /\ peer \in [Conns -> {"up", "fin", "reset", "abort"}] /\ sent \in [Conns -> Nat]
    BY <1>0 DEF SlotType, TypeOK, NetTypeOK
  <2>1. CASE Connect(c)
    <3>1. UNCHANGED <<sent, out, peer>> /\ conn[c] = "none"
          /\ conn' = [conn EXCEPT ![c] = "pending"]
      BY <2>1 DEF Connect, clientVars
    <3>. QED  BY <1>0, <3>1, EchoKept DEF EchoStep
  <2>2. CASE ClientSend(c)
    <3>1. UNCHANGED <<conn, out, peer>> /\ sent' = [sent EXCEPT ![c] = sent[c] + 1]
      BY <2>2 DEF ClientSend
    <3>2. sent'[c] = sent[c] + 1 /\ \A d \in Conns \ {c} : sent'[d] = sent[d]
      BY <2>0, <3>1
    <3>3. Echo(c)!Request  BY <3>1, <3>2 DEF Echo!Request
    <3>4. \A d \in Conns \ {c} : UNCHANGED Echo(d)!vars  BY <3>1, <3>2, EchoKept
    <3>. QED  BY <3>3, <3>4 DEF EchoStep, Echo!Next
  <2>3. CASE ClientRead(c)  BY <1>k, <2>3 DEF ClientRead
  <2>4. CASE ClientEnd(c)
    <3>1. UNCHANGED <<conn, out, sent>> /\ \E e \in {"fin", "reset", "abort"} :
             peer' = [peer EXCEPT ![c] = e]
      BY <2>4, ClientsAssumption DEF ClientEnd
    <3>2. peer'[c] # "up" /\ \A d \in Conns \ {c} : peer'[d] = peer[d]  BY <2>0, <3>1
    <3>3. Echo(c)!End  BY <3>1, <3>2 DEF Echo!End
    <3>4. \A d \in Conns \ {c} : UNCHANGED Echo(d)!vars  BY <3>1, <3>2, EchoKept
    <3>. QED  BY <3>3, <3>4 DEF EchoStep, Echo!Next
  <2>. QED  BY <1>9, <2>1, <2>2, <2>3, <2>4
<1>. QED
  BY <1>1, <1>2, <1>3, <1>4, <1>5, <1>6, <1>7, <1>8, <1>9 DEF Next, ServerStep

\* Every connection of the select server is an EchoService, as far as safety goes: its own
\* bytes come back in order, however the sends are cut and the numbers come back, and it is
\* closed for a reason only.
THEOREM ConnectionsAreEchoes == Spec => (\A c \in Conns : Echo(c)!Init) /\ [][EchoStep]_vars
<1>1. Init => \A c \in Conns : Echo(c)!Init
  <2>. SUFFICES ASSUME Init, NEW c \in Conns PROVE Echo(c)!Init  OBVIOUS
  <2>1. sent[c] = 0 /\ out[c] = <<>> /\ conn[c] = "none" /\ peer[c] = "up"
    BY DEF Init, NetInit
  <2>2. [n \in DOMAIN <<>> |-> IF <<>>[n][1] = c THEN <<>>[n][2] ELSE 0] = <<>>  OBVIOUS
  <2>. QED  BY <2>1, <2>2 DEF Echo!Init
<1>2. SelectInv /\ SelectInv' /\ [Next]_vars => [EchoStep]_vars  BY EchoNext
<1>. QED  BY <1>1, <1>2, SelectInvHolds, PTL DEF Spec

-----------------------------------------------------------------------------
(* HashMap: entries and their keys.                                        *)

\* An entry carries the key it was made for, and its loop finds it by no other.
LEMMA EntryFacts ==
    ASSUME NEW e \in Entry
    PROVE  /\ KeyOf(e) \in Keys
           /\ \A k \in Keys : Matches(e, k) <=> KeyOf(e) = k
           /\ \A v \in Values : LET f == [e EXCEPT !.value = v] IN
                 f \in Entry /\ KeyOf(f) = KeyOf(e) /\ f.value = v
<1>1. PICK l \in Keys, w \in Values : e = NewEntry(l, w)  BY DEF Entry
<1>2. CASE \E x \in StrKeys : l = StrKey(x)
  <2>1. PICK x \in StrKeys : l = StrKey(x)  BY <1>2
  <2>2. x # NULL  BY KeysAssumption
  <2>3. e = [key |-> x, int_key |-> 0, value |-> w]
    BY <1>1, <2>1 DEF NewEntry, StrKey
  <2>4. KeyOf(e) = StrKey(x)  BY <2>2, <2>3 DEF KeyOf
  <2>5. ASSUME NEW k \in Keys  PROVE  Matches(e, k) <=> KeyOf(e) = k
    BY <2>2, <2>3, <2>4 DEF Keys, StrKey, IntKey, Matches
  <2>6. ASSUME NEW v \in Values
        PROVE  LET f == [e EXCEPT !.value = v] IN
               f \in Entry /\ KeyOf(f) = KeyOf(e) /\ f.value = v
    <3>1. [e EXCEPT !.value = v] = [key |-> x, int_key |-> 0, value |-> v]  BY <2>3
    <3>2. [e EXCEPT !.value = v] = NewEntry(l, v)  BY <2>1, <3>1 DEF NewEntry, StrKey
    <3>. QED  BY <2>2, <2>4, <3>1, <3>2 DEF Entry, KeyOf
  <2>. QED  BY <2>1, <2>4, <2>5, <2>6
<1>3. CASE \E x \in IntKeys : l = IntKey(x)
  <2>1. PICK x \in IntKeys : l = IntKey(x)  BY <1>3
  <2>3. e = [key |-> NULL, int_key |-> x, value |-> w]
    BY <1>1, <2>1 DEF NewEntry, IntKey
  <2>4. KeyOf(e) = IntKey(x)  BY <2>3 DEF KeyOf
  <2>5. ASSUME NEW k \in Keys  PROVE  Matches(e, k) <=> KeyOf(e) = k
    BY KeysAssumption, <2>3, <2>4 DEF Keys, StrKey, IntKey, Matches
  <2>6. ASSUME NEW v \in Values
        PROVE  LET f == [e EXCEPT !.value = v] IN
               f \in Entry /\ KeyOf(f) = KeyOf(e) /\ f.value = v
    <3>1. [e EXCEPT !.value = v] = [key |-> NULL, int_key |-> x, value |-> v]  BY <2>3
    <3>2. [e EXCEPT !.value = v] = NewEntry(l, v)  BY <2>1, <3>1 DEF NewEntry, IntKey
    <3>. QED  BY <2>4, <3>1, <3>2 DEF Entry, KeyOf
  <2>. QED  BY <2>1, <2>4, <2>5, <2>6
<1>. QED  BY <1>2, <1>3 DEF Keys

LEMMA NewEntryFacts ==
    ASSUME NEW k \in Keys, NEW v \in Values
    PROVE  NewEntry(k, v) \in Entry /\ KeyOf(NewEntry(k, v)) = k /\ NewEntry(k, v).value = v
<1>1. CASE \E x \in StrKeys : k = StrKey(x)
  BY <1>1, KeysAssumption DEF StrKey, NewEntry, KeyOf, Entry
<1>2. CASE \E x \in IntKeys : k = IntKey(x)
  BY <1>2 DEF IntKey, NewEntry, KeyOf, Entry
<1>. QED  BY <1>1, <1>2 DEF Keys

\* A hash has a bucket, whatever their number.
LEMMA HashFacts ==
    ASSUME NEW k \in Keys, NEW n \in Nat \ {0}
    PROVE  Hash(k) % n \in 0 .. n - 1
<1>1. Hash(k) \in Nat
  <2>1. CASE \E x \in StrKeys : k = StrKey(x)  BY <2>1, KeysAssumption DEF StrKey, Hash
  <2>2. CASE \E x \in IntKeys : k = IntKey(x)  BY <2>2, KeysAssumption DEF IntKey, Hash
  <2>. QED  BY <2>1, <2>2 DEF Keys
<1>. QED  BY <1>1

-----------------------------------------------------------------------------
(* Arrays of chains.                                                       *)

\* Every entry is in the bucket of its key, and no two have the same.
Hashed(bs, n) ==
    /\ bs \in [0 .. n - 1 -> Seq(Entry)]
    /\ \A b \in 0 .. n - 1 : \A p \in DOMAIN bs[b] : Hash(KeyOf(bs[b][p])) % n = b
    /\ \A b \in 0 .. n - 1 : \A p, r \in DOMAIN bs[b] :
          KeyOf(bs[b][p]) = KeyOf(bs[b][r]) => p = r

LEMMA EntriesFacts ==
    ASSUME NEW bs
    PROVE  \A e : e \in EntriesOf(bs) <=> \E b \in DOMAIN bs : \E p \in DOMAIN bs[b] : e = bs[b][p]
BY DEF EntriesOf, ToSet

LEMMA HashedFacts ==
    ASSUME NEW n \in Nat \ {0}, NEW bs, Hashed(bs, n)
    PROVE  /\ EntriesOf(bs) \subseteq Entry
           /\ \A b, c \in 0 .. n - 1 : \A p \in DOMAIN bs[b], r \in DOMAIN bs[c] :
                 KeyOf(bs[b][p]) = KeyOf(bs[c][r]) => b = c /\ p = r
<1>1. DOMAIN bs = 0 .. n - 1 /\ \A b \in 0 .. n - 1 : bs[b] \in Seq(Entry)  BY DEF Hashed
<1>2. \A b \in 0 .. n - 1 : \A p \in DOMAIN bs[b] : bs[b][p] \in Entry
  BY <1>1, ElementOfSeq, LenProperties
<1>3. EntriesOf(bs) \subseteq Entry  BY <1>1, <1>2, EntriesFacts
<1>4. ASSUME NEW b \in 0 .. n - 1, NEW c \in 0 .. n - 1,
             NEW p \in DOMAIN bs[b], NEW r \in DOMAIN bs[c], KeyOf(bs[b][p]) = KeyOf(bs[c][r])
      PROVE  b = c /\ p = r
  <2>1. b = Hash(KeyOf(bs[b][p])) % n /\ c = Hash(KeyOf(bs[c][r])) % n  BY DEF Hashed
  <2>2. b = c  BY <1>4, <2>1
  <2>. QED  BY <1>4, <2>2 DEF Hashed
<1>. QED  BY <1>3, <1>4

LEMMA HashedUnique ==
    ASSUME NEW n \in Nat \ {0}, NEW bs, Hashed(bs, n)
    PROVE  EntriesOf(bs) \subseteq Entry /\ \A e, f \in EntriesOf(bs) : KeyOf(e) = KeyOf(f) => e = f
<1>1. DOMAIN bs = 0 .. n - 1  BY DEF Hashed
<1>2. ASSUME NEW e \in EntriesOf(bs), NEW f \in EntriesOf(bs), KeyOf(e) = KeyOf(f)  PROVE  e = f
  <2>1. PICK b \in DOMAIN bs : \E p \in DOMAIN bs[b] : e = bs[b][p]  BY EntriesFacts
  <2>2. PICK p \in DOMAIN bs[b] : e = bs[b][p]  BY <2>1
  <2>3. PICK c \in DOMAIN bs : \E r \in DOMAIN bs[c] : f = bs[c][r]  BY EntriesFacts
  <2>4. PICK r \in DOMAIN bs[c] : f = bs[c][r]  BY <2>3
  <2>. QED  BY <1>1, <1>2, <2>2, <2>4, HashedFacts
<1>. QED  BY <1>2, HashedFacts

\* An array of empty chains.
LEMMA EmptyFacts ==
    ASSUME NEW n \in Nat \ {0}
    PROVE  /\ Hashed(Empty(n), n) /\ EntriesOf(Empty(n)) = {} /\ Places(Empty(n)) = {}
<1>1. DOMAIN Empty(n) = 0 .. n - 1 /\ \A b \in 0 .. n - 1 : Empty(n)[b] = <<>>  BY DEF Empty
<1>2. Empty(n) \in [0 .. n - 1 -> Seq(Entry)]  BY DEF Empty
<1>3. DOMAIN << >> = {}  OBVIOUS
<1>4. Hashed(Empty(n), n)  BY <1>1, <1>2, <1>3 DEF Hashed
<1>. QED  BY <1>1, <1>3, <1>4, EntriesFacts DEF Places

LEMMA NoBuckets == EntriesOf(<<>>) = {} /\ Places(<<>>) = {}
<1>1. DOMAIN << >> = {}  OBVIOUS
<1>. QED  BY <1>1, EntriesFacts DEF Places

\* One more place, where a chain grows.
LEMMA OnePlaceMore ==
    ASSUME NEW bs, NEW b \in DOMAIN bs, NEW s, NEW cs, NEW l \in Nat,
           DOMAIN bs[b] = 1 .. l, DOMAIN s = 1 .. l + 1, cs = [bs EXCEPT ![b] = s],
           IsFiniteSet(Places(bs))
    PROVE  IsFiniteSet(Places(cs)) /\ Cardinality(Places(cs)) = Cardinality(Places(bs)) + 1
<1>1. DOMAIN cs = DOMAIN bs /\ cs[b] = s /\ \A c \in DOMAIN bs : c # b => cs[c] = bs[c]
  OBVIOUS
<1>2. Places(cs) = Places(bs) \cup {<<b, l + 1>>}
  <2>1. \A c, p : <<c, p>> \in Places(bs) <=> c \in DOMAIN bs /\ p \in DOMAIN bs[c]
    BY DEF Places
  <2>2. \A c, p : <<c, p>> \in Places(cs) <=> c \in DOMAIN cs /\ p \in DOMAIN cs[c]
    BY DEF Places
  <2>3. /\ \A x \in Places(bs) : \E c, p : x = <<c, p>>
        /\ \A x \in Places(cs) : \E c, p : x = <<c, p>>
    BY DEF Places
  <2>4. 1 .. l + 1 = (1 .. l) \cup {l + 1}  OBVIOUS
  <2>5. \A c, p : <<c, p>> \in Places(cs) <=> <<c, p>> \in Places(bs) \/ (c = b /\ p = l + 1)
    BY <1>1, <2>1, <2>2, <2>4
  <2>6. ASSUME NEW x \in Places(cs)  PROVE  x \in Places(bs) \cup {<<b, l + 1>>}
    <3>1. PICK c, p : x = <<c, p>>  BY <2>3
    <3>. QED  BY <2>5, <3>1
  <2>7. ASSUME NEW x \in Places(bs)  PROVE  x \in Places(cs)
    <3>1. PICK c, p : x = <<c, p>>  BY <2>3
    <3>. QED  BY <2>5, <3>1
  <2>8. <<b, l + 1>> \in Places(cs)  BY <2>5
  <2>. QED  BY <2>6, <2>7, <2>8
<1>3. <<b, l + 1>> \notin Places(bs)
  <2>1. l + 1 \notin 1 .. l  OBVIOUS
  <2>. QED  BY <2>1 DEF Places
<1> DEFINE P == Places(bs)
           Q == Places(cs)
           x == <<b, l + 1>>
<1>4. Q = P \cup {x} /\ x \notin P /\ IsFiniteSet(P)  BY <1>2, <1>3
<1> HIDE DEF P, Q, x
<1>5. IsFiniteSet(Q) /\ Cardinality(Q) = Cardinality(P) + 1  BY <1>4, FS_AddElement
<1>. QED  BY <1>5 DEF P, Q

\* One place less, where a chain shrinks.
LEMMA OnePlaceLess ==
    ASSUME NEW bs, NEW b \in DOMAIN bs, NEW s, NEW cs, NEW l \in Nat,
           DOMAIN bs[b] = 1 .. l + 1, DOMAIN s = 1 .. l, cs = [bs EXCEPT ![b] = s],
           IsFiniteSet(Places(bs))
    PROVE  IsFiniteSet(Places(cs)) /\ Cardinality(Places(cs)) = Cardinality(Places(bs)) - 1
<1>1. DOMAIN cs = DOMAIN bs /\ cs[b] = s /\ \A c \in DOMAIN bs : c # b => cs[c] = bs[c]
  OBVIOUS
<1>2. Places(cs) = Places(bs) \ {<<b, l + 1>>}
  <2>1. \A c, p : <<c, p>> \in Places(bs) <=> c \in DOMAIN bs /\ p \in DOMAIN bs[c]
    BY DEF Places
  <2>2. \A c, p : <<c, p>> \in Places(cs) <=> c \in DOMAIN cs /\ p \in DOMAIN cs[c]
    BY DEF Places
  <2>3. /\ \A x \in Places(bs) : \E c, p : x = <<c, p>>
        /\ \A x \in Places(cs) : \E c, p : x = <<c, p>>
    BY DEF Places
  <2>4. 1 .. l = (1 .. l + 1) \ {l + 1}  OBVIOUS
  <2>5. \A c, p : <<c, p>> \in Places(cs) <=> <<c, p>> \in Places(bs) /\ ~(c = b /\ p = l + 1)
    BY <1>1, <2>1, <2>2, <2>4
  <2>6. ASSUME NEW x \in Places(cs)  PROVE  x \in Places(bs) /\ x # <<b, l + 1>>
    <3>1. PICK c, p : x = <<c, p>>  BY <2>3
    <3>. QED  BY <2>5, <3>1
  <2>7. ASSUME NEW x \in Places(bs), x # <<b, l + 1>>  PROVE  x \in Places(cs)
    <3>1. PICK c, p : x = <<c, p>>  BY <2>3
    <3>. QED  BY <2>5, <2>7, <3>1
  <2>. QED  BY <2>6, <2>7
<1>3. <<b, l + 1>> \in Places(bs)
  <2>1. l + 1 \in 1 .. l + 1  OBVIOUS
  <2>. QED  BY <2>1 DEF Places
<1> DEFINE P == Places(bs)
           Q == Places(cs)
           x == <<b, l + 1>>
<1>4. Q = P \ {x} /\ x \in P /\ IsFiniteSet(P)  BY <1>2, <1>3
<1> HIDE DEF P, Q, x
<1>5. IsFiniteSet(Q) /\ Cardinality(Q) = Cardinality(P) - 1  BY <1>4, FS_RemoveElement
<1>. QED  BY <1>5 DEF P, Q

\* cs is bs with chain s in bucket b.
Rechained(cs, bs, b, s) == cs = [bs EXCEPT ![b] = s]

\* A chain grows by an entry at its head, whose key is nowhere in the array.
LEMMA HeadAdded ==
    ASSUME NEW n \in Nat \ {0}, NEW bs, Hashed(bs, n), IsFiniteSet(Places(bs)),
           NEW e \in Entry, \A f \in EntriesOf(bs) : KeyOf(f) # KeyOf(e),
           NEW b, b = Hash(KeyOf(e)) % n,
           NEW cs, Rechained(cs, bs, b, <<e>> \o bs[b])
    PROVE  /\ b \in DOMAIN bs /\ Hashed(cs, n)
           /\ EntriesOf(cs) = EntriesOf(bs) \cup {e}
           /\ IsFiniteSet(Places(cs)) /\ Cardinality(Places(cs)) = Cardinality(Places(bs)) + 1
<1>1. /\ DOMAIN bs = 0 .. n - 1 /\ b \in 0 .. n - 1 /\ bs[b] \in Seq(Entry)
      /\ bs \in [0 .. n - 1 -> Seq(Entry)]
  BY EntryFacts, HashFacts DEF Hashed
<1> DEFINE s == bs[b]
           l == Len(s)
           t == <<e>> \o s
<1>2. l \in Nat /\ DOMAIN s = 1 .. l /\ s \in Seq(Entry)  BY <1>1, LenProperties
<1>3. /\ t \in Seq(Entry) /\ Len(t) = l + 1 /\ DOMAIN t = 1 .. l + 1 /\ t[1] = e
      /\ \A p \in 1 .. l : t[p + 1] = s[p]
  BY <1>2
<1>4. cs = [bs EXCEPT ![b] = t]  BY DEF Rechained
<1> HIDE DEF s, t, l
<1>5. /\ cs \in [0 .. n - 1 -> Seq(Entry)] /\ DOMAIN cs = 0 .. n - 1 /\ cs[b] = t
      /\ \A c \in 0 .. n - 1 : c # b => cs[c] = bs[c]
  BY <1>1, <1>3, <1>4
<1>6. IsFiniteSet(Places(cs)) /\ Cardinality(Places(cs)) = Cardinality(Places(bs)) + 1
  <2>1. b \in DOMAIN bs /\ DOMAIN bs[b] = 1 .. l  BY <1>1, <1>2 DEF s
  <2>. QED  BY ONLY <1>2, <1>3, <1>4, <2>1, IsFiniteSet(Places(bs)), OnePlaceMore
<1>7. \A p \in DOMAIN t : p = 1 \/ (p - 1 \in 1 .. l /\ t[p] = s[p - 1])
  BY <1>2, <1>3
<1>8. EntriesOf(cs) = EntriesOf(bs) \cup {e}
  <2>1. ASSUME NEW f \in EntriesOf(cs)  PROVE  f \in EntriesOf(bs) \cup {e}
    <3>1. PICK c \in 0 .. n - 1 : \E p \in DOMAIN cs[c] : f = cs[c][p]
      <4>1. \E c \in DOMAIN cs : \E p \in DOMAIN cs[c] : f = cs[c][p]
        BY ONLY <2>1, EntriesFacts
      <4>. QED  BY <1>5, <4>1
    <3>2. PICK p \in DOMAIN cs[c] : f = cs[c][p]  BY <3>1
    <3>3. CASE c # b  BY <1>1, <1>5, <3>2, <3>3, EntriesFacts
    <3>4. CASE c = b
      <4>1. f = t[p] /\ p \in DOMAIN t  BY <1>5, <3>2, <3>4
      <4>2. CASE p = 1  BY <1>3, <4>1, <4>2
      <4>3. CASE p - 1 \in 1 .. l /\ t[p] = s[p - 1]
        <5>1. p - 1 \in DOMAIN bs[b] /\ f = bs[b][p - 1]  BY <1>2, <4>1, <4>3 DEF s
        <5>. QED  BY <1>1, <5>1, EntriesFacts
      <4>. QED  BY <1>7, <4>1, <4>2, <4>3
    <3>. QED  BY <3>3, <3>4
  <2>2. ASSUME NEW f \in EntriesOf(bs)  PROVE  f \in EntriesOf(cs)
    <3>1. PICK c \in 0 .. n - 1 : \E p \in DOMAIN bs[c] : f = bs[c][p]
      BY <1>1, <2>2, EntriesFacts
    <3>2. PICK p \in DOMAIN bs[c] : f = bs[c][p]  BY <3>1
    <3>3. CASE c # b  BY <1>5, <3>2, <3>3, EntriesFacts
    <3>4. CASE c = b
      <4>1. p \in 1 .. l /\ f = s[p]  BY <1>2, <3>2, <3>4 DEF s
      <4>2. p + 1 \in DOMAIN cs[b] /\ f = cs[b][p + 1]  BY <1>2, <1>3, <1>5, <4>1
      <4>. QED  BY <1>1, <1>5, <4>2, EntriesFacts
    <3>. QED  BY <3>3, <3>4
  <2>3. e \in EntriesOf(cs)
    <3>1. 1 \in DOMAIN cs[b] /\ e = cs[b][1]  BY <1>2, <1>3, <1>5
    <3>. QED  BY <1>1, <1>5, <3>1, EntriesFacts
  <2>. QED  BY <2>1, <2>2, <2>3
<1>9. \A p \in 1 .. l : KeyOf(s[p]) # KeyOf(e) /\ Hash(KeyOf(s[p])) % n = b
  <2>1. \A p \in 1 .. l : s[p] \in EntriesOf(bs)  BY <1>1, <1>2, EntriesFacts DEF s
  <2>2. \A p \in 1 .. l : Hash(KeyOf(s[p])) % n = b  BY <1>1, <1>2 DEF Hashed, s
  <2>. QED  BY <2>1, <2>2
<1>10. Hashed(cs, n)
  <2>1. ASSUME NEW c \in 0 .. n - 1, NEW p \in DOMAIN cs[c]
        PROVE  Hash(KeyOf(cs[c][p])) % n = c
    <3>1. CASE c # b  BY <1>5, <2>1, <3>1 DEF Hashed
    <3>2. CASE c = b
      <4>1. p \in DOMAIN t /\ cs[c][p] = t[p]  BY <1>5, <2>1, <3>2
      <4>2. CASE p = 1  BY <1>3, <3>2, <4>1, <4>2
      <4>3. CASE p - 1 \in 1 .. l /\ t[p] = s[p - 1]  BY <1>9, <3>2, <4>1, <4>3
      <4>. QED  BY <1>7, <4>1, <4>2, <4>3
    <3>. QED  BY <3>1, <3>2
  <2>2. ASSUME NEW c \in 0 .. n - 1, NEW p \in DOMAIN cs[c], NEW r \in DOMAIN cs[c],
               KeyOf(cs[c][p]) = KeyOf(cs[c][r])
        PROVE  p = r
    <3>1. CASE c # b  BY <1>5, <2>2, <3>1 DEF Hashed
    <3>2. CASE c = b
      <4>1. /\ p \in DOMAIN t /\ r \in DOMAIN t /\ KeyOf(t[p]) = KeyOf(t[r])
            /\ p \in Nat /\ r \in Nat
        BY <1>2, <1>3, <1>5, <2>2, <3>2
      <4>2. CASE p = 1 /\ r = 1  BY <4>2
      <4>3. CASE p = 1 /\ r # 1
        <5>1. r - 1 \in 1 .. l /\ t[r] = s[r - 1]  BY <1>7, <4>1, <4>3
        <5>. QED  BY <1>3, <1>9, <4>1, <4>3, <5>1
      <4>4. CASE p # 1 /\ r = 1
        <5>1. p - 1 \in 1 .. l /\ t[p] = s[p - 1]  BY <1>7, <4>1, <4>4
        <5>. QED  BY <1>3, <1>9, <4>1, <4>4, <5>1
      <4>5. CASE p # 1 /\ r # 1
        <5>1. /\ p - 1 \in 1 .. l /\ t[p] = s[p - 1]
              /\ r - 1 \in 1 .. l /\ t[r] = s[r - 1]
          BY <1>7, <4>1, <4>5
        <5>2. \A x, y \in 1 .. l : KeyOf(s[x]) = KeyOf(s[y]) => x = y
          BY <1>1, <1>2 DEF Hashed, s
        <5>3. p - 1 = r - 1  BY <4>1, <5>1, <5>2
        <5>. QED  BY <4>1, <5>3
      <4>. QED  BY <4>2, <4>3, <4>4, <4>5
    <3>. QED  BY <3>1, <3>2
  <2>. QED  BY <1>5, <2>1, <2>2 DEF Hashed
<1>. QED  BY <1>1, <1>6, <1>8, <1>10

\* Place p is taken out of a chain.
LEMMA PlaceTaken ==
    ASSUME NEW n \in Nat \ {0}, NEW bs, Hashed(bs, n), IsFiniteSet(Places(bs)),
           NEW b \in 0 .. n - 1, NEW p \in DOMAIN bs[b],
           NEW t \in Seq(Entry), Len(t) = Len(bs[b]) - 1,
           \A r \in 1 .. Len(t) : t[r] = IF r < p THEN bs[b][r] ELSE bs[b][r + 1],
           NEW cs, Rechained(cs, bs, b, t)
    PROVE  /\ Hashed(cs, n) /\ EntriesOf(cs) = EntriesOf(bs) \ {bs[b][p]}
           /\ IsFiniteSet(Places(cs)) /\ Cardinality(Places(cs)) = Cardinality(Places(bs)) - 1
<1>1. DOMAIN bs = 0 .. n - 1 /\ bs[b] \in Seq(Entry) /\ bs \in [0 .. n - 1 -> Seq(Entry)]
  BY DEF Hashed
<1> DEFINE s == bs[b]
           l == Len(t)
<1>2. /\ l \in Nat /\ DOMAIN t = 1 .. l /\ DOMAIN s = 1 .. l + 1 /\ p \in 1 .. l + 1
      /\ \A r \in 1 .. l : t[r] = IF r < p THEN s[r] ELSE s[r + 1]
  BY <1>1, LenProperties
<1>3. /\ cs \in [0 .. n - 1 -> Seq(Entry)] /\ DOMAIN cs = 0 .. n - 1 /\ cs[b] = t
      /\ \A c \in 0 .. n - 1 : c # b => cs[c] = bs[c]
  BY <1>1 DEF Rechained
<1>4. IsFiniteSet(Places(cs)) /\ Cardinality(Places(cs)) = Cardinality(Places(bs)) - 1
  <2> HIDE DEF l
  <2>1. b \in DOMAIN bs /\ DOMAIN bs[b] = 1 .. l + 1 /\ DOMAIN t = 1 .. l /\ l \in Nat
    BY <1>1, <1>2
  <2>. QED  BY ONLY <2>1, IsFiniteSet(Places(bs)), Rechained(cs, bs, b, t), OnePlaceLess
       DEF Rechained
<1> DEFINE Old(r) == IF r < p THEN r ELSE r + 1
<1> HIDE DEF s, l
<1>5. /\ \A r \in 1 .. l : Old(r) \in DOMAIN s /\ Old(r) # p /\ t[r] = s[Old(r)]
      /\ \A x, y \in 1 .. l : Old(x) = Old(y) => x = y
      /\ \A x \in DOMAIN s : x # p => \E r \in 1 .. l : Old(r) = x
  <2>1. \A r \in 1 .. l : Old(r) \in 1 .. l + 1 /\ Old(r) # p  BY <1>2
  <2>2. \A r \in 1 .. l : t[r] = s[Old(r)]  BY <1>2
  <2>3. \A x, y \in 1 .. l : Old(x) = Old(y) => x = y  BY <1>2
  <2>4. ASSUME NEW x \in 1 .. l + 1, x # p  PROVE  \E r \in 1 .. l : Old(r) = x
    <3>1. CASE x < p
      <4>1. x \in 1 .. l /\ Old(x) = x  BY <1>2, <2>4, <3>1
      <4>. QED  BY <4>1
    <3>2. CASE x > p
      <4>1. x - 1 \in 1 .. l /\ Old(x - 1) = x  BY <1>2, <2>4, <3>2
      <4>. QED  BY <4>1
    <3>. QED  BY <1>2, <2>4, <3>1, <3>2
  <2>. QED  BY <1>2, <2>1, <2>2, <2>3, <2>4
<1> HIDE DEF Old
<1>6. \A c, d \in 0 .. n - 1 : \A x \in DOMAIN bs[c], y \in DOMAIN bs[d] :
         KeyOf(bs[c][x]) = KeyOf(bs[d][y]) => c = d /\ x = y
  BY HashedFacts
<1>7. EntriesOf(cs) = EntriesOf(bs) \ {bs[b][p]}
  <2>1. ASSUME NEW f \in EntriesOf(cs)  PROVE  f \in EntriesOf(bs) /\ f # bs[b][p]
    <3>1. PICK c \in 0 .. n - 1 : \E r \in DOMAIN cs[c] : f = cs[c][r]
      <4>1. \E c \in DOMAIN cs : \E r \in DOMAIN cs[c] : f = cs[c][r]
        BY ONLY <2>1, EntriesFacts
      <4>. QED  BY <1>3, <4>1
    <3>2. PICK r \in DOMAIN cs[c] : f = cs[c][r]  BY <3>1
    <3>3. CASE c # b
      <4>1. r \in DOMAIN bs[c] /\ f = bs[c][r]  BY <1>3, <3>2, <3>3
      <4>. QED  BY <1>1, <1>6, <3>3, <4>1, EntriesFacts
    <3>4. CASE c = b
      <4>1. Old(r) \in DOMAIN bs[b] /\ Old(r) # p /\ f = bs[b][Old(r)]
        BY <1>2, <1>3, <1>5, <3>2, <3>4 DEF s
      <4>2. KeyOf(bs[b][Old(r)]) # KeyOf(bs[b][p])  BY <1>6, <4>1
      <4>. QED  BY <1>1, <4>1, <4>2, EntriesFacts
    <3>. QED  BY <3>3, <3>4
  <2>2. ASSUME NEW f \in EntriesOf(bs), f # bs[b][p]  PROVE  f \in EntriesOf(cs)
    <3>1. PICK c \in 0 .. n - 1 : \E x \in DOMAIN bs[c] : f = bs[c][x]
      BY <1>1, <2>2, EntriesFacts
    <3>2. PICK x \in DOMAIN bs[c] : f = bs[c][x]  BY <3>1
    <3>3. CASE c # b  BY <1>3, <3>2, <3>3, EntriesFacts
    <3>4. CASE c = b
      <4>1. x \in DOMAIN s /\ x # p /\ f = s[x]  BY <2>2, <3>2, <3>4 DEF s
      <4>2. PICK r \in 1 .. l : Old(r) = x  BY <1>5, <4>1
      <4>3. r \in DOMAIN cs[b] /\ f = cs[b][r]  BY <1>2, <1>3, <1>5, <4>1, <4>2
      <4>. QED  BY <1>3, <4>3, EntriesFacts
    <3>. QED  BY <3>3, <3>4
  <2>. QED  BY <2>1, <2>2
<1>8. Hashed(cs, n)
  <2>1. ASSUME NEW c \in 0 .. n - 1, NEW r \in DOMAIN cs[c]
        PROVE  Hash(KeyOf(cs[c][r])) % n = c
    <3>1. CASE c # b  BY <1>3, <2>1, <3>1 DEF Hashed
    <3>2. CASE c = b
      <4>1. Old(r) \in DOMAIN bs[b] /\ cs[c][r] = bs[b][Old(r)]
        BY <1>2, <1>3, <1>5, <2>1, <3>2 DEF s
      <4>. QED  BY <3>2, <4>1 DEF Hashed
    <3>. QED  BY <3>1, <3>2
  <2>2. ASSUME NEW c \in 0 .. n - 1, NEW x \in DOMAIN cs[c], NEW y \in DOMAIN cs[c],
               KeyOf(cs[c][x]) = KeyOf(cs[c][y])
        PROVE  x = y
    <3>1. CASE c # b  BY <1>3, <2>2, <3>1 DEF Hashed
    <3>2. CASE c = b
      <4>1. /\ Old(x) \in DOMAIN bs[b] /\ cs[c][x] = bs[b][Old(x)] /\ x \in 1 .. l
            /\ Old(y) \in DOMAIN bs[b] /\ cs[c][y] = bs[b][Old(y)] /\ y \in 1 .. l
        BY <1>2, <1>3, <1>5, <2>2, <3>2 DEF s
      <4>2. Old(x) = Old(y)  BY <1>6, <2>2, <4>1
      <4>. QED  BY <1>5, <4>1, <4>2
    <3>. QED  BY <3>1, <3>2
  <2>. QED  BY <1>3, <2>1, <2>2 DEF Hashed
<1>. QED  BY <1>4, <1>7, <1>8
\* cs is bs with entry f in place p of bucket b.
Revalued(cs, bs, b, p, f) == cs = [bs EXCEPT ![b][p] = f]

\* The value of an entry is overwritten.
LEMMA ValueSet ==
    ASSUME NEW n \in Nat \ {0}, NEW bs, Hashed(bs, n), IsFiniteSet(Places(bs)),
           NEW b \in 0 .. n - 1, NEW p \in DOMAIN bs[b],
           NEW f \in Entry, KeyOf(f) = KeyOf(bs[b][p]),
           NEW cs, Revalued(cs, bs, b, p, f)
    PROVE  /\ Hashed(cs, n) /\ EntriesOf(cs) = (EntriesOf(bs) \ {bs[b][p]}) \cup {f}
           /\ Places(cs) = Places(bs)
<1>1. DOMAIN bs = 0 .. n - 1 /\ bs[b] \in Seq(Entry) /\ bs \in [0 .. n - 1 -> Seq(Entry)]
  BY DEF Hashed
<1> DEFINE s == bs[b]
           t == [s EXCEPT ![p] = f]
<1>2. /\ DOMAIN t = DOMAIN s /\ t \in Seq(Entry) /\ t[p] = f
      /\ \A x \in DOMAIN s : x # p => t[x] = s[x]
  BY <1>1, ExceptSeq
<1>3. cs = [bs EXCEPT ![b] = t]  BY <1>1 DEF Revalued
<1>4. p \in DOMAIN s /\ s[p] = bs[b][p]  OBVIOUS
<1> HIDE DEF t
<1>5. /\ cs \in [0 .. n - 1 -> Seq(Entry)] /\ DOMAIN cs = 0 .. n - 1 /\ cs[b] = t
      /\ \A c \in 0 .. n - 1 : c # b => cs[c] = bs[c]
  BY <1>1, <1>2, <1>3
<1>6. \A c \in 0 .. n - 1 : DOMAIN cs[c] = DOMAIN bs[c]  BY <1>2, <1>5
<1>7. Places(cs) = Places(bs)  BY ONLY <1>1, <1>5, <1>6 DEF Places
<1>8. \A c, d \in 0 .. n - 1 : \A x \in DOMAIN bs[c], y \in DOMAIN bs[d] :
         KeyOf(bs[c][x]) = KeyOf(bs[d][y]) => c = d /\ x = y
  BY HashedFacts
<1>9. \A c \in 0 .. n - 1 : \A x \in DOMAIN bs[c] :
         cs[c][x] = IF c = b /\ x = p THEN f ELSE bs[c][x]
  BY <1>2, <1>5
<1> HIDE DEF s
<1>10. \A c \in 0 .. n - 1 : \A x \in DOMAIN bs[c] : KeyOf(cs[c][x]) = KeyOf(bs[c][x])
  BY <1>9
<1>11. Hashed(cs, n)
  <2>1. ASSUME NEW c \in 0 .. n - 1, NEW x \in DOMAIN cs[c]
        PROVE  Hash(KeyOf(cs[c][x])) % n = c
    BY <1>6, <1>10, <2>1 DEF Hashed
  <2>2. ASSUME NEW c \in 0 .. n - 1, NEW x \in DOMAIN cs[c], NEW y \in DOMAIN cs[c],
               KeyOf(cs[c][x]) = KeyOf(cs[c][y])
        PROVE  x = y
    BY <1>6, <1>8, <1>10, <2>2
  <2>. QED  BY <1>5, <2>1, <2>2 DEF Hashed
<1>12. EntriesOf(cs) = (EntriesOf(bs) \ {bs[b][p]}) \cup {f}
  <2>1. ASSUME NEW e \in EntriesOf(cs)  PROVE  e \in (EntriesOf(bs) \ {bs[b][p]}) \cup {f}
    <3>1. PICK c \in DOMAIN cs : \E x \in DOMAIN cs[c] : e = cs[c][x]
      BY ONLY <2>1, EntriesFacts
    <3>2. PICK x \in DOMAIN cs[c] : e = cs[c][x]  BY <3>1
    <3>3. c \in 0 .. n - 1 /\ x \in DOMAIN bs[c]  BY <1>5, <1>6, <3>1, <3>2
    <3>4. CASE c = b /\ x = p  BY <1>9, <3>2, <3>3, <3>4
    <3>5. CASE ~(c = b /\ x = p)
      <4>1. e = bs[c][x]  BY <1>9, <3>2, <3>3, <3>5
      <4>2. KeyOf(bs[c][x]) # KeyOf(bs[b][p])  BY <1>8, <3>3, <3>5
      <4>. QED  BY <1>1, <3>3, <4>1, <4>2, EntriesFacts
    <3>. QED  BY <3>4, <3>5
  <2>2. ASSUME NEW e \in EntriesOf(bs), e # bs[b][p]  PROVE  e \in EntriesOf(cs)
    <3>1. PICK c \in DOMAIN bs : \E x \in DOMAIN bs[c] : e = bs[c][x]
      BY ONLY <2>2, EntriesFacts
    <3>2. PICK x \in DOMAIN bs[c] : e = bs[c][x]  BY <3>1
    <3>3. c \in DOMAIN cs /\ x \in DOMAIN cs[c] /\ e = cs[c][x]
      BY <1>1, <1>5, <1>6, <1>9, <2>2, <3>1, <3>2
    <3>. QED  BY ONLY <3>3, EntriesFacts
  <2>3. f \in EntriesOf(cs)
    <3>1. b \in DOMAIN cs /\ p \in DOMAIN cs[b] /\ f = cs[b][p]  BY <1>5, <1>6, <1>9
    <3>. QED  BY ONLY <3>1, EntriesFacts
  <2>. QED  BY <2>1, <2>2, <2>3
<1>. QED  BY <1>7, <1>11, <1>12

\* The walk along the chain of a key finds the entry with that key, if there is one.
LEMMA PosFacts ==
    ASSUME bucket_count \in Nat \ {0}, Hashed(buckets, bucket_count), NEW k \in Keys
    PROVE  /\ Idx(k) \in 0 .. bucket_count - 1 /\ Chain(k) \in Seq(Entry)
           /\ Pos(k) = 0 => \A e \in EntriesOf(buckets) : KeyOf(e) # k
           /\ Pos(k) # 0 => /\ Pos(k) \in DOMAIN Chain(k) /\ KeyOf(Chain(k)[Pos(k)]) = k
                            /\ Chain(k)[Pos(k)] \in Entry \cap EntriesOf(buckets)
<1>1. Idx(k) \in 0 .. bucket_count - 1  BY HashFacts DEF Idx
<1>2. DOMAIN buckets = 0 .. bucket_count - 1 /\ Chain(k) \in Seq(Entry)
  BY <1>1 DEF Hashed, Chain
<1> DEFINE s == Chain(k)
           I == {p \in 1 .. Len(s) : Matches(s[p], k)}
<1>3. Pos(k) = IF I # {} THEN CHOOSE x \in I : \A y \in I : x =< y ELSE 0
  BY DEF Pos, SelectInSeq, Min
<1>4. Len(s) \in Nat /\ DOMAIN s = 1 .. Len(s) /\ \A p \in 1 .. Len(s) : s[p] \in Entry
  BY <1>2, LenProperties, ElementOfSeq
<1>5. \A p \in 1 .. Len(s) : Matches(s[p], k) <=> KeyOf(s[p]) = k  BY <1>4, EntryFacts
<1>6. \A p \in DOMAIN s : s[p] \in EntriesOf(buckets)
  BY <1>1, <1>2, EntriesFacts DEF Chain
<1>7. CASE I = {}
  <2>1. Pos(k) = 0  BY <1>3, <1>7
  <2>2. ASSUME NEW e \in EntriesOf(buckets), KeyOf(e) = k  PROVE  FALSE
    <3>0. PICK b \in DOMAIN buckets : \E p \in DOMAIN buckets[b] : e = buckets[b][p]
      BY <2>2, EntriesFacts
    <3>1. PICK p \in DOMAIN buckets[b] : e = buckets[b][p]  BY <3>0
    <3>2. b = Idx(k)  BY <1>2, <2>2, <3>1 DEF Hashed, Idx
    <3>3. p \in 1 .. Len(s) /\ e = s[p]  BY <1>4, <3>1, <3>2 DEF Chain
    <3>4. p \in I  BY <1>5, <2>2, <3>3
    <3>. QED  BY <1>7, <3>4
  <2>. QED  BY <1>1, <1>2, <2>1, <2>2
<1>8. CASE I # {}
  <2>1. PICK x : x \in I  BY <1>8
  <2>2. \A y \in I : y = x
    <3>1. \A p, r \in DOMAIN s : KeyOf(s[p]) = KeyOf(s[r]) => p = r
      BY <1>1 DEF Hashed, Chain
    <3>. QED  BY <1>4, <1>5, <2>1, <3>1
  <2>3. x \in 1 .. Len(s) /\ x \in Nat  BY <1>4, <2>1
  <2>4. \A y \in I : x =< y  BY <2>2, <2>3
  <2> HIDE DEF I
  <2>5. Pos(k) = x  BY <1>3, <1>8, <2>1, <2>2, <2>4
  <2>6. KeyOf(s[x]) = k  BY <1>5, <2>1, <2>3 DEF I
  <2> HIDE DEF s
  <2>7. Pos(k) \in DOMAIN s /\ KeyOf(s[Pos(k)]) = k /\ s[Pos(k)] \in Entry \cap EntriesOf(buckets)
    BY <1>4, <1>6, <2>3, <2>5, <2>6
  <2>8. Pos(k) # 0  BY <2>3, <2>5
  <2>. QED  BY <1>1, <1>2, <2>7, <2>8 DEF s
<1>. QED  BY <1>7, <1>8
-----------------------------------------------------------------------------
(* The inductive invariant of HashMap.                                     *)

\* While hashmap_resize runs every entry is in one of the two arrays.
TwoArrays ==
    stage = "resize" =>
        /\ Hashed(new_buckets, 2 * bucket_count)
        /\ \A e \in EntriesOf(buckets), f \in EntriesOf(new_buckets) : KeyOf(e) # KeyOf(f)

\* What is being put is not there, and there is room for it.
IsNew ==
    /\ stage \in {"resize", "insert"} => \A e \in Entries : KeyOf(e) # arg.key
    /\ stage = "insert" => 4 * (size + 1) <= 3 * bucket_count

MapInv ==
    /\ HashMapTypeOK
    /\ IsFiniteSet(Places(buckets)) /\ IsFiniteSet(Places(new_buckets))
    /\ Hashed(buckets, bucket_count)
    /\ TwoArrays
    /\ IsNew

LEMMA MapInvFacts ==
    ASSUME MapInv
    PROVE  /\ bucket_count \in Nat \ {0} /\ 2 * bucket_count \in Nat \ {0} /\ size \in Nat
           /\ Cardinality(Places(buckets)) \in Nat /\ Cardinality(Places(new_buckets)) \in Nat
           /\ Entries \subseteq Entry
           /\ \A e, f \in Entries : KeyOf(e) = KeyOf(f) => e = f
           /\ stage # "resize" =>
                 Entries = EntriesOf(buckets) /\ Cardinality(Places(new_buckets)) = 0
<1>1. bucket_count \in Nat \ {0} /\ 2 * bucket_count \in Nat \ {0}
  BY DEF MapInv, HashMapTypeOK
<1>2. Cardinality(Places(buckets)) \in Nat /\ Cardinality(Places(new_buckets)) \in Nat
  BY FS_CardinalityType DEF MapInv
<1>3. size \in Nat  BY <1>2 DEF MapInv, HashMapTypeOK
<1>4. /\ EntriesOf(buckets) \subseteq Entry
      /\ \A e, f \in EntriesOf(buckets) : KeyOf(e) = KeyOf(f) => e = f
  <2>1. Hashed(buckets, bucket_count)  BY DEF MapInv
  <2>. QED  BY <1>1, <2>1, HashedUnique
<1>5. CASE stage = "resize"
  <2>1. /\ Hashed(new_buckets, 2 * bucket_count)
        /\ \A e \in EntriesOf(buckets), f \in EntriesOf(new_buckets) : KeyOf(e) # KeyOf(f)
    BY <1>5 DEF MapInv, TwoArrays
  <2>2. /\ EntriesOf(new_buckets) \subseteq Entry
        /\ \A e, f \in EntriesOf(new_buckets) : KeyOf(e) = KeyOf(f) => e = f
    BY <1>1, <2>1, HashedUnique
  <2>. QED  BY <1>1, <1>2, <1>3, <1>4, <1>5, <2>1, <2>2 DEF Entries
<1>6. CASE stage # "resize"
  <2>1. new_buckets = <<>>  BY <1>6 DEF MapInv, HashMapTypeOK
  <2>2. EntriesOf(new_buckets) = {} /\ Places(new_buckets) = {}  BY <2>1, NoBuckets
  <2>3. Cardinality(Places(new_buckets)) = 0  BY <2>2, FS_EmptySet
  <2>4. Entries = EntriesOf(buckets)  BY <2>2 DEF Entries
  <2>. QED  BY <1>1, <1>2, <1>3, <1>4, <1>6, <2>3, <2>4
<1>. QED  BY <1>5, <1>6

LEMMA MapInvInit == HashMapInit => MapInv /\ Entries = {}
<1> SUFFICES ASSUME HashMapInit  PROVE  MapInv /\ Entries = {}
  OBVIOUS
<1>1. /\ buckets = Empty(Buckets) /\ bucket_count = Buckets /\ Buckets \in Nat \ {0}
      /\ size = 0 /\ stage = "idle" /\ arg = NULL /\ new_buckets = <<>>
  BY KeysAssumption DEF HashMapInit
<1>2. Hashed(buckets, bucket_count) /\ EntriesOf(buckets) = {} /\ Places(buckets) = {}
  BY <1>1, EmptyFacts
<1>3. EntriesOf(new_buckets) = {} /\ Places(new_buckets) = {}  BY <1>1, NoBuckets
<1>4. Cardinality({}) = 0 /\ IsFiniteSet({})  BY FS_EmptySet
<1>5. HashMapTypeOK
  <2>1. buckets \in [0 .. bucket_count - 1 -> Seq(Entry)]  BY <1>2 DEF Hashed
  <2>2. Cardinality(Places(buckets)) = 0 /\ Cardinality(Places(new_buckets)) = 0
    BY <1>2, <1>3, <1>4
  <2>. QED  BY <1>1, <2>1, <2>2 DEF HashMapTypeOK
<1>. QED  BY <1>1, <1>2, <1>3, <1>4, <1>5 DEF MapInv, TwoArrays, IsNew, Entries

\* The first entry of a bucket goes to the new array.
LEMMA MoveKeeps ==
    ASSUME MapInv, stage = "resize", NEW b, MoveEntry(b)
    PROVE  MapInv' /\ Entries' = Entries
<1>1. /\ bucket_count \in Nat \ {0} /\ 2 * bucket_count \in Nat \ {0} /\ size \in Nat
      /\ Cardinality(Places(buckets)) \in Nat /\ Cardinality(Places(new_buckets)) \in Nat
  BY MapInvFacts
<1>2. /\ Hashed(buckets, bucket_count) /\ Hashed(new_buckets, 2 * bucket_count)
      /\ \A e \in EntriesOf(buckets), f \in EntriesOf(new_buckets) : KeyOf(e) # KeyOf(f)
      /\ IsFiniteSet(Places(buckets)) /\ IsFiniteSet(Places(new_buckets))
  BY DEF MapInv, TwoArrays
<1>3. /\ buckets \in [0 .. bucket_count - 1 -> Seq(Entry)]
      /\ new_buckets \in [0 .. 2 * bucket_count - 1 -> Seq(Entry)]
  BY <1>2 DEF Hashed
<1> DEFINE s == buckets[b]
           e == Head(s)
<1>4. b \in 0 .. bucket_count - 1 /\ s \in Seq(Entry) /\ s # <<>>
  BY <1>3 DEF MoveEntry, At
<1>5. /\ new_buckets' = [new_buckets EXCEPT ![NewIdx(e)] = <<e>> \o @]
      /\ buckets' = [buckets EXCEPT ![b] = Tail(s)]
      /\ UNCHANGED <<bucket_count, size, stage, arg, ret>>
  BY <1>3, <1>4 DEF MoveEntry
<1>6. /\ 1 \in DOMAIN s /\ e = s[1] /\ e \in Entry /\ Tail(s) \in Seq(Entry)
      /\ Len(Tail(s)) = Len(s) - 1 /\ \A r \in 1 .. Len(Tail(s)) : Tail(s)[r] = s[r + 1]
  BY <1>4
<1>7. e \in EntriesOf(buckets)  BY <1>3, <1>4, <1>6, EntriesFacts
<1>8. NewIdx(e) = Hash(KeyOf(e)) % (2 * bucket_count)  BY DEF NewIdx
<1>9. \A f \in EntriesOf(new_buckets) : KeyOf(f) # KeyOf(e)  BY <1>2, <1>7
<1> HIDE DEF e
<1>10. /\ Hashed(new_buckets', 2 * bucket_count)
       /\ EntriesOf(new_buckets') = EntriesOf(new_buckets) \cup {e}
       /\ IsFiniteSet(Places(new_buckets'))
       /\ Cardinality(Places(new_buckets')) = Cardinality(Places(new_buckets)) + 1
  <2> DEFINE m == 2 * bucket_count
             nb == new_buckets'
             h == NewIdx(e)
  <2>1. /\ m \in Nat \ {0} /\ Hashed(new_buckets, m) /\ IsFiniteSet(Places(new_buckets))
        /\ e \in Entry /\ h = Hash(KeyOf(e)) % m
        /\ Rechained(nb, new_buckets, h, <<e>> \o new_buckets[h])
    BY <1>1, <1>2, <1>5, <1>6, <1>8 DEF Rechained
  <2> HIDE DEF m, nb, h
  <2>2. /\ Hashed(nb, m) /\ EntriesOf(nb) = EntriesOf(new_buckets) \cup {e}
        /\ IsFiniteSet(Places(nb)) /\ Cardinality(Places(nb)) = Cardinality(Places(new_buckets)) + 1
    BY ONLY <1>9, <2>1, HeadAdded
  <2>. QED  BY <2>2 DEF m, nb
<1>11. \A r \in 1 .. Len(Tail(s)) : Tail(s)[r] = IF r < 1 THEN s[r] ELSE s[r + 1]
  BY <1>6
<1> DEFINE t == Tail(s)
<1>12. /\ t \in Seq(Entry) /\ Len(t) = Len(buckets[b]) - 1 /\ 1 \in DOMAIN buckets[b]
       /\ \A r \in 1 .. Len(t) : t[r] = IF r < 1 THEN buckets[b][r] ELSE buckets[b][r + 1]
       /\ buckets' = [buckets EXCEPT ![b] = t]
  BY <1>5, <1>6, <1>11
<1> HIDE DEF t
<1>13. /\ Hashed(buckets', bucket_count)
       /\ EntriesOf(buckets') = EntriesOf(buckets) \ {buckets[b][1]}
       /\ IsFiniteSet(Places(buckets'))
       /\ Cardinality(Places(buckets')) = Cardinality(Places(buckets)) - 1
  <2> DEFINE ob == buckets'
  <2>1. Rechained(ob, buckets, b, t)  BY <1>12 DEF Rechained
  <2> HIDE DEF ob
  <2>2. /\ Hashed(ob, bucket_count) /\ EntriesOf(ob) = EntriesOf(buckets) \ {buckets[b][1]}
        /\ IsFiniteSet(Places(ob)) /\ Cardinality(Places(ob)) = Cardinality(Places(buckets)) - 1
    <3>1. /\ bucket_count \in Nat \ {0} /\ Hashed(buckets, bucket_count)
          /\ IsFiniteSet(Places(buckets)) /\ b \in 0 .. bucket_count - 1
      BY <1>1, <1>2, <1>4
    <3>. QED  BY ONLY <1>12, <2>1, <3>1, PlaceTaken
  <2>. QED  BY <2>2 DEF ob
<1>14. EntriesOf(buckets') = EntriesOf(buckets) \ {e}  BY <1>6, <1>13
<1>15. Entries' = Entries  BY <1>7, <1>10, <1>14 DEF Entries
<1>16. \A g \in EntriesOf(buckets'), f \in EntriesOf(new_buckets') : KeyOf(g) # KeyOf(f)
  <2>1. \A g, f \in Entries : KeyOf(g) = KeyOf(f) => g = f  BY MapInvFacts
  <2>2. \A g \in EntriesOf(buckets') : g \in Entries /\ g # e /\ g \in EntriesOf(buckets)
    BY <1>14 DEF Entries
  <2>3. e \in Entries  BY <1>7 DEF Entries
  <2>. QED  BY <1>2, <1>10, <2>1, <2>2, <2>3
<1>17. HashMapTypeOK'
  <2>1. /\ buckets' \in [0 .. bucket_count - 1 -> Seq(Entry)]
        /\ new_buckets' \in [0 .. 2 * bucket_count - 1 -> Seq(Entry)]
    BY <1>10, <1>13 DEF Hashed
  <2>2. size = Cardinality(Places(buckets')) + Cardinality(Places(new_buckets'))
    <3>1. size = Cardinality(Places(buckets)) + Cardinality(Places(new_buckets))
      BY DEF MapInv, HashMapTypeOK
    <3>. QED  BY <1>1, <1>10, <1>13, <3>1
  <2>3. arg \in [key : Keys, value : Values] /\ 4 * size <= 3 * bucket_count
    BY DEF MapInv, HashMapTypeOK
  <2>. QED  BY <1>1, <1>5, <2>1, <2>2, <2>3 DEF HashMapTypeOK
<1>18. TwoArrays'  BY <1>5, <1>10, <1>16 DEF TwoArrays
<1>19. IsNew'  BY <1>5, <1>15 DEF MapInv, IsNew
<1>. QED  BY <1>5, <1>10, <1>13, <1>15, <1>17, <1>18, <1>19 DEF MapInv

\* The new array takes the place of the empty old one.
LEMMA ResizeKeeps ==
    ASSUME MapInv, stage = "resize", ResizeEnds
    PROVE  MapInv' /\ Entries' = Entries
<1>1. /\ bucket_count \in Nat \ {0} /\ 2 * bucket_count \in Nat \ {0} /\ size \in Nat
      /\ Cardinality(Places(buckets)) \in Nat /\ Cardinality(Places(new_buckets)) \in Nat
  BY MapInvFacts
<1>2. /\ \A b \in DOMAIN buckets : buckets[b] = <<>>
      /\ buckets' = new_buckets /\ new_buckets' = <<>> /\ bucket_count' = 2 * bucket_count
      /\ stage' = "insert" /\ UNCHANGED <<size, arg, ret>>
  BY DEF ResizeEnds
<1>3. Hashed(buckets', bucket_count') /\ IsFiniteSet(Places(buckets'))
  BY <1>2 DEF MapInv, TwoArrays
<1>4. DOMAIN << >> = {}  OBVIOUS
<1>5. EntriesOf(buckets) = {}  BY <1>2, <1>4, EntriesFacts
<1>6. Places(buckets) = {}  BY <1>2, <1>4 DEF Places
<1>7. EntriesOf(new_buckets') = {} /\ Places(new_buckets') = {}  BY <1>2, NoBuckets
<1>8. Cardinality({}) = 0 /\ IsFiniteSet({})  BY FS_EmptySet
<1>9. Entries' = Entries  BY <1>2, <1>5, <1>7 DEF Entries
<1>10. arg \in [key : Keys, value : Values] /\ 4 * size <= 3 * bucket_count
       /\ size = Cardinality(Places(buckets)) + Cardinality(Places(new_buckets))
  BY DEF MapInv, HashMapTypeOK
<1>11. size = Cardinality(Places(buckets')) + Cardinality(Places(new_buckets'))
  <2>1. Cardinality(Places(buckets)) = 0 /\ Cardinality(Places(new_buckets')) = 0
    BY <1>6, <1>7, <1>8
  <2>. QED  BY <1>1, <1>2, <1>10, <2>1
<1>12. 4 * size <= 3 * bucket_count' /\ 4 * (size + 1) <= 3 * bucket_count'
  BY <1>1, <1>2, <1>10
<1>13. buckets' \in [0 .. bucket_count' - 1 -> Seq(Entry)]  BY <1>3 DEF Hashed
<1>14. HashMapTypeOK'
  BY <1>1, <1>2, <1>10, <1>11, <1>12, <1>13 DEF HashMapTypeOK
<1>15. IsNew'  BY <1>2, <1>9, <1>12 DEF MapInv, IsNew
<1>16. TwoArrays'  BY <1>2 DEF TwoArrays
<1>. QED  BY <1>3, <1>7, <1>8, <1>9, <1>14, <1>15, <1>16 DEF MapInv
\* The array is left alone; what changes is where the call is.
LEMMA ChainsStay ==
    ASSUME MapInv, UNCHANGED <<buckets, bucket_count, size, new_buckets>>
    PROVE  /\ Entries' = Entries
           /\ stage # "resize" /\ stage' \in {"idle", "freed", "crashed"} /\ arg' = NULL => MapInv'
           /\ UNCHANGED <<stage, arg>> => MapInv'
<1>1. Entries' = Entries  BY DEF Entries
<1>2. ASSUME stage # "resize", stage' \in {"idle", "freed", "crashed"}, arg' = NULL  PROVE  MapInv'
  BY <1>2 DEF MapInv, HashMapTypeOK, TwoArrays, IsNew
<1>3. ASSUME UNCHANGED <<stage, arg>>  PROVE  MapInv'
  <2>1. HashMapTypeOK'  BY <1>3 DEF MapInv, HashMapTypeOK
  <2>2. TwoArrays'  BY <1>3 DEF MapInv, TwoArrays
  <2>3. IsNew'  BY <1>1, <1>3 DEF MapInv, IsNew
  <2>. QED  BY <2>1, <2>2, <2>3 DEF MapInv
<1>. QED  BY <1>1, <1>2, <1>3

\* The key is not there, and more buckets are there or not needed.
LEMMA WalkKeeps ==
    ASSUME MapInv, stage = "idle", NEW k \in Keys, NEW v \in Values, PutWalks(k, v)
    PROVE  MapInv' /\ Entries' = Entries
<1>1. /\ bucket_count \in Nat \ {0} /\ 2 * bucket_count \in Nat \ {0} /\ size \in Nat
      /\ Entries = EntriesOf(buckets) /\ Cardinality(Places(new_buckets)) = 0
      /\ Cardinality(Places(buckets)) \in Nat
  BY MapInvFacts
<1>2. Hashed(buckets, bucket_count) /\ IsFiniteSet(Places(buckets))  BY DEF MapInv
<1>3. /\ Pos(k) = 0 /\ arg' = [key |-> k, value |-> v]
      /\ UNCHANGED <<buckets, bucket_count, size, ret>>
  BY DEF PutWalks
<1>4. \A e \in Entries : KeyOf(e) # arg'.key  BY <1>1, <1>2, <1>3, PosFacts
<1>5. /\ buckets \in [0 .. bucket_count - 1 -> Seq(Entry)] /\ 4 * size <= 3 * bucket_count
      /\ size = Cardinality(Places(buckets)) + Cardinality(Places(new_buckets))
      /\ new_buckets = <<>>
  BY DEF MapInv, HashMapTypeOK
<1>6. arg' \in [key : Keys, value : Values]  BY <1>3
<1>7. CASE stage' = "resize" /\ new_buckets' = Empty(2 * bucket_count)
  <2>1. /\ Hashed(Empty(2 * bucket_count), 2 * bucket_count)
        /\ EntriesOf(Empty(2 * bucket_count)) = {} /\ Places(Empty(2 * bucket_count)) = {}
    BY <1>1, EmptyFacts
  <2>2. /\ Hashed(new_buckets', 2 * bucket_count)
        /\ EntriesOf(new_buckets') = {} /\ Places(new_buckets') = {}
    BY <1>7, <2>1
  <2>3. Cardinality(Places(new_buckets')) = 0 /\ IsFiniteSet(Places(new_buckets'))
    BY <2>2, FS_EmptySet
  <2>4. Entries' = Entries  BY <1>1, <1>3, <2>2 DEF Entries
  <2>5. new_buckets' \in [0 .. 2 * bucket_count - 1 -> Seq(Entry)]  BY <2>2 DEF Hashed
  <2>6. HashMapTypeOK'  BY <1>1, <1>3, <1>5, <1>6, <1>7, <2>3, <2>5 DEF HashMapTypeOK
  <2>7. TwoArrays'  BY <1>3, <2>2 DEF TwoArrays
  <2>8. IsNew'  BY <1>4, <1>7, <2>4 DEF IsNew
  <2>. QED  BY <1>2, <1>3, <2>3, <2>4, <2>6, <2>7, <2>8 DEF MapInv
<1>8. CASE ~Resizes(k) /\ stage' = "insert" /\ UNCHANGED new_buckets
  <2>1. 4 * (size + 1) <= 3 * bucket_count
    BY <1>1, <1>8 DEF Resizes, NeedsResize
  <2>2. Entries' = Entries  BY <1>3, <1>8 DEF Entries
  <2>3. HashMapTypeOK'  BY <1>1, <1>3, <1>5, <1>6, <1>8 DEF HashMapTypeOK
  <2>4. TwoArrays'  BY <1>8 DEF TwoArrays
  <2>5. IsNew'  BY <1>3, <1>4, <1>8, <2>1, <2>2 DEF IsNew
  <2>6. IsFiniteSet(Places(new_buckets))  BY DEF MapInv
  <2>. QED  BY <1>2, <1>3, <1>8, <2>2, <2>3, <2>4, <2>5, <2>6 DEF MapInv
<1>. QED  BY <1>7, <1>8 DEF PutWalks

\* The value of the entry that is found.
LEMMA OverwriteKeeps ==
    ASSUME MapInv, stage = "idle", NEW k \in Keys, NEW v \in Values, PutOverwrites(k, v)
    PROVE  /\ MapInv'
           /\ \E e \in Entries, f \in Entry :
                 /\ KeyOf(e) = k /\ KeyOf(f) = k /\ f.value = v
                 /\ Entries' = (Entries \ {e}) \cup {f}
<1>1. /\ bucket_count \in Nat \ {0} /\ Entries = EntriesOf(buckets)  BY MapInvFacts
<1>2. Hashed(buckets, bucket_count) /\ IsFiniteSet(Places(buckets))  BY DEF MapInv
<1>3. /\ Pos(k) # 0 /\ buckets' = [buckets EXCEPT ![Idx(k)][Pos(k)].value = v]
      /\ UNCHANGED <<bucket_count, size, stage, arg, new_buckets>>
  BY DEF PutOverwrites
<1> DEFINE b == Idx(k)
           p == Pos(k)
           e == buckets[b][p]
           f == [e EXCEPT !.value = v]
<1>4. /\ b \in 0 .. bucket_count - 1 /\ p \in DOMAIN buckets[b]
      /\ KeyOf(e) = k /\ e \in Entry /\ e \in EntriesOf(buckets)
  BY <1>1, <1>2, <1>3, PosFacts DEF Chain
<1>5. f \in Entry /\ KeyOf(f) = k /\ f.value = v  BY <1>4, EntryFacts
<1>6. /\ buckets \in [0 .. bucket_count - 1 -> Seq(Entry)] /\ 4 * size <= 3 * bucket_count
      /\ size = Cardinality(Places(buckets)) + Cardinality(Places(new_buckets))
      /\ new_buckets = <<>> /\ arg = NULL
  BY DEF MapInv, HashMapTypeOK
<1>7. buckets' = [buckets EXCEPT ![b][p] = f]  BY <1>3, <1>4, <1>6
<1>8. /\ Hashed(buckets', bucket_count)
      /\ EntriesOf(buckets') = (EntriesOf(buckets) \ {e}) \cup {f}
      /\ Places(buckets') = Places(buckets)
  <2> DEFINE nb == buckets'
  <2>1. Revalued(nb, buckets, b, p, f) /\ KeyOf(f) = KeyOf(buckets[b][p])
    BY <1>4, <1>5, <1>7 DEF Revalued
  <2> HIDE DEF nb, f, b, p
  <2>2. /\ Hashed(nb, bucket_count)
        /\ EntriesOf(nb) = (EntriesOf(buckets) \ {e}) \cup {f}
        /\ Places(nb) = Places(buckets)
    BY ONLY <1>1, <1>2, <1>4, <1>5, <2>1, ValueSet
  <2>. QED  BY <2>2 DEF nb
<1> HIDE DEF e, f, b, p
<1>9. EntriesOf(new_buckets) = {}  BY <1>6, NoBuckets
<1>10. Entries' = (Entries \ {e}) \cup {f}  BY <1>1, <1>3, <1>8, <1>9 DEF Entries
<1>11. buckets' \in [0 .. bucket_count - 1 -> Seq(Entry)]  BY <1>8 DEF Hashed
<1>12. HashMapTypeOK'  BY <1>1, <1>3, <1>6, <1>8, <1>11 DEF HashMapTypeOK
<1>13. TwoArrays' /\ IsNew'  BY <1>3 DEF TwoArrays, IsNew
<1>14. IsFiniteSet(Places(new_buckets))  BY DEF MapInv
<1>15. MapInv'  BY <1>2, <1>3, <1>8, <1>12, <1>13, <1>14 DEF MapInv
<1>. QED  BY <1>1, <1>4, <1>5, <1>10, <1>15

\* The new entry becomes the head of its chain.
LEMMA InsertKeeps ==
    ASSUME MapInv, stage = "insert", PutInserts
    PROVE  /\ MapInv' /\ arg.key \in Keys /\ arg.value \in Values
           /\ Entries' = Entries \cup {NewEntry(arg.key, arg.value)}
           /\ \A e \in Entries : KeyOf(e) # arg.key
<1>1. /\ bucket_count \in Nat \ {0} /\ Entries = EntriesOf(buckets) /\ size \in Nat
      /\ Cardinality(Places(new_buckets)) = 0 /\ Cardinality(Places(buckets)) \in Nat
  BY MapInvFacts
<1>2. Hashed(buckets, bucket_count) /\ IsFiniteSet(Places(buckets))  BY DEF MapInv
<1> DEFINE e == NewEntry(arg.key, arg.value)
           b == Idx(arg.key)
<1>3. /\ buckets' = [buckets EXCEPT ![b] = <<e>> \o @]
      /\ size' = size + 1 /\ stage' = "idle" /\ arg' = NULL
      /\ UNCHANGED <<bucket_count, new_buckets>>
  BY DEF PutInserts
<1>4. /\ arg.key \in Keys /\ arg.value \in Values
      /\ size = Cardinality(Places(buckets)) + Cardinality(Places(new_buckets))
      /\ new_buckets = <<>>
  BY DEF MapInv, HashMapTypeOK
<1>5. e \in Entry /\ KeyOf(e) = arg.key  BY <1>4, NewEntryFacts
<1>6. /\ \A f \in EntriesOf(buckets) : KeyOf(f) # KeyOf(e)
      /\ 4 * (size + 1) <= 3 * bucket_count
  BY <1>1, <1>5 DEF MapInv, IsNew
<1>7. b = Hash(KeyOf(e)) % bucket_count  BY <1>5 DEF Idx
<1>8. /\ Hashed(buckets', bucket_count)
      /\ EntriesOf(buckets') = EntriesOf(buckets) \cup {e}
      /\ IsFiniteSet(Places(buckets'))
      /\ Cardinality(Places(buckets')) = Cardinality(Places(buckets)) + 1
  <2> DEFINE nb == buckets'
  <2>1. Rechained(nb, buckets, b, <<e>> \o buckets[b])  BY <1>3 DEF Rechained
  <2> HIDE DEF nb, e, b
  <2>2. /\ Hashed(nb, bucket_count) /\ EntriesOf(nb) = EntriesOf(buckets) \cup {e}
        /\ IsFiniteSet(Places(nb)) /\ Cardinality(Places(nb)) = Cardinality(Places(buckets)) + 1
    BY ONLY <1>1, <1>2, <1>5, <1>6, <1>7, <2>1, HeadAdded
  <2>. QED  BY <2>2 DEF nb
<1> HIDE DEF e, b
<1>9. EntriesOf(new_buckets) = {}  BY <1>4, NoBuckets
<1>10. Entries' = Entries \cup {e}  BY <1>1, <1>3, <1>8, <1>9 DEF Entries
<1>11. buckets' \in [0 .. bucket_count - 1 -> Seq(Entry)]  BY <1>8 DEF Hashed
<1>12. size' = Cardinality(Places(buckets')) + Cardinality(Places(new_buckets))
       /\ 4 * size' <= 3 * bucket_count
  BY <1>1, <1>3, <1>4, <1>6, <1>8
<1>13. HashMapTypeOK'  BY <1>1, <1>3, <1>4, <1>11, <1>12 DEF HashMapTypeOK
<1>14. TwoArrays' /\ IsNew'  BY <1>3 DEF TwoArrays, IsNew
<1>15. IsFiniteSet(Places(new_buckets))  BY DEF MapInv
<1>16. MapInv'  BY <1>3, <1>8, <1>13, <1>14, <1>15 DEF MapInv
<1>. QED  BY <1>1, <1>4, <1>5, <1>6, <1>10, <1>16 DEF e

\* The entry that is found leaves its chain.
LEMMA RemoveKeeps ==
    ASSUME MapInv, stage = "idle", NEW k \in Keys, hashmap_remove(k), Pos(k) # 0
    PROVE  /\ MapInv'
           /\ \E e \in Entries : KeyOf(e) = k /\ Entries' = Entries \ {e}
<1>1. /\ bucket_count \in Nat \ {0} /\ Entries = EntriesOf(buckets) /\ size \in Nat
      /\ Cardinality(Places(new_buckets)) = 0 /\ Cardinality(Places(buckets)) \in Nat
  BY MapInvFacts
<1>2. Hashed(buckets, bucket_count) /\ IsFiniteSet(Places(buckets))  BY DEF MapInv
<1> DEFINE b == Idx(k)
           p == Pos(k)
           s == buckets[b]
           t == RemoveAt(s, p)
<1>3. /\ buckets' = [buckets EXCEPT ![b] = RemoveAt(@, p)] /\ size' = size - 1
      /\ UNCHANGED <<bucket_count, stage, arg, new_buckets>>
  BY DEF hashmap_remove
<1>4. /\ b \in 0 .. bucket_count - 1 /\ p \in DOMAIN s /\ s \in Seq(Entry)
      /\ KeyOf(s[p]) = k /\ s[p] \in EntriesOf(buckets)
  BY <1>1, <1>2, PosFacts DEF Chain
<1>5. /\ size = Cardinality(Places(buckets)) + Cardinality(Places(new_buckets))
      /\ new_buckets = <<>> /\ arg = NULL /\ 4 * size <= 3 * bucket_count
      /\ buckets \in [0 .. bucket_count - 1 -> Seq(Entry)]
  BY DEF MapInv, HashMapTypeOK
<1>6. /\ t \in Seq(Entry) /\ Len(t) = Len(s) - 1
      /\ \A r \in 1 .. Len(t) : t[r] = IF r < p THEN s[r] ELSE s[r + 1]
  <2> DEFINE u == SubSeq(s, 1, p - 1)
             w == SubSeq(s, p + 1, Len(s))
  <2> HIDE DEF s, p
  <2>1. Len(s) \in Nat /\ p \in 1 .. Len(s)  BY <1>4, LenProperties
  <2>2. /\ u \in Seq(Entry) /\ Len(u) = p - 1 /\ \A r \in 1 .. p - 1 : u[r] = s[r]
    BY <1>4, <2>1
  <2>3. /\ w \in Seq(Entry) /\ Len(w) = Len(s) - p
        /\ \A r \in 1 .. Len(s) - p : w[r] = s[r + p]
    BY <1>4, <2>1
  <2>4. t = u \o w  BY DEF RemoveAt
  <2> HIDE DEF t, u, w
  <2>5. /\ t \in Seq(Entry) /\ Len(t) = Len(s) - 1
        /\ \A r \in 1 .. Len(t) : t[r] = IF r <= p - 1 THEN u[r] ELSE w[r - (p - 1)]
    BY <2>1, <2>2, <2>3, <2>4
  <2>6. ASSUME NEW r \in 1 .. Len(t)  PROVE  t[r] = IF r < p THEN s[r] ELSE s[r + 1]
    <3>1. CASE r < p
      <4>1. r \in 1 .. p - 1 /\ r <= p - 1  BY <2>1, <2>5, <3>1
      <4>2. t[r] = u[r]  BY <2>5, <4>1
      <4>. QED  BY <2>2, <3>1, <4>1, <4>2
    <3>2. CASE r >= p
      <4>1. r - (p - 1) \in 1 .. Len(s) - p /\ (r - (p - 1)) + p = r + 1
        BY <2>1, <2>5, <3>2
      <4>. QED  BY <2>1, <2>3, <2>5, <3>2, <4>1
    <3>. QED  BY <2>1, <2>5, <3>1, <3>2
  <2>. QED  BY <2>5, <2>6
<1>7. /\ Hashed(buckets', bucket_count) /\ EntriesOf(buckets') = EntriesOf(buckets) \ {s[p]}
      /\ IsFiniteSet(Places(buckets'))
      /\ Cardinality(Places(buckets')) = Cardinality(Places(buckets)) - 1
  <2> DEFINE nb == buckets'
  <2>1. Rechained(nb, buckets, b, t)  BY <1>3 DEF Rechained
  <2> HIDE DEF nb, t, b, p
  <2>2. /\ Hashed(nb, bucket_count) /\ EntriesOf(nb) = EntriesOf(buckets) \ {s[p]}
        /\ IsFiniteSet(Places(nb)) /\ Cardinality(Places(nb)) = Cardinality(Places(buckets)) - 1
    BY ONLY <1>1, <1>2, <1>4, <1>6, <2>1, PlaceTaken
  <2>. QED  BY <2>2 DEF nb
<1> HIDE DEF t, b, p, s
<1>8. EntriesOf(new_buckets) = {}  BY <1>5, NoBuckets
<1>9. Entries' = Entries \ {s[p]}  BY <1>1, <1>3, <1>7, <1>8 DEF Entries
<1>10. buckets' \in [0 .. bucket_count - 1 -> Seq(Entry)]  BY <1>7 DEF Hashed
<1>11. size' = Cardinality(Places(buckets')) + Cardinality(Places(new_buckets))
       /\ 4 * size' <= 3 * bucket_count
  BY <1>1, <1>3, <1>5, <1>7
<1>12. HashMapTypeOK'  BY <1>1, <1>3, <1>5, <1>10, <1>11 DEF HashMapTypeOK
<1>13. TwoArrays' /\ IsNew'  BY <1>3 DEF TwoArrays, IsNew
<1>14. IsFiniteSet(Places(new_buckets))  BY DEF MapInv
<1>15. MapInv'  BY <1>3, <1>7, <1>12, <1>13, <1>14 DEF MapInv
<1>. QED  BY <1>1, <1>4, <1>9, <1>15
-----------------------------------------------------------------------------
(* HashMap is a map.                                                       *)

\* The contents of a set of entries, one for each key.
Unique(E)     == \A e, f \in E : KeyOf(e) = KeyOf(f) => e = f
ContentsOf(E) == [k \in {KeyOf(e) : e \in E} |-> (CHOOSE e \in E : KeyOf(e) = k).value]

LEMMA ContentsFacts ==
    ASSUME NEW E, Unique(E)
    PROVE  /\ \A k : k \in DOMAIN ContentsOf(E) <=> \E e \in E : KeyOf(e) = k
           /\ \A e \in E : ContentsOf(E)[KeyOf(e)] = e.value
           /\ \A F : (/\ F = [k \in DOMAIN F |-> F[k]]
                      /\ DOMAIN F = {KeyOf(e) : e \in E}
                      /\ \A e \in E : F[KeyOf(e)] = e.value)
                         => F = ContentsOf(E)
<1>1. \A e \in E : (CHOOSE f \in E : KeyOf(f) = KeyOf(e)) = e
  <2>1. TAKE e \in E
  <2>2. \A f \in E : KeyOf(f) = KeyOf(e) <=> f = e  BY DEF Unique
  <2>. QED  BY <2>2
<1>2. DOMAIN ContentsOf(E) = {KeyOf(e) : e \in E}  BY DEF ContentsOf
<1>3. \A e \in E : ContentsOf(E)[KeyOf(e)] = e.value  BY <1>1 DEF ContentsOf
<1>4. ASSUME NEW F, F = [k \in DOMAIN F |-> F[k]], DOMAIN F = {KeyOf(e) : e \in E},
             \A e \in E : F[KeyOf(e)] = e.value
      PROVE  F = ContentsOf(E)
  <2>1. \A k \in DOMAIN F : F[k] = ContentsOf(E)[k]  BY <1>3, <1>4
  <2>2. ContentsOf(E) = [k \in DOMAIN ContentsOf(E) |-> ContentsOf(E)[k]]  BY DEF ContentsOf
  <2>. QED  BY <1>2, <1>4, <2>1, <2>2
<1>. QED  BY <1>2, <1>3, <1>4

WithEntry(E, f) == {e \in E : KeyOf(e) # KeyOf(f)} \cup {f}

\* An entry with value v replaces the one with its key, or is added.
LEMMA ContentsPut ==
    ASSUME NEW E, Unique(E), NEW f, NEW k, NEW v, KeyOf(f) = k, f.value = v
    PROVE  ContentsOf(WithEntry(E, f)) = [l \in DOMAIN ContentsOf(E) \cup {k} |->
                               IF l = k THEN v ELSE ContentsOf(E)[l]]
<1> DEFINE G == WithEntry(E, f)
<1>. G = {e \in E : KeyOf(e) # k} \cup {f} /\ Unique(G)  BY DEF WithEntry, Unique
<1> HIDE DEF G
<1> DEFINE F == [l \in DOMAIN ContentsOf(E) \cup {k} |-> IF l = k THEN v ELSE ContentsOf(E)[l]]
<1>1. F = [l \in DOMAIN F |-> F[l]]  OBVIOUS
<1>2. DOMAIN F = {KeyOf(e) : e \in G}
  <2>1. \A l : l \in DOMAIN F <=> l = k \/ \E e \in E : KeyOf(e) = l
    BY ContentsFacts
  <2>2. \A l : l = k \/ (\E e \in E : KeyOf(e) = l) <=> \E e \in G : KeyOf(e) = l
    OBVIOUS
  <2>. QED  BY <2>1, <2>2
<1>3. \A e \in G : F[KeyOf(e)] = e.value
  <2>1. TAKE e \in G
  <2>2. CASE e = f  BY <2>2
  <2>3. CASE e # f
    <3>1. e \in E /\ KeyOf(e) # k  BY <2>3
    <3>. QED  BY <3>1, ContentsFacts
  <2>. QED  BY <2>2, <2>3
<1> HIDE DEF F
<1>4. F = ContentsOf(G)  BY <1>1, <1>2, <1>3, ContentsFacts
<1>. QED  BY <1>4 DEF F, G

\* An entry is taken out.
LEMMA ContentsRemove ==
    ASSUME NEW E, Unique(E), NEW k
    PROVE  ContentsOf({e \in E : KeyOf(e) # k}) =
               [l \in DOMAIN ContentsOf(E) \ {k} |-> ContentsOf(E)[l]]
<1> DEFINE G == {e \in E : KeyOf(e) # k}
           F == [l \in DOMAIN ContentsOf(E) \ {k} |-> ContentsOf(E)[l]]
<1>1. Unique(G)  BY DEF Unique
<1>2. F = [l \in DOMAIN F |-> F[l]]  OBVIOUS
<1>3. DOMAIN F = {KeyOf(e) : e \in G}
  <2>1. \A l : l \in DOMAIN F <=> l # k /\ \E e \in E : KeyOf(e) = l
    BY ContentsFacts
  <2>. QED  BY <2>1
<1>4. \A e \in G : F[KeyOf(e)] = e.value  BY ContentsFacts
<1> HIDE DEF F, G
<1>5. F = ContentsOf(G)  BY <1>1, <1>2, <1>3, <1>4, ContentsFacts
<1>. QED  BY <1>5 DEF F, G

LEMMA MapInvUnique == MapInv => Unique(Entries)
BY MapInvFacts DEF Unique

Contents == ContentsOf(Entries)

LEMMA MapNextStep ==
    ASSUME MapInv, [HashMapNext]_hashMapVars
    PROVE  MapInv' /\ [Map!Next]_(Map!vars)
<1> SUFFICES MapInv' /\ (Map!Next \/ (Contents' = Contents /\ ret' = ret))
  BY DEF Map!vars, Contents, ContentsOf
<1>1. Unique(Entries)  BY MapInvUnique
<1>2. CASE Entries' = Entries /\ ret' = ret /\ MapInv'
  BY <1>2 DEF Contents, ContentsOf
<1>3. ASSUME NEW k \in Keys, stage = "idle"
      PROVE  /\ Pos(k) = 0 => k \notin DOMAIN Contents
             /\ Pos(k) # 0 => k \in DOMAIN Contents /\ Contents[k] = Chain(k)[Pos(k)].value
  <2>1. /\ bucket_count \in Nat \ {0} /\ Entries = EntriesOf(buckets)
    BY <1>3, MapInvFacts
  <2>2. Hashed(buckets, bucket_count)  BY DEF MapInv
  <2>3. CASE Pos(k) = 0  BY <1>1, <2>1, <2>2, <2>3, PosFacts, ContentsFacts DEF Contents
  <2>4. CASE Pos(k) # 0  BY <1>1, <2>1, <2>2, <2>4, PosFacts, ContentsFacts DEF Contents
  <2>. QED  BY <2>3, <2>4
<1>4. ASSUME NEW k \in Keys, stage = "idle", PutCrashes(k)
      PROVE  MapInv' /\ Entries' = Entries /\ ret' = ret
  <2>1. /\ UNCHANGED <<buckets, bucket_count, size, new_buckets>> /\ stage' = "crashed"
        /\ arg' = arg /\ arg = NULL /\ ret' = ret
    BY <1>4 DEF PutCrashes, MapInv, HashMapTypeOK
  <2>. QED  BY <1>4, <2>1, ChainsStay
<1>5. ASSUME NEW k \in Keys, stage = "idle", ResizeFails(k)
      PROVE  MapInv' /\ Map!PutFails(k)
  <2>1. /\ UNCHANGED <<buckets, bucket_count, size, new_buckets, stage, arg>> /\ Pos(k) = 0
        /\ ret' = [op |-> "put", key |-> k, result |-> -1]
    BY <1>5 DEF ResizeFails, Return
  <2>2. MapInv' /\ Entries' = Entries  BY <2>1, ChainsStay
  <2>3. k \notin DOMAIN Contents  BY <1>3, <1>5, <2>1
  <2>4. Contents' = Contents  BY <2>2 DEF Contents, ContentsOf
  <2>. QED  BY <2>1, <2>2, <2>3, <2>4 DEF Map!PutFails, Contents, ContentsOf
<1>6. ASSUME NEW k \in Keys, stage = "idle", hashmap_get(k)
      PROVE  MapInv' /\ Map!Get(k)
  <2>1. /\ UNCHANGED <<buckets, bucket_count, size, new_buckets, stage, arg>>
        /\ ret' = [op |-> "get", key |-> k,
                   result |-> IF Pos(k) = 0 THEN NULL ELSE Chain(k)[Pos(k)].value]
    BY <1>6 DEF hashmap_get, Return
  <2>2. MapInv' /\ Entries' = Entries  BY <2>1, ChainsStay
  <2>3. (IF Pos(k) = 0 THEN NULL ELSE Chain(k)[Pos(k)].value)
            = IF k \in DOMAIN Contents THEN Contents[k] ELSE NULL
    BY <1>3, <1>6
  <2>. QED  BY <2>1, <2>2, <2>3 DEF Map!Get, Contents, ContentsOf
<1>7. ASSUME NEW k \in Keys, stage = "idle", hashmap_remove(k)
      PROVE  MapInv' /\ Map!Remove(k)
  <2>1. CASE Pos(k) = 0
    <3>1. /\ UNCHANGED <<buckets, bucket_count, size, new_buckets, stage, arg>>
          /\ ret' = [op |-> "remove", key |-> k, result |-> -1]
      BY <1>7, <2>1 DEF hashmap_remove, Return
    <3>2. MapInv' /\ Entries' = Entries  BY <3>1, ChainsStay
    <3>3. k \notin DOMAIN Contents  BY <1>3, <1>7, <2>1
    <3>4. {e \in Entries : KeyOf(e) # k} = Entries  BY <1>1, <3>3, ContentsFacts DEF Contents
    <3>5. Contents' = [l \in DOMAIN Contents \ {k} |-> Contents[l]]
      <4>1. ContentsOf(Entries) = [l \in DOMAIN Contents \ {k} |-> Contents[l]]
        BY <1>1, <3>4, ContentsRemove DEF Contents
      <4>. QED  BY <3>2, <4>1 DEF Contents, ContentsOf
    <3>. QED  BY <3>1, <3>2, <3>3, <3>5 DEF Map!Remove, Contents, ContentsOf
  <2>2. CASE Pos(k) # 0
    <3>1. /\ MapInv'
          /\ \E e \in Entries : KeyOf(e) = k /\ Entries' = Entries \ {e}
      BY <1>7, <2>2, RemoveKeeps
    <3>2. PICK e \in Entries : KeyOf(e) = k /\ Entries' = Entries \ {e}  BY <3>1
    <3>3. Entries' = {f \in Entries : KeyOf(f) # k}  BY <1>1, <3>2 DEF Unique
    <3>4. Contents' = [l \in DOMAIN Contents \ {k} |-> Contents[l]]
      <4>1. ContentsOf({f \in Entries : KeyOf(f) # k}) =
                [l \in DOMAIN Contents \ {k} |-> Contents[l]]
        BY <1>1, ContentsRemove DEF Contents
      <4>. QED  BY <3>3, <4>1 DEF Contents, ContentsOf
    <3>5. ret' = [op |-> "remove", key |-> k, result |-> 0]
      BY <1>7, <2>2 DEF hashmap_remove, Return
    <3>6. k \in DOMAIN Contents  BY <1>3, <1>7, <2>2
    <3>. QED  BY <3>1, <3>4, <3>5, <3>6 DEF Map!Remove, Contents, ContentsOf
  <2>. QED  BY <2>1, <2>2
<1>8. ASSUME NEW k \in Keys, NEW v \in Values, stage = "idle", PutOverwrites(k, v)
      PROVE  MapInv' /\ Map!Put(k, v)
  <2>1. /\ MapInv'
        /\ \E e \in Entries, f \in Entry :
              /\ KeyOf(e) = k /\ KeyOf(f) = k /\ f.value = v
              /\ Entries' = (Entries \ {e}) \cup {f}
    BY <1>8, OverwriteKeeps
  <2>2. \E f : KeyOf(f) = k /\ f.value = v /\ Entries' = WithEntry(Entries, f)
    <3>1. PICK e \in Entries : \E f \in Entry :
              /\ KeyOf(e) = k /\ KeyOf(f) = k /\ f.value = v
              /\ Entries' = (Entries \ {e}) \cup {f}
      BY <2>1
    <3>2. PICK f \in Entry : /\ KeyOf(e) = k /\ KeyOf(f) = k /\ f.value = v
                             /\ Entries' = (Entries \ {e}) \cup {f}
      BY <3>1
    <3>3. Entries' = WithEntry(Entries, f)  BY <1>1, <3>2 DEF Unique, WithEntry
    <3>. QED  BY <3>2, <3>3
  <2>3. PICK f : KeyOf(f) = k /\ f.value = v /\ Entries' = WithEntry(Entries, f)  BY <2>2
  <2>4. KeyOf(f) = k /\ f.value = v  BY <2>3
  <2>5. ContentsOf(WithEntry(Entries, f)) =
            [l \in DOMAIN Contents \cup {k} |-> IF l = k THEN v ELSE Contents[l]]
    BY ONLY <1>1, <2>4, ContentsPut DEF Contents
  <2>6. ret' = [op |-> "put", key |-> k, result |-> 0]  BY <1>8 DEF PutOverwrites, Return
  <2>7. Contents' = ContentsOf(WithEntry(Entries, f))  BY <2>3 DEF Contents, ContentsOf
  <2>. QED  BY <2>1, <2>5, <2>6, <2>7 DEF Map!Put, Contents, ContentsOf
<1>9. ASSUME NEW k \in Keys, NEW v \in Values, stage = "idle", PutWalks(k, v)
      PROVE  MapInv' /\ Entries' = Entries /\ ret' = ret
  BY <1>9, WalkKeeps DEF PutWalks
<1>10. ASSUME stage = "idle", hashmap_destroy
       PROVE  MapInv' /\ Entries' = Entries /\ ret' = ret
  <2>1. /\ UNCHANGED <<buckets, bucket_count, size, new_buckets>> /\ stage' = "freed"
        /\ arg' = arg /\ arg = NULL /\ ret' = ret
    BY <1>10 DEF hashmap_destroy, MapInv, HashMapTypeOK
  <2>. QED  BY <1>10, <2>1, ChainsStay
<1>11. ASSUME stage = "resize", ResizeEnds
       PROVE  MapInv' /\ Entries' = Entries /\ ret' = ret
  BY <1>11, ResizeKeeps DEF ResizeEnds
<1>12. ASSUME stage = "resize", NEW b, MoveEntry(b)
       PROVE  MapInv' /\ Entries' = Entries /\ ret' = ret
  BY <1>12, MoveKeeps DEF MoveEntry
<1>13. ASSUME stage = "insert", PutInserts
       PROVE  MapInv' /\ \E k \in Keys : \E v \in Values : Map!Put(k, v)
  <2>1. arg.key \in Keys /\ arg.value \in Values  BY <1>13, InsertKeeps
  <2>2. PICK k \in Keys : k = arg.key  BY <2>1
  <2>3. PICK v \in Values : v = arg.value  BY <2>1
  <2> DEFINE f == NewEntry(k, v)
  <2>4. /\ MapInv' /\ k \in Keys /\ v \in Values /\ Entries' = Entries \cup {f}
        /\ \A e \in Entries : KeyOf(e) # k
    BY <1>13, <2>2, <2>3, InsertKeeps
  <2>5. KeyOf(f) = k /\ f.value = v  BY <2>4, NewEntryFacts
  <2>6. ret' = [op |-> "put", key |-> k, result |-> 0]  BY <1>13, <2>2 DEF PutInserts, Return
  <2> HIDE DEF f
  <2>7. Entries' = WithEntry(Entries, f)  BY <2>4, <2>5 DEF WithEntry
  <2>8. ContentsOf(WithEntry(Entries, f)) =
            [l \in DOMAIN Contents \cup {k} |-> IF l = k THEN v ELSE Contents[l]]
    BY ONLY <1>1, <2>5, ContentsPut DEF Contents
  <2>9. Contents' = ContentsOf(WithEntry(Entries, f))  BY <2>7 DEF Contents, ContentsOf
  <2>10. Map!Put(k, v)  BY <2>6, <2>8, <2>9 DEF Map!Put, Contents, ContentsOf
  <2>. QED  BY <2>4, <2>10
<1>14. ASSUME stage = "insert", PutFails
       PROVE  MapInv' /\ \E k \in Keys : Map!PutFails(k)
  <2>1. /\ UNCHANGED <<buckets, bucket_count, size, new_buckets>> /\ stage' = "idle" /\ arg' = NULL
        /\ ret' = [op |-> "put", key |-> arg.key, result |-> -1]
    BY <1>14 DEF PutFails, Return
  <2>2. MapInv' /\ Entries' = Entries  BY <1>14, <2>1, ChainsStay
  <2>3. arg.key \in Keys /\ \A e \in Entries : KeyOf(e) # arg.key
    BY <1>14 DEF MapInv, HashMapTypeOK, IsNew
  <2>4. arg.key \notin DOMAIN Contents  BY <1>1, <2>3, ContentsFacts DEF Contents
  <2>5. Map!PutFails(arg.key)  BY <2>1, <2>2, <2>4 DEF Map!PutFails, Contents, ContentsOf
  <2>. QED  BY <2>2, <2>3, <2>5
<1>15. ASSUME UNCHANGED hashMapVars  PROVE  MapInv' /\ Entries' = Entries /\ ret' = ret
  BY <1>15, ChainsStay DEF hashMapVars
<1>. QED
  BY <1>2, <1>4, <1>5, <1>6, <1>7, <1>8, <1>9, <1>10, <1>11, <1>12, <1>13, <1>14, <1>15
  DEF HashMapNext, Map!Next

\* size counts the entries of the chains in the middle of hashmap_resize as well, and no
\* insertion leaves the load factor above 0.75, for any keys, hashes and numbers of buckets.
THEOREM SizeCounts == HashMapSpec => []HashMapTypeOK
<1>1. MapInv => HashMapTypeOK  BY DEF MapInv
<1>2. HashMapInit => MapInv  BY MapInvInit
<1>3. MapInv /\ [HashMapNext]_hashMapVars => MapInv'  BY MapNextStep
<1>. QED  BY <1>1, <1>2, <1>3, PTL DEF HashMapSpec

\* Whatever the keys, however they collide and however often the buckets are doubled, the
\* functions of hash_map.c are those of a map: get finds what was put last under its key,
\* and a put fails for a new key only, changing nothing.
THEOREM TableIsAMap == HashMapSpec => MapSpec
<1>1. HashMapInit => Map!Init
  <2>1. ASSUME HashMapInit  PROVE  Map!Init
    <3>1. Entries = {} /\ ret = [op |-> "create"]  BY <2>1, MapInvInit DEF HashMapInit
    <3>. QED  BY <3>1 DEF Map!Init
  <2>. QED  BY <2>1
<1>2. HashMapInit => MapInv  BY MapInvInit
<1>3. MapInv /\ [HashMapNext]_hashMapVars => MapInv' /\ [Map!Next]_(Map!vars)
  BY MapNextStep
<1>. QED  BY <1>1, <1>2, <1>3, PTL DEF HashMapSpec, MapSpec, Map!Spec
=============================================================================
