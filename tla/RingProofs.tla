------------------------------ MODULE RingProofs ------------------------------
(***************************************************************************)
(* Theorems about CondRing and SemBuffers, the two rings of buffers of     *)
(* chapters 15 and 16, for every size of the ring and every number of      *)
(* items.                                                                  *)
(***************************************************************************)
EXTENDS CondRing, SemBuffers, TLAPS

-----------------------------------------------------------------------------
(* CondRing: producer and consumer with condition variables.               *)

\* What each thread has put or taken, the item in its hands included.
Put   == IF ppc \in {"signal", "unlock"} THEN pi ELSE pi - 1
Taken == IF cpc \in {"signal", "unlock"} THEN ci ELSE ci - 1
Held  == Put - Taken

\* The position n places behind p.
Behind(p, n) == IF p + n < BufferSize THEN p + n ELSE p + n - BufferSize

\* The thread with the mutex is the one between its lock and its unlock.
MutexInv ==
    /\ ppc \in {"test", "signal", "unlock"} <=> mutex = "producer"
    /\ cpc \in {"test", "signal", "unlock"} <=> mutex = "consumer"

\* The ring holds the items put and not taken, the oldest at out, the next to come at in.
RingInv ==
    /\ Held \in Positions
    /\ in = Behind(out, Held)
    /\ \A n \in Positions : n < Held => buffer[Behind(out, n)] = Taken + n + 1

\* A sleeper has nothing to do, or the other thread is about to wake it.
SleepInv ==
    /\ cpc = "wait" => Held = 0 \/ ppc = "signal"
    /\ ppc = "wait" => Held = BufferSize - 1 \/ cpc = "signal"

Inv ==
    /\ TypeOK
    /\ MutexInv
    /\ RingInv
    /\ SleepInv
    /\ InOrder

-----------------------------------------------------------------------------
(* Positions.                                                              *)

\* The remainder of a position's successor is the position behind it.
LEMMA SuccIsBehind ==
    ASSUME NEW p \in Positions
    PROVE  Succ(p) = Behind(p, 1) /\ Succ(p) \in Positions
<1>1. BufferSize \in Nat /\ BufferSize > 1
  BY RingAssumption
<1>2. CASE p + 1 < BufferSize
  <2>1. (p + 1) % BufferSize = p + 1
    BY <1>1, <1>2, SMT DEF Positions
  <2> QED
    BY <1>1, <1>2, <2>1 DEF Succ, Behind, Positions
<1>3. CASE p + 1 = BufferSize
  <2>1. BufferSize % BufferSize = 0
    BY <1>1, SMT
  <2> QED
    BY <1>1, <1>3, <2>1 DEF Succ, Behind, Positions
<1> QED
  BY <1>1, <1>2, <1>3 DEF Positions

\* With RingInv the tests of the code count the items.
LEMMA TestsCount ==
    ASSUME Inv
    PROVE  /\ Empty <=> Held = 0
           /\ Full <=> Held = BufferSize - 1
<1>1. in \in Positions /\ out \in Positions /\ Held \in Positions /\ in = Behind(out, Held)
  BY DEF Inv, TypeOK, RingInv
<1>2. Succ(in) = Behind(in, 1)
  BY <1>1, SuccIsBehind
<1>3. BufferSize \in Nat /\ BufferSize > 1
  BY RingAssumption
<1>4. Empty <=> Held = 0
  BY <1>1, <1>3 DEF Empty, Behind, Positions
<1>5. Full <=> Held = BufferSize - 1
  BY <1>1, <1>2, <1>3 DEF Full, Behind, Positions
<1> QED
  BY <1>4, <1>5

-----------------------------------------------------------------------------
LEMMA InitInv == Init => Inv
<1> SUFFICES ASSUME Init PROVE Inv
  OBVIOUS
<1>1. BufferSize \in Nat /\ BufferSize > 1
  BY RingAssumption
<1>2. TypeOK
  BY <1>1 DEF Init, TypeOK, Positions
<1>3. Put = 0 /\ Taken = 0 /\ Held = 0
  BY DEF Init, Put, Taken, Held
<1>4. RingInv
  BY <1>1, <1>3 DEF Init, RingInv, Behind, Positions
<1> QED
  BY <1>2, <1>4 DEF Init, Inv, MutexInv, SleepInv, InOrder

\* The only step that puts an item.
LEMMA PutStep == Inv /\ ProducerPut => Inv'
<1> SUFFICES ASSUME Inv, ProducerPut PROVE Inv'
  OBVIOUS
<1> USE DEF Inv
<1>1. BufferSize \in Nat /\ BufferSize > 1
  BY RingAssumption
<1>2. /\ in \in Positions /\ out \in Positions /\ Held \in Positions
      /\ pi \in Nat /\ ci \in Nat /\ Put \in Int /\ Taken \in Int
  BY DEF TypeOK, RingInv, Put, Taken
<1>3. Held < BufferSize - 1
  BY <1>1, <1>2, TestsCount DEF ProducerPut, Positions
<1>4. Put' = pi /\ Put = pi - 1 /\ Taken' = Taken /\ Held' = Held + 1
  BY <1>2 DEF ProducerPut, Put, Taken, Held
<1>5. cpc \notin {"test", "signal", "unlock"}
  BY DEF ProducerPut, MutexInv
<1>6. in' = Behind(in, 1) /\ in' \in Positions
  BY <1>2, SuccIsBehind DEF ProducerPut
<1>7. TypeOK'
  BY <1>2, <1>6 DEF ProducerPut, TypeOK
<1>8. RingInv'
  <2>1. Held' \in Positions
    BY <1>1, <1>2, <1>3, <1>4 DEF Positions
  <2>2. in' = Behind(out', Held')
    BY <1>1, <1>2, <1>4, <1>6 DEF ProducerPut, RingInv, Behind, Positions
  <2>3. ASSUME NEW n \in Positions, n < Held'
        PROVE  buffer'[Behind(out', n)] = Taken' + n + 1
    <3>1. Behind(out, n) \in Positions
      BY <1>1, <1>2 DEF Behind, Positions
    <3>2. CASE n = Held
      BY <1>2, <1>4, <3>1, <3>2 DEF ProducerPut, TypeOK, RingInv, Held
    <3>3. CASE n < Held
      <4>1. Behind(out, n) # in
        BY <1>1, <1>2, <3>3 DEF RingInv, Behind, Positions
      <4> QED
        BY <1>2, <1>4, <3>1, <3>3, <4>1 DEF ProducerPut, TypeOK, RingInv
    <3> QED
      BY <1>2, <1>4, <2>3, <3>2, <3>3 DEF Positions
  <2> QED
    BY <2>1, <2>2, <2>3 DEF RingInv
<1>9. (MutexInv /\ SleepInv /\ InOrder)'
  BY <1>5 DEF ProducerPut, MutexInv, SleepInv, InOrder
<1> QED
  BY <1>7, <1>8, <1>9

\* The only step that takes one.
LEMMA TakeStep == Inv /\ ConsumerTake => Inv'
<1> SUFFICES ASSUME Inv, ConsumerTake PROVE Inv'
  OBVIOUS
<1> USE DEF Inv
<1>1. BufferSize \in Nat /\ BufferSize > 1
  BY RingAssumption
<1>2. /\ in \in Positions /\ out \in Positions /\ Held \in Positions
      /\ pi \in Nat /\ ci \in Nat /\ Put \in Int /\ Taken \in Int
  BY DEF TypeOK, RingInv, Put, Taken
<1>3. Held > 0
  BY <1>1, <1>2, TestsCount DEF ConsumerTake, Positions
<1>4. Taken' = ci /\ Taken = ci - 1 /\ Put' = Put /\ Held' = Held - 1
  BY <1>2 DEF ConsumerTake, Put, Taken, Held
<1>5. ppc \notin {"test", "signal", "unlock"}
  BY DEF ConsumerTake, MutexInv
<1>6. out' = Behind(out, 1) /\ out' \in Positions
  BY <1>2, SuccIsBehind DEF ConsumerTake
<1>7. item' = ci
  <2>1. 0 \in Positions /\ Behind(out, 0) = out
    BY <1>1, <1>2 DEF Behind, Positions
  <2>2. buffer[out] = Taken + 0 + 1
    BY <1>3, <2>1 DEF RingInv
  <2> QED
    BY <1>2, <1>4, <2>2 DEF ConsumerTake
<1>8. TypeOK'
  BY <1>2, <1>6, <1>7 DEF ConsumerTake, TypeOK
<1>9. RingInv'
  <2>1. Held' \in Positions
    BY <1>1, <1>2, <1>3, <1>4 DEF Positions
  <2>2. in' = Behind(out', Held')
    BY <1>1, <1>2, <1>3, <1>4, <1>6 DEF ConsumerTake, RingInv, Behind, Positions
  <2>3. ASSUME NEW n \in Positions, n < Held'
        PROVE  buffer'[Behind(out', n)] = Taken' + n + 1
    <3>1. n + 1 \in Positions /\ n + 1 < Held
      BY <1>1, <1>2, <1>4, <2>3 DEF Positions
    <3>2. Behind(out', n) = Behind(out, n + 1)
      BY <1>1, <1>2, <1>6, <3>1 DEF Behind, Positions
    <3>3. buffer[Behind(out, n + 1)] = Taken + (n + 1) + 1
      BY <3>1 DEF RingInv
    <3> QED
      BY <1>2, <1>4, <3>1, <3>2, <3>3 DEF ConsumerTake, Positions
  <2> QED
    BY <2>1, <2>2, <2>3 DEF RingInv
<1>10. (MutexInv /\ SleepInv /\ InOrder)'
  BY <1>5, <1>7 DEF ConsumerTake, MutexInv, SleepInv, InOrder
<1> QED
  BY <1>8, <1>9, <1>10

\* Every other step leaves the ring and what is put and taken alone.
LEMMA OtherStep ==
    ASSUME Inv, [Next]_vars, ~ProducerPut, ~ConsumerTake
    PROVE  Inv'
<1> USE DEF Inv
<1>1. pi \in Nat /\ ci \in Nat /\ BufferSize \in Nat
  BY RingAssumption DEF TypeOK
<1>2. /\ UNCHANGED ring /\ Put' = Put /\ Taken' = Taken
      /\ TypeOK' /\ MutexInv' /\ InOrder' /\ SleepInv'
  <2> USE DEF ring, TypeOK, MutexInv, InOrder
  <2>1. CASE ProducerLock
    BY <1>1, <2>1 DEF ProducerLock, Put, Taken, SleepInv, Held
  <2>2. CASE ProducerWait
    <3>1. Held = BufferSize - 1
      BY <2>2, TestsCount DEF ProducerWait
    <3> QED
      BY <1>1, <2>2, <3>1 DEF ProducerWait, Put, Taken, SleepInv, Held
  <2>3. CASE ProducerSignal
    BY <1>1, <2>3 DEF ProducerSignal, Put, Taken, SleepInv, Held
  <2>4. CASE ProducerUnlock
    BY <1>1, <2>4 DEF ProducerUnlock, Put, Taken, SleepInv, Held
  <2>5. CASE ConsumerLock
    BY <1>1, <2>5 DEF ConsumerLock, Put, Taken, SleepInv, Held
  <2>6. CASE ConsumerWait
    <3>1. Held = 0
      BY <2>6, TestsCount DEF ConsumerWait
    <3> QED
      BY <1>1, <2>6, <3>1 DEF ConsumerWait, Put, Taken, SleepInv, Held
  <2>7. CASE ConsumerSignal
    BY <1>1, <2>7 DEF ConsumerSignal, Put, Taken, SleepInv, Held
  <2>8. CASE ConsumerUnlock
    BY <1>1, <2>8 DEF ConsumerUnlock, Put, Taken, SleepInv, Held
  <2>9. CASE SpuriousWakeup
    BY <1>1, <2>9 DEF SpuriousWakeup, Put, Taken, SleepInv, Held
  <2>10. CASE UNCHANGED vars
    BY <1>1, <2>10 DEF vars, Put, Taken, SleepInv, Held
  <2> QED
    BY <2>1, <2>2, <2>3, <2>4, <2>5, <2>6, <2>7, <2>8, <2>9, <2>10
       DEF Next, Producer, Consumer
<1>3. RingInv'
  BY <1>2 DEF ring, RingInv, Held
<1> QED
  BY <1>2, <1>3

LEMMA InvIsInductive == Spec => []Inv
<1>1. Inv /\ [Next]_vars => Inv'
  BY PutStep, TakeStep, OtherStep
<1> QED
  BY InitInv, <1>1, PTL DEF Spec

\* Every variable keeps its type: the positions never leave the buffer.
THEOREM TypeCorrect == Spec => []TypeOK
<1>1. Inv => TypeOK
  BY DEF Inv
<1> QED
  BY InvIsInductive, <1>1, PTL

\* The ring of producer and consumer is first in, first out, without loss or repetition,
\* for every BUFFER_SIZE above 1.
THEOREM RingIsFifo == Spec => []ItemsInOrder
<1>1. Inv => ItemsInOrder
  BY DEF Inv, ItemsInOrder
<1> QED
  BY InvIsInductive, <1>1, PTL

\* Neither pthread_cond_signal comes too early for the thread it is meant for.
THEOREM NoSignalIsLost == Spec => []SleeperIsWoken
<1>1. Inv => SleeperIsWoken
  BY TestsCount DEF Inv, SleepInv, SleeperIsWoken
<1> QED
  BY InvIsInductive, <1>1, PTL

-----------------------------------------------------------------------------
(* SemBuffers: the semaphore programs.                                     *)

Slots == 0 .. Places - 1

\* Lines that are in the buffer and not reported.
Filled == typed - reads

\* A line the writer has put and not posted.
Unposted == wpc = "post" \/ (scheme = "shm" /\ wpc = "test")

\* The place n places behind p.
Around(p, n) == IF p + n < Places THEN p + n ELSE p + n - Places

SemType ==
    /\ scheme \in Schemes \cap {"strict", "shm", "ring"}
    /\ place \in [Slots -> Int]
    /\ wpos \in Slots /\ rpos \in Slots
    /\ empty \in Nat /\ full \in Nat /\ typed \in Nat /\ reads \in Nat
    /\ wpc \in {"wait", "put", "post", "test", "done", "end"}
    /\ rpc \in {"wait", "read", "clear", "post", "done", "gone"}
    /\ rpc = "gone" <=> wpc = "end"
    /\ rpc = "clear" => scheme = "strict"
    /\ rpc = "done" => scheme = "ring"

\* full counts the lines posted that no reader has come for.
FullInv == full = Filled - (IF Unposted THEN 1 ELSE 0) - (IF rpc = "read" THEN 1 ELSE 0)

\* Every place is free, full, or in the hands of one of the two.
EmptyInv ==
    empty = Places - full - (IF wpc = "put" \/ Unposted THEN 1 ELSE 0)
                          - (IF rpc \in {"read", "clear", "post"} THEN 1 ELSE 0)

\* The buffer holds the lines that are put and not reported, the oldest at rpos.
BufferInv ==
    /\ wpos = Around(rpos, Filled)
    /\ \A n \in Slots : n < Filled => place[Around(rpos, n)] = reads + n + 1

GotInv == rpc \in {"clear", "post"} => got = reads

\* While the program runs; after that nothing is touched.
Running == rpc # "gone" => FullInv /\ EmptyInv /\ BufferInv /\ GotInv

SemInv == HasEmpty => SemType /\ Running
-----------------------------------------------------------------------------
LEMMA PlacesAreThere ==
    ASSUME SemType
    PROVE  Places \in Nat /\ Places > 0 /\ (scheme # "ring" => Places = 1)
BY SemAssumption DEF SemType, Places

\* The remainder of a place's successor is the place behind it, in a ring of one too.
LEMMA NextPlaceIsAround ==
    ASSUME SemType, NEW p \in Slots
    PROVE  NextPlace(p) = Around(p, 1) /\ NextPlace(p) \in Slots
<1>1. Places \in Nat /\ Places > 0
  BY PlacesAreThere
<1>2. CASE p + 1 < Places
  <2>1. (p + 1) % Places = p + 1
    BY <1>1, <1>2, SMT DEF Slots
  <2> QED
    BY <1>1, <1>2, <2>1 DEF NextPlace, Around, Slots
<1>3. CASE p + 1 = Places
  <2>1. Places % Places = 0
    BY <1>1, SMT
  <2> QED
    BY <1>1, <1>3, <2>1 DEF NextPlace, Around, Slots
<1> QED
  BY <1>1, <1>2, <1>3 DEF Slots

\* What the semaphores say of the buffer: there is room where the writer puts, and a line
\* where the reader reads; with one place only one of the two is at it.
LEMMA SemaphoresCount ==
    ASSUME SemType, FullInv, EmptyInv
    PROVE  /\ Filled \in 0 .. Places
           /\ wpc = "put" => Filled < Places
           /\ rpc = "read" => Filled > 0
           /\ rpc = "clear" => Filled = 0 /\ wpc # "put"
           /\ scheme = "shm" /\ wpc = "test" => rpc \notin {"read", "clear", "post"}
<1>1. /\ Places \in Nat /\ Places > 0 /\ (scheme # "ring" => Places = 1)
      /\ empty \in Nat /\ full \in Nat /\ typed \in Nat /\ reads \in Nat
  BY PlacesAreThere DEF SemType
<1>2. Filled \in Int
  BY <1>1 DEF Filled
<1> QED
  BY <1>1, <1>2 DEF FullInv, EmptyInv, Unposted, SemType

LEMMA SemInitInv == SemInit => SemInv
<1> SUFFICES ASSUME SemInit, HasEmpty PROVE SemType /\ Running
  BY DEF SemInv
<1>1. Places \in Nat /\ Places > 0 /\ scheme \in Schemes \cap {"strict", "shm", "ring"}
  BY SemAssumption DEF SemInit, HasEmpty, Places
<1>2. SemType
  BY <1>1 DEF SemInit, SemType, Slots, ZEROED, FreeAtFirst
<1>3. Filled = 0 /\ ~Unposted
  BY DEF SemInit, Filled, Unposted
<1>4. FullInv /\ EmptyInv
  <2>1. empty = Places /\ full = 0 /\ wpc = "wait" /\ rpc = "wait"
    BY DEF SemInit, FreeAtFirst
  <2> QED
    BY <1>1, <1>3, <2>1 DEF FullInv, EmptyInv, Unposted
<1>5. BufferInv
  BY <1>1, <1>3 DEF SemInit, BufferInv, Around, Slots
<1> QED
  BY <1>2, <1>4, <1>5 DEF SemInit, GotInv, Running

\* The program that runs is the one that started.
LEMMA SchemeStays ==
    ASSUME [SemNext]_semVars
    PROVE  scheme' = scheme /\ Places' = Places /\ Slots' = Slots /\ (HasEmpty' <=> HasEmpty)
<1>1. scheme' = scheme
  BY DEF SemNext, Writer, Reader, WriterWait, WriterPut, WriterPost, WriterQuits,
         WriterGoesOn, JoinBoth, ReaderWait, ReaderRead, ReaderClear, ReaderPost, semVars
<1> QED
  BY <1>1 DEF Places, Slots, HasEmpty

\* A line is put where none is waiting.
LEMMA PutALine ==
    ASSUME HasEmpty, SemType, Running, WriterPut
    PROVE  (SemType /\ Running)'
<1>1. /\ scheme' = scheme /\ Places' = Places /\ Slots' = Slots
      /\ Places \in Nat /\ Places > 0
      /\ typed \in Nat /\ reads \in Nat /\ wpos \in Slots /\ rpos \in Slots
  BY PlacesAreThere DEF SemType, WriterPut, Places, Slots
<1>2. rpc # "gone" /\ FullInv /\ EmptyInv /\ BufferInv /\ GotInv
  BY DEF SemType, WriterPut, Running
<1>3. Filled \in 0 .. Places /\ Filled < Places /\ rpc # "clear"
  BY <1>2, SemaphoresCount DEF WriterPut
<1>4. /\ typed' = typed + 1 /\ reads' = reads /\ rpos' = rpos
      /\ place' = [place EXCEPT ![wpos] = typed + 1]
      /\ wpos' = Around(wpos, 1) /\ wpos' \in Slots
  BY <1>1, <1>3, NextPlaceIsAround DEF WriterPut
<1>5. Filled' = Filled + 1 /\ Unposted' /\ ~Unposted
  BY <1>1, <1>4 DEF Filled, WriterPut, Unposted
<1>6. SemType'
  BY <1>1, <1>4 DEF WriterPut, SemType
<1>7. FullInv'
  BY <1>2, <1>3, <1>5 DEF WriterPut, FullInv
<1>8. EmptyInv'
  BY <1>1, <1>2, <1>5 DEF WriterPut, EmptyInv
<1>9. wpos' = Around(rpos, Filled + 1)
  BY <1>1, <1>2, <1>3, <1>4 DEF BufferInv, Around, Slots
<1>10. ASSUME NEW n \in Slots, n < Filled + 1
       PROVE  place'[Around(rpos, n)] = reads + n + 1
  <2>1. Around(rpos, n) \in Slots
    BY <1>1 DEF Around, Slots
  <2>2. CASE n = Filled
    BY <1>1, <1>2, <1>4, <2>1, <2>2 DEF BufferInv, SemType, Filled
  <2>3. CASE n < Filled
    <3>1. Around(rpos, n) # wpos
      BY <1>1, <1>2, <1>3, <2>3 DEF BufferInv, Around, Slots
    <3> QED
      BY <1>2, <1>4, <2>1, <2>3, <3>1 DEF BufferInv, SemType
  <2> QED
    BY <1>3, <1>10, <2>2, <2>3 DEF Slots
<1>11. BufferInv'
  BY <1>1, <1>4, <1>5, <1>9, <1>10 DEF BufferInv, Around
<1> QED
  BY <1>2, <1>6, <1>7, <1>8, <1>11 DEF WriterPut, GotInv, Running

\* The oldest line is read, whole: the writer is at another place.
LEMMA ReadALine ==
    ASSUME HasEmpty, SemType, Running, ReaderRead
    PROVE  (SemType /\ Running)'
<1>1. /\ scheme' = scheme /\ Places' = Places /\ Slots' = Slots
      /\ Places \in Nat /\ Places > 0
      /\ typed \in Nat /\ reads \in Nat /\ wpos \in Slots /\ rpos \in Slots
  BY PlacesAreThere DEF SemType, ReaderRead, Places, Slots
<1>2. FullInv /\ EmptyInv /\ BufferInv
  BY DEF ReaderRead, Running
<1>3. Filled \in 0 .. Places /\ Filled > 0 /\ (wpc = "put" => Filled < Places)
  BY <1>2, SemaphoresCount DEF ReaderRead
<1>4. /\ typed' = typed /\ reads' = reads + 1 /\ wpos' = wpos /\ place' = place
      /\ rpos' = Around(rpos, 1) /\ rpos' \in Slots
  BY <1>1, NextPlaceIsAround DEF ReaderRead
<1>5. Filled' = Filled - 1 /\ (Unposted' <=> Unposted)
  BY <1>1, <1>4 DEF Filled, ReaderRead, Unposted
<1>6. place[rpos] = reads + 1
  <2>1. 0 \in Slots /\ Around(rpos, 0) = rpos
    BY <1>1 DEF Around, Slots
  <2>2. place[rpos] = reads + 0 + 1
    BY <1>2, <1>3, <2>1 DEF BufferInv
  <2> QED
    BY <1>1, <2>2
<1>7. wpc = "put" => wpos # rpos
  BY <1>1, <1>2, <1>3 DEF BufferInv, Around, Slots
<1>8. SemType' /\ GotInv'
  BY <1>1, <1>4, <1>6, <1>7 DEF ReaderRead, SemType, GotInv, Clears, HasEmpty
<1>9. FullInv'
  BY <1>2, <1>3, <1>5 DEF ReaderRead, FullInv
<1>10. EmptyInv'
  BY <1>1, <1>2, <1>5 DEF ReaderRead, EmptyInv
<1>11. wpos = Around(rpos', Filled - 1)
  BY <1>1, <1>2, <1>3, <1>4 DEF BufferInv, Around, Slots
<1>12. ASSUME NEW n \in Slots, n < Filled - 1
       PROVE  place[Around(rpos', n)] = reads + 1 + n + 1
  <2>1. n + 1 \in Slots /\ n + 1 < Filled
    BY <1>1, <1>3, <1>12 DEF Slots
  <2>2. Around(rpos', n) = Around(rpos, n + 1)
    BY <1>1, <1>4, <2>1 DEF Around, Slots
  <2>3. place[Around(rpos, n + 1)] = reads + (n + 1) + 1
    BY <1>2, <2>1 DEF BufferInv
  <2> QED
    BY <1>1, <2>2, <2>3 DEF Slots
<1>13. BufferInv'
  BY <1>1, <1>4, <1>5, <1>11, <1>12 DEF BufferInv, Around
<1> QED
  BY <1>8, <1>9, <1>10, <1>13 DEF Running

\* The line that is zeroed has been reported, and no other is in the buffer.
LEMMA ClearTheLine ==
    ASSUME HasEmpty, SemType, Running, ReaderClear
    PROVE  (SemType /\ Running)'
<1>1. /\ scheme' = scheme /\ Places' = Places /\ Slots' = Slots
      /\ Places = 1 /\ Slots = {0} /\ typed \in Nat /\ reads \in Nat
      /\ wpos = 0 /\ rpos = 0
  <2>1. scheme = "strict" /\ Places = 1
    BY PlacesAreThere DEF SemType, ReaderClear
  <2> QED
    BY <2>1 DEF SemType, ReaderClear, Places, Slots
<1>2. FullInv /\ EmptyInv /\ BufferInv /\ GotInv
  BY DEF ReaderClear, Running
<1>3. Filled = 0
  BY <1>2, SemaphoresCount DEF ReaderClear
<1>4. Filled' = Filled /\ (Unposted' <=> Unposted)
  BY DEF Filled, ReaderClear, Unposted
<1>5. SemType'
  BY <1>1 DEF ReaderClear, SemType, ZEROED, posVars
<1>6. BufferInv'
  BY <1>1, <1>2, <1>3, <1>4 DEF ReaderClear, BufferInv, Around, posVars
<1>7. (FullInv /\ EmptyInv /\ GotInv)'
  BY <1>1, <1>2, <1>3, <1>4 DEF ReaderClear, FullInv, EmptyInv, GotInv, HasEmpty
<1> QED
  BY <1>5, <1>6, <1>7 DEF Running

\* The other steps move a count from one holder to the next, or end the program.
LEMMA MoveACount ==
    ASSUME HasEmpty, SemType, Running, [SemNext]_semVars,
           ~WriterPut, ~ReaderRead, ~ReaderClear
    PROVE  (SemType /\ Running)'
<1>1. /\ scheme' = scheme /\ Places' = Places /\ Slots' = Slots
      /\ Places \in Nat /\ Places > 0
      /\ empty \in Nat /\ full \in Nat /\ typed \in Nat /\ reads \in Nat
      /\ Filled \in Int
  BY PlacesAreThere, SchemeStays DEF SemType, Filled
<1>2. UNCHANGED <<place, wpos, rpos, typed, reads, got>>
  BY DEF SemNext, Writer, Reader, WriterWait, WriterPost, WriterQuits, WriterGoesOn,
         JoinBoth, ReaderWait, ReaderPost, semVars, posVars
<1>3. Filled' = Filled /\ (BufferInv => BufferInv')
  BY <1>1, <1>2 DEF Filled, BufferInv, Around
<1>4. SemType' /\ (rpc' # "gone" /\ FullInv /\ EmptyInv /\ GotInv
                     => FullInv' /\ EmptyInv' /\ GotInv')
  <2> USE <1>1, <1>2, <1>3 DEF SemType, FullInv, EmptyInv, GotInv, Unposted
  <2>1. CASE WriterWait
    BY <2>1 DEF WriterWait
  <2>2. CASE WriterPost
    BY <2>2 DEF WriterPost, Clears
  <2>3. CASE WriterQuits
    BY <2>3 DEF WriterQuits
  <2>4. CASE WriterGoesOn
    BY <2>4 DEF WriterGoesOn
  <2>5. CASE JoinBoth
    BY <2>5 DEF JoinBoth
  <2>6. CASE ReaderWait
    BY <2>6 DEF ReaderWait
  <2>7. CASE ReaderPost
    BY <2>7 DEF ReaderPost
  <2>8. CASE UNCHANGED semVars
    BY <2>8 DEF semVars
  <2> QED
    BY <2>1, <2>2, <2>3, <2>4, <2>5, <2>6, <2>7, <2>8 DEF SemNext, Writer, Reader
<1>5. rpc' # "gone" => rpc # "gone"
  BY DEF SemNext, Writer, Reader, WriterWait, WriterPost, WriterQuits, WriterGoesOn,
         JoinBoth, ReaderWait, ReaderPost, semVars, SemType
<1> QED
  BY <1>3, <1>4, <1>5 DEF Running

LEMMA SemInvIsInductive == SemSpec => []SemInv
<1>1. SemInv /\ [SemNext]_semVars => SemInv'
  BY SchemeStays, PutALine, ReadALine, ClearTheLine, MoveACount DEF SemInv
<1> QED
  BY SemInitInv, <1>1, PTL DEF SemSpec

\* With two semaphores every line is handed over whole, once and in order, and shm's child
\* is killed between two lines, for every size of the ring and every number of lines.
THEOREM LinesComeInOrder == SemSpec => []HandOverInOrder
<1>1. SemInv => HandOverInOrder
  <2> SUFFICES ASSUME SemInv, HasEmpty
               PROVE  /\ rpc \in {"clear", "post"} => got = reads
                      /\ scheme = "shm" /\ wpc = "test" => rpc = "wait"
    BY DEF HandOverInOrder
  <2>1. SemType /\ Running
    BY DEF SemInv
  <2>2. rpc \in {"clear", "post"} => got = reads
    BY <2>1 DEF Running, GotInv
  <2>3. scheme = "shm" /\ wpc = "test" => rpc = "wait"
    BY <2>1, SemaphoresCount DEF Running, SemType
  <2> QED
    BY <2>2, <2>3
<1> QED
  BY SemInvIsInductive, <1>1, PTL
=============================================================================
