------------------------------ MODULE SemBuffers ------------------------------
(***************************************************************************)
(* A writer and a reader who hand lines over under semaphores.  Four       *)
(* programs share the scheme:                                              *)
(*   single   14_线程间通信/信号量同步练习.c, one buffer, one semaphore    *)
(*   strict   14_线程间通信/严格同步练习.c, one buffer, two semaphores     *)
(*   shm      16_ System V IPC/练习.c, two processes, shared memory        *)
(*   ring     16_ System V IPC/利用信号量集合实现生产者消费者.c, a ring    *)
(*                                                                         *)
(* A line stands for its number.  What two threads do to the same place at *)
(* the same time, a data race, may leave or give a mixture of both.        *)
(***************************************************************************)
EXTENDS Integers

CONSTANTS
    Schemes,     \* the programs at issue
    RingPlaces,  \* BUFFER_SIZE of ring; the others have one place
    RingItems,   \* NUM_ITEMS of ring
    MaxTyped     \* a bound on the lines typed in the others

ASSUME SemAssumption ==
    /\ Schemes \subseteq {"single", "strict", "shm", "ring"}
    /\ {RingPlaces, RingItems, MaxTyped} \subseteq Nat \ {0}

VARIABLES
    scheme,        \* the program that runs
    place,         \* the buffer: the line in each place, ZEROED or TORN
    wpos, rpos,    \* in and out
    empty, full,   \* the semaphores
    wpc, rpc,      \* where the writer and the reader stand
    typed, quits,  \* lines written so far, those of them that say quit
    got, reads,    \* the line reported last, reports so far
    missed         \* history: a quit was no longer in the buffer when it was tested

posVars == <<wpos, rpos>>
semVars == <<scheme, place, posVars, empty, full, wpc, rpc, typed, quits, got, reads, missed>>

ZEROED == 0
TORN   == -1

Places == IF scheme = "ring" THEN RingPlaces ELSE 1
Lines  == IF scheme = "ring" THEN RingItems ELSE MaxTyped

\* Mutant: one free place too many.
FreeAtFirstOneMore == Places + 1

\* The writer's semaphore at first.  single has none: its writer never waits.
FreeAtFirst == Places

HasEmpty == scheme # "single"
Clears   == scheme \in {"single", "strict"}

SemInit ==
    /\ scheme \in Schemes
    /\ place = [p \in 0 .. Places - 1 |-> ZEROED]
    /\ wpos = 0 /\ rpos = 0
    /\ empty = (IF HasEmpty THEN FreeAtFirst ELSE 0) /\ full = 0
    /\ wpc = "wait" /\ rpc = "wait"
    /\ typed = 0 /\ quits = {} /\ got = ZEROED /\ reads = 0 /\ missed = FALSE

NextPlace(p) == (p + 1) % Places

-----------------------------------------------------------------------------
(* The writer: main, the parent, or producer.                              *)

WriterWait ==
    /\ wpc = "wait"
    /\ HasEmpty => empty > 0
    /\ empty' = IF HasEmpty THEN empty - 1 ELSE empty
    /\ wpc' = "put"
    /\ UNCHANGED <<scheme, place, posVars, full, rpc, typed, quits, got, reads, missed>>

\* The user types a line, ring makes an item.  shm looks at the line before it posts.
WriterPut ==
    /\ wpc = "put" /\ typed < Lines
    /\ typed' = typed + 1
    /\ \E l \in IF rpc = "clear" THEN {typed', TORN} ELSE {typed'} :
          place' = [place EXCEPT ![wpos] = l]
    /\ quits' \in IF scheme = "ring" THEN {quits} ELSE {quits, quits \cup {typed'}}
    /\ wpos' = NextPlace(wpos)
    /\ wpc' = IF scheme = "shm" THEN "test" ELSE "post"
    /\ UNCHANGED <<scheme, rpos, empty, full, rpc, got, reads, missed>>

\* Mutant: the wrong semaphore.
WriterPostsEmpty ==
    /\ wpc = "post"
    /\ empty' = empty + 1
    /\ wpc' = CASE Clears -> "test"
                [] scheme = "ring" /\ typed = Lines -> "done"
                [] OTHER -> "wait"
    /\ UNCHANGED <<scheme, place, posVars, full, rpc, typed, quits, got, reads, missed>>

WriterPost ==
    /\ wpc = "post"
    /\ full' = full + 1
    /\ wpc' = CASE Clears -> "test"
                [] scheme = "ring" /\ typed = Lines -> "done"
                [] OTHER -> "wait"
    /\ UNCHANGED <<scheme, place, posVars, empty, rpc, typed, quits, got, reads, missed>>

SaysQuit == place[0] \in quits

\* Main returns and the process ends with its reader; shm's parent kills its child and
\* removes the shared memory and the semaphores.
WriterQuits ==
    /\ wpc = "test" /\ SaysQuit
    /\ wpc' = "end" /\ rpc' = "gone"
    /\ UNCHANGED <<scheme, place, posVars, empty, full, typed, quits, got, reads, missed>>

WriterGoesOn ==
    /\ wpc = "test" /\ ~SaysQuit
    /\ wpc' = IF scheme = "shm" THEN "post" ELSE "wait"
    /\ missed' = (missed \/ typed \in quits)
    /\ UNCHANGED <<scheme, place, posVars, empty, full, rpc, typed, quits, got, reads>>

-----------------------------------------------------------------------------
(* The reader: function, the child, or consumer.                           *)

ReaderWait ==
    /\ rpc = "wait" /\ full > 0
    /\ full' = full - 1
    /\ rpc' = "read"
    /\ UNCHANGED <<scheme, place, posVars, empty, wpc, typed, quits, got, reads, missed>>

\* The line is reported.  shm's child squeezes the spaces out of it in its place.
ReaderRead ==
    /\ rpc = "read"
    /\ got' \in {place[rpos]} \cup (IF wpc = "put" /\ wpos = rpos THEN {TORN} ELSE {})
    /\ reads' = reads + 1
    /\ rpos' = NextPlace(rpos)
    /\ rpc' = IF Clears THEN "clear" ELSE "post"
    /\ UNCHANGED <<scheme, place, wpos, empty, full, wpc, typed, quits, missed>>

\* memset.
ReaderClear ==
    /\ rpc = "clear"
    /\ place' = [place EXCEPT ![0] = ZEROED]
    /\ rpc' = IF HasEmpty THEN "post" ELSE "wait"
    /\ UNCHANGED <<scheme, posVars, empty, full, wpc, typed, quits, got, reads, missed>>

\* Mutant: the place is not given back.
ReaderKeepsPlace ==
    /\ rpc = "post"
    /\ rpc' = IF scheme = "ring" /\ reads = Lines THEN "done" ELSE "wait"
    /\ UNCHANGED <<scheme, place, posVars, empty, full, wpc, typed, quits, got, reads, missed>>

ReaderPost ==
    /\ rpc = "post"
    /\ empty' = empty + 1
    /\ rpc' = IF scheme = "ring" /\ reads = Lines THEN "done" ELSE "wait"
    /\ UNCHANGED <<scheme, place, posVars, full, wpc, typed, quits, got, reads, missed>>

\* ring's main has joined both and removes the semaphores.
JoinBoth ==
    /\ wpc = "done" /\ rpc = "done"
    /\ wpc' = "end" /\ rpc' = "gone"
    /\ UNCHANGED <<scheme, place, posVars, empty, full, typed, quits, got, reads, missed>>

Writer == WriterWait \/ WriterPost \/ WriterQuits \/ WriterGoesOn \/ JoinBoth
Reader == ReaderWait \/ ReaderRead \/ ReaderClear \/ ReaderPost

SemNext == Writer \/ WriterPut \/ Reader

\* Both run; nobody has to type, but ring's producer needs nobody to.
SemFairness ==
    /\ WF_semVars(Writer) /\ WF_semVars(Reader)
    /\ WF_semVars(scheme = "ring" /\ WriterPut)

SemSpec == SemInit /\ [][SemNext]_semVars /\ SemFairness

-----------------------------------------------------------------------------
(* Properties.                                                             *)

\* With a semaphore for each side the n-th report is the n-th line, whole, however often
\* the positions wrap; and shm's parent, who kills its child after a test, finds it between
\* two lines.
HandOverInOrder ==
    HasEmpty =>
        /\ rpc \in {"clear", "post"} => got = reads
        /\ scheme = "shm" /\ wpc = "test" => rpc = "wait"

\* Every line gives a report, of whatever is in the buffer then, unless the program ends.
EveryLineIsReported ==
    \A n \in 1 .. RingItems : typed >= n ~> reads >= n \/ wpc = "end"

\* quit ends the program, unless the reader has zeroed the line before main tests it,
\* which can happen only where the line is posted first; ring ends when all is consumed.
ProgramEnds ==
    quits # {} \/ scheme = "ring" ~> wpc = "end" \/ (missed /\ scheme # "shm")
=============================================================================
