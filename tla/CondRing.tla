------------------------------- MODULE CondRing -------------------------------
(***************************************************************************)
(* The producer and the consumer that share a ring buffer under a mutex    *)
(* and two condition variables (14_.../练习条件变量实现生产者消费者问题.c).*)
(* Whatever a thread does between two calls of pthread is one action.      *)
(***************************************************************************)
EXTENDS Integers

CONSTANTS
    BufferSize,     \* BUFFER_SIZE; one place of them stays free
    ProduceCount,   \* PRODUCE_COUNT
    ConsumeCount    \* CONSUME_COUNT

ASSUME RingAssumption ==
    /\ BufferSize \in Nat /\ BufferSize > 1
    /\ ProduceCount \in Nat \ {0}
    /\ ConsumeCount \in Nat \ {0}

VARIABLES
    buffer, in, out,
    mutex,      \* the thread that holds it: "producer", "consumer", or "none"
    ppc, pi,    \* where producer stands, and its i
    cpc, ci,    \* where consumer stands, and its i
    item        \* consumer's item

ring == <<buffer, in, out>>
vars == <<ring, mutex, ppc, pi, cpc, ci, item>>

Positions == 0 .. BufferSize - 1

Init ==
    /\ buffer = [p \in Positions |-> 0]
    /\ in = 0 /\ out = 0
    /\ mutex = "none"
    /\ ppc = "lock" /\ pi = 1
    /\ cpc = "lock" /\ ci = 1 /\ item = 0

-----------------------------------------------------------------------------
Succ(p) == (p + 1) % BufferSize

\* Mutant: the test forgets that in wraps.
FullNoWrap == in + 1 = out

Full == Succ(in) = out
Empty == in = out

(* producer.                                                               *)

\* pthread_mutex_lock, and the end of pthread_cond_wait once it has been woken.
ProducerLock ==
    /\ ppc \in {"lock", "woken"}
    /\ mutex = "none"
    /\ mutex' = "producer"
    /\ ppc' = "test"
    /\ UNCHANGED <<ring, pi, cpc, ci, item>>

\* pthread_cond_wait gives the mutex back and sleeps, in one step.
ProducerWait ==
    /\ ppc = "test" /\ Full
    /\ mutex' = "none"
    /\ ppc' = "wait"
    /\ UNCHANGED <<ring, pi, cpc, ci, item>>

ProducerPut ==
    /\ ppc = "test" /\ ~Full
    /\ buffer' = [buffer EXCEPT ![in] = pi]
    /\ in' = Succ(in)
    /\ ppc' = "signal"
    /\ UNCHANGED <<out, mutex, pi, cpc, ci, item>>

\* Mutant: the wrong condition variable.
ProducerSignalsItself ==
    /\ ppc = "signal"
    /\ ppc' = "unlock"
    /\ UNCHANGED <<ring, mutex, pi, cpc, ci, item>>

\* pthread_cond_signal wakes the consumer if it sleeps, and is lost if it does not.
ProducerSignal ==
    /\ ppc = "signal"
    /\ ppc' = "unlock"
    /\ cpc' = IF cpc = "wait" THEN "woken" ELSE cpc
    /\ UNCHANGED <<ring, mutex, pi, ci, item>>

ProducerUnlock ==
    /\ ppc = "unlock"
    /\ mutex' = "none"
    /\ pi' = pi + 1
    /\ ppc' = IF pi = ProduceCount THEN "done" ELSE "lock"
    /\ UNCHANGED <<ring, cpc, ci, item>>

Producer == ProducerWait \/ ProducerPut \/ ProducerSignal \/ ProducerUnlock

-----------------------------------------------------------------------------
(* consumer.                                                               *)

ConsumerLock ==
    /\ cpc \in {"lock", "woken"}
    /\ mutex = "none"
    /\ mutex' = "consumer"
    /\ cpc' = "test"
    /\ UNCHANGED <<ring, ppc, pi, ci, item>>

ConsumerWait ==
    /\ cpc = "test" /\ Empty
    /\ mutex' = "none"
    /\ cpc' = "wait"
    /\ UNCHANGED <<ring, ppc, pi, ci, item>>

ConsumerTake ==
    /\ cpc = "test" /\ ~Empty
    /\ item' = buffer[out]
    /\ out' = Succ(out)
    /\ cpc' = "signal"
    /\ UNCHANGED <<buffer, in, mutex, ppc, pi, ci>>

\* Mutant: a producer that sleeps is not woken.
ConsumerSignalsNobody ==
    /\ cpc = "signal"
    /\ cpc' = "unlock"
    /\ UNCHANGED <<ring, mutex, ppc, pi, ci, item>>

ConsumerSignal ==
    /\ cpc = "signal"
    /\ cpc' = "unlock"
    /\ ppc' = IF ppc = "wait" THEN "woken" ELSE ppc
    /\ UNCHANGED <<ring, mutex, pi, ci, item>>

ConsumerUnlock ==
    /\ cpc = "unlock"
    /\ mutex' = "none"
    /\ ci' = ci + 1
    /\ cpc' = IF ci = ConsumeCount THEN "done" ELSE "lock"
    /\ UNCHANGED <<ring, ppc, pi, item>>

Consumer == ConsumerWait \/ ConsumerTake \/ ConsumerSignal \/ ConsumerUnlock

-----------------------------------------------------------------------------
\* pthread_cond_wait may return without a signal.
SpuriousWakeup ==
    /\ \/ ppc = "wait" /\ ppc' = "woken" /\ UNCHANGED cpc
       \/ cpc = "wait" /\ cpc' = "woken" /\ UNCHANGED ppc
    /\ UNCHANGED <<ring, mutex, pi, ci, item>>

Next == ProducerLock \/ Producer \/ ConsumerLock \/ Consumer \/ SpuriousWakeup

\* Both threads run, and a mutex that is given back again and again is got at last.
Fairness ==
    /\ WF_vars(Producer) /\ SF_vars(ProducerLock)
    /\ WF_vars(Consumer) /\ SF_vars(ConsumerLock)

Spec == Init /\ [][Next]_vars /\ Fairness

-----------------------------------------------------------------------------
(* Properties.                                                             *)

TypeOK ==
    /\ buffer \in [Positions -> Nat]
    /\ in \in Positions /\ out \in Positions
    /\ mutex \in {"none", "producer", "consumer"}
    /\ ppc \in {"lock", "test", "wait", "woken", "signal", "unlock", "done"}
    /\ cpc \in {"lock", "test", "wait", "woken", "signal", "unlock", "done"}
    /\ pi \in Nat /\ ci \in Nat /\ item \in Nat

\* The consumer's i-th item is the producer's i-th: none is lost, taken twice or
\* overtaken, however often the positions wrap.
InOrder == cpc \in {"signal", "unlock"} => item = ci

\* The same, with both positions inside the buffer.
ItemsInOrder == TypeOK /\ InOrder

\* No signal is lost: a consumer sleeps only on an empty ring, or while the producer has
\* its signal still to send; and the other way round.
SleeperIsWoken ==
    /\ cpc = "wait" /\ ~Empty => ppc = "signal"
    /\ ppc = "wait" /\ ~Full  => cpc = "signal"

\* With as many items produced as consumed both threads end, and main's joins with them.
BothEnd == <>(ppc = "done" /\ cpc = "done")
=============================================================================
