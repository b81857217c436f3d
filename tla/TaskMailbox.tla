----------------------------- MODULE TaskMailbox -----------------------------
(***************************************************************************)
(* What the task queues of the C++ server promise, without the eventfds,   *)
(* the batches and the threads' program counters: one first-in first-out   *)
(* mailbox per IO thread, that any thread posts to, that its owner empties *)
(* task by task, and that is closed, with what is still in it, only after  *)
(* it was asked to close.                                                  *)
(***************************************************************************)
EXTENDS Sequences

CONSTANTS
    Owners,  \* the owners of the mailboxes, the IO threads
    Letters  \* the tasks that can be posted

VARIABLES
    mail,    \* mail[t]: the tasks posted to t that t has not handled, oldest first
    asked,   \* the owners that were asked to close
    closed   \* the owners that handle no more mail

vars == <<mail, asked, closed>>

Init ==
    /\ mail = [t \in Owners |-> <<>>]
    /\ asked = {}
    /\ closed = {}

\* What is posted to a closed mailbox is lost.
Post(t, m) ==
    /\ t \notin closed
    /\ mail' = [mail EXCEPT ![t] = Append(@, m)]
    /\ UNCHANGED <<asked, closed>>

Handle(t) ==
    /\ t \notin closed
    /\ mail[t] # <<>>
    /\ mail' = [mail EXCEPT ![t] = Tail(@)]
    /\ UNCHANGED <<asked, closed>>

Ask(t) ==
    /\ asked' = asked \cup {t}
    /\ UNCHANGED <<mail, closed>>

Close(t) ==
    /\ t \in asked \ closed
    /\ closed' = closed \cup {t}
    /\ mail' = [mail EXCEPT ![t] = <<>>]
    /\ UNCHANGED asked

Next == \E t \in Owners : Handle(t) \/ Ask(t) \/ Close(t) \/ \E m \in Letters : Post(t, m)

\* Mail is handled, and a mailbox that was asked to close is closed.
Spec ==
    /\ Init
    /\ [][Next]_vars
    /\ \A t \in Owners : WF_vars(Handle(t) \/ Close(t))
=============================================================================
