----------------------------- MODULE EchoService -----------------------------
(***************************************************************************)
(* What the echo server promises to a client on one connection: it writes  *)
(* back the bytes it was sent, in order and none twice, whole messages     *)
(* only, all of them as long as the connection is open, and it closes the  *)
(* connection only for a reason.                                           *)
(***************************************************************************)
EXTENDS Naturals, Sequences

VARIABLES
    ends,      \* the positions in the stream of requests where a message ends
    requests,  \* bytes the client has sent
    replies,   \* bytes the server has written back, each named by its position
    open,      \* the connection is open
    mayClose   \* the client has ended the connection or sent what is refused

vars == <<ends, requests, replies, open, mayClose>>

Init ==
    /\ requests = 0
    /\ replies = <<>>
    /\ open = TRUE
    /\ mayClose = FALSE

Request ==
    /\ requests' = requests + 1
    /\ mayClose' \in {mayClose, TRUE}
    /\ UNCHANGED <<ends, replies, open>>

End ==
    /\ mayClose' = TRUE
    /\ UNCHANGED <<ends, requests, replies, open>>

\* The next n bytes, all of them of messages that have arrived whole.
Reply ==
    /\ open
    /\ \E n \in 1 .. requests :
          /\ \E e \in ends : Len(replies) + n <= e /\ e <= requests
          /\ replies' = replies \o [i \in 1 .. n |-> Len(replies) + i]
    /\ UNCHANGED <<ends, requests, open, mayClose>>

Close ==
    /\ mayClose
    /\ open' = FALSE
    /\ UNCHANGED <<ends, requests, replies, mayClose>>

Next == Request \/ End \/ Reply \/ Close

Safety   == Init /\ [][Next]_vars
Liveness == WF_vars(Reply)

Spec == Safety /\ Liveness
=============================================================================
