----------------------------- MODULE MCEventLoop -----------------------------
(***************************************************************************)
(* Instances of EventLoop for TLC, each with fewer numbers than clients.   *)
(***************************************************************************)
EXTENDS EventLoop

\* Two connections of thread 0 and one of thread 1, that nothing is sent on.
McFds == {4, 5, 6}
McSilent == [fd \in McFds |-> 0]

\* One connection of each thread, one of which is only made and ended.
McTwoFds == {4, 5}
McRequests == [fd \in McTwoFds |-> IF fd = 5 THEN 2 ELSE 0]
=============================================================================
