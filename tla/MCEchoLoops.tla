------------------------------ MODULE MCEchoLoops ------------------------------
(***************************************************************************)
(* Instances of EchoLoops for TLC.                                         *)
(***************************************************************************)
EXTENDS EchoLoops

\* One client sends as much as a read takes and more than the socket holds, one a byte,
\* and one says nothing, but may take a slot, or be refused.
McConns == {"c1", "c2", "c3"}
McTotal == [c \in McConns |-> CASE c = "c1" -> 2 [] c = "c2" -> 1 [] c = "c3" -> 0]

\* The first may end in every way, the others in one each.
McPeerEnds ==
    [c \in McConns |-> CASE c = "c1" -> {"fin", "reset", "abort"}
                         [] c = "c2" -> {"fin"}
                         [] c = "c3" -> {"reset"}]
=============================================================================
