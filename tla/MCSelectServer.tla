---------------------------- MODULE MCSelectServer ----------------------------
(***************************************************************************)
(* Instances of SelectServer for TLC.                                      *)
(***************************************************************************)
EXTENDS SelectServer

\* One client fills a node and more than the socket, one makes a node of a byte, and one
\* says nothing, but may take a slot, or be refused.
McConns == {"c1", "c2", "c3"}
McTotal == [c \in McConns |-> IF c = "c1" THEN 2 ELSE IF c = "c2" THEN 1 ELSE 0]

\* The first may end in every way, the others in one each.
McPeerEnds ==
    [c \in McConns |-> CASE c = "c1" -> {"fin", "reset", "abort"}
                         [] c = "c2" -> {"fin"}
                         [] c = "c3" -> {"reset"}]
=============================================================================
