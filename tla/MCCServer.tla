------------------------------ MODULE MCCServer ------------------------------
(***************************************************************************)
(* Instances of CServer for TLC.                                           *)
(***************************************************************************)
EXTENDS CServer

\* A head of two bytes: messages with the shortest and the longest body; one without a
\* body, and one that is too long, behind one that is answered.
McStreams == {<<0, 3, 6, 10>>, <<0, 4, 6>>, <<0, 3, 8>>}
=============================================================================
