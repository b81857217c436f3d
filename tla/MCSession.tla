------------------------------ MODULE MCSession ------------------------------
(***************************************************************************)
(* Instances of Session for TLC.                                           *)
(***************************************************************************)
EXTENDS Session

\* A head of two bytes, bodies of at most two: a message without a body between two
\* with one; the longest body; and one that is too long behind one that is not.
McStreams == {<<0, 3, 5, 8>>, <<0, 4, 7>>, <<0, 3, 8>>}
=============================================================================
