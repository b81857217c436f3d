------------------------------ MODULE MCFdReuse ------------------------------
(***************************************************************************)
(* Instances of FdReuse for TLC.                                           *)
(***************************************************************************)
EXTENDS FdReuse, TLC

\* No action tells one connection, or one number, from another.
McSymmetry == Permutations(Conns) \cup Permutations(Fds)
=============================================================================
