------------------------------ MODULE MCHashMap ------------------------------
(***************************************************************************)
(* Instances of HashMap for TLC.                                           *)
(***************************************************************************)
EXTENDS HashMap

\* In two buckets all keys but "c" collide, in four "a" and 4, in eight none.
McStrKeys == {"a", "c"}
McIntKeys == {0, 2, 4}
McHashStr == [k \in McStrKeys |-> IF k = "a" THEN 0 ELSE 3]
McHashInt == [k \in McIntKeys |-> k]
=============================================================================
