------------------------------- MODULE KeyedMap -------------------------------
(***************************************************************************)
(* What the hash map of chapter 22 promises: a map from keys to values,    *)
(* with put, get and remove, where only a put of a new key may fail, and   *)
(* then changes nothing.                                                   *)
(***************************************************************************)
EXTENDS Integers

CONSTANTS
    Keys, Values,
    NULL        \* no value

VARIABLES
    contents,   \* a function from the keys in the map to their values
    ret         \* the last call and what it returned

vars == <<contents, ret>>

Init ==
    /\ contents = <<>>
    /\ ret = [op |-> "create"]

Put(k, v) ==
    /\ contents' = [l \in DOMAIN contents \cup {k} |-> IF l = k THEN v ELSE contents[l]]
    /\ ret' = [op |-> "put", key |-> k, result |-> 0]

PutFails(k) ==
    /\ k \notin DOMAIN contents
    /\ ret' = [op |-> "put", key |-> k, result |-> -1]
    /\ UNCHANGED contents

Get(k) ==
    /\ ret' = [op |-> "get", key |-> k,
               result |-> IF k \in DOMAIN contents THEN contents[k] ELSE NULL]
    /\ UNCHANGED contents

Remove(k) ==
    /\ contents' = [l \in DOMAIN contents \ {k} |-> contents[l]]
    /\ ret' = [op |-> "remove", key |-> k,
               result |-> IF k \in DOMAIN contents THEN 0 ELSE -1]

Next ==
    \E k \in Keys :
        \/ \E v \in Values : Put(k, v)
        \/ PutFails(k)
        \/ Get(k)
        \/ Remove(k)

Spec == Init /\ [][Next]_vars
=============================================================================
