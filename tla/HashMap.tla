------------------------------- MODULE HashMap -------------------------------
(***************************************************************************)
(* The chained hash map of the C echo server (22_.../server/src:           *)
(* hash_map.c), whose keys are strings or integers.  It is used by one     *)
(* thread: a call is an action, but for a put that has not found its key,  *)
(* which goes on entry by entry.  malloc, calloc and strdup may fail.      *)
(***************************************************************************)
EXTENDS Integers, Sequences, FiniteSets, SequencesExt

CONSTANTS
    StrKeys, IntKeys,   \* the keys used, of either kind
    Values,
    NULL,               \* the key of an entry with an integer key; no value
    HashStr, HashInt,   \* hash_djb2 and hash_int
    Buckets,            \* the bucket_count of hashmap_create
    MaxBuckets          \* an array of more buckets cannot be allocated

ASSUME KeysAssumption ==
    /\ IntKeys \subseteq Int
    /\ NULL \notin StrKeys
    /\ HashStr \in [StrKeys -> Nat] /\ HashInt \in [IntKeys -> Nat]
    /\ Buckets \in Nat \ {0} /\ MaxBuckets \in Nat

VARIABLES
    buckets,       \* the chains, each from its head; of a bucket that hashmap_resize has
                   \* come to, the entries that it has still to move
    bucket_count,
    size,
    stage,         \* "idle" between calls; in a put "resize" and "insert"; "freed" by
                   \* hashmap_destroy; "crashed" in strcmp
    arg,           \* what is being put, NULL outside of a put
    new_buckets,   \* hashmap_resize's array, <<>> outside of it
    ret            \* the last call and what it returned

hashMapVars == <<buckets, bucket_count, size, stage, arg, new_buckets, ret>>

Empty(n) == [b \in 0 .. n - 1 |-> <<>>]

HashMapInit ==
    /\ buckets = Empty(Buckets)
    /\ bucket_count = Buckets
    /\ size = 0
    /\ stage = "idle" /\ arg = NULL /\ new_buckets = <<>>
    /\ ret = [op |-> "create"]

-----------------------------------------------------------------------------
(* Keys and entries.  The int_key of an entry with a string key means      *)
(* nothing, but is there.                                                  *)

StrKey(k) == [kind |-> "str", key |-> k]
IntKey(k) == [kind |-> "int", key |-> k]
Keys == {StrKey(k) : k \in StrKeys} \cup {IntKey(k) : k \in IntKeys}

NewEntry(k, v) ==
    [key     |-> IF k.kind = "str" THEN k.key ELSE NULL,
     int_key |-> IF k.kind = "str" THEN 0 ELSE k.key,
     value   |-> v]

KeyOf(e) == IF e.key # NULL THEN StrKey(e.key) ELSE IntKey(e.int_key)

Hash(k) == IF k.kind = "str" THEN HashStr[k.key] ELSE HashInt[k.key]

\* The test of the loops for one key.
Matches(e, k) ==
    IF k.kind = "str" THEN e.key = k.key ELSE e.key = NULL /\ e.int_key = k.key

Idx(k)   == Hash(k) % bucket_count
Chain(k) == buckets[Idx(k)]
\* Where the loops stop: the first entry with the key, 0 if there is none.
Pos(k)   == SelectInSeq(Chain(k), LAMBDA e : Matches(e, k))

-----------------------------------------------------------------------------
(* Putting.                                                                *)

Return(op, k, result) == ret' = [op |-> op, key |-> k, result |-> result]

\* hashmap_put compares with strcmp whatever key an entry has: NULL crashes it.
PutCrashes(k) ==
    /\ k.kind = "str"
    /\ \E n \in DOMAIN Chain(k) :
          /\ Chain(k)[n].key = NULL
          /\ \A m \in 1 .. n - 1 : Chain(k)[m].key # k.key
    /\ stage' = "crashed"
    /\ UNCHANGED <<buckets, bucket_count, size, arg, new_buckets, ret>>

WalkIsSafe(k) ==
    k.kind = "str" => \A n \in DOMAIN Chain(k) :
                          Chain(k)[n].key # NULL \/ (Pos(k) # 0 /\ Pos(k) < n)

PutOverwrites(k, v) ==
    /\ WalkIsSafe(k)
    /\ Pos(k) # 0
    /\ buckets' = [buckets EXCEPT ![Idx(k)][Pos(k)].value = v]
    /\ Return("put", k, 0)
    /\ UNCHANGED <<bucket_count, size, stage, arg, new_buckets>>

\* hashmap_maybe_resize: the load factor with one more entry exceeds 0.75.
NeedsResize == 4 * (size + 1) > 3 * bucket_count

\* hashmap_put calls hashmap_resize, hashmap_put_int hashmap_maybe_resize.
Resizes(k) == k.kind = "str" \/ NeedsResize

\* The key is not there; hashmap_resize begins, if it is called.
PutWalks(k, v) ==
    /\ WalkIsSafe(k)
    /\ Pos(k) = 0
    /\ arg' = [key |-> k, value |-> v]
    /\ IF Resizes(k)
       THEN /\ 2 * bucket_count <= MaxBuckets
            /\ stage' = "resize" /\ new_buckets' = Empty(2 * bucket_count)
       ELSE stage' = "insert" /\ UNCHANGED new_buckets
    /\ UNCHANGED <<buckets, bucket_count, size, ret>>

\* No memory for more buckets.
ResizeFails(k) ==
    /\ WalkIsSafe(k)
    /\ Pos(k) = 0
    /\ Resizes(k)
    /\ Return("put", k, -1)
    /\ UNCHANGED <<buckets, bucket_count, size, stage, arg, new_buckets>>

\* Where hashmap_resize is: the first bucket with entries to be moved.
At(b) ==
    /\ b \in DOMAIN buckets /\ buckets[b] # <<>>
    /\ \A c \in 0 .. b - 1 : buckets[c] = <<>>

NewIdx(e) == Hash(KeyOf(e)) % (2 * bucket_count)

\* Mutant: next is read from the entry when it is linked to its new chain.
MoveEntryNextLate(b) ==
    /\ At(b)
    /\ LET e == Head(buckets[b]) IN
       /\ new_buckets' = [new_buckets EXCEPT ![NewIdx(e)] = <<e>> \o @]
       /\ buckets' = [buckets EXCEPT ![b] = <<>>]
    /\ UNCHANGED <<bucket_count, size, stage, arg, ret>>

\* One round of its loop: the first entry becomes the head of its new chain.
MoveEntry(b) ==
    /\ At(b)
    /\ LET e == Head(buckets[b]) IN
       /\ new_buckets' = [new_buckets EXCEPT ![NewIdx(e)] = <<e>> \o @]
       /\ buckets' = [buckets EXCEPT ![b] = Tail(@)]
    /\ UNCHANGED <<bucket_count, size, stage, arg, ret>>

\* Mutant: bucket_count is not updated.
ResizeKeepsCount ==
    /\ \A b \in DOMAIN buckets : buckets[b] = <<>>
    /\ buckets' = new_buckets /\ new_buckets' = <<>>
    /\ stage' = "insert"
    /\ UNCHANGED <<bucket_count, size, arg, ret>>

ResizeEnds ==
    /\ \A b \in DOMAIN buckets : buckets[b] = <<>>
    /\ buckets' = new_buckets /\ new_buckets' = <<>>
    /\ bucket_count' = 2 * bucket_count
    /\ stage' = "insert"
    /\ UNCHANGED <<size, arg, ret>>

PutInserts ==
    /\ buckets' = [buckets EXCEPT ![Idx(arg.key)] = <<NewEntry(arg.key, arg.value)>> \o @]
    /\ size' = size + 1
    /\ Return("put", arg.key, 0)
    /\ stage' = "idle" /\ arg' = NULL
    /\ UNCHANGED <<bucket_count, new_buckets>>

\* No memory for the entry or the copy of its key; there are more buckets all the same.
PutFails ==
    /\ Return("put", arg.key, -1)
    /\ stage' = "idle" /\ arg' = NULL
    /\ UNCHANGED <<buckets, bucket_count, size, new_buckets>>

-----------------------------------------------------------------------------
(* The other operations.                                                   *)

hashmap_get(k) ==
    /\ Return("get", k, IF Pos(k) = 0 THEN NULL ELSE Chain(k)[Pos(k)].value)
    /\ UNCHANGED <<buckets, bucket_count, size, stage, arg, new_buckets>>

hashmap_remove(k) ==
    /\ IF Pos(k) = 0
       THEN Return("remove", k, -1) /\ UNCHANGED <<buckets, size>>
       ELSE /\ buckets' = [buckets EXCEPT ![Idx(k)] = RemoveAt(@, Pos(k))]
            /\ size' = size - 1
            /\ Return("remove", k, 0)
    /\ UNCHANGED <<bucket_count, stage, arg, new_buckets>>

\* Every entry is freed, and the map.
hashmap_destroy ==
    /\ stage' = "freed"
    /\ UNCHANGED <<buckets, bucket_count, size, arg, new_buckets, ret>>

HashMapNext ==
    \/ /\ stage = "idle"
       /\ \/ \E k \in Keys :
                \/ PutCrashes(k) \/ ResizeFails(k) \/ hashmap_get(k) \/ hashmap_remove(k)
                \/ \E v \in Values : PutOverwrites(k, v) \/ PutWalks(k, v)
          \/ hashmap_destroy
    \/ stage = "resize" /\ (ResizeEnds \/ \E b \in DOMAIN buckets : MoveEntry(b))
    \/ stage = "insert" /\ (PutInserts \/ PutFails)

HashMapSpec == HashMapInit /\ [][HashMapNext]_hashMapVars

-----------------------------------------------------------------------------
(* Properties.                                                             *)

Entry == {NewEntry(k, v) : k \in Keys, v \in Values}

\* The places of the entries: a chain and a position in it.
Places(bs) == UNION {{b} \X DOMAIN bs[b] : b \in DOMAIN bs}

\* size is the number of entries, counted along the chains of both arrays: neither a round
\* of hashmap_resize nor a removal from the middle of a chain loses or doubles one.  An
\* insertion never leaves the load factor above 0.75.
HashMapTypeOK ==
    /\ bucket_count \in Nat \ {0}
    /\ buckets \in [0 .. bucket_count - 1 -> Seq(Entry)]
    /\ stage \in {"idle", "resize", "insert", "freed", "crashed"}
    /\ stage = "resize" => new_buckets \in [0 .. 2 * bucket_count - 1 -> Seq(Entry)]
    /\ stage # "resize" => new_buckets = <<>>
    /\ IF stage \in {"resize", "insert"} THEN arg \in [key : Keys, value : Values] ELSE arg = NULL
    /\ size = Cardinality(Places(buckets)) + Cardinality(Places(new_buckets))
    /\ 4 * size <= 3 * bucket_count

EntriesOf(bs) == UNION {ToSet(bs[b]) : b \in DOMAIN bs}
Entries == EntriesOf(buckets) \cup EntriesOf(new_buckets)

\* Looking for a key in its chain finds what was put under it last: over collisions, the
\* doubling of the buckets and removals the table is a map.
Map == INSTANCE KeyedMap WITH
    contents <- [k \in {KeyOf(e) : e \in Entries} |->
                    (CHOOSE e \in Entries : KeyOf(e) = k).value]

MapSpec == Map!Spec

\* An entry carries a string or an integer key: whatever keys a map has, hashmap_put works.
MixedKeysWork == stage # "crashed"
=============================================================================
