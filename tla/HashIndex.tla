------------------------------- MODULE HashIndex -------------------------------
(***************************************************************************)
(* HashState's index of its arenas: an open-addressed table with linear    *)
(* probing that keeps itself at most half full. insert overwrites,         *)
(* try_insert keeps what is there, reserve resizes an empty table, clear   *)
(* empties it, and nothing is ever removed. find stops at the first empty  *)
(* bucket, so that every operation has to leave each key without a gap     *)
(* between its home bucket and its own.                                    *)
(*                                                                         *)
(* The mixer is external: a key's mixed value is anything (`mixed`).       *)
(* index_of masks it with the capacity, a power of two.                    *)
(***************************************************************************)
EXTENDS Integers, FiniteSets, FiniteSetsExt

CONSTANTS
  Keys, Values,
  kEmpty,          \* the value of an empty bucket
  kMinCapacity,
  Expected,        \* arguments of reserve and the constructor
  MaxCapacity,     \* bound: of the table
  Mixes            \* the mixed values the keys may have

ConstantsAssumption ==
  /\ kEmpty \notin Values
  /\ kMinCapacity \in Nat \ {0, 1} /\ MaxCapacity \in Nat
  /\ Expected \subseteq Nat
  /\ Mixes \subseteq [Keys -> Nat]

VARIABLES mixed, capacity, buckets, size_, content, answer

vars == <<mixed, capacity, buckets, size_, content, answer>>

Empty == [key |-> kEmpty, value |-> kEmpty]
NoAnswer == "none"

\* The power of two at or above twice the count, and kMinCapacity at least.
capacity_for(entries) ==
  Min({c \in {2 ^ e : e \in 0..10} : c >= Max({kMinCapacity, 2 * entries})})

empty_table(c) == [i \in 0..(c - 1) |-> Empty]

\* content is the map the table stands for, answer what the last insertion
\* returned.
Init ==
  /\ mixed \in Mixes
  /\ \E n \in Expected : capacity = capacity_for(n)
  /\ buckets = empty_table(capacity)
  /\ size_ = 0
  /\ content = [k \in Keys |-> kEmpty]
  /\ answer = NoAnswer

index_of(k, c) == mixed[k] % c

\* The buckets a key is looked for in, the home bucket first.
probe(k, c, n) == (index_of(k, c) + n) % c

\* The first bucket on a key's way that is empty or its own; c if there is none.
stop(table, k, c) ==
  LET stops == {n \in 0..(c - 1) : table[probe(k, c, n)].value = kEmpty \/ table[probe(k, c, n)].key = k} IN
    IF stops = {} THEN c ELSE probe(k, c, Min(stops))

place(table, k, v, c) == [table EXCEPT ![stop(table, k, c)] = [key |-> k, value |-> v]]

rehash_M1(table, c) ==
  [i \in 0..(2 * c - 1) |-> IF i < c THEN table[i] ELSE Empty]

\* grow_: the occupied buckets are placed anew in the order they lie in.
rehash(table, c) ==
  LET rehashed[i \in 0..c] ==
        IF i = 0 THEN empty_table(2 * c)
        ELSE LET b == table[i - 1] IN
          IF b.value = kEmpty THEN rehashed[i - 1] ELSE place(rehashed[i - 1], b.key, b.value, 2 * c)
  IN rehashed[c]

full == (size_ + 1) * 2 > capacity

\* The table an insertion starts on, grown if one more entry makes it more
\* than half full, whether the key is new or not.
table_for_one_more == IF full THEN rehash(buckets, capacity) ELSE buckets
capacity_for_one_more == IF full THEN 2 * capacity ELSE capacity

\* An insertion that ends at bucket i of table t, which the key k probes to.
PutAt(k, v, overwrites, t, i) ==
  /\ answer' = IF i = capacity' THEN "full" ELSE IF t[i].value = kEmpty THEN "inserted" ELSE "existed"
  /\ size_' = IF answer' = "inserted" THEN size_ + 1 ELSE size_
  /\ IF answer' = "inserted" \/ (answer' = "existed" /\ overwrites)
     THEN /\ buckets' = [t EXCEPT ![i] = [key |-> k, value |-> v]]
          /\ content' = [content EXCEPT ![k] = v]
     ELSE buckets' = t /\ UNCHANGED content

Put(k, v, overwrites) ==
  /\ capacity_for_one_more <= MaxCapacity
  /\ capacity' = capacity_for_one_more
  /\ \E t \in {table_for_one_more} :
       \E i \in {stop(t, k, capacity')} : PutAt(k, v, overwrites, t, i)
  /\ UNCHANGED mixed

Insert(k, v) == Put(k, v, TRUE)
TryInsert(k, v) == Put(k, v, FALSE)

Reserve(n) ==
  /\ size_ = 0 /\ capacity_for(n) > capacity
  /\ capacity' = capacity_for(n)
  /\ buckets' = empty_table(capacity')
  /\ answer' = NoAnswer
  /\ UNCHANGED <<mixed, size_, content>>

Clear ==
  /\ size_ # 0
  /\ buckets' = empty_table(capacity)
  /\ size_' = 0
  /\ content' = [k \in Keys |-> kEmpty]
  /\ answer' = NoAnswer
  /\ UNCHANGED <<mixed, capacity>>

Next ==
  \/ \E k \in Keys, v \in Values : Insert(k, v) \/ TryInsert(k, v)
  \/ \E n \in Expected : Reserve(n)
  \/ Clear

Spec == Init /\ [][Next]_vars

find(k) ==
  LET i == stop(buckets, k, capacity) IN
    IF i = capacity THEN kEmpty ELSE buckets[i].value

-----------------------------------------------------------------------------
\* The table is the map: every key put in is found with its value, no other
\* is, after any growth and however probe sequences run into each other and
\* around the end. A key has one bucket, and the table is never full.
IndexIsMap ==
  /\ \A k \in Keys : find(k) = content[k]
  /\ size_ = Cardinality({k \in Keys : content[k] # kEmpty})
  /\ answer # "full"
=============================================================================
