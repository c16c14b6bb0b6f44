-------------------------------- MODULE MphfMap --------------------------------
(***************************************************************************)
(* The perfect-hash map a witness's accounts, codes and nodes are looked   *)
(* up in: MphfBuilder (add, chd_solve, finalize) on the host, MphfMap::    *)
(* find in the guest. Keys are shortened to eight bytes (Key8) and may     *)
(* collide there. chd_solve sorts the short keys into buckets and looks    *)
(* for a displacement that gives all keys of a bucket free slots; a bucket *)
(* without one is spilled into the sidecar, and the best of the seeds is   *)
(* kept. find looks at one slot, and at the sidecar only if it is empty.   *)
(*                                                                         *)
(* The mixer is external: a short key goes to any bucket and, under each   *)
(* displacement, to any slot, chosen when it is first computed. The map's  *)
(* bytes are left out; an entry is what its body holds, a key and a value. *)
(* The encoder is the C++ one or its port in Rust.                         *)
(***************************************************************************)
EXTENDS Integers, FiniteSets, Sequences, SequencesExt, FiniteSetsExt

CONSTANTS
  Keys,              \* keys as the callers have them
  Key8,              \* the short form of each, a number
  Encoders,          \* a subset of {"cpp", "rust"}
  kLambda,
  kMaxDisplacement,
  kMaxSeedRetries,
  MaxAdds            \* bound: entries of one map

ConstantsAssumption ==
  /\ Key8 \in [Keys -> Nat]
  /\ Encoders \subseteq {"cpp", "rust"}
  /\ kLambda \in Nat \ {0} /\ kMaxSeedRetries \in Nat \ {0}
  /\ kMaxDisplacement \in Nat /\ MaxAdds \in Nat

VARIABLES
  encoder,
  pc,            \* adding, seed, bucket, built
  added,         \* history: how many entries of each key were handed to add
  unique,        \* unique_kv_entries_: the entry of a short key, NoBody once it is in the sidecar
  collisions,    \* collision_keys_ and collision_bodies_
  seed_try,
  order,         \* the buckets of this try not placed yet, largest first
  d,             \* the displacement tried next for the first of them
  slot_owner, idx_for_key, spilled_this_try,
  best,          \* the attempt with the fewest spilled keys
  slots,         \* slot_offsets with what they point to
  sidecar

vars == <<encoder, pc, added, unique, collisions, seed_try, order, d, slot_owner, idx_for_key, spilled_this_try,
          best, slots, sidecar>>

builder == <<encoder, added, unique, collisions>>
try == <<seed_try, order, d, slot_owner, idx_for_key, spilled_this_try>>

NoBody == [key |-> "none", value |-> 0]
kNoKey == -1
NoAttempt == [set |-> FALSE, idx_for_key |-> <<>>, spilled_keys |-> {}]

distinct_keys == DOMAIN unique
n_keys == Cardinality(distinct_keys)
Slot == 0..(n_keys - 1)
n_buckets == Max({1, (n_keys + kLambda - 1) \div kLambda})

Init ==
  /\ encoder \in Encoders
  /\ pc = "adding"
  /\ added = [k \in Keys |-> 0]
  /\ unique = <<>> /\ collisions = <<>>
  /\ seed_try = 0 /\ order = <<>> /\ d = 0
  /\ slot_owner = <<>> /\ idx_for_key = <<>> /\ spilled_this_try = {}
  /\ best = NoAttempt
  /\ slots = <<>> /\ sidecar = <<>>

\* The second entry of a short key sends the first to the sidecar too.
add(e) ==
  LET k == Key8[e.key] IN
    IF k \notin distinct_keys
    THEN unique' = unique @@ (k :> e) /\ UNCHANGED collisions
    ELSE /\ unique' = [unique EXCEPT ![k] = NoBody]
         /\ collisions' = collisions \o (IF unique[k] = NoBody THEN <<>> ELSE <<unique[k]>>) \o <<e>>

Add(k) ==
  /\ pc = "adding" /\ SumFunction(added) < MaxAdds
  /\ added' = [added EXCEPT ![k] = @ + 1]
  /\ add([key |-> k, value |-> added'[k]])
  /\ UNCHANGED <<encoder, pc, try, best, slots, sidecar>>

-----------------------------------------------------------------------------
\* finalize, with chd_solve.

\* Buckets are tried in descending order of size, those of a size in order.
\* The empty ones are passed over.
by_size(bucket_of) ==
  LET members(b) == {k \in distinct_keys : bucket_of[k] = b} IN
    FlattenSeq([i \in 1..n_keys |->
      SelectSeq([b \in 1..n_buckets |-> members(b)], LAMBDA m : Cardinality(m) = n_keys + 1 - i)])

StartSeed(seed, bucket_of) ==
  /\ seed_try' = seed
  /\ order' = by_size(bucket_of)
  /\ d' = 0
  /\ slot_owner' = [p \in Slot |-> kNoKey]
  /\ idx_for_key' = <<>>
  /\ spilled_this_try' = {}

Finalize(bucket_of) ==
  /\ pc = "adding" /\ n_keys > 0
  /\ pc' = "bucket"
  /\ StartSeed(0, bucket_of)
  /\ UNCHANGED <<builder, best, slots, sidecar>>

fits(pos) ==
  /\ \A k \in DOMAIN pos : slot_owner[pos[k]] = kNoKey
  /\ \A j, k \in DOMAIN pos : pos[j] = pos[k] => j = k

Place(pos) ==
  /\ pc = "bucket" /\ order # <<>> /\ d <= kMaxDisplacement
  /\ fits(pos)
  /\ slot_owner' = [p \in Slot |-> IF p \in {pos[k] : k \in DOMAIN pos}
                                   THEN CHOOSE k \in DOMAIN pos : pos[k] = p ELSE slot_owner[p]]
  /\ idx_for_key' = idx_for_key @@ pos
  /\ order' = Tail(order) /\ d' = 0
  /\ UNCHANGED <<builder, pc, seed_try, spilled_this_try, best, slots, sidecar>>

NextDisplacement(pos) ==
  /\ pc = "bucket" /\ order # <<>> /\ d <= kMaxDisplacement
  /\ ~fits(pos)
  /\ d' = d + 1
  /\ UNCHANGED <<builder, pc, seed_try, order, slot_owner, idx_for_key, spilled_this_try, best, slots, sidecar>>

\* No displacement fits. The keys are spilled; pos is where find will look
\* for them, under displacement zero.
Spill(pos) ==
  /\ pc = "bucket" /\ order # <<>> /\ d > kMaxDisplacement
  /\ idx_for_key' = idx_for_key @@ pos
  /\ spilled_this_try' = spilled_this_try \cup DOMAIN pos
  /\ order' = Tail(order) /\ d' = 0
  /\ UNCHANGED <<builder, pc, seed_try, slot_owner, best, slots, sidecar>>

co_spilled_M1(spilled) == spilled

\* A slot where find looks for a spilled key must be empty: its owner is
\* spilled as well.
co_spilled(spilled) == spilled \cup ({slot_owner[idx_for_key[k]] : k \in spilled} \ {kNoKey})

\* The Rust encoder takes the spilled keys as they are.
spilled_keys == IF encoder = "cpp" THEN co_spilled(spilled_this_try) ELSE spilled_this_try

attempt == [set |-> TRUE, idx_for_key |-> idx_for_key, spilled_keys |-> spilled_keys]

better == ~best.set \/ Cardinality(spilled_keys) < Cardinality(best.spilled_keys)

RetrySeed(bucket_of) ==
  /\ pc = "bucket" /\ order = <<>>
  /\ spilled_keys # {} /\ seed_try + 1 < kMaxSeedRetries
  /\ best' = IF better THEN attempt ELSE best
  /\ StartSeed(seed_try + 1, bucket_of)
  /\ UNCHANGED <<builder, pc, slots, sidecar>>

stable_sort(entries) ==
  FlattenSeq([i \in 1..n_keys |->
    LET k == SetToSortSeq(distinct_keys, <)[i] IN SelectSeq(entries, LAMBDA e : Key8[e.key] = k)])

\* The bodies of the spilled keys join the sidecar, if they are not there
\* already; every other body gets its slot.
layout(solution) ==
  LET moved == {k \in solution.spilled_keys : unique[k] # NoBody}
      kept == {k \in distinct_keys \ moved : unique[k] # NoBody}
      bodies == SetToSortSeq(moved, <) IN
    /\ sidecar' = stable_sort(collisions \o [i \in 1..Len(bodies) |-> unique[bodies[i]]])
    /\ slots' = [p \in Slot |->
         IF \E k \in kept : solution.idx_for_key[k] = p
         THEN unique[Max({k \in kept : solution.idx_for_key[k] = p})] ELSE NoBody]

Solved ==
  /\ pc = "bucket" /\ order = <<>>
  /\ \/ spilled_keys = {}
     \/ seed_try + 1 = kMaxSeedRetries
  /\ LET solution == IF spilled_keys = {} \/ better THEN attempt ELSE best IN
       layout(solution) /\ best' = solution
  /\ pc' = "built"
  /\ seed_try' = 0 /\ order' = <<>> /\ d' = 0
  /\ slot_owner' = <<>> /\ idx_for_key' = <<>> /\ spilled_this_try' = {}
  /\ UNCHANGED builder

BucketOf == [distinct_keys -> 1..n_buckets]
Positions == [Head(order) -> Slot]

Next ==
  \/ \E k \in Keys : Add(k)
  \/ \E b \in BucketOf : Finalize(b)
  \/ pc = "bucket" /\ order # <<>> /\ \E pos \in Positions : Place(pos) \/ NextDisplacement(pos) \/ Spill(pos)
  \/ pc = "bucket" /\ order = <<>> /\ \E b \in BucketOf : RetrySeed(b)
  \/ Solved

Spec == Init /\ [][Next]_vars

-----------------------------------------------------------------------------
\* find, in a map that is built.

\* The slot of a key the map was built from is the one its short key was
\* given; that of any other is anything.
index_lookup(k8) == IF k8 \in distinct_keys THEN {best.idx_for_key[k8]} ELSE Slot

lower_bound(k8) == CHOOSE i \in 1..(Len(sidecar) + 1) :
  /\ \A j \in 1..(i - 1) : Key8[sidecar[j].key] < k8
  /\ i <= Len(sidecar) => Key8[sidecar[i].key] >= k8

resolve_collision(key) ==
  LET k8 == Key8[key]
      run == SelectSeq(SubSeq(sidecar, lower_bound(k8), Len(sidecar)),
                       LAMBDA e : Key8[e.key] = k8 /\ e.key = key) IN
    IF run = <<>> THEN NoBody ELSE run[1]

find(key, idx) ==
  IF slots[idx] = NoBody THEN resolve_collision(key)
  ELSE IF slots[idx].key = key THEN slots[idx] ELSE NoBody

-----------------------------------------------------------------------------
\* The entry a map with these additions has for a key: the first one.
First(key) == IF added[key] = 0 THEN NoBody ELSE [key |-> key, value |-> 1]

\* find returns the entry of every key that was added, and nothing for any
\* other, however the keys collide, short or in their slots, and whichever
\* buckets had to be spilled.
EveryKeyFound ==
  pc = "built" => \A key \in Keys : \A idx \in index_lookup(Key8[key]) : find(key, idx) = First(key)

\* The comment's sidecar invariant: the slot of every key whose body lives
\* in the sidecar is zero.
SidecarInvariant ==
  pc = "built" => \A i \in 1..Len(sidecar) : slots[best.idx_for_key[Key8[sidecar[i].key]]] = NoBody
=============================================================================
