----------------------------- MODULE MCHashState -----------------------------
(***************************************************************************)
(* The parts of the state built from a witness's trie nodes that share no  *)
(* variable, checked in one run: HashState's reads and root check, the     *)
(* sweep of one trie they stand on, the index its records are found by,    *)
(* and the ancestor walks of BLOCKHASH. A behaviour is one of one part,    *)
(* chosen at its start, while the other parts stay as they begin.          *)
(***************************************************************************)
EXTENDS HashState

VARIABLES
  part,
  \* WitnessTrie
  keys, node, pruned, bad, path, stack, cache, malformed_witness_, pc,
  \* BlockHashWalk
  held, strict, direct, hashed, missing, answer,
  \* HashIndex
  mixed, capacity, buckets, size_, content, found

\* A contract that has stored something, at one key, and an account without code.
StoredKey == CHOOSE k \in Key : TRUE
Contract == [nonce |-> 1, balance |-> 0, code |-> "deployed",
             root |-> [k \in Key |-> IF k = StoredKey THEN 1 ELSE 0]]
Plain == [nonce |-> 0, balance |-> 1, code |-> "none", root |-> EmptyRoot]

MCPreStates == [Addr -> {Contract, Plain, NoLeaf}]

Trie == INSTANCE WitnessTrie
  WITH Nibbles <- {0, 1}, KeyLength <- 3, MaxKeys <- 2, MaxFaults <- 1

\* A chain of four headers below the block being run, with a fork of the
\* last two: two blocks of number 5 with different parents are asked from,
\* and so is a block of the chain itself.
Header(name, number, parent) == [name |-> name, number |-> number, parent |-> parent]

Headers ==
  {Header("a1", 1, "a0"), Header("a2", 2, "a1"), Header("a3", 3, "a2"),
   Header("a4", 4, "a3"), Header("b3", 3, "a2"), Header("b4", 4, "b3")}

Walk == INSTANCE BlockHashWalk
  WITH Asked <- {Header("a5", 5, "a4"), Header("b5", 5, "b4"), Header("a4", 4, "a3")},
       Depth <- 3, None <- "none"

\* A table that grows twice. The keys' names do not matter, so their mixed
\* values are taken in one order only.
IndexKeys == {"a", "b", "c"}
MCMixes == {m \in [IndexKeys -> 0..7] : m["a"] <= m["b"] /\ m["b"] <= m["c"]}
Index == INSTANCE HashIndex
  WITH Keys <- IndexKeys, Values <- {1, 2}, kEmpty <- 0, kMinCapacity <- 2, Expected <- {0, 2},
       MaxCapacity <- 8, Mixes <- MCMixes,
       answer <- found

ASSUME ConstantsAssumption /\ Trie!ConstantsAssumption
ASSUME Walk!ConstantsAssumption /\ Index!ConstantsAssumption

trie == <<keys, node, pruned, bad, path, stack, cache, malformed_witness_, pc>>
walk == <<held, strict, direct, hashed, missing, answer>>
index == <<mixed, capacity, buckets, size_, content, found>>

all_vars == <<part, vars, trie, walk, index>>

\* What a part that stays as it begins begins as.
HashIdle ==
  /\ pre = [a \in Addr |-> NoLeaf] /\ known = {} /\ codes = {}
  /\ known_slots = [a \in Addr |-> {}]
TrieIdle == keys = {<<0, 0, 0>>} /\ pruned = {} /\ bad = {}
IndexIdle == mixed = [k \in IndexKeys |-> 0] /\ capacity = 2

SumInit ==
  /\ part \in {"hash", "trie", "walk", "index"}
  /\ Init /\ (part # "hash" => HashIdle)
  /\ IF part = "trie" THEN Trie!Init ELSE Trie!Init /\ TrieIdle
  /\ Walk!Init /\ (part # "walk" => ~strict)
  /\ IF part = "index" THEN Index!Init ELSE IndexIdle /\ Index!Init

HashNext == part = "hash" /\ Next /\ UNCHANGED <<part, trie, walk, index>>
TrieNext == part = "trie" /\ Trie!Next /\ UNCHANGED <<part, vars, walk, index>>
WalkNext == part = "walk" /\ Walk!Next /\ UNCHANGED <<part, vars, trie, index>>
IndexNext == part = "index" /\ Index!Next /\ UNCHANGED <<part, vars, trie, walk>>

SumNext == HashNext \/ TrieNext \/ WalkNext \/ IndexNext

SumSpec == SumInit /\ [][SumNext]_all_vars

-----------------------------------------------------------------------------
\* The other parts' properties, stated where the parts are modelled.

\* The sweep caches exactly the keys the witness's nodes lead to.
SweepExact == Trie!SweepExact
\* A key proved absent is absent.
ConfirmedIsAbsent == Trie!ConfirmedIsAbsent

\* DirectState's BLOCKHASH is the walk from scratch.
DirectAnswersAsWalk == Walk!DirectAnswersAsWalk
\* HashState's is, when it answers.
HashAnswersBound == Walk!HashAnswersBound

\* The index answers as the map it stands for.
IndexIsMap == Index!IndexIsMap
=============================================================================
