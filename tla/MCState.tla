------------------------------- MODULE MCState -------------------------------
(***************************************************************************)
(* DirectState, the grid's walk and the hash builder, in one run:          *)
(* DirectState takes a walk by its contract, so they share no state.       *)
(* `part` says which of them a behaviour runs, and the others stay as they *)
(* start.                                                                  *)
(***************************************************************************)
EXTENDS DirectState, Sequences

CONSTANTS
  \* GridMPT
  Nibbles, KeyLength, Keys, PreValues, Written, Embedded, kMaxLines, MaxKeys, MaxUpdates, MaxSize,
  \* HashBuilder
  Slots, Lengths, Feeds, Short

VARIABLES
  part,
  \* GridMPT
  checks, trie, pruned, applied, grid, pc, root,
  \* HashBuilder
  list, feed, added, hb, result

grid_vars == <<checks, trie, pruned, applied, grid, pc, root>>
builder_vars == <<list, feed, added, hb, result>>
all_vars == <<part, vars, grid_vars, builder_vars>>

-----------------------------------------------------------------------------
\* A contract that has stored something, at one key, and an account without code.
StoredKey == CHOOSE k \in Key : TRUE
Contract == [nonce |-> 1, balance |-> 0, code |-> "deployed",
             root |-> [k \in Key |-> IF k = StoredKey THEN 1 ELSE 0]]
Plain == [nonce |-> 0, balance |-> 1, code |-> "none", root |-> EmptyRoot]

\* The witness's records alone.
Records ==
  [USE_HASH_KEY |-> FALSE, pre |-> [Addr -> {Contract, NoLeaf}], others |-> {},
   leaves |-> {Contract, Plain}, nodes |-> {"all"}, codes |-> {{"deployed"}},
   system_calls |-> FALSE, blocks |-> 1, keys |-> Key]

\* What they leave out recovered from the nodes, under the parent's root or
\* another header's.
Recovery ==
  [Records EXCEPT !.USE_HASH_KEY = TRUE, !.others = [Addr -> {Plain, NoLeaf}],
                  !.leaves = {Contract}]

\* Two blocks, with system calls, on all or some of the nodes.
TwoBlocks ==
  [Recovery EXCEPT !.pre = [Addr -> {Contract, Plain}], !.leaves = {Plain}, !.others = {},
                   !.nodes = {"all", "some"}, !.codes = {{}},
                   !.system_calls = TRUE, !.blocks = 2, !.keys = {StoredKey}]

MCScenarios == {Records, Recovery, TwoBlocks}

-----------------------------------------------------------------------------
\* Three slots are enough for a branch with an empty, a kept and a changed
\* child; the keys give extensions of three nibbles that updates leave at
\* each position, and branches below branches.
MCKeys == {<<0,0,0,0>>, <<0,0,0,1>>, <<0,0,0,2>>, <<0,0,1,0>>, <<0,1,0,0>>, <<1,0,0,0>>}

Grid == INSTANCE GridMPT

Tips == {<<0,0,0,0>>, <<0,0,0,1>>, <<0,0,1,1>>, <<0,1,0,0>>, <<1,0,0,0>>, <<1,0,0,1>>}
Hashed == {<<>>, <<0,0,0>>, <<0,0,1>>, <<0,1>>, <<1>>, <<1,0>>}
MCSlots == 0..15
MCFeeds ==
  {[k \in ks |-> IF k \in Tips THEN [kind |-> "leaf", value |-> 1] ELSE [kind |-> "hash", hash |-> k]] :
     ks \in {ks \in SUBSET (Tips \cup Hashed) : \A j, k \in ks : j = k \/ Grid!prefix_length(j, k) < Len(j)}}

Builder == INSTANCE HashBuilder WITH Nibbles <- Slots

ASSUME Grid!ConstantsAssumption /\ Builder!ConstantsAssumption

-----------------------------------------------------------------------------
\* A part that is not run starts in one state.
StateIdle == scenario = Records /\ pre = [a \in Addr |-> NoLeaf] /\ witness = <<>>
GridIdle == checks = FALSE /\ trie = <<>> /\ pruned = {}
BuilderIdle == list = 0

SumInit ==
  /\ part \in {"state", "grid", "builder"}
  /\ IF part = "state" THEN Init ELSE StateIdle /\ Init
  /\ IF part = "grid" THEN Grid!Init ELSE GridIdle /\ Grid!Init
  /\ IF part = "builder" THEN Builder!Init ELSE BuilderIdle /\ Builder!Init

StateStep == part = "state" /\ Next /\ UNCHANGED <<part, grid_vars, builder_vars>>
GridStep == part = "grid" /\ Grid!Next /\ UNCHANGED <<part, vars, builder_vars>>
BuilderStep == part = "builder" /\ Builder!Next /\ UNCHANGED <<part, vars, grid_vars>>

SumSpec == SumInit /\ [][StateStep \/ GridStep \/ BuilderStep]_all_vars

-----------------------------------------------------------------------------
\* The other parts' properties, stated where the parts are modelled.

\* GridMPT: the walk's root is that of the updated trie.
RootRight == Grid!RootRight

\* GridMPT: a walk that succeeds has checked every claim against the trie.
ClaimsBound == Grid!ClaimsBound

\* GridMPT: with the nodes a witness must carry, the walk succeeds.
HonestWalkSucceeds == Grid!HonestWalkSucceeds

\* HashBuilder: the root is that of the entries' trie.
BuilderRootRight == Builder!BuilderRootRight
=============================================================================
