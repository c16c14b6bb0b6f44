------------------------------- MODULE GridMPT -------------------------------
(***************************************************************************)
(* The walk that recomputes a state or storage root from its sorted        *)
(* updates and a witness (core/trie_zz).  The trie is never held whole:    *)
(* the grid is a stack of lines, each a node unfolded on the way to some   *)
(* key, linked by the depths of its parent and of its unfolded children.   *)
(* A seek folds the lines the next key has left, the descent unfolds the   *)
(* ones it enters, splits and inserts, and the end folds what remains.     *)
(*                                                                         *)
(* A node stands for its own hash, so a reference is the node it commits   *)
(* to, and a hash can be unfolded only if the witness carries that node.   *)
(***************************************************************************)
EXTENDS TrieNodes, TLC

CONSTANTS
  KeyLength,   \* nibbles of a key (64)
  Keys,        \* the keys the tries and the updates are drawn from
  PreValues,   \* leaf values of the pre-state
  Written,     \* leaf values the updates write
  Embedded,    \* the values short enough for their leaf to be embedded in its parent
  kMaxLines,   \* lines the grid has room for
  MaxKeys,     \* bound: keys of the pre-state trie
  MaxUpdates,  \* bound: updates of one walk, one fewer where a node is missing
  MaxSize      \* bound: keys of the pre-state trie and updates of the walk together

Values == PreValues \cup Written

None == "none"   \* no bytes: not claimed, or not written
Zero == "zero"   \* 0x80: claimed absent, or deleted

ConstantsAssumption ==
  /\ Nibbles \subseteq Nat /\ IsFiniteSet(Nibbles)
  /\ KeyLength \in Nat \ {0} /\ kMaxLines \in Nat /\ MaxKeys \in Nat /\ MaxUpdates \in Nat
  /\ MaxSize \in Nat
  /\ Keys \subseteq [1..KeyLength -> Nibbles] /\ IsFiniteSet(Keys)
  /\ Embedded \subseteq Values /\ {None, Zero} \cap Values = {}

VARIABLES
  checks,   \* state_keeps_prevalue_check: the updates claim pre-values
  trie,     \* the pre-state: a value for each of its keys
  pruned,   \* nodes of the pre-state trie the witness does not carry
  applied,  \* the updates of the walk so far
  grid,     \* the GridMPT: lines, depth, cursor, flags
  pc,
  root      \* the root the walk returned

vars == <<checks, trie, pruned, applied, grid, pc, root>>

-----------------------------------------------------------------------------
\* Nodes and references.

Hole == [kind |-> "hole"]     \* child_len 1, the placeholder of a line not folded yet; Empty is child_len 0

embedded(node) == node.kind = "leaf" /\ node.path = <<>> /\ node.value \in Embedded

\* The trie of a state.
state_trie(map) == trie_of([k \in DOMAIN map |-> [kind |-> "leaf", value |-> map[k]]], 0)

\* find_node_rlp(): by hash, what the witness carries.
in_witness(node) == node \in nodes_of(state_trie(trie)) \ pruned

-----------------------------------------------------------------------------
\* Lines.  A line of kind branch uses child, orig and dirty; an extension
\* path and ref; a leaf path and value.

Phantom == 255   \* parent_depth of a deleted line

NoLine == [kind |-> "branch", parent_slot |-> 0, parent_depth |-> 0, consumed |-> 0, modified |-> FALSE,
           child_depth |-> [s \in Nibbles |-> 0], child |-> NoChild, orig |-> Empty, dirty |-> {},
           path |-> <<>>, ref |-> Empty, value |-> None]

size(g) == Cardinality(DOMAIN g.lines)
last(g) == size(g) - 1
back(g) == g.lines[last(g)]

\* The lines with what `node` is, as the union's member of that kind.
branch_line(l) == [l EXCEPT !.kind = "branch", !.child = NoChild, !.orig = Empty, !.dirty = {},
                            !.path = <<>>, !.ref = Empty, !.value = None]
ext_line(l, path, ref) == [branch_line(l) EXCEPT !.kind = "ext", !.path = path, !.ref = ref]
leaf_line(l, path, value) == [branch_line(l) EXCEPT !.kind = "leaf", !.path = path, !.value = value]

\* What the kind of a line adds to the nibbles its parent consumed.
own_nibbles(l) == CASE l.kind = "ext" -> Len(l.path) [] l.kind = "branch" -> 1 [] OTHER -> 0

\* transform_line(): another node in the place of the line's, its own nibbles counted anew.
transform_line(l, m) == [m EXCEPT !.consumed = (l.consumed - own_nibbles(l)) + own_nibbles(m)]

is_empty(l) ==
  CASE l.kind = "branch" -> present(l.child) = {}
    [] l.kind = "ext" -> l.ref = Empty
    [] OTHER -> l.value = None

has_single_child(l) == l.kind = "branch" /\ Cardinality(present(l.child)) = 1
only_slot(l) == CHOOSE s \in Nibbles : l.child[s] # Empty

set_child_M1(l, slot, ref) ==
  IF l.kind = "branch" THEN [l EXCEPT !.child[slot] = ref] ELSE [l EXCEPT !.ref = ref]

\* Every change to a branch's slot marks it dirty.
set_child(l, slot, ref) ==
  IF l.kind = "branch" THEN [l EXCEPT !.child[slot] = ref, !.dirty = @ \cup {slot}]
                       ELSE [l EXCEPT !.ref = ref]

delete_child(l, slot) == set_child(l, slot, Empty)

\* The length class of a reference: child_len 0, 1, 32, or the embedded node's.
length_class(ref) == IF ref.kind \in {"empty", "hole"} THEN ref.kind
                     ELSE IF embedded(ref) THEN "embedded" ELSE "hash"

\* A branch laid out as the witness node it was unfolded from is that node
\* with its dirty slots patched; any other is encoded anew.
encode_branch(l) ==
  Branch(IF l.orig # Empty /\ \A s \in Nibbles : length_class(l.child[s]) = length_class(l.orig.child[s])
         THEN [s \in Nibbles |-> IF s \in l.dirty THEN l.child[s] ELSE l.orig.child[s]]
         ELSE l.child)

encode_line(l) ==
  CASE l.kind = "branch" -> encode_branch(l)
    [] l.kind = "ext" -> Ext(l.path, l.ref)
    [] OTHER -> Leaf(l.path, l.value)

-----------------------------------------------------------------------------
\* Operations on the grid.

fail(g) == [g EXCEPT !.failed = TRUE]
pop(g) == [g EXCEPT !.lines = [d \in 0..(last(g) - 1) |-> g.lines[d]]]
clear(g) == [g EXCEPT !.lines = <<>>]
put(g, d, l) == [g EXCEPT !.lines = (d :> l) @@ @]

\* delete_line(): soft in the middle, hard at the end.
delete_line(g, d) == IF d = last(g) THEN pop(g) ELSE [g EXCEPT !.lines[d].parent_depth = Phantom]

\* link_to_parent(): the new line at depth d, in its parent's pointers.
link_to_parent(g, d, slot, parent_depth) ==
  LET parent == g.lines[parent_depth]
      linked == [parent EXCEPT !.child_depth[slot] = d]
      unset == IF parent.kind = "branch" THEN parent.child[slot] = Empty
               ELSE parent.kind = "ext" /\ parent.ref = Empty
  IN IF d = 0 THEN g
     ELSE [put(g, parent_depth, IF unset THEN set_child(linked, slot, Hole) ELSE linked)
             EXCEPT !.lines[d].consumed = @ + parent.consumed]

\* The line of a node (made by branch_line, ext_line or leaf_line) before it is linked.
new_line(m, slot, parent_depth) ==
  [m EXCEPT !.parent_slot = slot, !.parent_depth = parent_depth, !.consumed = own_nibbles(m)]

has_room(g, n) == size(g) + n <= kMaxLines

\* insert_line() and insert_line_at(): at the end, or over a phantom line.
insert_line_at(g, d, slot, parent_depth, m) ==
  IF d = size(g) /\ ~has_room(g, 1) THEN fail(g)
  ELSE link_to_parent([put(g, d, new_line(m, slot, parent_depth)) EXCEPT !.depth = d], d, slot, parent_depth)

insert_line(g, slot, parent_depth, m) == insert_line_at(g, size(g), slot, parent_depth, m)

\* unfold_node_from_rlp(): the line of a witness node, if its path fits a key.
node_line(node) ==
  CASE node.kind = "branch" -> [NoLine EXCEPT !.child = node.child, !.orig = node]
    [] node.kind = "ext" -> ext_line(NoLine, node.path, node.child)
    [] OTHER -> leaf_line(NoLine, node.path, node.value)

path_fits(node, consumed) ==
  CASE node.kind = "leaf" -> consumed + Len(node.path) = KeyLength
    [] node.kind = "ext" -> node.path # <<>> /\ consumed + Len(node.path) < KeyLength
    [] OTHER -> TRUE

unfold_node(g, node, slot, parent_depth) ==
  IF ~path_fits(node, IF g.lines = <<>> THEN 0 ELSE g.lines[parent_depth].consumed) THEN fail(g)
  ELSE insert_line(g, slot, parent_depth, node_line(node))

\* A reference that can be unfolded: embedded, or a hash the witness answers.
unfoldable(ref) == ref.kind \notin {"empty", "hole"} /\ (embedded(ref) \/ in_witness(ref))

\* unfold_slot() of the branch at g.depth, for a slot that is not empty.
slot_empty(g, slot) == LET l == g.lines[g.depth] IN l.child_depth[slot] = 0 /\ l.child[slot] = Empty

unfold_slot(g, slot) ==
  LET l == g.lines[g.depth] IN
  IF l.child_depth[slot] # 0
  THEN IF l.child_depth[slot] < size(g) THEN [g EXCEPT !.depth = l.child_depth[slot]] ELSE fail(g)
  ELSE IF unfoldable(l.child[slot]) THEN unfold_node(g, l.child[slot], slot, g.depth)
  ELSE fail(g)

\* delete_leaf(): out of its parent, the last line moved into its place if a sibling.
delete_leaf(g, d) ==
  LET l == g.lines[d]
      unlinked == [put(g, l.parent_depth, delete_child(g.lines[l.parent_depth], l.parent_slot))
                     EXCEPT !.lines[l.parent_depth].child_depth[l.parent_slot] = 0]
      moved == [put(unlinked, d, back(unlinked))
                  EXCEPT !.lines[l.parent_depth].child_depth[back(unlinked).parent_slot] = d]
  IN IF d = 0 THEN delete_line(g, 0)
     ELSE IF d # last(g) /\ back(g).parent_depth = l.parent_depth THEN delete_line(moved, last(g))
     ELSE delete_line(unlinked, d)

\* cascade_delete(): an empty line goes, and every ancestor it leaves empty.
\* Returns the grid with depth at the first line that stays.
RECURSIVE cascade_delete(_, _)
cascade_delete(g, d) ==
  LET l == g.lines[d]
      parent == delete_child(g.lines[l.parent_depth], l.parent_slot)
  IN IF ~is_empty(l) THEN [g EXCEPT !.depth = d]
     ELSE IF d = 0 THEN [clear(g) EXCEPT !.depth = 0]
     ELSE cascade_delete(
            delete_line(put(g, l.parent_depth, [parent EXCEPT !.child_depth[l.parent_slot] = 0, !.modified = TRUE]),
                        d),
            l.parent_depth)

\* move_line(): frees the slot of a line by pushing it down into the slot of
\* its first unfolded child, that child into its own first child's, and the
\* last of the chain to the end.  `up` is the depth that holds the parent of
\* the line in hand, or 0 at the start of the chain.
first_child(l) ==
  LET cs == {s \in Nibbles : l.child_depth[s] # 0}
  IN IF l.kind = "leaf" \/ cs = {} THEN [depth |-> 0, slot |-> 0]
     ELSE LET s == CHOOSE s \in cs : \A t \in cs : s <= t IN [depth |-> l.child_depth[s], slot |-> s]

RECURSIVE displace(_, _, _, _)
displace(g, l, up, slot) ==
  LET c == first_child(l)
      d == IF c.depth # 0 THEN c.depth ELSE size(g)
      relinked == IF up = 0 THEN g ELSE [g EXCEPT !.lines[up].child_depth[slot] = d]
      placed == put(relinked, d, l)
      below == {l.child_depth[s] : s \in Nibbles} \ {0, d}
      moved == [placed EXCEPT !.lines = [e \in DOMAIN @ |-> IF e \in below THEN [@[e] EXCEPT !.parent_depth = d]
                                                                          ELSE @[e]]]
  IN IF c.depth = 0 THEN placed
     ELSE displace(moved, [g.lines[d] EXCEPT !.parent_depth = d], d, c.slot)

move_line(g, d) == displace([g EXCEPT !.lines[d].parent_depth = Phantom], g.lines[d], 0, 0)
moved_to(g, d) == LET c == first_child(g.lines[d]) IN IF c.depth # 0 THEN c.depth ELSE size(g)

-----------------------------------------------------------------------------
\* Folding a line into its parent.

\* A branch left with one child is an extension of one nibble.
single_to_ext(l, ref) == transform_line(l, ext_line(l, <<only_slot(l)>>, ref))

\* The parent of a line being folded, turned into an extension if the line is its only child.
fold_parent(g, l) ==
  LET parent == g.lines[l.parent_depth]
  IN IF has_single_child(parent)
     THEN [single_to_ext(parent, parent.child[only_slot(parent)]) EXCEPT !.modified = TRUE]
     ELSE parent

\* An extension takes over the path of an extension below it, and a leaf that of an extension above it.
merged(parent, l) ==
  [ (IF l.kind = "ext"
     THEN [parent EXCEPT !.path = @ \o l.path, !.ref = l.ref, !.child_depth[l.parent_slot] = 0]
     ELSE transform_line(parent, leaf_line(parent, parent.path \o l.path, l.value)))
   EXCEPT !.modified = TRUE]

\* Clear parent's pointer; otherwise restructures follow a dangling depth.
clear_pointer(parent, slot) == [parent EXCEPT !.child_depth[slot] = 0]

\* The reference of line d goes into its parent, and the line goes.
fold_into(g, d) ==
  LET l == g.lines[d]
      parent == fold_parent(g, l)
  IN IF size(g) <= 1 THEN g
     ELSE IF l.kind # "branch" /\ parent.kind = "ext"
     THEN delete_line(put(g, l.parent_depth, merged(parent, l)), d)
     ELSE IF ~l.modified
     THEN delete_line(put(g, l.parent_depth, clear_pointer(parent, l.parent_slot)), d)
     ELSE delete_line(put(g, l.parent_depth,
            [set_child([parent EXCEPT !.child_depth[l.parent_slot] = 0], l.parent_slot, encode_line(l))
               EXCEPT !.modified = TRUE]), d)

\* A branch left with one child absorbs it: the child is unfolded, as a leaf or an extension merges.
RECURSIVE fold_line(_, _)
absorb_child(g, d) ==
  LET l == g.lines[d]
      nib == only_slot(l)
      u == unfold_slot([g EXCEPT !.depth = d, !.failed = FALSE], nib)
      unfolded == [u EXCEPT !.failed = u.failed \/ g.failed]
      kept == [single_to_ext(l, l.child[nib]) EXCEPT !.modified = TRUE, !.child_depth[nib] = 0]
      open == put(unfolded, d, single_to_ext(u.lines[d], Empty))
      closed == fold_line(open, u.lines[d].child_depth[nib])
  IN IF u.failed THEN fold_into(unfolded, d)
     ELSE IF back(u).kind = "branch" THEN fold_into(put(pop(unfolded), d, kept), d)
     ELSE IF d >= size(closed) THEN closed
     ELSE IF closed.lines[d].parent_depth = Phantom THEN closed
     ELSE fold_into(closed, d)

fold_line(g, d) ==
  LET l == g.lines[d] IN
  IF l.parent_depth = Phantom THEN (IF d = last(g) THEN pop(g) ELSE g)
  ELSE IF is_empty(l) THEN cascade_delete(g, d)
  ELSE IF has_single_child(l) THEN absorb_child(g, d)
  ELSE fold_into(g, d)

-----------------------------------------------------------------------------
\* seek_with_last_insert(): from the last key's line to the line the next key shares with it.

\* One pass of the seek: every line below `top`, from the last one up.
RECURSIVE fold_below(_, _, _)
fold_below(g, top, i) ==
  IF i <= top THEN g
  ELSE fold_below(IF g.lines[i].parent_depth >= top THEN fold_line(g, i) ELSE g, top, i - 1)

at_cursor(g, n) == [g EXCEPT !.cursor = n, !.failed = @ \/ n >= KeyLength]

key_left_M1(l, shared) == l.consumed >= shared

\* The next key branches off before the nibbles line l consumed.
key_left(l, shared) == l.consumed > shared

\* The climb: pass after pass while the key has left the parent of `top`.
RECURSIVE climb(_, _, _)
climb(g, top, shared) ==
  LET next == g.lines[top].parent_depth IN
  IF key_left(g.lines[next], shared) /\ top > 0
  THEN climb(fold_below(g, top, last(g)), next, shared)
  ELSE at_cursor([g EXCEPT !.depth = top], IF top = 0 THEN 0 ELSE g.lines[next].consumed)

seek(g, key) ==
  LET from == IF g.last_was_delete THEN cascade_delete(g, g.depth)
              ELSE [g EXCEPT !.depth = g.lines[g.depth].parent_depth]
      parent == from.lines[from.depth]
      shared == prefix_length(key, g.key)
  IN IF size(g) <= 1 \/ g.depth = 0
     THEN IF is_empty(g.lines[0]) THEN clear(g) ELSE g
     ELSE IF from.depth = 0 THEN from
     ELSE IF parent.kind # "branch" THEN [fail(from) EXCEPT !.depth = 0]
     ELSE IF shared < parent.consumed THEN climb(from, from.depth, shared)
     ELSE IF g.last_was_delete THEN [from EXCEPT !.cursor = parent.consumed - 1]
     ELSE at_cursor(g, parent.consumed)

-----------------------------------------------------------------------------
\* The descent for one update u = [key, initial, current].

here(g) == g.lines[g.depth]

claims_absent_M1(u) == u.current = None \/ u.initial \in {None, Zero}

\* A key the walk inserts, or reads and finds absent, must be claimed absent.
claims_absent(u) == u.initial \in {None, Zero}

\* make_cur_leaf(): the rest of the key after the nibble at the cursor.
cur_slot(g) == g.key[g.cursor + 1]
cur_leaf(g, u) == leaf_line(NoLine, SubSeq(g.key, g.cursor + 2, KeyLength), u.current)

insert_cur_leaf(g, branch_depth, u) ==
  LET i == insert_line(g, cur_slot(g), branch_depth, cur_leaf(g, u))
  IN [i EXCEPT !.lines[i.depth].modified = TRUE]

\* The nibbles of a line's path that the key goes along.
matched(g, path) ==
  CHOOSE m \in 0..Len(path) :
    /\ \A i \in 1..m : g.cursor + i <= KeyLength /\ path[i] = g.key[g.cursor + i]
    /\ m < Len(path) => g.cursor + m + 1 > KeyLength \/ path[m + 1] # g.key[g.cursor + m + 1]

\* A leaf the key leaves after cp nibbles: an extension of them (none if 0)
\* to a branch of the old leaf and the new one.
split_leaf(g, u) ==
  LET l == here(g)
      cp == matched(g, l.path)
      extended ==
        [insert_line(put(g, g.depth, transform_line(l, ext_line(l, SubSeq(l.path, 1, cp), Empty))),
                     l.path[cp], g.depth, branch_line(NoLine))
          EXCEPT !.cursor = g.cursor + cp]
      b == IF cp > 0 THEN extended ELSE put(g, g.depth, transform_line(l, branch_line(l)))
      old == insert_line(b, l.path[cp + 1], b.depth,
                         leaf_line(NoLine, SubSeq(l.path, cp + 2, Len(l.path)), l.value))
  IN insert_cur_leaf([old EXCEPT !.lines[old.depth].modified = TRUE], b.depth, u)

\* The first deleted line from depth d on, or the end of the grid.
free_from(g, d) ==
  LET free == {e \in d..last(g) : g.lines[e].parent_depth = Phantom}
  IN IF free = {} THEN (IF d > size(g) THEN d ELSE size(g)) ELSE CHOOSE e \in free : \A f \in free : e <= f

\* insert_line_at wrote child_depth[new_slot]; clearing last_nib when they
\* alias would orphan the new branch.
reset_pointer(l, last_nib, new_slot) ==
  IF last_nib # new_slot THEN [l EXCEPT !.child_depth[last_nib] = 0] ELSE l

\* An extension the key leaves inside its path, after m nibbles: the
\* extension of those (none if 0), a branch, the extension of the nibbles
\* after the branch (none if the branch takes the last) to the old child,
\* and the new leaf.  The new lines go before the old child, which moves
\* down if no deleted line before it is free.
tail_of(l, m) == SubSeq(l.path, m + 2, Len(l.path))
last_nibble(l) == l.path[Len(l.path)]

\* A place for a new line before the child: a free one, or the child's own.
make_room(r, needed_here, at) ==
  IF needed_here /\ r.child # 0 /\ at > r.child
  THEN [grid |-> move_line(r.grid, r.child), child |-> moved_to(r.grid, r.child), at |-> Append(r.at, r.child)]
  ELSE [r EXCEPT !.at = Append(@, at)]

make_rooms(g, m) ==
  LET l == here(g)
      d == free_from(g, g.depth + 1)
      has_tail == tail_of(l, m) # <<>>
  IN make_room(make_room([grid |-> g, child |-> l.child_depth[last_nibble(l)], at |-> <<>>], m > 0 \/ has_tail, d),
               m > 0 /\ has_tail, free_from(g, d + 1))

modify(g) == [g EXCEPT !.lines[g.depth].modified = TRUE]

head_line(l, m) == [l EXCEPT !.consumed = @ - 1 - Len(tail_of(l, m)), !.path = SubSeq(l.path, 1, m),
                             !.ref = Hole, !.modified = TRUE]

\* The branch, below the head of the path or in its place; the old child's pointer goes.
split_branch(g, l, m, at) ==
  IF m = 0
  THEN modify(put(g, g.depth, clear_pointer(transform_line(l, branch_line(l)), last_nibble(l))))
  ELSE LET i == insert_line_at(put(g, g.depth, head_line(l, m)), at, l.path[m], g.depth, branch_line(NoLine))
       IN modify([i EXCEPT !.lines[g.depth] = reset_pointer(@, last_nibble(l), l.path[m])])

\* What the branch's old slot leads to: the tail of the path, or the old child.
split_tail(g, l, m, at) ==
  IF tail_of(l, m) = <<>> THEN put(g, g.depth, set_child(here(g), last_nibble(l), l.ref))
  ELSE modify(insert_line_at(g, at, l.path[m + 1], g.depth, ext_line(NoLine, tail_of(l, m), l.ref)))

relink_child(g, child) ==
  IF child = 0 THEN g
  ELSE [g EXCEPT !.lines[child].parent_depth = g.depth,
                 !.lines[g.depth].child_depth[g.lines[child].parent_slot] = child]

split_below(g, l, m, u, room) ==
  insert_cur_leaf([relink_child(split_tail(g, l, m, room.at[IF m > 0 THEN 2 ELSE 1]), room.child)
                     EXCEPT !.cursor = @ + m], g.depth, u)

split_room(l, m, u, room) == split_below(split_branch(room.grid, l, m, room.at[1]), l, m, u, room)

split_ext(g, u) ==
  LET m == matched(g, here(g).path) IN split_room(here(g), m, u, make_rooms(g, m))

-----------------------------------------------------------------------------
\* The walk.

before(j, k) == LET n == prefix_length(j, k) IN n < KeyLength /\ j[n + 1] < k[n + 1]

claim_right(u) == IF u.key \in DOMAIN trie THEN u.initial = trie[u.key] ELSE u.initial \in {None, Zero}

\* What check_root and the HashState accept check hand to a walk.  With
\* claims: a read, a write, a deletion, or a read of an absent key; the
\* claim is the witness's word.  Without: writes, and deletions of keys the
\* state has.
Claims == {None, Zero} \cup Values
update_shapes ==
  IF checks
  THEN {u \in [key : Keys, initial : Claims, current : {None, Zero} \cup Written] :
          u.current = Zero => u.initial \in Values}
  ELSE {u \in [key : Keys, initial : {None}, current : {Zero} \cup Written] :
          u.current = Zero => u.key \in DOMAIN trie}

\* init_from_root(): the root's line, if there is a trie.
fresh == [lines |-> <<>>, depth |-> 0, cursor |-> 0, key |-> <<>>, last_was_delete |-> FALSE,
          root_unfolded |-> FALSE, failed |-> FALSE]

init_from_root(node) ==
  IF node = Empty THEN fresh
  ELSE IF ~in_witness(node) THEN fail(fresh)
  ELSE [unfold_node(fresh, node, 0, 0) EXCEPT !.root_unfolded = TRUE]

Init ==
  /\ checks \in BOOLEAN
  /\ trie \in UNION {[ks -> PreValues] : ks \in {ks \in SUBSET Keys : Cardinality(ks) <= MaxKeys}}
  /\ pruned \in {{}} \cup {{n} : n \in nodes_of(state_trie(trie)) \ {Empty}}
  /\ applied = {}
  /\ grid = init_from_root(state_trie(trie))
  /\ pc = IF grid.failed THEN "failed" ELSE "updates"
  /\ root = Empty

Step(g, at) == grid' = g /\ pc' = at /\ UNCHANGED <<checks, trie, pruned, root>>
Fail == Step(fail(grid), "failed") /\ UNCHANGED applied

\* The next key, in order: the seek, then the descent; in an empty grid the
\* key seeds the trie anew, and a read finds nothing.
NextUpdate(u) ==
  LET g == [(IF grid.lines = <<>> THEN grid ELSE seek([grid EXCEPT !.cursor = 0], u.key)) EXCEPT !.key = u.key]
      seeded == insert_line([g EXCEPT !.last_was_delete = FALSE, !.root_unfolded = FALSE], 0, 0,
                            leaf_line(NoLine, u.key, u.current))
  IN /\ pc = "updates" /\ Cardinality(applied) + Cardinality(pruned) < MaxUpdates
     /\ Cardinality(DOMAIN trie) + Cardinality(applied) < MaxSize
     /\ \A v \in applied : before(v.key, u.key)
     /\ applied' = applied \cup {u}
     /\ \/ g.lines # <<>> /\ Step([g EXCEPT !.last_was_delete = FALSE], "walk")
        \/ g.lines = <<>> /\ ~claims_absent(u) /\ Step(fail(g), "failed")
        \/ g.lines = <<>> /\ claims_absent(u) /\ u.current = None /\ Step(g, "updates")
        \/ g.lines = <<>> /\ claims_absent(u) /\ u.current # None /\ Step(seeded, "updates")

update == CHOOSE u \in applied : \A v \in applied : v = u \/ before(v.key, u.key)

Walking(kind) == pc = "walk" /\ here(grid).kind = kind /\ UNCHANGED applied

\* Only a leaf is reached with the whole key consumed.
past_key == grid.cursor >= KeyLength

\* A branch: down the key's slot, or the insertion into an empty one.
DescendBranch ==
  LET g == unfold_slot([grid EXCEPT !.failed = FALSE], cur_slot(grid))
  IN /\ Walking("branch") /\ (past_key \/ ~slot_empty(grid, cur_slot(grid)))
     /\ IF past_key \/ g.failed THEN Fail
        ELSE Step([g EXCEPT !.cursor = @ + 1, !.failed = grid.failed], "walk")

\* The next seek starts from this branch, as after a deletion from it.
read_at_slot(g) == [g EXCEPT !.last_was_delete = TRUE]

InsertInBranch ==
  /\ Walking("branch") /\ ~past_key /\ slot_empty(grid, cur_slot(grid))
  /\ IF ~claims_absent(update) THEN Fail
     ELSE IF update.current = None THEN Step(read_at_slot(grid), "updates")
     ELSE IF ~has_room(grid, 1) THEN Fail
     ELSE Step(insert_cur_leaf(grid, grid.depth, update), "updates")

\* An extension: through it to its child, or split where the key leaves it.
DescendExt ==
  LET l == here(grid)
      n == Len(l.path)
      child == l.child_depth[l.path[n]]
      g == unfold_node(grid, l.ref, l.path[n], grid.depth)
  IN /\ Walking("ext") /\ (past_key \/ matched(grid, l.path) = n)
     /\ IF past_key THEN Fail
        ELSE IF child # 0 THEN Step([grid EXCEPT !.cursor = @ + n], "walk")
        ELSE IF ~unfoldable(l.ref) \/ g.failed # grid.failed THEN Fail
        ELSE Step([g EXCEPT !.cursor = @ + n], "walk")

SplitExt ==
  /\ Walking("ext") /\ ~past_key /\ matched(grid, here(grid).path) < Len(here(grid).path)
  /\ IF ~claims_absent(update) THEN Fail
     ELSE IF update.current = None
     THEN Step([grid EXCEPT !.depth = here(grid).parent_depth, !.last_was_delete = TRUE], "updates")
     ELSE IF ~has_room(grid, 5) THEN Fail
     ELSE Step(split_ext(grid, update), "updates")

\* The key's own leaf: its pre-value bound, then read, deleted or rewritten.
delete_here(g) ==
  LET d == here(g).parent_depth
      deleted == [delete_leaf(g, g.depth) EXCEPT !.depth = d, !.last_was_delete = TRUE]
  IN IF deleted.lines = <<>> THEN deleted ELSE [deleted EXCEPT !.lines[d].modified = TRUE]

write_here(g, value) ==
  IF here(g).value = value THEN g
  ELSE [g EXCEPT !.lines[g.depth].value = value, !.lines[g.depth].modified = TRUE]

AtLeaf ==
  /\ Walking("leaf") /\ grid.cursor + matched(grid, here(grid).path) = KeyLength
  /\ IF checks /\ here(grid).value # update.initial THEN Fail
     ELSE IF checks /\ update.current = None THEN Step(grid, "updates")
     ELSE IF update.current = Zero THEN Step(delete_here(grid), "updates")
     ELSE Step(write_here(grid, update.current), "updates")

\* Another key's leaf.
SplitLeaf ==
  /\ Walking("leaf") /\ grid.cursor + matched(grid, here(grid).path) # KeyLength
  /\ IF ~claims_absent(update) THEN Fail
     ELSE IF update.current = None THEN Step(grid, "updates")
     ELSE IF ~has_room(grid, 3) THEN Fail
     ELSE Step(split_leaf(grid, update), "updates")

\* After the last update: every line from the last one, then the root.
EndUpdates == pc = "updates" /\ Step(grid, "fold") /\ UNCHANGED applied

FoldLast ==
  /\ pc = "fold" /\ size(grid) > 1
  /\ Step(fold_line(grid, last(grid)), "fold") /\ UNCHANGED applied

FoldRoot ==
  LET g == IF grid.lines = <<>> THEN grid ELSE fold_line(grid, 0)
  IN /\ pc = "fold" /\ size(grid) <= 1
     /\ grid' = g /\ pc' = "done"
     /\ root' = IF g.lines = <<>> THEN Empty
                ELSE IF g.root_unfolded /\ ~g.lines[0].modified THEN state_trie(trie)
                ELSE encode_line(g.lines[0])
     /\ UNCHANGED <<checks, trie, pruned, applied>>

Next ==
  \/ \E u \in update_shapes : NextUpdate(u)
  \/ DescendBranch \/ InsertInBranch \/ DescendExt \/ SplitExt \/ AtLeaf \/ SplitLeaf
  \/ EndUpdates \/ FoldLast \/ FoldRoot

Spec == Init /\ [][Next]_vars

-----------------------------------------------------------------------------
\* Properties.

finished == pc = "done" /\ ~grid.failed

\* The state the updates leave.
written == {u \in applied : u.current # None}
updated ==
  LET ks == (DOMAIN trie \cup {u.key : u \in written}) \ {u.key : u \in {v \in written : v.current = Zero}}
  IN [k \in ks |-> IF \E u \in written : u.key = k THEN (CHOOSE u \in written : u.key = k).current ELSE trie[k]]

\* The root a walk returns is that of the updated state, whatever the order
\* in which the splits, deletions and folds rearranged the grid.
RootRight == finished => root = state_trie(updated)

\* A walk that succeeds has bound every pre-value the updates claim: the
\* claim of a write, of a read, and of a key that is not there.
ClaimsBound == (checks /\ finished) => \A u \in applied : claim_right(u)

\* The nodes a witness must carry for an update: those on the path of its
\* key and, where it deletes, the children of the branches on that path.
RECURSIVE path_nodes(_, _, _)
path_nodes(node, key, at) ==
  {node} \cup
  CASE node.kind = "branch" -> path_nodes(node.child[key[at + 1]], key, at + 1)
    [] node.kind = "ext" /\ SubSeq(key, at + 1, at + Len(node.path)) = node.path ->
         path_nodes(node.child, key, at + Len(node.path))
    [] OTHER -> {}

needed(u) ==
  LET on_path == path_nodes(state_trie(trie), u.key, 0)
  IN on_path \cup IF u.current # Zero THEN {}
                  ELSE UNION {{n.child[s] : s \in Nibbles} : n \in {n \in on_path : n.kind = "branch"}}

\* With those nodes and the right claims the walk succeeds: no fold leaves
\* behind a node that a later step must unfold and the witness cannot carry.
HonestWalkSucceeds ==
  grid.failed =>
    \/ state_trie(trie) \in pruned
    \/ \E u \in applied : (checks /\ ~claim_right(u)) \/ needed(u) \cap pruned # {}

=============================================================================
