----------------------------- MODULE HashBuilder -----------------------------
(***************************************************************************)
(* The stack machine that computes a root from entries in key order        *)
(* (core/trie/hash_builder), and root_hash() of a list (vector_root.hpp),  *)
(* whose keys are the RLP of the indices and which must feed them in the   *)
(* order of those encodings, not of the indices.                           *)
(***************************************************************************)
EXTENDS TrieNodes, TLC

CONSTANTS
  Lengths,   \* bound: lengths of the lists
  Feeds,     \* sets of entries: functions from keys to leaf values or branch hashes
  Short      \* leaf values whose leaf with an empty path is embedded in its parent

VARIABLES
  list,       \* length of the list, or -1 where entries are fed
  feed,       \* the entries, by key
  added,      \* how many entries went in
  hb,         \* key_, value_, groups_, stack_; what rlp_collector was called with;
              \* the two buffers root_hash() of a list encodes the values in
  result      \* the root, once asked for

vars == <<list, feed, added, hb, result>>

ConstantsAssumption ==
  /\ Lengths \subseteq 0..255
  /\ \A f \in Feeds : \A j, k \in DOMAIN f : j = k \/ prefix_length(j, k) < Len(j)

value_entry(v) == [kind |-> "leaf", value |-> v]

-----------------------------------------------------------------------------
\* vector_root.hpp

adjust_index_for_rlp_M1(i, len) == IF i > 127 THEN i ELSE IF i = 127 THEN 0 ELSE i + 1

\* Zero is encoded as 0x80, after the one-byte encodings of 1..127.
adjust_index_for_rlp(i, len) == IF i > 127 THEN i ELSE IF i = 127 \/ i + 1 = len THEN 0 ELSE i + 1

unpack_nibbles(byte) == <<byte \div 16, byte % 16>>

index_key(i) ==
  IF i = 0 THEN unpack_nibbles(128)
  ELSE IF i < 128 THEN unpack_nibbles(i)
  ELSE unpack_nibbles(129) \o unpack_nibbles(i)

\* hb views the pending leaf's buffer.
buffer_of(j) == j % 2

-----------------------------------------------------------------------------
\* gen_struct_step(): one pass of its loop.  w is the builder, `current` the key
\* whose group is closed, `succeeding` the next key (empty at the end).

short(node) == node.kind = "leaf" /\ node.path = <<>> /\ node.value \in Short

\* The leaf value a view borrows is read here, not when it was added.
deref(w) == IF w.value.kind = "view" THEN value_entry(w.value_rlp[w.value.buf]) ELSE w.value

push(w, node) == [w EXCEPT !.stack = Append(@, node)]
emit(w, node) == [w EXCEPT !.collected = IF short(node) THEN @ ELSE @ \cup {node}]
top(w) == w.stack[Len(w.stack)]
replace_top(w, node) == [emit(w, node) EXCEPT !.stack[Len(w.stack)] = node]

\* branch_ref(): the digits' children off the stack, their branch on it.
branch_ref(w, digits) ==
  LET first == Len(w.stack) - Cardinality(digits)
      rank(s) == Cardinality({t \in digits : t <= s})
      node == Branch([s \in Nibbles |-> IF s \in digits THEN w.stack[first + rank(s)] ELSE Empty])
  IN [emit(w, node) EXCEPT !.stack = Append(SubSeq(@, 1, first), node)]

\* groups_ with the digit after the longest common prefix in its group.
add_digit(groups, len, digit) ==
  [i \in 1..(IF Len(groups) > len THEN Len(groups) ELSE len + 1) |->
     (IF i <= Len(groups) THEN groups[i] ELSE {}) \cup (IF i = len + 1 THEN {digit} ELSE {})]

RECURSIVE drop_empty(_)
drop_empty(groups) ==
  IF groups # <<>> /\ groups[Len(groups)] = {} THEN drop_empty(SubSeq(groups, 1, Len(groups) - 1)) ELSE groups

\* The group of `current` is not complete yet: the next key joins it.
group_stays(preceding_len, common) == preceding_len <= common

RECURSIVE gen_struct_step(_, _, _, _)
gen_struct_step(w, current, succeeding, extensions) ==
  LET preceding == w.groups # <<>>
      preceding_len == IF preceding THEN Len(w.groups) - 1 ELSE 0
      common == prefix_length(succeeding, current)
      len == IF preceding_len > common THEN preceding_len ELSE common
      grouped == [w EXCEPT !.groups = add_digit(@, len, current[len + 1])]
      joins == succeeding # <<>> \/ preceding
      short_node_key == SubSeq(current, (IF joins THEN len + 1 ELSE len) + 1, Len(current))
      entry == deref(w)
      leaf == Leaf(short_node_key, entry.value)
      pushed == IF extensions THEN grouped
                ELSE IF entry.kind = "leaf" THEN push(emit(grouped, leaf), leaf)
                ELSE push(grouped, entry)
      extended == IF (extensions \/ entry.kind = "hash") /\ short_node_key # <<>>
                  THEN replace_top(pushed, Ext(short_node_key, top(pushed)))
                  ELSE pushed
      branched == IF joins THEN branch_ref(extended, extended.groups[len + 1]) ELSE extended
      closed == [branched EXCEPT !.groups = SubSeq(@, 1, len)]
  IN IF group_stays(preceding_len, common) /\ succeeding # <<>> THEN extended
     ELSE IF preceding_len = 0 THEN closed
     ELSE gen_struct_step([closed EXCEPT !.groups = drop_empty(@)], SubSeq(current, 1, preceding_len),
                          succeeding, TRUE)

-----------------------------------------------------------------------------
\* No key is a prefix of another, so two keys differ within both.
before(j, k) == LET n == prefix_length(j, k) IN j # k /\ j[n + 1] < k[n + 1]

\* The key of the entry to add next.
next_key ==
  LET left == {k \in DOMAIN feed : Cardinality({j \in DOMAIN feed : before(j, k)}) = added}
  IN CHOOSE k \in left : TRUE

NoBuilder == [key |-> <<>>, value |-> value_entry(-1), groups |-> <<>>, stack |-> <<>>, collected |-> {},
              value_rlp |-> [b \in {0, 1} |-> -1]]

Init ==
  /\ \/ list \in Lengths /\ feed = <<>>
     \/ list = -1 /\ feed \in Feeds
  /\ added = 0
  /\ hb = NoBuilder
  /\ result = <<>>

\* add_leaf() and add_branch_node(): the pending entry goes in, the new one waits.
add(w, key, value) ==
  LET stepped == IF w.key # <<>> THEN gen_struct_step(w, w.key, key, FALSE)
                 ELSE IF key = <<>> THEN push(w, value)   \* known root hash
                 ELSE w
  IN [stepped EXCEPT !.key = key, !.value = value]

\* The value is encoded into its buffer before the entry pending goes in.
AddListItem ==
  LET index == adjust_index_for_rlp(added, list)
      b == buffer_of(added)
  IN /\ added < list /\ result = <<>>
     /\ hb' = add([hb EXCEPT !.value_rlp[b] = index], index_key(index), [kind |-> "view", buf |-> b])
     /\ added' = added + 1
     /\ UNCHANGED <<list, feed, result>>

AddEntry ==
  /\ list = -1 /\ added < Cardinality(DOMAIN feed) /\ result = <<>>
  /\ hb' = add(hb, next_key, feed[next_key])
  /\ added' = added + 1
  /\ UNCHANGED <<list, feed, result>>

\* root_hash(): finalize() closes every group.
RootHash ==
  LET final == IF hb.key = <<>> THEN hb
               ELSE [gen_struct_step(hb, hb.key, <<>>, FALSE) EXCEPT !.key = <<>>, !.value = value_entry(-1)]
  IN /\ added = (IF list = -1 THEN Cardinality(DOMAIN feed) ELSE list) /\ result = <<>>
     /\ hb' = final
     /\ result' = <<IF final.stack = <<>> THEN Empty ELSE top(final)>>
     /\ UNCHANGED <<list, feed, added>>

Next == AddListItem \/ AddEntry \/ RootHash

Spec == Init /\ [][Next]_vars

-----------------------------------------------------------------------------
\* Properties.

entries ==
  IF list = -1 THEN feed
  ELSE [k \in {index_key(i) : i \in 0..(list - 1)} |-> value_entry(CHOOSE i \in 0..(list - 1) : index_key(i) = k)]

\* The root of a list or of a set of entries is that of their trie, for
\* every length: the value each leaf got is the value of its own key.
BuilderRootRight == result # <<>> => result[1] = trie_of(entries, 0)

=============================================================================
