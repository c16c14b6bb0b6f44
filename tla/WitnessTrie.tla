----------------------------- MODULE WitnessTrie -----------------------------
(***************************************************************************)
(* How HashState (core/state_zz/hash_state.cpp) gets from a witness's trie *)
(* nodes to the accounts or slots of one trie: sweep, which walks all the  *)
(* nodes it can reach with an explicit stack of branches and one path      *)
(* buffer for them all, and confirm_absent, the walk towards one key that  *)
(* a miss of the cache the sweep filled has to make.                       *)
(*                                                                         *)
(* A trie is the map it commits to, and its nodes are at the prefixes of   *)
(* its keys, as the Modified Merkle Patricia Trie places them. The witness *)
(* leaves some nodes out (`pruned`), and some may not decode (`bad`): the  *)
(* parent's nodes refer to them by hash, so both can be told from an empty *)
(* slot. A node embedded in its parent is one that is neither. Keys are    *)
(* KeyLength nibbles, 64 in the code, where they are hashes; the tries     *)
(* with longer ones are there for the checks that keep a path inside its   *)
(* buffer.                                                                 *)
(***************************************************************************)
EXTENDS Integers, SequencesExt, FiniteSetsExt

CONSTANTS
  Nibbles,     \* 0..15 in the code, any 0..n here
  KeyLength,
  MaxKeys,     \* bound: keys of a trie
  MaxFaults    \* bound: nodes pruned or bad

ConstantsAssumption ==
  /\ Nibbles = 0..(Cardinality(Nibbles) - 1)
  /\ KeyLength \in Nat \ {0}
  /\ MaxKeys \in Nat /\ MaxFaults \in Nat

TrieKey == [1..KeyLength -> Nibbles]

VARIABLES
  keys,    \* the keys the trie holds, each with itself for a value
  node,    \* the nodes of that trie, by position
  pruned, bad,
  path,    \* the path buffer: nib, which keeps what was written, and len
  stack,   \* sweep_stack_: branches with children to visit
  cache,   \* what emit_leaf was given
  malformed_witness_,
  pc       \* "root", "loop", then "done" or "no root"

witness == <<keys, node, pruned, bad>>
vars == <<witness, path, stack, cache, malformed_witness_, pc>>

-----------------------------------------------------------------------------
\* The trie of `keys`

\* The node at the prefix p of the keys S below it. An extension's path
\* reaches as far as they all agree.
node_of(S, p) ==
  LET all == LongestCommonPrefix(S)
      rest == SubSeq(all, Len(p) + 1, Len(all))
  IN IF Cardinality(S) = 1 THEN [kind |-> "leaf", path |-> rest, slots |-> {}]
     ELSE IF rest # <<>> THEN [kind |-> "extension", path |-> rest, slots |-> {}]
     ELSE [kind |-> "branch", path |-> <<>>, slots |-> {k[Len(p) + 1] : k \in S}]

\* The nodes of the trie of the keys S, by position, from p down.
RECURSIVE trie_of(_, _)
trie_of(S, p) ==
  LET n == node_of(S, p)
      here == [q \in {p} |-> n]
      under(q) == trie_of({k \in S : IsPrefix(q, k)}, q)
  IN CASE n.kind = "leaf" -> here
       [] n.kind = "extension" -> here @@ under(p \o n.path)
       [] OTHER -> FoldSet(LAMBDA m, t : t @@ under(Append(p, m)), here, n.slots)

held(p) == p \notin pruned

-----------------------------------------------------------------------------
\* sweep

\* The positions descend passes through: a chain of extensions ends at the
\* first node that is not one, or is pruned or bad.
RECURSIVE landing(_)
landing(p) ==
  IF ~held(p) \/ p \in bad \/ node[p].kind # "extension" THEN p
  ELSE landing(p \o node[p].path)

\* A path that would pass the key's length, or a branch with no nibble left.
misfit(n, len) == len > KeyLength \/ (n.kind = "branch" /\ len >= KeyLength)

\* descend, at position p with the path buffer holding len nibbles of it. A
\* pruned node ends it silently; one that does not decode, or does not fit,
\* marks the witness.
descend(p, buffer) ==
  LET to == landing(p)
      n == node[to]
      rest == SubSeq(to, buffer.len + 1, Len(to)) \o IF n.kind = "leaf" THEN n.path ELSE <<>>
      full == [nib |-> [i \in 1..KeyLength |->
                          IF i > buffer.len /\ i <= buffer.len + Len(rest)
                            THEN rest[i - buffer.len] ELSE buffer.nib[i]],
               len |-> buffer.len + Len(rest)]
  IN IF ~held(to) THEN [path |-> buffer, push |-> <<>>, leaf |-> {}, bad |-> FALSE]
     ELSE IF to \in bad \/ misfit(n, full.len)
       THEN [path |-> buffer, push |-> <<>>, leaf |-> {}, bad |-> TRUE]
     ELSE IF n.kind = "leaf"
       THEN [path |-> full, push |-> <<>>, leaf |-> {full.nib}, bad |-> FALSE]
     ELSE [path |-> full, push |-> <<[at |-> to, next_slot |-> 0, path_len |-> full.len]>>,
           leaf |-> {}, bad |-> FALSE]

Descend(p, buffer, below_top) ==
  LET d == descend(p, buffer)
  IN /\ path' = d.path
     /\ stack' = below_top \o d.push
     /\ cache' = cache \cup d.leaf
     /\ malformed_witness_' = (malformed_witness_ \/ d.bad)
     /\ UNCHANGED witness

\* The root is looked up by its hash.
Root ==
  /\ pc = "root"
  /\ \/ held(<<>>) /\ Descend(<<>>, path, <<>>) /\ pc' = "loop"
     \/ ~held(<<>>) /\ pc' = "no root" /\ UNCHANGED <<witness, path, stack, cache, malformed_witness_>>

top == stack[Len(stack)]

\* The slots of a branch from its cursor on that are not empty.
children(f) == {n \in node[f.at].slots : n >= f.next_slot}

\* Mutant: the cursor, already past the child's slot, is taken for its nibble.
child_path_M1(f, n) == [nib |-> [path.nib EXCEPT ![f.path_len + 1] = n + 1], len |-> f.path_len + 1]

\* The path buffer is cut back to the branch and the child's nibble written.
child_path(f, n) == [nib |-> [path.nib EXCEPT ![f.path_len + 1] = n], len |-> f.path_len + 1]

\* One round of the loop: the top branch's next child, or its end.
Visit ==
  /\ pc = "loop" /\ stack # <<>>
  /\ children(top) # {}
  /\ LET n == Min(children(top))
         frames == [stack EXCEPT ![Len(stack)].next_slot = n + 1]
     IN Descend(Append(top.at, n), child_path(top, n), frames)
  /\ UNCHANGED pc

Pop ==
  /\ pc = "loop" /\ stack # <<>>
  /\ children(top) = {}
  /\ stack' = Front(stack)
  /\ UNCHANGED <<witness, path, cache, malformed_witness_, pc>>

Done ==
  /\ pc = "loop" /\ stack = <<>>
  /\ pc' = "done"
  /\ UNCHANGED <<witness, path, stack, cache, malformed_witness_>>

-----------------------------------------------------------------------------
\* confirm_absent, from position p of the trie towards the key k.

\* Mutant: a child the witness leaves out is an empty slot.
RECURSIVE confirm_from_M1(_, _)
confirm_from_M1(p, k) ==
  IF ~held(p) THEN TRUE
  ELSE IF p \in bad THEN FALSE
  ELSE IF node[p].kind = "branch"
    THEN Len(p) < KeyLength /\ (k[Len(p) + 1] \notin node[p].slots \/ confirm_from_M1(Append(p, k[Len(p) + 1]), k))
  ELSE LET full == p \o node[p].path
       IN IF ~IsPrefix(full, k) THEN TRUE
          ELSE IF node[p].kind = "leaf" THEN FALSE ELSE confirm_from_M1(full, k)

RECURSIVE confirm_from(_, _)
confirm_from(p, k) ==
  IF ~held(p) \/ p \in bad THEN FALSE
  ELSE IF node[p].kind = "branch"
    THEN Len(p) < KeyLength /\ (k[Len(p) + 1] \notin node[p].slots \/ confirm_from(Append(p, k[Len(p) + 1]), k))
  ELSE LET full == p \o node[p].path
       IN IF ~IsPrefix(full, k) THEN TRUE  \* the path leaves the key, or outlasts it
          ELSE IF node[p].kind = "leaf" THEN FALSE ELSE confirm_from(full, k)

confirm_absent(k) == keys = {} \/ confirm_from(<<>>, k)

-----------------------------------------------------------------------------
\* The tries: of keys of the right length, or with one or all of those that
\* continue a missing key by one nibble.
LongKey == [1..(KeyLength + 1) -> Nibbles]

Init ==
  /\ \E S \in UNION {kSubset(n, TrieKey) : n \in 1..MaxKeys} :
       \/ keys = S
       \/ \E l \in LongKey : Front(l) \notin S /\ keys = S \cup {l}
       \/ \E k \in TrieKey \ S : keys = S \cup {Append(k, n) : n \in Nibbles}
  /\ node = trie_of(keys, <<>>)
  /\ \E F \in UNION {kSubset(n, DOMAIN node) : n \in 0..MaxFaults} :
       pruned \in SUBSET F /\ bad = F \ pruned
  /\ path = [nib |-> [i \in 1..KeyLength |-> 0], len |-> 0]
  /\ stack = <<>> /\ cache = {} /\ malformed_witness_ = FALSE
  /\ pc = "root"

Next == Root \/ Visit \/ Pop \/ Done

Spec == Init /\ [][Next]_vars

-----------------------------------------------------------------------------
\* The witness's nodes decide the key k: none on the way to it is pruned or
\* does not decode.
decided(k) == \A p \in pruned \cup bad : ~IsPrefix(p, k)

Ended == pc = "done"

\* The sweep caches exactly the keys the witness's nodes lead to, each under
\* its own path, although all branches on the stack share one path buffer and
\* every visit writes over what the ones before it left there.
SweepExact == Ended => cache = {k \in keys \cap TrieKey : decided(k)}

\* A miss that confirm_absent proves is a key the trie does not hold, whatever
\* the witness leaves out.
ConfirmedIsAbsent == Ended => \A k \in TrieKey : confirm_absent(k) => k \notin keys

=============================================================================
