------------------------------ MODULE TrieNodes ------------------------------
(***************************************************************************)
(* The nodes of a Merkle Patricia trie.  A node stands for its own hash:   *)
(* a reference to it is the node itself, so two roots are equal exactly    *)
(* when the tries are.                                                     *)
(***************************************************************************)
EXTENDS Integers, Sequences, FiniteSets

CONSTANTS Nibbles   \* the slots of a branch

Empty == [kind |-> "empty"]
Leaf(path, value) == [kind |-> "leaf", path |-> path, value |-> value]
Ext(path, child) == [kind |-> "ext", path |-> path, child |-> child]
Branch(child) == [kind |-> "branch", child |-> child]

NoChild == [s \in Nibbles |-> Empty]

present(child) == {s \in Nibbles : child[s] # Empty}

\* A node and every node below it.
RECURSIVE nodes_of(_)
nodes_of(node) ==
  {node} \cup
  CASE node.kind = "branch" -> UNION {nodes_of(node.child[s]) : s \in present(node.child)}
    [] node.kind = "ext" -> nodes_of(node.child)
    [] OTHER -> {}

\* The nibbles two keys share from the first on.
prefix_length(j, k) ==
  LET least == IF Len(j) < Len(k) THEN Len(j) ELSE Len(k)
  IN CHOOSE n \in 0..least : (\A i \in 1..n : j[i] = k[i]) /\ (n < least => j[n + 1] # k[n + 1])

\* The trie of the entries whose keys share their first `at` nibbles, no key
\* a prefix of another: the definition the walks and builders are held to.
\* An entry is a leaf value, or the hash of a branch that stands below its key.
tip(path, e) == IF e.kind = "leaf" THEN Leaf(path, e.value) ELSE IF path = <<>> THEN e ELSE Ext(path, e)

RECURSIVE trie_of(_, _)
trie_of(entries, at) ==
  LET ks == DOMAIN entries
      k0 == CHOOSE k \in ks : TRUE
      shared == {prefix_length(k0, k) : k \in ks}
      to == CHOOSE n \in shared : \A m \in shared : n <= m
  IN CASE ks = {} -> Empty
       [] Cardinality(ks) = 1 -> tip(SubSeq(k0, at + 1, Len(k0)), entries[k0])
       [] Cardinality(ks) > 1 /\ to > at -> Ext(SubSeq(k0, at + 1, to), trie_of(entries, to))
       [] OTHER -> Branch([s \in Nibbles |->
                             trie_of([k \in {k \in ks : k[at + 1] = s} |-> entries[k]], at + 1)])
=============================================================================
