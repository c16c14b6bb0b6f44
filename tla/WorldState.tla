------------------------------ MODULE WorldState ------------------------------
(***************************************************************************)
(* The state a block transforms, as the EVM's rules see it: what a trie    *)
(* root commits to, what the EVM asks of it, and what a state diff and a   *)
(* withdrawal make of it. DirectState and HashState, two ways to hold this *)
(* state in the guest, are compared with it.                               *)
(***************************************************************************)
EXTENDS Naturals

CONSTANTS
  Addr, Key,
  MaxValue,       \* bound: slot values are 0..MaxValue
  MaxBalance      \* bound: balances are 0..MaxBalance

ASSUME BoundsAssumption == MaxValue \in Nat \ {0} /\ MaxBalance \in Nat \ {0}

Value == 0..MaxValue
Storage == [Key -> Value]
EmptyRoot == [k \in Key |-> 0]
Code == {"none", "deployed", "delegation"}

\* An account's leaf in the account trie, and what stands for none.
Leaf == [nonce : {0, 1}, balance : 0..MaxBalance, code : Code, root : Storage]
NoLeaf == [nonce |-> 0, balance |-> 0, code |-> "no leaf", root |-> EmptyRoot]
State == [Addr -> Leaf \cup {NoLeaf}]

\* Functions on some of the keys.
Partial(S) == UNION {[K -> S] : K \in SUBSET Key}
Nothing == [k \in {} |-> 0]

is_empty(r) == r.nonce = 0 /\ r.code = "none" /\ r.balance = 0

\* get_account's answer. Of has_storage the EVM only uses whether a creation
\* at the address collides (EIP-7610).
NoAccount == [nonce |-> 0, balance |-> 0, code |-> "no account", collides |-> FALSE]

\* The same question asked of a state.
account_in(l) ==
  IF l = NoLeaf THEN NoAccount
  ELSE [nonce |-> l.nonce, balance |-> l.balance, code |-> l.code,
        collides |-> l.nonce # 0 \/ l.code # "none" \/ l.root # EmptyRoot]

-----------------------------------------------------------------------------
\* An account in a transaction's state diff.
Diff == [nonce : {0, 1}, balance : 0..MaxBalance, code : Code \cup {"same"},
         writes : Partial(Value)]

code_after(v, d) ==
  IF d.code # "same" THEN d.code ELSE IF v = NoAccount THEN "none" ELSE v.code

\* What the EVM (evmone) can answer for an account it read as v, with the slots
\* `read`: it writes no slot it has not read, deploys only where nothing
\* collides, sets and clears delegations only of accounts without other code,
\* never lowers a nonce, deletes an account it leaves empty, and writes the
\* storage only of an account that has code or a nonce.
evm_allows(v, read, d) ==
  /\ DOMAIN d.writes \subseteq read
  /\ d.nonce >= v.nonce
  /\ d.code = "deployed" => d.nonce = 1 /\ ~v.collides
  /\ d.code = "delegation" => d.nonce = 1 /\ v.code # "deployed"
  /\ d.code = "none" => d.nonce = 1 /\ v.code = "delegation"
  /\ d.nonce # 0 \/ d.balance # 0 \/ code_after(v, d) # "none"
  /\ DOMAIN d.writes # {} => d.nonce # 0 \/ code_after(v, d) # "none"

modified_in(l, d) ==
  LET kept == IF l = NoLeaf \/ d.code = "deployed" THEN EmptyRoot ELSE l.root
      code == IF l = NoLeaf THEN "none" ELSE l.code
  IN  [nonce |-> d.nonce, balance |-> d.balance,
       code |-> IF d.code = "same" THEN code ELSE d.code,
       root |-> [k \in Key |-> IF k \in DOMAIN d.writes THEN d.writes[k] ELSE kept[k]]]

\* A withdrawal, as EIP-4895 and EIP-161 have it.
withdrawn_in(l, amount) ==
  LET paid == IF l = NoLeaf
                THEN [nonce |-> 0, balance |-> amount, code |-> "none", root |-> EmptyRoot]
                ELSE [l EXCEPT !.balance = @ + amount]
  IN  IF is_empty(paid) THEN NoLeaf ELSE paid
=============================================================================
