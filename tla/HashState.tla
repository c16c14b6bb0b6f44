------------------------------- MODULE HashState -------------------------------
(***************************************************************************)
(* The other way to hold the state a block executes on: HashState          *)
(* (core/state_zz/hash_state.{hpp,cpp}) and its accept check               *)
(* (dev/check_root_hashstate.hpp), for one block.                          *)
(*                                                                         *)
(* The accounts and slots are built from the witness's trie nodes, and the *)
(* caches they are built into never change: the block's writes go to an    *)
(* overlay. A key the nodes lead to reads as the trie has it; a key they   *)
(* lead to the absence of is confirmed absent; any other is read as absent *)
(* and counted. WitnessTrie has the sweep and the walk that do this; here  *)
(* `known` is the set of keys they decide, one way or the other.           *)
(*                                                                         *)
(* A trie root stands for the map it commits to. `pre` and `ref` are       *)
(* history: the state under prev_root and what the block makes of it.      *)
(***************************************************************************)
EXTENDS WorldState

CONSTANTS
  PreStates,   \* the states prev_root may commit to
  CodeStores,  \* the sets of code bodies a witness may carry
  MaxDiffs     \* bound: state diffs and withdrawals of the block

ConstantsAssumption ==
  /\ PreStates \subseteq State
  /\ CodeStores \subseteq SUBSET {"deployed", "delegation"}
  /\ MaxDiffs \in Nat

VARIABLES
  pre,           \* history: the state under prev_root
  known,         \* addresses the account trie's nodes decide
  known_slots,   \* and of each account the keys its storage trie's decide
  codes,         \* the code bodies in code_index_
  overlay,       \* created_accounts_: the records loaded or written so far
  overflow,      \* overflow_slots_ of each address, zeros retained
  storage_wiped_,
  created_code,
  unconfirmed,   \* unconfirmed_read_count_ # 0
  touched_,
  phase,         \* "transactions", then "withdrawals", then "executed"
  diffs,
  loaded,        \* the slots the running transaction has read
  ref,           \* history: the state as the EVM's rules change `pre`
  agreed,        \* history: every value read so far is ref's
  header_root, verdict

witness == <<pre, known, known_slots, codes>>
vars == <<witness, overlay, overflow, storage_wiped_, created_code, unconfirmed, touched_,
          phase, diffs, loaded, ref, agreed, header_root, verdict>>

-----------------------------------------------------------------------------
\* The built caches and the overlay

\* What the sweep cached: the accounts and slots the nodes lead to.
built == {a \in known : pre[a] # NoLeaf}
built_slots(a) == {k \in known_slots[a] : a \in built /\ pre[a].root[k] # 0}

\* A record of created_accounts_, or none.
NoRecord == [place |-> "none"]
record_of(l) ==
  [place |-> "overlay", nonce |-> l.nonce, balance |-> l.balance, code |-> l.code,
   root |-> l.root, deleted |-> FALSE, modified |-> FALSE]

materialize_absent_account_ ==
  [place |-> "overlay", nonce |-> 0, balance |-> 0, code |-> "none",
   root |-> EmptyRoot, deleted |-> TRUE, modified |-> FALSE]

\* confirm_absent from prev_root_: only a known key can be proved absent.
confirm_absent(a) == a \in known /\ pre[a] = NoLeaf

find_or_create_account(a) ==
  IF overlay[a] # NoRecord THEN overlay[a]
  ELSE IF a \in built THEN record_of(pre[a]) ELSE materialize_absent_account_

\* The load found no record and no cached account, and no proof of absence.
create_unconfirmed(a) == overlay[a] = NoRecord /\ a \notin built /\ ~confirm_absent(a)

revive_if_deleted(r) ==
  IF ~r.deleted THEN r
  ELSE [materialize_absent_account_ EXCEPT !.deleted = FALSE, !.modified = TRUE]

\* revive_if_deleted and destruct make the built slots of a read as zero.
wiped_by_revival(r, a) == IF r.deleted THEN {a} ELSE {}

\* Mutant: the record is not marked.
set_account_from_diff_M1(r, nonce, balance) == [r EXCEPT !.nonce = nonce, !.balance = balance]

set_account_from_diff(r, nonce, balance) ==
  [r EXCEPT !.nonce = nonce, !.balance = balance,
            !.modified = @ \/ r.nonce # nonce \/ r.balance # balance]

is_dead(r) == r.deleted \/ is_empty(r)

-----------------------------------------------------------------------------
\* What the EVM reads

has_storage(a, r) ==
  \/ \E k \in DOMAIN overflow[a] : overflow[a][k] # 0
  \/ a \notin storage_wiped_ /\ r.root # EmptyRoot

get_account(a, r) ==
  IF r.deleted THEN NoAccount
  ELSE [nonce |-> r.nonce, balance |-> r.balance, code |-> r.code,
        collides |-> r.nonce # 0 \/ r.code # "none" \/ has_storage(a, r)]

executing == verdict = "running" /\ phase = "transactions"

unchanged_but_read ==
  UNCHANGED <<witness, overflow, storage_wiped_, created_code, touched_, phase, diffs,
              ref, header_root, verdict>>

\* HashStateView::get_account loads the record into the overlay.
GetAccount(a) ==
  /\ executing
  /\ LET r == find_or_create_account(a)
     IN  /\ overlay' = [overlay EXCEPT ![a] = r]
         /\ agreed' = (agreed /\ get_account(a, r) = account_in(ref[a]))
  /\ unconfirmed' = (unconfirmed \/ create_unconfirmed(a))
  /\ UNCHANGED loaded
  /\ unchanged_but_read

\* read_code looks in the witness's store and in what the block created. Both
\* are keyed by the hash, so bytes that are found are the right ones.
code_found(code) == code \in codes \cup created_code \cup {"none"}

ReadCode(a) ==
  /\ executing
  /\ overlay[a] # NoRecord
  /\ LET wanted == IF overlay[a].deleted THEN "none" ELSE overlay[a].code
         wanted_in_ref == IF ref[a] = NoLeaf THEN "none" ELSE ref[a].code
     IN  /\ unconfirmed' = (unconfirmed \/ ~code_found(wanted))
         /\ agreed' = (agreed /\ code_found(wanted) /\ wanted = wanted_in_ref)
  /\ UNCHANGED <<overlay, loaded>>
  /\ unchanged_but_read

\* note_storage_miss_: the slot's absence is to be proved, unless the account
\* was not built or has no storage.
storage_miss_unproved(a, k) ==
  a \in built /\ pre[a].root # EmptyRoot /\ k \notin known_slots[a]

\* The overlay's value, zero if the storage was wiped, or the cache's.
read_storage(a, k) ==
  IF k \in DOMAIN overflow[a] THEN overflow[a][k]
  ELSE IF a \in storage_wiped_ \/ k \notin built_slots(a) THEN 0 ELSE pre[a].root[k]

\* evmone asks for a slot of an account it has loaded.
GetStorage(a, k) ==
  /\ executing
  /\ overlay[a] # NoRecord
  /\ agreed' = (agreed /\ read_storage(a, k) = ref[a].root[k])
  /\ unconfirmed' = (unconfirmed \/ /\ k \notin DOMAIN overflow[a]
                                    /\ a \notin storage_wiped_
                                    /\ storage_miss_unproved(a, k))
  /\ loaded' = loaded \cup {<<a, k>>}
  /\ UNCHANGED overlay
  /\ unchanged_but_read

-----------------------------------------------------------------------------
\* What the block writes

end_transaction ==
  /\ loaded' = {}
  /\ diffs < MaxDiffs
  /\ diffs' = diffs + 1
  /\ UNCHANGED <<witness, agreed, header_root, verdict>>

\* The delegation markers of a transaction's authorizations, before it runs.
note_created_code ==
  /\ executing
  /\ created_code' = created_code \cup ({"delegation"} \ codes)
  /\ UNCHANGED <<witness, overlay, overflow, storage_wiped_, unconfirmed, touched_, phase,
                 diffs, loaded, ref, agreed, header_root, verdict>>

\* apply_state_diff, for a modified account: revive, apply_code_diff (only a
\* deployment wipes the storage), set_account_from_diff, set_storage_slot.
ApplyModified(a, d) ==
  /\ executing
  /\ overlay[a] # NoRecord
  /\ LET r == overlay[a]
         live == revive_if_deleted(r)
         coded == IF d.code = "same" THEN live
                  ELSE [live EXCEPT !.code = d.code, !.modified = TRUE]
         set == set_account_from_diff(coded, d.nonce, d.balance)
         wipes == wiped_by_revival(r, a) \cup (IF d.code = "deployed" THEN {a} ELSE {})
         kept == IF wipes = {} THEN overflow[a] ELSE Nothing
     IN  /\ evm_allows(get_account(a, r), {k \in Key : <<a, k>> \in loaded}, d)
         /\ overlay' = [overlay EXCEPT ![a] =
                          [set EXCEPT !.modified = @ \/ DOMAIN d.writes # {}]]
         /\ overflow' = [overflow EXCEPT ![a] =
                           [k \in DOMAIN kept \cup DOMAIN d.writes |->
                              IF k \in DOMAIN d.writes THEN d.writes[k] ELSE kept[k]]]
         /\ storage_wiped_' = storage_wiped_ \cup wipes
  /\ created_code' = created_code \cup ({d.code} \ ({"same", "none"} \cup codes))
  /\ ref' = [ref EXCEPT ![a] = modified_in(@, d)]
  /\ end_transaction
  /\ UNCHANGED <<unconfirmed, touched_, phase>>

\* destruct of the addresses D, on the records R.
destruct(R, D) ==
  /\ overlay' = [a \in Addr |->
       IF a \notin D THEN R[a]
       ELSE IF R[a] # NoRecord THEN [R[a] EXCEPT !.deleted = TRUE]
       ELSE IF a \in built THEN [record_of(pre[a]) EXCEPT !.deleted = TRUE] ELSE NoRecord]
  /\ overflow' = [a \in Addr |-> IF a \in D THEN Nothing ELSE overflow[a]]
  /\ storage_wiped_' = storage_wiped_ \cup D

\* apply_state_diff, for a deleted account, which the EVM has read.
ApplyDeleted(a) ==
  /\ executing
  /\ overlay[a] # NoRecord
  /\ destruct(overlay, {a})
  /\ ref' = [ref EXCEPT ![a] = NoLeaf]
  /\ touched_' = touched_ \cup {a}
  /\ end_transaction
  /\ UNCHANGED <<created_code, unconfirmed, phase>>

\* clear_touched(), after the transactions.
EndTransactions ==
  /\ executing
  /\ phase' = "withdrawals"
  /\ touched_' = {}
  /\ loaded' = {}
  /\ UNCHANGED <<witness, overlay, overflow, storage_wiped_, created_code, unconfirmed,
                 diffs, ref, agreed, header_root, verdict>>

\* One round of MergeRuleSet::finalize's loop: add_to_balance, then
\* destruct_dead_among(touched()).
Withdrawal(a, amount) ==
  /\ verdict = "running" /\ phase = "withdrawals"
  /\ LET r == find_or_create_account(a)
         live == revive_if_deleted(r)
         paid == [overlay EXCEPT ![a] =
                    [live EXCEPT !.balance = @ + amount, !.modified = @ \/ amount # 0]]
         T == touched_ \cup {a}
         dead == {b \in T : paid[b] # NoRecord /\ is_dead(paid[b])}
     IN  /\ live.balance + amount <= MaxBalance
         /\ ref[a].balance + amount <= MaxBalance
         /\ overlay' = [b \in Addr |-> IF b \in dead THEN [paid[b] EXCEPT !.deleted = TRUE] ELSE paid[b]]
         /\ overflow' = [b \in Addr |-> IF b \in dead \cup wiped_by_revival(r, a)
                                          THEN Nothing ELSE overflow[b]]
         /\ storage_wiped_' = storage_wiped_ \cup dead \cup wiped_by_revival(r, a)
         /\ touched_' = T
  /\ unconfirmed' = (unconfirmed \/ create_unconfirmed(a))
  /\ ref' = [ref EXCEPT ![a] = withdrawn_in(@, amount)]
  /\ end_transaction
  /\ UNCHANGED <<created_code, phase>>

EndBlock ==
  /\ verdict = "running" /\ phase = "withdrawals"
  /\ phase' = "executed"
  /\ destruct(overlay, {a \in touched_ : overlay[a] # NoRecord /\ is_dead(overlay[a])})
  /\ UNCHANGED <<witness, created_code, unconfirmed, touched_, diffs, loaded, ref, agreed,
                 header_root, verdict>>

-----------------------------------------------------------------------------
\* check_root_hashstate

\* The records the gather passes on: not the unmodified ones, nor those that
\* came and went within the block.
written == {a \in Addr : /\ overlay[a] # NoRecord
                         /\ IF overlay[a].deleted THEN a \in built
                            ELSE overlay[a].modified \/ a \notin built}

\* Mutant: every zero write is a deletion.
slot_updates_M1(a) == DOMAIN overflow[a]

\* A zero write is passed on only when it deletes a slot the trie has.
slot_updates(a) ==
  {k \in DOMAIN overflow[a] :
     overflow[a][k] # 0 \/ (a \notin storage_wiped_ /\ k \in built_slots(a))}

\* The root the account's storage is folded over.
storage_seed(a) == IF a \in storage_wiped_ THEN EmptyRoot ELSE overlay[a].root

\* The fold fails at a slot the nodes do not lead to, and at the deletion of a
\* slot that is not there.
storage_fold_fails(a) ==
  \E k \in slot_updates(a) :
    \/ a \notin storage_wiped_ /\ a \in built /\ pre[a].root # EmptyRoot /\ k \notin known_slots[a]
    \/ overflow[a][k] = 0 /\ storage_seed(a)[k] = 0

folded_storage(a) ==
  [k \in Key |-> IF k \in slot_updates(a) THEN overflow[a][k] ELSE storage_seed(a)[k]]

folded_leaf(a) ==
  IF overlay[a].deleted THEN NoLeaf
  ELSE [nonce |-> overlay[a].nonce, balance |-> overlay[a].balance,
        code |-> overlay[a].code, root |-> folded_storage(a)]

new_root == [a \in Addr |-> IF a \in written THEN folded_leaf(a) ELSE pre[a]]

fold_fails ==
  \E a \in written :
    \/ a \notin known
    \/ ~overlay[a].deleted /\ storage_fold_fails(a)

\* check_root_hashstate, for the header's state root h. A fold may also fail
\* for want of a node beside a deleted key, unless the witness has them all.
all_nodes == known = Addr /\ \A a \in Addr : known_slots[a] = Key

CheckRoot(h) ==
  /\ verdict = "running" /\ phase = "executed"
  /\ \/ verdict' = IF ~fold_fails /\ new_root = h /\ ~unconfirmed THEN "accepted" ELSE "rejected"
     \/ ~all_nodes /\ verdict' = "rejected"
  /\ header_root' = h
  /\ UNCHANGED <<witness, overlay, overflow, storage_wiped_, created_code, unconfirmed, touched_,
                 phase, diffs, loaded, ref, agreed>>

-----------------------------------------------------------------------------
Init ==
  /\ pre \in PreStates
  /\ known \in SUBSET Addr
  /\ known_slots \in [Addr -> SUBSET Key]
  /\ codes \in CodeStores
  /\ overlay = [a \in Addr |-> NoRecord]
  /\ overflow = [a \in Addr |-> Nothing]
  /\ storage_wiped_ = {} /\ created_code = {} /\ unconfirmed = FALSE /\ touched_ = {}
  /\ phase = "transactions" /\ diffs = 0 /\ loaded = {}
  /\ ref = pre /\ agreed = TRUE
  /\ header_root = pre /\ verdict = "running"

Next ==
  \/ \E a \in Addr : GetAccount(a) \/ ReadCode(a) \/ ApplyDeleted(a)
  \/ \E a \in Addr, k \in Key : GetStorage(a, k)
  \/ note_created_code
  \/ executing /\ diffs < MaxDiffs /\ \E a \in Addr, d \in Diff : ApplyModified(a, d)
  \/ \E a \in Addr, amount \in {0, 1} : Withdrawal(a, amount)
  \/ EndTransactions \/ EndBlock
  \/ phase = "executed" /\ \E h \in {ref, new_root} : CheckRoot(h)

Spec == Init /\ [][Next]_vars

-----------------------------------------------------------------------------
\* Properties

\* A block is accepted only if everything it read was what the parent's state
\* holds, with the block's own writes over it, and its header commits to
\* exactly the state its diffs and withdrawals lead to: there is no check of
\* the values read, only the count of those that could not be proved.
AcceptedIsRight == verdict = "accepted" => agreed /\ header_root = ref

\* With every node and code body in the witness, no block is rejected whose
\* header commits to the state it leads to, whatever it deleted, revived,
\* redeployed, cleared and wrote back, in whatever order.
HonestAccepted ==
  verdict = "rejected" /\ header_root = ref /\ all_nodes => unconfirmed /\ ~agreed

=============================================================================
