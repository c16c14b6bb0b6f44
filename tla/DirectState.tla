----------------------------- MODULE DirectState -----------------------------
(***************************************************************************)
(* The state a block executes on and the check that its header commits to  *)
(* what the block did: DirectState (core/state_zz/direct_state.{hpp,cpp})  *)
(* and StateTransition::check_root, check_root_new_block                   *)
(* (dev/state_transition.cpp).                                             *)
(*                                                                         *)
(* The guest has the parent's state root and a witness: records of some    *)
(* accounts with some of their slots, and some trie nodes. Nothing in the  *)
(* witness is trusted. The block executes on the records; what it read of  *)
(* them, and what it read as absent, is bound to the parent's root only    *)
(* afterwards, in check_root, by walking every record's key in the tries.  *)
(*                                                                         *)
(* A trie root stands for the map it commits to (keccak has no collisions):*)
(* a storage root is the storage, the state root is the state.  `pre` is   *)
(* the state under the parent's root and `ref` what the block makes of it; *)
(* both are history: the guest sees neither.  Blocks are of Spurious       *)
(* Dragon or later (clear_empty), before Amsterdam.                        *)
(***************************************************************************)
EXTENDS WorldState, FiniteSets

CONSTANTS
  Scenarios,      \* builds, bundles and bounds, see Scenario
  MaxDiffs        \* bound: state diffs and withdrawals of a block

\* What a behaviour is about: the build option that recovers what the witness
\* leaves out, the states the parent's root may commit to and those of other
\* headers the witness carries, the account leaves a record may claim, the
\* node stores ("all" the nodes a walk needs, "some", "none") and code bodies
\* it may carry, whether the system contracts are deployed, the blocks of the
\* bundle (more than 1 for a multi-block one), and the keys that the records and
\* the EVM speak of.
Scenario ==
  [USE_HASH_KEY : BOOLEAN, pre : SUBSET State, others : SUBSET State,
   leaves : SUBSET Leaf, nodes : SUBSET {"all", "some", "none"},
   codes : SUBSET SUBSET {"deployed", "delegation"}, system_calls : BOOLEAN,
   blocks : Nat \ {0}, keys : SUBSET Key]

ASSUME ConstantsAssumption == Scenarios \subseteq Scenario /\ MaxDiffs \in Nat

Slot == [initial : Value, current : Value]
RecoveredSlot == [found : BOOLEAN, initial : Value, current : Value]
WipedStorage == [slots : Partial(Value), root : Storage, absent_reads : SUBSET Key]

\* Account, with what DirectState keeps of it by address: where the record is
\* (a witness record, created_accounts_, recovered_accounts_, or none yet),
\* its overflow slots, its recovered slots and its wiped storage. acc_rlp is
\* the leaf encoded in acc_rlp_buf, stamped is acc_rlp_sroot_off # 0.
Account ==
  [place : {"none", "pre", "created", "recovered"},
   nonce : {0, 1}, balance : 0..MaxBalance, code : Code, root : Storage,
   slots : Partial(Slot), deleted : BOOLEAN, modified : BOOLEAN,
   absent_reads : SUBSET Key, acc_rlp : Leaf \cup {NoLeaf}, stamped : BOOLEAN,
   overflow : Partial(Value \ {0}), recovered : Partial(RecoveredSlot),
   wiped : SUBSET WipedStorage]

VARIABLES
  scenario,
  pre,                 \* history: the state under the parent's state_root
  head_root,           \* the state under the highest-numbered header's state_root
  witness,             \* the witness's account records, by address
  mapped,              \* the addresses its address map leads to their record
  nodes,               \* its trie nodes
  codes,               \* the code bodies it carries
  rec,                 \* the record of each address
  created_code, witness_incomplete_, touched_, journal, recovery_ended_,
  block,               \* the block of the bundle that is executing
  phase,               \* "transactions", then "withdrawals", then "final"
  diffs,               \* the diffs and withdrawals of this block so far
  loaded,              \* the slots the running transaction has read
  ref,                 \* history: the state as the EVM's rules change `pre`
  agreed,              \* history: every value read so far is ref's
  header_root,         \* the executed block's header.state_root, once checked
  verdict

bundle == <<scenario, pre, head_root, witness, mapped, nodes, codes>>
control == <<block, phase, diffs>>
vars == <<bundle, rec, created_code, witness_incomplete_, touched_, journal,
          recovery_ended_, control, loaded, ref, agreed, header_root, verdict>>

multi_block_ == scenario.blocks > 1

-----------------------------------------------------------------------------
\* Records

EmptyRecord ==
  [place |-> "none", nonce |-> 0, balance |-> 0, code |-> "none",
   root |-> EmptyRoot, slots |-> Nothing, deleted |-> TRUE, modified |-> FALSE,
   absent_reads |-> {}, acc_rlp |-> NoLeaf, stamped |-> FALSE,
   overflow |-> Nothing, recovered |-> Nothing, wiped |-> {}]

leaf_of(r, root) ==
  [nonce |-> r.nonce, balance |-> r.balance, code |-> r.code, root |-> root]

from_leaf(l, where, slots) ==
  [EmptyRecord EXCEPT
     !.place = where, !.nonce = l.nonce, !.balance = l.balance, !.code = l.code,
     !.root = l.root, !.slots = slots, !.deleted = FALSE,
     !.acc_rlp = l, !.stamped = TRUE]

\* sanitize(): a witness record as execution starts from it.
sanitize(w) ==
  from_leaf(w.leaf, "pre",
            [k \in DOMAIN w.slots |-> [initial |-> w.slots[k], current |-> w.slots[k]]])

rlp_into(r, root) ==
  IF r.stamped THEN [r.acc_rlp EXCEPT !.root = root] ELSE leaf_of(r, root)

rlp_into_cache(r, root) == [r EXCEPT !.acc_rlp = leaf_of(r, root), !.stamped = TRUE]

materialize_absent_account_ == [EmptyRecord EXCEPT !.place = "created"]

\* The node store is searched for what the witness's records leave out.
recovers == scenario.USE_HASH_KEY /\ nodes # "none"

recover_account_from_nodestore(a) ==
  IF recovers /\ ~recovery_ended_ /\ a \notin DOMAIN witness /\ head_root[a] # NoLeaf
    THEN from_leaf(head_root[a], "recovered", Nothing)
    ELSE materialize_absent_account_

find_or_create_account(a) ==
  IF rec[a].place # "none" THEN rec[a] ELSE recover_account_from_nodestore(a)

\* Mutant: a read of a slot the witness does not carry leaves no trace.
note_absent_read__M1(r, k) == r

note_absent_read_(r, k) ==
  IF r.root = EmptyRoot THEN r ELSE [r EXCEPT !.absent_reads = @ \cup {k}]

note_wiped_storage_(r) ==
  IF DOMAIN r.slots = {} /\ r.absent_reads = {} THEN r
  ELSE [r EXCEPT !.wiped = @ \cup {[slots |-> [k \in DOMAIN r.slots |-> r.slots[k].initial],
                                    root |-> r.root, absent_reads |-> r.absent_reads]},
                 !.absent_reads = {}]

revive_if_deleted(r) ==
  IF ~r.deleted THEN r
  ELSE [r EXCEPT !.deleted = FALSE, !.code = "none", !.root = EmptyRoot,
                 !.slots = Nothing, !.nonce = 0, !.balance = 0,
                 !.overflow = Nothing, !.recovered = Nothing,
                 !.modified = TRUE, !.stamped = FALSE]

destruct(r) ==
  [(IF r.place = "pre" /\ ~r.deleted THEN note_wiped_storage_(r) ELSE r)
     EXCEPT !.deleted = TRUE, !.overflow = Nothing, !.recovered = Nothing]

is_empty_account(r) == ~r.deleted /\ is_empty(r)
is_dead(r) == r.deleted \/ is_empty_account(r)

has_storage(r) ==
  \/ r.root # EmptyRoot
  \/ \E k \in DOMAIN r.slots : r.slots[k].current # 0
  \/ DOMAIN r.overflow # {}

apply_code_diff(r, code) ==
  LET wiped == IF code = "deployed"
                 THEN [note_wiped_storage_(r) EXCEPT
                         !.slots = Nothing, !.root = EmptyRoot,
                         !.overflow = Nothing, !.recovered = Nothing]
                 ELSE r
  IN  [wiped EXCEPT !.code = code, !.modified = TRUE, !.stamped = FALSE]

\* Mutant: the cached leaf stays valid.
set_account_from_diff_M1(r, nonce, balance) ==
  IF r.nonce = nonce /\ r.balance = balance THEN r
  ELSE [r EXCEPT !.nonce = nonce, !.balance = balance, !.modified = TRUE]

set_account_from_diff(r, nonce, balance) ==
  IF r.nonce = nonce /\ r.balance = balance THEN r
  ELSE [r EXCEPT !.nonce = nonce, !.balance = balance,
                 !.modified = TRUE, !.stamped = FALSE]

\* set_storage_slot for each key of `writes`: into the witness slot, else the
\* recovered one, else overflow, which holds no zero.
set_storage_slots(r, writes) ==
  LET W == DOMAIN writes
      inline == W \cap DOMAIN r.slots
      found == {k \in W \ inline : k \in DOMAIN r.recovered /\ r.recovered[k].found}
      rest == W \ (inline \cup found)
  IN  [r EXCEPT
         !.modified = @ \/ W # {},
         !.slots = [k \in DOMAIN @ |->
                      IF k \in inline THEN [@[k] EXCEPT !.current = writes[k]] ELSE @[k]],
         !.recovered = [k \in DOMAIN @ |->
                          IF k \in found THEN [@[k] EXCEPT !.current = writes[k]] ELSE @[k]],
         !.overflow = [k \in (DOMAIN @ \ rest) \cup {k \in rest : writes[k] # 0} |->
                         IF k \in rest THEN writes[k] ELSE @[k]]]

-----------------------------------------------------------------------------
\* What the EVM reads

get_account(r) ==
  IF r.deleted THEN NoAccount
  ELSE [nonce |-> r.nonce, balance |-> r.balance, code |-> r.code,
        collides |-> r.nonce # 0 \/ r.code # "none" \/ has_storage(r)]

\* The EVM runs: a transaction, or a system call before or after them.
executing ==
  /\ verdict = "running"
  /\ phase = "transactions" \/ (scenario.system_calls /\ phase \in {"start", "requests"})

unchanged_but_read ==
  UNCHANGED <<bundle, created_code, touched_, journal, recovery_ended_, control,
              ref, header_root, verdict>>

GetAccount(a) ==
  /\ executing
  /\ LET r == find_or_create_account(a)
     IN  /\ rec' = [rec EXCEPT ![a] = r]
         /\ agreed' = (agreed /\ get_account(r) = account_in(ref[a]))
  /\ UNCHANGED <<witness_incomplete_, loaded>>
  /\ unchanged_but_read

\* read_code: content-addressed, so a body that is found is the right one.
ReadCode(a) ==
  /\ executing
  /\ LET r == find_or_create_account(a)
         wanted == IF r.deleted THEN "none" ELSE r.code
         omitted == wanted \notin codes \cup created_code \cup {"none"}
         wanted_in_ref == IF ref[a] = NoLeaf THEN "none" ELSE ref[a].code
     IN  /\ rec' = [rec EXCEPT ![a] = r]
         /\ witness_incomplete_' = (witness_incomplete_ \/ omitted)
         /\ agreed' = (agreed /\ ~omitted /\ wanted = wanted_in_ref)
  /\ UNCHANGED loaded
  /\ unchanged_but_read

\* read_storage returns `value` and leaves the record r.
StorageRead(a, k, r, value) ==
  /\ rec' = [rec EXCEPT ![a] = r]
  /\ agreed' = (agreed /\ value = ref[a].root[k])
  /\ loaded' = loaded \cup {<<a, k>>}
  /\ UNCHANGED witness_incomplete_
  /\ unchanged_but_read

\* The cases of read_storage, in the order it tries them.
ReadSlot(a, k) ==
  /\ executing
  /\ LET r == find_or_create_account(a)
     IN  /\ DOMAIN r.slots # {}
         /\ r.deleted \/ k \in DOMAIN r.slots
         /\ StorageRead(a, k, r, IF r.deleted THEN 0 ELSE r.slots[k].current)

not_inline(r, k) == DOMAIN r.slots = {} \/ (~r.deleted /\ k \notin DOMAIN r.slots)

ReadOverflow(a, k) ==
  /\ executing
  /\ LET r == find_or_create_account(a)
     IN  /\ not_inline(r, k)
         /\ k \in DOMAIN r.overflow
         /\ StorageRead(a, k, r, r.overflow[k])

\* recover_slot_from_nodestore: an entry it has, or, before end_recovery(),
\* what a walk under the record's root finds.
ReadRecovered(a, k) ==
  /\ executing
  /\ LET r == find_or_create_account(a)
         walked == [found |-> r.root[k] # 0, initial |-> r.root[k], current |-> r.root[k]]
         add == [r EXCEPT !.recovered =
                   [j \in DOMAIN @ \cup {k} |-> IF j = k THEN walked ELSE @[j]]]
     IN  /\ not_inline(r, k)
         /\ k \notin DOMAIN r.overflow
         /\ recovers /\ ~r.deleted
         /\ \/ /\ k \in DOMAIN r.recovered
               /\ StorageRead(a, k, r, r.recovered[k].current)
            \/ /\ k \notin DOMAIN r.recovered
               /\ ~recovery_ended_
               /\ StorageRead(a, k, add, r.root[k])

ReadAbsent(a, k) ==
  /\ executing
  /\ LET r == find_or_create_account(a)
     IN  /\ not_inline(r, k)
         /\ k \notin DOMAIN r.overflow
         /\ ~(recovers /\ ~r.deleted /\ (k \in DOMAIN r.recovered \/ ~recovery_ended_))
         /\ StorageRead(a, k, IF r.deleted THEN r ELSE note_absent_read_(r, k), 0)

read_storage(a, k) ==
  ReadSlot(a, k) \/ ReadOverflow(a, k) \/ ReadRecovered(a, k) \/ ReadAbsent(a, k)

\* A walk of the node store that meets a missing node: fatal().
RecoveryFails ==
  /\ executing
  /\ recovers /\ ~recovery_ended_ /\ nodes = "some"
  /\ verdict' = "aborted"
  /\ UNCHANGED <<bundle, rec, created_code, witness_incomplete_, touched_, journal,
                 recovery_ended_, control, loaded, ref, agreed, header_root>>

-----------------------------------------------------------------------------
\* What a transaction's state diff does

apply_modified(r, d) ==
  LET live == revive_if_deleted(r)
      coded == IF d.code = "same" THEN live ELSE apply_code_diff(live, d.code)
  IN  set_storage_slots(set_account_from_diff(coded, d.nonce, d.balance), d.writes)

journaled(A) == journal' = IF multi_block_ THEN journal \cup A ELSE journal

end_transaction ==
  /\ loaded' = {}
  /\ diffs < MaxDiffs
  /\ diffs' = diffs + 1
  /\ UNCHANGED <<bundle, witness_incomplete_, recovery_ended_, block, agreed,
                 header_root, verdict>>

\* apply_state_diff, for a modified account. The accounts of a diff are
\* distinct and handled one after the other: a diff of several accounts is
\* several of these steps.
ApplyModified(a, d) ==
  /\ executing
  /\ LET r == find_or_create_account(a)
     IN  /\ evm_allows(get_account(r), {k \in Key : <<a, k>> \in loaded}, d)
         /\ rec' = [rec EXCEPT ![a] = apply_modified(r, d)]
  /\ created_code' = IF d.code \in {"same", "none"} THEN created_code ELSE created_code \cup {d.code}
  /\ ref' = [ref EXCEPT ![a] = modified_in(@, d)]
  /\ journaled({a})
  /\ end_transaction
  /\ UNCHANGED <<touched_, phase>>

\* apply_state_diff, for a deleted account, which the EVM has read.
ApplyDeleted(a) ==
  /\ executing
  /\ rec[a].place # "none"
  /\ rec' = [rec EXCEPT ![a] = destruct(@)]
  /\ ref' = [ref EXCEPT ![a] = NoLeaf]
  /\ touched_' = touched_ \cup {a}
  /\ journaled({a})
  /\ end_transaction
  /\ UNCHANGED <<created_code, phase>>

-----------------------------------------------------------------------------
\* execute_block, around the transactions

\* destruct_dead_among(T), on the records R.
dead_among(R, T) == {a \in T : is_dead(R[a])}
destruct_dead_among(R, T) ==
  [a \in Addr |-> IF a \in dead_among(R, T) THEN destruct(R[a]) ELSE R[a]]

\* The block-start system calls are over.
BeginTransactions ==
  /\ verdict = "running" /\ phase = "start"
  /\ phase' = "transactions"
  /\ rec' = destruct_dead_among(rec, touched_)
  /\ journaled(dead_among(rec, touched_))
  /\ loaded' = {}
  /\ UNCHANGED <<bundle, created_code, witness_incomplete_, touched_, recovery_ended_,
                 block, diffs, ref, agreed, header_root, verdict>>

\* clear_touched(), before the block-end system calls.
EndTransactions ==
  /\ verdict = "running" /\ phase = "transactions"
  /\ phase' = "requests"
  /\ touched_' = {}
  /\ loaded' = {}
  /\ UNCHANGED <<bundle, rec, created_code, witness_incomplete_, journal,
                 recovery_ended_, block, diffs, ref, agreed, header_root, verdict>>

add_to_balance(r, addend) ==
  LET live == revive_if_deleted(r)
  IN  IF addend = 0 THEN live
      ELSE [live EXCEPT !.balance = @ + addend, !.modified = TRUE, !.stamped = FALSE]

\* One round of MergeRuleSet::finalize's loop.
Withdrawal(a, amount) ==
  /\ verdict = "running" /\ phase \in {"requests", "withdrawals"}
  /\ phase' = "withdrawals"
  /\ LET r == find_or_create_account(a)
         paid == [rec EXCEPT ![a] = add_to_balance(r, amount)]
     IN  /\ (IF r.deleted THEN 0 ELSE r.balance) + amount <= MaxBalance
         /\ ref[a].balance + amount <= MaxBalance
         /\ rec' = destruct_dead_among(paid, touched_ \cup {a})
         /\ journaled(dead_among(paid, touched_ \cup {a}) \cup
                      (IF amount = 0 THEN {} ELSE {a}))
  /\ touched_' = touched_ \cup {a}
  /\ ref' = [ref EXCEPT ![a] = withdrawn_in(@, amount)]
  /\ end_transaction
  /\ UNCHANGED created_code

EndBlock ==
  /\ verdict = "running" /\ phase \in {"requests", "withdrawals"}
  /\ phase' = "executed"
  /\ rec' = destruct_dead_among(rec, touched_)
  /\ journaled(dead_among(rec, touched_))
  /\ loaded' = {}
  /\ UNCHANGED <<bundle, created_code, witness_incomplete_, touched_, recovery_ended_,
                 block, diffs, ref, agreed, header_root, verdict>>

-----------------------------------------------------------------------------
\* check_root

\* A walk of a trie (calc_root_from_updates): it fails unless each update's
\* initial value is what the trie holds at its key, and returns the trie with
\* the current values. Here claims and currents are functions on the same keys.
walk_holds(trie, claims) == \A k \in DOMAIN claims : trie[k] = claims[k]
walked(trie, currents) ==
  [k \in DOMAIN trie |-> IF k \in DOMAIN currents THEN currents[k] ELSE trie[k]]

\* Mutant: the negative entries are not skipped.
found_slots_M1(r) == DOMAIN r.recovered

found_slots(r) == {k \in DOMAIN r.recovered : r.recovered[k].found}

\* The updates of a record's storage: its witness slots, its overflow slots,
\* the absent reads less the overflow slots, and the recovered slots found.
storage_keys(r) == DOMAIN r.slots \cup DOMAIN r.overflow \cup r.absent_reads \cup found_slots(r)

storage_claims(r) ==
  [k \in storage_keys(r) |->
     IF k \in DOMAIN r.slots THEN r.slots[k].initial
     ELSE IF k \in found_slots(r) THEN r.recovered[k].initial ELSE 0]

storage_currents(r) ==
  [k \in storage_keys(r) |->
     IF k \in DOMAIN r.slots THEN (IF r.modified THEN r.slots[k].current ELSE r.slots[k].initial)
     ELSE IF k \in DOMAIN r.overflow THEN r.overflow[k]
     ELSE IF k \in found_slots(r)
       THEN (IF r.modified THEN r.recovered[k].current ELSE r.recovered[k].initial) ELSE 0]

\* A recovered record's: only when it is modified, and without absent reads.
rec_storage_keys(r) == DOMAIN r.overflow \cup found_slots(r)

\* The record check_root goes by for an address the witness carries: the
\* lookup's, or the untouched one the address map does not lead to.
witness_record(a) == IF a \in mapped THEN rec[a] ELSE sanitize(witness[a])

wiped_storage_bound(w) ==
  /\ walk_holds(w.root, w.slots)
  /\ \A k \in w.absent_reads : w.root[k] = 0

\* Mutant: a modified account's walk has to come back to its root too.
storage_bound_M1(r) ==
  /\ walk_holds(r.root, storage_claims(r))
  /\ walked(r.root, storage_currents(r)) = r.root

\* The storage walk of a record, and the root it leaves in its leaf.
storage_bound(r) ==
  /\ walk_holds(r.root, storage_claims(r))
  /\ r.modified \/ r.place = "created" \/ walked(r.root, storage_currents(r)) = r.root

storage_root_after(r) == walked(r.root, storage_currents(r))

\* The update of an account's leaf: its initial value and its current one.
existing_initial(r) == r.acc_rlp
existing_current(r) ==
  IF r.deleted THEN NoLeaf
  ELSE IF r.modified THEN rlp_into(r, storage_root_after(r)) ELSE r.acc_rlp

created_current(r) == IF r.deleted THEN NoLeaf ELSE rlp_into(r, storage_root_after(r))

recovered_bound(r) ==
  r.deleted \/ ~r.modified \/ is_empty(r) \/
  walk_holds(r.root, [k \in rec_storage_keys(r) |->
                        IF k \in found_slots(r) THEN r.recovered[k].initial ELSE 0])
recovered_current(r) ==
  IF r.deleted \/ (r.modified /\ is_empty(r)) THEN NoLeaf
  ELSE IF ~r.modified THEN r.acc_rlp
  ELSE rlp_into(r, walked(r.root, [k \in rec_storage_keys(r) |->
                     IF k \in DOMAIN r.overflow THEN r.overflow[k] ELSE r.recovered[k].current]))

created_records == {a \in Addr : rec[a].place = "created"}
recovered_records == {a \in Addr : rec[a].place = "recovered"}

\* Every walk check_root makes, and the clash of a created record with one of
\* the witness's.
check_root_bound ==
  /\ \A a \in Addr : \A w \in rec[a].wiped : wiped_storage_bound(w)
  /\ created_records \cap DOMAIN witness = {}
  /\ \A a \in DOMAIN witness :
       LET r == witness_record(a)
       IN  (r.deleted \/ storage_bound(r)) /\ existing_initial(r) = pre[a]
  /\ \A a \in created_records : (rec[a].deleted \/ storage_bound(rec[a])) /\ pre[a] = NoLeaf
  /\ \A a \in recovered_records : recovered_bound(rec[a]) /\ rec[a].acc_rlp = pre[a]

new_root ==
  [a \in Addr |->
     IF a \in DOMAIN witness THEN existing_current(witness_record(a))
     ELSE IF a \in created_records THEN created_current(rec[a])
     ELSE IF a \in recovered_records THEN recovered_current(rec[a])
     ELSE pre[a]]

\* Of what the records hold, without the tries.
account_storage_root(r) ==
  [k \in Key |->
     IF k \in found_slots(r) /\ r.recovered[k].current # 0 THEN r.recovered[k].current
     ELSE IF k \in DOMAIN r.overflow THEN r.overflow[k]
     ELSE IF r.place = "pre" /\ ~r.deleted /\ k \in DOMAIN r.slots THEN r.slots[k].current
     ELSE 0]

state_root_hash(R) ==
  [a \in Addr |->
     LET r == IF R[a].place = "none" /\ a \in DOMAIN witness THEN sanitize(witness[a]) ELSE R[a]
     IN  IF r.deleted THEN NoLeaf ELSE rlp_into(r, account_storage_root(R[a]))]

refresh_caches(J) ==
  [a \in Addr |-> IF a \in J THEN rlp_into_cache(rec[a], account_storage_root(rec[a])) ELSE rec[a]]

\* The records after check_root has walked the bundle's first block.
after_check_root ==
  LET fresh == refresh_caches({a \in journal : ~is_dead(rec[a])})
  IN  [a \in Addr |-> IF fresh[a].deleted \/ fresh[a].place = "recovered" THEN fresh[a]
                      ELSE [fresh[a] EXCEPT !.absent_reads = {}]]

decide(ok, h) ==
  /\ header_root' = h
  /\ verdict' = IF ok THEN "accepted" ELSE "rejected"
  /\ UNCHANGED <<bundle, created_code, witness_incomplete_, touched_, control, loaded,
                 ref, agreed>>

\* run_one_bundle from insert_block's return to the whole-state check, for the
\* bundle's first block: h is its header.state_root. Next lets h be the root the
\* block leads to or the one the guest computes: any other is rejected alike.
CheckRoot(h) ==
  /\ verdict = "running" /\ phase = "executed" /\ block = 1
  /\ \/ /\ ~witness_incomplete_ /\ check_root_bound
        /\ rec' = after_check_root
        /\ journal' = {}
        /\ recovery_ended_' = scenario.USE_HASH_KEY
        /\ decide(new_root = h /\ (multi_block_ => state_root_hash(after_check_root) = h), h)
     \/ /\ witness_incomplete_ \/ ~check_root_bound \/ nodes # "all"
        /\ decide(FALSE, h)
        /\ UNCHANGED <<rec, journal, recovery_ended_>>

fresh_records == refresh_caches({a \in journal : ~rec[a].deleted})

\* check_root_new_block builds the root from the cached leaf of every record.
leaves_root ==
  [a \in Addr |->
     IF a \in DOMAIN witness /\ a \notin mapped THEN witness[a].leaf
     ELSE IF fresh_records[a].deleted THEN NoLeaf ELSE fresh_records[a].acc_rlp]

\* The same for a later block of the bundle.
CheckRootNewBlock(h) ==
  /\ verdict = "running" /\ phase = "executed" /\ block > 1
  /\ \/ /\ ~witness_incomplete_
        /\ rec' = fresh_records
        /\ journal' = {}
        /\ decide(created_records \cap DOMAIN witness = {} /\ leaves_root = h, h)
     \/ /\ witness_incomplete_
        /\ decide(FALSE, h)
        /\ UNCHANGED <<rec, journal>>
  /\ UNCHANGED recovery_ended_

\* The next block of the bundle, on the state the accepted one left.
NextBlock ==
  /\ verdict = "accepted" /\ block < scenario.blocks
  /\ block' = block + 1
  /\ phase' = "start"
  /\ diffs' = 0
  /\ verdict' = "running"
  /\ witness_incomplete_' = FALSE
  /\ UNCHANGED <<bundle, rec, created_code, touched_, journal, recovery_ended_, loaded,
                 ref, agreed, header_root>>

-----------------------------------------------------------------------------
Init ==
  /\ scenario \in Scenarios
  /\ pre \in scenario.pre
  /\ head_root \in {pre} \cup scenario.others
  /\ \E W \in SUBSET Addr :
       /\ witness \in [W -> [leaf : scenario.leaves,
                             slots : UNION {[D -> Value] : D \in SUBSET scenario.keys}]]
       /\ mapped \in SUBSET W
  /\ nodes \in scenario.nodes
  /\ codes \in scenario.codes
  /\ rec = [a \in Addr |-> IF a \in mapped THEN sanitize(witness[a]) ELSE EmptyRecord]
  /\ created_code = {} /\ witness_incomplete_ = FALSE
  /\ touched_ = {} /\ journal = {} /\ recovery_ended_ = FALSE
  /\ block = 1 /\ phase = "start" /\ diffs = 0
  /\ loaded = {}
  /\ ref = pre /\ agreed = TRUE
  /\ header_root = pre /\ verdict = "running"

Next ==
  \/ \E a \in Addr : GetAccount(a) \/ ReadCode(a) \/ ApplyDeleted(a)
  \/ \E a \in Addr, k \in scenario.keys : read_storage(a, k)
  \/ executing /\ diffs < MaxDiffs /\ \E a \in Addr, d \in Diff : ApplyModified(a, d)
  \/ \E a \in Addr, amount \in {0, 1} : Withdrawal(a, amount)
  \/ RecoveryFails
  \/ BeginTransactions \/ EndTransactions \/ EndBlock
  \/ phase = "executed" /\ \E h \in {ref, new_root} : CheckRoot(h)
  \/ phase = "executed" /\ \E h \in {ref, leaves_root} : CheckRootNewBlock(h)
  \/ NextBlock

Spec == Init /\ [][Next]_vars

-----------------------------------------------------------------------------
\* Properties

\* A block is accepted only if everything it read, of the accounts, code and slots
\* the witness carries, of those it leaves out and of those recovered from the node
\* store, was what the parent's state (or, for a later block of the bundle, the
\* state the block before left) holds, and its header commits to exactly the state
\* its diffs and withdrawals lead to: check_root, check_root_new_block and the
\* whole-state check between them.
AcceptedIsRight == verdict = "accepted" => agreed /\ header_root = ref

\* The records and slots the witness carries are the parent state's, its address
\* map leads to each, and no node is missing.
honest ==
  /\ nodes = "all" /\ mapped = DOMAIN witness /\ head_root = pre
  /\ \A a \in DOMAIN witness :
       /\ witness[a].leaf = pre[a]
       /\ \A k \in DOMAIN witness[a].slots : witness[a].slots[k] = pre[a].root[k]

\* The records hold the whole state, as a multi-block bundle's have to.
whole ==
  \A a \in Addr : pre[a] # NoLeaf =>
    /\ rec[a].place # "none"
    /\ rec[a].deleted \/ \A k \in Key : rec[a].root[k] # 0 =>
                           k \in DOMAIN rec[a].slots \cup found_slots(rec[a])

\* An honest witness is never rejected: if the header commits to the state the
\* block leads to, and the witness leaves out nothing that the block read, no walk
\* of check_root fails, whatever the block deleted, revived, redeployed, cleared,
\* wrote and paid, in whatever order.
HonestAccepted ==
  (verdict = "rejected" /\ header_root = ref /\ honest /\ (multi_block_ => whole)) =>
    \/ ~agreed \/ witness_incomplete_
    \/ \E a \in created_records : pre[a] # NoLeaf

\* The walks need the keys of their updates distinct. A storage walk's come from
\* the witness slots, the overflow slots, the absent reads and the recovered slots;
\* the account walk's from the witness, the created and the recovered records.
UpdatesDistinct ==
  \A a \in Addr :
    LET r == rec[a]
    IN  /\ DOMAIN r.slots \cap DOMAIN r.overflow = {}
        /\ DOMAIN r.slots \cap r.absent_reads = {}
        /\ found_slots(r) \cap (DOMAIN r.slots \cup DOMAIN r.overflow \cup r.absent_reads) = {}
        /\ r.place # "none" => (r.place = "pre") = (a \in mapped)
        /\ r.place = "recovered" => a \notin DOMAIN witness

\* A leaf cached in acc_rlp_buf is used only while it is right: a stamped one has
\* the record's nonce, balance and code, and in a later block of the bundle, where
\* check_root_new_block takes every leaf from the cache, only the records in the
\* change journal may have another leaf than the cached one.
CachesFresh ==
  \A a \in Addr :
    LET r == rec[a]
    IN  /\ r.stamped => leaf_of(r, EmptyRoot) = [r.acc_rlp EXCEPT !.root = EmptyRoot]
        /\ (block > 1 /\ a \notin journal /\ ~r.deleted) =>
              r.acc_rlp = leaf_of(r, account_storage_root(r))

====
