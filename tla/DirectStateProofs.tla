--------------------------- MODULE DirectStateProofs ---------------------------
(***************************************************************************)
(* Soundness and completeness of DirectState's accept checks, for any      *)
(* addresses, slots, values, parent states, witnesses and bundles, and any *)
(* number of blocks, diffs and withdrawals.                                *)
(***************************************************************************)
EXTENDS DirectState, TLAPS

WitnessRecord == [leaf : Leaf, slots : Partial(Value)]

TypeOK ==
  /\ scenario \in Scenario
  /\ pre \in State
  /\ head_root \in State
  /\ DOMAIN witness \subseteq Addr
  /\ \A a \in DOMAIN witness : witness[a] \in WitnessRecord
  /\ mapped \subseteq DOMAIN witness
  /\ rec \in [Addr -> Account]
  /\ touched_ \subseteq Addr
  /\ journal \subseteq Addr
  /\ loaded \subseteq Addr \X Key
  /\ ref \in State
  /\ agreed \in BOOLEAN
  /\ witness_incomplete_ \in BOOLEAN
  /\ recovery_ended_ \in BOOLEAN
  /\ block \in Nat \ {0}
  /\ verdict \in {"running", "accepted", "rejected", "aborted"}

-----------------------------------------------------------------------------
(* What holds of a record by itself. *)

\* A slot is in one place, and only a witness record has slots of its own.
SlotsApart(r) ==
  /\ DOMAIN r.slots # {} => r.place = "pre"
  /\ DOMAIN r.slots \cap DOMAIN r.overflow = {}
  /\ DOMAIN r.slots \cap r.absent_reads = {}
  /\ found_slots(r) \cap (DOMAIN r.slots \cup DOMAIN r.overflow \cup r.absent_reads) = {}

\* What was recovered is what the record's root holds.
WalkedRight(r) ==
  \A k \in DOMAIN r.recovered :
    /\ r.recovered[k].initial = r.root[k]
    /\ r.recovered[k].found <=> r.root[k] # 0
    /\ ~r.recovered[k].found => r.recovered[k].current = 0

\* A stamped leaf has the record's nonce, balance and code, and a recovered
\* record began as a leaf.
StampRight(r) ==
  /\ r.stamped => r.acc_rlp.nonce = r.nonce /\ r.acc_rlp.balance = r.balance /\ r.acc_rlp.code = r.code
  /\ r.place = "recovered" => r.acc_rlp # NoLeaf

\* A deleted record holds no slot but its witness slots, a created one began
\* with none.
Emptied(r) ==
  /\ r.deleted => r.overflow = Nothing /\ r.recovered = Nothing
  /\ r.place = "created" => r.root = EmptyRoot /\ r.absent_reads = {}

Unwritten(r) ==
  /\ r.overflow = Nothing
  /\ \A k \in DOMAIN r.slots : r.slots[k].current = r.slots[k].initial
  /\ \A k \in DOMAIN r.recovered : r.recovered[k].current = r.recovered[k].initial

\* Slots are written only in a record that is marked, and that is not of an
\* account without nonce and code.
Marked(r) == ~r.deleted /\ (~r.modified \/ (r.nonce = 0 /\ r.code = "none")) => Unwritten(r)

Shape(r) ==
  /\ r.place = "none" => r = EmptyRecord
  /\ SlotsApart(r) /\ WalkedRight(r) /\ StampRight(r) /\ Emptied(r) /\ Marked(r)

\* An account left empty is deleted.
NonEmpty(r) == r.modified => ~is_empty_account(r)

\* The records hold all of an account once the first block of several is accepted.
Covered(r) == r.deleted \/ \A k \in Key : r.root[k] # 0 => k \in DOMAIN r.slots \cup found_slots(r)

\* The value a record gives to a slot: the one written, or what its root holds.
slot_value(r, k) ==
  IF k \in DOMAIN r.slots THEN r.slots[k].current
  ELSE IF k \in DOMAIN r.overflow THEN r.overflow[k]
  ELSE IF k \in found_slots(r) THEN r.recovered[k].current ELSE r.root[k]

-----------------------------------------------------------------------------
(* What holds of the record r of an address a in its bundle. *)

\* The first block until its check, which binds what it read; and all later ones.
early == block = 1 /\ verdict = "running"
settled == block > 1 \/ (verdict = "accepted" /\ multi_block_)

Placed(a, r) ==
  /\ r.place = "pre" <=> a \in mapped
  /\ r.place = "recovered" => a \notin DOMAIN witness /\ recovers
  /\ DOMAIN r.recovered # {} => recovers
  /\ recovers /\ ~recovery_ended_ => r.absent_reads = {}

\* What the checks go by, as far as it concerns a: of the first block every
\* walk, of a later one that no record was created beside a witness record.
Claims(a, r) ==
  /\ r.place = "created" => a \notin DOMAIN witness
  /\ early =>
       /\ \A w \in r.wiped : wiped_storage_bound(w)
       /\ r.place = "created" => pre[a] = NoLeaf
       /\ r.place \in {"pre", "recovered"} => r.acc_rlp = pre[a]
       /\ a \in DOMAIN witness \ mapped => witness[a].leaf = pre[a]
       /\ r.place = "pre" /\ ~r.deleted =>
            /\ \A k \in DOMAIN r.slots : r.slots[k].initial = r.root[k]
            /\ \A k \in r.absent_reads : r.root[k] = 0

\* The slots of a that the running transaction has read.
read_slots(read, a) == {k \in Key : <<a, k>> \in read}

\* The record says that a's leaf is l, the slots of L being read.
Fits(a, r, l, L) ==
  /\ r.place # "none" /\ r.deleted => l = NoLeaf
  /\ ~r.deleted =>
       /\ l.nonce = r.nonce /\ l.balance = r.balance /\ l.code = r.code
       /\ \A k \in Key : l.root[k] = slot_value(r, k)
       /\ \A k \in DOMAIN r.slots : r.slots[k].initial = r.root[k]
       /\ \A k \in DOMAIN r.overflow : r.root[k] = 0
       /\ \A k \in L : k \in DOMAIN r.slots \cup found_slots(r) \/ r.root[k] = 0
       /\ early /\ ~r.modified => l = pre[a]

\* In a later block the records are the state, and the cached leaves of those
\* not in the journal are right.
Settled(a, r, l, journaled_already) ==
  /\ Covered(r)
  /\ r.place = "none" => l = IF a \in DOMAIN witness THEN witness[a].leaf ELSE NoLeaf
  /\ ~journaled_already /\ ~r.deleted => r.acc_rlp = leaf_of(r, account_storage_root(r))

-----------------------------------------------------------------------------
(* The inductive invariant. *)

RecordsInv ==
  \A a \in Addr :
    /\ Shape(rec[a]) /\ NonEmpty(rec[a]) /\ Placed(a, rec[a])
    /\ a \in touched_ \cup journal => ~is_empty_account(rec[a])
    /\ rec[a].place = "none" => ref[a] = pre[a] /\ read_slots(loaded, a) = {} /\ a \notin touched_ \cup journal

ControlInv ==
  /\ early => ~recovery_ended_
  /\ block > 1 => multi_block_ /\ (recovers => recovery_ended_)
  /\ verdict = "accepted" => (recovers => recovery_ended_)
  /\ early /\ multi_block_ => \A a \in Addr : rec[a].modified => a \in journal

SettledInv == settled => \A a \in Addr : Settled(a, rec[a], ref[a], a \in journal)

Right == agreed /\ \A a \in Addr : Fits(a, rec[a], ref[a], read_slots(loaded, a))

\* As long as the claims hold, every read was right.
SoundInv ==
  /\ verdict = "running" /\ ~witness_incomplete_ /\ (\A a \in Addr : Claims(a, rec[a])) => Right
  /\ verdict = "accepted" => Right

\* Of an honest witness only what it leaves out can fail a claim.
HonestInv ==
  verdict = "running" /\ honest /\ agreed /\ ~witness_incomplete_
    /\ (\A a \in created_records : pre[a] = NoLeaf)
    => \A a \in Addr : Claims(a, rec[a])

IInv ==
  /\ TypeOK /\ RecordsInv /\ ControlInv /\ SettledInv /\ SoundInv /\ HonestInv
  /\ AcceptedIsRight /\ HonestAccepted

-----------------------------------------------------------------------------
(* Leaves, slots and records. *)

LEMMA LeafFacts ==
  /\ EmptyRoot \in Storage
  /\ \A k \in Key : EmptyRoot[k] = 0
  /\ \A l \in Leaf : l # NoLeaf /\ l.code \in Code
  /\ NoLeaf.code \notin Code /\ NoLeaf.root = EmptyRoot
  /\ 0 \in Value /\ 0 \in 0..MaxBalance /\ 1 \in 0..MaxBalance
<1>1. 0 \in Value /\ 0 \in 0..MaxBalance /\ 1 \in 0..MaxBalance
  BY BoundsAssumption DEF Value
<1>2. EmptyRoot \in Storage /\ \A k \in Key : EmptyRoot[k] = 0
  BY Zenon, <1>1 DEF EmptyRoot, Storage
<1>3. NoLeaf.code \notin Code /\ NoLeaf.root = EmptyRoot
  BY Zenon DEF NoLeaf, Code
<1>4. ASSUME NEW l \in Leaf PROVE l # NoLeaf /\ l.code \in Code
  <2>1. l.code \in Code
    BY Zenon DEF Leaf
  <2> QED
    BY Zenon, <1>3, <2>1
<1> QED
  BY Zenon, <1>1, <1>2, <1>3, <1>4

LEMMA PartialFacts ==
  ASSUME NEW S
  PROVE  /\ \A o \in Partial(S) : DOMAIN o \subseteq Key /\ o \in [DOMAIN o -> S] /\ \A k \in DOMAIN o : o[k] \in S
         /\ Nothing \in Partial(S) /\ DOMAIN Nothing = {}
         /\ \A K \in SUBSET Key : \A o \in [K -> S] : o \in Partial(S)
         /\ \A o \in Partial(S) : DOMAIN o = {} => o = Nothing
<1>1. \A K \in SUBSET Key : \A o \in [K -> S] : o \in Partial(S)
  BY Zenon DEF Partial
<1>2. DOMAIN Nothing = {} /\ Nothing \in [{} -> S]
  BY Zenon DEF Nothing
<1>3. \A o \in Partial(S) : DOMAIN o \subseteq Key /\ o \in [DOMAIN o -> S] /\ \A k \in DOMAIN o : o[k] \in S
  BY Zenon DEF Partial
<1>4. ASSUME NEW o \in Partial(S), DOMAIN o = {} PROVE o = Nothing
  BY Zenon, <1>3, <1>4 DEF Nothing
<1> QED
  BY Zenon, <1>1, <1>2, <1>3, <1>4

LEMMA InPartial ==
  ASSUME NEW S, NEW K \in SUBSET Key, NEW o \in [K -> S]
  PROVE  o \in Partial(S)
  BY Zenon, PartialFacts

\* The types of a record's fields.
LEMMA AccountFacts ==
  ASSUME NEW r \in Account
  PROVE  /\ r.place \in {"none", "pre", "created", "recovered"}
         /\ r.nonce \in {0, 1} /\ r.balance \in 0..MaxBalance /\ r.code \in Code
         /\ r.root \in Storage /\ r.deleted \in BOOLEAN /\ r.modified \in BOOLEAN
         /\ r.stamped \in BOOLEAN /\ r.acc_rlp \in Leaf \cup {NoLeaf}
         /\ r.slots \in Partial(Slot) /\ r.overflow \in Partial(Value \ {0})
         /\ r.recovered \in Partial(RecoveredSlot)
         /\ r.absent_reads \subseteq Key /\ r.wiped \subseteq WipedStorage
         /\ DOMAIN r.slots \subseteq Key /\ DOMAIN r.overflow \subseteq Key
         /\ DOMAIN r.recovered \subseteq Key /\ found_slots(r) \subseteq DOMAIN r.recovered
  BY PartialFacts DEF Account, found_slots

LEMMA SameAccount ==
  ASSUME NEW r \in Account, NEW m \in Account,
         m.place = r.place, m.nonce = r.nonce, m.balance = r.balance, m.code = r.code,
         m.root = r.root, m.slots = r.slots, m.deleted = r.deleted, m.modified = r.modified,
         m.absent_reads = r.absent_reads, m.acc_rlp = r.acc_rlp, m.stamped = r.stamped,
         m.overflow = r.overflow, m.recovered = r.recovered, m.wiped = r.wiped
  PROVE  m = r
  BY DEF Account

LEMMA FoundNone ==
  ASSUME NEW r, r.recovered = Nothing
  PROVE  found_slots(r) = {} /\ DOMAIN r.recovered = {}
  BY Zenon, PartialFacts DEF found_slots

\* A record without slots, which no one has written.
LEMMA BareShape ==
  ASSUME NEW r \in Account, r.slots = Nothing, r.overflow = Nothing, r.recovered = Nothing,
         r.absent_reads = {}, StampRight(r), r.place # "none" \/ r = EmptyRecord,
         r.place = "created" => r.root = EmptyRoot
  PROVE  Shape(r)
  BY Zenon, PartialFacts, FoundNone DEF Shape, SlotsApart, WalkedRight, Emptied, Marked, Unwritten

LEMMA EmptyRecordShape ==
  /\ EmptyRecord \in Account /\ Shape(EmptyRecord) /\ NonEmpty(EmptyRecord)
  /\ materialize_absent_account_ \in Account
  /\ Shape(materialize_absent_account_) /\ NonEmpty(materialize_absent_account_)
<1>1. EmptyRecord \in Account
  BY Zenon, LeafFacts, PartialFacts DEF EmptyRecord, Account, Code
<1>2. materialize_absent_account_ \in Account
  BY Zenon, <1>1 DEF materialize_absent_account_, Account
<1>3. Shape(EmptyRecord) /\ Shape(materialize_absent_account_)
  BY Zenon, <1>1, <1>2, BareShape DEF EmptyRecord, materialize_absent_account_, StampRight
<1> QED
  BY Zenon, <1>1, <1>2, <1>3 DEF NonEmpty, EmptyRecord, materialize_absent_account_

LEMMA NoneDeleted ==
  ASSUME NEW r, Shape(r), r.place = "none"
  PROVE  r.deleted
  BY DEF Shape, EmptyRecord

LEMMA FromLeaf ==
  ASSUME NEW l \in Leaf, NEW where \in {"pre", "recovered"}, NEW s \in Partial(Slot)
  PROVE  LET r == from_leaf(l, where, s)
         IN  /\ r \in Account
             /\ r.place = where /\ r.nonce = l.nonce /\ r.balance = l.balance /\ r.code = l.code
             /\ r.root = l.root /\ r.slots = s /\ ~r.deleted /\ ~r.modified /\ r.absent_reads = {}
             /\ r.acc_rlp = l /\ r.stamped /\ r.overflow = Nothing /\ r.recovered = Nothing
             /\ r.wiped = {} /\ StampRight(r) /\ NonEmpty(r)
<1> DEFINE r == from_leaf(l, where, s)
<1>1. r.place = where /\ r.nonce = l.nonce /\ r.balance = l.balance /\ r.code = l.code
      /\ r.root = l.root /\ r.slots = s /\ ~r.deleted /\ ~r.modified /\ r.absent_reads = {}
      /\ r.acc_rlp = l /\ r.stamped /\ r.overflow = Nothing /\ r.recovered = Nothing
      /\ r.wiped = {}
  BY Zenon DEF from_leaf, EmptyRecord
<1>2. l.nonce \in {0, 1} /\ l.balance \in 0..MaxBalance /\ l.code \in Code /\ l.root \in Storage
  BY Zenon DEF Leaf
<1>3. r \in Account
  BY Zenon, <1>2, EmptyRecordShape DEF from_leaf, Account
<1>4. StampRight(r) /\ NonEmpty(r)
  BY Zenon, <1>1, LeafFacts DEF StampRight, NonEmpty
<1> QED
  BY Zenon, <1>1, <1>3, <1>4

\* A witness record as execution starts from it.
LEMMA Sanitized ==
  ASSUME NEW w \in WitnessRecord
  PROVE  LET r == sanitize(w)
         IN  /\ r \in Account /\ Shape(r) /\ NonEmpty(r)
             /\ r.place = "pre" /\ r.nonce = w.leaf.nonce /\ r.balance = w.leaf.balance
             /\ r.code = w.leaf.code /\ r.root = w.leaf.root /\ ~r.deleted /\ ~r.modified
             /\ r.absent_reads = {} /\ r.acc_rlp = w.leaf /\ r.stamped
             /\ r.overflow = Nothing /\ r.recovered = Nothing /\ r.wiped = {}
             /\ DOMAIN r.slots = DOMAIN w.slots
             /\ \A k \in DOMAIN r.slots : r.slots[k].initial = w.slots[k] /\ r.slots[k].current = w.slots[k]
<1> DEFINE s == [k \in DOMAIN w.slots |-> [initial |-> w.slots[k], current |-> w.slots[k]]]
           r == from_leaf(w.leaf, "pre", s)
<1>1. w.leaf \in Leaf /\ w.slots \in Partial(Value)
  BY Zenon DEF WitnessRecord
<1>2. s \in Partial(Slot)
  <2>1. DOMAIN w.slots \subseteq Key /\ \A k \in DOMAIN w.slots : w.slots[k] \in Value
    BY Zenon, <1>1, PartialFacts
  <2>2. s \in [DOMAIN w.slots -> Slot]
    BY Zenon, <2>1 DEF Slot
  <2> QED
    BY Zenon, <2>1, <2>2, PartialFacts
<1>3. sanitize(w) = r
  BY Zenon DEF sanitize
<1>4. DOMAIN s = DOMAIN w.slots /\ \A k \in DOMAIN s : s[k].initial = w.slots[k] /\ s[k].current = w.slots[k]
  BY Zenon
<1> HIDE DEF s
<1>5. /\ r \in Account
      /\ r.place = "pre" /\ r.nonce = w.leaf.nonce /\ r.balance = w.leaf.balance /\ r.code = w.leaf.code
      /\ r.root = w.leaf.root /\ r.slots = s /\ ~r.deleted /\ ~r.modified /\ r.absent_reads = {}
      /\ r.acc_rlp = w.leaf /\ r.stamped /\ r.overflow = Nothing /\ r.recovered = Nothing
      /\ r.wiped = {} /\ StampRight(r) /\ NonEmpty(r)
  BY Zenon, <1>1, <1>2, FromLeaf
<1> HIDE DEF r
<1>6. Shape(r)
  <2>1. found_slots(r) = {} /\ DOMAIN r.recovered = {} /\ DOMAIN r.overflow = {}
    BY Zenon, <1>5, FoundNone, PartialFacts
  <2>2. Unwritten(r)
    BY Zenon, <1>4, <1>5, <2>1 DEF Unwritten
  <2> QED
    BY Zenon, <1>5, <2>1, <2>2 DEF Shape, SlotsApart, WalkedRight, Emptied, Marked
<1> QED
  BY Zenon, <1>3, <1>4, <1>5, <1>6

-----------------------------------------------------------------------------
(* Reading a record, and changing one. *)

\* The record find_or_create_account leaves is the one there is or one that
\* says no more than what the checks go by.
LEMMA Load ==
  ASSUME IInv, verdict = "running", NEW a \in Addr, NEW r, r = find_or_create_account(a)
  PROVE  /\ r \in Account /\ Shape(r) /\ NonEmpty(r) /\ Placed(a, r) /\ r.place # "none"
         /\ rec[a].place # "none" => r = rec[a]
         /\ rec[a].place = "none" => ~r.modified
         /\ a \in touched_ \cup journal => ~is_empty_account(r)
         /\ Claims(a, r) => Claims(a, rec[a])
         /\ Claims(a, r) /\ Fits(a, rec[a], ref[a], read_slots(loaded, a)) => Fits(a, r, ref[a], read_slots(loaded, a))
         /\ honest /\ Claims(a, rec[a]) /\ (r.place = "created" => pre[a] = NoLeaf) => Claims(a, r)
         /\ block > 1 => Settled(a, r, ref[a], a \in journal)
<1>1. rec[a] \in Account /\ Shape(rec[a]) /\ NonEmpty(rec[a]) /\ Placed(a, rec[a])
      /\ (a \in touched_ \cup journal => ~is_empty_account(rec[a]))
      /\ (rec[a].place = "none" => ref[a] = pre[a] /\ read_slots(loaded, a) = {} /\ a \notin touched_ \cup journal)
      /\ (block > 1 => Settled(a, rec[a], ref[a], a \in journal))
  BY Zenon DEF IInv, TypeOK, RecordsInv, SettledInv, settled
<1>2. CASE rec[a].place # "none"
  <2>1. r = rec[a]
    BY Zenon, <1>2 DEF find_or_create_account
  <2> QED
    BY Zenon, <1>1, <1>2, <2>1
<1>3. CASE rec[a].place = "none"
  <2>1. rec[a] = EmptyRecord /\ a \notin mapped /\ ref[a] = pre[a] /\ read_slots(loaded, a) = {}
        /\ a \notin touched_ \cup journal
    BY Zenon, <1>1, <1>3 DEF Shape, Placed
  <2>2. rec[a].wiped = {}
    BY <2>1 DEF EmptyRecord
  <2>3. r = recover_account_from_nodestore(a)
    BY Zenon, <1>3 DEF find_or_create_account
  <2>4. (honest => a \notin DOMAIN witness) /\ (block > 1 /\ recovers => recovery_ended_) /\ (early => block = 1)
    BY Zenon, <2>1 DEF honest, IInv, ControlInv, early
  <2>5. CASE recovers /\ ~recovery_ended_ /\ a \notin DOMAIN witness /\ head_root[a] # NoLeaf
    <3>1. head_root[a] \in Leaf
      BY Zenon, <2>5 DEF IInv, TypeOK, State
    <3>2. r = from_leaf(head_root[a], "recovered", Nothing) /\ Nothing \in Partial(Slot)
      BY Zenon, <2>3, <2>5, PartialFacts DEF recover_account_from_nodestore
    <3>3. /\ r \in Account
          /\ r.place = "recovered" /\ r.nonce = head_root[a].nonce /\ r.balance = head_root[a].balance
          /\ r.code = head_root[a].code /\ r.root = head_root[a].root /\ r.slots = Nothing
          /\ ~r.deleted /\ ~r.modified /\ r.absent_reads = {} /\ r.acc_rlp = head_root[a]
          /\ r.overflow = Nothing /\ r.recovered = Nothing /\ r.wiped = {} /\ StampRight(r) /\ NonEmpty(r)
      BY <3>1, <3>2, FromLeaf
    <3>4. Shape(r)
      BY Zenon, <3>3, BareShape
    <3>5. found_slots(r) = {} /\ DOMAIN r.recovered = {} /\ DOMAIN r.slots = {} /\ DOMAIN r.overflow = {}
      BY Zenon, <3>3, FoundNone, PartialFacts
    <3>6. Placed(a, r)
      BY Zenon, <2>1, <2>5, <3>3, <3>5 DEF Placed
    <3>7. block = 1
      BY <2>4, <2>5 DEF IInv, TypeOK
    <3>8. Claims(a, r) => Claims(a, rec[a])
      BY Zenon, <1>3, <2>2, <3>3 DEF Claims
    <3>9. Claims(a, r) => Fits(a, r, ref[a], read_slots(loaded, a))
      <4> SUFFICES ASSUME Claims(a, r) PROVE Fits(a, r, ref[a], read_slots(loaded, a))
          BY Zenon
      <4>1. pre[a] = head_root[a]
        BY Zenon, <3>3, <3>7 DEF Claims, early
      <4>2. \A k \in Key : slot_value(r, k) = r.root[k]
        BY Zenon, <3>5 DEF slot_value
      <4> QED
        BY <2>1, <3>3, <3>5, <4>1, <4>2 DEF Fits
    <3>10. honest /\ Claims(a, rec[a]) => Claims(a, r)
      BY Zenon, <2>4, <2>5, <3>3, <3>5 DEF Claims, honest
    <3> QED
      BY <1>3, <2>1, <3>3, <3>4, <3>6, <3>7, <3>8, <3>9, <3>10
  <2>6. CASE ~(recovers /\ ~recovery_ended_ /\ a \notin DOMAIN witness /\ head_root[a] # NoLeaf)
    <3>1. r = materialize_absent_account_
      BY Zenon, <2>3, <2>6 DEF recover_account_from_nodestore
    <3>2. /\ r.place = "created" /\ r.deleted /\ ~r.modified /\ r.absent_reads = {} /\ r.wiped = {}
          /\ r.slots = Nothing /\ r.recovered = Nothing
          /\ r \in Account /\ Shape(r) /\ NonEmpty(r)
      BY Zenon, <3>1, EmptyRecordShape DEF materialize_absent_account_, EmptyRecord
    <3>3. found_slots(r) = {} /\ DOMAIN r.recovered = {} /\ DOMAIN r.slots = {}
      BY Zenon, <3>2, FoundNone, PartialFacts
    <3>4. Placed(a, r)
      BY Zenon, <2>1, <3>2, <3>3 DEF Placed
    <3>5. Claims(a, r) => Claims(a, rec[a])
      BY Zenon, <1>3, <2>2, <3>2 DEF Claims
    <3>6. Claims(a, r) => Fits(a, r, ref[a], read_slots(loaded, a))
      <4> SUFFICES ASSUME Claims(a, r) PROVE ref[a] = NoLeaf
          BY Zenon, <3>2 DEF Fits
      <4>1. a \notin DOMAIN witness /\ (early => pre[a] = NoLeaf)
        BY Zenon, <3>2 DEF Claims
      <4>2. CASE early
        BY Zenon, <2>1, <4>1, <4>2
      <4>3. CASE ~early
        <5>1. block > 1
          BY <4>3 DEF early, IInv, TypeOK
        <5> QED
          BY Zenon, <1>1, <1>3, <4>1, <5>1 DEF Settled
      <4> QED
        BY Zenon, <4>2, <4>3
    <3>7. honest /\ (r.place = "created" => pre[a] = NoLeaf) => Claims(a, r)
      BY Zenon, <2>4, <3>2, <3>3 DEF Claims, honest
    <3>8. block > 1 => Settled(a, r, ref[a], a \in journal)
      BY Zenon, <3>2 DEF Settled, Covered
    <3> QED
      BY Zenon, <1>3, <2>1, <3>2, <3>4, <3>5, <3>6, <3>7, <3>8
  <2> QED
    BY Zenon, <2>5, <2>6
<1> QED
  BY Zenon, <1>2, <1>3

\* What a step leaves alone, the claims and the fits go by.
LEMMA Stays ==
  ASSUME UNCHANGED <<bundle, block, verdict, recovery_ended_>>
  PROVE  /\ UNCHANGED <<scenario, pre, head_root, witness, mapped, nodes, early, settled, recovers, multi_block_, honest>>
         /\ \A a, r : Claims(a, r)' <=> Claims(a, r)
         /\ \A a, r, l, L : Fits(a, r, l, L)' <=> Fits(a, r, l, L)
         /\ \A a, r : Placed(a, r)' <=> Placed(a, r)
         /\ \A a, r, l, j : Settled(a, r, l, j)' <=> Settled(a, r, l, j)
<1>1. UNCHANGED <<scenario, pre, head_root, witness, mapped, nodes>>
  BY Zenon DEF bundle
<1>2. UNCHANGED <<early, settled, recovers, multi_block_, honest>>
  BY Zenon, <1>1 DEF early, settled, recovers, multi_block_, honest
<1>3. \A a, r : Claims(a, r)' <=> Claims(a, r)
  BY <1>1, <1>2 DEF Claims
<1>4. \A a, r, l, L : Fits(a, r, l, L)' <=> Fits(a, r, l, L)
  BY <1>1, <1>2 DEF Fits
<1>5. \A a, r : Placed(a, r)' <=> Placed(a, r)
  BY Zenon, <1>1, <1>2 DEF Placed
<1>6. \A a, r, l, j : Settled(a, r, l, j)' <=> Settled(a, r, l, j)
  BY Zenon, <1>1 DEF Settled
<1> QED
  BY Zenon, <1>1, <1>2, <1>3, <1>4, <1>5, <1>6

LEMMA FitsFewer ==
  ASSUME NEW a, NEW r, NEW l, NEW L, NEW M \in SUBSET L, Fits(a, r, l, L)
  PROVE  Fits(a, r, l, M)
  BY Zenon DEF Fits

\* A step of the block that changes the record r of one address into m.
RecordChange(a, r, m) ==
  /\ verdict = "running" /\ r = find_or_create_account(a) /\ m \in Account
  /\ rec' = [rec EXCEPT ![a] = m]
  /\ UNCHANGED <<bundle, block, verdict, recovery_ended_>>
  /\ m.place = r.place
  /\ Shape(m) /\ NonEmpty(m) /\ Placed(a, m)
  /\ ref' \in State /\ \A b \in Addr \ {a} : ref'[b] = ref[b]
  /\ agreed' \in BOOLEAN /\ (agreed' => agreed)
  /\ witness_incomplete_' \in BOOLEAN /\ (witness_incomplete_ => witness_incomplete_')
  /\ touched_' \cup journal' \subseteq touched_ \cup journal \cup {a}
  /\ journal \subseteq journal'
  /\ a \in touched_' \cup journal' => ~is_empty_account(m)
  /\ loaded' \subseteq loaded \cup {<<a, k>> : k \in Key}
  /\ multi_block_ /\ m.modified => a \in journal' \/ m.modified = r.modified

LEMMA RecordStep ==
  ASSUME IInv, NEW a \in Addr, NEW r, NEW m, RecordChange(a, r, m),
         Claims(a, m) => Claims(a, r),
         ~witness_incomplete_' /\ Claims(a, m) /\ Claims(a, r) /\ Fits(a, r, ref[a], read_slots(loaded, a))
           => (agreed => agreed') /\ Fits(a, m, ref'[a], read_slots(loaded', a)),
         honest /\ agreed' /\ ~witness_incomplete_' /\ Claims(a, r) /\ Fits(a, r, ref[a], read_slots(loaded, a))
           => Claims(a, m),
         block > 1 /\ Settled(a, r, ref[a], a \in journal) => Settled(a, m, ref'[a], a \in journal')
  PROVE  IInv'
<1>0. /\ verdict = "running" /\ r = find_or_create_account(a) /\ m \in Account
      /\ rec' = [rec EXCEPT ![a] = m]
      /\ UNCHANGED <<bundle, block, verdict, recovery_ended_>>
      /\ m.place = r.place
      /\ Shape(m) /\ NonEmpty(m) /\ Placed(a, m)
      /\ ref' \in State /\ \A b \in Addr \ {a} : ref'[b] = ref[b]
      /\ agreed' \in BOOLEAN /\ (agreed' => agreed)
      /\ witness_incomplete_' \in BOOLEAN /\ (witness_incomplete_ => witness_incomplete_')
      /\ touched_' \cup journal' \subseteq touched_ \cup journal \cup {a}
      /\ journal \subseteq journal'
      /\ (a \in touched_' \cup journal' => ~is_empty_account(m))
      /\ loaded' \subseteq loaded \cup {<<a, k>> : k \in Key}
      /\ (multi_block_ /\ m.modified => a \in journal' \/ m.modified = r.modified)
  BY Zenon DEF RecordChange
<1>1. /\ r.place # "none"
      /\ rec[a].place # "none" => r = rec[a]
      /\ rec[a].place = "none" => ~r.modified
      /\ Claims(a, r) => Claims(a, rec[a])
      /\ Claims(a, r) /\ Fits(a, rec[a], ref[a], read_slots(loaded, a)) => Fits(a, r, ref[a], read_slots(loaded, a))
      /\ honest /\ Claims(a, rec[a]) /\ (r.place = "created" => pre[a] = NoLeaf) => Claims(a, r)
      /\ block > 1 => Settled(a, r, ref[a], a \in journal)
  BY Zenon, <1>0, Load
<1>2. /\ UNCHANGED <<scenario, pre, head_root, witness, mapped, nodes, early, settled, recovers, multi_block_, honest>>
      /\ \A b, q : Claims(b, q)' <=> Claims(b, q)
      /\ \A b, q, l, L : Fits(b, q, l, L)' <=> Fits(b, q, l, L)
      /\ \A b, q : Placed(b, q)' <=> Placed(b, q)
      /\ \A b, q, l, j : Settled(b, q, l, j)' <=> Settled(b, q, l, j)
  BY Zenon, <1>0, Stays
<1>3. rec'[a] = m /\ rec' \in [Addr -> Account] /\ \A b \in Addr \ {a} : rec'[b] = rec[b] /\ ref'[b] = ref[b]
  BY Zenon, <1>0 DEF IInv, TypeOK
<1>4. TypeOK'
  <2>1. touched_' \subseteq Addr /\ journal' \subseteq Addr /\ loaded' \subseteq Addr \X Key
    BY SMTT(30), <1>0 DEF IInv, TypeOK
  <2> QED
    BY Zenon, <1>0, <1>2, <1>3, <2>1 DEF IInv, TypeOK
<1>5. \A b \in Addr \ {a} : /\ read_slots(loaded', b) \subseteq read_slots(loaded, b)
                            /\ b \in touched_' \cup journal' => b \in touched_ \cup journal
  BY Zenon, <1>0 DEF read_slots
<1>6. RecordsInv'
  <2> SUFFICES ASSUME NEW b \in Addr
               PROVE  /\ Shape(rec'[b]) /\ NonEmpty(rec'[b]) /\ Placed(b, rec'[b])
                      /\ b \in touched_' \cup journal' => ~is_empty_account(rec'[b])
                      /\ rec'[b].place = "none" => /\ ref'[b] = pre[b] /\ read_slots(loaded', b) = {}
                                                   /\ b \notin touched_' \cup journal'
      BY Zenon, <1>2 DEF RecordsInv
  <2>1. CASE b = a
    BY Zenon, <1>0, <1>1, <1>3, <2>1
  <2>2. CASE b # a
    <3>1. rec'[b] = rec[b] /\ ref'[b] = ref[b] /\ read_slots(loaded', b) \subseteq read_slots(loaded, b)
          /\ (b \in touched_' \cup journal' => b \in touched_ \cup journal)
      BY Zenon, <1>3, <1>5, <2>2
    <3>2. /\ Shape(rec[b]) /\ NonEmpty(rec[b]) /\ Placed(b, rec[b])
          /\ b \in touched_ \cup journal => ~is_empty_account(rec[b])
          /\ rec[b].place = "none" => ref[b] = pre[b] /\ read_slots(loaded, b) = {} /\ b \notin touched_ \cup journal
      BY Zenon DEF IInv, RecordsInv
    <3> QED
      BY Zenon, <3>1, <3>2
  <2> QED
    BY Zenon, <2>1, <2>2
<1>7. ControlInv'
  <2>1. ASSUME early, multi_block_, NEW b \in Addr, rec'[b].modified PROVE b \in journal'
    <3>1. rec[b].modified => b \in journal
      BY Zenon, <2>1 DEF IInv, ControlInv
    <3>2. CASE b = a
      BY Zenon, <1>0, <1>1, <1>3, <2>1, <3>1, <3>2
    <3>3. CASE b # a
      BY Zenon, <1>0, <1>3, <2>1, <3>1, <3>3
    <3> QED
      BY Zenon, <3>2, <3>3
  <2> QED
    BY Zenon, <1>0, <1>2, <2>1 DEF IInv, ControlInv
<1>8. SettledInv'
  <2> SUFFICES ASSUME settled, NEW b \in Addr PROVE Settled(b, rec'[b], ref'[b], b \in journal')
      BY Zenon, <1>2 DEF SettledInv
  <2>1. block > 1 /\ Settled(b, rec[b], ref[b], b \in journal)
    BY Zenon, <1>0 DEF settled, IInv, SettledInv
  <2>2. CASE b = a
    BY Zenon, <1>1, <1>3, <2>1, <2>2
  <2>3. CASE b # a
    BY Zenon, <1>0, <1>3, <2>1, <2>3 DEF Settled
  <2> QED
    BY Zenon, <2>2, <2>3
<1>9. ASSUME NEW b \in Addr \ {a}
      PROVE  /\ Claims(b, rec'[b]) <=> Claims(b, rec[b])
             /\ Fits(b, rec[b], ref[b], read_slots(loaded, b)) => Fits(b, rec'[b], ref'[b], read_slots(loaded', b))
  <2>1. rec'[b] = rec[b] /\ ref'[b] = ref[b] /\ read_slots(loaded', b) \subseteq read_slots(loaded, b)
    BY Zenon, <1>3, <1>5
  <2>2. Fits(b, rec[b], ref[b], read_slots(loaded, b)) => Fits(b, rec[b], ref[b], read_slots(loaded', b))
    BY Zenon, <2>1, FitsFewer
  <2> QED
    BY Zenon, <2>1, <2>2
<1>10. SoundInv'
  <2> SUFFICES ASSUME ~witness_incomplete_', \A b \in Addr : Claims(b, rec'[b])
               PROVE  agreed' /\ \A b \in Addr : Fits(b, rec'[b], ref'[b], read_slots(loaded', b))
      BY Zenon, <1>0, <1>2 DEF SoundInv, Right
  <2>1. Claims(a, m) /\ Claims(a, r) /\ Claims(a, rec[a])
    BY Zenon, <1>1, <1>3
  <2>2. \A b \in Addr : Claims(b, rec[b])
    BY Zenon, <1>9, <2>1
  <2>3. agreed /\ \A b \in Addr : Fits(b, rec[b], ref[b], read_slots(loaded, b))
    BY Zenon, <1>0, <2>2 DEF IInv, SoundInv, Right
  <2>4. agreed' /\ Fits(a, rec'[a], ref'[a], read_slots(loaded', a))
    BY Zenon, <1>1, <1>3, <2>1, <2>3
  <2> QED
    BY Zenon, <1>9, <2>3, <2>4
<1>11. HonestInv'
  <2> SUFFICES ASSUME honest, agreed', ~witness_incomplete_', \A b \in created_records' : pre[b] = NoLeaf
               PROVE  \A b \in Addr : Claims(b, rec'[b])
      BY Zenon, <1>2 DEF HonestInv
  <2>1. agreed /\ ~witness_incomplete_
    BY Zenon, <1>0
  <2>2. \A b \in created_records : pre[b] = NoLeaf
    BY SMTT(30), <1>0, <1>1, <1>3 DEF created_records
  <2>3. \A b \in Addr : Claims(b, rec[b])
    BY Zenon, <1>0, <2>1, <2>2 DEF IInv, HonestInv
  <2>4. Fits(a, rec[a], ref[a], read_slots(loaded, a))
    BY Zenon, <1>0, <2>1, <2>3 DEF IInv, SoundInv, Right
  <2>5. r.place = "created" => pre[a] = NoLeaf
    BY Zenon, <1>0, <1>3 DEF created_records
  <2>6. Claims(a, r) /\ Fits(a, r, ref[a], read_slots(loaded, a))
    BY Zenon, <1>1, <2>3, <2>4, <2>5
  <2>7. Claims(a, rec'[a])
    BY Zenon, <1>3, <2>6
  <2> QED
    BY Zenon, <1>9, <2>3, <2>7
<1>12. AcceptedIsRight' /\ HonestAccepted'
  BY Zenon, <1>0 DEF AcceptedIsRight, HonestAccepted
<1> QED
  BY Zenon, <1>4, <1>6, <1>7, <1>8, <1>10, <1>11, <1>12 DEF IInv

-----------------------------------------------------------------------------
(* Reads. *)

\* What get_account answers from a record that fits is what the rules say: of
\* has_storage it matters only for an account without nonce and code, which
\* has no slot written.
LEMMA AnswerRight ==
  ASSUME NEW a, NEW r \in Account, Shape(r), r.place # "none", NEW l \in Leaf \cup {NoLeaf}, NEW L,
         Fits(a, r, l, L)
  PROVE  get_account(r) = account_in(l)
<1>1. CASE r.deleted
  BY Zenon, <1>1 DEF Fits, get_account, account_in
<1>2. CASE ~r.deleted
  <2>1. /\ l.nonce = r.nonce /\ l.balance = r.balance /\ l.code = r.code
        /\ \A k \in Key : l.root[k] = slot_value(r, k)
        /\ \A k \in DOMAIN r.slots : r.slots[k].initial = r.root[k]
    BY Zenon, <1>2 DEF Fits
  <2>2. l \in Leaf /\ l # NoLeaf /\ l.root \in Storage
    <3>1. r.code \in Code
      BY Zenon, AccountFacts
    <3>2. l \in Leaf
      BY Zenon, <2>1, <3>1, LeafFacts
    <3> QED
      BY Zenon, <3>2, LeafFacts DEF Leaf
  <2>3. ASSUME r.nonce = 0, r.code = "none"
        PROVE  has_storage(r) <=> l.root # EmptyRoot
    <3>1. Unwritten(r) /\ WalkedRight(r)
      BY Zenon, <1>2, <2>3 DEF Shape, Marked
    <3>2. DOMAIN r.overflow = {} /\ r.root \in Storage /\ DOMAIN r.slots \subseteq Key
      BY Zenon, <3>1, PartialFacts, AccountFacts DEF Unwritten
    <3>3. \A k \in Key : l.root[k] = r.root[k]
      BY <2>1, <3>1, <3>2 DEF slot_value, Unwritten, WalkedRight, found_slots
    <3>4. l.root = r.root
      BY <2>2, <3>2, <3>3 DEF Storage
    <3>5. ASSUME NEW k \in DOMAIN r.slots, r.slots[k].current # 0 PROVE r.root # EmptyRoot
      BY <2>1, <3>1, <3>2, <3>5, LeafFacts DEF Unwritten
    <3> QED
      BY Zenon, <3>2, <3>4, <3>5 DEF has_storage
  <2>4. (r.nonce # 0 \/ r.code # "none" \/ has_storage(r))
          = (l.nonce # 0 \/ l.code # "none" \/ l.root # EmptyRoot)
    BY Zenon, <2>1, <2>3
  <2> QED
    BY Zenon, <1>2, <2>1, <2>2, <2>4 DEF get_account, account_in
<1> QED
  BY Zenon, <1>1, <1>2

\* A step that only reads, and leaves the record as m.
ReadChange(a, r, m) ==
  /\ verdict = "running" /\ r = find_or_create_account(a)
  /\ rec' = [rec EXCEPT ![a] = m]
  /\ unchanged_but_read
  /\ agreed' \in BOOLEAN /\ (agreed' => agreed)
  /\ witness_incomplete_' \in BOOLEAN /\ (witness_incomplete_ => witness_incomplete_')
  /\ loaded' \subseteq loaded \cup {<<a, k>> : k \in Key}

LEMMA ReadIsChange ==
  ASSUME IInv, NEW a \in Addr, NEW r, NEW m \in Account, ReadChange(a, r, m), m.place = r.place,
         Shape(m), NonEmpty(m), Placed(a, m), is_empty_account(m) <=> is_empty_account(r),
         m.modified = r.modified
  PROVE  RecordChange(a, r, m) /\ ref' = ref /\ journal' = journal
<1>1. /\ verdict = "running" /\ r = find_or_create_account(a)
      /\ rec' = [rec EXCEPT ![a] = m]
      /\ UNCHANGED <<bundle, block, verdict, recovery_ended_>> /\ UNCHANGED <<touched_, journal, ref>>
      /\ agreed' \in BOOLEAN /\ (agreed' => agreed)
      /\ witness_incomplete_' \in BOOLEAN /\ (witness_incomplete_ => witness_incomplete_')
      /\ loaded' \subseteq loaded \cup {<<a, k>> : k \in Key}
  BY Zenon DEF ReadChange, unchanged_but_read, control
<1>2. a \in touched_ \cup journal => ~is_empty_account(m)
  BY Zenon, <1>1, Load
<1>3. ref' \in State
  BY Zenon, <1>1 DEF IInv, TypeOK
<1> QED
  BY Zenon, <1>1, <1>2, <1>3 DEF RecordChange

\* A read that changes nothing of the record.
LEMMA PlainRead ==
  ASSUME IInv, NEW a \in Addr, NEW r, ReadChange(a, r, r),
         ~witness_incomplete_' /\ Claims(a, r) /\ Fits(a, r, ref[a], read_slots(loaded, a))
           => (agreed => agreed') /\ Fits(a, r, ref[a], read_slots(loaded', a))
  PROVE  IInv'
<1>1. r \in Account /\ Shape(r) /\ NonEmpty(r) /\ Placed(a, r)
  BY Zenon, Load DEF ReadChange
<1>2. RecordChange(a, r, r) /\ ref' = ref /\ journal' = journal
  BY Zenon, <1>1, ReadIsChange
<1> QED
  BY Zenon, <1>2, RecordStep

LEMMA GetAccountStep ==
  ASSUME IInv, NEW a \in Addr, GetAccount(a)
  PROVE  IInv'
<1> DEFINE r == find_or_create_account(a)
<1>1. /\ verdict = "running" /\ rec' = [rec EXCEPT ![a] = r] /\ unchanged_but_read
      /\ agreed' = (agreed /\ get_account(r) = account_in(ref[a]))
      /\ UNCHANGED <<witness_incomplete_, loaded>>
  BY Zenon DEF GetAccount, executing
<1>2. r \in Account /\ Shape(r) /\ r.place # "none" /\ ref[a] \in Leaf \cup {NoLeaf}
  BY Zenon, <1>1, Load DEF IInv, TypeOK, State
<1>3. agreed' \in BOOLEAN /\ witness_incomplete_' \in BOOLEAN
  BY Zenon, <1>1 DEF IInv, TypeOK
<1>4. ReadChange(a, r, r)
  BY Zenon, <1>1, <1>3 DEF ReadChange
<1>5. Fits(a, r, ref[a], read_slots(loaded, a)) => get_account(r) = account_in(ref[a])
  BY Zenon, <1>2, AnswerRight
<1> QED
  BY Zenon, <1>1, <1>4, <1>5, PlainRead

LEMMA ReadCodeStep ==
  ASSUME IInv, NEW a \in Addr, ReadCode(a)
  PROVE  IInv'
<1> DEFINE r == find_or_create_account(a)
           wanted == IF r.deleted THEN "none" ELSE r.code
           wanted_in_ref == IF ref[a] = NoLeaf THEN "none" ELSE ref[a].code
<1>1. PICK omitted \in BOOLEAN :
      /\ verdict = "running" /\ rec' = [rec EXCEPT ![a] = r] /\ unchanged_but_read
      /\ witness_incomplete_' = (witness_incomplete_ \/ omitted)
      /\ agreed' = (agreed /\ ~omitted /\ wanted = wanted_in_ref)
      /\ loaded' = loaded
  BY Zenon DEF ReadCode, executing
<1>2. r \in Account /\ r.place # "none" /\ ref[a] \in Leaf \cup {NoLeaf}
  BY Zenon, <1>1, Load DEF IInv, TypeOK, State
<1>3. agreed' \in BOOLEAN /\ witness_incomplete_' \in BOOLEAN
  BY Zenon, <1>1 DEF IInv, TypeOK
<1>4. ReadChange(a, r, r)
  BY Zenon, <1>1, <1>3 DEF ReadChange
<1>5. Fits(a, r, ref[a], read_slots(loaded, a)) => wanted = wanted_in_ref
  BY Zenon, <1>2, AccountFacts, LeafFacts DEF Fits
<1> QED
  BY Zenon, <1>1, <1>4, <1>5, PlainRead

LEMMA ReadOneMore ==
  ASSUME NEW a, NEW k \in Key
  PROVE  read_slots(loaded \cup {<<a, k>>}, a) = read_slots(loaded, a) \cup {k}
  BY Zenon DEF read_slots

\* A slot may be counted as read once a record says where its value is.
LEMMA FitsOneMore ==
  ASSUME NEW a, NEW r, NEW l, NEW L, NEW k, Fits(a, r, l, L),
         ~r.deleted => k \in DOMAIN r.slots \cup found_slots(r) \/ r.root[k] = 0
  PROVE  Fits(a, r, l, L \cup {k})
  BY Zenon DEF Fits

LEMMA StorageReadIsRead ==
  ASSUME IInv, NEW a \in Addr, NEW k \in Key, NEW r, NEW m, NEW value,
         verdict = "running", r = find_or_create_account(a), StorageRead(a, k, m, value)
  PROVE  /\ ReadChange(a, r, m)
         /\ witness_incomplete_' = witness_incomplete_
         /\ agreed' = (agreed /\ value = ref[a].root[k])
         /\ read_slots(loaded', a) = read_slots(loaded, a) \cup {k}
<1>1. /\ rec' = [rec EXCEPT ![a] = m] /\ agreed' = (agreed /\ value = ref[a].root[k])
      /\ loaded' = loaded \cup {<<a, k>>}
      /\ witness_incomplete_' = witness_incomplete_ /\ unchanged_but_read
  BY Zenon DEF StorageRead
<1>2. agreed' \in BOOLEAN /\ witness_incomplete_' \in BOOLEAN
  BY Zenon, <1>1 DEF IInv, TypeOK
<1> QED
  BY Zenon, <1>1, <1>2, ReadOneMore DEF ReadChange

\* A read of a slot that leaves the record as it is.
LEMMA PlainStorageRead ==
  ASSUME IInv, NEW a \in Addr, NEW k \in Key, NEW r, NEW value,
         verdict = "running", r = find_or_create_account(a), StorageRead(a, k, r, value),
         Fits(a, r, ref[a], read_slots(loaded, a)) =>
           /\ value = ref[a].root[k]
           /\ ~r.deleted => k \in DOMAIN r.slots \cup found_slots(r) \/ r.root[k] = 0
  PROVE  IInv'
<1>1. /\ ReadChange(a, r, r)
      /\ agreed' = (agreed /\ value = ref[a].root[k])
      /\ read_slots(loaded', a) = read_slots(loaded, a) \cup {k}
  BY Zenon, StorageReadIsRead
<1>2. Fits(a, r, ref[a], read_slots(loaded, a)) => Fits(a, r, ref[a], read_slots(loaded', a))
  BY <1>1, FitsOneMore
<1> QED
  BY Zenon, <1>1, <1>2, PlainRead

LEMMA ReadSlotStep ==
  ASSUME IInv, NEW a \in Addr, NEW k \in Key, ReadSlot(a, k)
  PROVE  IInv'
<1> DEFINE r == find_or_create_account(a)
<1>1. /\ verdict = "running" /\ (r.deleted \/ k \in DOMAIN r.slots)
      /\ StorageRead(a, k, r, IF r.deleted THEN 0 ELSE r.slots[k].current)
  BY Zenon DEF ReadSlot, executing
<1>2. r.place # "none"
  BY <1>1, Load
<1>3. Fits(a, r, ref[a], read_slots(loaded, a)) =>
        /\ (IF r.deleted THEN 0 ELSE r.slots[k].current) = ref[a].root[k]
        /\ ~r.deleted => k \in DOMAIN r.slots \cup found_slots(r) \/ r.root[k] = 0
  BY Zenon, <1>1, <1>2, LeafFacts DEF Fits, slot_value
<1> QED
  BY Zenon, <1>1, <1>3, PlainStorageRead

LEMMA ReadOverflowStep ==
  ASSUME IInv, NEW a \in Addr, NEW k \in Key, ReadOverflow(a, k)
  PROVE  IInv'
<1> DEFINE r == find_or_create_account(a)
<1>1. /\ verdict = "running" /\ not_inline(r, k) /\ k \in DOMAIN r.overflow
      /\ StorageRead(a, k, r, r.overflow[k])
  BY Zenon DEF ReadOverflow, executing
<1>2. ~r.deleted /\ k \notin DOMAIN r.slots
  BY Zenon, <1>1, Load, PartialFacts DEF not_inline, Shape, Emptied
<1>3. Fits(a, r, ref[a], read_slots(loaded, a)) => r.overflow[k] = ref[a].root[k] /\ r.root[k] = 0
  BY Zenon, <1>1, <1>2 DEF Fits, slot_value
<1> QED
  BY Zenon, <1>1, <1>3, PlainStorageRead

\* A slot found by a walk of the record's own root.
LEMMA WalkedSlot ==
  ASSUME NEW a \in Addr, NEW k \in Key, NEW r \in Account, Shape(r), ~r.deleted,
         k \notin DOMAIN r.slots, k \notin DOMAIN r.overflow, k \notin DOMAIN r.recovered,
         r.absent_reads = {}, r.place # "none",
         NEW m, m = [r EXCEPT !.recovered =
                       [j \in DOMAIN @ \cup {k} |->
                          IF j = k THEN [found |-> r.root[k] # 0, initial |-> r.root[k], current |-> r.root[k]]
                          ELSE @[j]]]
  PROVE  /\ m \in Account /\ Shape(m)
         /\ m.place = r.place /\ m.nonce = r.nonce /\ m.balance = r.balance /\ m.code = r.code
         /\ m.root = r.root /\ m.slots = r.slots /\ m.deleted = r.deleted /\ m.modified = r.modified
         /\ m.absent_reads = r.absent_reads /\ m.acc_rlp = r.acc_rlp /\ m.stamped = r.stamped
         /\ m.overflow = r.overflow /\ m.wiped = r.wiped
         /\ found_slots(r) \subseteq found_slots(m)
         /\ k \in found_slots(m) \/ r.root[k] = 0
         /\ \A j \in Key : slot_value(m, j) = slot_value(r, j)
<1> DEFINE w == [found |-> r.root[k] # 0, initial |-> r.root[k], current |-> r.root[k]]
           f == [j \in DOMAIN r.recovered \cup {k} |-> IF j = k THEN w ELSE r.recovered[j]]
<1>1. m.place = r.place /\ m.nonce = r.nonce /\ m.balance = r.balance /\ m.code = r.code
      /\ m.root = r.root /\ m.slots = r.slots /\ m.deleted = r.deleted /\ m.modified = r.modified
      /\ m.absent_reads = r.absent_reads /\ m.acc_rlp = r.acc_rlp /\ m.stamped = r.stamped
      /\ m.overflow = r.overflow /\ m.wiped = r.wiped /\ m.recovered = f
  BY Zenon DEF Account
<1>2. r.root[k] \in Value /\ r.recovered \in [DOMAIN r.recovered -> RecoveredSlot] /\ DOMAIN r.recovered \subseteq Key
  BY AccountFacts, PartialFacts DEF Storage
<1>3. w \in RecoveredSlot
  BY Zenon, <1>2 DEF RecoveredSlot
<1>4. /\ DOMAIN f = DOMAIN r.recovered \cup {k} /\ f[k] = w
      /\ \A j \in DOMAIN r.recovered : j # k => f[j] = r.recovered[j]
      /\ f \in [DOMAIN r.recovered \cup {k} -> RecoveredSlot]
  BY Zenon, <1>2, <1>3
<1>5. f[k].found <=> r.root[k] # 0
  BY Zenon, <1>4
<1>55. f[k].initial = r.root[k] /\ f[k].current = r.root[k]
  BY Zenon, <1>4
<1>56. f = [j \in DOMAIN r.recovered \cup {k} |-> IF j = k THEN w ELSE r.recovered[j]]
  BY Zenon
<1> HIDE DEF f, w
<1>57. f \in Partial(RecoveredSlot)
  <2> DEFINE K == DOMAIN r.recovered \cup {k}
  <2>1. K \in SUBSET Key /\ f \in [K -> RecoveredSlot]
    BY Zenon, <1>2, <1>4
  <2> HIDE DEF K
  <2> QED
    BY Zenon, <2>1, InPartial
<1>6. m \in Account
  BY Zenon, <1>56, <1>57 DEF Account, w
<1>7. found_slots(m) = IF r.root[k] # 0 THEN found_slots(r) \cup {k} ELSE found_slots(r)
  BY <1>1, <1>4, <1>5 DEF found_slots
<1>8. SlotsApart(m)
  BY Zenon, <1>1, <1>7 DEF Shape, SlotsApart
<1>9. WalkedRight(m)
  <2> SUFFICES ASSUME NEW j \in DOMAIN f
               PROVE  /\ f[j].initial = r.root[j]
                      /\ f[j].found <=> r.root[j] # 0
                      /\ ~f[j].found => f[j].current = 0
      BY <1>1 DEF WalkedRight
  <2>1. CASE j = k
    BY Zenon, <1>5, <1>55, <2>1
  <2>2. CASE j # k
    BY Zenon, <1>4, <2>2 DEF Shape, WalkedRight
  <2> QED
    BY Zenon, <2>1, <2>2
<1>10. Marked(m)
  BY <1>1, <1>4, <1>55 DEF Shape, Marked, Unwritten
<1>11. Shape(m)
  BY Zenon, <1>1, <1>8, <1>9, <1>10 DEF Shape, StampRight, Emptied
<1>12. ASSUME NEW j \in Key PROVE slot_value(m, j) = slot_value(r, j)
  <2>1. CASE j = k
    <3>1. slot_value(r, j) = r.root[k]
      BY Zenon, <2>1, AccountFacts DEF slot_value
    <3> QED
      BY Zenon, <1>1, <1>55, <1>7, <2>1, <3>1 DEF slot_value
  <2>2. CASE j # k
    BY <1>1, <1>4, <1>7, <2>2, AccountFacts DEF slot_value
  <2> QED
    BY Zenon, <2>1, <2>2
<1> QED
  BY Zenon, <1>1, <1>6, <1>7, <1>11, <1>12

LEMMA ReadRecoveredStep ==
  ASSUME IInv, NEW a \in Addr, NEW k \in Key, ReadRecovered(a, k)
  PROVE  IInv'
<1> DEFINE r == find_or_create_account(a)
           m == [r EXCEPT !.recovered =
                   [j \in DOMAIN @ \cup {k} |->
                      IF j = k THEN [found |-> r.root[k] # 0, initial |-> r.root[k], current |-> r.root[k]]
                      ELSE @[j]]]
<1>1. /\ verdict = "running" /\ not_inline(r, k) /\ k \notin DOMAIN r.overflow /\ recovers /\ ~r.deleted
      /\ \/ k \in DOMAIN r.recovered /\ StorageRead(a, k, r, r.recovered[k].current)
         \/ k \notin DOMAIN r.recovered /\ ~recovery_ended_ /\ StorageRead(a, k, m, r.root[k])
  BY Zenon DEF ReadRecovered, executing
<1>2. k \notin DOMAIN r.slots
  BY Zenon, <1>1 DEF not_inline
<1>3. r \in Account /\ Shape(r) /\ NonEmpty(r) /\ Placed(a, r) /\ r.place # "none"
  BY Zenon, <1>1, Load
<1>4. Fits(a, r, ref[a], read_slots(loaded, a)) => slot_value(r, k) = ref[a].root[k]
  BY Zenon, <1>1 DEF Fits
<1> HIDE DEF r, m
<1>5. CASE k \in DOMAIN r.recovered /\ StorageRead(a, k, r, r.recovered[k].current)
  <2>1. slot_value(r, k) = r.recovered[k].current /\ (k \in found_slots(r) \/ r.root[k] = 0)
    BY Zenon, <1>1, <1>2, <1>3, <1>5 DEF slot_value, found_slots, Shape, WalkedRight
  <2> QED
    BY Zenon, <1>1, <1>4, <1>5, <2>1, PlainStorageRead DEF r
<1>6. CASE k \notin DOMAIN r.recovered /\ ~recovery_ended_ /\ StorageRead(a, k, m, r.root[k])
  <2>1. r.absent_reads = {}
    BY Zenon, <1>1, <1>3, <1>6 DEF Placed
  <2>2. /\ m \in Account /\ Shape(m)
        /\ m.place = r.place /\ m.nonce = r.nonce /\ m.balance = r.balance /\ m.code = r.code
        /\ m.root = r.root /\ m.slots = r.slots /\ m.deleted = r.deleted /\ m.modified = r.modified
        /\ m.absent_reads = r.absent_reads /\ m.acc_rlp = r.acc_rlp /\ m.stamped = r.stamped
        /\ m.overflow = r.overflow /\ m.wiped = r.wiped
        /\ found_slots(r) \subseteq found_slots(m)
        /\ k \in found_slots(m) \/ r.root[k] = 0
        /\ \A j \in Key : slot_value(m, j) = slot_value(r, j)
    BY <1>1, <1>2, <1>3, <1>6, <2>1, WalkedSlot DEF m
  <2>3. slot_value(r, k) = r.root[k]
    BY Zenon, <1>1, <1>2, <1>3, <1>6, AccountFacts DEF slot_value
  <2>4. NonEmpty(m) /\ (is_empty_account(m) <=> is_empty_account(r))
    BY Zenon, <1>3, <2>2 DEF NonEmpty, is_empty_account, is_empty
  <2>5. Placed(a, m)
    BY Zenon, <1>1, <1>3, <2>2 DEF Placed
  <2>6. Claims(a, m) <=> Claims(a, r)
    BY Zenon, <2>2 DEF Claims
  <2>7. Fits(a, r, ref[a], read_slots(loaded, a)) => Fits(a, m, ref[a], read_slots(loaded, a))
    BY Zenon, <2>2 DEF Fits
  <2>8. /\ ReadChange(a, r, m)
        /\ agreed' = (agreed /\ r.root[k] = ref[a].root[k])
        /\ read_slots(loaded', a) = read_slots(loaded, a) \cup {k}
    BY Zenon, <1>1, <1>6, StorageReadIsRead DEF r
  <2>9. RecordChange(a, r, m) /\ ref' = ref /\ journal' = journal
    BY Zenon, <2>2, <2>4, <2>5, <2>8, ReadIsChange
  <2>10. Fits(a, r, ref[a], read_slots(loaded, a)) => Fits(a, m, ref[a], read_slots(loaded', a))
    BY SMTT(30), <2>2, <2>7, <2>8, FitsOneMore
  <2>11. block = 1
    BY <1>1, <1>6 DEF IInv, ControlInv, TypeOK
  <2>12. Fits(a, r, ref[a], read_slots(loaded, a)) => (agreed => agreed') /\ Fits(a, m, ref'[a], read_slots(loaded', a))
    BY Zenon, <1>4, <2>3, <2>8, <2>9, <2>10
  <2> QED
    BY <2>6, <2>9, <2>11, <2>12, RecordStep
<1> QED
  BY Zenon, <1>1, <1>5, <1>6

LEMMA ReadAbsentStep ==
  ASSUME IInv, NEW a \in Addr, NEW k \in Key, ReadAbsent(a, k)
  PROVE  IInv'
<1> DEFINE r == find_or_create_account(a)
           m == [r EXCEPT !.absent_reads = @ \cup {k}]
<1>1. /\ verdict = "running" /\ not_inline(r, k) /\ k \notin DOMAIN r.overflow
      /\ ~(recovers /\ ~r.deleted /\ (k \in DOMAIN r.recovered \/ ~recovery_ended_))
      /\ StorageRead(a, k, IF r.deleted THEN r ELSE note_absent_read_(r, k), 0)
  BY Zenon DEF ReadAbsent, executing
<1>2. r \in Account /\ Shape(r) /\ NonEmpty(r) /\ Placed(a, r) /\ r.place # "none"
      /\ (block > 1 => Settled(a, r, ref[a], a \in journal))
  BY Zenon, <1>1, Load
<1> HIDE DEF r, m
<1>3. CASE r.deleted
  <2>1. Fits(a, r, ref[a], read_slots(loaded, a)) => ref[a].root[k] = 0
    BY Zenon, <1>2, <1>3, LeafFacts DEF Fits
  <2> QED
    BY Zenon, <1>1, <1>3, <2>1, PlainStorageRead DEF r
<1>4. CASE ~r.deleted
  <2>1. k \notin DOMAIN r.slots /\ k \notin DOMAIN r.overflow /\ k \notin DOMAIN r.recovered
        /\ (recovers => recovery_ended_)
    BY Zenon, <1>1, <1>2, <1>4 DEF not_inline, Placed
  <2>2. slot_value(r, k) = r.root[k] /\ k \notin found_slots(r)
    BY Zenon, <2>1 DEF slot_value, found_slots
  <2>3. Fits(a, r, ref[a], read_slots(loaded, a)) => ref[a].root[k] = r.root[k]
    BY Zenon, <1>4, <2>2 DEF Fits
  <2>4. CASE r.root = EmptyRoot
    <3>1. StorageRead(a, k, r, 0) /\ r.root[k] = 0
      BY Zenon, <1>1, <1>4, <2>4, LeafFacts DEF note_absent_read_
    <3> QED
      BY Zenon, <1>1, <2>3, <3>1, PlainStorageRead DEF r
  <2>5. CASE r.root # EmptyRoot
    <3>1. StorageRead(a, k, m, 0)
      BY Zenon, <1>1, <1>4, <2>5 DEF note_absent_read_, m
    <3>2. m.place = r.place /\ m.nonce = r.nonce /\ m.balance = r.balance /\ m.code = r.code
          /\ m.root = r.root /\ m.slots = r.slots /\ m.deleted = r.deleted /\ m.modified = r.modified
          /\ m.absent_reads = r.absent_reads \cup {k} /\ m.acc_rlp = r.acc_rlp /\ m.stamped = r.stamped
          /\ m.overflow = r.overflow /\ m.wiped = r.wiped /\ m.recovered = r.recovered
      BY Zenon, <1>2 DEF Account, m
    <3>3. m \in Account
      BY Zenon, <1>2 DEF Account, m
    <3>4. found_slots(m) = found_slots(r) /\ \A j : slot_value(m, j) = slot_value(r, j)
      BY Zenon, <3>2 DEF found_slots, slot_value
    <3>5. r.place # "created"
      BY Zenon, <1>2, <2>5 DEF Shape, Emptied
    <3>6. SlotsApart(m)
      BY Zenon, <1>2, <2>1, <2>2, <3>2, <3>4 DEF Shape, SlotsApart
    <3>7. Shape(m)
      BY SMTT(30), <1>2, <3>2, <3>5, <3>6 DEF Shape, WalkedRight, StampRight, Emptied, Marked, Unwritten
    <3>8. NonEmpty(m) /\ (is_empty_account(m) <=> is_empty_account(r))
      BY Zenon, <1>2, <3>2 DEF NonEmpty, is_empty_account, is_empty
    <3>9. Placed(a, m)
      BY Zenon, <1>2, <2>1, <3>2 DEF Placed
    <3>10. /\ ReadChange(a, r, m)
           /\ agreed' = (agreed /\ 0 = ref[a].root[k])
           /\ read_slots(loaded', a) = read_slots(loaded, a) \cup {k}
      BY Zenon, <1>1, <3>1, StorageReadIsRead DEF r
    <3>11. RecordChange(a, r, m) /\ ref' = ref /\ journal' = journal
      BY Zenon, <3>2, <3>3, <3>7, <3>8, <3>9, <3>10, ReadIsChange
    <3>12. Claims(a, m) => Claims(a, r)
      BY Zenon, <3>2 DEF Claims
    <3>13. Claims(a, r) /\ r.root[k] = 0 => Claims(a, m)
      BY Zenon, <3>2 DEF Claims
    <3>14. Claims(a, m) => r.root[k] = 0
      <4>1. CASE block > 1
        BY Zenon, <1>2, <1>4, <2>1, <2>2, <4>1 DEF Settled, Covered
      <4>2. CASE ~(block > 1)
        <5>1. early /\ ~recovery_ended_
          BY SMTT(30), <1>1, <4>2 DEF early, IInv, TypeOK, ControlInv
        <5>2. r.place = "pre"
          BY Zenon, <1>2, <2>1, <3>5, <5>1, AccountFacts DEF Placed
        <5> QED
          BY Zenon, <1>4, <3>2, <5>1, <5>2 DEF Claims
      <4> QED
        BY Zenon, <4>1, <4>2
    <3>15. Fits(a, r, ref[a], read_slots(loaded, a)) => Fits(a, m, ref[a], read_slots(loaded, a))
      BY Zenon, <3>2, <3>4 DEF Fits
    <3>16. Claims(a, m) /\ Fits(a, r, ref[a], read_slots(loaded, a))
             => (agreed => agreed') /\ Fits(a, m, ref'[a], read_slots(loaded', a))
      <4> SUFFICES ASSUME Claims(a, m), Fits(a, r, ref[a], read_slots(loaded, a))
                   PROVE  (agreed => agreed') /\ Fits(a, m, ref'[a], read_slots(loaded', a))
          BY Zenon
      <4>1. r.root[k] = 0 /\ ref[a].root[k] = 0
        BY Zenon, <2>3, <3>14
      <4>2. Fits(a, m, ref[a], read_slots(loaded, a) \cup {k})
        BY Zenon, <3>2, <3>15, <4>1, FitsOneMore
      <4> QED
        BY Zenon, <3>10, <3>11, <4>1, <4>2
    <3>17. agreed' /\ Claims(a, r) /\ Fits(a, r, ref[a], read_slots(loaded, a)) => Claims(a, m)
      BY Zenon, <2>3, <3>10, <3>13
    <3>18. block > 1 /\ Settled(a, r, ref[a], a \in journal) => Settled(a, m, ref'[a], a \in journal')
      BY SMTT(30), <3>2, <3>4, <3>11 DEF Settled, Covered, leaf_of, account_storage_root
    <3> QED
      BY Zenon, <3>11, <3>12, <3>16, <3>17, <3>18, RecordStep
  <2> QED
    BY Zenon, <2>4, <2>5
<1> QED
  BY Zenon, <1>3, <1>4

LEMMA StorageStep ==
  ASSUME IInv, NEW a \in Addr, NEW k \in scenario.keys, read_storage(a, k)
  PROVE  IInv'
<1>1. k \in Key
  BY Zenon DEF IInv, TypeOK, Scenario
<1> QED
  BY Zenon, <1>1, ReadSlotStep, ReadOverflowStep, ReadRecoveredStep, ReadAbsentStep DEF read_storage

-----------------------------------------------------------------------------
(* Deleted accounts. *)

AllBound(r) == \A w \in r.wiped : wiped_storage_bound(w)

\* What the slots of a record claim of its root.
SlotsClaim(r) ==
  /\ \A k \in DOMAIN r.slots : r.slots[k].initial = r.root[k]
  /\ \A k \in r.absent_reads : r.root[k] = 0

\* A wiped storage is bound as the record was.
LEMMA NoteWiped ==
  ASSUME NEW r \in Account, NEW n, n = note_wiped_storage_(r)
  PROVE  /\ n \in Account
         /\ n.place = r.place /\ n.nonce = r.nonce /\ n.balance = r.balance /\ n.code = r.code
         /\ n.root = r.root /\ n.slots = r.slots /\ n.deleted = r.deleted /\ n.modified = r.modified
         /\ n.absent_reads = {} /\ n.acc_rlp = r.acc_rlp /\ n.stamped = r.stamped
         /\ n.overflow = r.overflow /\ n.recovered = r.recovered
         /\ AllBound(n) <=> AllBound(r) /\ SlotsClaim(r)
<1> DEFINE s == [k \in DOMAIN r.slots |-> r.slots[k].initial]
           w == [slots |-> s, root |-> r.root, absent_reads |-> r.absent_reads]
<1>1. DOMAIN r.slots \subseteq Key /\ r.absent_reads \subseteq Key /\ r.root \in Storage
      /\ \A k \in DOMAIN r.slots : r.slots[k] \in Slot
  BY Zenon, AccountFacts, PartialFacts
<1>2. CASE DOMAIN r.slots = {} /\ r.absent_reads = {}
  BY Zenon, <1>2 DEF note_wiped_storage_, SlotsClaim
<1>3. CASE ~(DOMAIN r.slots = {} /\ r.absent_reads = {})
  <2>1. n = [r EXCEPT !.wiped = @ \cup {w}, !.absent_reads = {}]
    BY Zenon, <1>3 DEF note_wiped_storage_
  <2>2. s \in [DOMAIN r.slots -> Value] /\ DOMAIN s = DOMAIN r.slots
        /\ \A k \in DOMAIN r.slots : s[k] = r.slots[k].initial
    BY Zenon, <1>1 DEF Slot
  <2> HIDE DEF s
  <2>3. w \in WipedStorage
    BY Zenon, <1>1, <2>2, InPartial DEF WipedStorage
  <2>4. wiped_storage_bound(w) <=> SlotsClaim(r)
    BY Zenon, <2>2 DEF wiped_storage_bound, walk_holds, SlotsClaim
  <2> HIDE DEF w
  <2>5. n.place = r.place /\ n.nonce = r.nonce /\ n.balance = r.balance /\ n.code = r.code
        /\ n.root = r.root /\ n.slots = r.slots /\ n.deleted = r.deleted /\ n.modified = r.modified
        /\ n.absent_reads = {} /\ n.acc_rlp = r.acc_rlp /\ n.stamped = r.stamped
        /\ n.overflow = r.overflow /\ n.recovered = r.recovered /\ n.wiped = r.wiped \cup {w}
    BY Zenon, <2>1 DEF Account
  <2>6. n \in Account
    <3>1. r.wiped \cup {w} \in SUBSET WipedStorage /\ {} \in SUBSET Key
      BY Zenon, <2>3, AccountFacts
    <3> DEFINE x == r.wiped \cup {w}
               y == {}
    <3>2. n = [r EXCEPT !.wiped = x, !.absent_reads = y]
      BY Zenon, <2>1
    <3>3. x \in SUBSET WipedStorage /\ y \in SUBSET Key
      BY Zenon, <3>1
    <3> HIDE DEF x, y
    <3> QED
      BY Zenon, <3>2, <3>3 DEF Account
  <2> QED
    BY Zenon, <2>4, <2>5, <2>6 DEF AllBound
<1> QED
  BY Zenon, <1>2, <1>3

\* The claims in these terms.
LEMMA ClaimsAre ==
  ASSUME NEW a, NEW r
  PROVE  Claims(a, r) <=>
           /\ r.place = "created" => a \notin DOMAIN witness
           /\ early => /\ AllBound(r)
                       /\ r.place = "created" => pre[a] = NoLeaf
                       /\ r.place \in {"pre", "recovered"} => r.acc_rlp = pre[a]
                       /\ a \in DOMAIN witness \ mapped => witness[a].leaf = pre[a]
                       /\ r.place = "pre" /\ ~r.deleted => SlotsClaim(r)
  BY Zenon DEF Claims, AllBound, SlotsClaim

LEMMA Destructed ==
  ASSUME NEW a, NEW r \in Account, Shape(r), r.place # "none", NEW m, m = destruct(r)
  PROVE  /\ m \in Account /\ Shape(m) /\ NonEmpty(m)
         /\ m.deleted /\ m.place = r.place /\ m.modified = r.modified
         /\ Claims(a, m) <=> Claims(a, r)
         /\ Placed(a, r) => Placed(a, m)
         /\ r.deleted => m = r
<1> DEFINE n == IF r.place = "pre" /\ ~r.deleted THEN note_wiped_storage_(r) ELSE r
<1>1. m = [n EXCEPT !.deleted = TRUE, !.overflow = Nothing, !.recovered = Nothing]
  BY Zenon DEF destruct
<1>2. /\ n \in Account
      /\ n.place = r.place /\ n.nonce = r.nonce /\ n.balance = r.balance /\ n.code = r.code
      /\ n.root = r.root /\ n.slots = r.slots /\ n.deleted = r.deleted /\ n.modified = r.modified
      /\ n.absent_reads \in {{}, r.absent_reads} /\ n.acc_rlp = r.acc_rlp /\ n.stamped = r.stamped
      /\ AllBound(n) <=> AllBound(r) /\ (r.place = "pre" /\ ~r.deleted => SlotsClaim(r))
  BY SMTT(30), NoteWiped
<1> HIDE DEF n
<1>3. /\ m.place = r.place /\ m.nonce = r.nonce /\ m.balance = r.balance /\ m.code = r.code
      /\ m.root = r.root /\ m.slots = r.slots /\ m.deleted /\ m.modified = r.modified
      /\ m.absent_reads \in {{}, r.absent_reads} /\ m.acc_rlp = r.acc_rlp /\ m.stamped = r.stamped
      /\ m.overflow = Nothing /\ m.recovered = Nothing /\ m.wiped = n.wiped
  BY <1>1, <1>2 DEF Account
<1>4. m \in Account
  <2>1. Nothing \in Partial(Value \ {0}) /\ Nothing \in Partial(RecoveredSlot)
    BY Zenon, PartialFacts
  <2> QED
    BY ZenonT(40), <1>1, <1>2, <2>1 DEF Account
<1>5. found_slots(m) = {} /\ DOMAIN m.recovered = {} /\ DOMAIN m.overflow = {}
  BY Zenon, <1>3, FoundNone, PartialFacts
<1>6. SlotsApart(m) /\ WalkedRight(m) /\ StampRight(m) /\ Emptied(m) /\ Marked(m)
  BY Zenon, <1>3, <1>5 DEF Shape, SlotsApart, WalkedRight, StampRight, Emptied, Marked
<1>7. Shape(m) /\ NonEmpty(m)
  BY Zenon, <1>3, <1>6 DEF Shape, NonEmpty, is_empty_account
<1>8. AllBound(m) <=> AllBound(n)
  BY Zenon, <1>3 DEF AllBound
<1>9. Claims(a, m) <=> Claims(a, r)
  BY Zenon, <1>2, <1>3, <1>8, ClaimsAre
<1>10. Placed(a, r) => Placed(a, m)
  BY Zenon, <1>3, <1>5 DEF Placed
<1>11. r.deleted => m = r
  <2> SUFFICES ASSUME r.deleted PROVE m = r
      BY Zenon
  <2>1. n = r /\ r.overflow = Nothing /\ r.recovered = Nothing
    BY Zenon DEF n, Shape, Emptied
  <2>2. r.deleted = TRUE /\ m.deleted = TRUE
    BY Zenon, <1>3, <1>4, AccountFacts
  <2>3. m.absent_reads = r.absent_reads
    BY Zenon, <1>1, <2>1 DEF Account
  <2> QED
    BY Zenon, <1>3, <1>4, <2>1, <2>2, <2>3, SameAccount
<1> QED
  BY Zenon, <1>3, <1>4, <1>7, <1>9, <1>10, <1>11

\* A transaction that changes one account, its slots read so far forgotten.
LEMMA TransactionStep ==
  ASSUME IInv, NEW a \in Addr, NEW r, NEW m, NEW l \in Leaf \cup {NoLeaf}, verdict = "running",
         r = find_or_create_account(a), m \in Account, m.place = r.place,
         rec' = [rec EXCEPT ![a] = m], ref' = [ref EXCEPT ![a] = l],
         end_transaction, journal \subseteq journal', journal' \subseteq touched_ \cup journal \cup {a},
         touched_' \subseteq touched_ \cup {a}, multi_block_ => a \in journal' \/ m = r,
         Shape(m), NonEmpty(m), ~is_empty_account(m), Placed(a, m),
         Claims(a, m) <=> Claims(a, r),
         Fits(a, r, ref[a], read_slots(loaded, a)) => Fits(a, m, l, {}),
         Covered(r) => Covered(m)
  PROVE  IInv'
<1>1. /\ loaded' = {}
      /\ UNCHANGED <<bundle, block, verdict, recovery_ended_, witness_incomplete_, agreed>>
  BY Zenon DEF end_transaction
<1>2. ref' \in State /\ ref'[a] = l /\ \A b \in Addr \ {a} : ref'[b] = ref[b]
  BY Zenon DEF IInv, TypeOK, State
<1>3. agreed' \in BOOLEAN /\ witness_incomplete_' \in BOOLEAN
  BY Zenon, <1>1 DEF IInv, TypeOK
<1>4. RecordChange(a, r, m)
  BY Zenon, <1>1, <1>2, <1>3 DEF RecordChange
<1>5. read_slots(loaded', a) = {}
  BY Zenon, <1>1 DEF read_slots
<1>6. r.place # "none"
  BY Zenon, Load
<1>7. block > 1 /\ Settled(a, r, ref[a], a \in journal) => Settled(a, m, ref'[a], a \in journal')
  BY Zenon, <1>6 DEF Settled, IInv, ControlInv
<1> QED
  BY Zenon, <1>1, <1>2, <1>4, <1>5, <1>7, RecordStep

LEMMA ApplyDeletedStep ==
  ASSUME IInv, NEW a \in Addr, ApplyDeleted(a)
  PROVE  IInv'
<1> DEFINE r == rec[a]
           m == destruct(rec[a])
<1>1. /\ verdict = "running" /\ r.place # "none" /\ rec' = [rec EXCEPT ![a] = m]
      /\ ref' = [ref EXCEPT ![a] = NoLeaf] /\ touched_' = touched_ \cup {a}
      /\ journal' = (IF multi_block_ THEN journal \cup {a} ELSE journal) /\ end_transaction
  BY Zenon DEF ApplyDeleted, executing, journaled
<1>2. r = find_or_create_account(a)
  BY Zenon, <1>1 DEF find_or_create_account
<1>3. r \in Account /\ Shape(r) /\ Placed(a, r)
  BY Zenon DEF IInv, TypeOK, RecordsInv
<1> HIDE DEF r
<1>4. /\ m \in Account /\ Shape(m) /\ NonEmpty(m) /\ m.deleted /\ m.place = r.place
      /\ Claims(a, m) <=> Claims(a, r)
      /\ Placed(a, m)
  BY Zenon, <1>1, <1>3, Destructed DEF r
<1> HIDE DEF m
<1>5. ~is_empty_account(m) /\ Covered(m) /\ Fits(a, m, NoLeaf, {})
  BY Zenon, <1>4 DEF is_empty_account, Covered, Fits
<1> QED
  BY Zenon, <1>1, <1>2, <1>4, <1>5, TransactionStep

-----------------------------------------------------------------------------
(* Modified accounts: the four steps of apply_modified. *)

\* A record while a diff is applied to it: Marked holds again at the end.
Body(r) == SlotsApart(r) /\ WalkedRight(r) /\ StampRight(r) /\ Emptied(r) /\ r.place # "none"

Live(a, r) == r \in Account /\ Body(r) /\ ~r.deleted /\ Placed(a, r)

blank == [nonce |-> 0, balance |-> 0, code |-> "none", root |-> EmptyRoot]
base(l) == IF l = NoLeaf THEN blank ELSE l

LEMMA BaseFacts ==
  ASSUME NEW l \in Leaf \cup {NoLeaf}
  PROVE  base(l) \in Leaf /\ (l # NoLeaf => base(l) = l)
  BY Zenon, LeafFacts DEF base, blank, Leaf, Code

\* Records that differ only in what claims do not speak of.
LEMMA SameClaims ==
  ASSUME NEW a, NEW r, NEW m, m.place = r.place, m.root = r.root, m.deleted = r.deleted,
         m.absent_reads = r.absent_reads, m.acc_rlp = r.acc_rlp, m.wiped = r.wiped,
         DOMAIN m.slots = DOMAIN r.slots, \A k \in DOMAIN r.slots : m.slots[k].initial = r.slots[k].initial
  PROVE  Claims(a, m) <=> Claims(a, r)
  BY Zenon DEF Claims

LEMMA Revived ==
  ASSUME NEW a, NEW r \in Account, Shape(r), Placed(a, r), r.place # "none", NEW m, m = revive_if_deleted(r)
  PROVE  /\ Live(a, m) /\ Marked(m) /\ m.place = r.place
         /\ ~r.deleted => m = r
         /\ r.deleted => m.modified /\ m.nonce = 0 /\ m.balance = 0 /\ m.code = "none" /\ Unwritten(m)
         /\ Claims(a, m) <=> Claims(a, r)
         /\ Covered(r) => Covered(m)
         /\ \A l \in Leaf \cup {NoLeaf} : \A L \in SUBSET Key : Fits(a, r, l, L) => Fits(a, m, base(l), L)
<1>1. CASE ~r.deleted
  <2>1. m = r
    BY Zenon, <1>1 DEF revive_if_deleted
  <2>2. ASSUME NEW l \in Leaf \cup {NoLeaf}, NEW L \in SUBSET Key, Fits(a, r, l, L)
        PROVE  Fits(a, m, base(l), L)
    <3>1. l.code \in Code
      BY Zenon, <1>1, <2>2, AccountFacts DEF Fits
    <3> QED
      BY Zenon, <2>1, <2>2, <3>1, LeafFacts, BaseFacts
  <2> QED
    BY Zenon, <1>1, <2>1, <2>2 DEF Live, Body, Shape
<1>2. CASE r.deleted
  <2>1. m = [r EXCEPT !.deleted = FALSE, !.code = "none", !.root = EmptyRoot,
                      !.slots = Nothing, !.nonce = 0, !.balance = 0,
                      !.overflow = Nothing, !.recovered = Nothing,
                      !.modified = TRUE, !.stamped = FALSE]
    BY Zenon, <1>2 DEF revive_if_deleted
  <2>2. /\ m.place = r.place /\ m.nonce = 0 /\ m.balance = 0 /\ m.code = "none"
        /\ m.root = EmptyRoot /\ m.slots = Nothing /\ m.deleted = FALSE /\ m.modified = TRUE
        /\ m.absent_reads = r.absent_reads /\ m.acc_rlp = r.acc_rlp /\ m.stamped = FALSE
        /\ m.overflow = Nothing /\ m.recovered = Nothing /\ m.wiped = r.wiped
    BY <2>1 DEF Account
  <2>3. m \in Account
    <3>1. Nothing \in Partial(Value \ {0}) /\ Nothing \in Partial(RecoveredSlot) /\ Nothing \in Partial(Slot)
          /\ EmptyRoot \in Storage /\ 0 \in 0..MaxBalance /\ "none" \in Code
      BY Zenon, PartialFacts, LeafFacts DEF Code
    <3> QED
      BY ZenonT(60), <2>1, <3>1 DEF Account
  <2>4. found_slots(m) = {} /\ DOMAIN m.recovered = {} /\ DOMAIN m.overflow = {} /\ DOMAIN m.slots = {}
    BY Zenon, <2>2, FoundNone, PartialFacts
  <2>5. Body(m) /\ Unwritten(m) /\ Marked(m)
    BY Zenon, <2>2, <2>4 DEF Shape, Body, SlotsApart, WalkedRight, StampRight, Emptied, Marked, Unwritten
  <2>6. Placed(a, m)
    BY Zenon, <2>2, <2>4 DEF Placed
  <2>7. Claims(a, m) <=> Claims(a, r)
    <3>1. SlotsClaim(m)
      <4>1. m.absent_reads \subseteq Key
        BY Zenon, <2>3, AccountFacts
      <4>2. \A k \in Key : EmptyRoot[k] = 0
        BY Zenon, LeafFacts
      <4> QED
        BY Zenon, <2>2, <2>4, <4>1, <4>2 DEF SlotsClaim
    <3>2. AllBound(m) <=> AllBound(r)
      BY Zenon, <2>2 DEF AllBound
    <3> QED
      BY Zenon, <1>2, <2>2, <3>1, <3>2, ClaimsAre
  <2>8. Covered(m)
    BY Zenon, <2>2, LeafFacts DEF Covered
  <2>9. ASSUME NEW l \in Leaf \cup {NoLeaf}, NEW L \in SUBSET Key, Fits(a, r, l, L)
        PROVE  Fits(a, m, base(l), L)
    <3>1. base(l) = blank
      BY Zenon, <1>2, <2>9 DEF Fits, base
    <3>2. \A k \in Key : slot_value(m, k) = 0
      BY Zenon, <2>2, <2>4, LeafFacts DEF slot_value
    <3> QED
      BY SMTT(30), <2>2, <2>4, <3>1, <3>2, LeafFacts DEF Fits, blank
  <2> QED
    BY Zenon, <1>2, <2>2, <2>3, <2>5, <2>6, <2>7, <2>8, <2>9 DEF Live
<1> QED
  BY Zenon, <1>1, <1>2

\* What a code change makes of a leaf.
recoded(l, code) ==
  IF code = "same" THEN l
  ELSE [nonce |-> l.nonce, balance |-> l.balance, code |-> code,
        root |-> IF code = "deployed" THEN EmptyRoot ELSE l.root]

LEMMA Coded ==
  ASSUME NEW a, NEW r, Live(a, r), NEW code \in Code \cup {"same"}, early => ~recovery_ended_,
         NEW m, m = IF code = "same" THEN r ELSE apply_code_diff(r, code)
  PROVE  /\ Live(a, m) /\ m.place = r.place
         /\ code = "same" => m = r
         /\ code # "same" => m.modified
         /\ m.nonce = r.nonce /\ m.balance = r.balance
         /\ m.code = IF code = "same" THEN r.code ELSE code
         /\ Claims(a, m) <=> Claims(a, r)
         /\ Covered(r) => Covered(m)
         /\ \A l \in Leaf : \A L \in SUBSET Key : Fits(a, r, l, L) => Fits(a, m, recoded(l, code), L)
<1>0. r \in Account /\ Body(r) /\ ~r.deleted /\ Placed(a, r)
  BY Zenon DEF Live
<1>1. CASE code = "same"
  BY Zenon, <1>1 DEF recoded
<1>2. CASE code \in {"none", "delegation"}
  <2>1. m = [r EXCEPT !.code = code, !.modified = TRUE, !.stamped = FALSE]
    BY Zenon, <1>2 DEF apply_code_diff
  <2>2. /\ m.place = r.place /\ m.nonce = r.nonce /\ m.balance = r.balance /\ m.code = code
        /\ m.root = r.root /\ m.slots = r.slots /\ m.deleted = r.deleted /\ m.modified = TRUE
        /\ m.absent_reads = r.absent_reads /\ m.acc_rlp = r.acc_rlp /\ m.stamped = FALSE
        /\ m.overflow = r.overflow /\ m.recovered = r.recovered /\ m.wiped = r.wiped
    BY Zenon, <1>0, <2>1 DEF Account
  <2>3. m \in Account
    BY Zenon, <1>0, <1>2, <2>1 DEF Account, Code
  <2>4. found_slots(m) = found_slots(r) /\ \A k : slot_value(m, k) = slot_value(r, k)
    BY Zenon, <2>2 DEF found_slots, slot_value
  <2>5. Body(m) /\ Placed(a, m)
    BY SMTT(30), <1>0, <2>2, <2>4 DEF Body, SlotsApart, WalkedRight, StampRight, Emptied, Placed
  <2>6. Claims(a, m) <=> Claims(a, r)
    BY Zenon, <2>2, SameClaims
  <2>7. Covered(r) => Covered(m)
    BY Zenon, <2>2, <2>4 DEF Covered
  <2>8. ASSUME NEW l \in Leaf, NEW L \in SUBSET Key, Fits(a, r, l, L) PROVE Fits(a, m, recoded(l, code), L)
    BY SMTT(30), <1>0, <1>2, <2>2, <2>4, <2>8 DEF Fits, recoded
  <2> QED
    BY Zenon, <1>0, <1>2, <2>2, <2>3, <2>5, <2>6, <2>7, <2>8 DEF Live
<1>3. CASE code = "deployed"
  <2> DEFINE n == note_wiped_storage_(r)
  <2>1. m = [[n EXCEPT !.slots = Nothing, !.root = EmptyRoot, !.overflow = Nothing, !.recovered = Nothing]
               EXCEPT !.code = code, !.modified = TRUE, !.stamped = FALSE]
    BY Zenon, <1>3 DEF apply_code_diff
  <2>2. /\ n \in Account
        /\ n.place = r.place /\ n.nonce = r.nonce /\ n.balance = r.balance
        /\ n.deleted = r.deleted /\ n.absent_reads = {} /\ n.acc_rlp = r.acc_rlp
        /\ AllBound(n) <=> AllBound(r) /\ SlotsClaim(r)
    BY Zenon, <1>0, NoteWiped
  <2> HIDE DEF n
  <2>3. /\ m.place = r.place /\ m.nonce = r.nonce /\ m.balance = r.balance /\ m.code = code
        /\ m.root = EmptyRoot /\ m.slots = Nothing /\ m.deleted = r.deleted /\ m.modified = TRUE
        /\ m.absent_reads = {} /\ m.acc_rlp = r.acc_rlp /\ m.stamped = FALSE
        /\ m.overflow = Nothing /\ m.recovered = Nothing /\ m.wiped = n.wiped
    BY Zenon, <2>1, <2>2 DEF Account
  <2>4. m \in Account
    <3>1. Nothing \in Partial(Value \ {0}) /\ Nothing \in Partial(RecoveredSlot) /\ Nothing \in Partial(Slot)
          /\ EmptyRoot \in Storage /\ code \in Code
      BY Zenon, <1>3, PartialFacts, LeafFacts DEF Code
    <3> QED
      BY ZenonT(40), <2>1, <2>2, <3>1 DEF Account
  <2>5. found_slots(m) = {} /\ DOMAIN m.recovered = {} /\ DOMAIN m.overflow = {} /\ DOMAIN m.slots = {}
    BY Zenon, <2>3, FoundNone, PartialFacts
  <2>6. Body(m) /\ Placed(a, m)
    BY Zenon, <1>0, <2>3, <2>5 DEF Body, SlotsApart, WalkedRight, StampRight, Emptied, Placed
  <2>7. Claims(a, m) <=> Claims(a, r)
    <3>1. SlotsClaim(m)
      BY Zenon, <2>3, <2>5 DEF SlotsClaim
    <3>2. AllBound(m) <=> AllBound(r) /\ SlotsClaim(r)
      BY Zenon, <2>2, <2>3 DEF AllBound
    <3>3. early /\ r.place # "pre" => SlotsClaim(r)
      <4> SUFFICES ASSUME early, r.place # "pre" PROVE DOMAIN r.slots = {} /\ r.absent_reads = {}
          BY Zenon DEF SlotsClaim
      <4>1. r.place \in {"created", "recovered"}
        BY Zenon, <1>0, AccountFacts DEF Body
      <4> QED
        BY Zenon, <1>0, <4>1 DEF Body, SlotsApart, Emptied, Placed
    <3> QED
      BY Zenon, <1>0, <2>3, <3>1, <3>2, <3>3, ClaimsAre
  <2>8. Covered(m)
    BY Zenon, <2>3, LeafFacts DEF Covered
  <2>9. ASSUME NEW l \in Leaf, NEW L \in SUBSET Key, Fits(a, r, l, L) PROVE Fits(a, m, recoded(l, code), L)
    <3>1. \A k \in Key : slot_value(m, k) = 0
      BY Zenon, <2>3, <2>5, LeafFacts DEF slot_value
    <3>2. l.nonce = r.nonce /\ l.balance = r.balance
      BY Zenon, <1>0, <2>9 DEF Fits
    <3> QED
      BY SMTT(30), <1>0, <1>3, <2>3, <2>5, <3>1, <3>2, LeafFacts DEF Fits, recoded
  <2> QED
    BY Zenon, <1>0, <1>3, <2>3, <2>4, <2>6, <2>7, <2>8, <2>9 DEF Live
<1> QED
  BY Zenon, <1>1, <1>2, <1>3 DEF Code

\* What a diff's nonce and balance, and its writes, make of a leaf.
paid_to(l, nonce, balance) == [nonce |-> nonce, balance |-> balance, code |-> l.code, root |-> l.root]
rewritten(l, writes) ==
  [nonce |-> l.nonce, balance |-> l.balance, code |-> l.code,
   root |-> [k \in Key |-> IF k \in DOMAIN writes THEN writes[k] ELSE l.root[k]]]

LEMMA AccountSet ==
  ASSUME NEW a, NEW r, Live(a, r), NEW nonce \in {0, 1}, NEW balance \in 0..MaxBalance,
         NEW m, m = set_account_from_diff(r, nonce, balance)
  PROVE  /\ Live(a, m) /\ m.place = r.place
         /\ ~m.modified => m = r
         /\ m.nonce = nonce /\ m.balance = balance /\ m.code = r.code
         /\ m.slots = r.slots /\ m.overflow = r.overflow /\ m.recovered = r.recovered
         /\ Claims(a, m) <=> Claims(a, r)
         /\ Covered(r) => Covered(m)
         /\ \A l \in Leaf : \A L \in SUBSET Key :
              Fits(a, r, l, L) => Fits(a, m, paid_to(l, nonce, balance), L)
<1>0. r \in Account /\ Body(r) /\ ~r.deleted /\ Placed(a, r)
  BY Zenon DEF Live
<1>1. CASE r.nonce = nonce /\ r.balance = balance
  <2>1. m = r
    BY Zenon, <1>1 DEF set_account_from_diff
  <2>2. ASSUME NEW l \in Leaf, NEW L \in SUBSET Key, Fits(a, r, l, L)
        PROVE  paid_to(l, nonce, balance) = l
    <3>1. l.nonce = nonce /\ l.balance = balance
      BY Zenon, <1>0, <1>1, <2>2 DEF Fits
    <3> QED
      BY Zenon, <3>1 DEF Leaf, paid_to
  <2> QED
    BY Zenon, <1>1, <2>1, <2>2
<1>2. CASE ~(r.nonce = nonce /\ r.balance = balance)
  <2>1. m = [r EXCEPT !.nonce = nonce, !.balance = balance, !.modified = TRUE, !.stamped = FALSE]
    BY Zenon, <1>2 DEF set_account_from_diff
  <2>2. /\ m.place = r.place /\ m.nonce = nonce /\ m.balance = balance /\ m.code = r.code
        /\ m.root = r.root /\ m.slots = r.slots /\ m.deleted = r.deleted /\ m.modified = TRUE
        /\ m.absent_reads = r.absent_reads /\ m.acc_rlp = r.acc_rlp /\ m.stamped = FALSE
        /\ m.overflow = r.overflow /\ m.recovered = r.recovered /\ m.wiped = r.wiped
    BY <1>0, <2>1 DEF Account
  <2>3. m \in Account
    BY Zenon, <1>0, <2>1 DEF Account
  <2>4. found_slots(m) = found_slots(r) /\ \A k : slot_value(m, k) = slot_value(r, k)
    BY Zenon, <2>2 DEF found_slots, slot_value
  <2>5. Body(m) /\ Placed(a, m)
    BY SMTT(30), <1>0, <2>2, <2>4 DEF Body, SlotsApart, WalkedRight, StampRight, Emptied, Placed
  <2>6. Claims(a, m) <=> Claims(a, r)
    BY Zenon, <2>2, SameClaims
  <2>7. Covered(r) => Covered(m)
    BY Zenon, <2>2, <2>4 DEF Covered
  <2>8. ASSUME NEW l \in Leaf, NEW L \in SUBSET Key, Fits(a, r, l, L)
        PROVE  Fits(a, m, paid_to(l, nonce, balance), L)
    <3> DEFINE n == paid_to(l, nonce, balance)
    <3>1. n.nonce = nonce /\ n.balance = balance /\ n.code = l.code /\ n.root = l.root
      BY Zenon DEF Leaf, paid_to
    <3> HIDE DEF n
    <3>2. Fits(a, m, n, L)
      BY SMTT(30), <1>0, <2>2, <2>4, <2>8, <3>1 DEF Fits
    <3> QED
      BY Zenon, <3>2 DEF n
  <2> QED
    BY Zenon, <1>0, <2>2, <2>3, <2>5, <2>6, <2>7, <2>8 DEF Live
<1> QED
  BY Zenon, <1>1, <1>2

LEMMA SlotsSet ==
  ASSUME NEW a, NEW r, Live(a, r), NEW writes \in Partial(Value), NEW m, m = set_storage_slots(r, writes)
  PROVE  /\ Live(a, m) /\ m.place = r.place
         /\ m.nonce = r.nonce /\ m.balance = r.balance /\ m.code = r.code
         /\ m.modified <=> r.modified \/ DOMAIN writes # {}
         /\ writes = Nothing => m = r
         /\ Claims(a, m) <=> Claims(a, r)
         /\ Covered(r) => Covered(m)
         /\ \A l \in Leaf : \A L \in SUBSET Key :
              Fits(a, r, l, L) /\ DOMAIN writes \subseteq L =>
                Fits(a, m, rewritten(l, writes), {})
<1> DEFINE W == DOMAIN writes
           inline == W \cap DOMAIN r.slots
           found == {k \in W \ inline : k \in DOMAIN r.recovered /\ r.recovered[k].found}
           rest == W \ (inline \cup found)
           slots == [k \in DOMAIN r.slots |->
                       IF k \in inline THEN [r.slots[k] EXCEPT !.current = writes[k]] ELSE r.slots[k]]
           recovered == [k \in DOMAIN r.recovered |->
                           IF k \in found THEN [r.recovered[k] EXCEPT !.current = writes[k]] ELSE r.recovered[k]]
           overflow == [k \in (DOMAIN r.overflow \ rest) \cup {k \in rest : writes[k] # 0} |->
                          IF k \in rest THEN writes[k] ELSE r.overflow[k]]
<1>0. r \in Account /\ Body(r) /\ ~r.deleted /\ Placed(a, r)
  BY Zenon DEF Live
<1>1. m = [r EXCEPT !.modified = r.modified \/ W # {}, !.slots = slots, !.recovered = recovered, !.overflow = overflow]
  <2>1. m = [r EXCEPT !.modified = @ \/ W # {},
               !.slots = [k \in DOMAIN @ |-> IF k \in inline THEN [@[k] EXCEPT !.current = writes[k]] ELSE @[k]],
               !.recovered = [k \in DOMAIN @ |-> IF k \in found THEN [@[k] EXCEPT !.current = writes[k]] ELSE @[k]],
               !.overflow = [k \in (DOMAIN @ \ rest) \cup {k \in rest : writes[k] # 0} |->
                               IF k \in rest THEN writes[k] ELSE @[k]]]
    BY Zenon DEF set_storage_slots
  <2> QED
    BY Zenon, <2>1
<1>2. /\ m.place = r.place /\ m.nonce = r.nonce /\ m.balance = r.balance /\ m.code = r.code
      /\ m.root = r.root /\ m.slots = slots /\ m.deleted = r.deleted /\ m.modified = (r.modified \/ W # {})
      /\ m.absent_reads = r.absent_reads /\ m.acc_rlp = r.acc_rlp /\ m.stamped = r.stamped
      /\ m.overflow = overflow /\ m.recovered = recovered /\ m.wiped = r.wiped
  <2> HIDE DEF slots, recovered, overflow, W
  <2> QED
    BY <1>0, <1>1 DEF Account
<1>3. /\ r.slots \in [DOMAIN r.slots -> Slot] /\ DOMAIN r.slots \subseteq Key
      /\ r.recovered \in [DOMAIN r.recovered -> RecoveredSlot] /\ DOMAIN r.recovered \subseteq Key
      /\ r.overflow \in [DOMAIN r.overflow -> Value \ {0}] /\ DOMAIN r.overflow \subseteq Key
      /\ W \subseteq Key /\ \A k \in W : writes[k] \in Value
  BY Zenon, <1>0, AccountFacts, PartialFacts
<1>4. found_slots(r) \cap DOMAIN r.slots = {}
  BY Zenon, <1>0 DEF Body, SlotsApart
<1>5. found = W \cap found_slots(r) /\ rest = W \ (DOMAIN r.slots \cup found_slots(r))
  BY Zenon, <1>4 DEF found_slots
<1>6. /\ DOMAIN slots = DOMAIN r.slots /\ slots \in [DOMAIN r.slots -> Slot]
      /\ \A k \in DOMAIN r.slots :
           /\ slots[k].initial = r.slots[k].initial
           /\ k \in W => slots[k].current = writes[k]
           /\ k \notin W => slots[k] = r.slots[k]
  <2>1. \A k \in DOMAIN r.slots : r.slots[k] \in Slot
    BY Zenon, <1>3
  <2>2. ASSUME NEW k \in DOMAIN r.slots
        PROVE  /\ slots[k] \in Slot /\ slots[k].initial = r.slots[k].initial
               /\ k \in W => slots[k].current = writes[k]
               /\ k \notin W => slots[k] = r.slots[k]
    <3>1. CASE k \in W
      <4>1. slots[k] = [r.slots[k] EXCEPT !.current = writes[k]]
        BY Zenon, <3>1
      <4> HIDE DEF slots
      <4> QED
        BY Zenon, <1>3, <2>1, <3>1, <4>1 DEF Slot
    <3>2. CASE k \notin W
      <4>1. slots[k] = r.slots[k]
        BY Zenon, <3>2
      <4> HIDE DEF slots
      <4> QED
        BY Zenon, <2>1, <3>2, <4>1
    <3> QED
      BY Zenon, <3>1, <3>2
  <2>3. slots \in [DOMAIN r.slots -> Slot]
    <3>1. \A k \in DOMAIN r.slots : (IF k \in inline THEN [r.slots[k] EXCEPT !.current = writes[k]] ELSE r.slots[k]) \in Slot
      BY Zenon, <2>2
    <3> QED
      BY Zenon, <3>1
  <2> QED
    BY Zenon, <2>2, <2>3
<1>7. /\ DOMAIN recovered = DOMAIN r.recovered /\ recovered \in [DOMAIN r.recovered -> RecoveredSlot]
      /\ \A k \in DOMAIN r.recovered :
           /\ recovered[k].initial = r.recovered[k].initial
           /\ recovered[k].found = r.recovered[k].found
           /\ k \in found => recovered[k].current = writes[k]
           /\ k \notin found => recovered[k] = r.recovered[k]
  <2>1. \A k \in DOMAIN r.recovered : r.recovered[k] \in RecoveredSlot
    BY Zenon, <1>3
  <2>2. ASSUME NEW k \in DOMAIN r.recovered
        PROVE  /\ recovered[k] \in RecoveredSlot /\ recovered[k].initial = r.recovered[k].initial
               /\ recovered[k].found = r.recovered[k].found
               /\ k \in found => recovered[k].current = writes[k]
               /\ k \notin found => recovered[k] = r.recovered[k]
    <3>1. CASE k \in found
      <4>1. recovered[k] = [r.recovered[k] EXCEPT !.current = writes[k]] /\ writes[k] \in Value
        BY Zenon, <1>3, <3>1
      <4> HIDE DEF recovered, found
      <4> QED
        BY Zenon, <2>1, <3>1, <4>1 DEF RecoveredSlot
    <3>2. CASE k \notin found
      <4>1. recovered[k] = r.recovered[k]
        BY Zenon, <3>2
      <4> HIDE DEF recovered, found
      <4> QED
        BY Zenon, <2>1, <3>2, <4>1
    <3> QED
      BY Zenon, <3>1, <3>2
  <2>3. recovered \in [DOMAIN r.recovered -> RecoveredSlot]
    <3>1. \A k \in DOMAIN r.recovered :
            (IF k \in found THEN [r.recovered[k] EXCEPT !.current = writes[k]] ELSE r.recovered[k]) \in RecoveredSlot
      BY Zenon, <2>2
    <3> HIDE DEF found
    <3> QED
      BY Zenon, <3>1
  <2> QED
    BY Zenon, <2>2, <2>3
<1>8. /\ DOMAIN overflow = (DOMAIN r.overflow \ rest) \cup {k \in rest : writes[k] # 0}
      /\ \A k \in DOMAIN overflow : overflow[k] = IF k \in rest THEN writes[k] ELSE r.overflow[k]
      /\ overflow \in [DOMAIN overflow -> Value \ {0}] /\ DOMAIN overflow \subseteq Key
  <2>1. rest \subseteq W
    BY Zenon
  <2> HIDE DEF rest
  <2> QED
    BY Zenon, <1>3, <2>1
<1> HIDE DEF slots, recovered, overflow, rest, found
<1>9. m \in Account
  <2>1. slots \in Partial(Slot) /\ recovered \in Partial(RecoveredSlot) /\ overflow \in Partial(Value \ {0})
    BY Zenon, <1>3, <1>6, <1>7, <1>8, InPartial
  <2>2. (r.modified \/ W # {}) \in BOOLEAN
    BY Zenon
  <2> QED
    BY ZenonT(40), <1>0, <1>1, <2>1, <2>2 DEF Account
<1>10. found_slots(m) = found_slots(r)
  BY Zenon, <1>2, <1>7 DEF found_slots
<1>11. SlotsApart(m)
  <2>1. DOMAIN overflow \subseteq DOMAIN r.overflow \cup rest
    BY Zenon, <1>8
  <2> QED
    BY Zenon, <1>0, <1>2, <1>5, <1>6, <1>10, <2>1 DEF Body, SlotsApart
<1>12. WalkedRight(m)
  <2> SUFFICES ASSUME NEW k \in DOMAIN r.recovered
               PROVE  /\ recovered[k].initial = r.root[k]
                      /\ recovered[k].found <=> r.root[k] # 0
                      /\ ~recovered[k].found => recovered[k].current = 0
      BY SMTT(30), <1>2, <1>7 DEF WalkedRight
  <2>1. r.recovered[k].initial = r.root[k] /\ (r.recovered[k].found <=> r.root[k] # 0)
        /\ (~r.recovered[k].found => r.recovered[k].current = 0)
    BY Zenon, <1>0 DEF Body, WalkedRight
  <2>2. k \in found => r.recovered[k].found
    BY Zenon, <1>5 DEF found_slots
  <2> QED
    BY Zenon, <1>7, <2>1, <2>2
<1>13. Body(m) /\ Placed(a, m)
  BY Zenon, <1>0, <1>2, <1>7, <1>11, <1>12 DEF Body, StampRight, Emptied, Placed
<1>14. Claims(a, m) <=> Claims(a, r)
  BY SMTT(30), <1>2, <1>6, SameClaims
<1>15. Covered(r) => Covered(m)
  BY Zenon, <1>2, <1>6, <1>10 DEF Covered
<1>16. ASSUME writes = Nothing PROVE m = r
  <2>0. W = {}
    BY Zenon, <1>16, PartialFacts
  <2>1. slots = r.slots
    BY <1>3, <1>6, <2>0
  <2>2. recovered = r.recovered
    BY SMTT(30), <1>3, <1>5, <1>7, <2>0
  <2>3. overflow = r.overflow
    <3>1. rest = {}
      BY Zenon, <1>5, <2>0
    <3> QED
      BY <1>3, <1>8, <3>1
  <2>4. m.modified = r.modified
    BY Zenon, <1>0, <1>2, <2>0, AccountFacts
  <2> QED
    BY Zenon, <1>0, <1>2, <1>9, <2>1, <2>2, <2>3, <2>4, SameAccount
<1>17. ASSUME NEW l \in Leaf, NEW L \in SUBSET Key, Fits(a, r, l, L), W \subseteq L
       PROVE  Fits(a, m, rewritten(l, writes), {})
  <2> DEFINE n == rewritten(l, writes)
  <2>1. n.nonce = l.nonce /\ n.balance = l.balance /\ n.code = l.code
        /\ \A k \in Key : n.root[k] = IF k \in W THEN writes[k] ELSE l.root[k]
    BY Zenon DEF Leaf, rewritten
  <2>2. ~m.modified => n = l
    <3> SUFFICES ASSUME W = {} PROVE n = l
        BY Zenon, <1>2
    <3>1. l.root = [k \in Key |-> l.root[k]]
      BY Zenon DEF Leaf, Storage
    <3>2. [k \in Key |-> IF k \in W THEN writes[k] ELSE l.root[k]] = l.root
      BY Zenon, <3>1
    <3>3. n = [nonce |-> l.nonce, balance |-> l.balance, code |-> l.code, root |-> l.root]
      BY Zenon, <3>2 DEF rewritten
    <3> HIDE DEF n, W
    <3> QED
      BY Zenon, <3>3 DEF Leaf
  <2> HIDE DEF n, W
  <2>3. /\ l.nonce = r.nonce /\ l.balance = r.balance /\ l.code = r.code
        /\ \A k \in Key : l.root[k] = slot_value(r, k)
        /\ \A k \in DOMAIN r.slots : r.slots[k].initial = r.root[k]
        /\ \A k \in DOMAIN r.overflow : r.root[k] = 0
        /\ \A k \in L : k \in DOMAIN r.slots \cup found_slots(r) \/ r.root[k] = 0
        /\ early /\ ~r.modified => l = pre[a]
    BY Zenon, <1>0, <1>17 DEF Fits
  <2>4. \A k \in rest : r.root[k] = 0
    BY Zenon, <1>5, <1>17, <2>3
  <2>5. ASSUME NEW k \in Key PROVE n.root[k] = slot_value(m, k)
    <3>1. CASE k \in DOMAIN r.slots
      BY SMTT(30), <1>2, <1>6, <2>1, <2>3, <3>1 DEF slot_value
    <3>2. CASE k \in rest
      <4>1. k \notin DOMAIN r.slots /\ k \notin found_slots(r) /\ k \in W
        BY Zenon, <1>5, <3>2
      <4> QED
        BY <1>2, <1>6, <1>8, <1>10, <2>1, <2>4, <3>2, <4>1 DEF slot_value
    <3>3. CASE k \in found_slots(r)
      <4>1. k \notin DOMAIN r.slots /\ k \notin DOMAIN r.overflow /\ k \notin rest /\ (k \in found <=> k \in W)
        BY Zenon, <1>0, <1>5, <3>3 DEF Body, SlotsApart
      <4>2. k \notin DOMAIN overflow /\ k \in DOMAIN r.recovered
        BY Zenon, <1>8, <3>3, <4>1 DEF found_slots
      <4> QED
        BY SMTT(30), <1>2, <1>6, <1>7, <1>10, <2>1, <2>3, <3>3, <4>1, <4>2 DEF slot_value
    <3>4. CASE k \notin DOMAIN r.slots /\ k \notin rest /\ k \notin found_slots(r)
      <4>1. k \notin W /\ (k \in DOMAIN overflow <=> k \in DOMAIN r.overflow)
        BY Zenon, <1>5, <1>8, <3>4
      <4> QED
        BY SMTT(30), <1>2, <1>6, <1>8, <1>10, <2>1, <2>3, <3>4, <4>1 DEF slot_value
    <3> QED
      BY Zenon, <3>1, <3>2, <3>3, <3>4
  <2>6. \A k \in DOMAIN overflow : r.root[k] = 0
    BY Zenon, <1>8, <2>3, <2>4
  <2>7. Fits(a, m, n, {})
    BY ZenonT(40), <1>0, <1>2, <1>6, <2>1, <2>2, <2>3, <2>5, <2>6 DEF Fits
  <2> QED
    BY Zenon, <2>7 DEF n
<1> QED
  BY Zenon, <1>0, <1>2, <1>9, <1>13, <1>14, <1>15, <1>16, <1>17 DEF Live

\* What the rules make of a leaf, in the same four steps.
LEMMA ModifiedIn ==
  ASSUME NEW l \in Leaf \cup {NoLeaf}, NEW d \in Diff
  PROVE  /\ recoded(base(l), d.code) \in Leaf
         /\ paid_to(recoded(base(l), d.code), d.nonce, d.balance) \in Leaf
         /\ modified_in(l, d) \in Leaf
         /\ modified_in(l, d) = rewritten(paid_to(recoded(base(l), d.code), d.nonce, d.balance), d.writes)
<1> DEFINE b == base(l)
           c == recoded(b, d.code)
           s == paid_to(c, d.nonce, d.balance)
           kept == IF l = NoLeaf \/ d.code = "deployed" THEN EmptyRoot ELSE l.root
           root == [k \in Key |-> IF k \in DOMAIN d.writes THEN d.writes[k] ELSE kept[k]]
<1>1. /\ d.nonce \in {0, 1} /\ d.balance \in 0..MaxBalance /\ d.code \in Code \cup {"same"}
      /\ \A k \in DOMAIN d.writes : d.writes[k] \in Value
  BY Zenon, PartialFacts DEF Diff
<1>2. b \in Leaf /\ (l # NoLeaf => b = l) /\ (l = NoLeaf => b = blank)
  BY Zenon, BaseFacts DEF base
<1>3. b.nonce \in {0, 1} /\ b.balance \in 0..MaxBalance /\ b.code \in Code /\ b.root \in Storage
  BY Zenon, <1>2 DEF Leaf
<1>4. b.code = (IF l = NoLeaf THEN "none" ELSE l.code) /\ b.root = IF l = NoLeaf THEN EmptyRoot ELSE l.root
  BY <1>2 DEF blank
<1> HIDE DEF b
<1>5. /\ c \in Leaf /\ c.root = kept
      /\ c.code = IF d.code = "same" THEN b.code ELSE d.code
  BY Zenon, <1>1, <1>2, <1>3, <1>4, LeafFacts DEF recoded, Leaf
<1> HIDE DEF c
<1>7. kept \in Storage /\ c.code \in Code
  BY Zenon, <1>5 DEF Leaf
<1> HIDE DEF kept
<1>6. s = [nonce |-> d.nonce, balance |-> d.balance, code |-> c.code, root |-> kept]
  BY Zenon, <1>5 DEF paid_to
<1>8. s \in Leaf
  BY SMTT(30), <1>1, <1>6, <1>7 DEF Leaf
<1>9. root \in Storage
  BY Zenon, <1>1, <1>7 DEF Storage
<1>10. modified_in(l, d) = [nonce |-> d.nonce, balance |-> d.balance, code |-> c.code, root |-> root]
  BY Zenon, <1>4, <1>5 DEF modified_in, kept
<1> HIDE DEF s
<1>11. rewritten(s, d.writes) = [nonce |-> d.nonce, balance |-> d.balance, code |-> c.code, root |-> root]
  <2>1. s.root = kept
    BY Zenon, <1>6
  <2> QED
    BY Zenon, <1>6, <2>1 DEF rewritten
<1> HIDE DEF root
<1>12. modified_in(l, d) \in Leaf
  BY SMTT(30), <1>1, <1>7, <1>9, <1>10 DEF Leaf
<1> QED
  BY Zenon, <1>5, <1>8, <1>10, <1>11, <1>12 DEF b, c, s

LEMMA ApplyModifiedStep ==
  ASSUME IInv, NEW a \in Addr, NEW d \in Diff, ApplyModified(a, d)
  PROVE  IInv'
<1> DEFINE r == find_or_create_account(a)
           live == revive_if_deleted(r)
           coded == IF d.code = "same" THEN live ELSE apply_code_diff(live, d.code)
           set == set_account_from_diff(coded, d.nonce, d.balance)
           m == set_storage_slots(set, d.writes)
           L == read_slots(loaded, a)
           l == modified_in(ref[a], d)
           c == recoded(base(ref[a]), d.code)
           s == paid_to(c, d.nonce, d.balance)
<1>1. /\ verdict = "running" /\ evm_allows(get_account(r), L, d)
      /\ rec' = [rec EXCEPT ![a] = m] /\ ref' = [ref EXCEPT ![a] = l]
      /\ journal' = (IF multi_block_ THEN journal \cup {a} ELSE journal)
      /\ end_transaction /\ touched_' = touched_
  BY Zenon DEF ApplyModified, executing, journaled, apply_modified, read_slots
<1>2. /\ r \in Account /\ Shape(r) /\ Placed(a, r) /\ r.place # "none"
  BY Zenon, <1>1, Load
<1>3. /\ d.nonce \in {0, 1} /\ d.balance \in 0..MaxBalance /\ d.code \in Code \cup {"same"}
      /\ d.writes \in Partial(Value) /\ ref[a] \in Leaf \cup {NoLeaf} /\ L \in SUBSET Key
  BY Zenon DEF Diff, IInv, TypeOK, State, read_slots
<1>4. /\ base(ref[a]) \in Leaf /\ c \in Leaf /\ s \in Leaf /\ l \in Leaf
      /\ l = rewritten(s, d.writes)
  BY Zenon, <1>3, ModifiedIn, BaseFacts
<1>5. early => ~recovery_ended_
  BY Zenon DEF IInv, ControlInv
<1>51. coded = IF d.code = "same" THEN live ELSE apply_code_diff(live, d.code)
  BY Zenon
<1>52. set = set_account_from_diff(coded, d.nonce, d.balance) /\ m = set_storage_slots(set, d.writes)
  BY Zenon
<1>53. live = revive_if_deleted(r)
  BY Zenon
<1>54. c = recoded(base(ref[a]), d.code) /\ s = paid_to(c, d.nonce, d.balance)
  BY Zenon
<1> HIDE DEF r, L, l, live, coded, set, m, c, s
<1>6. /\ Live(a, live) /\ Marked(live) /\ live.place = r.place
      /\ ~r.deleted => live = r
      /\ r.deleted => live.modified /\ live.nonce = 0 /\ live.balance = 0 /\ live.code = "none" /\ Unwritten(live)
      /\ Claims(a, live) <=> Claims(a, r)
      /\ Covered(r) => Covered(live)
      /\ Fits(a, r, ref[a], L) => Fits(a, live, base(ref[a]), L)
  BY SMTT(30), <1>2, <1>3, <1>53, Revived
<1>7. /\ Live(a, coded) /\ coded.place = live.place
      /\ d.code = "same" => coded = live
      /\ d.code # "same" => coded.modified
      /\ coded.code = IF d.code = "same" THEN live.code ELSE d.code
      /\ Claims(a, coded) <=> Claims(a, live)
      /\ Covered(live) => Covered(coded)
      /\ Fits(a, live, base(ref[a]), L) => Fits(a, coded, c, L)
  BY <1>3, <1>4, <1>5, <1>51, <1>54, <1>6, Coded
<1>8. /\ Live(a, set) /\ set.place = coded.place
      /\ ~set.modified => set = coded
      /\ set.nonce = d.nonce /\ set.balance = d.balance /\ set.code = coded.code
      /\ set.slots = coded.slots /\ set.overflow = coded.overflow /\ set.recovered = coded.recovered
      /\ Claims(a, set) <=> Claims(a, coded)
      /\ Covered(coded) => Covered(set)
      /\ Fits(a, coded, c, L) => Fits(a, set, s, L)
  BY SMTT(30), <1>3, <1>4, <1>52, <1>54, <1>7, AccountSet
<1>9. /\ Live(a, m) /\ m.place = set.place
      /\ m.nonce = set.nonce /\ m.balance = set.balance /\ m.code = set.code
      /\ m.modified <=> set.modified \/ DOMAIN d.writes # {}
      /\ DOMAIN d.writes = {} => m = set
      /\ Claims(a, m) <=> Claims(a, set)
      /\ Covered(set) => Covered(m)
  <2>1. Live(a, set) /\ d.writes \in Partial(Value) /\ m = set_storage_slots(set, d.writes)
    BY Zenon, <1>3, <1>52, <1>8
  <2>2. Live(a, m) /\ m.place = set.place /\ m.nonce = set.nonce /\ m.balance = set.balance /\ m.code = set.code
    BY SMTT(30), <2>1, SlotsSet
  <2>3. m.modified <=> set.modified \/ DOMAIN d.writes # {}
    BY <2>1, SlotsSet
  <2>4. DOMAIN d.writes = {} => m = set
    <3>1. DOMAIN d.writes = {} => d.writes = Nothing
      BY Zenon, <2>1, PartialFacts
    <3>2. d.writes = Nothing => m = set
      BY SMTT(30), <2>1, SlotsSet
    <3> QED
      BY Zenon, <3>1, <3>2
  <2>5. Claims(a, m) <=> Claims(a, set)
    BY SMTT(30), <2>1, SlotsSet
  <2>6. Covered(set) => Covered(m)
    BY SMTT(30), <2>1, SlotsSet
  <2> QED
    BY Zenon, <2>2, <2>3, <2>4, <2>5, <2>6
<1>91. Fits(a, set, s, L) /\ DOMAIN d.writes \subseteq L => Fits(a, m, l, {})
  BY SMTT(30), <1>3, <1>4, <1>52, <1>8, SlotsSet
<1>10. /\ DOMAIN d.writes \subseteq L
       /\ d.code = "none" => d.nonce = 1
       /\ d.code = "deployed" => d.nonce = 1
       /\ d.code = "delegation" => d.nonce = 1
       /\ d.nonce >= get_account(r).nonce
       /\ d.nonce # 0 \/ d.balance # 0 \/ code_after(get_account(r), d) # "none"
       /\ DOMAIN d.writes # {} => d.nonce # 0 \/ code_after(get_account(r), d) # "none"
  BY Zenon, <1>1 DEF evm_allows
<1>11. m.code = code_after(get_account(r), d)
  <2>1. r.code \in Code /\ NoAccount.code \notin Code
    BY Zenon, <1>2, AccountFacts DEF NoAccount, Code
  <2>2. CASE r.deleted
    <3>1. get_account(r) = NoAccount
      BY Zenon, <2>2 DEF get_account
    <3> QED
      BY Zenon, <1>6, <1>7, <1>8, <1>9, <2>2, <3>1 DEF code_after
  <2>3. CASE ~r.deleted
    <3>1. get_account(r).code = r.code
      BY Zenon, <2>3 DEF get_account
    <3>2. get_account(r) # NoAccount
      BY Zenon, <2>1, <3>1
    <3> QED
      BY Zenon, <1>6, <1>7, <1>8, <1>9, <2>3, <3>1, <3>2 DEF code_after
  <2> QED
    BY Zenon, <2>2, <2>3
<1>12. ~is_empty_account(m)
  BY Zenon, <1>8, <1>9, <1>10, <1>11 DEF is_empty_account, is_empty
<1>13. Marked(m)
  <2> SUFFICES ASSUME ~m.modified \/ (m.nonce = 0 /\ m.code = "none") PROVE Unwritten(m)
      BY Zenon DEF Marked
  <2>1. DOMAIN d.writes = {} /\ d.code = "same"
    BY SMTT(30), <1>3, <1>7, <1>8, <1>9, <1>10, <1>11 DEF Code
  <2>2. m = set /\ coded = live
    BY Zenon, <1>7, <1>9, <2>1
  <2>3. Unwritten(live)
    <3>1. CASE r.deleted
      BY Zenon, <1>6, <3>1
    <3>2. CASE ~r.deleted
      <4>1. CASE ~m.modified
        BY Zenon, <1>6, <1>8, <2>2, <4>1 DEF Live, Marked
      <4>2. CASE m.nonce = 0 /\ m.code = "none"
        <5>1. get_account(r).nonce = r.nonce /\ r.nonce \in {0, 1}
          BY Zenon, <1>2, <3>2, AccountFacts DEF get_account
        <5>2. r.nonce = 0
          BY <1>8, <1>9, <1>10, <4>2, <5>1
        <5>3. r.code = "none"
          BY Zenon, <1>6, <1>8, <2>2, <3>2, <4>2
        <5> QED
          BY Zenon, <1>6, <3>2, <5>2, <5>3 DEF Marked
      <4> QED
        BY Zenon, <4>1, <4>2
    <3> QED
      BY Zenon, <3>1, <3>2
  <2> QED
    BY Zenon, <1>8, <2>2, <2>3 DEF Unwritten
<1>14. m \in Account /\ Shape(m) /\ NonEmpty(m) /\ Placed(a, m) /\ m.place = r.place
  BY Zenon, <1>2, <1>6, <1>7, <1>8, <1>9, <1>12, <1>13 DEF Live, Body, Shape, NonEmpty
<1>15. /\ Claims(a, m) <=> Claims(a, r)
       /\ Fits(a, r, ref[a], L) => Fits(a, m, l, {})
       /\ Covered(r) => Covered(m)
  BY Zenon, <1>6, <1>7, <1>8, <1>9, <1>91, <1>10
<1> QED
  BY Zenon, <1>1, <1>4, <1>12, <1>14, <1>15, TransactionStep DEF r, L

-----------------------------------------------------------------------------
(* The steps around the transactions. *)

\* A touched account that is dead has been deleted already.
LEMMA DeadStay ==
  ASSUME IInv, NEW b \in touched_, is_dead(rec[b])
  PROVE  destruct(rec[b]) = rec[b]
<1>1. b \in Addr
  BY Zenon DEF IInv, TypeOK
<1>2. rec[b] \in Account /\ Shape(rec[b]) /\ rec[b].place # "none" /\ ~is_empty_account(rec[b])
  BY Zenon, <1>1 DEF IInv, TypeOK, RecordsInv
<1>3. rec[b].deleted
  BY Zenon, <1>2 DEF is_dead
<1> QED
  BY Zenon, <1>2, <1>3, Destructed

LEMMA WithdrawnIn ==
  ASSUME NEW l \in Leaf \cup {NoLeaf}, NEW amount \in {0, 1}, l.balance + amount <= MaxBalance
  PROVE  LET paid == paid_to(base(l), base(l).nonce, base(l).balance + amount)
         IN  /\ paid \in Leaf
             /\ withdrawn_in(l, amount) = IF is_empty(paid) THEN NoLeaf ELSE paid
<1> DEFINE b == base(l)
           paid == paid_to(b, b.nonce, b.balance + amount)
<1>1. b \in Leaf /\ (l # NoLeaf => b = l) /\ (l = NoLeaf => b = blank)
  BY Zenon, BaseFacts DEF base
<1>2. b.nonce \in {0, 1} /\ b.balance \in 0..MaxBalance /\ b.code \in Code /\ b.root \in Storage
      /\ b = [nonce |-> b.nonce, balance |-> b.balance, code |-> b.code, root |-> b.root]
  BY Zenon, <1>1 DEF Leaf
<1> HIDE DEF b
<1>3. b.balance = l.balance
  <2>1. blank.balance = 0 /\ NoLeaf.balance = 0
    BY Zenon DEF blank, NoLeaf
  <2> QED
    BY Zenon, <1>1, <2>1
<1>4. b.balance + amount \in 0..MaxBalance
  BY <1>2, <1>3, BoundsAssumption
<1>5. paid \in Leaf
  BY Zenon, <1>2, <1>4 DEF paid_to, Leaf
<1>6. paid = IF l = NoLeaf
               THEN [nonce |-> 0, balance |-> amount, code |-> "none", root |-> EmptyRoot]
               ELSE [l EXCEPT !.balance = @ + amount]
  <2>1. CASE l = NoLeaf
    BY <1>1, <2>1 DEF paid_to, blank
  <2>2. CASE l # NoLeaf
    <3>1. [b EXCEPT !.balance = @ + amount] = [nonce |-> b.nonce, balance |-> b.balance + amount, code |-> b.code, root |-> b.root]
      BY <1>2
    <3> QED
      BY Zenon, <1>1, <2>2, <3>1 DEF paid_to
  <2> QED
    BY Zenon, <2>1, <2>2
<1>7. withdrawn_in(l, amount) = IF is_empty(paid) THEN NoLeaf ELSE paid
  BY Zenon, <1>6 DEF withdrawn_in
<1> QED
  BY Zenon, <1>5, <1>7 DEF b

LEMMA WithdrawalStep ==
  ASSUME IInv, NEW a \in Addr, NEW amount \in {0, 1}, Withdrawal(a, amount)
  PROVE  IInv'
<1> DEFINE r == find_or_create_account(a)
           live == revive_if_deleted(r)
           p == add_to_balance(r, amount)
           paid == [rec EXCEPT ![a] = p]
           m == IF is_dead(p) THEN destruct(p) ELSE p
           L == read_slots(loaded, a)
           b == base(ref[a])
           l == withdrawn_in(ref[a], amount)
<1>1. /\ verdict = "running"
      /\ (IF r.deleted THEN 0 ELSE r.balance) + amount <= MaxBalance
      /\ ref[a].balance + amount <= MaxBalance
      /\ rec' = destruct_dead_among(paid, touched_ \cup {a})
      /\ journaled(dead_among(paid, touched_ \cup {a}) \cup (IF amount = 0 THEN {} ELSE {a}))
      /\ touched_' = touched_ \cup {a} /\ ref' = [ref EXCEPT ![a] = l] /\ end_transaction
  BY Zenon DEF Withdrawal
<1>2. r \in Account /\ Shape(r) /\ Placed(a, r) /\ r.place # "none"
  BY Zenon, <1>1, Load
<1>3. ref[a] \in Leaf \cup {NoLeaf} /\ L \in SUBSET Key /\ rec \in [Addr -> Account]
  BY Zenon DEF IInv, TypeOK, State, read_slots
<1>4. paid \in [Addr -> Account \cup {p}] /\ paid[a] = p /\ \A c \in Addr \ {a} : paid[c] = rec[c]
  BY Zenon, <1>3
<1>5. rec' = [rec EXCEPT ![a] = m]
  <2> HIDE DEF paid, p
  <2>1. rec' = [c \in Addr |-> IF c \in dead_among(paid, touched_ \cup {a}) THEN destruct(paid[c]) ELSE paid[c]]
    BY Zenon, <1>1 DEF destruct_dead_among
  <2>2. ASSUME NEW c \in Addr \ {a} PROVE rec'[c] = rec[c]
    <3>1. paid[c] = rec[c]
      BY Zenon, <1>4
    <3>2. CASE c \in dead_among(paid, touched_ \cup {a})
      BY Zenon, <2>1, <3>1, <3>2, DeadStay DEF dead_among
    <3>3. CASE c \notin dead_among(paid, touched_ \cup {a})
      BY Zenon, <2>1, <3>1, <3>3
    <3> QED
      BY Zenon, <3>2, <3>3
  <2>3. rec'[a] = m
    BY Zenon, <1>4, <2>1 DEF dead_among
  <2> HIDE DEF m
  <2>4. \A c \in Addr : rec'[c] = [rec EXCEPT ![a] = m][c]
    BY Zenon, <1>3, <2>2, <2>3
  <2> QED
    BY Zenon, <1>3, <2>1, <2>4
<1>6. /\ journal \subseteq journal' /\ journal' \subseteq touched_ \cup journal \cup {a}
      /\ multi_block_ => a \in journal' \/ (amount = 0 /\ ~is_dead(p))
  <2> HIDE DEF paid, p
  <2>1. a \in dead_among(paid, touched_ \cup {a}) <=> is_dead(p)
    BY Zenon, <1>4 DEF dead_among
  <2>2. dead_among(paid, touched_ \cup {a}) \subseteq touched_ \cup {a}
    BY Zenon DEF dead_among
  <2> QED
    BY Zenon, <1>1, <2>1, <2>2 DEF journaled
<1> HIDE DEF r, L, b, l, paid
<1>7. /\ Live(a, live) /\ Marked(live) /\ live.place = r.place
      /\ ~r.deleted => live = r
      /\ r.deleted => live.nonce = 0 /\ live.balance = 0 /\ live.code = "none"
      /\ Claims(a, live) <=> Claims(a, r)
      /\ Covered(r) => Covered(live)
      /\ Fits(a, r, ref[a], L) => Fits(a, live, b, L)
  BY SMTT(30), <1>2, <1>3, Revived DEF b
<1>8. live \in Account /\ live.nonce \in {0, 1} /\ live.balance \in 0..MaxBalance
  BY Zenon, <1>7, AccountFacts DEF Live
<1>9. live.balance + amount \in 0..MaxBalance
  BY <1>1, <1>7, <1>8, BoundsAssumption
<1> DEFINE total == live.balance + amount
<1>10. p = set_account_from_diff(live, live.nonce, total) /\ (amount = 0 => p = live)
  <2>1. p = IF amount = 0 THEN live
            ELSE [live EXCEPT !.balance = @ + amount, !.modified = TRUE, !.stamped = FALSE]
    BY Zenon DEF add_to_balance
  <2> HIDE DEF live, p
  <2>2. CASE amount = 0
    BY <1>8, <2>1, <2>2 DEF set_account_from_diff
  <2>3. CASE amount = 1
    <3>1. live.balance # total /\ p = [live EXCEPT !.balance = total, !.modified = TRUE, !.stamped = FALSE]
      BY <1>8, <2>1, <2>3
    <3> HIDE DEF total
    <3>2. [live EXCEPT !.nonce = live.nonce, !.balance = total, !.modified = TRUE, !.stamped = FALSE]
            = [live EXCEPT !.balance = total, !.modified = TRUE, !.stamped = FALSE]
      BY Zenon, <1>8 DEF Account
    <3> QED
      BY <2>3, <3>1, <3>2 DEF set_account_from_diff
  <2> QED
    BY Zenon, <2>2, <2>3
<1>11. b \in Leaf /\ paid_to(b, b.nonce, b.balance + amount) \in Leaf
       /\ l = IF is_empty(paid_to(b, b.nonce, b.balance + amount)) THEN NoLeaf
              ELSE paid_to(b, b.nonce, b.balance + amount)
  BY Zenon, <1>1, <1>3, WithdrawnIn, BaseFacts DEF b, l
<1> DEFINE q == paid_to(b, live.nonce, total)
<1>111. total \in 0..MaxBalance
  BY Zenon, <1>9
<1> HIDE DEF live, p, total
<1>12. /\ Live(a, p) /\ p.place = live.place
       /\ ~p.modified => p = live
       /\ p.nonce = live.nonce /\ p.balance = total /\ p.code = live.code
       /\ p.slots = live.slots /\ p.overflow = live.overflow /\ p.recovered = live.recovered
       /\ Claims(a, p) <=> Claims(a, live)
       /\ Covered(live) => Covered(p)
       /\ Fits(a, live, b, L) => Fits(a, p, q, L)
  <2>1. Live(a, live) /\ live.nonce \in {0, 1} /\ total \in 0..MaxBalance
        /\ p = set_account_from_diff(live, live.nonce, total)
    BY Zenon, <1>7, <1>8, <1>10, <1>111
  <2>2. Live(a, p) /\ p.place = live.place
        /\ p.nonce = live.nonce /\ p.balance = total /\ p.code = live.code
        /\ p.slots = live.slots /\ p.overflow = live.overflow /\ p.recovered = live.recovered
    BY SMTT(30), <2>1, AccountSet
  <2>3. ~p.modified => p = live
    BY SMTT(30), <2>1, AccountSet
  <2>4. (Claims(a, p) <=> Claims(a, live)) /\ (Covered(live) => Covered(p))
    BY SMTT(30), <2>1, AccountSet
  <2>5. Fits(a, live, b, L) => Fits(a, p, q, L)
    BY SMTT(30), <1>3, <1>11, <2>1, AccountSet
  <2> QED
    BY Zenon, <2>2, <2>3, <2>4, <2>5
<1>13. Shape(p)
  <2>1. Marked(p)
    BY Zenon, <1>7, <1>12 DEF Marked, Unwritten, Live
  <2> QED
    BY Zenon, <1>12, <2>1 DEF Live, Body, Shape
<1>14. Fits(a, r, ref[a], L) => /\ l = IF is_empty(p) THEN NoLeaf ELSE q
                                /\ Fits(a, p, q, {})
  <2> SUFFICES ASSUME Fits(a, r, ref[a], L)
               PROVE  l = (IF is_empty(p) THEN NoLeaf ELSE q) /\ Fits(a, p, q, {})
      BY Zenon
  <2>1. Fits(a, live, b, L) /\ Fits(a, p, q, L)
    BY Zenon, <1>7, <1>12
  <2>2. b.nonce = live.nonce /\ b.balance = live.balance
    BY Zenon, <1>7, <2>1 DEF Fits, Live
  <2>21. q.nonce = p.nonce /\ q.balance = p.balance /\ q.code = p.code
    BY Zenon, <1>12, <2>1 DEF Fits, Live
  <2>3. is_empty(q) <=> is_empty(p)
    BY Zenon, <2>21 DEF is_empty
  <2>4. {} \in SUBSET L
    BY Zenon
  <2> QED
    BY Zenon, <1>11, <2>1, <2>2, <2>3, <2>4, FitsFewer DEF total
<1>15. is_dead(p) <=> is_empty(p)
  BY Zenon, <1>12 DEF is_dead, is_empty_account, Live
<1>16. l \in Leaf \cup {NoLeaf}
  BY Zenon, <1>11
<1>17. CASE is_dead(p)
  <2>1. /\ m \in Account /\ Shape(m) /\ NonEmpty(m) /\ m.deleted /\ m.place = p.place
        /\ Claims(a, m) <=> Claims(a, p)
        /\ Placed(a, m)
    BY Zenon, <1>12, <1>13, <1>17, Destructed DEF Live, Body
  <2> HIDE DEF m
  <2>2. ~is_empty_account(m) /\ Covered(m) /\ Fits(a, m, NoLeaf, {})
    BY Zenon, <2>1 DEF is_empty_account, Covered, Fits
  <2>3. Fits(a, r, ref[a], L) => Fits(a, m, l, {})
    BY Zenon, <1>14, <1>15, <1>17, <2>2
  <2> QED
    BY Zenon, <1>1, <1>5, <1>6, <1>7, <1>12, <1>16, <1>17, <2>1, <2>2, <2>3, TransactionStep DEF r, L
<1>18. CASE ~is_dead(p)
  <2>1. m = p
    BY Zenon, <1>18
  <2>2. ~r.deleted \/ amount # 0
    BY Zenon, <1>7, <1>10, <1>15, <1>18 DEF is_empty
  <2>3. amount = 0 => m = r
    BY Zenon, <1>7, <1>10, <2>1, <2>2
  <2> HIDE DEF m
  <2>4. m \in Account /\ Shape(m) /\ Placed(a, m) /\ m.place = r.place
    BY Zenon, <1>7, <1>12, <1>13, <2>1 DEF Live
  <2>5. ~is_empty_account(m) /\ NonEmpty(m)
    BY Zenon, <1>18, <2>1 DEF is_dead, NonEmpty
  <2>6. Fits(a, r, ref[a], L) => Fits(a, m, l, {})
    BY Zenon, <1>14, <1>15, <1>18, <2>1
  <2> QED
    BY Zenon, <1>1, <1>5, <1>6, <1>7, <1>12, <1>16, <1>18, <2>1, <2>3, <2>4, <2>5, <2>6, TransactionStep DEF r, L
<1> QED
  BY Zenon, <1>17, <1>18

\* A step that leaves the records alone.
LEMMA QuietStep ==
  ASSUME IInv, verdict = "running", rec' = rec,
         UNCHANGED <<bundle, block, verdict, recovery_ended_, witness_incomplete_, ref, agreed>>,
         loaded' = {}, journal \subseteq journal', journal' \subseteq touched_ \cup journal, touched_' \subseteq touched_
  PROVE  IInv'
<1>1. /\ UNCHANGED <<scenario, pre, head_root, witness, mapped, nodes, early, settled, recovers, multi_block_, honest>>
      /\ \A b, q : Claims(b, q)' <=> Claims(b, q)
      /\ \A b, q, l, L : Fits(b, q, l, L)' <=> Fits(b, q, l, L)
      /\ \A b, q : Placed(b, q)' <=> Placed(b, q)
      /\ \A b, q, l, j : Settled(b, q, l, j)' <=> Settled(b, q, l, j)
  BY Zenon, Stays
<1>2. touched_' \subseteq Addr /\ journal' \subseteq Addr /\ loaded' \subseteq Addr \X Key
  BY Zenon DEF IInv, TypeOK
<1>3. TypeOK'
  BY Zenon, <1>1, <1>2 DEF IInv, TypeOK
<1>4. \A b \in Addr : /\ read_slots(loaded', b) = {}
                      /\ b \in touched_' \cup journal' => b \in touched_ \cup journal
  BY Zenon DEF read_slots
<1>5. RecordsInv'
  <2> SUFFICES ASSUME NEW b \in Addr
               PROVE  /\ Shape(rec[b]) /\ NonEmpty(rec[b]) /\ Placed(b, rec[b])
                      /\ b \in touched_' \cup journal' => ~is_empty_account(rec[b])
                      /\ rec[b].place = "none" => /\ ref[b] = pre[b] /\ read_slots(loaded', b) = {}
                                                  /\ b \notin touched_' \cup journal'
      BY Zenon, <1>1 DEF RecordsInv
  <2>1. /\ Shape(rec[b]) /\ NonEmpty(rec[b]) /\ Placed(b, rec[b])
        /\ b \in touched_ \cup journal => ~is_empty_account(rec[b])
        /\ rec[b].place = "none" => ref[b] = pre[b] /\ b \notin touched_ \cup journal
    BY Zenon DEF IInv, RecordsInv
  <2> QED
    BY Zenon, <1>4, <2>1
<1>6. ControlInv'
  BY Zenon, <1>1 DEF IInv, ControlInv
<1>7. SettledInv'
  <2> SUFFICES ASSUME settled, NEW b \in Addr PROVE Settled(b, rec[b], ref[b], b \in journal')
      BY Zenon, <1>1 DEF SettledInv
  <2>1. Settled(b, rec[b], ref[b], b \in journal)
    BY Zenon DEF IInv, SettledInv
  <2> QED
    BY Zenon, <2>1 DEF Settled
<1>8. \A b \in Addr : Fits(b, rec[b], ref[b], read_slots(loaded, b)) => Fits(b, rec[b], ref[b], read_slots(loaded', b))
  BY Zenon, <1>4 DEF Fits
<1>9. SoundInv'
  BY Zenon, <1>1, <1>8 DEF IInv, SoundInv, Right
<1>10. HonestInv'
  <2>1. created_records' = created_records
    BY Zenon DEF created_records
  <2> QED
    BY Zenon, <1>1, <2>1 DEF IInv, HonestInv
<1>11. AcceptedIsRight' /\ HonestAccepted'
  BY Zenon DEF AcceptedIsRight, HonestAccepted
<1> QED
  BY Zenon, <1>3, <1>5, <1>6, <1>7, <1>9, <1>10, <1>11 DEF IInv

\* Destructing the dead among the touched accounts changes nothing.
LEMMA DeadAmongStay ==
  ASSUME IInv
  PROVE  destruct_dead_among(rec, touched_) = rec /\ dead_among(rec, touched_) \subseteq touched_
<1>1. rec = [b \in Addr |-> rec[b]]
  BY Zenon DEF IInv, TypeOK
<1>2. \A b \in Addr : (IF b \in dead_among(rec, touched_) THEN destruct(rec[b]) ELSE rec[b]) = rec[b]
  BY Zenon, DeadStay DEF dead_among
<1> QED
  BY Zenon, <1>1, <1>2 DEF destruct_dead_among, dead_among

LEMMA QuietSteps ==
  ASSUME IInv, BeginTransactions \/ EndTransactions \/ EndBlock
  PROVE  IInv'
<1>1. CASE BeginTransactions
  BY Zenon, <1>1, DeadAmongStay, QuietStep DEF BeginTransactions, journaled
<1>2. CASE EndTransactions
  BY Zenon, <1>2, QuietStep DEF EndTransactions
<1>3. CASE EndBlock
  BY Zenon, <1>3, DeadAmongStay, QuietStep DEF EndBlock, journaled
<1> QED
  BY Zenon, <1>1, <1>2, <1>3

LEMMA RecoveryFailsStep ==
  ASSUME IInv, RecoveryFails
  PROVE  IInv'
<1>1. /\ verdict = "running" /\ verdict' = "aborted"
      /\ UNCHANGED <<scenario, pre, head_root, witness, mapped, nodes, rec, witness_incomplete_, touched_,
                     journal, recovery_ended_, block, loaded, ref, agreed, header_root>>
  BY Zenon DEF RecoveryFails, executing, bundle, control
<1>2. TypeOK'
  BY Zenon, <1>1 DEF IInv, TypeOK
<1>3. recovers' = recovers /\ multi_block_' = multi_block_
  BY Zenon, <1>1 DEF recovers, multi_block_
<1>4. RecordsInv'
  <2>1. \A b, q : Placed(b, q)' <=> Placed(b, q)
    BY Zenon, <1>1, <1>3 DEF Placed
  <2> QED
    BY Zenon, <1>1, <2>1 DEF IInv, RecordsInv
<1>5. ControlInv'
  BY Zenon, <1>1, <1>3 DEF IInv, ControlInv, early
<1>6. SettledInv'
  <2>1. \A b, q, l, j : Settled(b, q, l, j)' <=> Settled(b, q, l, j)
    BY Zenon, <1>1 DEF Settled
  <2>2. settled' => settled
    BY Zenon, <1>1 DEF settled
  <2> QED
    BY Zenon, <1>1, <2>1, <2>2 DEF IInv, SettledInv
<1> QED
  BY Zenon, <1>1, <1>2, <1>4, <1>5, <1>6 DEF IInv, SoundInv, HonestInv, AcceptedIsRight, HonestAccepted

LEMMA NextBlockStep ==
  ASSUME IInv, NextBlock
  PROVE  IInv'
<1>1. /\ verdict = "accepted" /\ block < scenario.blocks /\ block' = block + 1 /\ verdict' = "running"
      /\ witness_incomplete_' = FALSE
      /\ UNCHANGED <<scenario, pre, head_root, witness, mapped, nodes, rec, touched_,
                     journal, recovery_ended_, loaded, ref, agreed, header_root>>
  BY Zenon DEF NextBlock, bundle
<1>2. block \in Nat \ {0} /\ scenario.blocks \in Nat
  BY Zenon DEF IInv, TypeOK, Scenario
<1>3. block' \in Nat \ {0} /\ block' > 1 /\ TypeOK'
  <2>1. block' \in Nat \ {0} /\ block' > 1
    BY <1>1, <1>2
  <2> QED
    BY Zenon, <1>1, <2>1 DEF IInv, TypeOK
<1>4. /\ recovers' = recovers /\ multi_block_' = multi_block_ /\ honest' = honest
      /\ multi_block_ /\ settled /\ ~early /\ ~early'
  BY <1>1, <1>2, <1>3 DEF recovers, multi_block_, honest, settled, early
<1>5. RecordsInv'
  <2>1. \A b, q : Placed(b, q)' <=> Placed(b, q)
    BY Zenon, <1>1, <1>4 DEF Placed
  <2> QED
    BY Zenon, <1>1, <2>1 DEF IInv, RecordsInv
<1>6. ControlInv'
  BY Zenon, <1>1, <1>4 DEF IInv, ControlInv
<1>7. SettledInv'
  <2>1. \A b, q, l, j : Settled(b, q, l, j)' <=> Settled(b, q, l, j)
    BY Zenon, <1>1 DEF Settled
  <2> QED
    BY Zenon, <1>1, <1>4, <2>1 DEF IInv, SettledInv
<1>8. SoundInv'
  <2>1. \A b, q, l, L : Fits(b, q, l, L)' <=> Fits(b, q, l, L)
    BY SMTT(30), <1>1, <1>4 DEF Fits
  <2> QED
    BY Zenon, <1>1, <2>1 DEF IInv, SoundInv, Right
<1>9. HonestInv'
  <2> SUFFICES ASSUME honest, NEW b \in Addr PROVE Claims(b, rec[b])'
      BY Zenon, <1>1, <1>4 DEF HonestInv
  <2>1. rec[b].place = "created" => b \notin DOMAIN witness
    BY Zenon DEF IInv, RecordsInv, Placed, honest
  <2> QED
    BY Zenon, <1>1, <1>4, <2>1 DEF Claims
<1> QED
  BY Zenon, <1>1, <1>3, <1>5, <1>6, <1>7, <1>8, <1>9 DEF IInv, AcceptedIsRight, HonestAccepted

-----------------------------------------------------------------------------
(* The roots. *)

\* An encoding through the stamp is an encoding from scratch.
LEMMA RlpInto ==
  ASSUME NEW r \in Account, StampRight(r), NEW root
  PROVE  rlp_into(r, root) = leaf_of(r, root)
<1>1. CASE ~r.stamped
  BY Zenon, <1>1 DEF rlp_into
<1>2. CASE r.stamped
  <2>1. r.acc_rlp.nonce = r.nonce /\ r.acc_rlp.balance = r.balance /\ r.acc_rlp.code = r.code
    BY Zenon, <1>2 DEF StampRight
  <2>2. r.acc_rlp \in Leaf
    BY Zenon, <2>1, AccountFacts, LeafFacts
  <2>3. [r.acc_rlp EXCEPT !.root = root] =
          [nonce |-> r.acc_rlp.nonce, balance |-> r.acc_rlp.balance, code |-> r.acc_rlp.code, root |-> root]
    BY <2>2 DEF Leaf
  <2> QED
    BY Zenon, <1>2, <2>1, <2>3 DEF rlp_into, leaf_of
<1> QED
  BY Zenon, <1>1, <1>2

\* The storage a record stands for.
record_root(r) == [k \in Key |-> slot_value(r, k)]

\* A record that fits a leaf encodes to it.
LEMMA FittingLeaf ==
  ASSUME NEW a, NEW r \in Account, NEW l \in Leaf \cup {NoLeaf}, NEW L, Fits(a, r, l, L), ~r.deleted, StampRight(r)
  PROVE  /\ l = leaf_of(r, record_root(r)) /\ l \in Leaf /\ l.root = record_root(r)
         /\ l = rlp_into(r, record_root(r))
<1>1. /\ l.nonce = r.nonce /\ l.balance = r.balance /\ l.code = r.code
      /\ \A k \in Key : l.root[k] = slot_value(r, k)
  BY Zenon DEF Fits
<1>2. l \in Leaf
  BY Zenon, <1>1, AccountFacts, LeafFacts
<1>3. l.root = record_root(r)
  <2>1. l.root \in Storage
    BY Zenon, <1>2 DEF Leaf
  <2>2. l.root = [k \in Key |-> l.root[k]]
    BY Zenon, <2>1 DEF Storage
  <2> QED
    BY Zenon, <1>1, <2>2 DEF record_root
<1>4. l = [nonce |-> l.nonce, balance |-> l.balance, code |-> l.code, root |-> l.root]
  BY Zenon, <1>2 DEF Leaf
<1>5. l = leaf_of(r, record_root(r))
  BY Zenon, <1>1, <1>3, <1>4 DEF leaf_of
<1> QED
  BY Zenon, <1>2, <1>3, <1>5, RlpInto

\* A walk that holds ends in the storage the record stands for, and in the root
\* it began from if nothing was written.
LEMMA WalkedStorage ==
  ASSUME NEW r \in Account, Shape(r), ~r.deleted,
         \A k \in r.absent_reads : r.root[k] = 0 \/ k \in DOMAIN r.overflow
  PROVE  /\ storage_root_after(r) = record_root(r)
         /\ r.place # "pre" => walked(r.root, [k \in rec_storage_keys(r) |->
                     IF k \in DOMAIN r.overflow THEN r.overflow[k] ELSE r.recovered[k].current]) = record_root(r)
<1>1. DOMAIN r.root = Key
  BY Zenon, AccountFacts DEF Storage
<1>2. ~r.modified => Unwritten(r)
  BY Zenon DEF Shape, Marked
<1>3. SlotsApart(r)
  BY Zenon DEF Shape
<1>4. \A k \in Key : storage_root_after(r)[k] = slot_value(r, k)
  <2> SUFFICES ASSUME NEW k \in Key PROVE storage_root_after(r)[k] = slot_value(r, k)
      BY Zenon
  <2>1. storage_root_after(r)[k] = IF k \in storage_keys(r) THEN storage_currents(r)[k] ELSE r.root[k]
    BY Zenon, <1>1 DEF storage_root_after, walked, storage_currents
  <2>2. CASE k \notin storage_keys(r)
    BY Zenon, <2>1, <2>2 DEF storage_keys, slot_value
  <2>3. CASE k \in storage_keys(r)
    <3>1. storage_currents(r)[k] =
            IF k \in DOMAIN r.slots THEN (IF r.modified THEN r.slots[k].current ELSE r.slots[k].initial)
            ELSE IF k \in DOMAIN r.overflow THEN r.overflow[k]
            ELSE IF k \in found_slots(r)
              THEN (IF r.modified THEN r.recovered[k].current ELSE r.recovered[k].initial) ELSE 0
      BY Zenon, <2>3 DEF storage_currents
    <3>2. ~r.modified => /\ k \in DOMAIN r.slots => r.slots[k].current = r.slots[k].initial
                         /\ k \in found_slots(r) => r.recovered[k].current = r.recovered[k].initial
      BY Zenon, <1>2 DEF Unwritten, found_slots
    <3>3. k \in DOMAIN r.slots \cup DOMAIN r.overflow \cup found_slots(r) \/ r.root[k] = 0
      BY Zenon, <2>3 DEF storage_keys
    <3> QED
      BY Zenon, <2>1, <2>3, <3>1, <3>2, <3>3 DEF slot_value
  <2> QED
    BY Zenon, <2>2, <2>3
<1>5. storage_root_after(r) = record_root(r)
  BY Zenon, <1>1, <1>4 DEF storage_root_after, walked, record_root
<1> DEFINE W == [k \in rec_storage_keys(r) |->
                   IF k \in DOMAIN r.overflow THEN r.overflow[k] ELSE r.recovered[k].current]
<1>6. ASSUME r.place # "pre" PROVE walked(r.root, W) = record_root(r)
  <2>1. DOMAIN r.slots = {}
    BY Zenon, <1>3, <1>6 DEF SlotsApart
  <2>2. \A k \in Key : (IF k \in DOMAIN W THEN W[k] ELSE r.root[k]) = slot_value(r, k)
    BY Zenon, <1>3, <2>1 DEF slot_value, rec_storage_keys, SlotsApart
  <2> HIDE DEF W
  <2> QED
    BY Zenon, <1>1, <2>2 DEF walked, record_root
<1> QED
  BY Zenon, <1>5, <1>6

\* What the records hold is all of an account that is covered.
LEMMA StorageWhole ==
  ASSUME NEW r \in Account, Shape(r), ~r.deleted, Covered(r)
  PROVE  account_storage_root(r) = record_root(r)
<1> SUFFICES ASSUME NEW k \in Key PROVE account_storage_root(r)[k] = slot_value(r, k)
    BY Zenon DEF account_storage_root, record_root
<1>1. SlotsApart(r)
  BY Zenon DEF Shape
<1>2. account_storage_root(r)[k] =
        IF k \in found_slots(r) /\ r.recovered[k].current # 0 THEN r.recovered[k].current
        ELSE IF k \in DOMAIN r.overflow THEN r.overflow[k]
        ELSE IF r.place = "pre" /\ ~r.deleted /\ k \in DOMAIN r.slots THEN r.slots[k].current
        ELSE 0
  BY Zenon DEF account_storage_root
<1>3. k \in DOMAIN r.slots \cup found_slots(r) \/ r.root[k] = 0
  BY Zenon DEF Covered
<1> QED
  BY Zenon, <1>1, <1>2, <1>3 DEF slot_value, SlotsApart

\* A walk whose claims are right does not fail.
LEMMA WalkHolds ==
  ASSUME NEW a, NEW r \in Account, Shape(r), ~r.deleted, NEW l, NEW L, Fits(a, r, l, L),
         \A k \in r.absent_reads : r.root[k] = 0
  PROVE  storage_bound(r) /\ recovered_bound(r)
<1>1. /\ \A k \in DOMAIN r.slots : r.slots[k].initial = r.root[k]
      /\ \A k \in DOMAIN r.overflow : r.root[k] = 0
      /\ \A k \in found_slots(r) : r.recovered[k].initial = r.root[k]
  BY Zenon DEF Fits, Shape, WalkedRight, found_slots
<1>2. walk_holds(r.root, storage_claims(r))
  <2> SUFFICES ASSUME NEW k \in storage_keys(r) PROVE r.root[k] = storage_claims(r)[k]
      BY Zenon DEF walk_holds, storage_claims
  <2>1. storage_claims(r)[k] = IF k \in DOMAIN r.slots THEN r.slots[k].initial
                               ELSE IF k \in found_slots(r) THEN r.recovered[k].initial ELSE 0
    BY Zenon DEF storage_claims
  <2> QED
    BY Zenon, <1>1, <2>1 DEF storage_keys
<1>3. recovered_bound(r)
  <2> DEFINE W == [k \in rec_storage_keys(r) |-> IF k \in found_slots(r) THEN r.recovered[k].initial ELSE 0]
  <2>1. \A k \in DOMAIN W : r.root[k] = W[k]
    BY Zenon, <1>1 DEF rec_storage_keys
  <2> HIDE DEF W
  <2>2. walk_holds(r.root, W)
    BY Zenon, <2>1 DEF walk_holds
  <2> QED
    BY Zenon, <2>2 DEF recovered_bound, W
<1>4. ASSUME ~r.modified PROVE storage_root_after(r) = r.root
  <2>1. Unwritten(r) /\ DOMAIN r.overflow = {}
    BY Zenon, <1>4, PartialFacts DEF Shape, Marked, Unwritten
  <2>2. \A k \in Key : slot_value(r, k) = r.root[k]
    BY Zenon, <1>1, <2>1 DEF slot_value, Unwritten, found_slots
  <2>3. r.root = [k \in Key |-> r.root[k]]
    BY Zenon, AccountFacts DEF Storage
  <2>4. record_root(r) = r.root
    BY Zenon, <2>2, <2>3 DEF record_root
  <2> QED
    BY Zenon, <2>4, WalkedStorage
<1> QED
  BY Zenon, <1>2, <1>3, <1>4 DEF storage_bound, storage_root_after

\* A walk that holds has right claims.
LEMMA WalkBinds ==
  ASSUME NEW r \in Account, Shape(r), walk_holds(r.root, storage_claims(r))
  PROVE  /\ \A k \in DOMAIN r.slots : r.slots[k].initial = r.root[k]
         /\ \A k \in r.absent_reads : r.root[k] = 0
<1>1. \A k \in storage_keys(r) : r.root[k] = storage_claims(r)[k]
  BY Zenon DEF walk_holds, storage_claims
<1>2. \A k \in storage_keys(r) :
        storage_claims(r)[k] = IF k \in DOMAIN r.slots THEN r.slots[k].initial
                               ELSE IF k \in found_slots(r) THEN r.recovered[k].initial ELSE 0
  BY Zenon DEF storage_claims
<1>3. SlotsApart(r)
  BY Zenon DEF Shape
<1> QED
  BY Zenon, <1>1, <1>2, <1>3 DEF storage_keys, SlotsApart

-----------------------------------------------------------------------------
(* The root checks. *)

\* What a root check does to a record: its leaf is encoded anew, its absent
\* reads are dropped.
Recached(r, m) ==
  /\ m.place = r.place /\ m.nonce = r.nonce /\ m.balance = r.balance /\ m.code = r.code
  /\ m.root = r.root /\ m.slots = r.slots /\ m.deleted = r.deleted /\ m.modified = r.modified
  /\ m.overflow = r.overflow /\ m.recovered = r.recovered /\ m.wiped = r.wiped
  /\ m.absent_reads = r.absent_reads \/ m.absent_reads = {}
  /\ \/ m.acc_rlp = r.acc_rlp /\ m.stamped = r.stamped
     \/ ~r.deleted /\ m.stamped /\ m.acc_rlp = leaf_of(r, account_storage_root(r))

LEMMA RecachedFacts ==
  ASSUME NEW r \in Account, NEW m \in Account, Recached(r, m), Shape(r), NonEmpty(r), r.place = "none" => m = r
  PROVE  /\ Shape(m) /\ NonEmpty(m)
         /\ found_slots(m) = found_slots(r) /\ (is_empty_account(m) <=> is_empty_account(r))
         /\ record_root(m) = record_root(r) /\ account_storage_root(m) = account_storage_root(r)
         /\ \A root : leaf_of(m, root) = leaf_of(r, root)
         /\ \A a, l, L : Fits(a, r, l, L) => Fits(a, m, l, L)
<1>1. /\ m.place = r.place /\ m.nonce = r.nonce /\ m.balance = r.balance /\ m.code = r.code
      /\ m.root = r.root /\ m.slots = r.slots /\ m.deleted = r.deleted /\ m.modified = r.modified
      /\ m.overflow = r.overflow /\ m.recovered = r.recovered
      /\ m.absent_reads = r.absent_reads \/ m.absent_reads = {}
  BY Zenon DEF Recached
<1>2. found_slots(m) = found_slots(r) /\ (is_empty_account(m) <=> is_empty_account(r))
  BY Zenon, <1>1 DEF found_slots, is_empty_account, is_empty
<1>3. \A k : slot_value(m, k) = slot_value(r, k)
  BY Zenon, <1>1, <1>2 DEF slot_value
<1>4. record_root(m) = record_root(r)
  BY Zenon, <1>3 DEF record_root
<1>5. account_storage_root(m) = account_storage_root(r)
  BY Zenon, <1>1, <1>2 DEF account_storage_root
<1>6. \A root : leaf_of(m, root) = leaf_of(r, root)
  BY Zenon, <1>1 DEF leaf_of
<1>7. \A a, l, L : Fits(a, r, l, L) => Fits(a, m, l, L)
  BY ZenonT(40), <1>1, <1>2, <1>3 DEF Fits
<1>8. StampRight(m)
  <2>1. CASE m.acc_rlp = r.acc_rlp /\ m.stamped = r.stamped
    BY Zenon, <1>1, <2>1 DEF Shape, StampRight
  <2>2. CASE m.acc_rlp = leaf_of(r, account_storage_root(r))
    <3>1. m.acc_rlp.nonce = r.nonce /\ m.acc_rlp.balance = r.balance /\ m.acc_rlp.code = r.code
      BY <2>2 DEF leaf_of
    <3> QED
      BY Zenon, <1>1, <3>1, AccountFacts, LeafFacts DEF StampRight
  <2> QED
    BY Zenon, <2>1, <2>2 DEF Recached
<1>9. SlotsApart(m) /\ WalkedRight(m) /\ Emptied(m) /\ Marked(m)
  <2>1. SlotsApart(m)
    BY Zenon, <1>1, <1>2 DEF Shape, SlotsApart
  <2>2. WalkedRight(m)
    BY ZenonT(40), <1>1 DEF Shape, WalkedRight
  <2>3. Emptied(m)
    BY Zenon, <1>1 DEF Shape, Emptied
  <2>4. Marked(m)
    BY Zenon, <1>1 DEF Shape, Marked, Unwritten
  <2> QED
    BY Zenon, <2>1, <2>2, <2>3, <2>4
<1>10. Shape(m) /\ NonEmpty(m)
  BY Zenon, <1>1, <1>2, <1>8, <1>9 DEF Shape, NonEmpty
<1> QED
  BY Zenon, <1>2, <1>4, <1>5, <1>6, <1>7, <1>10

LEMMA CheckStep ==
  ASSUME IInv, verdict = "running", rec' \in [Addr -> Account],
         \A b \in Addr : Recached(rec[b], rec'[b]) /\ (rec[b].place = "none" => rec'[b] = rec[b]),
         journal' \subseteq journal,
         UNCHANGED <<bundle, touched_, block, loaded, ref, agreed, witness_incomplete_>>,
         verdict' \in {"accepted", "rejected"},
         recovery_ended_' \in BOOLEAN, recovery_ended_ => recovery_ended_',
         verdict' = "accepted" => (recovers => recovery_ended_') /\ Right /\ header_root' = ref,
         settled' => \A b \in Addr : Settled(b, rec'[b], ref[b], b \in journal'),
         HonestAccepted'
  PROVE  IInv'
<1>1. /\ UNCHANGED <<scenario, pre, head_root, witness, mapped, nodes, recovers, multi_block_>>
      /\ ~early' /\ verdict' # "running" /\ verdict' # "aborted"
  BY Zenon DEF bundle, recovers, multi_block_, early
<1>2. journal' \subseteq Addr
  BY Zenon DEF IInv, TypeOK
<1>3. TypeOK'
  BY Zenon, <1>1, <1>2 DEF IInv, TypeOK
<1>4. ASSUME NEW b \in Addr
      PROVE  /\ Shape(rec'[b]) /\ NonEmpty(rec'[b]) /\ Placed(b, rec[b])'
             /\ b \in touched_ \cup journal' => ~is_empty_account(rec'[b])
             /\ rec'[b].place = "none" => /\ ref[b] = pre[b] /\ read_slots(loaded, b) = {}
                                          /\ b \notin touched_ \cup journal'
             /\ \A l, L : Fits(b, rec[b], l, L) => Fits(b, rec'[b], l, L)
  <2>1. /\ rec[b] \in Account /\ rec'[b] \in Account /\ Shape(rec[b]) /\ NonEmpty(rec[b]) /\ Placed(b, rec[b])
        /\ b \in touched_ \cup journal => ~is_empty_account(rec[b])
        /\ rec[b].place = "none" => ref[b] = pre[b] /\ read_slots(loaded, b) = {} /\ b \notin touched_ \cup journal
    BY Zenon DEF IInv, TypeOK, RecordsInv
  <2>2. /\ Shape(rec'[b]) /\ NonEmpty(rec'[b])
        /\ is_empty_account(rec'[b]) <=> is_empty_account(rec[b])
        /\ \A l, L : Fits(b, rec[b], l, L) => Fits(b, rec'[b], l, L)
    BY Zenon, <2>1, RecachedFacts
  <2>3. /\ rec'[b].place = rec[b].place /\ rec'[b].recovered = rec[b].recovered
        /\ rec'[b].absent_reads = rec[b].absent_reads \/ rec'[b].absent_reads = {}
    BY Zenon DEF Recached
  <2>4. Placed(b, rec[b])'
    BY Zenon, <1>1, <2>1, <2>3 DEF Placed
  <2> QED
    BY Zenon, <2>1, <2>2, <2>3, <2>4
<1>5. RecordsInv'
  BY Zenon, <1>1, <1>4 DEF RecordsInv
<1>6. ControlInv'
  BY Zenon, <1>1 DEF IInv, ControlInv
<1>7. SettledInv'
  <2>1. \A b, q, l, j : Settled(b, q, l, j)' <=> Settled(b, q, l, j)
    BY Zenon, <1>1 DEF Settled
  <2> QED
    BY Zenon, <2>1 DEF SettledInv
<1>8. SoundInv'
  <2> SUFFICES ASSUME verdict' = "accepted" PROVE Right'
      BY Zenon, <1>1 DEF SoundInv
  <2>1. \A b, q, l, L : Fits(b, q, l, L) => Fits(b, q, l, L)'
    <3> SUFFICES ASSUME NEW b, NEW q, NEW l, NEW L, Fits(b, q, l, L) PROVE Fits(b, q, l, L)'
        BY Zenon
    <3>1. ~early'
      BY Zenon, <1>1
    <3> QED
      BY SMTT(30), <3>1 DEF Fits
  <2>2. agreed /\ \A b \in Addr : Fits(b, rec[b], ref[b], read_slots(loaded, b))
    BY Zenon DEF Right
  <2>3. \A b \in Addr : Fits(b, rec'[b], ref[b], read_slots(loaded, b))
    BY Zenon, <1>4, <2>2
  <2> QED
    BY Zenon, <2>1, <2>2, <2>3 DEF Right
<1>9. HonestInv' /\ AcceptedIsRight'
  BY Zenon, <1>1 DEF HonestInv, AcceptedIsRight, Right
<1> QED
  BY Zenon, <1>3, <1>5, <1>6, <1>7, <1>8, <1>9 DEF IInv

\* The records that check_root and check_root_new_block leave.
LEMMA Refreshed ==
  ASSUME NEW r \in Account
  PROVE  LET m == rlp_into_cache(r, account_storage_root(r))
         IN  m \in Account /\ (~r.deleted => Recached(r, m)) /\ m.stamped /\ m.place = r.place
             /\ m.acc_rlp = leaf_of(r, account_storage_root(r))
<1> DEFINE root == account_storage_root(r)
<1>1. root \in Storage
  <2> SUFFICES ASSUME NEW k \in Key PROVE root[k] \in Value
      BY Zenon DEF account_storage_root, Storage
  <2>1. /\ k \in DOMAIN r.overflow => r.overflow[k] \in Value
        /\ k \in DOMAIN r.slots => r.slots[k] \in Slot
        /\ k \in found_slots(r) => r.recovered[k] \in RecoveredSlot
    BY Zenon, AccountFacts, PartialFacts
  <2>2. /\ k \in DOMAIN r.slots => r.slots[k].current \in Value
        /\ k \in found_slots(r) => r.recovered[k].current \in Value
    BY Zenon, <2>1 DEF Slot, RecoveredSlot
  <2>3. root[k] = IF k \in found_slots(r) /\ r.recovered[k].current # 0 THEN r.recovered[k].current
                  ELSE IF k \in DOMAIN r.overflow THEN r.overflow[k]
                  ELSE IF r.place = "pre" /\ ~r.deleted /\ k \in DOMAIN r.slots THEN r.slots[k].current
                  ELSE 0
    BY Zenon DEF account_storage_root
  <2> QED
    BY Zenon, <2>1, <2>2, <2>3, LeafFacts
<1> HIDE DEF root
<1>2. leaf_of(r, root) \in Leaf
  BY Zenon, <1>1, AccountFacts DEF leaf_of, Leaf
<1> DEFINE l == leaf_of(r, root)
           m == rlp_into_cache(r, root)
<1>3. m = [r EXCEPT !.acc_rlp = l, !.stamped = TRUE] /\ l \in Leaf
  BY Zenon, <1>2 DEF rlp_into_cache
<1> HIDE DEF l
<1>4. m \in Account /\ m.stamped /\ m.acc_rlp = l /\ m.place = r.place
  <2>1. l \in Leaf \cup {NoLeaf}
    BY Zenon, <1>3
  <2>2. m \in Account
    BY Zenon, <1>3, <2>1 DEF Account
  <2>3. m.stamped = TRUE /\ m.acc_rlp = l /\ m.place = r.place
    BY Zenon, <1>3 DEF Account
  <2> QED
    BY Zenon, <2>2, <2>3
<1>5. /\ m.nonce = r.nonce /\ m.balance = r.balance /\ m.code = r.code
      /\ m.root = r.root /\ m.slots = r.slots /\ m.deleted = r.deleted /\ m.modified = r.modified
      /\ m.overflow = r.overflow /\ m.recovered = r.recovered /\ m.wiped = r.wiped
      /\ m.absent_reads = r.absent_reads
  BY Zenon, <1>3 DEF Account
<1> HIDE DEF m
<1>6. ~r.deleted => Recached(r, m)
  BY Zenon, <1>4, <1>5 DEF Recached, l, root
<1> QED
  BY Zenon, <1>4, <1>6 DEF l, m, root

\* What check_root's walks bind is what the block's reads went by.
LEMMA BoundClaims ==
  ASSUME IInv, check_root_bound, NEW a \in Addr
  PROVE  Claims(a, rec[a])
<1> DEFINE r == rec[a]
<1>1. r \in Account /\ Shape(r) /\ Placed(a, r)
  BY Zenon DEF IInv, TypeOK, RecordsInv
<1>2. /\ \A w \in r.wiped : wiped_storage_bound(w)
      /\ created_records \cap DOMAIN witness = {}
      /\ \A b \in DOMAIN witness : witness_record(b).deleted \/ storage_bound(witness_record(b))
      /\ \A b \in DOMAIN witness : witness_record(b).acc_rlp = pre[b]
      /\ \A b \in created_records : pre[b] = NoLeaf
      /\ \A b \in recovered_records : rec[b].acc_rlp = pre[b]
  BY Zenon DEF check_root_bound, existing_initial
<1>3. r.place = "created" => a \notin DOMAIN witness /\ pre[a] = NoLeaf
  BY Zenon, <1>2 DEF created_records
<1>4. r.place = "recovered" => r.acc_rlp = pre[a]
  BY Zenon, <1>2 DEF recovered_records
<1>5. a \in mapped <=> r.place = "pre"
  BY Zenon, <1>1 DEF Placed
<1>6. ASSUME r.place = "pre"
      PROVE  /\ r.acc_rlp = pre[a]
             /\ ~r.deleted => /\ \A k \in DOMAIN r.slots : r.slots[k].initial = r.root[k]
                              /\ \A k \in r.absent_reads : r.root[k] = 0
  <2>1. a \in DOMAIN witness /\ witness_record(a) = r
    BY Zenon, <1>5, <1>6 DEF IInv, TypeOK, witness_record
  <2>2. r.acc_rlp = pre[a] /\ (r.deleted \/ storage_bound(r))
    BY Zenon, <1>2, <2>1
  <2> QED
    BY Zenon, <1>1, <2>2, WalkBinds DEF storage_bound
<1>7. ASSUME a \in DOMAIN witness \ mapped PROVE witness[a].leaf = pre[a]
  <2>1. witness_record(a) = sanitize(witness[a])
    BY Zenon, <1>7 DEF witness_record
  <2>2. sanitize(witness[a]).acc_rlp = witness[a].leaf
    BY Zenon, <1>7, Sanitized DEF IInv, TypeOK
  <2> QED
    BY Zenon, <1>2, <1>7, <2>1, <2>2
<1> QED
  BY Zenon, <1>2, <1>3, <1>4, <1>6, <1>7 DEF Claims

\* No walk of a witness whose claims hold fails.
LEMMA ClaimsBound ==
  ASSUME IInv, early, mapped = DOMAIN witness, Right, \A a \in Addr : Claims(a, rec[a])
  PROVE  check_root_bound
<1>1. ASSUME NEW a \in Addr
      PROVE  /\ rec[a] \in Account /\ Shape(rec[a]) /\ Placed(a, rec[a])
             /\ Fits(a, rec[a], ref[a], read_slots(loaded, a))
  BY Zenon DEF IInv, TypeOK, RecordsInv, Right
<1>2. ASSUME NEW a \in Addr
      PROVE  /\ \A w \in rec[a].wiped : wiped_storage_bound(w)
             /\ rec[a].place = "created" => pre[a] = NoLeaf /\ a \notin DOMAIN witness
             /\ rec[a].place \in {"pre", "recovered"} => rec[a].acc_rlp = pre[a]
             /\ rec[a].place = "pre" /\ ~rec[a].deleted => \A k \in rec[a].absent_reads : rec[a].root[k] = 0
  BY Zenon DEF Claims
<1>3. ASSUME NEW a \in Addr, rec[a].place \in {"pre", "created"} PROVE rec[a].deleted \/ storage_bound(rec[a])
  <2> SUFFICES ASSUME ~rec[a].deleted PROVE storage_bound(rec[a])
      BY Zenon
  <2>1. \A k \in rec[a].absent_reads : rec[a].root[k] = 0
    BY Zenon, <1>1, <1>2, <1>3 DEF Shape, Emptied
  <2> QED
    BY Zenon, <1>1, <2>1, WalkHolds
<1>4. ASSUME NEW a \in Addr, rec[a].place = "recovered" PROVE recovered_bound(rec[a])
  <2>1. CASE rec[a].deleted
    BY Zenon, <2>1 DEF recovered_bound
  <2>2. CASE ~rec[a].deleted
    <3>1. rec[a].absent_reads = {}
      BY Zenon, <1>1, <1>4 DEF Placed, IInv, ControlInv
    <3> QED
      BY Zenon, <1>1, <2>2, <3>1, WalkHolds
  <2> QED
    BY Zenon, <2>1, <2>2
<1>5. ASSUME NEW a \in DOMAIN witness
      PROVE  /\ witness_record(a).deleted \/ storage_bound(witness_record(a))
             /\ existing_initial(witness_record(a)) = pre[a]
  <2>1. a \in Addr /\ witness_record(a) = rec[a] /\ rec[a].place = "pre"
    BY Zenon, <1>1 DEF witness_record, IInv, TypeOK, Placed
  <2> QED
    BY Zenon, <1>2, <1>3, <2>1 DEF existing_initial
<1>6. created_records \cap DOMAIN witness = {}
  BY Zenon, <1>2 DEF created_records
<1>7. \A a \in created_records : (rec[a].deleted \/ storage_bound(rec[a])) /\ pre[a] = NoLeaf
  BY Zenon, <1>2, <1>3 DEF created_records
<1>8. \A a \in recovered_records : recovered_bound(rec[a]) /\ rec[a].acc_rlp = pre[a]
  BY Zenon, <1>2, <1>4 DEF recovered_records
<1> QED
  BY Zenon, <1>2, <1>5, <1>6, <1>7, <1>8 DEF check_root_bound

\* The root check_root computes is the block's.
LEMMA NewRoot ==
  ASSUME IInv, early, Right, \A a \in Addr : Claims(a, rec[a])
  PROVE  new_root = ref
<1> SUFFICES ASSUME NEW a \in Addr PROVE new_root[a] = ref[a]
    BY Zenon DEF new_root, IInv, TypeOK, State
<1> DEFINE r == rec[a]
<1>1. /\ r \in Account /\ Shape(r) /\ NonEmpty(r) /\ Placed(a, r) /\ StampRight(r)
      /\ Fits(a, r, ref[a], read_slots(loaded, a)) /\ ref[a] \in Leaf \cup {NoLeaf}
      /\ r.place = "none" => ref[a] = pre[a]
  BY Zenon DEF IInv, TypeOK, RecordsInv, Right, State, Shape
<1>2. /\ r.place = "created" => pre[a] = NoLeaf /\ a \notin DOMAIN witness
      /\ r.place \in {"pre", "recovered"} => r.acc_rlp = pre[a]
      /\ a \in DOMAIN witness \ mapped => witness[a].leaf = pre[a]
      /\ r.place = "pre" /\ ~r.deleted => \A k \in r.absent_reads : r.root[k] = 0
  BY Zenon DEF Claims
<1>3. r.place # "none" /\ r.deleted => ref[a] = NoLeaf
  BY Zenon, <1>1 DEF Fits
<1>4. ~r.deleted /\ ~r.modified => ref[a] = pre[a]
  BY Zenon, <1>1 DEF Fits
<1>5. ~r.deleted => \A k \in r.absent_reads : r.root[k] = 0
  BY Zenon, <1>1, <1>2, AccountFacts, NoneDeleted DEF Shape, Emptied, Placed, IInv, ControlInv
<1>6. ASSUME ~r.deleted
      PROVE  /\ rlp_into(r, storage_root_after(r)) = ref[a]
             /\ r.place # "pre" =>
                  rlp_into(r, walked(r.root, [k \in rec_storage_keys(r) |->
                     IF k \in DOMAIN r.overflow THEN r.overflow[k] ELSE r.recovered[k].current])) = ref[a]
  <2>1. rlp_into(r, record_root(r)) = ref[a]
    BY Zenon, <1>1, <1>6, FittingLeaf
  <2> QED
    BY Zenon, <1>1, <1>5, <1>6, <2>1, WalkedStorage
<1>7. new_root[a] = IF a \in DOMAIN witness THEN existing_current(witness_record(a))
                    ELSE IF r.place = "created" THEN created_current(r)
                    ELSE IF r.place = "recovered" THEN recovered_current(r) ELSE pre[a]
  BY Zenon DEF new_root, created_records, recovered_records
<1>8. CASE a \in mapped
  <2>1. r.place = "pre" /\ a \in DOMAIN witness /\ witness_record(a) = r
    BY Zenon, <1>1, <1>8 DEF Placed, IInv, TypeOK, witness_record
  <2> QED
    BY Zenon, <1>2, <1>3, <1>4, <1>6, <1>7, <2>1 DEF existing_current
<1>9. CASE a \in DOMAIN witness \ mapped
  <2>1. r.place = "none"
    BY Zenon, <1>1, <1>2, <1>9, AccountFacts DEF Placed
  <2>2. witness_record(a) = sanitize(witness[a])
    BY Zenon, <1>9 DEF witness_record
  <2>3. LET q == sanitize(witness[a]) IN ~q.deleted /\ ~q.modified /\ q.acc_rlp = witness[a].leaf
    BY Zenon, <1>9, Sanitized DEF IInv, TypeOK
  <2> QED
    BY Zenon, <1>1, <1>2, <1>7, <1>9, <2>1, <2>2, <2>3 DEF existing_current
<1>10. CASE a \notin DOMAIN witness
  <2>1. r.place # "pre"
    BY Zenon, <1>1, <1>10 DEF Placed, IInv, TypeOK
  <2>2. CASE r.place = "created"
    BY Zenon, <1>3, <1>6, <1>7, <1>10, <2>2 DEF created_current
  <2>3. CASE r.place = "recovered"
    <3>1. ~(~r.deleted /\ r.modified /\ is_empty(r))
      BY Zenon, <1>1 DEF NonEmpty, is_empty_account
    <3> QED
      BY Zenon, <1>2, <1>3, <1>4, <1>6, <1>7, <1>10, <2>3, <3>1 DEF recovered_current
  <2>4. CASE r.place = "none"
    BY Zenon, <1>1, <1>7, <1>10, <2>4
  <2> QED
    BY Zenon, <1>1, <2>1, <2>2, <2>3, <2>4, AccountFacts
<1> QED
  BY Zenon, <1>8, <1>9, <1>10

\* The records with every cached leaf of the journal encoded anew.
LEMMA FreshRecords ==
  ASSUME IInv
  PROVE  /\ fresh_records \in [Addr -> Account]
         /\ \A b \in Addr :
              /\ Recached(rec[b], fresh_records[b])
              /\ rec[b].place = "none" => fresh_records[b] = rec[b]
              /\ b \in journal /\ ~rec[b].deleted =>
                   fresh_records[b].acc_rlp = leaf_of(rec[b], account_storage_root(rec[b]))
              /\ b \notin journal => fresh_records[b] = rec[b]
<1> SUFFICES ASSUME NEW b \in Addr
             PROVE  /\ fresh_records[b] \in Account /\ Recached(rec[b], fresh_records[b])
                    /\ rec[b].place = "none" => fresh_records[b] = rec[b]
                    /\ b \in journal /\ ~rec[b].deleted =>
                         fresh_records[b].acc_rlp = leaf_of(rec[b], account_storage_root(rec[b]))
                    /\ b \notin journal => fresh_records[b] = rec[b]
    BY Zenon DEF fresh_records, refresh_caches
<1>1. rec[b] \in Account /\ (rec[b].place = "none" => b \notin journal)
  BY Zenon DEF IInv, TypeOK, RecordsInv
<1>2. fresh_records[b] = IF b \in journal /\ ~rec[b].deleted
                           THEN rlp_into_cache(rec[b], account_storage_root(rec[b])) ELSE rec[b]
  BY Zenon DEF fresh_records, refresh_caches
<1>3. CASE b \in journal /\ ~rec[b].deleted
  BY Zenon, <1>1, <1>2, <1>3, Refreshed
<1>4. CASE ~(b \in journal /\ ~rec[b].deleted)
  BY Zenon, <1>1, <1>2, <1>4 DEF Recached
<1> QED
  BY Zenon, <1>3, <1>4

LEMMA AfterCheckRoot ==
  ASSUME IInv
  PROVE  /\ after_check_root \in [Addr -> Account]
         /\ \A b \in Addr :
              /\ Recached(rec[b], after_check_root[b])
              /\ rec[b].place = "none" => after_check_root[b] = rec[b]
              /\ b \in journal /\ ~rec[b].deleted =>
                   after_check_root[b].acc_rlp = leaf_of(rec[b], account_storage_root(rec[b]))
              /\ b \notin journal => after_check_root[b].acc_rlp = rec[b].acc_rlp
<1>1. {a \in journal : ~is_dead(rec[a])} = {a \in journal : ~rec[a].deleted}
  BY Zenon DEF is_dead, IInv, TypeOK, RecordsInv
<1>2. after_check_root =
        [a \in Addr |-> IF fresh_records[a].deleted \/ fresh_records[a].place = "recovered" THEN fresh_records[a]
                        ELSE [fresh_records[a] EXCEPT !.absent_reads = {}]]
  BY Zenon, <1>1 DEF after_check_root, fresh_records
<1> SUFFICES ASSUME NEW b \in Addr
             PROVE  /\ after_check_root[b] \in Account /\ Recached(rec[b], after_check_root[b])
                    /\ rec[b].place = "none" => after_check_root[b] = rec[b]
                    /\ b \in journal /\ ~rec[b].deleted =>
                         after_check_root[b].acc_rlp = leaf_of(rec[b], account_storage_root(rec[b]))
                    /\ b \notin journal => after_check_root[b].acc_rlp = rec[b].acc_rlp
    BY Zenon, <1>2
<1>3. /\ fresh_records[b] \in Account /\ Recached(rec[b], fresh_records[b])
      /\ rec[b].place = "none" => fresh_records[b] = rec[b]
      /\ b \in journal /\ ~rec[b].deleted =>
           fresh_records[b].acc_rlp = leaf_of(rec[b], account_storage_root(rec[b]))
      /\ b \notin journal => fresh_records[b] = rec[b]
  BY Zenon, FreshRecords
<1>4. rec[b].place = "none" => rec[b].deleted
  BY Zenon, NoneDeleted DEF IInv, RecordsInv
<1>5. CASE fresh_records[b].deleted \/ fresh_records[b].place = "recovered"
  BY Zenon, <1>2, <1>3, <1>5
<1>6. CASE ~(fresh_records[b].deleted \/ fresh_records[b].place = "recovered")
  <2> DEFINE f == fresh_records[b]
             m == [f EXCEPT !.absent_reads = {}]
  <2>1. after_check_root[b] = m /\ f \in Account
    BY Zenon, <1>2, <1>3, <1>6
  <2> HIDE DEF f
  <2>2. /\ m \in Account /\ m.absent_reads = {}
        /\ m.place = f.place /\ m.nonce = f.nonce /\ m.balance = f.balance /\ m.code = f.code
        /\ m.root = f.root /\ m.slots = f.slots /\ m.deleted = f.deleted /\ m.modified = f.modified
        /\ m.overflow = f.overflow /\ m.recovered = f.recovered /\ m.wiped = f.wiped
        /\ m.acc_rlp = f.acc_rlp /\ m.stamped = f.stamped
    BY Zenon, <2>1 DEF Account
  <2> HIDE DEF m
  <2>3. Recached(rec[b], f)
    BY Zenon, <1>3 DEF f
  <2>4. Recached(rec[b], m)
    BY Zenon, <2>2, <2>3 DEF Recached
  <2>5. rec[b].place # "none"
    BY Zenon, <1>3, <1>4, <1>6
  <2>6. /\ b \in journal /\ ~rec[b].deleted => f.acc_rlp = leaf_of(rec[b], account_storage_root(rec[b]))
        /\ b \notin journal => f.acc_rlp = rec[b].acc_rlp
    BY Zenon, <1>3 DEF f
  <2> QED
    BY Zenon, <2>1, <2>2, <2>4, <2>5, <2>6
<1> QED
  BY Zenon, <1>5, <1>6

\* The whole-state root of the records, address by address.
LEMMA StateRootAt ==
  ASSUME IInv, NEW R \in [Addr -> Account], NEW a \in Addr,
         Recached(rec[a], R[a]), rec[a].place = "none" => R[a] = rec[a]
  PROVE  /\ R[a].deleted /\ (rec[a].place # "none" \/ a \notin DOMAIN witness) => state_root_hash(R)[a] = NoLeaf
         /\ ~R[a].deleted => state_root_hash(R)[a] = leaf_of(R[a], account_storage_root(R[a]))
<1>1. Shape(rec[a]) /\ NonEmpty(rec[a]) /\ rec[a] \in Account
  BY Zenon DEF IInv, RecordsInv, TypeOK
<1>2. Shape(R[a]) /\ R[a].place = rec[a].place
  BY Zenon, <1>1, RecachedFacts DEF Recached
<1>3. StampRight(R[a]) /\ (~R[a].deleted => R[a].place # "none")
  BY Zenon, <1>2, NoneDeleted DEF Shape
<1>4. rlp_into(R[a], account_storage_root(R[a])) = leaf_of(R[a], account_storage_root(R[a]))
  BY Zenon, <1>3, RlpInto
<1>5. R[a].place # "none" \/ a \notin DOMAIN witness =>
        state_root_hash(R)[a] = IF R[a].deleted THEN NoLeaf ELSE rlp_into(R[a], account_storage_root(R[a]))
  BY Zenon DEF state_root_hash
<1> QED
  BY Zenon, <1>2, <1>3, <1>4, <1>5

\* The first block of several is accepted only if the records hold the whole
\* state it leads to.
LEMMA WholeStateSettles ==
  ASSUME IInv, early, multi_block_, Right, \A a \in Addr : Claims(a, rec[a]),
         state_root_hash(after_check_root) = ref, NEW a \in Addr
  PROVE  Settled(a, after_check_root[a], ref[a], FALSE)
<1> DEFINE r == rec[a]
           m == after_check_root[a]
<1>1. /\ r \in Account /\ Shape(r) /\ NonEmpty(r) /\ Placed(a, r) /\ StampRight(r)
      /\ Fits(a, r, ref[a], read_slots(loaded, a)) /\ ref[a] \in Leaf \cup {NoLeaf}
      /\ r.place = "none" => ref[a] = pre[a]
      /\ r.modified => a \in journal
  BY Zenon DEF IInv, TypeOK, RecordsInv, ControlInv, Right, State, Shape
<1>2. /\ m \in Account /\ Recached(r, m) /\ (r.place = "none" => m = r)
      /\ a \in journal /\ ~r.deleted => m.acc_rlp = leaf_of(r, account_storage_root(r))
      /\ a \notin journal => m.acc_rlp = r.acc_rlp
      /\ after_check_root \in [Addr -> Account]
  BY Zenon, AfterCheckRoot
<1>3. /\ Shape(m) /\ found_slots(m) = found_slots(r) /\ record_root(m) = record_root(r)
      /\ account_storage_root(m) = account_storage_root(r)
      /\ \A root : leaf_of(m, root) = leaf_of(r, root)
  BY Zenon, <1>1, <1>2, RecachedFacts
<1>4. /\ m.deleted = r.deleted /\ m.place = r.place /\ m.root = r.root /\ m.slots = r.slots
      /\ m.overflow = r.overflow
  BY Zenon, <1>2 DEF Recached
<1>5. ASSUME ~r.deleted
      PROVE  /\ ref[a] = leaf_of(r, account_storage_root(r)) /\ ref[a].root = account_storage_root(r)
             /\ ref[a].root = record_root(r) /\ ref[a] \in Leaf
  <2>1. ref[a] = leaf_of(r, account_storage_root(r))
    BY Zenon, <1>2, <1>3, <1>4, <1>5, StateRootAt
  <2>2. ref[a].root = account_storage_root(r)
    BY SMTT(30), <2>1 DEF leaf_of
  <2>3. ref[a].root = record_root(r) /\ ref[a] \in Leaf
    BY Zenon, <1>1, <1>5, FittingLeaf
  <2> QED
    BY Zenon, <2>1, <2>2, <2>3
<1>6. Covered(m)
  <2> SUFFICES ASSUME ~r.deleted, NEW k \in Key, r.root[k] # 0, k \notin DOMAIN r.slots \cup found_slots(r) PROVE FALSE
      BY Zenon, <1>3, <1>4 DEF Covered
  <2>1. k \notin DOMAIN r.overflow
    BY Zenon, <1>1 DEF Fits
  <2>2. account_storage_root(r)[k] = 0
    BY Zenon, <2>1 DEF account_storage_root
  <2>3. record_root(r)[k] = r.root[k]
    BY Zenon, <2>1 DEF record_root, slot_value
  <2> QED
    BY Zenon, <1>5, <2>2, <2>3
<1>7. ASSUME r.place = "none" PROVE ref[a] = IF a \in DOMAIN witness THEN witness[a].leaf ELSE NoLeaf
  <2>1. CASE a \in DOMAIN witness
    <3>1. a \notin mapped
      BY Zenon, <1>1, <1>7 DEF Placed
    <3> QED
      BY Zenon, <1>1, <1>7, <2>1, <3>1 DEF Claims
  <2>2. CASE a \notin DOMAIN witness
    <3>1. r.deleted
      BY Zenon, <1>1, <1>7, NoneDeleted
    <3> QED
      BY Zenon, <1>2, <1>4, <2>2, <3>1, StateRootAt
  <2> QED
    BY Zenon, <2>1, <2>2
<1>8. ASSUME ~r.deleted PROVE m.acc_rlp = leaf_of(m, account_storage_root(m))
  <2>1. CASE a \in journal
    BY Zenon, <1>2, <1>3, <1>8, <2>1
  <2>2. CASE a \notin journal
    <3>1. ref[a] = pre[a]
      BY Zenon, <1>1, <1>8, <2>2 DEF Fits
    <3>2. r.place # "created" /\ r.place # "none"
      <4>1. r.place # "none"
        BY Zenon, <1>1, <1>8, NoneDeleted
      <4>2. ASSUME r.place = "created" PROVE FALSE
        <5>1. ref[a] = NoLeaf
          BY Zenon, <1>1, <3>1, <4>2 DEF Claims
        <5> QED
          BY Zenon, <1>5, <1>8, <5>1, LeafFacts
      <4> QED
        BY Zenon, <4>1, <4>2
    <3>3. r.acc_rlp = pre[a]
      BY Zenon, <1>1, <3>2, AccountFacts DEF Claims
    <3> QED
      BY Zenon, <1>2, <1>3, <1>5, <1>8, <2>2, <3>1, <3>3
  <2> QED
    BY Zenon, <2>1, <2>2
<1> QED
  BY Zenon, <1>4, <1>6, <1>7, <1>8 DEF Settled

\* The whole-state root of an honest witness that leaves out nothing.
LEMMA WholeStateRoot ==
  ASSUME IInv, early, Right, \A a \in Addr : Claims(a, rec[a]), honest,
         \A a \in Addr : pre[a] # NoLeaf => rec[a].place # "none" /\ Covered(rec[a])
  PROVE  state_root_hash(after_check_root) = ref
<1> SUFFICES ASSUME NEW a \in Addr PROVE state_root_hash(after_check_root)[a] = ref[a]
    BY Zenon DEF state_root_hash, IInv, TypeOK, State
<1> DEFINE r == rec[a]
           m == after_check_root[a]
<1>1. /\ r \in Account /\ Shape(r) /\ NonEmpty(r) /\ Placed(a, r) /\ StampRight(r)
      /\ Fits(a, r, ref[a], read_slots(loaded, a)) /\ ref[a] \in Leaf \cup {NoLeaf}
      /\ r.place = "none" => ref[a] = pre[a]
      /\ a \in DOMAIN witness <=> r.place = "pre"
  BY Zenon DEF IInv, TypeOK, RecordsInv, Right, State, Shape, Placed, honest
<1>2. m \in Account /\ Recached(r, m) /\ (r.place = "none" => m = r) /\ after_check_root \in [Addr -> Account]
  BY Zenon, AfterCheckRoot
<1>3. /\ account_storage_root(m) = account_storage_root(r) /\ m.deleted = r.deleted
      /\ \A root : leaf_of(m, root) = leaf_of(r, root)
  BY Zenon, <1>1, <1>2, RecachedFacts DEF Recached
<1>4. CASE r.deleted
  <2>1. ref[a] = NoLeaf
    BY Zenon, <1>1, <1>4 DEF Fits
  <2> QED
    BY Zenon, <1>1, <1>2, <1>3, <1>4, <2>1, StateRootAt
<1>5. CASE ~r.deleted
  <2>1. r.place # "none"
    BY Zenon, <1>1, <1>5, NoneDeleted
  <2>2. Covered(r)
    <3>1. CASE pre[a] # NoLeaf
      BY Zenon, <3>1
    <3>2. CASE r.place = "created"
      BY Zenon, <1>1, <3>2, LeafFacts DEF Shape, Emptied, Covered
    <3>3. CASE r.place = "pre"
      <4>1. pre[a] \in Leaf
        BY Zenon, <1>1, <3>3 DEF honest, IInv, TypeOK, WitnessRecord
      <4> QED
        BY Zenon, <3>1, <4>1, LeafFacts
    <3>4. CASE r.place = "recovered"
      <4>1. pre[a] # NoLeaf
        BY Zenon, <1>1, <3>4 DEF Claims, StampRight
      <4> QED
        BY Zenon, <3>1, <4>1
    <3> QED
      BY Zenon, <1>1, <2>1, <3>2, <3>3, <3>4, AccountFacts
  <2>3. account_storage_root(r) = record_root(r)
    BY Zenon, <1>1, <1>5, <2>2, StorageWhole
  <2>4. ref[a] = leaf_of(r, record_root(r))
    BY Zenon, <1>1, <1>5, FittingLeaf
  <2> QED
    BY Zenon, <1>2, <1>3, <1>5, <2>3, <2>4, StateRootAt
<1> QED
  BY Zenon, <1>4, <1>5

LEMMA CheckRootStep ==
  ASSUME IInv, NEW h, CheckRoot(h)
  PROVE  IInv'
<1>1. /\ verdict = "running" /\ block = 1 /\ early /\ header_root' = h
      /\ UNCHANGED <<bundle, witness_incomplete_, touched_, block, loaded, ref, agreed>>
      /\ UNCHANGED <<scenario, pre, head_root, witness, mapped, nodes, multi_block_, honest, recovers>>
  <2>1. /\ verdict = "running" /\ block = 1 /\ header_root' = h
        /\ UNCHANGED <<bundle, witness_incomplete_, touched_, control, loaded, ref, agreed>>
    BY Zenon DEF CheckRoot, decide
  <2>2. UNCHANGED <<scenario, pre, head_root, witness, mapped, nodes, block>>
    BY Zenon, <2>1 DEF bundle, control
  <2>3. UNCHANGED <<multi_block_, honest, recovers>>
    BY Zenon, <2>2 DEF multi_block_, honest, recovers
  <2> QED
    BY Zenon, <2>1, <2>2, <2>3 DEF early
<1>2. CASE /\ ~witness_incomplete_ /\ check_root_bound
           /\ rec' = after_check_root
           /\ journal' = {}
           /\ recovery_ended_' = scenario.USE_HASH_KEY
           /\ decide(new_root = h /\ (multi_block_ => state_root_hash(after_check_root) = h), h)
  <2>1. verdict' = IF new_root = h /\ (multi_block_ => state_root_hash(after_check_root) = h)
                     THEN "accepted" ELSE "rejected"
    BY Zenon, <1>2 DEF decide
  <2>2. \A a \in Addr : Claims(a, rec[a])
    BY Zenon, <1>2, BoundClaims
  <2>3. Right
    BY Zenon, <1>1, <1>2, <2>2 DEF IInv, SoundInv
  <2>4. new_root = ref
    BY Zenon, <1>1, <2>2, <2>3, NewRoot
  <2>5. rec' \in [Addr -> Account]
        /\ \A b \in Addr : Recached(rec[b], rec'[b]) /\ (rec[b].place = "none" => rec'[b] = rec[b])
    BY Zenon, <1>2, AfterCheckRoot
  <2>6. /\ recovery_ended_' \in BOOLEAN /\ (recovers => recovery_ended_') /\ ~recovery_ended_
        /\ verdict' \in {"accepted", "rejected"} /\ journal' \subseteq journal
    BY Zenon, <1>1, <1>2, <2>1 DEF IInv, TypeOK, Scenario, recovers, ControlInv
  <2>7. verdict' = "accepted" => Right /\ header_root' = ref
    BY Zenon, <1>1, <2>1, <2>3, <2>4
  <2>8. ASSUME settled' PROVE \A b \in Addr : Settled(b, rec'[b], ref[b], b \in journal')
    <3>1. verdict' = "accepted" /\ multi_block_
      BY <1>1, <2>8 DEF settled
    <3>2. state_root_hash(after_check_root) = ref
      BY Zenon, <2>1, <2>4, <3>1
    <3>3. \A b \in Addr : Settled(b, after_check_root[b], ref[b], FALSE)
      BY Zenon, <1>1, <2>2, <2>3, <3>1, <3>2, WholeStateSettles
    <3>4. \A b \in Addr : (b \in journal') = FALSE
      BY <1>2
    <3> QED
      BY Zenon, <1>2, <3>3, <3>4
  <2>9. HonestAccepted'
    <3> SUFFICES ASSUME verdict' = "rejected", header_root' = ref, honest, multi_block_ => whole' PROVE FALSE
        BY Zenon, <1>1 DEF HonestAccepted
    <3>1. multi_block_ /\ whole' /\ state_root_hash(after_check_root) # ref
      BY Zenon, <1>1, <2>1, <2>4
    <3>2. ASSUME NEW a \in Addr, pre[a] # NoLeaf PROVE rec[a].place # "none" /\ Covered(rec[a])
      <4>1. /\ rec'[a].place # "none"
            /\ rec'[a].deleted \/ \A k \in Key : rec'[a].root[k] # 0 => k \in DOMAIN rec'[a].slots \cup found_slots(rec'[a])
        BY Zenon, <1>1, <3>1, <3>2 DEF whole
      <4>2. /\ rec'[a].place = rec[a].place /\ rec'[a].deleted = rec[a].deleted /\ rec'[a].root = rec[a].root
            /\ rec'[a].slots = rec[a].slots /\ rec'[a].recovered = rec[a].recovered
        BY Zenon, <2>5 DEF Recached
      <4>3. found_slots(rec'[a]) = found_slots(rec[a])
        BY Zenon, <4>2 DEF found_slots
      <4> QED
        BY Zenon, <4>1, <4>2, <4>3 DEF Covered
    <3> QED
      BY Zenon, <1>1, <2>2, <2>3, <3>1, <3>2, WholeStateRoot
  <2> QED
    BY Zenon, <1>1, <2>5, <2>6, <2>7, <2>8, <2>9, CheckStep
<1>3. CASE /\ witness_incomplete_ \/ ~check_root_bound \/ nodes # "all"
           /\ decide(FALSE, h)
           /\ UNCHANGED <<rec, journal, recovery_ended_>>
  <2>1. verdict' = "rejected" /\ ~settled'
    BY <1>1, <1>3 DEF decide, settled
  <2>2. rec' \in [Addr -> Account]
        /\ \A b \in Addr : Recached(rec[b], rec'[b]) /\ (rec[b].place = "none" => rec'[b] = rec[b])
    BY Zenon, <1>3 DEF Recached, IInv, TypeOK
  <2>3. HonestAccepted'
    <3> SUFFICES ASSUME honest, agreed, ~witness_incomplete_, \A a \in created_records : pre[a] = NoLeaf PROVE FALSE
        BY Zenon, <1>1, <1>3 DEF HonestAccepted, created_records
    <3>1. \A a \in Addr : Claims(a, rec[a])
      BY Zenon, <1>1 DEF IInv, HonestInv
    <3>2. Right
      BY Zenon, <1>1, <3>1 DEF IInv, SoundInv
    <3>3. check_root_bound
      BY Zenon, <1>1, <3>1, <3>2, ClaimsBound DEF honest
    <3> QED
      BY Zenon, <1>3, <3>3 DEF honest
  <2> QED
    BY Zenon, <1>1, <1>3, <2>1, <2>2, <2>3, CheckStep DEF IInv, TypeOK
<1> QED
  BY Zenon, <1>2, <1>3 DEF CheckRoot

\* In a later block every cached leaf is right once the journal's are encoded anew.
LEMMA FreshSettled ==
  ASSUME IInv, block > 1, NEW a \in Addr
  PROVE  Settled(a, fresh_records[a], ref[a], FALSE)
<1> DEFINE r == rec[a]
           m == fresh_records[a]
<1>1. /\ r \in Account /\ Shape(r) /\ NonEmpty(r) /\ Settled(a, r, ref[a], a \in journal)
  BY Zenon DEF IInv, TypeOK, RecordsInv, SettledInv, settled
<1>2. /\ m \in Account /\ Recached(r, m) /\ (r.place = "none" => m = r)
      /\ a \in journal /\ ~r.deleted => m.acc_rlp = leaf_of(r, account_storage_root(r))
      /\ a \notin journal => m = r
  BY Zenon, FreshRecords
<1>3. /\ found_slots(m) = found_slots(r) /\ account_storage_root(m) = account_storage_root(r)
      /\ \A root : leaf_of(m, root) = leaf_of(r, root)
  BY Zenon, <1>1, <1>2, RecachedFacts
<1>4. m.deleted = r.deleted /\ m.place = r.place /\ m.root = r.root /\ m.slots = r.slots
  BY Zenon, <1>2 DEF Recached
<1>5. Covered(m)
  BY Zenon, <1>1, <1>3, <1>4 DEF Settled, Covered
<1>6. ~m.deleted => m.acc_rlp = leaf_of(m, account_storage_root(m))
  <2>1. CASE a \in journal
    BY Zenon, <1>2, <1>3, <1>4, <2>1
  <2>2. CASE a \notin journal
    BY Zenon, <1>1, <1>2, <2>2 DEF Settled
  <2> QED
    BY Zenon, <2>1, <2>2
<1> QED
  BY Zenon, <1>1, <1>4, <1>5, <1>6 DEF Settled

LEMMA LeavesRoot ==
  ASSUME IInv, block > 1, Right, created_records \cap DOMAIN witness = {}
  PROVE  leaves_root = ref
<1> SUFFICES ASSUME NEW a \in Addr PROVE leaves_root[a] = ref[a]
    BY Zenon DEF leaves_root, IInv, TypeOK, State
<1> DEFINE r == rec[a]
           m == fresh_records[a]
<1>1. /\ r \in Account /\ Shape(r) /\ NonEmpty(r) /\ Placed(a, r) /\ StampRight(r)
      /\ Fits(a, r, ref[a], read_slots(loaded, a)) /\ ref[a] \in Leaf \cup {NoLeaf}
      /\ r.place = "created" => a \notin DOMAIN witness
  BY Zenon DEF IInv, TypeOK, RecordsInv, Right, State, Shape, created_records
<1>2. m \in Account /\ Recached(r, m) /\ (r.place = "none" => m = r)
  BY Zenon, FreshRecords
<1>3. /\ account_storage_root(m) = account_storage_root(r) /\ Shape(m)
      /\ record_root(m) = record_root(r)
      /\ \A root : leaf_of(m, root) = leaf_of(r, root)
      /\ m.deleted = r.deleted /\ m.place = r.place
  BY Zenon, <1>1, <1>2, RecachedFacts DEF Recached
<1>4. Settled(a, m, ref[a], FALSE)
  BY Zenon, FreshSettled
<1>5. leaves_root[a] = IF a \in DOMAIN witness /\ a \notin mapped THEN witness[a].leaf
                       ELSE IF m.deleted THEN NoLeaf ELSE m.acc_rlp
  BY Zenon DEF leaves_root
<1>6. CASE a \in DOMAIN witness /\ a \notin mapped
  <2>1. r.place = "none"
    BY Zenon, <1>1, <1>6, AccountFacts DEF Placed
  <2> QED
    BY Zenon, <1>3, <1>4, <1>5, <1>6, <2>1 DEF Settled
<1>7. CASE ~(a \in DOMAIN witness /\ a \notin mapped) /\ r.deleted
  <2>1. CASE r.place = "none"
    <3>1. a \notin DOMAIN witness
      BY Zenon, <1>1, <1>7, <2>1 DEF Placed
    <3> QED
      BY Zenon, <1>3, <1>4, <1>5, <1>7, <2>1, <3>1 DEF Settled
  <2>2. CASE r.place # "none"
    BY Zenon, <1>1, <1>3, <1>5, <1>7, <2>2 DEF Fits
  <2> QED
    BY Zenon, <2>1, <2>2
<1>8. CASE ~(a \in DOMAIN witness /\ a \notin mapped) /\ ~r.deleted
  <2>1. m.acc_rlp = leaf_of(m, account_storage_root(m)) /\ Covered(m)
    BY Zenon, <1>3, <1>4, <1>8 DEF Settled
  <2>2. account_storage_root(m) = record_root(m)
    BY Zenon, <1>2, <1>3, <1>8, <2>1, StorageWhole
  <2>3. ref[a] = leaf_of(r, record_root(r))
    BY Zenon, <1>1, <1>8, FittingLeaf
  <2> QED
    BY Zenon, <1>3, <1>5, <1>8, <2>1, <2>2, <2>3
<1> QED
  BY Zenon, <1>6, <1>7, <1>8

LEMMA CheckRootNewBlockStep ==
  ASSUME IInv, NEW h, CheckRootNewBlock(h)
  PROVE  IInv'
<1>1. /\ verdict = "running" /\ block > 1 /\ ~early /\ header_root' = h
      /\ UNCHANGED <<bundle, witness_incomplete_, touched_, block, loaded, ref, agreed, recovery_ended_>>
      /\ UNCHANGED <<scenario, pre, head_root, witness, mapped, nodes, multi_block_, honest, recovers>>
  BY SMTT(30) DEF CheckRootNewBlock, decide, early, control, bundle, multi_block_, honest, recovers
<1>2. recovery_ended_' \in BOOLEAN /\ (recovers => recovery_ended_') /\ (recovery_ended_ => recovery_ended_')
  BY Zenon, <1>1 DEF IInv, TypeOK, ControlInv
<1>3. CASE /\ ~witness_incomplete_
           /\ rec' = fresh_records
           /\ journal' = {}
           /\ decide(created_records \cap DOMAIN witness = {} /\ leaves_root = h, h)
  <2>1. verdict' = IF created_records \cap DOMAIN witness = {} /\ leaves_root = h THEN "accepted" ELSE "rejected"
    BY Zenon, <1>3 DEF decide
  <2>2. rec' \in [Addr -> Account]
        /\ \A b \in Addr : Recached(rec[b], rec'[b]) /\ (rec[b].place = "none" => rec'[b] = rec[b])
    BY Zenon, <1>3, FreshRecords
  <2>3. ASSUME created_records \cap DOMAIN witness = {} PROVE Right /\ leaves_root = ref
    <3>1. \A a \in Addr : Claims(a, rec[a])
      BY Zenon, <1>1, <2>3 DEF Claims, created_records
    <3>2. Right
      BY Zenon, <1>1, <1>3, <3>1 DEF IInv, SoundInv
    <3> QED
      BY Zenon, <1>1, <2>3, <3>2, LeavesRoot
  <2>4. verdict' = "accepted" => Right /\ header_root' = ref
    BY Zenon, <1>1, <2>1, <2>3
  <2>5. \A b \in Addr : Settled(b, rec'[b], ref[b], b \in journal')
    <3>1. \A b \in Addr : (b \in journal') = FALSE
      BY <1>3
    <3> QED
      BY Zenon, <1>1, <1>3, <3>1, FreshSettled
  <2>6. HonestAccepted'
    <3> SUFFICES ASSUME verdict' = "rejected", header_root' = ref, honest PROVE FALSE
        BY Zenon, <1>1 DEF HonestAccepted
    <3>1. created_records \cap DOMAIN witness = {}
      BY Zenon DEF created_records, IInv, RecordsInv, Placed, honest
    <3> QED
      BY Zenon, <1>1, <2>1, <2>3, <3>1
  <2>7. verdict' \in {"accepted", "rejected"} /\ journal' \subseteq journal
    BY Zenon, <1>3, <2>1
  <2> QED
    BY Zenon, <1>1, <1>2, <2>2, <2>4, <2>5, <2>6, <2>7, CheckStep
<1>4. CASE /\ witness_incomplete_
           /\ decide(FALSE, h)
           /\ UNCHANGED <<rec, journal>>
  <2>1. verdict' = "rejected"
    BY Zenon, <1>4 DEF decide
  <2>2. rec' \in [Addr -> Account]
        /\ \A b \in Addr : Recached(rec[b], rec'[b]) /\ (rec[b].place = "none" => rec'[b] = rec[b])
    BY Zenon, <1>4 DEF Recached, IInv, TypeOK
  <2>3. \A b \in Addr : Settled(b, rec'[b], ref[b], b \in journal')
    BY Zenon, <1>1, <1>4 DEF IInv, SettledInv, settled
  <2>4. HonestAccepted'
    BY Zenon, <1>1, <1>4 DEF HonestAccepted
  <2> QED
    BY Zenon, <1>1, <1>2, <1>4, <2>1, <2>2, <2>3, <2>4, CheckStep
<1> QED
  BY Zenon, <1>3, <1>4 DEF CheckRootNewBlock

-----------------------------------------------------------------------------
(* The theorems. *)

LEMMA InitHolds == Init => IInv
<1> SUFFICES ASSUME Init PROVE IInv
    BY Zenon
<1>1. /\ scenario \in Scenario /\ pre \in State /\ head_root \in State
      /\ ref = pre /\ agreed = TRUE /\ verdict = "running" /\ block = 1 /\ early /\ ~settled
      /\ witness_incomplete_ = FALSE /\ recovery_ended_ = FALSE /\ journal = {} /\ touched_ = {} /\ loaded = {}
      /\ rec = [a \in Addr |-> IF a \in mapped THEN sanitize(witness[a]) ELSE EmptyRecord]
  <2>1. /\ scenario \in Scenario /\ pre \in State /\ head_root \in State
        /\ ref = pre /\ agreed = TRUE /\ verdict = "running" /\ block = 1
        /\ witness_incomplete_ = FALSE /\ recovery_ended_ = FALSE /\ journal = {} /\ touched_ = {} /\ loaded = {}
        /\ rec = [a \in Addr |-> IF a \in mapped THEN sanitize(witness[a]) ELSE EmptyRecord]
    <3>1. scenario \in Scenario
      BY Zenon, ConstantsAssumption DEF Init
    <3>2. scenario.pre \subseteq State /\ scenario.others \subseteq State
      BY Zenon, <3>1 DEF Scenario
    <3>3. pre \in scenario.pre /\ head_root \in {pre} \cup scenario.others
      BY Zenon DEF Init
    <3>4. pre \in State /\ head_root \in State
      BY Zenon, <3>2, <3>3
    <3> QED
      BY Zenon, <3>1, <3>4 DEF Init
  <2>2. ~(block > 1)
    <3>1. block = 1
      BY Zenon, <2>1
    <3> QED
      BY <3>1
  <2> QED
    BY Zenon, <2>1, <2>2 DEF early, settled
<1>2. DOMAIN witness \subseteq Addr /\ mapped \subseteq DOMAIN witness /\ \A a \in DOMAIN witness : witness[a] \in WitnessRecord
  <2>1. PICK W \in SUBSET Addr :
          /\ witness \in [W -> [leaf : scenario.leaves, slots : UNION {[D -> Value] : D \in SUBSET scenario.keys}]]
          /\ mapped \in SUBSET W
    BY Zenon DEF Init
  <2>2. scenario.leaves \subseteq Leaf /\ scenario.keys \subseteq Key
    BY Zenon, <1>1 DEF Scenario
  <2>3. UNION {[D -> Value] : D \in SUBSET scenario.keys} \subseteq Partial(Value)
    BY Zenon, <2>2 DEF Partial
  <2>4. [leaf : scenario.leaves, slots : UNION {[D -> Value] : D \in SUBSET scenario.keys}] \subseteq WitnessRecord
    BY Zenon, <2>2, <2>3 DEF WitnessRecord
  <2> QED
    BY Zenon, <2>1, <2>4
<1>3. ASSUME NEW a \in Addr, a \in mapped
      PROVE  /\ rec[a] \in Account /\ Shape(rec[a]) /\ NonEmpty(rec[a]) /\ rec[a].place = "pre"
             /\ ~rec[a].deleted /\ ~rec[a].modified /\ rec[a].absent_reads = {} /\ rec[a].wiped = {}
             /\ DOMAIN rec[a].recovered = {} /\ DOMAIN rec[a].overflow = {} /\ found_slots(rec[a]) = {}
             /\ rec[a].acc_rlp = witness[a].leaf /\ rec[a].root = witness[a].leaf.root
             /\ rec[a].nonce = witness[a].leaf.nonce /\ rec[a].balance = witness[a].leaf.balance
             /\ rec[a].code = witness[a].leaf.code
             /\ DOMAIN rec[a].slots = DOMAIN witness[a].slots
             /\ \A k \in DOMAIN rec[a].slots :
                  rec[a].slots[k].initial = witness[a].slots[k] /\ rec[a].slots[k].current = witness[a].slots[k]
  <2>1. rec[a] = sanitize(witness[a]) /\ witness[a] \in WitnessRecord
    BY Zenon, <1>1, <1>2, <1>3
  <2> DEFINE r == sanitize(witness[a])
  <2>2. /\ r \in Account /\ Shape(r) /\ NonEmpty(r)
        /\ r.place = "pre" /\ r.nonce = witness[a].leaf.nonce /\ r.balance = witness[a].leaf.balance
        /\ r.code = witness[a].leaf.code /\ r.root = witness[a].leaf.root /\ ~r.deleted /\ ~r.modified
        /\ r.absent_reads = {} /\ r.acc_rlp = witness[a].leaf
        /\ r.overflow = Nothing /\ r.recovered = Nothing /\ r.wiped = {}
        /\ DOMAIN r.slots = DOMAIN witness[a].slots
        /\ \A k \in DOMAIN r.slots : r.slots[k].initial = witness[a].slots[k] /\ r.slots[k].current = witness[a].slots[k]
    BY Zenon, <2>1, Sanitized
  <2>3. DOMAIN r.overflow = {} /\ DOMAIN r.recovered = {} /\ found_slots(r) = {}
    BY Zenon, <2>2, FoundNone, PartialFacts
  <2> HIDE DEF r
  <2> QED
    BY Zenon, <2>1, <2>2, <2>3 DEF r
<1>4. ASSUME NEW a \in Addr, a \notin mapped
      PROVE  /\ rec[a] = EmptyRecord /\ rec[a] \in Account /\ Shape(rec[a]) /\ NonEmpty(rec[a])
             /\ rec[a].place = "none" /\ rec[a].deleted /\ ~rec[a].modified /\ rec[a].wiped = {}
             /\ DOMAIN rec[a].recovered = {} /\ rec[a].absent_reads = {}
  <2>1. rec[a] = EmptyRecord
    BY Zenon, <1>1, <1>4
  <2>2. /\ EmptyRecord.place = "none" /\ EmptyRecord.deleted /\ ~EmptyRecord.modified /\ EmptyRecord.wiped = {}
        /\ DOMAIN EmptyRecord.recovered = {} /\ EmptyRecord.absent_reads = {}
    BY Zenon, PartialFacts DEF EmptyRecord
  <2> QED
    BY Zenon, <2>1, <2>2, EmptyRecordShape
<1>5. TypeOK
  <2>1. rec \in [Addr -> Account]
    BY Zenon, <1>1, <1>3, <1>4
  <2>2. touched_ \subseteq Addr /\ journal \subseteq Addr /\ loaded \subseteq Addr \X Key
    BY Zenon, <1>1
  <2>3. agreed \in BOOLEAN /\ witness_incomplete_ \in BOOLEAN /\ recovery_ended_ \in BOOLEAN
    BY Zenon DEF Init
  <2>4. block \in Nat \ {0} /\ verdict \in {"running", "accepted", "rejected", "aborted"}
    <3>1. block = 1 /\ verdict = "running"
      BY Zenon, <1>1
    <3> QED
      BY <3>1
  <2>5. scenario \in Scenario /\ pre \in State /\ head_root \in State /\ ref \in State
    BY Zenon, <1>1
  <2> QED
    BY Zenon, <1>2, <2>1, <2>2, <2>3, <2>4, <2>5 DEF TypeOK
<1>6. RecordsInv
  <2> SUFFICES ASSUME NEW a \in Addr
               PROVE  /\ Shape(rec[a]) /\ NonEmpty(rec[a]) /\ Placed(a, rec[a])
                      /\ rec[a].place = "none" => read_slots(loaded, a) = {}
      BY Zenon, <1>1 DEF RecordsInv
  <2>1. read_slots(loaded, a) = {}
    BY Zenon, <1>1 DEF read_slots
  <2>2. CASE a \in mapped
    BY Zenon, <1>3, <2>1, <2>2 DEF Placed
  <2>3. CASE a \notin mapped
    BY Zenon, <1>4, <2>1, <2>3 DEF Placed
  <2> QED
    BY Zenon, <2>2, <2>3
<1>7. ControlInv
  <2>1. ~(block > 1)
    <3>1. block = 1
      BY Zenon, <1>1
    <3> QED
      BY <3>1
  <2>2. \A a \in Addr : ~rec[a].modified
    BY Zenon, <1>3, <1>4
  <2> QED
    BY Zenon, <1>1, <2>1, <2>2 DEF ControlInv
<1>8. ASSUME NEW a \in Addr, Claims(a, rec[a]) PROVE Fits(a, rec[a], ref[a], read_slots(loaded, a))
  <2>1. CASE a \notin mapped
    BY Zenon, <1>4, <2>1 DEF Fits
  <2>2. CASE a \in mapped
    <3>1. witness[a].leaf = pre[a] /\ ref[a] = pre[a]
      BY Zenon, <1>1, <1>3, <1>8, <2>2 DEF Claims
    <3>2. \A k \in DOMAIN rec[a].slots : rec[a].slots[k].initial = rec[a].root[k]
      BY Zenon, <1>1, <1>3, <1>8, <2>2 DEF Claims
    <3>3. \A k \in Key : slot_value(rec[a], k) = rec[a].root[k]
      BY ZenonT(40), <1>3, <2>2, <3>2 DEF slot_value
    <3>4. read_slots(loaded, a) = {}
      BY Zenon, <1>1 DEF read_slots
    <3> QED
      <4>1. /\ ~rec[a].deleted /\ DOMAIN rec[a].overflow = {}
            /\ ref[a].nonce = rec[a].nonce /\ ref[a].balance = rec[a].balance /\ ref[a].code = rec[a].code
            /\ ref[a].root = rec[a].root
        <5>1. /\ ~rec[a].deleted /\ DOMAIN rec[a].overflow = {}
              /\ rec[a].nonce = witness[a].leaf.nonce /\ rec[a].balance = witness[a].leaf.balance
              /\ rec[a].code = witness[a].leaf.code /\ rec[a].root = witness[a].leaf.root
          BY Zenon, <1>3, <2>2
        <5>2. ref[a] = witness[a].leaf
          BY Zenon, <3>1
        <5> QED
          BY <5>1, <5>2
      <4> QED
        BY Zenon, <3>1, <3>2, <3>3, <3>4, <4>1 DEF Fits
  <2> QED
    BY Zenon, <2>1, <2>2
<1>9. SoundInv
  BY Zenon, <1>1, <1>8 DEF SoundInv, Right
<1>10. HonestInv
  <2> SUFFICES ASSUME honest, NEW a \in Addr PROVE Claims(a, rec[a])
      BY Zenon DEF HonestInv
  <2>1. CASE a \in mapped
    <3>1. a \in DOMAIN witness /\ witness[a].leaf = pre[a] /\ DOMAIN witness \ mapped = {}
      BY Zenon, <2>1 DEF honest
    <3>2. \A k \in DOMAIN rec[a].slots : rec[a].slots[k].initial = rec[a].root[k]
      <4>1. \A k \in DOMAIN witness[a].slots : witness[a].slots[k] = pre[a].root[k]
        BY Zenon, <3>1 DEF honest
      <4>2. /\ rec[a].root = pre[a].root /\ DOMAIN rec[a].slots = DOMAIN witness[a].slots
            /\ \A k \in DOMAIN rec[a].slots : rec[a].slots[k].initial = witness[a].slots[k]
        BY Zenon, <1>3, <2>1, <3>1
      <4> QED
        BY Zenon, <4>1, <4>2
    <3>3. /\ rec[a].place = "pre" /\ rec[a].acc_rlp = pre[a] /\ rec[a].wiped = {}
          /\ rec[a].absent_reads = {}
      BY Zenon, <1>3, <2>1, <3>1
    <3> QED
      BY Zenon, <3>1, <3>2, <3>3 DEF Claims
  <2>2. CASE a \notin mapped
    BY Zenon, <1>4, <2>2 DEF Claims, honest
  <2> QED
    BY Zenon, <2>1, <2>2
<1> QED
  BY Zenon, <1>1, <1>5, <1>6, <1>7, <1>9, <1>10 DEF IInv, SettledInv, AcceptedIsRight, HonestAccepted

LEMMA NextPreserves == IInv /\ [Next]_vars => IInv'
<1> SUFFICES ASSUME IInv, [Next]_vars PROVE IInv'
    BY Zenon
<1>1. ASSUME NEW a \in Addr, GetAccount(a) \/ ReadCode(a) \/ ApplyDeleted(a) PROVE IInv'
  BY Zenon, <1>1, GetAccountStep, ReadCodeStep, ApplyDeletedStep
<1>2. ASSUME NEW a \in Addr, NEW k \in scenario.keys, read_storage(a, k) PROVE IInv'
  BY Zenon, <1>2, StorageStep
<1>3. ASSUME NEW a \in Addr, NEW d \in Diff, ApplyModified(a, d) PROVE IInv'
  BY Zenon, <1>3, ApplyModifiedStep
<1>4. ASSUME NEW a \in Addr, NEW amount \in {0, 1}, Withdrawal(a, amount) PROVE IInv'
  BY Zenon, <1>4, WithdrawalStep
<1>5. CASE RecoveryFails
  BY Zenon, <1>5, RecoveryFailsStep
<1>6. CASE BeginTransactions \/ EndTransactions \/ EndBlock
  BY Zenon, <1>6, QuietSteps
<1>7. ASSUME NEW h, CheckRoot(h) PROVE IInv'
  BY Zenon, <1>7, CheckRootStep
<1>8. ASSUME NEW h, CheckRootNewBlock(h) PROVE IInv'
  BY Zenon, <1>8, CheckRootNewBlockStep
<1>9. CASE NextBlock
  BY Zenon, <1>9, NextBlockStep
<1>10. CASE UNCHANGED vars
  <2>1. UNCHANGED <<bundle, rec, witness_incomplete_, touched_, journal, recovery_ended_, block, loaded,
                    ref, agreed, header_root, verdict>>
    BY Zenon, <1>10 DEF vars, control
  <2>2. /\ UNCHANGED <<scenario, pre, head_root, witness, mapped, nodes, early, settled, recovers, multi_block_, honest>>
        /\ \A b, q : Claims(b, q)' <=> Claims(b, q)
        /\ \A b, q, l, L : Fits(b, q, l, L)' <=> Fits(b, q, l, L)
        /\ \A b, q : Placed(b, q)' <=> Placed(b, q)
        /\ \A b, q, l, j : Settled(b, q, l, j)' <=> Settled(b, q, l, j)
    BY Zenon, <2>1, Stays
  <2>3. TypeOK' /\ RecordsInv' /\ ControlInv' /\ SettledInv'
    BY Zenon, <2>1, <2>2 DEF IInv, TypeOK, RecordsInv, ControlInv, SettledInv
  <2>4. SoundInv' /\ HonestInv'
    BY Zenon, <2>1, <2>2 DEF IInv, SoundInv, Right, HonestInv, created_records
  <2>5. AcceptedIsRight' /\ HonestAccepted'
    BY Zenon, <2>1, <2>2 DEF IInv, AcceptedIsRight, HonestAccepted, whole, created_records
  <2> QED
    BY Zenon, <2>3, <2>4, <2>5 DEF IInv
<1> QED
  BY Zenon, <1>1, <1>2, <1>3, <1>4, <1>5, <1>6, <1>7, <1>8, <1>9, <1>10 DEF Next

\* The invariant holds throughout: what the block reads is right as long as the
\* claims the checks go by hold, and an honest witness's do.
THEOREM Invariance == Spec => []IInv
  BY InitHolds, NextPreserves, PTL DEF Spec

\* check_root, check_root_new_block and the whole-state check accept a block only
\* if all it read was right and its header commits to the state it leads to.
THEOREM AcceptanceSound == Spec => []AcceptedIsRight
<1>1. IInv => AcceptedIsRight
  BY Zenon DEF IInv
<1> QED
  BY <1>1, Invariance, PTL

\* They reject no honest witness that carries all the block reads.
THEOREM AcceptanceComplete == Spec => []HonestAccepted
<1>1. IInv => HonestAccepted
  BY Zenon DEF IInv
<1> QED
  BY <1>1, Invariance, PTL

\* No walk is given two updates of one key: the places a slot or an account may
\* be in are apart.
THEOREM UpdatesAreDistinct == Spec => []UpdatesDistinct
<1>1. ASSUME IInv, NEW a \in Addr PROVE SlotsApart(rec[a]) /\ Placed(a, rec[a])
  BY Zenon, <1>1 DEF IInv, RecordsInv, Shape
<1>2. ASSUME IInv, NEW a \in Addr PROVE (rec[a].place = "pre") = (a \in mapped)
  <2>1. rec[a].place = "pre" <=> a \in mapped
    BY Zenon, <1>1, <1>2 DEF Placed
  <2> QED
    BY <2>1
<1>3. IInv => UpdatesDistinct
  BY Zenon, <1>1, <1>2 DEF SlotsApart, Placed, UpdatesDistinct
<1> QED
  BY <1>3, Invariance, PTL

\* A cached leaf that is used is right: of the first block's walks by its stamp,
\* of check_root_new_block by the journal.
THEOREM CachesAreFresh == Spec => []CachesFresh
<1>1. ASSUME IInv, NEW a \in Addr, rec[a].stamped
      PROVE  leaf_of(rec[a], EmptyRoot) = [rec[a].acc_rlp EXCEPT !.root = EmptyRoot]
  <2>1. rec[a] \in Account /\ StampRight(rec[a])
    BY Zenon, <1>1 DEF IInv, TypeOK, RecordsInv, Shape
  <2> QED
    BY Zenon, <1>1, <2>1, RlpInto DEF rlp_into
<1>2. ASSUME IInv, NEW a \in Addr, block > 1, a \notin journal, ~rec[a].deleted
      PROVE  rec[a].acc_rlp = leaf_of(rec[a], account_storage_root(rec[a]))
  BY Zenon, <1>2 DEF IInv, SettledInv, settled, Settled
<1>3. IInv => CachesFresh
  BY Zenon, <1>1, <1>2 DEF CachesFresh
<1> QED
  BY <1>3, Invariance, PTL
=============================================================================
