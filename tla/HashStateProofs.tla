---------------------------- MODULE HashStateProofs ----------------------------
(***************************************************************************)
(* Soundness and completeness of HashState's accept check, for any         *)
(* addresses, slots, values, parent states and witnesses, and any number   *)
(* of diffs and withdrawals.                                               *)
(***************************************************************************)
EXTENDS HashState, TLAPS

Record ==
  [place : {"overlay"}, nonce : {0, 1}, balance : 0..MaxBalance, code : Code, root : Storage,
   deleted : BOOLEAN, modified : BOOLEAN]

TypeOK ==
  /\ pre \in State
  /\ overlay \in [Addr -> Record \cup {NoRecord}]
  /\ overflow \in [Addr -> Partial(Value)]
  /\ storage_wiped_ \subseteq Addr
  /\ unconfirmed \in BOOLEAN
  /\ agreed \in BOOLEAN
  /\ touched_ \subseteq Addr
  /\ loaded \subseteq Addr \X Key
  /\ ref \in State

\* A slot of a that was read or written without being counted: the trie's
\* nodes decide it, or the trie's value no longer matters.
Decided(a, k) ==
  a \in storage_wiped_ \/ a \notin built \/ pre[a].root = EmptyRoot \/ k \in known_slots[a]

Gone(a) == overlay[a] # NoRecord /\ overlay[a].deleted
Live(a) == overlay[a] # NoRecord /\ ~overlay[a].deleted

\* What the overlay, the overflow slots and the wipes say of a, over the
\* parent's leaf, is the leaf the EVM's rules give it. A record that is not
\* marked says nothing new, and only an account that cannot be destructed as
\* dead has slots written.
Fits(a) ==
  /\ overlay[a] = NoRecord => ref[a] = pre[a] /\ DOMAIN overflow[a] = {} /\ a \notin storage_wiped_
  /\ overlay[a] # NoRecord => a \in known
  /\ Gone(a) => ref[a] = NoLeaf /\ DOMAIN overflow[a] = {} /\ (a \in storage_wiped_ \/ a \notin built)
  /\ Live(a) =>
       /\ ref[a].nonce = overlay[a].nonce /\ ref[a].balance = overlay[a].balance /\ ref[a].code = overlay[a].code
       /\ a \notin storage_wiped_ => a \in built /\ overlay[a].root = pre[a].root
       /\ \A k \in Key : ref[a].root[k] = IF k \in DOMAIN overflow[a] THEN overflow[a][k]
                                          ELSE IF a \in storage_wiped_ THEN 0 ELSE pre[a].root[k]
       /\ ~overlay[a].modified => ref[a] = pre[a] /\ DOMAIN overflow[a] = {} /\ a \notin storage_wiped_
       /\ DOMAIN overflow[a] # {} => overlay[a].nonce # 0 \/ overlay[a].code # "none"
  /\ \A k \in Key : <<a, k>> \in loaded => Decided(a, k)
  /\ \A k \in DOMAIN overflow[a] : Decided(a, k)

\* Every account a withdrawal has touched is deleted already if it is dead.
TouchedInv == phase # "transactions" => \A a \in touched_ : Live(a) => ~is_empty(overlay[a])

\* As long as nothing is counted, the overlay is the state and all reads were right.
SoundInv == ~unconfirmed => agreed /\ TouchedInv /\ \A a \in Addr : Fits(a)

\* With all nodes there, only a code body that is not there is counted.
CompleteInv == all_nodes /\ unconfirmed => ~agreed

IInv == TypeOK /\ SoundInv /\ CompleteInv /\ AcceptedIsRight /\ HonestAccepted

-----------------------------------------------------------------------------
(* Leaves, records and slots. *)

LEMMA LeafFacts ==
  /\ EmptyRoot \in Storage
  /\ \A k \in Key : EmptyRoot[k] = 0
  /\ \A l \in Leaf : l # NoLeaf
  /\ NoLeaf.code \notin Code
  /\ 0 \in Value /\ 0 \in 0..MaxBalance /\ 1 \in 0..MaxBalance
<1>1. 0 \in Value /\ 0 \in 0..MaxBalance /\ 1 \in 0..MaxBalance
  BY BoundsAssumption DEF Value
<1>2. EmptyRoot \in Storage /\ \A k \in Key : EmptyRoot[k] = 0
  BY Zenon, <1>1 DEF EmptyRoot, Storage
<1>3. NoLeaf.code \notin Code
  BY Zenon DEF NoLeaf, Code
<1>4. ASSUME NEW l \in Leaf PROVE l # NoLeaf
  <2>1. l.code \in Code
    BY Zenon DEF Leaf
  <2> QED
    BY Zenon, <1>3, <2>1
<1> QED
  BY Zenon, <1>1, <1>2, <1>3, <1>4

LEMMA RecordFacts ==
  /\ \A r \in Record : r # NoRecord
  /\ \A l \in Leaf : record_of(l) \in Record
  /\ materialize_absent_account_ \in Record
<1>1. \A r \in Record : r # NoRecord
  <2> SUFFICES ASSUME NEW r \in Record PROVE r # NoRecord
      BY Zenon
  <2>1. r.place = "overlay" /\ NoRecord.place = "none"
    BY Zenon DEF Record, NoRecord
  <2> QED
    BY Zenon, <2>1
<1>2. \A l \in Leaf : record_of(l) \in Record
  BY Zenon DEF Record, record_of, Leaf
<1>3. materialize_absent_account_ \in Record
  BY Zenon, LeafFacts DEF Record, materialize_absent_account_, Code
<1> QED
  BY Zenon, <1>1, <1>2, <1>3

LEMMA PartialFacts ==
  ASSUME NEW S
  PROVE  /\ \A o \in Partial(S) : DOMAIN o \subseteq Key /\ \A k \in DOMAIN o : o[k] \in S
         /\ Nothing \in Partial(S) /\ DOMAIN Nothing = {}
         /\ \A K \in SUBSET Key : \A o \in [K -> S] : o \in Partial(S)
<1>1. \A K \in SUBSET Key : \A o \in [K -> S] : o \in Partial(S)
  BY Zenon DEF Partial
<1>2. DOMAIN Nothing = {} /\ Nothing \in [{} -> S]
  BY Zenon DEF Nothing
<1>3. \A o \in Partial(S) : DOMAIN o \subseteq Key /\ \A k \in DOMAIN o : o[k] \in S
  BY Zenon DEF Partial
<1> QED
  BY Zenon, <1>1, <1>2, <1>3

\* An address nothing was done to still fits.
LEMMA Frame ==
  ASSUME NEW a \in Addr, Fits(a), UNCHANGED witness, overlay'[a] = overlay[a], overflow'[a] = overflow[a],
         ref'[a] = ref[a], a \in storage_wiped_' <=> a \in storage_wiped_,
         \A k \in Key : <<a, k>> \in loaded' => <<a, k>> \in loaded
  PROVE  Fits(a)'
<1>1. built' = built /\ pre' = pre /\ known' = known /\ known_slots' = known_slots
  BY Zenon DEF witness, built
<1>2. \A k : Decided(a, k)' <=> Decided(a, k)
  BY Zenon, <1>1 DEF Decided
<1>3. (Gone(a)' <=> Gone(a)) /\ (Live(a)' <=> Live(a))
  BY Zenon DEF Gone, Live
<1> QED
  BY Zenon, <1>1, <1>2, <1>3 DEF Fits

-----------------------------------------------------------------------------
(* Reads. *)

\* The record that get_account and add_to_balance load: the one there is, or
\* one that says what the trie does.
LEMMA Loaded ==
  ASSUME TypeOK, NEW a \in Addr
  PROVE  /\ find_or_create_account(a) \in Record
         /\ overlay[a] # NoRecord => find_or_create_account(a) = overlay[a]
         /\ overlay[a] = NoRecord /\ a \in built =>
              a \in known /\ pre[a] \in Leaf /\ find_or_create_account(a) = record_of(pre[a])
         /\ overlay[a] = NoRecord /\ a \notin built =>
              /\ find_or_create_account(a) = materialize_absent_account_
              /\ ~create_unconfirmed(a) => a \in known /\ pre[a] = NoLeaf
<1>1. overlay[a] \in Record \cup {NoRecord} /\ pre[a] \in Leaf \cup {NoLeaf}
  BY Zenon DEF TypeOK, State
<1>2. a \in built => a \in known /\ pre[a] # NoLeaf
  BY Zenon DEF built
<1> QED
  BY Zenon, <1>1, <1>2, RecordFacts DEF find_or_create_account, create_unconfirmed, confirm_absent

\* What get_account answers from a record that fits is what the rules say.
LEMMA AnswerRight ==
  ASSUME TypeOK, NEW a \in Addr, Fits(a), overlay[a] # NoRecord
  PROVE  get_account(a, overlay[a]) = account_in(ref[a])
<1> DEFINE r == overlay[a]
<1>1. r \in Record /\ ref[a] \in Leaf \cup {NoLeaf} /\ pre[a] \in Leaf \cup {NoLeaf}
  BY Zenon DEF TypeOK, State
<1>2. CASE r.deleted
  <2>1. ref[a] = NoLeaf
    BY Zenon, <1>2 DEF Fits, Gone
  <2> QED
    BY Zenon, <1>2, <2>1 DEF get_account, account_in
<1>3. CASE ~r.deleted
  <2>1. Live(a)
    BY Zenon, <1>3 DEF Live
  <2>2. /\ ref[a].nonce = r.nonce /\ ref[a].balance = r.balance /\ ref[a].code = r.code
    BY Zenon, <2>1 DEF Fits
  <2>3. ref[a] \in Leaf /\ ref[a] # NoLeaf
    <3>1. r.code \in Code
      BY Zenon, <1>1 DEF Record
    <3> QED
      BY Zenon, <1>1, <2>2, <3>1, LeafFacts
  <2>4. ASSUME r.nonce = 0, r.code = "none"
        PROVE  has_storage(a, r) <=> ref[a].root # EmptyRoot
    <3>1. DOMAIN overflow[a] = {}
      BY Zenon, <2>1, <2>4 DEF Fits
    <3>2. \A k \in Key : ref[a].root[k] = IF a \in storage_wiped_ THEN 0 ELSE pre[a].root[k]
      BY Zenon, <2>1, <3>1 DEF Fits
    <3>3. ref[a].root \in Storage
      BY Zenon, <2>3 DEF Leaf
    <3>4. CASE a \in storage_wiped_
      <4>1. ref[a].root = EmptyRoot
        BY Zenon, <3>2, <3>3, <3>4 DEF EmptyRoot, Storage
      <4> QED
        BY Zenon, <3>1, <3>4, <4>1 DEF has_storage
    <3>5. CASE a \notin storage_wiped_
      <4>1. r.root = pre[a].root
        BY Zenon, <2>1, <3>5 DEF Fits
      <4>2. r.root \in Storage
        BY Zenon, <1>1 DEF Record
      <4>3. ref[a].root = r.root
        BY <3>2, <3>3, <3>5, <4>1, <4>2 DEF Storage
      <4> QED
        BY Zenon, <3>1, <3>5, <4>3 DEF has_storage
    <3> QED
      BY Zenon, <3>4, <3>5
  <2>5. (r.nonce # 0 \/ r.code # "none" \/ has_storage(a, r))
          = (ref[a].nonce # 0 \/ ref[a].code # "none" \/ ref[a].root # EmptyRoot)
    BY Zenon, <2>2, <2>4
  <2> QED
    BY Zenon, <1>3, <2>2, <2>3, <2>5 DEF get_account, account_in
<1> QED
  BY Zenon, <1>2, <1>3

\* The trie's leaf of a record that was just loaded.
LEMMA LoadFits ==
  ASSUME TypeOK, NEW a \in Addr, Fits(a), ~create_unconfirmed(a), UNCHANGED witness,
         overlay'[a] = find_or_create_account(a), overflow'[a] = overflow[a], ref'[a] = ref[a],
         storage_wiped_' = storage_wiped_, loaded' = loaded
  PROVE  Fits(a)'
<1>1. CASE overlay[a] # NoRecord
  BY Zenon, <1>1, Loaded, Frame
<1>2. CASE overlay[a] = NoRecord
  <2>1. /\ built' = built /\ pre' = pre /\ known' = known /\ \A k : Decided(a, k)' <=> Decided(a, k)
    BY Zenon DEF witness, built, Decided
  <2>2. /\ ref'[a] = pre[a] /\ DOMAIN overflow'[a] = {} /\ a \notin storage_wiped_' /\ a \in known
        /\ \A k \in Key : <<a, k>> \in loaded' => Decided(a, k)'
        /\ overlay'[a] # NoRecord
    BY Zenon, <1>2, <2>1, Loaded, RecordFacts DEF Fits
  <2>3. CASE a \in built
    <3>1. overlay'[a] = record_of(pre[a]) /\ Live(a)' /\ ~Gone(a)'
      BY <1>2, <2>2, <2>3, Loaded DEF Live, Gone, record_of
    <3>2. /\ overlay'[a].nonce = pre[a].nonce /\ overlay'[a].balance = pre[a].balance
          /\ overlay'[a].code = pre[a].code /\ overlay'[a].root = pre[a].root
      BY <3>1 DEF record_of
    <3>3. a \in built' /\ pre' = pre /\ \A k : k \notin DOMAIN overflow'[a]
      BY Zenon, <2>1, <2>2, <2>3
    <3> QED
      BY Zenon, <2>1, <2>2, <3>1, <3>2, <3>3 DEF Fits
  <2>4. CASE a \notin built
    <3>1. pre[a] = NoLeaf /\ ~Live(a)' /\ Gone(a)'
      <4>1. overlay'[a] = materialize_absent_account_ /\ pre[a] = NoLeaf
        BY Zenon, <1>2, <2>4, Loaded
      <4>2. overlay'[a].deleted
        BY <4>1 DEF materialize_absent_account_
      <4> QED
        BY Zenon, <2>2, <4>1, <4>2 DEF Live, Gone
    <3> QED
      BY Zenon, <2>1, <2>2, <2>4, <3>1 DEF Fits
  <2> QED
    BY Zenon, <2>3, <2>4
<1> QED
  BY Zenon, <1>1, <1>2

\* The record loaded answers as the rules do.
LEMMA LoadAnswers ==
  ASSUME TypeOK, NEW a \in Addr, Fits(a), ~create_unconfirmed(a)
  PROVE  get_account(a, find_or_create_account(a)) = account_in(ref[a])
<1>1. CASE overlay[a] # NoRecord
  BY Zenon, <1>1, Loaded, AnswerRight
<1>2. CASE overlay[a] = NoRecord /\ a \in built
  <2>1. find_or_create_account(a) = record_of(pre[a]) /\ pre[a] \in Leaf /\ ref[a] = pre[a]
        /\ DOMAIN overflow[a] = {} /\ a \notin storage_wiped_
    BY Zenon, <1>2, Loaded DEF Fits
  <2>2. has_storage(a, record_of(pre[a])) <=> pre[a].root # EmptyRoot
    BY Zenon, <2>1 DEF has_storage, record_of
  <2> QED
    BY <2>1, <2>2, LeafFacts DEF get_account, account_in, record_of
<1>3. CASE overlay[a] = NoRecord /\ a \notin built
  <2>1. find_or_create_account(a) = materialize_absent_account_ /\ ref[a] = NoLeaf
    BY Zenon, <1>3, Loaded DEF Fits
  <2>2. materialize_absent_account_.deleted
    BY Zenon DEF materialize_absent_account_
  <2> QED
    BY Zenon, <2>1, <2>2 DEF get_account, account_in
<1> QED
  BY Zenon, <1>1, <1>2, <1>3

\* The state every step but CheckRoot starts in and leaves the verdict at.
LEMMA Running ==
  ASSUME verdict = "running", UNCHANGED verdict
  PROVE  AcceptedIsRight' /\ HonestAccepted'
  BY Zenon DEF AcceptedIsRight, HonestAccepted

LEMMA GetAccountStep ==
  ASSUME IInv, NEW a \in Addr, GetAccount(a)
  PROVE  IInv'
<1>1. /\ overlay' = [overlay EXCEPT ![a] = find_or_create_account(a)]
      /\ agreed' = (agreed /\ get_account(a, find_or_create_account(a)) = account_in(ref[a]))
      /\ unconfirmed' = (unconfirmed \/ create_unconfirmed(a))
      /\ UNCHANGED <<witness, overflow, storage_wiped_, touched_, phase, loaded, ref, verdict>>
      /\ verdict = "running" /\ phase = "transactions"
  BY Zenon DEF GetAccount, unchanged_but_read, executing
<1>2. TypeOK'
  <2>1. overlay' \in [Addr -> Record \cup {NoRecord}]
    BY Zenon, <1>1, Loaded DEF IInv, TypeOK
  <2>2. unconfirmed' \in BOOLEAN /\ agreed' \in BOOLEAN
    BY Zenon, <1>1 DEF IInv, TypeOK
  <2> QED
    BY Zenon, <1>1, <2>1, <2>2 DEF IInv, TypeOK, witness
<1>3. SoundInv'
  <2> SUFFICES ASSUME ~unconfirmed' PROVE agreed' /\ TouchedInv' /\ \A b \in Addr : Fits(b)'
      BY Zenon DEF SoundInv
  <2>1. ~unconfirmed /\ ~create_unconfirmed(a)
    BY Zenon, <1>1
  <2>2. agreed /\ \A b \in Addr : Fits(b)
    BY Zenon, <2>1 DEF IInv, SoundInv
  <2>3. agreed'
    BY Zenon, <1>1, <2>1, <2>2, LoadAnswers DEF IInv
  <2>4. TouchedInv'
    BY Zenon, <1>1 DEF TouchedInv
  <2>5. ASSUME NEW b \in Addr PROVE Fits(b)'
    <3>1. CASE b = a
      <4>1. overlay'[a] = find_or_create_account(a)
        BY Zenon, <1>1 DEF IInv, TypeOK
      <4> QED
        BY Zenon, <1>1, <2>1, <2>2, <3>1, <4>1, LoadFits DEF IInv
    <3>2. CASE b # a
      BY Zenon, <1>1, <2>2, <3>2, Frame DEF IInv, TypeOK
    <3> QED
      BY Zenon, <3>1, <3>2
  <2> QED
    BY Zenon, <2>3, <2>4, <2>5
<1>4. CompleteInv'
  <2> SUFFICES ASSUME all_nodes', unconfirmed' PROVE ~agreed'
      BY Zenon DEF CompleteInv
  <2>1. all_nodes
    BY Zenon, <1>1 DEF all_nodes, witness
  <2>2. ~create_unconfirmed(a)
    BY Zenon, <2>1 DEF all_nodes, create_unconfirmed, confirm_absent, built
  <2> QED
    BY Zenon, <1>1, <2>1, <2>2 DEF IInv, CompleteInv
<1> QED
  BY Zenon, <1>1, <1>2, <1>3, <1>4, Running DEF IInv

LEMMA ReadCodeStep ==
  ASSUME IInv, NEW a \in Addr, ReadCode(a)
  PROVE  IInv'
<1> DEFINE wanted == IF overlay[a].deleted THEN "none" ELSE overlay[a].code
           wanted_in_ref == IF ref[a] = NoLeaf THEN "none" ELSE ref[a].code
<1>1. /\ unconfirmed' = (unconfirmed \/ ~code_found(wanted))
      /\ agreed' = (agreed /\ code_found(wanted) /\ wanted = wanted_in_ref)
      /\ UNCHANGED <<witness, overlay, overflow, storage_wiped_, touched_, phase, loaded, ref, verdict>>
      /\ verdict = "running" /\ phase = "transactions" /\ overlay[a] # NoRecord
  BY Zenon DEF ReadCode, unchanged_but_read, executing
<1>2. TypeOK'
  <2>1. unconfirmed' \in BOOLEAN /\ agreed' \in BOOLEAN
    BY Zenon, <1>1 DEF IInv, TypeOK
  <2> QED
    BY Zenon, <1>1, <2>1 DEF IInv, TypeOK, witness
<1>3. SoundInv'
  <2> SUFFICES ASSUME ~unconfirmed' PROVE agreed' /\ TouchedInv' /\ \A b \in Addr : Fits(b)'
      BY Zenon DEF SoundInv
  <2>1. ~unconfirmed /\ code_found(wanted)
    BY Zenon, <1>1
  <2>2. agreed /\ \A b \in Addr : Fits(b)
    BY Zenon, <2>1 DEF IInv, SoundInv
  <2>3. wanted = wanted_in_ref
    <3>1. CASE overlay[a].deleted
      BY Zenon, <1>1, <2>2, <3>1 DEF Fits, Gone
    <3>2. CASE ~overlay[a].deleted
      <4>1. ref[a].code = overlay[a].code
        BY Zenon, <1>1, <2>2, <3>2 DEF Fits, Live
      <4>2. overlay[a] \in Record
        BY Zenon, <1>1 DEF IInv, TypeOK
      <4>3. overlay[a].code \in Code
        BY Zenon, <4>2 DEF Record
      <4>4. ref[a] # NoLeaf
        BY Zenon, <4>1, <4>3, LeafFacts
      <4> QED
        BY Zenon, <3>2, <4>1, <4>4
    <3> QED
      BY Zenon, <3>1, <3>2
  <2>4. agreed'
    BY Zenon, <1>1, <2>1, <2>2, <2>3
  <2>5. TouchedInv'
    BY Zenon, <1>1 DEF TouchedInv
  <2>6. ASSUME NEW b \in Addr PROVE Fits(b)'
    BY Zenon, <1>1, <2>2, Frame
  <2> QED
    BY Zenon, <2>4, <2>5, <2>6
<1>4. CompleteInv'
  <2> SUFFICES ASSUME all_nodes', unconfirmed' PROVE ~agreed'
      BY Zenon DEF CompleteInv
  <2>1. all_nodes
    BY Zenon, <1>1 DEF all_nodes, witness
  <2>2. CASE unconfirmed
    BY Zenon, <1>1, <2>1, <2>2 DEF IInv, CompleteInv
  <2>3. CASE ~code_found(wanted)
    BY Zenon, <1>1, <2>3
  <2> QED
    BY Zenon, <1>1, <2>2, <2>3
<1> QED
  BY Zenon, <1>1, <1>2, <1>3, <1>4, Running DEF IInv

LEMMA GetStorageStep ==
  ASSUME IInv, NEW a \in Addr, NEW k \in Key, GetStorage(a, k)
  PROVE  IInv'
<1> DEFINE missed == k \notin DOMAIN overflow[a] /\ a \notin storage_wiped_ /\ storage_miss_unproved(a, k)
<1>1. /\ unconfirmed' = (unconfirmed \/ missed)
      /\ agreed' = (agreed /\ read_storage(a, k) = ref[a].root[k])
      /\ loaded' = loaded \cup {<<a, k>>}
      /\ UNCHANGED <<witness, overlay, overflow, storage_wiped_, touched_, phase, ref, verdict>>
      /\ verdict = "running" /\ phase = "transactions" /\ overlay[a] # NoRecord
  BY Zenon DEF GetStorage, unchanged_but_read, executing
<1>2. TypeOK'
  <2>1. unconfirmed' \in BOOLEAN /\ agreed' \in BOOLEAN
    BY Zenon, <1>1
  <2>2. loaded' \subseteq Addr \X Key
    <3>1. loaded \subseteq Addr \X Key
      BY Zenon DEF IInv, TypeOK
    <3> QED
      BY <1>1, <3>1
  <2> QED
    BY Zenon, <1>1, <2>1, <2>2 DEF IInv, TypeOK, witness
<1>3. SoundInv'
  <2> SUFFICES ASSUME ~unconfirmed' PROVE agreed' /\ TouchedInv' /\ \A b \in Addr : Fits(b)'
      BY Zenon DEF SoundInv
  <2>1. ~unconfirmed /\ ~missed
    BY Zenon, <1>1
  <2>2. agreed /\ \A b \in Addr : Fits(b)
    BY Zenon, <2>1 DEF IInv, SoundInv
  <2>3. Decided(a, k)
    <3>1. CASE k \in DOMAIN overflow[a]
      BY Zenon, <2>2, <3>1 DEF Fits
    <3>2. CASE k \notin DOMAIN overflow[a]
      BY Zenon, <2>1, <3>2 DEF Decided, storage_miss_unproved
    <3> QED
      BY Zenon, <3>1, <3>2
  <2>4. read_storage(a, k) = ref[a].root[k]
    <3>1. CASE overlay[a].deleted
      <4>1. ref[a] = NoLeaf /\ DOMAIN overflow[a] = {} /\ (a \in storage_wiped_ \/ a \notin built)
        BY Zenon, <1>1, <2>2, <3>1 DEF Fits, Gone
      <4>2. ref[a].root[k] = 0
        <5>1. NoLeaf.root = EmptyRoot
          BY Zenon DEF NoLeaf
        <5> QED
          BY Zenon, <4>1, <5>1, LeafFacts
      <4> QED
        BY Zenon, <4>1, <4>2 DEF read_storage, built_slots
    <3>2. CASE ~overlay[a].deleted
      <4>1. /\ ref[a].root[k] = IF k \in DOMAIN overflow[a] THEN overflow[a][k]
                                ELSE IF a \in storage_wiped_ THEN 0 ELSE pre[a].root[k]
            /\ a \notin storage_wiped_ => a \in built
        BY Zenon, <1>1, <2>2, <3>2 DEF Fits, Live
      <4>2. a \notin storage_wiped_ /\ k \notin built_slots(a) => pre[a].root[k] = 0
        BY Zenon, <2>3, <4>1, LeafFacts DEF built_slots, Decided
      <4> QED
        BY Zenon, <4>1, <4>2 DEF read_storage
    <3> QED
      BY Zenon, <3>1, <3>2
  <2>5. agreed'
    BY Zenon, <1>1, <2>2, <2>4
  <2>6. TouchedInv'
    BY Zenon, <1>1 DEF TouchedInv
  <2>7. ASSUME NEW b \in Addr PROVE Fits(b)'
    <3>1. CASE b # a
      BY Zenon, <1>1, <2>2, <3>1, Frame
    <3>2. CASE b = a
      <4>1. /\ built' = built /\ pre' = pre /\ known' = known
            /\ \A j : Decided(a, j)' <=> Decided(a, j)
        BY Zenon, <1>1 DEF witness, built, Decided
      <4>2. (Gone(a)' <=> Gone(a)) /\ (Live(a)' <=> Live(a))
        BY Zenon, <1>1 DEF Gone, Live
      <4>3. \A j \in Key : <<a, j>> \in loaded' => Decided(a, j)'
        BY Zenon, <1>1, <2>2, <2>3, <4>1 DEF Fits
      <4> QED
        BY Zenon, <1>1, <2>2, <3>2, <4>1, <4>2, <4>3 DEF Fits
    <3> QED
      BY Zenon, <3>1, <3>2
  <2> QED
    BY Zenon, <2>5, <2>6, <2>7
<1>4. CompleteInv'
  <2> SUFFICES ASSUME all_nodes', unconfirmed' PROVE ~agreed'
      BY Zenon DEF CompleteInv
  <2>1. all_nodes
    BY Zenon, <1>1 DEF all_nodes, witness
  <2>2. ~missed
    BY Zenon, <2>1 DEF all_nodes, storage_miss_unproved
  <2> QED
    BY Zenon, <1>1, <2>1, <2>2 DEF IInv, CompleteInv
<1> QED
  BY Zenon, <1>1, <1>2, <1>3, <1>4, Running DEF IInv

\* A step that changes no record, slot, wipe, count or reference.
LEMMA QuietStep ==
  ASSUME IInv, UNCHANGED <<witness, overlay, overflow, storage_wiped_, unconfirmed, ref, agreed>>,
         (touched_' = touched_ /\ phase' = phase) \/ touched_' = {}, loaded' \subseteq loaded,
         AcceptedIsRight' /\ HonestAccepted'
  PROVE  IInv'
<1>1. TypeOK'
  <2>1. touched_' \subseteq Addr /\ loaded' \subseteq Addr \X Key
    BY Zenon DEF IInv, TypeOK
  <2> QED
    BY Zenon, <2>1 DEF IInv, TypeOK, witness
<1>2. SoundInv'
  <2> SUFFICES ASSUME ~unconfirmed' PROVE agreed' /\ TouchedInv' /\ \A b \in Addr : Fits(b)'
      BY Zenon DEF SoundInv
  <2>1. agreed /\ TouchedInv /\ \A b \in Addr : Fits(b)
    BY Zenon DEF IInv, SoundInv
  <2>2. TouchedInv'
    BY Zenon, <2>1 DEF TouchedInv, Live
  <2>3. ASSUME NEW b \in Addr PROVE Fits(b)'
    BY Zenon, <2>1, Frame
  <2> QED
    BY Zenon, <2>1, <2>2, <2>3
<1>3. CompleteInv'
  BY Zenon DEF IInv, CompleteInv, all_nodes, witness
<1> QED
  BY Zenon, <1>1, <1>2, <1>3 DEF IInv

-----------------------------------------------------------------------------
(* Writes. *)

\* The record that apply_state_diff leaves of r, and the slots it leaves.
coded_record(r, d) ==
  IF d.code = "same" THEN revive_if_deleted(r)
  ELSE [revive_if_deleted(r) EXCEPT !.code = d.code, !.modified = TRUE]
modified_record(r, d) ==
  [set_account_from_diff(coded_record(r, d), d.nonce, d.balance) EXCEPT !.modified = @ \/ DOMAIN d.writes # {}]
modified_slots(kept, d) ==
  [k \in DOMAIN kept \cup DOMAIN d.writes |-> IF k \in DOMAIN d.writes THEN d.writes[k] ELSE kept[k]]

LEMMA Revived ==
  ASSUME NEW r \in Record
  PROVE  /\ revive_if_deleted(r) \in Record /\ ~revive_if_deleted(r).deleted
         /\ ~r.deleted => revive_if_deleted(r) = r
         /\ r.deleted => /\ revive_if_deleted(r).nonce = 0 /\ revive_if_deleted(r).balance = 0
                         /\ revive_if_deleted(r).code = "none" /\ revive_if_deleted(r).modified
<1>1. CASE ~r.deleted
  BY Zenon, <1>1 DEF revive_if_deleted
<1>2. CASE r.deleted
  <2>1. revive_if_deleted(r) = [place |-> "overlay", nonce |-> 0, balance |-> 0, code |-> "none",
                                root |-> EmptyRoot, deleted |-> FALSE, modified |-> TRUE]
    BY Zenon, <1>2 DEF revive_if_deleted, materialize_absent_account_
  <2> QED
    BY <1>2, <2>1, LeafFacts DEF Record, Code
<1> QED
  BY Zenon, <1>1, <1>2

LEMMA ModifiedRecord ==
  ASSUME NEW r \in Record, NEW d \in Diff
  PROVE  /\ modified_record(r, d) \in Record
         /\ modified_record(r, d).nonce = d.nonce /\ modified_record(r, d).balance = d.balance
         /\ modified_record(r, d).code = IF d.code # "same" THEN d.code ELSE revive_if_deleted(r).code
         /\ modified_record(r, d).root = revive_if_deleted(r).root
         /\ ~modified_record(r, d).deleted
         /\ ~modified_record(r, d).modified =>
              /\ ~revive_if_deleted(r).modified /\ d.code = "same" /\ DOMAIN d.writes = {}
              /\ revive_if_deleted(r).nonce = d.nonce /\ revive_if_deleted(r).balance = d.balance
<1> DEFINE live == revive_if_deleted(r)
           coded == coded_record(r, d)
<1>1. live \in Record /\ ~live.deleted
  BY Zenon, Revived
<1>2. d.nonce \in {0, 1} /\ d.balance \in 0..MaxBalance /\ d.code \in Code \cup {"same"}
  BY Zenon DEF Diff
<1> HIDE DEF live
<1>3. /\ coded \in Record /\ coded.nonce = live.nonce /\ coded.balance = live.balance /\ coded.root = live.root
      /\ coded.code = (IF d.code # "same" THEN d.code ELSE live.code) /\ ~coded.deleted
      /\ ~coded.modified => ~live.modified /\ d.code = "same"
  <2>1. CASE d.code = "same"
    BY Zenon, <1>1, <2>1 DEF coded_record, live
  <2>2. CASE d.code # "same"
    <3>1. coded = [live EXCEPT !.code = d.code, !.modified = TRUE]
      BY Zenon, <2>2 DEF coded_record, live
    <3> QED
      BY Zenon, <1>1, <1>2, <2>2, <3>1 DEF Record
  <2> QED
    BY Zenon, <2>1, <2>2
<1> HIDE DEF coded
<1>4. modified_record(r, d) = [coded EXCEPT !.nonce = d.nonce, !.balance = d.balance,
                                 !.modified = (@ \/ coded.nonce # d.nonce \/ coded.balance # d.balance)
                                              \/ DOMAIN d.writes # {}]
  BY Zenon, <1>3 DEF modified_record, set_account_from_diff, coded, Record
<1>5. modified_record(r, d) \in Record
  BY Zenon, <1>2, <1>3, <1>4 DEF Record
<1> QED
  BY Zenon, <1>3, <1>4, <1>5 DEF Record, live

\* ApplyModified, told by these.
LEMMA ModifiedStepFacts ==
  ASSUME IInv, NEW a \in Addr, NEW d \in Diff, ApplyModified(a, d)
  PROVE  /\ verdict = "running" /\ phase = "transactions" /\ overlay[a] # NoRecord /\ overlay[a] \in Record
         /\ evm_allows(get_account(a, overlay[a]), {k \in Key : <<a, k>> \in loaded}, d)
         /\ overlay' = [overlay EXCEPT ![a] = modified_record(overlay[a], d)]
         /\ overflow' = [overflow EXCEPT ![a] =
              modified_slots(IF overlay[a].deleted \/ d.code = "deployed" THEN Nothing ELSE overflow[a], d)]
         /\ storage_wiped_' = storage_wiped_ \cup (IF overlay[a].deleted \/ d.code = "deployed" THEN {a} ELSE {})
         /\ ref' = [ref EXCEPT ![a] = modified_in(ref[a], d)]
         /\ loaded' = {}
         /\ UNCHANGED <<witness, unconfirmed, agreed, touched_, phase, verdict>>
<1>1. /\ verdict = "running" /\ phase = "transactions" /\ overlay[a] # NoRecord /\ overlay[a] \in Record
      /\ evm_allows(get_account(a, overlay[a]), {k \in Key : <<a, k>> \in loaded}, d)
      /\ ref' = [ref EXCEPT ![a] = modified_in(ref[a], d)]
      /\ loaded' = {}
      /\ UNCHANGED <<witness, unconfirmed, agreed, touched_, phase, verdict>>
  BY Zenon DEF ApplyModified, executing, end_transaction, IInv, TypeOK
<1>2. overlay' = [overlay EXCEPT ![a] = modified_record(overlay[a], d)]
  BY Zenon DEF ApplyModified, modified_record, coded_record
<1> DEFINE wipes == wiped_by_revival(overlay[a], a) \cup (IF d.code = "deployed" THEN {a} ELSE {})
<1>3. wipes = IF overlay[a].deleted \/ d.code = "deployed" THEN {a} ELSE {}
  BY Zenon DEF wiped_by_revival
<1>4. storage_wiped_' = storage_wiped_ \cup wipes
  BY Zenon DEF ApplyModified
<1>5. overflow' = [overflow EXCEPT ![a] = modified_slots(IF wipes = {} THEN overflow[a] ELSE Nothing, d)]
  BY Zenon DEF ApplyModified, modified_slots
<1>6. wipes = {} <=> ~(overlay[a].deleted \/ d.code = "deployed")
  BY Zenon, <1>3
<1> HIDE DEF wipes
<1>7. overflow' = [overflow EXCEPT ![a] =
              modified_slots(IF overlay[a].deleted \/ d.code = "deployed" THEN Nothing ELSE overflow[a], d)]
  BY Zenon, <1>5, <1>6
<1> QED
  BY Zenon, <1>1, <1>2, <1>3, <1>4, <1>7

LEMMA ApplyModifiedTypes ==
  ASSUME IInv, NEW a \in Addr, NEW d \in Diff, ApplyModified(a, d)
  PROVE  TypeOK'
<1>1. /\ overlay[a] \in Record /\ ref[a] \in Leaf \cup {NoLeaf} /\ overflow[a] \in Partial(Value)
      /\ d.nonce \in {0, 1} /\ d.balance \in 0..MaxBalance /\ d.code \in Code \cup {"same"}
      /\ d.writes \in Partial(Value)
  BY Zenon, ModifiedStepFacts DEF IInv, TypeOK, State, Diff
<1>2. overlay' \in [Addr -> Record \cup {NoRecord}]
  <2>1. overlay' = [overlay EXCEPT ![a] = modified_record(overlay[a], d)]
    BY Zenon, ModifiedStepFacts
  <2>2. modified_record(overlay[a], d) \in Record
    BY Zenon, <1>1, ModifiedRecord
  <2> QED
    BY Zenon, <2>1, <2>2 DEF IInv, TypeOK
<1>3. ASSUME NEW kept \in Partial(Value) PROVE modified_slots(kept, d) \in Partial(Value)
  <2>1. DOMAIN kept \cup DOMAIN d.writes \in SUBSET Key
    BY Zenon, <1>1, PartialFacts
  <2>2. modified_slots(kept, d) \in [DOMAIN kept \cup DOMAIN d.writes -> Value]
    BY Zenon, <1>1, PartialFacts DEF modified_slots
  <2> QED
    BY Zenon, <2>1, <2>2, PartialFacts
<1>4. overflow' \in [Addr -> Partial(Value)]
  <2>1. (IF overlay[a].deleted \/ d.code = "deployed" THEN Nothing ELSE overflow[a]) \in Partial(Value)
    BY Zenon, <1>1, PartialFacts
  <2>2. overflow' = [overflow EXCEPT ![a] =
           modified_slots(IF overlay[a].deleted \/ d.code = "deployed" THEN Nothing ELSE overflow[a], d)]
    BY Zenon, ModifiedStepFacts
  <2>3. modified_slots(IF overlay[a].deleted \/ d.code = "deployed" THEN Nothing ELSE overflow[a], d) \in Partial(Value)
    BY Zenon, <1>3, <2>1
  <2> QED
    BY Zenon, <2>2, <2>3 DEF IInv, TypeOK
<1>5. modified_in(ref[a], d) \in Leaf
  <2>1. (IF ref[a] = NoLeaf \/ d.code = "deployed" THEN EmptyRoot ELSE ref[a].root) \in Storage
    BY Zenon, <1>1, LeafFacts DEF Leaf
  <2>2. ASSUME NEW kept \in Storage
        PROVE  [k \in Key |-> IF k \in DOMAIN d.writes THEN d.writes[k] ELSE kept[k]] \in Storage
    BY Zenon, <1>1, PartialFacts DEF Storage
  <2>3. (IF d.code = "same" THEN IF ref[a] = NoLeaf THEN "none" ELSE ref[a].code ELSE d.code) \in Code
    BY Zenon, <1>1 DEF Leaf, Code
  <2> QED
    BY Zenon, <1>1, <2>1, <2>2, <2>3 DEF modified_in, Leaf
<1>6. ref' \in State
  <2>1. ref' = [ref EXCEPT ![a] = modified_in(ref[a], d)]
    BY Zenon, ModifiedStepFacts
  <2> QED
    BY Zenon, <1>5, <2>1 DEF IInv, TypeOK, State
<1>7. storage_wiped_' \subseteq Addr /\ loaded' \subseteq Addr \X Key
  BY Zenon, ModifiedStepFacts DEF IInv, TypeOK
<1> QED
  BY Zenon, <1>2, <1>4, <1>6, <1>7, ModifiedStepFacts DEF IInv, TypeOK, witness

\* What evmone was told of an account, and the slots it writes.
LEMMA Told ==
  ASSUME NEW a, NEW r \in Record, NEW d \in Diff, NEW read, evm_allows(get_account(a, r), read, d)
  PROVE  /\ DOMAIN d.writes \subseteq read
         /\ ~r.deleted => d.nonce >= r.nonce
         /\ d.code \in {"deployed", "delegation", "none"} => d.nonce = 1
         /\ DOMAIN d.writes # {} => d.nonce # 0 \/ (IF d.code # "same" THEN d.code ELSE revive_if_deleted(r).code) # "none"
<1>1. /\ DOMAIN d.writes \subseteq read /\ d.nonce >= get_account(a, r).nonce
      /\ d.code \in {"deployed", "delegation", "none"} => d.nonce = 1
      /\ DOMAIN d.writes # {} => d.nonce # 0 \/ code_after(get_account(a, r), d) # "none"
  BY Zenon DEF evm_allows
<1>2. CASE r.deleted
  <2>1. get_account(a, r) = NoAccount /\ revive_if_deleted(r).code = "none"
    BY Zenon, <1>2, Revived DEF get_account
  <2> QED
    BY Zenon, <1>1, <1>2, <2>1 DEF code_after
<1>3. CASE ~r.deleted
  <2>1. get_account(a, r).nonce = r.nonce /\ get_account(a, r).code = r.code /\ revive_if_deleted(r) = r
    BY Zenon, <1>3, Revived DEF get_account
  <2>2. r.code # "no account"
    BY Zenon DEF Record, Code
  <2>3. get_account(a, r) # NoAccount
    <3>1. NoAccount.code = "no account"
      BY Zenon DEF NoAccount
    <3> QED
      BY Zenon, <2>1, <2>2, <3>1
  <2> QED
    BY Zenon, <1>1, <1>3, <2>1, <2>3 DEF code_after
<1> QED
  BY Zenon, <1>2, <1>3

\* The leaf the rules have after a diff.
LEMMA ModifiedLeaf ==
  ASSUME NEW l, NEW d, NEW m, m = modified_in(l, d)
  PROVE  /\ m.nonce = d.nonce /\ m.balance = d.balance
         /\ m.code = IF d.code = "same" THEN IF l = NoLeaf THEN "none" ELSE l.code ELSE d.code
         /\ m.root = [k \in Key |-> IF k \in DOMAIN d.writes THEN d.writes[k]
                                    ELSE (IF l = NoLeaf \/ d.code = "deployed" THEN EmptyRoot ELSE l.root)[k]]
         /\ m = [nonce |-> m.nonce, balance |-> m.balance, code |-> m.code, root |-> m.root]
<1> DEFINE code == IF d.code = "same" THEN IF l = NoLeaf THEN "none" ELSE l.code ELSE d.code
           root == [k \in Key |-> IF k \in DOMAIN d.writes THEN d.writes[k]
                                  ELSE (IF l = NoLeaf \/ d.code = "deployed" THEN EmptyRoot ELSE l.root)[k]]
<1>1. m = [nonce |-> d.nonce, balance |-> d.balance, code |-> code, root |-> root]
  BY Zenon DEF modified_in
<1> HIDE DEF code, root
<1>2. m.nonce = d.nonce /\ m.balance = d.balance /\ m.code = code /\ m.root = root
  BY <1>1
<1> QED
  BY Zenon, <1>1, <1>2 DEF code, root

\* The account a diff modified fits what the rules make of it.
LEMMA ModifiedFits ==
  ASSUME IInv, NEW a \in Addr, NEW d \in Diff, ApplyModified(a, d), Fits(a)
  PROVE  Fits(a)'
<1> DEFINE r == overlay[a]
           live == revive_if_deleted(r)
           wipes == r.deleted \/ d.code = "deployed"
           kept == IF wipes THEN Nothing ELSE overflow[a]
<1>1. /\ r \in Record /\ r # NoRecord /\ ref[a] \in Leaf \cup {NoLeaf}
      /\ overflow[a] \in Partial(Value) /\ DOMAIN overflow[a] \subseteq Key
      /\ d \in Diff /\ d.nonce \in {0, 1} /\ d.code \in Code \cup {"same"} /\ DOMAIN d.writes \subseteq Key
  <2>1. r \in Record /\ r # NoRecord
    BY Zenon, ModifiedStepFacts
  <2>2. ref[a] \in Leaf \cup {NoLeaf}
    BY Zenon DEF IInv, TypeOK, State
  <2>3. overflow[a] \in Partial(Value)
    BY Zenon DEF IInv, TypeOK
  <2>4. d.nonce \in {0, 1} /\ d.code \in Code \cup {"same"} /\ d.writes \in Partial(Value)
    BY Zenon DEF Diff
  <2> QED
    BY Zenon, <2>1, <2>2, <2>3, <2>4, PartialFacts
<1>2. /\ overlay'[a] = modified_record(r, d) /\ overflow'[a] = modified_slots(kept, d)
      /\ ref'[a] = modified_in(ref[a], d) /\ loaded' = {} /\ pre' = pre /\ known' = known
      /\ known_slots' = known_slots /\ built' = built
      /\ a \in storage_wiped_' <=> (wipes \/ a \in storage_wiped_)
  <2>1. overlay' = [overlay EXCEPT ![a] = modified_record(r, d)] /\ overflow' = [overflow EXCEPT ![a] = modified_slots(kept, d)]
    BY Zenon, ModifiedStepFacts
  <2>2. ref' = [ref EXCEPT ![a] = modified_in(ref[a], d)] /\ loaded' = {} /\ UNCHANGED witness
        /\ storage_wiped_' = storage_wiped_ \cup (IF wipes THEN {a} ELSE {})
    BY Zenon, ModifiedStepFacts
  <2>3. overlay'[a] = modified_record(r, d) /\ overflow'[a] = modified_slots(kept, d) /\ ref'[a] = modified_in(ref[a], d)
    BY Zenon, <2>1, <2>2 DEF IInv, TypeOK, State
  <2> QED
    BY Zenon, <2>2, <2>3 DEF witness, built
<1>3. /\ DOMAIN d.writes \subseteq {k \in Key : <<a, k>> \in loaded}
      /\ ~r.deleted => d.nonce >= r.nonce
      /\ d.code \in {"deployed", "delegation", "none"} => d.nonce = 1
      /\ DOMAIN d.writes # {} => d.nonce # 0 \/ (IF d.code # "same" THEN d.code ELSE live.code) # "none"
  BY Zenon, <1>1, ModifiedStepFacts, Told
<1>4. /\ overlay'[a] # NoRecord /\ Live(a)' /\ ~Gone(a)' /\ a \in known'
      /\ overlay'[a].nonce = d.nonce /\ overlay'[a].balance = d.balance
      /\ overlay'[a].code = IF d.code # "same" THEN d.code ELSE live.code
      /\ overlay'[a].root = live.root
  <2>1. modified_record(r, d) \in Record /\ ~modified_record(r, d).deleted
        /\ modified_record(r, d).nonce = d.nonce /\ modified_record(r, d).balance = d.balance
        /\ modified_record(r, d).code = (IF d.code # "same" THEN d.code ELSE live.code)
        /\ modified_record(r, d).root = live.root
    BY Zenon, <1>1, ModifiedRecord
  <2>2. a \in known'
    BY Zenon, <1>1, <1>2 DEF Fits
  <2>3. overlay'[a] # NoRecord
    BY Zenon, <1>2, <2>1, RecordFacts
  <2> QED
    BY Zenon, <1>2, <2>1, <2>2, <2>3 DEF Live, Gone
<1>5. ~overlay'[a].modified =>
        /\ ~live.modified /\ d.code = "same" /\ DOMAIN d.writes = {} /\ live.nonce = d.nonce /\ live.balance = d.balance
  BY Zenon, <1>1, <1>2, ModifiedRecord
<1>6. /\ r.deleted => ref[a] = NoLeaf /\ live.code = "none" /\ live.modified
      /\ ~r.deleted => Live(a) /\ live = r /\ ref[a] # NoLeaf /\ ref[a] \in Leaf
                       /\ ref[a].nonce = r.nonce /\ ref[a].balance = r.balance /\ ref[a].code = r.code
  <2>1. CASE r.deleted
    BY Zenon, <1>1, <2>1, Revived DEF Fits, Gone
  <2>2. CASE ~r.deleted
    <3>1. Live(a) /\ live = r /\ ref[a].nonce = r.nonce /\ ref[a].balance = r.balance /\ ref[a].code = r.code
      BY Zenon, <1>1, <2>2, Revived DEF Fits, Live
    <3>2. r.code \in Code
      BY Zenon, <1>1 DEF Record
    <3> QED
      BY Zenon, <1>1, <2>2, <3>1, <3>2, LeafFacts
  <2> QED
    BY Zenon, <2>1, <2>2
<1>7. DOMAIN overflow'[a] = DOMAIN kept \cup DOMAIN d.writes
      /\ \A k \in DOMAIN overflow'[a] : overflow'[a][k] = IF k \in DOMAIN d.writes THEN d.writes[k] ELSE kept[k]
  BY Zenon, <1>2 DEF modified_slots
<1>8. DOMAIN kept = IF wipes THEN {} ELSE DOMAIN overflow[a]
  BY Zenon, PartialFacts
<1>9. /\ ref'[a].nonce = d.nonce /\ ref'[a].balance = d.balance
      /\ ref'[a].code = IF d.code = "same" THEN IF ref[a] = NoLeaf THEN "none" ELSE ref[a].code ELSE d.code
      /\ ref'[a].root = [k \in Key |-> IF k \in DOMAIN d.writes THEN d.writes[k]
                                       ELSE (IF ref[a] = NoLeaf \/ d.code = "deployed" THEN EmptyRoot ELSE ref[a].root)[k]]
      /\ ref'[a] = [nonce |-> ref'[a].nonce, balance |-> ref'[a].balance, code |-> ref'[a].code, root |-> ref'[a].root]
  <2>1. ref'[a] = modified_in(ref[a], d)
    BY Zenon, <1>2
  <2> QED
    BY <2>1, ModifiedLeaf
<1> HIDE DEF kept, live, wipes, r
<1>10. ref'[a].nonce = overlay'[a].nonce /\ ref'[a].balance = overlay'[a].balance /\ ref'[a].code = overlay'[a].code
  BY Zenon, <1>4, <1>6, <1>9
<1>11. a \notin storage_wiped_' => a \in built' /\ overlay'[a].root = pre'[a].root
  BY Zenon, <1>2, <1>4, <1>6 DEF Fits, wipes, r
<1>12. ASSUME NEW k \in Key
       PROVE  ref'[a].root[k] = IF k \in DOMAIN overflow'[a] THEN overflow'[a][k]
                                ELSE IF a \in storage_wiped_' THEN 0 ELSE pre'[a].root[k]
  <2>1. CASE k \in DOMAIN d.writes
    BY Zenon, <1>7, <1>9, <2>1
  <2>2. CASE k \notin DOMAIN d.writes /\ wipes
    <3>1. ref[a] = NoLeaf \/ d.code = "deployed"
      BY Zenon, <1>6, <2>2 DEF wipes
    <3>2. ref'[a].root[k] = EmptyRoot[k]
      BY Zenon, <1>9, <2>2, <3>1
    <3>3. k \notin DOMAIN overflow'[a] /\ a \in storage_wiped_'
      BY Zenon, <1>2, <1>7, <1>8, <2>2
    <3> QED
      BY Zenon, <3>2, <3>3, LeafFacts
  <2>3. CASE k \notin DOMAIN d.writes /\ ~wipes
    <3>1. /\ ref[a] # NoLeaf /\ d.code # "deployed" /\ kept = overflow[a]
          /\ ref[a].root[k] = IF k \in DOMAIN overflow[a] THEN overflow[a][k]
                              ELSE IF a \in storage_wiped_ THEN 0 ELSE pre[a].root[k]
      BY Zenon, <1>6, <2>3 DEF wipes, kept, Fits
    <3> QED
      BY Zenon, <1>2, <1>7, <1>9, <2>3, <3>1
  <2> QED
    BY Zenon, <2>1, <2>2, <2>3
<1>13. ~overlay'[a].modified => ref'[a] = pre'[a] /\ DOMAIN overflow'[a] = {} /\ a \notin storage_wiped_'
  <2> SUFFICES ASSUME ~overlay'[a].modified
               PROVE  ref'[a] = pre'[a] /\ DOMAIN overflow'[a] = {} /\ a \notin storage_wiped_'
      BY Zenon
  <2>1. ~r.deleted /\ ~wipes /\ DOMAIN d.writes = {} /\ d.code = "same" /\ r.nonce = d.nonce /\ r.balance = d.balance
    BY Zenon, <1>5, <1>6 DEF wipes
  <2>2. ref[a] = pre[a] /\ DOMAIN overflow[a] = {} /\ a \notin storage_wiped_ /\ ref[a] \in Leaf
    BY Zenon, <1>5, <1>6, <2>1 DEF Fits, r
  <2>3. ref'[a].root = ref[a].root
    BY Zenon, <1>6, <1>9, <2>1, <2>2 DEF Leaf, Storage
  <2>4. ref'[a] = ref[a]
    BY Zenon, <1>6, <1>9, <2>1, <2>2, <2>3 DEF Leaf
  <2> QED
    BY Zenon, <1>2, <1>7, <1>8, <2>1, <2>2, <2>4
<1>14. DOMAIN overflow'[a] # {} => overlay'[a].nonce # 0 \/ overlay'[a].code # "none"
  <2>1. CASE DOMAIN d.writes # {}
    BY Zenon, <1>3, <1>4, <2>1
  <2>2. CASE DOMAIN d.writes = {} /\ wipes
    BY Zenon, <1>7, <1>8, <2>2
  <2>3. CASE DOMAIN d.writes = {} /\ ~wipes
    <3>1. DOMAIN overflow[a] # {} => r.nonce # 0 \/ r.code # "none"
      BY Zenon, <1>6, <2>3 DEF wipes, Fits, r
    <3>2. r.nonce \in {0, 1} /\ ~r.deleted
      BY Zenon, <1>1, <2>3 DEF wipes, Record
    <3>3. DOMAIN overflow'[a] = DOMAIN overflow[a]
      BY Zenon, <1>7, <1>8, <2>3
    <3>4. live.code = r.code /\ d.nonce >= r.nonce
      BY Zenon, <1>3, <1>6, <3>2
    <3>5. CASE d.code = "same"
      <4>1. d.nonce # 0 \/ r.nonce = 0
        BY <1>1, <3>2, <3>4
      <4> QED
        BY Zenon, <1>4, <3>1, <3>3, <3>4, <3>5, <4>1
    <3>6. CASE d.code # "same"
      <4>1. d.nonce = 1
        BY Zenon, <1>1, <1>3, <3>6 DEF Code
      <4>2. d.nonce # 0
        BY <4>1
      <4> QED
        BY Zenon, <1>4, <4>2
    <3> QED
      BY Zenon, <3>5, <3>6
  <2> QED
    BY Zenon, <2>1, <2>2, <2>3
<1>15. \A k \in DOMAIN overflow'[a] : Decided(a, k)'
  <2>1. \A k \in DOMAIN overflow'[a] : wipes \/ Decided(a, k)
    BY Zenon, <1>1, <1>3, <1>7, <1>8 DEF Fits
  <2> QED
    BY Zenon, <1>2, <2>1 DEF Decided
<1> QED
  BY Zenon, <1>2, <1>4, <1>10, <1>11, <1>12, <1>13, <1>14, <1>15 DEF Fits

LEMMA ApplyModifiedStep ==
  ASSUME IInv, NEW a \in Addr, NEW d \in Diff, ApplyModified(a, d)
  PROVE  IInv'
<1>1. /\ verdict = "running" /\ phase = "transactions"
      /\ overlay' = [overlay EXCEPT ![a] = modified_record(overlay[a], d)]
      /\ overflow' = [overflow EXCEPT ![a] =
           modified_slots(IF overlay[a].deleted \/ d.code = "deployed" THEN Nothing ELSE overflow[a], d)]
      /\ storage_wiped_' = storage_wiped_ \cup (IF overlay[a].deleted \/ d.code = "deployed" THEN {a} ELSE {})
      /\ ref' = [ref EXCEPT ![a] = modified_in(ref[a], d)]
      /\ loaded' = {}
      /\ UNCHANGED <<witness, unconfirmed, agreed, touched_, phase, verdict>>
  BY Zenon, ModifiedStepFacts
<1>2. SoundInv'
  <2> SUFFICES ASSUME ~unconfirmed' PROVE agreed' /\ TouchedInv' /\ \A b \in Addr : Fits(b)'
      BY Zenon DEF SoundInv
  <2>1. agreed /\ \A b \in Addr : Fits(b)
    BY Zenon, <1>1 DEF IInv, SoundInv
  <2>2. ASSUME NEW b \in Addr PROVE Fits(b)'
    <3>1. CASE b = a
      BY Zenon, <2>1, <3>1, ModifiedFits
    <3>2. CASE b # a
      <4>1. /\ overlay'[b] = overlay[b] /\ overflow'[b] = overflow[b] /\ ref'[b] = ref[b]
            /\ b \in storage_wiped_' <=> b \in storage_wiped_
        BY Zenon, <1>1, <3>2 DEF IInv, TypeOK, State
      <4> QED
        BY Zenon, <1>1, <2>1, <4>1, Frame
    <3> QED
      BY Zenon, <3>1, <3>2
  <2>3. TouchedInv'
    BY Zenon, <1>1 DEF TouchedInv
  <2> QED
    BY Zenon, <1>1, <2>1, <2>2, <2>3
<1>3. CompleteInv'
  BY Zenon, <1>1 DEF IInv, CompleteInv, all_nodes, witness
<1> QED
  BY Zenon, <1>1, <1>2, <1>3, ApplyModifiedTypes, Running DEF IInv

\* An account that is destructed.
LEMMA GoneFits ==
  ASSUME NEW a \in Addr, UNCHANGED witness, a \in known, overlay'[a] # NoRecord, overlay'[a].deleted,
         overflow'[a] = Nothing, a \in storage_wiped_', ref'[a] = NoLeaf
  PROVE  Fits(a)'
<1>1. Gone(a)' /\ ~Live(a)' /\ a \in known' /\ DOMAIN overflow'[a] = {}
  BY Zenon, PartialFacts DEF Gone, Live, witness
<1>2. \A k : Decided(a, k)'
  BY Zenon DEF Decided
<1> QED
  BY Zenon, <1>1, <1>2 DEF Fits

LEMMA ApplyDeletedStep ==
  ASSUME IInv, NEW a \in Addr, ApplyDeleted(a)
  PROVE  IInv'
<1>1. /\ verdict = "running" /\ phase = "transactions" /\ overlay[a] # NoRecord
      /\ ref' = [ref EXCEPT ![a] = NoLeaf] /\ touched_' = touched_ \cup {a} /\ loaded' = {}
      /\ storage_wiped_' = storage_wiped_ \cup {a}
      /\ overflow' = [b \in Addr |-> IF b = a THEN Nothing ELSE overflow[b]]
      /\ UNCHANGED <<witness, unconfirmed, agreed, phase, verdict>>
  BY Zenon DEF ApplyDeleted, executing, destruct, end_transaction
<1>2. overlay' = [b \in Addr |-> IF b # a THEN overlay[b] ELSE [overlay[a] EXCEPT !.deleted = TRUE]]
  BY Zenon, <1>1 DEF ApplyDeleted, destruct
<1>3. overlay[a] \in Record /\ [overlay[a] EXCEPT !.deleted = TRUE] \in Record
  <2>1. overlay[a] \in Record
    BY Zenon, <1>1 DEF IInv, TypeOK
  <2> QED
    BY Zenon, <2>1 DEF Record
<1>4. TypeOK'
  <2>1. overlay' \in [Addr -> Record \cup {NoRecord}]
    BY Zenon, <1>2, <1>3 DEF IInv, TypeOK
  <2>2. overflow' \in [Addr -> Partial(Value)] /\ ref' \in State
    BY Zenon, <1>1, PartialFacts DEF IInv, TypeOK, State
  <2> QED
    BY Zenon, <1>1, <2>1, <2>2 DEF IInv, TypeOK, witness
<1>5. SoundInv'
  <2> SUFFICES ASSUME ~unconfirmed' PROVE agreed' /\ TouchedInv' /\ \A b \in Addr : Fits(b)'
      BY Zenon DEF SoundInv
  <2>1. agreed /\ \A b \in Addr : Fits(b)
    BY Zenon, <1>1 DEF IInv, SoundInv
  <2>2. ASSUME NEW b \in Addr PROVE Fits(b)'
    <3>1. CASE b = a
      <4>1. overlay'[a] # NoRecord /\ overlay'[a].deleted
        BY Zenon, <1>2, <1>3, RecordFacts DEF Record
      <4>2. a \in known /\ overflow'[a] = Nothing /\ a \in storage_wiped_' /\ ref'[a] = NoLeaf
        BY Zenon, <1>1, <2>1 DEF Fits, IInv, TypeOK, State
      <4> QED
        BY Zenon, <1>1, <3>1, <4>1, <4>2, GoneFits
    <3>2. CASE b # a
      <4>1. /\ overlay'[b] = overlay[b] /\ overflow'[b] = overflow[b] /\ ref'[b] = ref[b]
            /\ b \in storage_wiped_' <=> b \in storage_wiped_
        BY Zenon, <1>1, <1>2, <3>2 DEF IInv, TypeOK, State
      <4> QED
        BY Zenon, <1>1, <2>1, <4>1, Frame
    <3> QED
      BY Zenon, <3>1, <3>2
  <2>3. TouchedInv'
    BY Zenon, <1>1 DEF TouchedInv
  <2> QED
    BY Zenon, <1>1, <2>1, <2>2, <2>3
<1>6. CompleteInv'
  BY Zenon, <1>1 DEF IInv, CompleteInv, all_nodes, witness
<1> QED
  BY Zenon, <1>1, <1>4, <1>5, <1>6, Running DEF IInv

LEMMA EndBlockStep ==
  ASSUME IInv, EndBlock
  PROVE  IInv'
<1> DEFINE D == {a \in touched_ : overlay[a] # NoRecord /\ is_dead(overlay[a])}
<1>1. /\ verdict = "running" /\ phase = "withdrawals" /\ phase' = "executed"
      /\ UNCHANGED <<witness, unconfirmed, touched_, loaded, ref, agreed, verdict>>
      /\ storage_wiped_' = storage_wiped_ \cup D
      /\ overflow' = [a \in Addr |-> IF a \in D THEN Nothing ELSE overflow[a]]
  BY Zenon DEF EndBlock, destruct
<1>2. overlay' = [a \in Addr |-> IF a \in D THEN [overlay[a] EXCEPT !.deleted = TRUE] ELSE overlay[a]]
  BY Zenon DEF EndBlock, destruct
<1>3. /\ D \subseteq Addr
      /\ \A a \in D : overlay[a] # NoRecord /\ is_dead(overlay[a]) /\ overlay[a] \in Record
                      /\ [overlay[a] EXCEPT !.deleted = TRUE] \in Record
  <2>1. D \subseteq Addr /\ \A a \in D : overlay[a] # NoRecord /\ is_dead(overlay[a]) /\ overlay[a] \in Record
    BY Zenon DEF IInv, TypeOK
  <2> QED
    BY Zenon, <2>1 DEF Record
<1>4. TypeOK'
  <2>1. overlay' \in [Addr -> Record \cup {NoRecord}]
    BY Zenon, <1>2, <1>3 DEF IInv, TypeOK
  <2>2. overflow' \in [Addr -> Partial(Value)]
    BY Zenon, <1>1, PartialFacts DEF IInv, TypeOK
  <2> QED
    BY Zenon, <1>1, <1>3, <2>1, <2>2 DEF IInv, TypeOK, witness
<1>5. SoundInv'
  <2> SUFFICES ASSUME ~unconfirmed' PROVE agreed' /\ TouchedInv' /\ \A b \in Addr : Fits(b)'
      BY Zenon DEF SoundInv
  <2>1. agreed /\ TouchedInv /\ \A b \in Addr : Fits(b)
    BY Zenon, <1>1 DEF IInv, SoundInv
  <2>2. \A b \in D : Gone(b)
    BY Zenon, <1>1, <1>3, <2>1 DEF TouchedInv, Live, Gone, is_dead
  <2>3. ASSUME NEW b \in Addr PROVE Fits(b)'
    <3>1. CASE b \in D
      <4>1. overlay'[b] # NoRecord /\ overlay'[b].deleted
        BY Zenon, <1>2, <1>3, <3>1, RecordFacts DEF Record
      <4>2. b \in known /\ overflow'[b] = Nothing /\ b \in storage_wiped_' /\ ref'[b] = NoLeaf
        BY Zenon, <1>1, <1>3, <2>1, <2>2, <3>1 DEF Fits
      <4> QED
        BY Zenon, <1>1, <4>1, <4>2, GoneFits
    <3>2. CASE b \notin D
      <4>1. /\ overlay'[b] = overlay[b] /\ overflow'[b] = overflow[b]
            /\ b \in storage_wiped_' <=> b \in storage_wiped_
        BY Zenon, <1>1, <1>2, <3>2
      <4> QED
        BY Zenon, <1>1, <2>1, <4>1, Frame
    <3> QED
      BY Zenon, <3>1, <3>2
  <2>4. TouchedInv'
    <3> SUFFICES ASSUME NEW b \in touched_, Live(b)' PROVE ~is_empty(overlay'[b])
        BY Zenon, <1>1 DEF TouchedInv
    <3>1. b \in Addr
      BY Zenon DEF IInv, TypeOK
    <3>2. b \notin D
      BY Zenon, <1>2, <1>3, <3>1, RecordFacts DEF Live, Record
    <3>3. overlay'[b] = overlay[b] /\ Live(b)
      BY Zenon, <1>2, <3>1, <3>2 DEF Live
    <3> QED
      BY Zenon, <1>1, <2>1, <3>3 DEF TouchedInv
  <2> QED
    BY Zenon, <1>1, <2>1, <2>3, <2>4
<1>6. CompleteInv'
  BY Zenon, <1>1 DEF IInv, CompleteInv, all_nodes, witness
<1> QED
  BY Zenon, <1>1, <1>4, <1>5, <1>6, Running DEF IInv

-----------------------------------------------------------------------------
(* Withdrawals. *)

\* The record add_to_balance leaves of r.
paid_record(r, amount) ==
  [revive_if_deleted(r) EXCEPT !.balance = @ + amount, !.modified = @ \/ amount # 0]

LEMMA PaidRecord ==
  ASSUME NEW r \in Record, NEW amount \in {0, 1}, revive_if_deleted(r).balance + amount <= MaxBalance
  PROVE  /\ paid_record(r, amount) \in Record /\ ~paid_record(r, amount).deleted
         /\ paid_record(r, amount).nonce = revive_if_deleted(r).nonce
         /\ paid_record(r, amount).balance = revive_if_deleted(r).balance + amount
         /\ paid_record(r, amount).code = revive_if_deleted(r).code
         /\ paid_record(r, amount).root = revive_if_deleted(r).root
         /\ ~paid_record(r, amount).modified => amount = 0 /\ ~revive_if_deleted(r).modified
<1> DEFINE live == revive_if_deleted(r)
<1>1. live \in Record /\ ~live.deleted
  BY Zenon, Revived
<1>2. live.balance \in 0..MaxBalance /\ live.balance + amount \in 0..MaxBalance
  BY <1>1, BoundsAssumption DEF Record
<1>3. paid_record(r, amount) = [live EXCEPT !.balance = live.balance + amount, !.modified = live.modified \/ amount # 0]
  BY Zenon, <1>1 DEF paid_record, Record
<1> HIDE DEF live
<1>4. paid_record(r, amount) \in Record
  BY Zenon, <1>1, <1>2, <1>3 DEF Record
<1> QED
  BY Zenon, <1>1, <1>3, <1>4 DEF Record, live

\* The leaf the rules have after a withdrawal.
LEMMA PaidLeaf ==
  ASSUME NEW l \in Leaf \cup {NoLeaf}, NEW amount \in {0, 1}, l.balance + amount <= MaxBalance
  PROVE  /\ withdrawn_in(l, amount) \in Leaf \cup {NoLeaf}
         /\ l = NoLeaf => withdrawn_in(l, amount) =
              IF amount = 0 THEN NoLeaf ELSE [nonce |-> 0, balance |-> amount, code |-> "none", root |-> EmptyRoot]
         /\ l # NoLeaf => withdrawn_in(l, amount) =
              IF l.nonce = 0 /\ l.code = "none" /\ l.balance + amount = 0 THEN NoLeaf
              ELSE [nonce |-> l.nonce, balance |-> l.balance + amount, code |-> l.code, root |-> l.root]
<1>1. CASE l = NoLeaf
  BY Zenon, <1>1, LeafFacts DEF withdrawn_in, is_empty, Leaf, Code
<1>2. CASE l # NoLeaf
  <2>1. l \in Leaf /\ l.balance + amount \in 0..MaxBalance
    BY <1>2, BoundsAssumption DEF Leaf
  <2>2. [l EXCEPT !.balance = @ + amount]
          = [nonce |-> l.nonce, balance |-> l.balance + amount, code |-> l.code, root |-> l.root]
    BY <2>1 DEF Leaf
  <2>3. withdrawn_in(l, amount) =
              IF l.nonce = 0 /\ l.code = "none" /\ l.balance + amount = 0 THEN NoLeaf
              ELSE [nonce |-> l.nonce, balance |-> l.balance + amount, code |-> l.code, root |-> l.root]
    BY Zenon, <1>2, <2>2 DEF withdrawn_in, is_empty
  <2>4. [nonce |-> l.nonce, balance |-> l.balance + amount, code |-> l.code, root |-> l.root] \in Leaf
    BY Zenon, <2>1 DEF Leaf
  <2> QED
    BY Zenon, <1>2, <2>3, <2>4
<1> QED
  BY Zenon, <1>1, <1>2

\* The records a withdrawal to a leaves, before and after destruct_dead_among.
paid_overlay(a, amount) == [overlay EXCEPT ![a] = paid_record(find_or_create_account(a), amount)]
dead_among(P, T) == {b \in T : P[b] # NoRecord /\ is_dead(P[b])}

\* What a loaded record says of the account it is loaded for.
LEMMA LoadedSays ==
  ASSUME TypeOK, NEW a \in Addr, Fits(a), ~create_unconfirmed(a), NEW r, r = find_or_create_account(a)
  PROVE  /\ a \in known /\ r \in Record
         /\ r.deleted => ref[a] = NoLeaf
         /\ ~r.deleted =>
              /\ ref[a] \in Leaf /\ ref[a] # NoLeaf
              /\ ref[a].nonce = r.nonce /\ ref[a].balance = r.balance /\ ref[a].code = r.code
              /\ a \notin storage_wiped_ => a \in built /\ r.root = pre[a].root
              /\ \A k \in Key : ref[a].root[k] = IF k \in DOMAIN overflow[a] THEN overflow[a][k]
                                                 ELSE IF a \in storage_wiped_ THEN 0 ELSE pre[a].root[k]
              /\ ~r.modified => ref[a] = pre[a] /\ DOMAIN overflow[a] = {} /\ a \notin storage_wiped_
              /\ DOMAIN overflow[a] # {} => r.nonce # 0 \/ r.code # "none"
<1>1. r \in Record /\ ref[a] \in Leaf \cup {NoLeaf}
  BY Zenon, Loaded DEF TypeOK, State
<1>2. CASE overlay[a] # NoRecord
  <2>1. r = overlay[a]
    BY Zenon, <1>2, Loaded
  <2>2. CASE r.deleted
    BY Zenon, <1>1, <1>2, <2>1, <2>2 DEF Fits, Gone
  <2>3. CASE ~r.deleted
    <3>1. Live(a)
      BY Zenon, <1>2, <2>1, <2>3 DEF Live
    <3>2. ref[a].code = r.code /\ r.code \in Code
      BY Zenon, <1>1, <2>1, <3>1 DEF Fits, Record
    <3>3. ref[a] \in Leaf /\ ref[a] # NoLeaf
      BY Zenon, <1>1, <3>2, LeafFacts
    <3> QED
      BY Zenon, <1>1, <1>2, <2>1, <2>3, <3>1, <3>3 DEF Fits
  <2> QED
    BY Zenon, <2>2, <2>3
<1>3. CASE overlay[a] = NoRecord /\ a \in built
  <2>1. r = record_of(pre[a]) /\ a \in known /\ pre[a] \in Leaf
    BY Zenon, <1>3, Loaded
  <2>2. ref[a] = pre[a] /\ DOMAIN overflow[a] = {} /\ a \notin storage_wiped_
    BY Zenon, <1>3 DEF Fits
  <2>3. /\ r.nonce = pre[a].nonce /\ r.balance = pre[a].balance /\ r.code = pre[a].code /\ r.root = pre[a].root
        /\ ~r.deleted
    BY <2>1 DEF record_of
  <2>4. ref[a] \in Leaf /\ ref[a] # NoLeaf /\ \A k : k \notin DOMAIN overflow[a]
    BY Zenon, <2>1, <2>2, LeafFacts
  <2> QED
    BY Zenon, <1>1, <1>3, <2>1, <2>2, <2>3, <2>4
<1>4. CASE overlay[a] = NoRecord /\ a \notin built
  <2>1. r = materialize_absent_account_ /\ a \in known /\ pre[a] = NoLeaf
    BY Zenon, <1>4, Loaded
  <2>2. ref[a] = pre[a]
    BY Zenon, <1>4 DEF Fits
  <2>3. r.deleted
    BY <2>1 DEF materialize_absent_account_
  <2> QED
    BY Zenon, <1>1, <2>1, <2>2, <2>3
<1> QED
  BY Zenon, <1>2, <1>3, <1>4

\* The account paid fits what the rules make of it: gone again if it is dead.
LEMMA PaidFits ==
  ASSUME IInv, NEW a \in Addr, NEW amount \in {0, 1}, Withdrawal(a, amount), Fits(a), ~create_unconfirmed(a)
  PROVE  Fits(a)'
<1> DEFINE r == find_or_create_account(a)
           live == revive_if_deleted(r)
           P == paid_overlay(a, amount)
           dead == dead_among(P, touched_ \cup {a})
<1>0. P = paid_overlay(a, amount) /\ dead = dead_among(P, touched_ \cup {a})
  BY Zenon
<1> HIDE DEF P, dead
<1>1. /\ live.balance + amount <= MaxBalance /\ ref[a].balance + amount <= MaxBalance
      /\ overlay' = [b \in Addr |-> IF b \in dead THEN [P[b] EXCEPT !.deleted = TRUE] ELSE P[b]]
      /\ overflow' = [b \in Addr |-> IF b \in dead \cup wiped_by_revival(r, a) THEN Nothing ELSE overflow[b]]
      /\ storage_wiped_' = storage_wiped_ \cup dead \cup wiped_by_revival(r, a)
      /\ ref' = [ref EXCEPT ![a] = withdrawn_in(ref[a], amount)]
      /\ loaded' = {} /\ UNCHANGED witness
  BY <1>0 DEF Withdrawal, paid_overlay, paid_record, dead_among, end_transaction
<1>2. P[a] = paid_record(r, amount)
  BY Zenon, <1>0 DEF paid_overlay, IInv, TypeOK
<1>3. r \in Record /\ live \in Record /\ ref[a] \in Leaf \cup {NoLeaf} /\ live.balance \in Nat
  <2>1. r \in Record
    BY Zenon, Loaded DEF IInv
  <2>2. live \in Record
    BY Zenon, <2>1, Revived
  <2>3. live.balance \in 0..MaxBalance
    BY Zenon, <2>2 DEF Record
  <2>4. live.balance \in Nat
    BY <2>3, BoundsAssumption
  <2>5. ref[a] \in Leaf \cup {NoLeaf}
    BY Zenon DEF IInv, TypeOK, State
  <2> QED
    BY Zenon, <2>1, <2>2, <2>4, <2>5
<1>4. /\ P[a] \in Record /\ P[a] # NoRecord /\ ~P[a].deleted
      /\ P[a].nonce = live.nonce /\ P[a].balance = live.balance + amount
      /\ P[a].code = live.code /\ P[a].root = live.root
      /\ ~P[a].modified => amount = 0 /\ ~live.modified
  BY <1>1, <1>2, <1>3, PaidRecord, RecordFacts
<1>5. a \in dead <=> is_empty(P[a])
  BY Zenon, <1>0, <1>4 DEF dead_among, is_dead
<1>6. ref'[a] = withdrawn_in(ref[a], amount)
  BY Zenon, <1>1 DEF IInv, TypeOK, State
<1>7. /\ ref[a] = NoLeaf => ref'[a] =
           IF amount = 0 THEN NoLeaf ELSE [nonce |-> 0, balance |-> amount, code |-> "none", root |-> EmptyRoot]
      /\ ref[a] # NoLeaf => ref'[a] =
           IF ref[a].nonce = 0 /\ ref[a].code = "none" /\ ref[a].balance + amount = 0 THEN NoLeaf
           ELSE [nonce |-> ref[a].nonce, balance |-> ref[a].balance + amount, code |-> ref[a].code, root |-> ref[a].root]
  BY Zenon, <1>1, <1>3, <1>6, PaidLeaf
<1>8. /\ a \in known /\ (r.deleted => ref[a] = NoLeaf)
      /\ ~r.deleted =>
              /\ ref[a] \in Leaf /\ ref[a] # NoLeaf
              /\ ref[a].nonce = r.nonce /\ ref[a].balance = r.balance /\ ref[a].code = r.code
              /\ a \notin storage_wiped_ => a \in built /\ r.root = pre[a].root
              /\ \A k \in Key : ref[a].root[k] = IF k \in DOMAIN overflow[a] THEN overflow[a][k]
                                                 ELSE IF a \in storage_wiped_ THEN 0 ELSE pre[a].root[k]
              /\ ~r.modified => ref[a] = pre[a] /\ DOMAIN overflow[a] = {} /\ a \notin storage_wiped_
              /\ DOMAIN overflow[a] # {} => r.nonce # 0 \/ r.code # "none"
  BY Zenon, LoadedSays DEF IInv
<1>9. /\ ~r.deleted => live = r
      /\ r.deleted => live.nonce = 0 /\ live.balance = 0 /\ live.code = "none" /\ live.modified
  BY Zenon, <1>3, Revived
<1>10. wiped_by_revival(r, a) = IF r.deleted THEN {a} ELSE {}
  BY Zenon DEF wiped_by_revival
<1>11. overlay'[a] = IF a \in dead THEN [P[a] EXCEPT !.deleted = TRUE] ELSE P[a]
  BY Zenon, <1>1
<1> HIDE DEF r, live
<1>12. CASE is_empty(P[a])
  <2>1. ref'[a] = NoLeaf
    <3>1. CASE r.deleted
      <4>1. ref[a] = NoLeaf /\ live.balance = 0 /\ P[a].balance = live.balance + amount /\ P[a].balance = 0
        BY Zenon, <1>4, <1>8, <1>9, <1>12, <3>1 DEF is_empty
      <4>2. amount = 0
        BY <4>1
      <4> QED
        BY Zenon, <1>7, <4>1, <4>2
    <3>2. CASE ~r.deleted
      BY Zenon, <1>4, <1>7, <1>8, <1>9, <1>12, <3>2 DEF is_empty
    <3> QED
      BY Zenon, <3>1, <3>2
  <2>2. overlay'[a] = [P[a] EXCEPT !.deleted = TRUE]
    BY Zenon, <1>5, <1>11, <1>12
  <2>3. overlay'[a] \in Record /\ overlay'[a].deleted
    BY Zenon, <1>4, <2>2 DEF Record
  <2>4. overflow'[a] = Nothing /\ a \in storage_wiped_'
    BY Zenon, <1>1, <1>5, <1>12
  <2> QED
    BY Zenon, <1>1, <1>8, <2>1, <2>3, <2>4, RecordFacts, GoneFits
<1>13. CASE ~is_empty(P[a])
  <2>1. overlay'[a] = P[a] /\ a \notin dead
    BY Zenon, <1>5, <1>11, <1>13
  <2>2. Live(a)' /\ ~Gone(a)' /\ pre' = pre /\ a \in known' /\ built' = built /\ known_slots' = known_slots
    BY Zenon, <1>1, <1>4, <1>8, <2>1 DEF Live, Gone, witness, built
  <2>3. CASE r.deleted
    <3>1. /\ overflow'[a] = Nothing /\ DOMAIN overflow'[a] = {} /\ a \in storage_wiped_'
      BY Zenon, <1>1, <1>10, <2>3, PartialFacts
    <3>2. P[a].balance = amount /\ P[a].nonce = 0 /\ P[a].code = "none" /\ P[a].modified /\ amount = 1
      <4>1. /\ P[a].nonce = 0 /\ P[a].code = "none" /\ P[a].modified
            /\ P[a].balance = live.balance + amount /\ live.balance = 0
        BY Zenon, <1>4, <1>9, <2>3
      <4>2. P[a].balance = amount
        BY <4>1
      <4> QED
        BY Zenon, <1>13, <4>1, <4>2 DEF is_empty
    <3>3. ref'[a] = [nonce |-> 0, balance |-> amount, code |-> "none", root |-> EmptyRoot]
      <4>1. ref[a] = NoLeaf
        BY Zenon, <1>8, <2>3
      <4>2. amount # 0
        BY <3>2
      <4> QED
        BY Zenon, <1>7, <4>1, <4>2
    <3>4. /\ ref'[a].nonce = P[a].nonce /\ ref'[a].balance = P[a].balance /\ ref'[a].code = P[a].code
          /\ \A k \in Key : ref'[a].root[k] = 0
      <4>1. ref'[a].nonce = 0 /\ ref'[a].balance = amount /\ ref'[a].code = "none" /\ ref'[a].root = EmptyRoot
        BY <3>3
      <4> QED
        BY Zenon, <3>2, <4>1, LeafFacts
    <3> QED
      BY Zenon, <1>1, <1>4, <2>1, <2>2, <3>1, <3>2, <3>4 DEF Fits
  <2>4. CASE ~r.deleted
    <3>1. overflow'[a] = overflow[a] /\ (a \in storage_wiped_' <=> a \in storage_wiped_)
      BY Zenon, <1>1, <1>10, <2>1, <2>4
    <3>2. ref'[a] = [nonce |-> ref[a].nonce, balance |-> ref[a].balance + amount, code |-> ref[a].code, root |-> ref[a].root]
      <4>1. ref[a] # NoLeaf /\ ref[a].nonce = r.nonce /\ ref[a].balance = r.balance /\ ref[a].code = r.code /\ live = r
        BY Zenon, <1>8, <1>9, <2>4
      <4>2. ~(ref[a].nonce = 0 /\ ref[a].code = "none" /\ ref[a].balance + amount = 0)
        BY Zenon, <1>4, <1>13, <4>1 DEF is_empty
      <4> QED
        BY Zenon, <1>7, <4>1, <4>2
    <3>3. \A k \in DOMAIN overflow'[a] : Decided(a, k)'
      BY Zenon, <2>2, <3>1 DEF Fits, Decided
    <3>4. ~P[a].modified => ref'[a] = ref[a]
      <4> SUFFICES ASSUME ~P[a].modified PROVE ref'[a] = ref[a]
          BY Zenon
      <4>1. amount = 0 /\ ref[a] \in Leaf
        BY Zenon, <1>4, <1>8, <2>4
      <4>2. ref[a].balance \in 0..MaxBalance
        BY Zenon, <4>1 DEF Leaf
      <4>3. ref[a].balance + amount = ref[a].balance
        BY <4>1, <4>2, BoundsAssumption
      <4>4. ref[a] = [nonce |-> ref[a].nonce, balance |-> ref[a].balance, code |-> ref[a].code, root |-> ref[a].root]
        BY Zenon, <4>1 DEF Leaf
      <4> QED
        BY Zenon, <3>2, <4>3, <4>4
    <3>5. ref'[a].nonce = P[a].nonce /\ ref'[a].balance = P[a].balance /\ ref'[a].code = P[a].code /\ ref'[a].root = ref[a].root
      <4>1. /\ ref'[a].nonce = ref[a].nonce /\ ref'[a].balance = ref[a].balance + amount
            /\ ref'[a].code = ref[a].code /\ ref'[a].root = ref[a].root
        BY <3>2
      <4>2. live = r /\ ref[a].nonce = r.nonce /\ ref[a].balance = r.balance /\ ref[a].code = r.code
        BY Zenon, <1>8, <1>9, <2>4
      <4>3. P[a].nonce = live.nonce /\ P[a].balance = live.balance + amount /\ P[a].code = live.code
        BY Zenon, <1>4
      <4> QED
        BY Zenon, <4>1, <4>2, <4>3
    <3>6. a \notin storage_wiped_' => a \in built' /\ overlay'[a].root = pre'[a].root
      BY Zenon, <1>4, <1>8, <1>9, <2>1, <2>2, <2>4, <3>1
    <3>7. \A k \in Key : ref'[a].root[k] = IF k \in DOMAIN overflow'[a] THEN overflow'[a][k]
                                           ELSE IF a \in storage_wiped_' THEN 0 ELSE pre'[a].root[k]
      BY Zenon, <1>8, <2>2, <2>4, <3>1, <3>5
    <3>8. ~overlay'[a].modified => ref'[a] = pre'[a] /\ DOMAIN overflow'[a] = {} /\ a \notin storage_wiped_'
      BY Zenon, <1>4, <1>8, <1>9, <2>1, <2>2, <2>4, <3>1, <3>4
    <3>9. DOMAIN overflow'[a] # {} => overlay'[a].nonce # 0 \/ overlay'[a].code # "none"
      BY Zenon, <1>4, <1>8, <1>9, <2>1, <2>4, <3>1
    <3> QED
      BY Zenon, <1>1, <1>4, <2>1, <2>2, <3>3, <3>5, <3>6, <3>7, <3>8, <3>9 DEF Fits
  <2> QED
    BY Zenon, <2>3, <2>4
<1> QED
  BY Zenon, <1>12, <1>13

LEMMA WithdrawalStep ==
  ASSUME IInv, NEW a \in Addr, NEW amount \in {0, 1}, Withdrawal(a, amount)
  PROVE  IInv'
<1> DEFINE r == find_or_create_account(a)
           P == paid_overlay(a, amount)
           dead == dead_among(P, touched_ \cup {a})
<1>0. P = paid_overlay(a, amount) /\ dead = dead_among(P, touched_ \cup {a})
  BY Zenon
<1> HIDE DEF P, dead
<1>1. /\ verdict = "running" /\ phase = "withdrawals"
      /\ revive_if_deleted(r).balance + amount <= MaxBalance /\ ref[a].balance + amount <= MaxBalance
      /\ overlay' = [b \in Addr |-> IF b \in dead THEN [P[b] EXCEPT !.deleted = TRUE] ELSE P[b]]
      /\ overflow' = [b \in Addr |-> IF b \in dead \cup wiped_by_revival(r, a) THEN Nothing ELSE overflow[b]]
      /\ storage_wiped_' = storage_wiped_ \cup dead \cup wiped_by_revival(r, a)
      /\ touched_' = touched_ \cup {a}
      /\ unconfirmed' = (unconfirmed \/ create_unconfirmed(a))
      /\ ref' = [ref EXCEPT ![a] = withdrawn_in(ref[a], amount)]
      /\ loaded' = {} /\ UNCHANGED <<witness, agreed, verdict, phase>>
  BY <1>0 DEF Withdrawal, paid_overlay, paid_record, dead_among, end_transaction
<1>2. /\ P \in [Addr -> Record \cup {NoRecord}]
      /\ \A b \in Addr : b # a => P[b] = overlay[b]
  <2>1. paid_record(r, amount) \in Record
    BY Zenon, <1>1, Loaded, PaidRecord DEF IInv
  <2> QED
    BY Zenon, <1>0, <2>1 DEF paid_overlay, IInv, TypeOK
<1>3. /\ dead \subseteq Addr /\ dead \subseteq touched_ \cup {a}
      /\ \A b \in touched_ \cup {a} : b \in dead <=> P[b] # NoRecord /\ is_dead(P[b])
  BY Zenon, <1>0 DEF dead_among, IInv, TypeOK
<1>4. ASSUME NEW b \in dead PROVE overlay'[b] \in Record /\ overlay'[b].deleted /\ overlay'[b] # NoRecord
  <2>1. P[b] \in Record /\ overlay'[b] = [P[b] EXCEPT !.deleted = TRUE]
    BY Zenon, <1>1, <1>2, <1>3
  <2> QED
    BY Zenon, <2>1, RecordFacts DEF Record
<1>5. ASSUME NEW b \in Addr, b \notin dead PROVE overlay'[b] = P[b]
  BY Zenon, <1>1, <1>5
<1>6. wiped_by_revival(r, a) \subseteq {a}
  BY Zenon DEF wiped_by_revival
<1>7. TypeOK'
  <2>1. overlay' \in [Addr -> Record \cup {NoRecord}]
    <3>1. overlay' = [b \in Addr |-> overlay'[b]]
      BY Zenon, <1>1
    <3>2. \A b \in Addr : overlay'[b] \in Record \cup {NoRecord}
      BY Zenon, <1>2, <1>4, <1>5
    <3> QED
      BY Zenon, <3>1, <3>2
  <2>2. overflow' \in [Addr -> Partial(Value)]
    BY Zenon, <1>1, PartialFacts DEF IInv, TypeOK
  <2>3. ref' \in State
    <3>1. withdrawn_in(ref[a], amount) \in Leaf \cup {NoLeaf}
      BY Zenon, <1>1, PaidLeaf DEF IInv, TypeOK, State
    <3> QED
      BY Zenon, <1>1, <3>1 DEF IInv, TypeOK, State
  <2>4. /\ storage_wiped_' \subseteq Addr /\ touched_' \subseteq Addr /\ loaded' \subseteq Addr \X Key
        /\ unconfirmed' \in BOOLEAN
    BY Zenon, <1>1, <1>3, <1>6 DEF IInv, TypeOK
  <2> QED
    BY Zenon, <1>1, <2>1, <2>2, <2>3, <2>4 DEF IInv, TypeOK, witness
<1>8. SoundInv'
  <2> SUFFICES ASSUME ~unconfirmed' PROVE agreed' /\ TouchedInv' /\ \A b \in Addr : Fits(b)'
      BY Zenon DEF SoundInv
  <2>1. ~unconfirmed /\ ~create_unconfirmed(a)
    BY Zenon, <1>1
  <2>2. agreed /\ TouchedInv /\ \A b \in Addr : Fits(b)
    BY Zenon, <2>1 DEF IInv, SoundInv
  <2>3. ASSUME NEW b \in Addr PROVE Fits(b)'
    <3>1. CASE b = a
      BY Zenon, <2>1, <2>2, <3>1, PaidFits
    <3>2. CASE b # a /\ b \in dead
      <4>1. Gone(b)
        BY Zenon, <1>1, <1>2, <1>3, <2>2, <3>2 DEF TouchedInv, Live, Gone, is_dead
      <4>2. b \in known /\ ref'[b] = NoLeaf
        BY Zenon, <1>1, <2>2, <3>2, <4>1 DEF Fits, Gone, IInv, TypeOK, State
      <4>3. overflow'[b] = Nothing /\ b \in storage_wiped_'
        BY Zenon, <1>1, <3>2
      <4> QED
        BY Zenon, <1>1, <1>4, <3>2, <4>2, <4>3, GoneFits
    <3>3. CASE b # a /\ b \notin dead
      <4>1. /\ overlay'[b] = overlay[b] /\ ref'[b] = ref[b]
            /\ overflow'[b] = overflow[b] /\ (b \in storage_wiped_' <=> b \in storage_wiped_)
        BY Zenon, <1>1, <1>2, <1>5, <1>6, <3>3 DEF IInv, TypeOK, State
      <4> QED
        BY Zenon, <1>1, <2>2, <4>1, Frame
    <3> QED
      BY Zenon, <3>1, <3>2, <3>3
  <2>4. TouchedInv'
    <3> SUFFICES ASSUME NEW b \in touched_ \cup {a}, Live(b)' PROVE ~is_empty(overlay'[b])
        BY Zenon, <1>1 DEF TouchedInv
    <3>1. b \in Addr /\ b \notin dead
      BY Zenon, <1>4 DEF Live, IInv, TypeOK
    <3>2. overlay'[b] = P[b] /\ P[b] # NoRecord
      BY Zenon, <1>5, <3>1 DEF Live
    <3> QED
      BY Zenon, <1>3, <3>1, <3>2 DEF is_dead
  <2> QED
    BY Zenon, <1>1, <2>2, <2>3, <2>4
<1>9. CompleteInv'
  <2> SUFFICES ASSUME all_nodes', unconfirmed' PROVE ~agreed'
      BY Zenon DEF CompleteInv
  <2>1. all_nodes
    BY Zenon, <1>1 DEF all_nodes, witness
  <2>2. ~create_unconfirmed(a)
    BY Zenon, <2>1 DEF all_nodes, create_unconfirmed, confirm_absent, built
  <2> QED
    BY Zenon, <1>1, <2>1, <2>2 DEF IInv, CompleteInv
<1> QED
  BY Zenon, <1>1, <1>7, <1>8, <1>9, Running DEF IInv

-----------------------------------------------------------------------------
(* The root check. *)

\* Where nothing is counted, the fold succeeds and leads to the state the
\* rules lead to.
LEMMA FoldRight ==
  ASSUME TypeOK, \A a \in Addr : Fits(a)
  PROVE  new_root = ref /\ ~fold_fails
<1>1. ASSUME NEW a \in Addr, Live(a), NEW k \in Key
      PROVE  folded_storage(a)[k] = ref[a].root[k]
  <2>1. /\ ref[a].root[k] = IF k \in DOMAIN overflow[a] THEN overflow[a][k]
                            ELSE IF a \in storage_wiped_ THEN 0 ELSE pre[a].root[k]
        /\ a \notin storage_wiped_ => a \in built /\ overlay[a].root = pre[a].root
        /\ k \in DOMAIN overflow[a] => Decided(a, k)
    BY Zenon, <1>1 DEF Fits
  <2>2. storage_seed(a)[k] = IF a \in storage_wiped_ THEN 0 ELSE pre[a].root[k]
    BY Zenon, <2>1, LeafFacts DEF storage_seed
  <2>3. a \notin storage_wiped_ /\ k \in DOMAIN overflow[a] /\ k \notin built_slots(a) => pre[a].root[k] = 0
    BY Zenon, <2>1, LeafFacts DEF Decided, built_slots
  <2>4. folded_storage(a)[k] = IF k \in slot_updates(a) THEN overflow[a][k] ELSE storage_seed(a)[k]
    BY Zenon DEF folded_storage
  <2> QED
    BY Zenon, <2>1, <2>2, <2>3, <2>4 DEF slot_updates
<1>2. ASSUME NEW a \in Addr PROVE new_root[a] = ref[a]
  <2>1. new_root[a] = IF a \in written THEN folded_leaf(a) ELSE pre[a]
    BY Zenon DEF new_root
  <2>2. CASE a \in written /\ overlay[a].deleted
    BY Zenon, <2>1, <2>2 DEF written, folded_leaf, Fits, Gone
  <2>3. CASE a \in written /\ ~overlay[a].deleted
    <3>1. Live(a)
      BY Zenon, <2>3 DEF written, Live
    <3>2. /\ ref[a].nonce = overlay[a].nonce /\ ref[a].balance = overlay[a].balance /\ ref[a].code = overlay[a].code
          /\ overlay[a] \in Record /\ ref[a] \in Leaf \cup {NoLeaf}
      BY Zenon, <3>1 DEF Fits, TypeOK, State, Live
    <3>3. ref[a] \in Leaf
      BY Zenon, <3>2, LeafFacts DEF Record
    <3>4. folded_storage(a) = ref[a].root
      BY Zenon, <1>1, <3>1, <3>3 DEF folded_storage, Leaf, Storage
    <3> QED
      BY Zenon, <2>1, <2>3, <3>2, <3>3, <3>4 DEF folded_leaf, Leaf
  <2>4. CASE a \notin written
    <3>1. CASE overlay[a] = NoRecord
      BY Zenon, <2>1, <2>4, <3>1 DEF Fits
    <3>2. CASE Gone(a)
      BY Zenon, <2>1, <2>4, <3>2 DEF written, Gone, Fits, built
    <3>3. CASE Live(a)
      BY Zenon, <2>1, <2>4, <3>3 DEF written, Live, Fits
    <3> QED
      BY Zenon, <3>1, <3>2, <3>3 DEF Gone, Live
  <2> QED
    BY Zenon, <2>2, <2>3, <2>4
<1>3. new_root = ref
  BY Zenon, <1>2 DEF new_root, TypeOK, State
<1>4. ASSUME NEW a \in written PROVE a \in known /\ (overlay[a].deleted \/ ~storage_fold_fails(a))
  <2>1. a \in Addr /\ a \in known /\ overlay[a] # NoRecord
    BY Zenon DEF written, Fits
  <2>2. CASE ~overlay[a].deleted
    <3>1. Live(a) /\ Fits(a)
      BY Zenon, <2>1, <2>2 DEF Live
    <3>2. a \notin storage_wiped_ => overlay[a].root = pre[a].root
      BY Zenon, <3>1 DEF Fits
    <3>3. \A k \in DOMAIN overflow[a] : Decided(a, k)
      BY Zenon, <3>1 DEF Fits
    <3>4. SUFFICES ASSUME NEW k \in slot_updates(a),
                          \/ a \notin storage_wiped_ /\ a \in built /\ pre[a].root # EmptyRoot /\ k \notin known_slots[a]
                          \/ overflow[a][k] = 0 /\ storage_seed(a)[k] = 0
                   PROVE  FALSE
      BY Zenon, <2>1 DEF storage_fold_fails
    <3>5. CASE a \notin storage_wiped_ /\ a \in built /\ pre[a].root # EmptyRoot /\ k \notin known_slots[a]
      BY Zenon, <3>3, <3>5 DEF slot_updates, Decided
    <3>6. CASE overflow[a][k] = 0 /\ storage_seed(a)[k] = 0
      BY Zenon, <3>2, <3>6 DEF slot_updates, storage_seed, built_slots
    <3> QED
      BY Zenon, <3>4, <3>5, <3>6
  <2> QED
    BY Zenon, <2>1, <2>2
<1> QED
  BY Zenon, <1>3, <1>4 DEF fold_fails

LEMMA CheckRootStep ==
  ASSUME IInv, NEW h, CheckRoot(h)
  PROVE  IInv'
<1>1. /\ \/ verdict' = IF ~fold_fails /\ new_root = h /\ ~unconfirmed THEN "accepted" ELSE "rejected"
         \/ ~all_nodes /\ verdict' = "rejected"
      /\ header_root' = h
      /\ UNCHANGED <<witness, overlay, overflow, storage_wiped_, unconfirmed, touched_, phase, loaded, ref, agreed>>
  BY Zenon DEF CheckRoot
<1>2. ~unconfirmed => new_root = ref /\ ~fold_fails /\ agreed
  BY Zenon, FoldRight DEF IInv, SoundInv
<1>3. AcceptedIsRight'
  <2> SUFFICES ASSUME verdict' = "accepted" PROVE agreed' /\ header_root' = ref'
      BY Zenon DEF AcceptedIsRight
  <2>1. new_root = h /\ ~unconfirmed
    BY Zenon, <1>1
  <2> QED
    BY Zenon, <1>1, <1>2, <2>1
<1>4. HonestAccepted'
  <2> SUFFICES ASSUME verdict' = "rejected", header_root' = ref', all_nodes' PROVE unconfirmed' /\ ~agreed'
      BY Zenon DEF HonestAccepted
  <2>1. all_nodes
    BY Zenon, <1>1 DEF all_nodes, witness
  <2>2. unconfirmed
    BY Zenon, <1>1, <1>2, <2>1
  <2> QED
    BY Zenon, <1>1, <2>1, <2>2 DEF IInv, CompleteInv
<1> QED
  BY Zenon, <1>1, <1>3, <1>4, QuietStep

LEMMA InitIInv == ASSUME ConstantsAssumption, Init PROVE IInv
<1>1. TypeOK
  <2>1. pre \in State /\ ref \in State
    BY Zenon DEF Init, ConstantsAssumption
  <2>2. overflow \in [Addr -> Partial(Value)] /\ overlay \in [Addr -> Record \cup {NoRecord}]
    BY Zenon, PartialFacts DEF Init
  <2> QED
    BY Zenon, <2>1, <2>2 DEF Init, TypeOK
<1>2. ASSUME NEW a \in Addr PROVE Fits(a)
  <2>1. overlay[a] = NoRecord /\ DOMAIN overflow[a] = {} /\ a \notin storage_wiped_ /\ ref = pre /\ loaded = {}
    BY Zenon, PartialFacts DEF Init
  <2> QED
    BY Zenon, <2>1 DEF Fits, Gone, Live
<1>3. SoundInv /\ CompleteInv /\ AcceptedIsRight /\ HonestAccepted
  BY Zenon, <1>2 DEF Init, SoundInv, TouchedInv, CompleteInv, AcceptedIsRight, HonestAccepted
<1> QED
  BY Zenon, <1>1, <1>3 DEF IInv

LEMMA NextIInv == ASSUME IInv, [Next]_vars PROVE IInv'
<1>1. ASSUME NEW a \in Addr, GetAccount(a) \/ ReadCode(a) \/ ApplyDeleted(a) PROVE IInv'
  BY Zenon, <1>1, GetAccountStep, ReadCodeStep, ApplyDeletedStep
<1>2. ASSUME NEW a \in Addr, NEW k \in Key, GetStorage(a, k) PROVE IInv'
  BY Zenon, <1>2, GetStorageStep
<1>3. CASE note_created_code
  <2>1. /\ UNCHANGED <<witness, overlay, overflow, storage_wiped_, unconfirmed, ref, agreed>>
        /\ UNCHANGED <<touched_, phase, loaded, verdict>> /\ verdict = "running"
    BY Zenon, <1>3 DEF note_created_code, executing
  <2> QED
    BY Zenon, <2>1, Running, QuietStep
<1>4. ASSUME NEW a \in Addr, NEW d \in Diff, ApplyModified(a, d) PROVE IInv'
  BY Zenon, <1>4, ApplyModifiedStep
<1>5. ASSUME NEW a \in Addr, NEW amount \in {0, 1}, Withdrawal(a, amount) PROVE IInv'
  BY Zenon, <1>5, WithdrawalStep
<1>6. CASE EndTransactions
  <2>1. /\ UNCHANGED <<witness, overlay, overflow, storage_wiped_, unconfirmed, ref, agreed>>
        /\ touched_' = {} /\ loaded' = {} /\ UNCHANGED verdict /\ verdict = "running"
    BY Zenon, <1>6 DEF EndTransactions, executing
  <2> QED
    BY Zenon, <2>1, Running, QuietStep
<1>7. CASE EndBlock
  BY Zenon, <1>7, EndBlockStep
<1>8. ASSUME NEW h, CheckRoot(h) PROVE IInv'
  BY Zenon, <1>8, CheckRootStep
<1>9. CASE UNCHANGED vars
  <2>1. /\ UNCHANGED <<witness, overlay, overflow, storage_wiped_, unconfirmed, ref, agreed>>
        /\ UNCHANGED <<touched_, phase, loaded, verdict, header_root>>
    BY Zenon, <1>9 DEF vars
  <2>2. AcceptedIsRight' /\ HonestAccepted'
    BY Zenon, <2>1 DEF IInv, AcceptedIsRight, HonestAccepted, all_nodes, witness
  <2> QED
    BY Zenon, <2>1, <2>2, QuietStep
<1> QED
  BY Zenon, <1>1, <1>2, <1>3, <1>4, <1>5, <1>6, <1>7, <1>8, <1>9 DEF Next

\* What holds of every state: as long as nothing is counted, the overlay over
\* the parent's trie is the state the rules lead to.
THEOREM Invariance == ConstantsAssumption => (Spec => []IInv)
<1> SUFFICES ASSUME ConstantsAssumption PROVE Spec => []IInv
    BY Zenon
<1>1. Init => IInv
  BY Zenon, InitIInv
<1>2. IInv /\ [Next]_vars => IInv'
  BY Zenon, NextIInv
<1> QED
  BY <1>1, <1>2, PTL DEF Spec

\* The check of the root accepts a block only if every value the block read
\* was right and its header commits to the state it leads to, whatever nodes
\* and code bodies the witness has.
THEOREM AcceptanceSound == ConstantsAssumption => (Spec => []AcceptedIsRight)
<1>1. IInv => AcceptedIsRight
  BY Zenon DEF IInv
<1> QED
  BY <1>1, Invariance, PTL

\* With every node there, a block whose header commits to the state it leads
\* to is rejected only for a code body that is missing.
THEOREM AcceptanceComplete == ConstantsAssumption => (Spec => []HonestAccepted)
<1>1. IInv => HonestAccepted
  BY Zenon DEF IInv
<1> QED
  BY <1>1, Invariance, PTL
=============================================================================
