----------------------- MODULE StateTransitionProofs -----------------------
(***************************************************************************)
(* What StateTransition::run commits, for every header, state, execution   *)
(* and sequence of bundles.                                                *)
(*                                                                         *)
(* CommittedChain says nothing of the state the next block will read, and  *)
(* AnchorOfFirst nothing of which blocks have a root check behind them, so *)
(* neither is inductive.  IInv adds the two facts about the loop of        *)
(* run_one_bundle that they rest on: before the first root check the block *)
(* reads the state the witness is bound to (Unchecked), and after it the   *)
(* state held is, all of it, the one of the block accepted last (Checked). *)
(***************************************************************************)
EXTENDS StateTransition, TLAPS

\* A block is waiting to be run in the bundle in hand.
Pending == outcome = "running" /\ bundle # NoBundle /\ i <= Len(bundle.blocks)

\* Before the first root check the next block reads the state the witness is bound to, if to any.
Unchecked == (Pending /\ first_root_check /\ state.bound # NoRoot) => state.view = state.bound

\* After it the next block reads the state of the block accepted last, and the records are all of it.
Checked ==
    (Pending /\ ~first_root_check) =>
        /\ trail # <<>>
        /\ state.view = Header[block_hash_].state_root
        /\ state.records = state.view

\* A first block has been accepted if any has.
SomeAccepted == (trail = <<>>) <=> (first = ZeroHash)

IInv == GuestTypeOK /\ CommittedChain /\ AnchorOfFirst /\ Unchecked /\ Checked /\ SomeAccepted

-----------------------------------------------------------------------------

\* The fields of the headers, bundles and blocks, and the values of Executes, have their types.
LEMMA Fields ==
    /\ \A h \in Hash : /\ Header[h].parent_hash \in Hash \union {ZeroHash}
                       /\ Header[h].state_root \in Root
                       /\ Header[h].gas_used \in Nat
    /\ \A b \in Bundles : /\ b.genesis \in Hash
                          /\ b.ancestors \in Seq(Hash)
                          /\ b.blocks \in Seq(BlockFields)
                          /\ b.bound \in Root \union {NoRoot}
                          /\ b.records \in Root
    /\ \A r \in Root, h \in Hash : Executes[<<r, h>>] \in Root \union {Invalid}
<1>1. \A h \in Hash : Header[h] \in HeaderFields
  BY Zenon, ConstantsAssumption
<1>2. \A b \in Bundles : b \in BundleFields
  BY Zenon, ConstantsAssumption
<1>3. \A r \in Root, h \in Hash : <<r, h>> \in Root \X Hash
  BY Zenon
<1> QED BY Zenon, <1>1, <1>2, <1>3, ConstantsAssumption DEF HeaderFields, BundleFields

\* A pending block has a hash and a flag, and belongs to a bundle.
LEMMA PendingBlock ==
    ASSUME GuestTypeOK, Pending
    PROVE  /\ bundle \in Bundles
           /\ i \in 1..Len(bundle.blocks)
           /\ Len(bundle.blocks) \in Nat
           /\ block.hash \in Hash
           /\ block.expect_invalid \in BOOLEAN
<1>1. bundle \in Bundles
  BY Zenon DEF GuestTypeOK, Pending
<1>2. bundle.blocks \in Seq(BlockFields)
  BY Zenon, <1>1, Fields
<1>3. i \in 1..Len(bundle.blocks)
  BY <1>2 DEF GuestTypeOK, Pending
<1>4. block \in BlockFields
  BY <1>2, <1>3 DEF block
<1> QED BY <1>1, <1>2, <1>3, <1>4 DEF BlockFields

\* Init establishes the invariant.
LEMMA InitIInv == Init => IInv
<1> SUFFICES ASSUME Init PROVE IInv
  BY Zenon
<1>a. Len(NoBundle.blocks) = 0
  BY Zenon DEF NoBundle
<1>b. <<>> \in Seq(Hash)
  OBVIOUS
<1>c. i \in 1..(Len(bundle.blocks) + 1)
  BY <1>a DEF Init
<1>f. bundle = NoBundle
  BY Zenon DEF Init
<1>d. state \in [bound: Root \union {NoRoot}, view: Root \union {NoRoot}, records: Root \union {NoRoot}]
  BY Zenon DEF Init, NoState
<1>e. 0 \in 0..MaxBundles
  BY ConstantsAssumption
<1>1. GuestTypeOK
  BY ZenonT(40), <1>b, <1>c, <1>d, <1>e, <1>f DEF Init, GuestTypeOK
<1>2. CommittedChain
  BY DEF Init, CommittedChain
<1>3. AnchorOfFirst /\ SomeAccepted
  BY ZenonT(40) DEF Init, AnchorOfFirst, SomeAccepted
<1>4. Unchecked /\ Checked
  BY Zenon DEF Init, Unchecked, Checked, Pending
<1> QED BY Zenon, <1>1, <1>2, <1>3, <1>4 DEF IInv

\* The chain and the anchor do not change when the public values and the history do not.
LEMMA PublicFrame ==
    ASSUME CommittedChain, AnchorOfFirst, SomeAccepted,
           UNCHANGED <<pre_state_root_, pre_root_set_, post_state_root_, block_hash_, history>>,
           outcome' # "failed" => outcome # "failed"
    PROVE  CommittedChain' /\ AnchorOfFirst' /\ SomeAccepted'
BY Zenon DEF CommittedChain, AnchorOfFirst, SomeAccepted, history, ValidOnParent

\* A step that ends the run, or leaves no block pending, has nothing to show of the loop.
LEMMA NothingPending == ~Pending' => Unchecked' /\ Checked'
BY Zenon DEF Unchecked, Checked

\* A rejected block is the last its bundle runs: it is the last, or it has failed the run.
LEMMA RejectedIsLast ==
    ASSUME GuestTypeOK, AtBlock, Rejected, bundle' = bundle
    PROVE  /\ ~Pending'
           /\ i' \in 1..(Len(bundle'.blocks) + 1)
           /\ outcome' \in {"running", "failed"}
           /\ outcome' = "running" => block.expect_invalid
<1>1. Pending
  BY Zenon DEF AtBlock, Pending
<1>2. block.expect_invalid => i = Len(bundle.blocks)
  BY <1>1, PendingBlock DEF AtBlock, misplaced
<1>3. i \in 1..Len(bundle.blocks) /\ Len(bundle.blocks) \in Nat /\ outcome = "running"
  BY Zenon, <1>1, PendingBlock DEF Pending
<1>4. CASE block.expect_invalid
  BY <1>2, <1>3, <1>4 DEF Rejected, Pending
<1>5. CASE ~block.expect_invalid
  BY <1>3, <1>5 DEF Rejected, Pending, Failed
<1> QED BY Zenon, <1>4, <1>5

\* What an executed block leaves has its type; its parent's header is held.
LEMMA ExecutedTypes ==
    ASSUME GuestTypeOK, executed
    PROVE  /\ Pending
           /\ block.hash \in Hash
           /\ header.parent_hash \in Hash
           /\ prev_root \in Root
           /\ header.state_root \in Root
           /\ header.gas_used \in Nat
           /\ result \in Root
           /\ left_records \subseteq Root
<1>1. Pending
  BY Zenon DEF executed, read, AtBlock, Pending
<1>2. block.hash \in Hash
  BY Zenon, <1>1, PendingBlock
<1>3. header.parent_hash \in Hash
  BY Zenon DEF executed, parent_known, GuestTypeOK
<1>4. prev_root \in Root /\ header.state_root \in Root /\ header.gas_used \in Nat
  BY Zenon, <1>2, <1>3, Fields DEF prev_root, header
<1>5. state.view \in Root
  BY Zenon, <1>1 DEF GuestTypeOK, Pending
<1>6. result \in Root
  BY Zenon, <1>2, <1>5, Fields DEF executed, result
<1> QED BY Zenon, <1>1, <1>2, <1>3, <1>4, <1>6 DEF left_records

\* The type invariant of the guest's variables is kept.
LEMMA StepTypes == GuestTypeOK /\ [Next]_vars => GuestTypeOK'
<1> SUFFICES ASSUME GuestTypeOK, [Next]_vars PROVE GuestTypeOK'
  BY Zenon
<1> USE DEF guest, loop, public, history
<1>1. CASE EnvelopeRejected \/ BundleRejected \/ NotExtending \/ Misplaced
  BY Zenon, <1>1 DEF EnvelopeRejected, BundleRejected, NotExtending, Misplaced, Failed, GuestTypeOK
<1>2. CASE BundleStarted
  <2>1. PICK b \in Bundles :
          /\ b.network \in DOMAIN ChainId
          /\ bundle' = b
          /\ headers' = Range(b.ancestors) \union {b.genesis}
          /\ state' = [bound |-> b.bound, records |-> b.records,
                       view |-> IF b.bound = NoRoot THEN b.records ELSE b.bound]
          /\ chain_id_' = ChainId[b.network]
    BY Zenon, <1>2 DEF BundleStarted
  <2>2. headers' \subseteq Hash
    BY <2>1, Fields DEF Range
  <2>3. state' \in [bound: Root \union {NoRoot}, view: Root \union {NoRoot}, records: Root \union {NoRoot}]
    BY Zenon, <2>1, Fields
  <2>7. state'.view \in Root /\ state'.records \in Root
    BY Zenon, <2>1, Fields
  <2>4. chain_id_' \in Nat
    BY Zenon, <2>1, ConstantsAssumption
  <2>5. bundles' \in 0..MaxBundles
    BY <1>2, ConstantsAssumption DEF BundleStarted, GuestTypeOK
  <2>6. i' \in 1..(Len(bundle'.blocks) + 1)
    <3>1. Len(b.blocks) \in Nat
      BY Fields
    <3> QED BY <1>2, <2>1, <3>1 DEF BundleStarted
  <2> QED BY SMTT(40), <1>2, <2>1, <2>2, <2>3, <2>4, <2>5, <2>6, <2>7 DEF BundleStarted, GuestTypeOK
<1>3. CASE BundleEnded
  <2>1. i' \in 1..(Len(bundle'.blocks) + 1)
    BY <1>3 DEF BundleEnded, NoBundle
  <2>2. state' \in [bound: Root \union {NoRoot}, view: Root \union {NoRoot}, records: Root \union {NoRoot}]
    BY Zenon, <1>3 DEF BundleEnded, NoState
  <2> QED BY <1>3, <2>1, <2>2 DEF BundleEnded, GuestTypeOK
<1>4. CASE RunEnded
  BY <1>4 DEF RunEnded, GuestTypeOK
<1>5. CASE Unread
  <2>1. AtBlock /\ Rejected /\ bundle' = bundle
    BY SMTT(40), <1>5 DEF Unread
  <2> QED BY <1>5, <2>1, RejectedIsLast DEF Unread, GuestTypeOK
<1>6. CASE NotValid
  <2>1. AtBlock /\ Rejected /\ bundle' = bundle
    BY ZenonT(40), <1>6 DEF NotValid, read
  <2>2. state' \in [bound: Root \union {NoRoot}, view: Root \union {NoRoot}, records: Root \union {NoRoot}]
    BY ZenonT(40), <1>6 DEF NotValid, GuestTypeOK
  <2>3. state'.view \in Root /\ state'.records \in Root
    BY ZenonT(40), <1>6, <2>1 DEF NotValid, GuestTypeOK, AtBlock
  <2> QED BY ZenonT(40), <1>6, <2>1, <2>2, <2>3, RejectedIsLast DEF NotValid, GuestTypeOK
<1>7. CASE RootRejected
  <2>1. AtBlock /\ Rejected /\ bundle' = bundle /\ executed
    BY Zenon, <1>7 DEF RootRejected, executed, read
  <2>2. PICK r \in left_records : state' = [state EXCEPT !.view = result, !.records = r]
    BY ZenonT(40), <1>7 DEF RootRejected
  <2>3. result \in Root /\ r \in Root /\ prev_root \in Root
    BY Zenon, <2>1, ExecutedTypes
  <2>4. state' \in [bound: Root \union {NoRoot}, view: Root \union {NoRoot}, records: Root \union {NoRoot}]
    BY ZenonT(40), <2>2, <2>3 DEF GuestTypeOK
  <2>5. state'.view \in Root /\ state'.records \in Root
    BY Zenon, <2>2, <2>3 DEF GuestTypeOK
  <2>6. pre_state_root_' \in Root \union {NoRoot} /\ pre_root_set_' \in BOOLEAN
    BY ZenonT(40), <1>7, <2>3 DEF RootRejected, unanchored, anchored, GuestTypeOK
  <2>7. first_root_check' \in BOOLEAN
    BY ZenonT(40), <1>7 DEF RootRejected, GuestTypeOK
  <2> QED BY ZenonT(40), <1>7, <2>1, <2>4, <2>5, <2>6, <2>7, RejectedIsLast DEF RootRejected, GuestTypeOK
<1>8. CASE RootAcceptedInVain
  <2>1. prev_root \in Root
    BY Zenon, <1>8, ExecutedTypes DEF RootAcceptedInVain
  <2>2. pre_state_root_' \in Root \union {NoRoot} /\ pre_root_set_' \in BOOLEAN
    BY ZenonT(40), <1>8, <2>1 DEF RootAcceptedInVain, anchored, GuestTypeOK
  <2> QED BY Zenon, <1>8, <2>2 DEF RootAcceptedInVain, Failed, GuestTypeOK
<1>9. CASE Accepted
  <2>1. executed
    BY Zenon, <1>9 DEF Accepted
  <2>2. PICK r \in left_records : state' = [state EXCEPT !.view = r, !.records = r]
    BY ZenonT(40), <1>9 DEF Accepted
  <2>3. r \in Root /\ prev_root \in Root /\ block.hash \in Hash /\ header.state_root \in Root
        /\ header.gas_used \in Nat
    BY Zenon, <2>1, ExecutedTypes
  <2>4. state' \in [bound: Root \union {NoRoot}, view: Root \union {NoRoot}, records: Root \union {NoRoot}]
    BY ZenonT(40), <2>2, <2>3 DEF GuestTypeOK
  <2>5. state'.view \in Root /\ state'.records \in Root
    BY Zenon, <2>2, <2>3 DEF GuestTypeOK
  <2>6. pre_state_root_' \in Root \union {NoRoot} /\ pre_root_set_' \in BOOLEAN
    BY ZenonT(40), <1>9, <2>3 DEF Accepted, anchored, GuestTypeOK
  <2>7. i' \in 1..(Len(bundle'.blocks) + 1)
    <3>1. i \in 1..Len(bundle.blocks) /\ Len(bundle.blocks) \in Nat
      BY Zenon, <2>1, PendingBlock DEF executed, read, AtBlock, Pending
    <3> QED BY <1>9, <3>1 DEF Accepted
  <2>8. trail' \in Seq(Hash) /\ first' \in Hash \union {ZeroHash}
    BY <1>9, <2>3 DEF Accepted, GuestTypeOK
  <2>9. headers' \subseteq Hash /\ bundle_gas' \in Nat
    BY <1>9, <2>3 DEF Accepted, GuestTypeOK
  <2>10. post_state_root_' \in Root /\ block_hash_' \in Hash /\ first_root_check' \in BOOLEAN
    BY ZenonT(40), <1>9, <2>3 DEF Accepted
  <2>11. UNCHANGED <<bundles, gas, outcome, bundle, chain_id_>>
    BY Zenon, <1>9 DEF Accepted
  <2> QED BY Zenon, <2>4, <2>5, <2>6, <2>7, <2>8, <2>9, <2>10, <2>11 DEF GuestTypeOK
<1>10. CASE UNCHANGED vars
  BY <1>10 DEF vars, GuestTypeOK
<1> QED BY Zenon, <1>1, <1>2, <1>3, <1>4, <1>5, <1>6, <1>7, <1>8, <1>9, <1>10 DEF Next

\* An accepted block is valid on its parent's state, extends the block accepted before it, and leaves the
\* state its header commits to if another block is to follow.
LEMMA AcceptedBlock ==
    ASSUME IInv, Accepted
    PROVE  /\ ValidOnParent(block.hash)
           /\ ~first_root_check => header.parent_hash = block_hash_
           /\ Pending' => state'.view = header.state_root /\ state'.records = state'.view
<1>1. executed /\ extends_previous
  BY Zenon DEF Accepted
<1>2. GuestTypeOK
  BY Zenon DEF IInv
<1>3. /\ Pending
      /\ block.hash \in Hash /\ header.parent_hash \in Hash
      /\ prev_root \in Root /\ header.state_root \in Root
  BY SMTT(40), <1>1, <1>2, ExecutedTypes
<1>4. PICK r \in left_records : /\ root_matches(r) /\ whole(r)
                                /\ state' = [state EXCEPT !.view = r, !.records = r]
  BY ZenonT(40) DEF Accepted
<1>5. state'.view = r /\ state'.records = r
  BY Zenon, <1>2, <1>4 DEF GuestTypeOK
<1>6. CASE first_root_check
  <2>1. state.bound = prev_root /\ result = header.state_root
    BY Zenon, <1>4, <1>6 DEF root_matches
  <2>2. state.view = prev_root
    BY Zenon, <1>3, <1>6, <2>1, ConstantsAssumption DEF IInv, Unchecked
  <2>3. ValidOnParent(block.hash)
    BY Zenon, <2>1, <2>2 DEF ValidOnParent, result, prev_root, header
  <2>4. Pending' => multi_block
    BY <1>2, <1>3, PendingBlock DEF Accepted, Pending, multi_block
  <2>5. Pending' => r = header.state_root
    BY Zenon, <1>4, <1>6, <2>4 DEF whole
  <2> QED BY Zenon, <1>5, <1>6, <2>3, <2>5
<1>7. CASE ~first_root_check
  <2>1. header.parent_hash = block_hash_
    BY Zenon, <1>1, <1>7 DEF extends_previous
  <2>2. state.view = Header[block_hash_].state_root /\ state.records = state.view
    BY Zenon, <1>3, <1>7 DEF IInv, Checked
  <2>3. r = result /\ r = header.state_root
    BY Zenon, <1>4, <1>7, <2>2 DEF left_records, root_matches
  <2>4. ValidOnParent(block.hash)
    BY Zenon, <2>1, <2>2, <2>3 DEF ValidOnParent, result, header
  <2> QED BY Zenon, <1>5, <2>1, <2>3, <2>4
<1> QED BY Zenon, <1>6, <1>7

\* The chain of accepted blocks grows by a valid block that extends it, or starts anew.
LEMMA AcceptedChain ==
    ASSUME IInv, Accepted
    PROVE  CommittedChain'
<1>1. executed
  BY Zenon DEF Accepted
<1>2. GuestTypeOK /\ CommittedChain
  BY Zenon DEF IInv
<1>3. block.hash \in Hash /\ Pending
  BY Zenon, <1>1, <1>2, ExecutedTypes
<1>4. ValidOnParent(block.hash) /\ (~first_root_check => header.parent_hash = block_hash_)
  BY Zenon, AcceptedBlock
<1>5. post_state_root_' = header.state_root /\ block_hash_' = block.hash
  BY Zenon DEF Accepted
<1>6. CASE first_root_check
  <2>1. trail' = <<block.hash>>
    BY Zenon, <1>6 DEF Accepted
  <2>2. Len(trail') = 1 /\ trail'[1] = block.hash
    BY Zenon, <2>1
  <2>3. trail' # <<>>
    BY Zenon, <2>1
  <2> QED BY <1>4, <1>5, <2>2, <2>3 DEF CommittedChain, ValidOnParent, header
<1>7. CASE ~first_root_check
  <2>1. trail' = Append(trail, block.hash)
    BY Zenon, <1>7 DEF Accepted
  <2>2. trail # <<>> /\ trail \in Seq(Hash)
    BY Zenon, <1>2, <1>3, <1>7 DEF IInv, Checked, GuestTypeOK
  <2>3. /\ Len(trail') = Len(trail) + 1
        /\ Len(trail) \in Nat \ {0}
        /\ trail'[Len(trail) + 1] = block.hash
        /\ \A k \in 1..Len(trail) : trail'[k] = trail[k]
    BY <1>3, <2>1, <2>2
  <2>4. block_hash_ = trail[Len(trail)]
    BY Zenon, <1>2, <2>2 DEF CommittedChain
  <2>5. \A k \in 1..Len(trail') : ValidOnParent(trail'[k])
    <3>1. \A k \in 1..Len(trail) : ValidOnParent(trail[k])
      BY Zenon, <1>2 DEF CommittedChain
    <3>2. ASSUME NEW k \in 1..Len(trail') PROVE ValidOnParent(trail'[k])
      <4>1. CASE k \in 1..Len(trail)
        BY Zenon, <2>3, <3>1, <4>1
      <4>2. CASE k = Len(trail) + 1
        BY Zenon, <1>4, <2>3, <4>2
      <4> QED BY <2>3, <4>1, <4>2
    <3> QED BY Zenon, <3>2
  <2>6. \A k \in 2..Len(trail') : Header[trail'[k]].parent_hash = trail'[k - 1]
    <3>1. ASSUME NEW k \in 2..Len(trail') PROVE Header[trail'[k]].parent_hash = trail'[k - 1]
      <4>1. CASE k \in 2..Len(trail)
        BY <1>2, <2>3, <4>1 DEF CommittedChain
      <4>2. CASE k = Len(trail) + 1
        BY <1>4, <1>7, <2>3, <2>4, <4>2 DEF header
      <4> QED BY <2>3, <4>1, <4>2
    <3> QED BY Zenon, <3>1
  <2>7. trail' # <<>>
    BY <2>3
  <2> QED BY Zenon, <1>5, <2>3, <2>5, <2>6, <2>7 DEF CommittedChain, ValidOnParent, header
<1> QED BY Zenon, <1>6, <1>7

\* The first accepted block of a run anchors it at its parent's root; a later one leaves the anchor.
LEMMA AcceptedAnchor ==
    ASSUME IInv, Accepted
    PROVE  AnchorOfFirst' /\ SomeAccepted'
<1>1. executed /\ GuestTypeOK
  BY Zenon DEF Accepted, IInv
<1>2. block.hash \in Hash /\ Pending
  BY Zenon, <1>1, ExecutedTypes
<1>3. block.hash # ZeroHash
  BY Zenon, <1>2, ConstantsAssumption
<1>4. outcome = "running" /\ outcome' = "running"
  BY Zenon, <1>2 DEF Pending, Accepted
<1>5. /\ pre_root_set_ = (first # ZeroHash)
      /\ pre_state_root_ = IF first = ZeroHash THEN NoRoot ELSE Header[Header[first].parent_hash].state_root
  BY Zenon, <1>4 DEF IInv, AnchorOfFirst
<1>6. ~first_root_check => first # ZeroHash
  BY Zenon, <1>2 DEF IInv, Checked, SomeAccepted
<1>7. first' = IF first = ZeroHash THEN block.hash ELSE first
  BY Zenon DEF Accepted
<1>8. trail' # <<>>
  <2>1. CASE first_root_check
    BY Zenon, <2>1 DEF Accepted
  <2>2. CASE ~first_root_check
    <3>1. Len(trail') = Len(trail) + 1 /\ Len(trail) \in Nat
      BY <1>1, <2>2 DEF Accepted, GuestTypeOK
    <3> QED BY <3>1
  <2> QED BY Zenon, <2>1, <2>2
<1>9. SomeAccepted'
  BY Zenon, <1>3, <1>7, <1>8 DEF SomeAccepted
<1>10. CASE first = ZeroHash
  <2>1. pre_state_root_' = prev_root /\ pre_root_set_' = TRUE
    BY ZenonT(40), <1>5, <1>6, <1>10 DEF Accepted, anchored
  <2> QED BY ZenonT(40), <1>3, <1>7, <1>9, <1>10, <2>1 DEF AnchorOfFirst, prev_root, header
<1>11. CASE first # ZeroHash
  <2>1. UNCHANGED <<pre_state_root_, pre_root_set_>>
    BY ZenonT(40), <1>5, <1>11 DEF Accepted, anchored
  <2> QED BY Zenon, <1>5, <1>7, <1>9, <1>11, <2>1 DEF AnchorOfFirst
<1> QED BY Zenon, <1>10, <1>11

\* Every step keeps the invariant.
LEMMA StepIInv == IInv /\ [Next]_vars => IInv'
<1> SUFFICES ASSUME IInv, [Next]_vars PROVE IInv'
  BY Zenon
<1>t. GuestTypeOK'
  BY Zenon, StepTypes DEF IInv
<1>i. GuestTypeOK /\ CommittedChain /\ AnchorOfFirst /\ SomeAccepted
  BY Zenon DEF IInv
<1> DEFINE Rest == CommittedChain' /\ AnchorOfFirst' /\ SomeAccepted' /\ Unchecked' /\ Checked'
<1> SUFFICES Rest
  BY Zenon, <1>t DEF IInv
<1> USE DEF public, history
<1>1. CASE EnvelopeRejected \/ BundleRejected \/ NotExtending \/ Misplaced
  <2>1. ~Pending' /\ outcome' = "failed"
    BY Zenon, <1>1 DEF EnvelopeRejected, BundleRejected, NotExtending, Misplaced, Failed, Pending
  <2>2. UNCHANGED <<pre_state_root_, pre_root_set_, post_state_root_, block_hash_, history>>
    BY Zenon, <1>1 DEF EnvelopeRejected, BundleRejected, NotExtending, Misplaced
  <2> QED BY Zenon, <1>i, <2>1, <2>2, PublicFrame, NothingPending
<1>2. CASE BundleStarted
  <2>1. /\ UNCHANGED <<pre_state_root_, pre_root_set_, post_state_root_, block_hash_, history>>
        /\ outcome' = outcome
        /\ first_root_check' = TRUE
    BY Zenon, <1>2 DEF BundleStarted
  <2>2. state'.bound # NoRoot => state'.view = state'.bound
    BY <1>2 DEF BundleStarted
  <2>3. Unchecked' /\ Checked'
    BY Zenon, <2>1, <2>2 DEF Unchecked, Checked
  <2> QED BY Zenon, <1>i, <2>1, <2>3, PublicFrame
<1>3. CASE BundleEnded \/ RunEnded
  <2>1. /\ UNCHANGED <<pre_state_root_, pre_root_set_, post_state_root_, block_hash_, history>>
        /\ outcome # "failed"
    BY Zenon, <1>3 DEF BundleEnded, RunEnded, BetweenBundles
  <2>2. ~Pending'
    BY SMTT(40), <1>3 DEF BundleEnded, RunEnded, Pending, BetweenBundles
  <2> QED BY Zenon, <1>i, <2>1, <2>2, PublicFrame, NothingPending
<1>4. CASE Unread \/ NotValid
  <2>1. AtBlock /\ Rejected /\ bundle' = bundle
    BY ZenonT(40), <1>4 DEF Unread, NotValid, read
  <2>2. UNCHANGED <<pre_state_root_, pre_root_set_, post_state_root_, block_hash_, history>>
    BY ZenonT(40), <1>4 DEF Unread, NotValid
  <2>3. ~Pending' /\ outcome # "failed"
    BY Zenon, <1>i, <2>1, RejectedIsLast DEF AtBlock
  <2> QED BY Zenon, <1>i, <2>2, <2>3, PublicFrame, NothingPending
<1>5. CASE RootRejected
  <2>1. AtBlock /\ Rejected /\ bundle' = bundle
    BY Zenon, <1>5 DEF RootRejected, executed, read
  <2>2. ~Pending' /\ outcome # "failed" /\ (outcome' # "failed" => block.expect_invalid)
    BY Zenon, <1>i, <2>1, RejectedIsLast DEF AtBlock
  <2>3. UNCHANGED <<post_state_root_, block_hash_, history>>
    BY Zenon, <1>5 DEF RootRejected
  <2>4. CommittedChain' /\ SomeAccepted'
    BY Zenon, <1>i, <2>3 DEF CommittedChain, SomeAccepted, ValidOnParent
  <2>5. AnchorOfFirst'
    BY Zenon, <1>i, <1>5, <2>2, <2>3 DEF AnchorOfFirst, RootRejected, unanchored
  <2> QED BY Zenon, <2>2, <2>4, <2>5, NothingPending
<1>6. CASE RootAcceptedInVain
  <2>1. ~Pending' /\ outcome' = "failed" /\ UNCHANGED <<post_state_root_, block_hash_, history>>
    BY Zenon, <1>6 DEF RootAcceptedInVain, Failed, Pending
  <2>2. CommittedChain' /\ SomeAccepted'
    BY Zenon, <1>i, <2>1 DEF CommittedChain, SomeAccepted, ValidOnParent
  <2>3. AnchorOfFirst'
    BY Zenon, <2>1 DEF AnchorOfFirst
  <2> QED BY Zenon, <2>1, <2>2, <2>3, NothingPending
<1>7. CASE Accepted
  <2>1. CommittedChain' /\ AnchorOfFirst' /\ SomeAccepted'
    BY Zenon, <1>7, AcceptedChain, AcceptedAnchor
  <2>2. ~first_root_check' /\ block_hash_' = block.hash
    BY Zenon, <1>7 DEF Accepted
  <2>3. Pending' => state'.view = header.state_root /\ state'.records = state'.view
    BY Zenon, <1>7, AcceptedBlock
  <2>4. executed
    BY Zenon, <1>7 DEF Accepted
  <2>5. trail' # <<>>
    <3>1. block.hash # ZeroHash
      BY Zenon, <1>i, <2>4, ExecutedTypes, ConstantsAssumption
    <3> QED BY Zenon, <2>1, <2>2, <3>1 DEF CommittedChain
  <2>6. Unchecked' /\ Checked'
    BY Zenon, <2>2, <2>3, <2>5 DEF Unchecked, Checked, header
  <2> QED BY Zenon, <2>1, <2>6
<1>8. CASE UNCHANGED vars
  <2>1. UNCHANGED <<outcome, bundle, i, first_root_check, state, public, history>>
    BY Zenon, <1>8 DEF vars, guest, loop
  <2>2. Unchecked' /\ Checked'
    BY Zenon, <2>1 DEF IInv, Unchecked, Checked, Pending
  <2> QED BY Zenon, <1>i, <2>1, <2>2, PublicFrame
<1> QED BY Zenon, <1>1, <1>2, <1>3, <1>4, <1>5, <1>6, <1>7, <1>8 DEF Next

\* The inductive invariant holds throughout every run of StateTransition::run.
THEOREM RunInvariance == Spec => []IInv
BY InitIInv, StepIInv, PTL DEF Spec

\* The variables of run_mfbd, run_one_bundle and StateTransition keep their types.
THEOREM GuestTypes == Spec => []GuestTypeOK
<1>1. IInv => GuestTypeOK
  BY Zenon DEF IInv
<1> QED BY <1>1, RunInvariance, PTL

\* The committed block hash binds a chain of blocks, each valid on the state of its parent: for every
\* execution, every witness and every envelope, with no bound on the blocks of a bundle.
THEOREM ChainCommitted == Spec => []CommittedChain
<1>1. IInv => CommittedChain
  BY Zenon DEF IInv
<1> QED BY <1>1, RunInvariance, PTL

\* A run that has not failed commits the pre-state root of the first block it accepted, and none before.
THEOREM FirstAnchors == Spec => []AnchorOfFirst
<1>1. IInv => AnchorOfFirst
  BY Zenon DEF IInv
<1> QED BY <1>1, RunInvariance, PTL

-----------------------------------------------------------------------------
(* The host's count. It is made of a bundle at once, and the guest goes through its blocks one by one: the  *)
(* two meet when the bundle ends.                                                                           *)

\* f counts the first n of the blocks on top of e, as counted does all of them.
IsCount(f, e, blocks, n) ==
    f = [k \in 0..n |-> IF k = 0 THEN e ELSE add_block(f[k - 1], blocks[k])]

committed == [block_hash |-> block_hash_, gas_used |-> gas + bundle_gas]

\* Up to the block in hand there is a count, and all counts agree with the guest's values.
Abreast(e) ==
    /\ \E f : IsCount(f, e, bundle.blocks, i - 1)
    /\ \A n \in Nat : \A f : n >= i - 1 /\ IsCount(f, e, bundle.blocks, n) => f[i - 1] = committed

\* Between two bundles the host expects what the guest would commit; within one it has counted the blocks of
\* the bundle on top of what it had expected before.
HostInv ==
    /\ outcome = "running" /\ bundle = NoBundle => expected = committed /\ bundle_gas = 0
    /\ outcome = "running" /\ bundle # NoBundle =>
         \E e : expected = add_bundle_blocks(e, bundle) /\ Abreast(e)

\* There is a count of no block, and of one more block if there is one of those before it.
LEMMA CountStarts ==
    ASSUME NEW e, NEW blocks
    PROVE  /\ IsCount([k \in 0..0 |-> e], e, blocks, 0)
           /\ \A n \in Nat : \A f : IsCount(f, e, blocks, n) => f[0] = e
<1>1. IsCount([k \in 0..0 |-> e], e, blocks, 0)
  BY DEF IsCount
<1>2. ASSUME NEW n \in Nat, NEW f, IsCount(f, e, blocks, n)
      PROVE  f[0] = e
  <2>1. 0 \in 0..n
    OBVIOUS
  <2> QED BY Zenon, <1>2, <2>1 DEF IsCount
<1> QED BY Zenon, <1>1, <1>2

LEMMA CountGrows ==
    ASSUME NEW e, NEW blocks, NEW n \in Nat, NEW f, IsCount(f, e, blocks, n)
    PROVE  IsCount([k \in 0..(n + 1) |-> IF k <= n THEN f[k] ELSE add_block(f[n], blocks[n + 1])], e, blocks, n + 1)
<1> DEFINE g == [k \in 0..(n + 1) |-> IF k <= n THEN f[k] ELSE add_block(f[n], blocks[n + 1])]
<1>1. \A k \in 0..n : f[k] = IF k = 0 THEN e ELSE add_block(f[k - 1], blocks[k])
  BY Zenon DEF IsCount
<1>2. ASSUME NEW k \in 0..(n + 1) PROVE g[k] = IF k = 0 THEN e ELSE add_block(g[k - 1], blocks[k])
  <2>1. CASE k = 0
    BY <1>1, <2>1
  <2>2. CASE k \in 1..n
    <3>1. g[k] = f[k] /\ g[k - 1] = f[k - 1] /\ k \in 0..n
      BY <2>2
    <3> QED BY Zenon, <1>1, <2>2, <3>1
  <2>3. CASE k = n + 1
    <3>1. g[k] = add_block(f[n], blocks[n + 1]) /\ g[k - 1] = f[n] /\ k # 0
      BY <2>3
    <3> QED BY Zenon, <2>3, <3>1
  <2> QED BY <2>1, <2>2, <2>3
<1> HIDE DEF g
<1>3. g = [k \in 0..(n + 1) |-> g[k]]
  BY Zenon DEF g
<1>4. g = [k \in 0..(n + 1) |-> IF k = 0 THEN e ELSE add_block(g[k - 1], blocks[k])]
  BY Zenon, <1>2, <1>3
<1>5. IsCount(g, e, blocks, n + 1)
  BY Zenon, <1>4 DEF IsCount
<1> QED BY Zenon, <1>5 DEF g

\* Abreast of all blocks, the guest has the values the host counted.
LEMMA CountMet ==
    ASSUME NEW e, Abreast(e), i - 1 = Len(bundle.blocks), Len(bundle.blocks) \in Nat
    PROVE  add_bundle_blocks(e, bundle) = committed
<1> DEFINE n == Len(bundle.blocks)
<1>1. \E f : IsCount(f, e, bundle.blocks, n)
  BY Zenon DEF Abreast
<1>2. IsCount(counted(e, bundle.blocks), e, bundle.blocks, n)
  BY <1>1, Zenon DEF counted, IsCount
<1>3. counted(e, bundle.blocks)[n] = committed
  BY <1>2 DEF Abreast
<1> QED BY Zenon, <1>3 DEF add_bundle_blocks

\* The guest takes one more block, and its values become those that add_block makes of them.
LEMMA KeptAbreast ==
    ASSUME NEW e, Abreast(e), i \in Nat \ {0}, i' = i + 1, bundle' = bundle,
           committed' = add_block(committed, bundle.blocks[i])
    PROVE  Abreast(e)'
<1>1. PICK f : IsCount(f, e, bundle.blocks, i - 1)
  BY Zenon DEF Abreast
<1>2. \E h : IsCount(h, e, bundle.blocks, i)
  <2>1. i - 1 \in Nat /\ (i - 1) + 1 = i
    OBVIOUS
  <2>2. \E h : IsCount(h, e, bundle.blocks, (i - 1) + 1)
    BY Zenon, <1>1, <2>1, CountGrows
  <2> QED BY Zenon, <2>1, <2>2
<1>3. ASSUME NEW n \in Nat, NEW h, n >= i, IsCount(h, e, bundle.blocks, n)
      PROVE  h[i] = committed'
  <2>1. h[i - 1] = committed
    BY <1>3 DEF Abreast
  <2>2. h[i] = add_block(h[i - 1], bundle.blocks[i])
    BY <1>3 DEF IsCount
  <2> QED BY Zenon, <2>1, <2>2
<1>4. i' - 1 = i
  OBVIOUS
<1>5. \E h : IsCount(h, e, bundle'.blocks, i' - 1)
  BY Zenon, <1>2, <1>4
<1>6. \A n \in Nat : \A h : n >= i' - 1 /\ IsCount(h, e, bundle'.blocks, n) => h[i' - 1] = committed'
  BY Zenon, <1>3, <1>4
<1> QED BY Zenon, <1>5, <1>6 DEF Abreast, IsCount

\* A step of the guest through a bundle leaves the host's count alone.
LEMMA BundleGoesOn ==
    ASSUME HostInv, GuestTypeOK, Pending, i' = i + 1, UNCHANGED <<outcome, bundle, expected>>,
           committed' = add_block(committed, block)
    PROVE  HostInv'
<1>1. PICK e : expected = add_bundle_blocks(e, bundle) /\ Abreast(e)
  BY Zenon DEF HostInv, Pending
<1>2. i \in Nat \ {0}
  BY PendingBlock
<1>3. Abreast(e)'
  BY Zenon, <1>1, <1>2, KeptAbreast DEF block
<1>4. expected' = add_bundle_blocks(e, bundle') /\ bundle' # NoBundle
  BY Zenon, <1>1 DEF Pending
<1> QED BY Zenon, <1>3, <1>4 DEF HostInv, add_bundle_blocks

\* A block passed over counts for neither.
LEMMA PassedOver ==
    ASSUME HostInv, GuestTypeOK, AtBlock, Rejected,
           UNCHANGED <<bundle, expected, gas, bundle_gas, block_hash_>>
    PROVE  HostInv'
<1>1. Pending
  BY Zenon DEF AtBlock, Pending
<1>2. CASE block.expect_invalid
  <2>1. i' = i + 1 /\ outcome' = outcome
    BY Zenon, <1>2 DEF Rejected
  <2>2. committed' = add_block(committed, block)
    BY Zenon, <1>2 DEF committed, add_block
  <2> QED BY Zenon, <1>1, <2>1, <2>2, BundleGoesOn
<1>3. CASE ~block.expect_invalid
  BY Zenon, <1>3 DEF Rejected, Failed, HostInv
<1> QED BY Zenon, <1>2, <1>3

\* A bundle that starts is counted on top of what the guest would commit before it.
LEMMA CountBegins ==
    ASSUME HostInv, GuestTypeOK, BundleStarted
    PROVE  HostInv'
<1>1. PICK b \in Bundles : bundle' = b /\ expected' = add_bundle_blocks(expected, b)
  BY Zenon DEF BundleStarted
<1>2. i' = 1 /\ bundle_gas' = 0 /\ outcome = "running" /\ bundle = NoBundle
      /\ UNCHANGED <<gas, outcome, block_hash_>>
  BY Zenon DEF BundleStarted, BetweenBundles
<1>3. expected = committed /\ bundle_gas = 0
  BY Zenon, <1>2 DEF HostInv
<1>4. committed' = expected
  BY Zenon, <1>2, <1>3 DEF committed
<1>5. PICK e : e = expected
  BY Zenon
<1>6. Abreast(e)'
  <2>1. i' - 1 = 0
    BY <1>2
  <2>2. \E f : IsCount(f, e, b.blocks, 0)
    BY Zenon, CountStarts
  <2>3. \A n \in Nat : \A f : IsCount(f, e, b.blocks, n) => f[0] = e
    BY Zenon, CountStarts
  <2>4. \E f : IsCount(f, e, bundle'.blocks, i' - 1)
    BY Zenon, <1>1, <2>1, <2>2
  <2>5. \A n \in Nat : \A f : n >= i' - 1 /\ IsCount(f, e, bundle'.blocks, n) => f[i' - 1] = committed'
    BY Zenon, <1>1, <1>4, <1>5, <2>1, <2>3
  <2> QED BY Zenon, <2>4, <2>5 DEF Abreast, IsCount
<1>7. bundle' # NoBundle
  <2>1. b \in BundleFields
    BY Zenon, ConstantsAssumption
  <2>2. "genesis" \in DOMAIN b /\ "genesis" \notin DOMAIN NoBundle
    BY Zenon, <2>1 DEF BundleFields, NoBundle
  <2> QED BY Zenon, <1>1, <2>2
<1>8. expected' = add_bundle_blocks(e, bundle')
  BY Zenon, <1>1, <1>5
<1> QED BY Zenon, <1>7, <1>6, <1>8 DEF HostInv, add_bundle_blocks

\* Every step keeps the host's count beside the guest's.
LEMMA HostStep ==
    ASSUME GuestTypeOK, HostInv, HostAgrees, [Next]_vars
    PROVE  HostInv' /\ HostAgrees'
<1> USE DEF public, loop, guest, history
<1>1. CASE EnvelopeRejected \/ BundleRejected \/ NotExtending \/ Misplaced \/ RootAcceptedInVain
  BY Zenon, <1>1 DEF EnvelopeRejected, BundleRejected, NotExtending, Misplaced, RootAcceptedInVain, Failed,
              HostInv, HostAgrees
<1>2. CASE BundleStarted
  <2>1. outcome' # "success"
    BY Zenon, <1>2 DEF BundleStarted, BetweenBundles
  <2> QED BY Zenon, <1>2, <2>1, CountBegins DEF HostAgrees
<1>3. CASE BundleEnded
  <2>1. PICK e : expected = add_bundle_blocks(e, bundle) /\ Abreast(e)
    BY Zenon, <1>3 DEF BundleEnded, HostInv
  <2>2. Len(bundle.blocks) \in Nat /\ i - 1 = Len(bundle.blocks)
    <3>1. bundle \in Bundles
      BY Zenon, <1>3 DEF BundleEnded, GuestTypeOK
    <3>2. Len(bundle.blocks) \in Nat
      BY <3>1, Fields
    <3>3. i > Len(bundle.blocks) /\ i \in 1..(Len(bundle.blocks) + 1)
      BY Zenon, <1>3 DEF BundleEnded, GuestTypeOK
    <3> QED BY <3>2, <3>3
  <2>3. expected = committed
    BY Zenon, <2>1, <2>2, CountMet
  <2>4. /\ gas' = gas + bundle_gas /\ bundle_gas' = 0 /\ bundle' = NoBundle
        /\ UNCHANGED <<outcome, expected, block_hash_>> /\ outcome = "running"
    BY Zenon, <1>3 DEF BundleEnded
  <2>5. gas' + bundle_gas' = gas + bundle_gas
    BY <2>4 DEF GuestTypeOK
  <2>6. expected' = committed'
    BY Zenon, <2>3, <2>4, <2>5 DEF committed
  <2> QED BY Zenon, <2>4, <2>6 DEF HostInv, HostAgrees
<1>4. CASE RunEnded
  <2>1. expected = committed /\ bundle_gas = 0
    BY Zenon, <1>4 DEF RunEnded, BetweenBundles, HostInv
  <2>2. expected = [block_hash |-> block_hash_, gas_used |-> gas]
    BY <2>1 DEF committed, GuestTypeOK
  <2>3. outcome' # "running" /\ UNCHANGED <<expected, block_hash_, gas>>
    BY Zenon, <1>4 DEF RunEnded
  <2> QED BY Zenon, <2>2, <2>3 DEF HostInv, HostAgrees
<1>5. CASE Unread \/ NotValid \/ RootRejected
  <2>1. AtBlock /\ Rejected /\ UNCHANGED <<bundle, expected, gas, bundle_gas, block_hash_>>
    BY ZenonT(40), <1>5 DEF Unread, NotValid, RootRejected, executed, read
  <2>2. outcome' # "success"
    BY Zenon, <2>1 DEF AtBlock, Rejected, Failed
  <2> QED BY Zenon, <2>1, <2>2, PassedOver DEF HostAgrees
<1>6. CASE Accepted
  <2>1. executed /\ ~block.expect_invalid
    BY Zenon, <1>6 DEF Accepted
  <2>2. Pending /\ header.gas_used \in Nat
    BY Zenon, <2>1, ExecutedTypes
  <2>3. /\ i' = i + 1 /\ block_hash_' = block.hash /\ bundle_gas' = bundle_gas + header.gas_used
        /\ UNCHANGED <<outcome, bundle, expected, gas>>
    BY Zenon, <1>6 DEF Accepted
  <2>4. gas' + bundle_gas' = (gas + bundle_gas) + header.gas_used
    BY <2>2, <2>3 DEF GuestTypeOK
  <2>5. committed' = add_block(committed, block)
    BY Zenon, <2>1, <2>3, <2>4 DEF committed, add_block, header
  <2>6. HostInv'
    BY Zenon, <2>2, <2>3, <2>5, BundleGoesOn
  <2> QED BY Zenon, <2>2, <2>3, <2>6 DEF HostAgrees, Pending
<1>7. CASE UNCHANGED vars
  <2>1. UNCHANGED <<outcome, bundle, i, gas, bundle_gas, block_hash_, expected>>
    BY Zenon, <1>7 DEF vars
  <2>2. committed' = committed
    BY Zenon, <2>1 DEF committed
  <2>3. ASSUME NEW e, Abreast(e) PROVE Abreast(e)'
    <3>1. \E f : IsCount(f, e, bundle'.blocks, i' - 1)
      BY Zenon, <2>1, <2>3 DEF Abreast
    <3>2. \A n \in Nat : \A f : n >= i' - 1 /\ IsCount(f, e, bundle'.blocks, n) => f[i' - 1] = committed'
      BY Zenon, <2>1, <2>2, <2>3 DEF Abreast
    <3> QED BY Zenon, <3>1, <3>2 DEF Abreast, IsCount
  <2>4. ASSUME NEW e PROVE add_bundle_blocks(e, bundle') = add_bundle_blocks(e, bundle)
    BY Zenon, <2>1
  <2>5. HostInv'
    BY Zenon, <2>1, <2>2, <2>3, <2>4 DEF HostInv, add_bundle_blocks
  <2> QED BY Zenon, <2>1, <2>5 DEF HostAgrees
<1> QED BY Zenon, <1>1, <1>2, <1>3, <1>4, <1>5, <1>6, <1>7 DEF Next

\* What the host derives from the envelope alone is what a successful run of the guest commits, for any
\* number of bundles and blocks, any of which may be expected invalid.
THEOREM HostExpects == Spec => []HostAgrees
<1>1. Init => HostInv /\ HostAgrees
  BY DEF Init, HostInv, HostAgrees, committed
<1>2. GuestTypeOK /\ HostInv /\ HostAgrees /\ [Next]_vars => (HostInv /\ HostAgrees)'
  BY Zenon, HostStep
<1> QED BY <1>1, <1>2, GuestTypes, PTL DEF Spec
=============================================================================
