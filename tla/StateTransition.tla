-------------------------- MODULE StateTransition --------------------------
(***************************************************************************)
(* StateTransition::run over an MFBD envelope: the bundles one after the   *)
(* other (run_mfbd), the blocks of a bundle one after the other            *)
(* (run_one_bundle), the public values they leave, and the value the host  *)
(* expects for the same envelope (public_output.rs).                       *)
(*                                                                         *)
(* A header is named by its hash and Header[h] holds what the code reads   *)
(* of it.  A state is named by its root.  Executes[<<r, h>>] is the root of    *)
(* the state that block h makes of state r, or Invalid where the block is  *)
(* not valid on it (its transactions, gas or receipts do not match).       *)
(*                                                                         *)
(* DirectState appears by what check_root promises of it (module           *)
(* DirectState): three roots are enough for that.                          *)
(*   bound    the state the witness's values are walked against: a root    *)
(*            check passes only from this root, NoRoot if from none        *)
(*   view     the state the next block reads                               *)
(*   records  the state that the held records are on their own             *)
(* A witness of part of the state is bound to a root its records are not.  *)
(*                                                                         *)
(* Decoding, sizes, engine records, nodes the witness lacks and the like   *)
(* are outcomes the input decides; the model lets each happen wherever the *)
(* code can meet it.                                                       *)
(***************************************************************************)
EXTENDS Integers, Sequences, SequencesExt

CONSTANTS
    Hash,       \* the hashes of the headers
    ZeroHash,   \* evmc::bytes32{}, no header's hash
    Root,       \* the roots of the states
    NoRoot,     \* evmc::bytes32{}, no state's root
    Invalid,    \* no state: the block is not valid on the state it ran on
    Header,     \* Hash -> what the code reads of a header
    Executes,   \* what a block makes of a state
    ChainId,    \* kNetworkConfig: network -> chain id
    Bundles,    \* the flat bundles an envelope may hold
    MaxBundles  \* bound on the bundles of an envelope

HeaderFields == [parent_hash: Hash \union {ZeroHash}, number: Nat, state_root: Root, gas_used: Nat]

BlockFields == [hash: Hash, expect_invalid: BOOLEAN]

\* FlatBundle as load_flat_bundle returns it, and the witness as it binds (above).
BundleFields ==
    [genesis: Hash, ancestors: Seq(Hash), ancestors_well_formed: BOOLEAN, engine_records: BOOLEAN,
     blocks: Seq(BlockFields), network: STRING, bound: Root \union {NoRoot}, records: Root]

ASSUME ConstantsAssumption ==
    /\ ZeroHash \notin Hash
    /\ NoRoot \notin Root
    /\ Invalid \notin Root
    /\ Header \in [Hash -> HeaderFields]
    /\ Executes \in [Root \X Hash -> Root \union {Invalid}]
    /\ DOMAIN ChainId \subseteq STRING
    /\ \A n \in DOMAIN ChainId : ChainId[n] \in Nat \ {0}
    /\ Bundles \subseteq BundleFields
    /\ MaxBundles \in Nat

\* Not a bundle: the run is between two bundles.
NoBundle == [blocks |-> <<>>, network |-> "none"]

VARIABLES
    \* run_mfbd
    bundles,           \* how many bundles have been taken from the envelope
    gas,               \* cumulative_gas of run_mfbd
    outcome,           \* "running", or how the run ended
    \* run_one_bundle
    bundle,            \* the bundle in hand, or NoBundle
    i,                 \* the block in hand, counted from 1
    bundle_gas,        \* cumulative_gas of run_one_bundle
    first_root_check,
    headers,           \* DirectState::headers_
    state,             \* DirectState: [bound, view, records]
    \* StateTransition's members
    pre_state_root_, pre_root_set_, post_state_root_, block_hash_, chain_id_,
    \* the host
    expected,          \* Expected, folded over the bundles the guest has taken
    \* history
    trail,             \* the blocks accepted in the bundle of the last one accepted
    first              \* the first block accepted in the run

guest == <<bundles, gas, outcome>>
loop == <<bundle, i, bundle_gas, first_root_check, headers, state>>
public == <<pre_state_root_, pre_root_set_, post_state_root_, block_hash_, chain_id_>>
history == <<trail, first>>
vars == <<guest, loop, public, expected, history>>

NoState == [bound |-> NoRoot, view |-> NoRoot, records |-> NoRoot]

Init ==
    /\ bundles = 0 /\ gas = 0 /\ outcome = "running"
    /\ bundle = NoBundle /\ i = 1 /\ bundle_gas = 0 /\ first_root_check = TRUE
    /\ headers = {} /\ state = NoState
    /\ pre_state_root_ = NoRoot /\ pre_root_set_ = FALSE
    /\ post_state_root_ = NoRoot /\ block_hash_ = ZeroHash /\ chain_id_ = 0
    /\ expected = [block_hash |-> ZeroHash, gas_used |-> 0]
    /\ trail = <<>> /\ first = ZeroHash

-----------------------------------------------------------------------------
(* The host *)

\* A block the host counts: one the guest has to validate for the run to succeed.
add_block_M1(e, b) == [block_hash |-> b.hash, gas_used |-> e.gas_used + Header[b.hash].gas_used]

add_block(e, b) ==
    IF b.expect_invalid
        THEN e
        ELSE [block_hash |-> b.hash, gas_used |-> e.gas_used + Header[b.hash].gas_used]

\* The loop over a bundle's blocks: what is expected after each of them.
counted(e, blocks) ==
    LET count[k \in 0..Len(blocks)] == IF k = 0 THEN e ELSE add_block(count[k - 1], blocks[k])
    IN  count

add_bundle_blocks(e, b) == counted(e, b.blocks)[Len(b.blocks)]

-----------------------------------------------------------------------------
(* run_mfbd: the envelope *)

BetweenBundles == outcome = "running" /\ bundle = NoBundle

\* failed_ is set and kRunFailure returned: what the bundle holds is dropped with it.
Failed == outcome' = "failed"

\* Witness headers chain up to the parent: asked only of a stateless new-payload input.
contiguous(b) ==
    /\ \A k \in 2..Len(b.ancestors) : Header[b.ancestors[k]].parent_hash = b.ancestors[k - 1]
    /\ b.genesis = Last(b.ancestors)

witness_headers_valid(b) ==
    /\ b.ancestors_well_formed
    /\ (b.engine_records /\ b.ancestors # <<>>) => contiguous(b)

\* The envelope's header is too small or of another version.
EnvelopeRejected ==
    /\ BetweenBundles /\ bundles = 0
    /\ Failed
    /\ UNCHANGED <<bundles, gas, loop, public, expected, history>>

\* The bundle does not load, its witness fails sanitize(), or its network has no configuration.  The host
\* need not have read it.
BundleRejected ==
    /\ BetweenBundles /\ bundles < MaxBundles
    /\ Failed
    /\ UNCHANGED <<bundles, gas, loop, public, expected, history>>

\* A bundle is loaded; its headers are kept under their own hashes, the genesis by Blockchain's constructor.
BundleStarted ==
    /\ BetweenBundles /\ bundles < MaxBundles
    /\ \E b \in Bundles :
        /\ b.network \in DOMAIN ChainId
        /\ bundle' = b
        /\ headers' = Range(b.ancestors) \union {b.genesis}
        /\ state' = [bound |-> b.bound, records |-> b.records,
                     view |-> IF b.bound = NoRoot THEN b.records ELSE b.bound]
        /\ chain_id_' = ChainId[b.network]
        /\ expected' = add_bundle_blocks(expected, b)
    /\ bundles' = bundles + 1
    /\ i' = 1 /\ bundle_gas' = 0 /\ first_root_check' = TRUE
    /\ UNCHANGED <<gas, outcome, pre_state_root_, pre_root_set_, post_state_root_, block_hash_, history>>

BundleEnded ==
    /\ outcome = "running" /\ bundle # NoBundle
    /\ i > Len(bundle.blocks)
    /\ gas' = gas + bundle_gas
    /\ bundle' = NoBundle /\ i' = 1 /\ bundle_gas' = 0 /\ first_root_check' = TRUE
    /\ headers' = {} /\ state' = NoState
    /\ UNCHANGED <<bundles, outcome, public, expected, history>>

\* The envelope's last bundle is done: cumulative_gas, or kRunSkipped for an envelope without any.
RunEnded ==
    /\ BetweenBundles
    /\ outcome' = IF bundles = 0 THEN "skipped" ELSE "success"
    /\ UNCHANGED <<bundles, gas, loop, public, expected, history>>

-----------------------------------------------------------------------------
(* run_one_bundle: the blocks *)

block == bundle.blocks[i]
header == Header[block.hash]
multi_block == Len(bundle.blocks) > 1

\* A block is in hand, and it may be run.
misplaced_M1 == FALSE

misplaced == block.expect_invalid /\ i < Len(bundle.blocks)

AtBlock == outcome = "running" /\ bundle # NoBundle /\ i <= Len(bundle.blocks) /\ ~misplaced

\* A block that is rejected is passed over if that is expected of it and fails the run otherwise.
Rejected ==
    IF block.expect_invalid
        THEN i' = i + 1 /\ UNCHANGED outcome
        ELSE Failed /\ UNCHANGED i

\* Nothing undoes a rejected block: one expected invalid has to be the last.
Misplaced ==
    /\ outcome = "running" /\ bundle # NoBundle /\ i <= Len(bundle.blocks)
    /\ misplaced
    /\ Failed
    /\ UNCHANGED <<bundles, gas, loop, public, expected, history>>

\* The witness headers are not valid, the block does not decode, is too large for its fork, or is not the
\* one its engine record names.
Unread ==
    /\ AtBlock
    /\ Rejected
    /\ UNCHANGED <<bundles, gas, bundle, bundle_gas, first_root_check, headers, state, public, expected, history>>

\* The block is read, and what comes before its execution holds.
read == AtBlock /\ (i = 1 => witness_headers_valid(bundle))

\* Blockchain::insert_block: the parent is looked up by its hash, whatever its number, and the block runs.
parent_known == header.number # 0 /\ header.parent_hash \in headers

result == Executes[<<state.view, block.hash>>]

\* The records a block leaves: the state it made if they were the whole state, any other if they were not.
left_records == IF state.records = state.view THEN {result} ELSE Root

\* The block is not valid, or read data the witness omits (code, an ancestor's hash).  It may have changed
\* the state before that was found.
NotValid ==
    /\ read
    /\ \/ ~parent_known /\ UNCHANGED state
       \/ parent_known /\ \E r \in Root : state' = [state EXCEPT !.view = r, !.records = r]
    /\ Rejected
    /\ UNCHANGED <<bundles, gas, bundle, bundle_gas, first_root_check, headers, public, expected, history>>

executed == read /\ parent_known /\ result # Invalid

\* A bundle is one chain: a later block extends the block validated before it.
extends_previous_M1 == TRUE

extends_previous == first_root_check \/ header.parent_hash = block_hash_

NotExtending ==
    /\ executed /\ ~extends_previous
    /\ Failed
    /\ UNCHANGED <<bundles, gas, loop, public, expected, history>>

\* direct_state.read_header(...)->state_root in check_root: insert_block has found the parent.
prev_root == Header[header.parent_hash].state_root

\* check_root: the first in the run anchors the pre-state root.
anchored ==
    IF first_root_check /\ ~pre_root_set_
        THEN pre_state_root_' = prev_root /\ pre_root_set_' = TRUE
        ELSE UNCHANGED <<pre_state_root_, pre_root_set_>>

\* check_root for the first block, check_root_new_block for a later one, given the records left.
root_matches(records) ==
    IF first_root_check
        THEN state.bound = prev_root /\ result = header.state_root
        ELSE records = header.state_root

\* A rejected block anchors nothing in the public values: an anchor the failed check set is taken back.
unanchored_M1 == anchored

unanchored ==
    IF block.expect_invalid
        THEN UNCHANGED <<pre_state_root_, pre_root_set_>>
        ELSE anchored \/ UNCHANGED <<pre_state_root_, pre_root_set_>>

\* The root check fails.  It may do so for nodes the witness lacks, and before it anchors anything.
RootRejected ==
    /\ executed /\ extends_previous
    /\ \E r \in left_records :
        /\ first_root_check \/ ~root_matches(r)
        /\ state' = [state EXCEPT !.view = result, !.records = r]
    /\ unanchored
    /\ first_root_check' = IF block.expect_invalid THEN FALSE ELSE first_root_check
    /\ Rejected
    /\ UNCHANGED <<bundles, gas, bundle, bundle_gas, headers, post_state_root_, block_hash_, chain_id_,
                   expected, history>>

\* A later block's root is rebuilt from the records alone, so they have to be the whole state of the first.
whole_M1(records) == TRUE

whole(records) == first_root_check /\ multi_block => records = header.state_root

\* The root matches but the records are not the whole state, or the block was expected invalid.
RootAcceptedInVain ==
    /\ executed /\ extends_previous
    /\ \E r \in left_records : root_matches(r) /\ (~whole(r) \/ block.expect_invalid)
    /\ anchored
    /\ Failed
    /\ UNCHANGED <<bundles, gas, loop, post_state_root_, block_hash_, chain_id_, expected, history>>

\* The block is validated: the last one in the run is the committed post-state root and block hash.
Accepted ==
    /\ executed /\ extends_previous /\ ~block.expect_invalid
    /\ \E r \in left_records :
        /\ root_matches(r) /\ whole(r)
        /\ state' = [state EXCEPT !.view = r, !.records = r]
    /\ anchored
    /\ first_root_check' = FALSE
    /\ post_state_root_' = header.state_root
    /\ block_hash_' = block.hash
    /\ headers' = headers \union {block.hash}
    /\ bundle_gas' = bundle_gas + header.gas_used
    /\ i' = i + 1
    /\ trail' = IF first_root_check THEN <<block.hash>> ELSE Append(trail, block.hash)
    /\ first' = IF first = ZeroHash THEN block.hash ELSE first
    /\ UNCHANGED <<bundles, gas, outcome, bundle, chain_id_, expected>>

Next ==
    \/ EnvelopeRejected \/ BundleRejected \/ BundleStarted \/ BundleEnded \/ RunEnded
    \/ Misplaced \/ Unread \/ NotValid \/ NotExtending
    \/ RootRejected \/ RootAcceptedInVain \/ Accepted

Spec == Init /\ [][Next]_vars

-----------------------------------------------------------------------------
(* Properties *)

\* The guest's variables hold what their declarations say.
GuestTypeOK ==
    /\ bundles \in 0..MaxBundles /\ gas \in Nat
    /\ outcome \in {"running", "failed", "skipped", "success"}
    /\ bundle \in Bundles \union {NoBundle}
    /\ i \in 1..(Len(bundle.blocks) + 1)
    /\ bundle_gas \in Nat /\ first_root_check \in BOOLEAN
    /\ headers \subseteq Hash
    /\ state \in [bound: Root \union {NoRoot}, view: Root \union {NoRoot}, records: Root \union {NoRoot}]
    /\ bundle # NoBundle => state.view \in Root /\ state.records \in Root
    /\ pre_state_root_ \in Root \union {NoRoot} /\ pre_root_set_ \in BOOLEAN
    /\ post_state_root_ \in Root \union {NoRoot} /\ block_hash_ \in Hash \union {ZeroHash}
    /\ chain_id_ \in Nat
    /\ trail \in Seq(Hash) /\ first \in Hash \union {ZeroHash}

\* A block executes to the state its header commits to, on the state its parent's header commits to.
ValidOnParent(h) ==
    LET parent == Header[Header[h].parent_hash] IN
    Executes[<<parent.state_root, h>>] = Header[h].state_root

\* The committed block hash binds its bundle's chain: the blocks run_one_bundle accepted in that bundle
\* each extend the one before, the committed hash and post-state root are the last one's, and every one of
\* them is valid on the state of the parent its header names.
CommittedChain ==
    /\ \A k \in 1..Len(trail) : ValidOnParent(trail[k])
    /\ \A k \in 2..Len(trail) : Header[trail[k]].parent_hash = trail[k - 1]
    /\ trail # <<>> =>
        block_hash_ = trail[Len(trail)] /\ post_state_root_ = Header[block_hash_].state_root
    /\ trail = <<>> => block_hash_ = ZeroHash

\* The committed pre-state root is the one of the parent of the first block the run accepted: in a run that
\* has not failed, a rejected block has anchored nothing.
AnchorOfFirst ==
    outcome # "failed" =>
        /\ pre_root_set_ = (first # ZeroHash)
        /\ pre_state_root_ = IF first = ZeroHash
                                 THEN NoRoot
                                 ELSE Header[Header[first].parent_hash].state_root

\* What the host derives from the envelope alone (expected_for_mfbd) is what a successful run commits.
HostAgrees ==
    outcome = "success" => expected = [block_hash |-> block_hash_, gas_used |-> gas]

\* "The last ancestor MUST be the parent of the first block - its number one less, its hash equal to the
\* block's parent_hash - and each earlier ancestor MUST be the parent of the next; otherwise ... the bundle
\* MUST be rejected" (docs/mfbd_design_specs.md), of a bundle whose first block run_one_bundle has accepted.
AncestorsAnchor ==
    (bundle # NoBundle /\ i > 1 /\ ~bundle.blocks[1].expect_invalid /\ bundle.ancestors # <<>>) =>
        LET opening == Header[bundle.blocks[1].hash] IN
        /\ opening.parent_hash = Last(bundle.ancestors)
        /\ opening.number = Header[Last(bundle.ancestors)].number + 1
        /\ \A k \in 2..Len(bundle.ancestors) :
            Header[bundle.ancestors[k]].parent_hash = bundle.ancestors[k - 1]
=============================================================================
