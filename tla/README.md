# Zilkworm in TLA+

A verification development for zilkworm: specifications of the parts of the system whose
correctness is a matter of state and order, TLC models that check them on small instances, and
TLAPS proofs of what matters most for every size.

## The system

Zilkworm executes an Ethereum block from a witness inside a zkVM and proves the execution.

* **Guest** (C++, `zilk_core/`). The input is an envelope of *bundles*; a bundle is a few blocks, the
  headers they need, and a *witness*: the accounts, slots, codes and trie nodes of the parent state that
  the blocks read. The witness is not trusted. `StateTransition` (`dev/state_transition.cpp`) runs the
  bundles; `Blockchain` and `ExecutionProcessor` execute a block with evmone on one of two states. A
  `DirectState` believes the witness's records while the block runs, and `check_root` binds what was read
  and written afterwards by walking the tries. A `HashState` builds what it can from the trie nodes first,
  counts what it could not prove absent, and accepts only if that count is zero. Both end in the grid
  walk (`core/trie_zz`), which computes the root after the block. The guest commits the hash of the last
  block it validated (Airbender), or gas, two roots, hash and chain id (Hypercube).
* **Host** (Rust, `prover/`). A *service* follows the chain. In the Airbender service a fetcher task gets
  each block and its witness and preflights it, a worker task proves it on a prover thread, and detached
  tasks post its status to Ethproofs. The Hypercube service has one loop, two prover locks and a task per
  block. Both use the fetcher with its cache directory and the Ethproofs client of `prover/common`.
  `public_output.rs` derives from the input what the guest has to commit.
* **Tools**: converters from witnesses and test fixtures to bundles, a QEMU runner, test runners.

What is hard in it, and therefore modelled:

1. The *untrusted witness*. What the guest reads may be missing, stale or invented, and each value must
   be bound, whatever happened to the account in between (deleted, revived, emptied, redeployed,
   recovered from trie nodes). Unit tests cover the cases someone thought of.
2. The *trie that is never whole*: the grid folds, splits, moves and deletes lines while it walks, and a
   wrong pointer shows only some updates later.
3. The *run over several blocks and bundles* with blocks that are expected to be rejected: what survives a
   rejection, which root anchors the run, and whether the host agrees on what is committed.
4. The *services*: tasks, a bounded channel, locks, threads that panic, detached posts, a node that lags,
   fetches that fail, files that are half written when the process dies.

## Modules

| Module | Models | From |
|---|---|---|
| `AirbenderService` | fetcher, worker, channel, posts | `prover_airbender/src/service.rs`, `main.rs`, `prove.rs` |
| `EthproofsStatus` | abstract: a block's status only moves forward | what the posts promise |
| `AirbenderServiceProofs` | the inductive invariant of `AirbenderService`, that every step keeps it, the theorems | |
| `HypercubeService` | the service loop, its locks, tasks and posts | `prover_hypercube/src/service.rs` |
| `TestService` | the EEST test mode and the number the guest folds its outcome into | `prover_hypercube/src/service.rs`, `state_transition.cpp` |
| `EthproofsClient` | one proof's post with its retries, over an unreliable network, with restarts | `common/src/ethproofs_client.rs` |
| `Fetcher`, `FetcherProofs` | the cached, retried and atomically renamed bundle, with crashes; proofs | `common/src/fetcher.rs` |
| `BlockProver` | the prover thread, its channels, panics and rebuilding | `prover_airbender/src/prove.rs` |
| `Services`, `ServiceProofs` | these parts of the host side by side; proofs about `HypercubeService`, `EthproofsClient` and `BlockProver`, and those of `FetcherProofs` | |
| `FlatBundle` | the envelope of bundles: the encoders' layout and the two readers | `flat_bundle.*`, `mfbd.rs`, `public_output.rs`, `eest_to_flat_bundle.cpp` |
| `MphfMap` | the perfect-hash map of a witness: its builders, in C++ and in Rust, and `find` | `mphf_builder.*`, `mphf_map.hpp`, `mfbd.rs` |
| `WorldState` | what the EVM sees of a state and what a diff makes of it | `account.*`, the state views |
| `DirectState`, `DirectStateProofs` | reads and writes on the witness's records, and the two root checks; proofs | `direct_state.*`, `state_transition.cpp` |
| `HashState`, `HashStateProofs` | reads and writes on the overlay, and the accept check; proofs | `hash_state.*`, `check_root_hashstate.hpp` |
| `WitnessTrie` | the sweep that builds the caches and the walk that confirms an absence | `hash_state.cpp` |
| `HashIndex` | the open-addressed index of `HashState`'s arenas | `hash_index.hpp` |
| `BlockHashWalk` | the BLOCKHASH walks of both states | `direct_state.cpp`, `hash_state.cpp` |
| `TrieNodes` | nodes and the reference trie of a map | |
| `GridMPT` | the walk over the grid of lines | `trie_zz/grid_mpt.*`, `fold_unfold.hpp`, `rlp_sw.hpp` |
| `HashBuilder` | the stack machine and the roots of lists | `trie/hash_builder.*`, `vector_root.hpp` |
| `StateTransition`, `StateTransitionProofs` | the run over bundles and blocks, the public values, the host's expectation; proofs | `state_transition.cpp`, `public_output.rs` |
| `TransactionRules` | intrinsic gas and the checks of a transaction that need no state | `intrinsic_gas.cpp`, `validation.cpp` |
| `BlockExecution`, `BlockExecutionProofs` | a block's execution around evmone: inclusion, gas, receipts, commitments; proofs | `processor.cpp`, `blockchain.cpp` |
| `Execution`, `ExecutionProofs` | `StateTransition` and `BlockExecution` side by side, and the theorems about the latter | |
| `MC...` | instances for TLC | |

The modules meet at contracts.

* `StateTransition` uses of the state that a root check passes only if the block read the parent's state
  and committed to what it made of it: `AcceptedIsRight` of `DirectState`. It has a block's execution as one
  step, which `BlockExecution` takes apart.
* `DirectState` and `HashState` use of the trie that a walk fails on a claim the trie does not hold and
  otherwise returns the updated trie: `ClaimsBound` and `RootRight` of `GridMPT`. `HashState` also uses
  that the sweep and the confirming walk decide exactly the keys the nodes lead to: `SweepExact` and
  `ConfirmedIsAbsent` of `WitnessTrie`.
* All of them take a lookup of the witness as the function it is meant to be: `EveryKeyFound` of `MphfMap` (the
  C++ builder's maps) and `IndexIsMap` of `HashIndex`. `StateTransition` takes an envelope as a sequence of
  bundles that guest and host read alike: `ReadAsWritten` of `FlatBundle`.
* `BlockExecution` takes a state diff as applied; `DirectState` and `HashState` have what it does.
* `AirbenderService` and `HypercubeService` have a fetch, a proof and a post as steps that may fail;
  `Fetcher`, `BlockProver` and `EthproofsClient` take them apart. Of the guest they use that a bundle is
  either one it accepts or one it rejects.

### AirbenderService

State: the configuration; the fetcher's program counter and locals (`next_block`, `latest`,
`fetch_failures`, `retried_queued_post`, `caught_up`, the item in hand); the channel `queue`; the worker's
program counter and locals; the posts of each block, the proof file and the log; the chain's `tip`. Each
action is the code between two awaits: `PollTip` is `get_block_number` and the skip-ahead that follows it,
`FetchOk`, `FetchRetry` and `FetchGiveUp` the three ways a fetch ends, `SendItem` the channel's send,
`GateSerial` and `GateConcurrent` the two preflight modes of `prove_item`, and so on; `PostQueued`,
`PostProving` and `PostProved` are the detached tasks. `ProverAborts` is the abort of the process that the
prover library makes of a bundle the guest rejects. History variables record what became of each block, and the chain's tip when a fetch last failed
(`failure_tip`).

The environment is as wide as the code allows: the node may report a tip up to `RpcLag` behind the chain
and go back on what it said; a fetch may fail at any attempt; a bundle may be one the guest rejects.

### The other services

`HypercubeService`: the loop takes a block, waits for the lock its work needs (`client1` to prove, either
to execute), and spawns a task that gives the lock back before it writes its files. A guest's gas is
positive, zero or the failure value. A proof on disk is whole, or only its head while the writer holds the
rest.

`EthproofsClient`: a request may be lost, delivered late or twice removed from its answer, which may be
lost in turn; the server keeps the first proof of a block and answers 409 to any other. The service may be
killed and prove the block anew while an old request is still under way.

`Fetcher`: names and files are apart, so that a rename moves a file that another step still reads. Each
write may fail or be cut by a crash; each removal may fail; a call to the node may fail until it is given
up. Every restart begins with whatever the directory holds.

`BlockProver`: the caller sends a request with the channel of its reply; a panic closes the worker's ends;
the caller then joins the thread and spawns another.

`TestService`: the gas of the bundles is added up in a small width, so that sums meet the two values that mean
failure and skipped; a bundle is one block, which uses at most `kMaxGasLimit`, half the width's range.

### What passes from the host to the guest

`FlatBundle`: a test fixture is split into bundles (`Convert`) or a request encoded as one (`Encode`), laid out
byte by byte where a byte is what is written there, the start of a block, a flag, a record, a count; `Read` is
the guest's reading and the host's, which look for the flags at offsets they compute each for itself.

`MphfMap`: `Add` puts an entry, `Finalize` to `Solved` are the loop of `chd_solve` over seeds, buckets and
displacements, with the mixer any function; a bucket that fits nowhere is spilled into the sidecar. The C++
encoder also spills whatever occupies a spilled key's slot, the Rust one does not. `HashIndex` has `Insert`,
`TryInsert`, `Reserve` and `Clear` over a table with linear probing, for any mixed values of the keys.

### The state of a block

`DirectState` has one record per address, as the code lays them out: where the record came from (witness,
created, recovered from the node store, none yet), nonce, balance, code, storage root, slots with their
initial and current values, the lists of absent reads and overflow slots, the cached leaf. Actions:
`GetAccount`, `ReadCode`, the four ways a slot read goes (`ReadSlot`, `ReadOverflow`, `ReadRecovered`,
`ReadAbsent`), the two halves of `apply_state_diff` (`ApplyModified`, `ApplyDeleted`), the phases of
`execute_block`, `Withdrawal`, and the root checks `CheckRoot` and `CheckRootNewBlock`.

`HashState` has the same interface over caches that never change and an overlay; `known` and `known_slots`
are the keys the witness's nodes decide. Where the two agree on what the EVM may do they share `WorldState`.

Data is abstract in both: a root *is* the map it commits to, so that equal roots mean equal maps (collision
resistance), a witness is any set of claimed records or of nodes, and the trie walk is its contract.
History variables `ref` and `agreed` hold the true state after what has been executed and whether
everything read agreed with it. The EVM is external: it reads a slot before it writes it, reads an account
before it deletes it, and is otherwise free. Scope: Spurious Dragon or later, before Amsterdam.

In `HashState` the EVM reads a code or a slot of an account it has loaded, so the branch of `resolve_for_read_` for one
it has not is not exercised. `WitnessTrie` is the sweep as the code does it, with its explicit stack and one path
buffer, over a trie given by its keys, with nodes pruned or undecodable; all keys have full length, so that the
zero-filling of a short leaf's is not exercised. `BlockHashWalk` asks both states the same questions
while headers are inserted, and compares each answer with a walk from scratch.

### The tries

In `GridMPT` a node is its own hash, and a hash can be unfolded only if the witness has the node. The grid
is a function from depths to lines, with the fields of `GridLine`. `NextUpdate` is the seek for the next
key, which folds what the key has left; `DescendBranch`, `DescendExt`, `InsertInBranch`, `SplitExt`,
`SplitLeaf` and `AtLeaf` are the cases of the descent in `calc_root_impl`; `FoldLast` and `FoldRoot` its end.
A branch whose layout is the witness node's is re-encoded by patching the dirty slots only, as in the code,
so that a slot that is changed and not marked is lost. `checks` is `state_keeps_prevalue_check`.

`HashBuilder` has the stack, the masks of open groups and the pending leaf, fed with leaves and known branch
hashes in key order, with the node encodings `rlp_collector` is called with (`collected`, which no property reads), and
`root_hash` of a list, which has to feed its indices in the order of their RLP.

### The run and the block

`StateTransition`: a header is its hash, a state is its root, and `Executes` says what a block makes of a
state. The loop of `run_one_bundle` is one action per way a block can go: `Misplaced`, `Unread` (headers,
decoding, size, engine record), `NotValid` (invalid, or the witness lacks data), `NotExtending`,
`RootRejected`, `RootAcceptedInVain`, `Accepted`. The state is three roots: the one the witness is bound
to, the one the next block reads, the one the records are by themselves. The host's fold over the same
bundles is kept alongside.

`BlockExecution`: blocks of growing revision are inserted one after the other into the same `Blockchain`.
A body with a transaction that fails `pre_validate_transaction` is rejected (`RejectBody`); otherwise the
transactions are taken one by one, each checked again on the state as it then is (`ExecuteTransaction`,
`RejectTransaction`), and the header's commitments are held against what came of it (`EndBlock`,
`EndFails`). evmone is external: a transaction uses all of the gas it was given, or none, in one dimension
or in two, fails or succeeds, delegates an account, and lets a delegated one be emptied. The header commits
to what evmone did, to what the code expects, or to something else.

## Runs

| Run | Checks | Shows |
|---|---|---|
| `airbender_service` | `NothingLostSilently`, `QueuedPostOnce`, `KeptProofsChecked`, `NeverEnqueuedTwice`, `RetriedNearTip`, `StatusMovesForward` | no selected block is dropped without a trace or proved twice; only checked proofs are kept; a block whose fetch failed is fetched again only on a tip reported since, and within `max_lag` of it; the posts refine `EthproofsStatus` |
| `services` | `NothingSkipped`, `ReportedIsStored`, `BundleWhole`, `ForcedIsFresh`, `OneProver`, `EveryKeyFound`, `ReadAsWritten` | the Hypercube loop skips no block; a proof reported as posted is stored; a bundle file is whole after any crash, and a forced fetch returns new data; never two GPU provers; a map finds the keys put in and no others; guest and host read an envelope as it was written |
| `services_live` | `BoundedRunEnds`, `EveryBlockHandled`, `HypercubeRunEnds`, `Delivered`, `CallsReturn` | a bounded Airbender run ends and every selected block is handled; the Hypercube loop waits for nothing for ever but an answer of the node; a proof is delivered when faults are fewer than attempts, every call of the prover returns |
| `direct_state` | `AcceptedIsRight`, `HonestAccepted`, `UpdatesDistinct`, `CachesFresh`; `RootRight`, `ClaimsBound`, `HonestWalkSucceeds`; `BuilderRootRight` | soundness and completeness of the root check, for any witness, with and without recovery from nodes, over one and two blocks; the grid's root is the updated trie's, every claim is bound, an honest witness suffices; the builder's root is the reference trie's |
| `hash_state` | `AcceptedIsRight`, `HonestAccepted`; `SweepExact`, `ConfirmedIsAbsent`; `DirectAnswersAsWalk`, `HashAnswersBound`; `IndexIsMap` | the same for `HashState`; the sweep and the absence walk are right about the trie; a kept BLOCKHASH walk answers as a new one; the index is a map after any growth |
| `state_transition` | `CommittedChain`, `AnchorOfFirst`, `HostAgrees`; `GasWithinLimit`, `CostsCovered`, `CommitmentsDecide` | what is committed is one valid chain, anchored at its first block's parent, and what the host expects; a block's gas stays within its limit, every transaction that runs is paid for, the header's commitments decide |
| `airbender_backlog` | `BacklogFirst` (violated) | the documented "backlog first" does not hold when the tip moves during a long pass |
| `airbender_last_post` | `ProvedPostedBeforeReturn` (violated) | the last block's `proved` post may be cut off by the end of the run |
| `hypercube_posted_proof` | `PostedProofWhole` (violated) | the proof is read back for its post before its writer is flushed |
| `test_service_verdict` | `VerdictIsRight` (violated) | the gas of a test file's bundles may add up to the value that means skipped, and a file that passed is counted so |
| `state_transition_ancestors` | `AncestorsAnchor` (violated) | ancestors need not end at the parent unless the bundle has engine records |
| `witness_map_rust` | `SidecarInvariant` (violated) | in a map the Rust encoder builds, a spilled key's slot may be taken, and `find` never gets to the sidecar for it |

A run that holds several modules (`services`, `services_live`, `direct_state`, `hash_state`,
`state_transition`) has a variable `part`: a behaviour is one of one module, chosen at its start, and the variables of the
others stay as they begin. They share no state, so nothing is lost by it.

The six violated properties are statements of the documentation or of comments; each is quoted, with the
line of code that decides otherwise, under `findings` in `PROJECT.json`.

Five further disagreements between a comment or a document and the code, met while modelling, have no run:

* `ethproofs_client.rs:160` takes a 409 on a retry for the call's own earlier attempt having arrived; after
  an attempt that was only rate-limited it may be another run's. `ReportedIsStored` says what still holds:
  some proof of the block is stored.
* `fetcher.rs:317` says the rename makes the bundle appear whole; two processes fetching the same block
  write to the same `.partial` name. `BundleWhole` is checked for one process, the service's own use.
* `prover_hypercube/src/service.rs:836` takes only a gas of zero for a failed execution, where
  `docs/architecture.md:122` has the failure value too.
* `hash_state.cpp:567` says the walk is "rewalked on the next BLOCKHASH" after a header is inserted; the
  list is cleared but not the header it was for, so the same header asked again finds an empty list and gets
  no answer. `HashAnswersBound` says what still holds: it never gets a wrong one.
* `docs/architecture.md:125` says that "the roots, block hash, and chain ID bind the proof to a concrete state
  transition"; of an envelope with several bundles, which need not be connected, the pre-state root is the first
  bundle's and the rest the last's. `AnchorOfFirst` and `CommittedChain` say what each of them is.

### Bounds

* `airbender_service`: blocks 0..3, channel of one, two fetch attempts, a lag of two, six configurations
  (from a start block or the tip, with and without an end, intervals of 1 to 3, both preflight modes, with
  and without Ethproofs). A retry, a give-up, a full channel, a skip ahead and a lagging answer can all
  happen to the same block or to neighbours, and the proofs lift the bounds.
* `services`: Hypercube with three blocks, so that a proof, an execution that has to wait for it and one that
  does not all meet, and every outcome of the guest; Ethproofs with the code's four attempts, five faults and
  two runs of the service on the same block; the fetcher with two attempts per call, three calls and two
  faults or crashes; four calls of the prover, enough for a panic while building, one while proving and a
  good call after each; maps of
  three entries over four keys, two of which are one in their short form, with one displacement and two seeds, so
  that buckets are spilled and seeds compared (`witness_map_rust` has the same); envelopes of up to three blocks
  of sizes 1 to 3 under an alignment of 2, on it and off it, with up to two hashes in an engine record.
* `services_live`: the same parts with fewer faults (three, where the client has four attempts), one run and
  three prover calls.
* `direct_state`: one address with two slots, since records of different addresses share nothing but the
  account trie, whose clash rule (`UpdatesDistinct`) concerns twins of one address. Two diffs are enough
  to delete and revive, empty and fill, write and write back. Three scenarios: records alone; a state recovered
  from the node store, from a parent with or without a contract, where the highest header's root is the
  parent's or any other; two blocks, where a cache filled in the first is used in the second. The grid: six keys of
  four nibbles chosen to share prefixes of every length, so that a single delete may collapse a branch into an
  extension or a leaf at any depth; tries of up to four keys, walks of up to three updates, five keys in all; values
  that make a leaf embedded or hashed. The builder: lists of lengths around 0, 1, 16 and 128, where the RLP of an
  index changes its form or its place in the order.
* `hash_state`: one address with two slots, three diffs, every choice of keys the nodes decide and of codes
  present. The sweep: all tries of up to two keys of three nibbles, with at most one node pruned or
  undecodable. BLOCKHASH: four headers and a fork of two, three blocks that ask, a window of three. The index:
  three keys with mixed values in 0..7, so that every clash and every wrap of a probe happens, and a table that
  grows twice, to eight.
* `test_service_verdict`: two test files of up to two bundles, in arithmetic of width 4; a bundle uses 0, 1 or 7 gas,
  7 being `kMaxGasLimit` in that width.
* `state_transition`: up to two bundles of up to three blocks over seven headers: a chain of three, a fork
  that commits to what it makes of its sibling's state, a block with a wrong root, a block valid only on
  the records of a partial witness. Execution: two senders, one of them a contract or not, up to three
  transactions in up to two blocks, six kinds of transaction (gas at the intrinsic minimum, at the cap and
  above it; data whose floor is above the cap), revisions on both sides of each change of the rules, a block
  limit of two transactions' gas.

### Fairness

Only `services_live` assumes any. In the Airbender service the fetcher, the worker, the preflight task, each
detached post and the return of the run are weakly fair: tokio runs a ready task eventually, and a fetch, a
preflight, a proof and a post all end, by a timeout or by the cycle limit. A fetch that keeps failing is
given up after `MAX_FETCH_ATTEMPTS`, so nothing is assumed of its outcome. The one assumption about the node
is strong fairness of a poll that reports the tip: a node whose every answer is behind stops any service.
Nothing is assumed of the chain's growth there.

In the Hypercube service nothing is assumed of the node. Its loop awaits the block number and the fetch without a
timeout, so only the steps of the loop that take no answer of the node's are weakly fair (`OwnStep`), and each task is:
`prove` is cut after 30 minutes, and an execution, which has no limit of its own there, is taken to end.
`HypercubeRunEnds` says what follows: every wait for a lock ends, and a run with an end block returns unless a call
to the node stays unanswered for ever. In the Ethproofs client the client's own steps are (its timers
fire), an answer or the request's timeout comes, and faults are fewer than attempts. The prover's caller and
thread are weakly fair: a proof ends or panics.

Deadlock is checked in `airbender_service`. The other models end where the run, the block or the bounded
number of calls does.

## Proofs

TLC checks a small instance, TLAPS the same definitions for every value of the constants. `Services` and
`Execution` instantiate the parts a run puts side by side; a theorem about a part is about that part's own
specification (`Processor!Spec => []GasWithinLimit`), which is what a behaviour of the run does in that part. Where
a module is instantiated, its `ConstantsAssumption` is a hypothesis of the theorem; the MC modules assume it,
so that TLC evaluates it. These assumptions only say of what kind a constant is: bounds are numbers (of attempts
at least one), sets of configurations, requests and witnesses are sets of such, a transaction's `non_zero` bytes
are among its data and only a blob transaction has blobs.

None of the safety properties is inductive. Each invariant below was an invariant of a TLC run on a small instance
before it was proved.

**`AirbenderServiceProofs`**, for every chain length, channel capacity, number of attempts, lag and set of
configurations: `TypeOK`, `NothingLostSilently`, `QueuedPostOnce`, `KeptProofsChecked`, `NeverEnqueuedTwice`,
`RetriedNearTip`, that a service with serial preflight never aborts (`SerialPreflightNeverAborts`, which no run
repeats), and that the service implements `EthproofsStatus` (`StatusRefined`). The properties are about blocks
that several parts of the pipeline hold at different times, so the invariant says for each part what it holds and
how that relates to the block's history: the fetcher's item is for `next_block` and carries its only queued post
(`FetcherInv`, `RetryInv`); nothing has happened to blocks past `next_block` (`FutureInv`); the failures counted
are the block's own (`AttemptsInv`); items in the channel and in the worker were enqueued and carry what was
served (`QueueInv`, `WorkerInv`); posts are only ever spawned in order (`PostsInv`). Each part has a lemma that
every step keeps it. `RetriedNearTip` has a strengthening of its own, `LagInv`: what holds of the fetch of a failed
block holds of the scan that leads to it, and the tip never falls below the one of the last failure; with `FutureInv`,
only a new answer to a poll brings the fetcher back to a block that has failed.

**`ServiceProofs`** and **`FetcherProofs`**:

* `NothingSkipped` for every chain length and set of configurations, with `LocksMatchWork`: the two locks and the
  tasks at their provers are matched one to one, through every way out of a task.
* `OneProver` for any number of calls. The invariant counts: every thread but the last spawned has ended, and a
  call spawns at most two workers, since it joins the old one first.
* `ReportedIsStored` for any numbers of attempts, faults and runs of the service, and any waits: an answer that
  says the server has the proof is only ever under way when it has one. With it `CallBounded`: no call posts more
  than `PROVED_ATTEMPTS` times or waits longer than `MAX_RETRY_WAIT`, whatever wait the server names.
* `BundleWhole` and `ForcedIsFresh` for any number of attempts, calls, crashes and failing writes, of one process
  (`Procs = {p}`, the services' use; with two the first is false, as said above). The invariant follows names and
  files apart: the bundle's file is none that a cached response or the partial name points to (`NamesInv`), the
  file a call writes is the one its name has (`CallInv`), what a call has got is not torn (`GotInv`), and a forced
  call without a fault of its own finds no cached response it has not written itself (`FreshInv`).

**`DirectStateProofs`**, for any addresses, slots, values and balances, any parent states and witnesses, with
records, address map, node store and codes true or false, any number of blocks and diffs: the root checks are
sound (`AcceptedIsRight`) and complete (`HonestAccepted`), the updates of a walk are distinct (`UpdatesDistinct`)
and cached leaves are right where they are used (`CachesFresh`). While the block runs nothing is known of what it
reads, so the invariant is conditional. `Claims` says of a record what the walks will later be asked: that the
leaf it came with is the parent's, that its slots and absent reads are what its root holds, that what a
redeployment or a deletion wiped was right too. `Fits` says that the record, with its overflow and recovered slots
over its root, is the account's true leaf. As long as all claims hold, every read was right and all records fit
(`SoundInv`); of an honest witness only what it leaves out can fail a claim (`HonestInv`). `check_root` turns the
first into a fact: its walks succeed exactly when the claims hold, and their root is that of the true state. From
the second block on nothing is walked, and the invariant is `Settled` instead: the whole-state check has shown
that the records hold all of the state, and all cached leaves but the journal's are those of their records.
`Shape` and `Placed` say what a record can look like by itself, which all of this needs: a slot in one place only,
what was recovered is what the root holds, a deleted record empty, slots written only in a record that is marked.

**`HashStateProofs`**, for any addresses, slots, values, parent states, sets of nodes and of codes, and any number of
diffs: `AcceptedIsRight` and `HonestAccepted` of `HashState`. As long as no read is counted as unconfirmed, the
overlay over the parent's trie is the true state and every read was right (`SoundInv`, with `Fits` for one
account); with all nodes there only a code body that is missing is counted (`CompleteInv`).

**`BlockExecutionProofs`**, for any accounts, transactions, limits, fees and caps, and any number of blocks:
`GasWithinLimit`, `CostsCovered`, `CommitmentsDecide`. `BlockInv` says that receipts, sums and access list are
those of what evmone returned for this block and no earlier one. The sum along a sequence is a recursive
function; that there is exactly one for the transactions so far is carried along step by step (`SumInv`) in place
of an induction.

**`StateTransitionProofs`**, for every header tree, execution function and set of bundles, with any number of
blocks: the committed block hash binds a chain of blocks each valid on its parent's state (`ChainCommitted`), and
the committed pre-state root is that of the first accepted block, with nothing committed before
(`FirstAnchors`). The strengthening says what the loop knows of the state: before the first root check the block
reads what the witness is bound to; after it, the held state is, all of it, the state of the block accepted last.
The latter needs the whole-state check of `run_one_bundle`, and both need that a rejected block is the last its
bundle runs. And what the host derives from the envelope alone is what a successful run commits (`HostAgrees`).
The host's loop over a bundle is a recursive function, evaluated when the guest takes the bundle, while the guest
gets to the same values block by block: `Abreast` carries along that any count over the blocks up to the one in
hand has reached what the guest would commit now, `HostInv` that this is so between bundles too.

What the proofs about the states take for granted is what the models do: equal roots are equal maps, and a walk
is its contract. The contract itself is only model-checked, in `direct_state`.

Only model-checked:

* the liveness properties: no reasoning about fairness or `ENABLED` in the prover;
* `RootRight`, `ClaimsBound`, `HonestWalkSucceeds`, `BuilderRootRight`, `SweepExact`, `ConfirmedIsAbsent`, the
  BLOCKHASH walks, `EveryKeyFound`, `IndexIsMap`: their references (the trie of a map, a walk from scratch, a
  probe) are recursive, and what a recursive definition computes needs an induction over data, which the
  installed provers cannot instantiate;
* `ReadAsWritten`: the same, of folds over the bundles' sections.

## Not modelled

`PROJECT.json` lists every part with its status and reason. By size, two thirds of the source are the genesis
allocations and other tables of constants in `core/chain`, which have no behaviour, so that the mapped share of
all lines is small even where every component with state is modelled. Left out besides:

* encodings (RLP, SSZ, the bytes of a map and of a bundle's other sections), cryptography, the EVM, command lines,
  the conversion of a state to a witness and bare-metal runtimes: pure functions of one input, without protocol or order;
* the Turbo prover, which does not compile as it stands;
* the `run_sib` and `run_ejsn` entries of the guest, which wrap the code `StateTransition` models;
* of the header rules, base fee, excess blob gas, ommers and the blob limit of a block: stateless predicates
  whose verdict is a constant of `StateTransition`. The DAO transfer of the one fork block;
* of the tries, `kMaxLines` (no key of four nibbles reaches it), the hash builder's node collector, and the
  saved keccak states a branch's hash is resumed from (a hash is its node here). That the sweep ends is not a property of its own: every path pushes
  strictly longer paths.

What would add most next: that the grid's root is the updated trie's for any key length and any updates, which
needs a formulation of the reference trie without recursion.
