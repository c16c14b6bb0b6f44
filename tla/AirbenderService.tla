--------------------------- MODULE AirbenderService ---------------------------
(***************************************************************************)
(* The pipelined fetch / prove service of                                  *)
(* prover/prover_airbender/src/service.rs: a fetcher task and a prover     *)
(* worker task joined by a bounded channel, and the background tasks that  *)
(* post a block's status to Ethproofs.                                     *)
(*                                                                         *)
(* The environment is the chain (tip), the node's answers to eth_blockNumber*)
(* (the tip, or less when the node lags), the fetch (succeeds,             *)
(* fails or times out), the bundle's content (a bundle the guest accepts   *)
(* within the cycle bound, or not), the prover and the Ethproofs posts.    *)
(***************************************************************************)
EXTENDS Integers, Sequences, FiniteSets

CONSTANTS
  MaxBlock,               \* bound: the highest block the chain reaches
  None,                   \* Option::None
  Configs,                \* the service configurations a run starts from
  PROVER_QUEUE_CAPACITY,  \* service.rs: the capacity of the channel
  MAX_FETCH_ATTEMPTS,     \* service.rs: failed fetches after which a block is skipped
  RpcLag                  \* bound: how far behind the tip the node's answers may be

Blocks == 0..MaxBlock

\* ServiceConfig, with the two fields AirbenderService::new derives from the
\* environment (eth_client, serial_preflight). An interval of 0 stands for
\* both None and Some(0), which matches_interval treats alike.
ServiceConfig ==
  [start_block : Blocks \cup {None}, end_block : Blocks \cup {None},
   prove_every : Nat, execute_every : Nat, save_all_responses : BOOLEAN,
   max_lag : Nat, eth_client : BOOLEAN, serial_preflight : BOOLEAN]

ASSUME ConstantsAssumption ==
  /\ MaxBlock \in Nat
  /\ None \notin Int
  /\ PROVER_QUEUE_CAPACITY \in Nat \ {0}
  /\ MAX_FETCH_ATTEMPTS \in Nat \ {0}
  /\ RpcLag \in Nat
  /\ Configs \subseteq ServiceConfig

VARIABLES
  config,              \* self.config
  process,             \* the operating system's view of the service process
  tip,                 \* the chain's highest block
  \* the fetcher task
  fpc, next_block, latest, block_number, fetch_failures,
  retried_queued_post, caught_up,
  pending,             \* the WorkItem the fetcher is putting together
  \* the channel: its items, in order
  queue,
  \* the prover worker task
  wpc, item, preflight_task, prove_result,
  \* the Ethproofs posts, the files written and the log lines
  posts, proof_bin, proving_log,
  \* history: what became of each block, its failed fetches, the bundle the node
  \* served for it, its queued posts, whether the fetcher was ever past the
  \* chain's real tip, and that tip when a fetch last failed
  fate, failed_fetches, served, queued_spawns, reached_tip, failure_tip

fetcher == <<fpc, next_block, latest, block_number, fetch_failures,
             retried_queued_post, caught_up, pending>>
worker == <<wpc, item, preflight_task, prove_result>>
output == <<proof_bin, proving_log>>
history == <<fate, failed_fetches, served, reached_tip, failure_tip>>
vars == <<config, process, tip, fetcher, queue, worker, posts, output, history,
          queued_spawns>>

\* A WorkItem. `good` is a fact about the bundle at bundle_path: whether the
\* simulator runs it to the guest's exit point, within the cycle bound, with
\* the block's hash as its output.
WorkItem ==
  [block_number : Blocks, execute : BOOLEAN, prove : BOOLEAN,
   queued_post : BOOLEAN, preflight : {"none", "ok", "failed"}, good : BOOLEAN]

\* A background post: not spawned, spawned, its request out, completed; or
\* dropped with the runtime, before its request went out or while it was out.
PostState == {"none", "spawned", "out", "done", "cancelled", "cut_off"}

matches_interval(interval, b) == interval # 0 /\ b % interval = 0

should_prove(b) == matches_interval(config.prove_every, b)
should_execute(b) == matches_interval(config.execute_every, b) /\ ~should_prove(b)
should_anything(b) ==
  should_prove(b) \/ should_execute(b) \/ config.save_all_responses

preflight_failure(run) == run = "failed"

\* How a preflight of a bundle ends: a bundle the guest rejects, or that takes
\* too many cycles, fails it; a good one may still fail to be read or run.
preflight_outcomes(good) == IF good THEN {"ok", "failed"} ELSE {"failed"}

\* What the prover hands back: an error, a proof that commits the block's hash,
\* or a proof of something else.
prove_outcomes == {"commits", "other", "err"}

\* prove_inner keeps only a proof that commits the block's hash.
prove_inner_M1(r) == r
prove_inner(r) == IF r = "commits" THEN r ELSE "err"

\* Whether n failed fetches of a block leave it another attempt.
attempts_left_M2(n) == n + 1 < MAX_FETCH_ATTEMPTS
attempts_left(n) == n < MAX_FETCH_ATTEMPTS

\* The `queued` post of an earlier attempt at block b, if there is one.
has_retried_post_M1(b) == FALSE
has_retried_post(b) == retried_queued_post = b

\* The bounded run is past its end block.
past_end_M1 == FALSE
past_end == next_block > config.end_block

\* rx.recv returns None: tx is dropped and the channel is drained.
channel_closed == queue = <<>> /\ fpc = "exited"

saturating_sub_M1(a, b) == (a - b) % 2^30
saturating_sub(a, b) == IF a > b THEN a - b ELSE 0

\* What eth_blockNumber may answer: the tip, or up to RpcLag blocks less.
reported == saturating_sub(tip, RpcLag)..tip

\* Past the tip's lag bound: the fetcher gives up the blocks in between.
skips_ahead(n) ==
  /\ caught_up
  /\ config.end_block = None
  /\ config.max_lag > 0
  /\ saturating_sub(n, next_block) > config.max_lag

skip_target_M1(n) == n + 1
skip_target(n) == n

\* Dropping the runtime (or the process) drops every background task in flight.
ended(st) ==
  IF st = "spawned" THEN "cancelled" ELSE IF st = "out" THEN "cut_off" ELSE st

cancel_posts ==
  [b \in Blocks |-> [posts[b] EXCEPT !.queued = ended(@), !.proving = ended(@),
                                    !.proved = ended(@)]]

-----------------------------------------------------------------------------
Init ==
  /\ config \in Configs
  /\ process = "running"
  /\ tip \in Blocks
  /\ fpc = "start"
  /\ next_block = 0 /\ latest = 0 /\ block_number = 0
  /\ fetch_failures = 0
  /\ retried_queued_post = None
  /\ caught_up = (config.start_block = None)
  /\ pending = None
  /\ queue = <<>>
  /\ wpc = "recv" /\ item = None /\ preflight_task = "none" /\ prove_result = "none"
  /\ posts = [b \in Blocks |-> [queued |-> "none", proving |-> "none",
                                proved |-> "none", awaits_queued |-> FALSE,
                                proof |-> "none"]]
  /\ proof_bin = [b \in Blocks |-> "none"]
  /\ proving_log = [b \in Blocks |-> "none"]
  /\ fate = [b \in Blocks |-> "none"]
  /\ failed_fetches = [b \in Blocks |-> 0]
  /\ served = [b \in Blocks |-> "none"]
  /\ queued_spawns = [b \in Blocks |-> 0]
  /\ reached_tip = (config.start_block = None)
  /\ failure_tip = 0

-----------------------------------------------------------------------------
(* The fetcher task. *)

\* The first block: --start-block, or the one after the node's latest.
FetcherStart ==
  /\ process = "running"
  /\ fpc = "start"
  /\ \/ /\ config.start_block # None
        /\ next_block' = config.start_block
        /\ fpc' = "poll"
     \/ /\ config.start_block = None
        /\ \E n \in reported : next_block' = n + 1
        /\ fpc' = "poll"
     \/ /\ config.start_block = None      \* get_block_number_with_retry gave up
        /\ fpc' = "exited"
        /\ UNCHANGED next_block
  /\ UNCHANGED <<config, process, tip, latest, block_number, fetch_failures,
                 retried_queued_post, caught_up, pending, queue, worker, posts,
                 output, history, queued_spawns>>

\* The top of the outer loop with an end block: stop past it (dropping tx).
PollBounded ==
  /\ process = "running"
  /\ fpc = "poll"
  /\ config.end_block # None
  /\ \/ /\ past_end
        /\ fpc' = "exited"
        /\ UNCHANGED <<latest, block_number>>
     \/ /\ ~past_end
        /\ fpc' = "scan"
        /\ latest' = config.end_block
        /\ block_number' = next_block
  /\ UNCHANGED <<config, process, tip, next_block, fetch_failures,
                 retried_queued_post, caught_up, pending, queue, worker, posts,
                 output, history, queued_spawns>>

\* The top of the outer loop following the chain: the node answers n, and the
\* fetcher skips ahead to n when it has fallen too far behind. An unanswered
\* query only sleeps and polls again.
PollTip(n) ==
  /\ process = "running"
  /\ fpc = "poll"
  /\ config.end_block = None
  /\ latest' = n
  /\ \/ /\ skips_ahead(n)
        /\ next_block' = skip_target(n)
        /\ fetch_failures' = 0
        /\ retried_queued_post' = None
        /\ fate' = [b \in Blocks |-> IF b \in next_block..(n - 1) THEN "left_behind"
                                     ELSE fate[b]]
     \/ /\ ~skips_ahead(n)
        /\ UNCHANGED <<next_block, fetch_failures, retried_queued_post, fate>>
  /\ block_number' = next_block'
  /\ fpc' = "scan"
  /\ UNCHANGED <<config, process, tip, caught_up, pending, queue, worker, posts,
                 output, failed_fetches, served, reached_tip, failure_tip, queued_spawns>>

\* The for loop over next_block..=latest passes a block no interval selects.
PassBlock ==
  /\ process = "running"
  /\ fpc = "scan"
  /\ block_number <= latest
  /\ ~should_anything(block_number)
  /\ next_block' = block_number + 1
  /\ block_number' = block_number + 1
  /\ UNCHANGED <<config, process, tip, fpc, latest, fetch_failures,
                 retried_queued_post, caught_up, pending, queue, worker, posts,
                 output, history, queued_spawns>>

\* The for loop picks a block. The `queued` post of a block to prove goes out
\* in the background, unless it is the retried one's, taken over from before.
PickBlock ==
  /\ process = "running"
  /\ fpc = "scan"
  /\ block_number <= latest
  /\ should_anything(block_number)
  /\ fpc' = "fetch"
  /\ LET reused == should_prove(block_number) /\ has_retried_post(block_number)
         spawned == should_prove(block_number) /\ ~reused /\ config.eth_client
     IN /\ pending' = [block_number |-> block_number,
                       execute |-> should_execute(block_number),
                       prove |-> should_prove(block_number),
                       queued_post |-> reused \/ spawned,
                       preflight |-> "none", good |-> FALSE]
        /\ retried_queued_post' = IF should_prove(block_number) THEN None
                                  ELSE retried_queued_post
        /\ posts' = IF spawned
                    THEN [posts EXCEPT ![block_number].queued = "spawned"]
                    ELSE posts
        /\ queued_spawns' = IF spawned
                            THEN [queued_spawns EXCEPT ![block_number] = @ + 1]
                            ELSE queued_spawns
  /\ UNCHANGED <<config, process, tip, next_block, latest, block_number,
                 fetch_failures, caught_up, queue, worker, output, history>>

\* fetch_block_and_witness returned a bundle in time (no node has a block past
\* the tip); its content is what the node served.
FetchOk ==
  /\ process = "running"
  /\ fpc = "fetch"
  /\ block_number <= tip
  /\ fetch_failures' = 0
  /\ \E g \in BOOLEAN :
       /\ pending' = [pending EXCEPT !.good = g]
       /\ served' = [served EXCEPT ![block_number] = IF g THEN "good" ELSE "bad"]
  /\ fpc' = IF pending.prove /\ config.serial_preflight THEN "preflight" ELSE "send"
  /\ UNCHANGED <<config, process, tip, next_block, latest, block_number,
                 retried_queued_post, caught_up, queue, worker, posts, output,
                 fate, failed_fetches, reached_tip, failure_tip, queued_spawns>>

FetchRetry_M1 ==
  /\ process = "running"
  /\ fpc = "fetch"
  /\ attempts_left(fetch_failures + 1)
  /\ fetch_failures' = fetch_failures + 1
  /\ failed_fetches' = [failed_fetches EXCEPT ![block_number] = @ + 1]
  /\ failure_tip' = tip
  /\ UNCHANGED <<config, process, tip, fpc, next_block, latest, block_number,
                 retried_queued_post, caught_up, pending, queue, worker, posts,
                 output, fate, served, reached_tip, queued_spawns>>

\* The fetch failed or timed out, with attempts left: leave the for loop and
\* come back to this block after the wait, keeping its `queued` post.
FetchRetry ==
  /\ process = "running"
  /\ fpc = "fetch"
  /\ attempts_left(fetch_failures + 1)
  /\ fetch_failures' = fetch_failures + 1
  /\ retried_queued_post' = IF pending.queued_post THEN block_number ELSE None
  /\ caught_up' = (caught_up \/ next_block > latest)
  /\ pending' = None
  /\ failed_fetches' = [failed_fetches EXCEPT ![block_number] = @ + 1]
  /\ failure_tip' = tip
  /\ fpc' = "poll"
  /\ UNCHANGED <<config, process, tip, next_block, latest, block_number, queue,
                 worker, posts, output, fate, served, reached_tip, queued_spawns>>

\* The last attempt failed: skip the block and go on with the next one.
FetchGiveUp ==
  /\ process = "running"
  /\ fpc = "fetch"
  /\ ~attempts_left(fetch_failures + 1)
  /\ fetch_failures' = 0
  /\ next_block' = block_number + 1
  /\ block_number' = block_number + 1
  /\ caught_up' = TRUE
  /\ pending' = None
  /\ failed_fetches' = [failed_fetches EXCEPT ![block_number] = @ + 1]
  /\ failure_tip' = tip
  /\ fate' = [fate EXCEPT ![block_number] = "given_up"]
  /\ fpc' = "scan"
  /\ UNCHANGED <<config, process, tip, latest, retried_queued_post, queue,
                 worker, posts, output, served, reached_tip, queued_spawns>>

\* The fetcher's preflight of the bundle, off the async runtime.
FetcherPreflight ==
  /\ process = "running"
  /\ fpc = "preflight"
  /\ \E r \in preflight_outcomes(pending.good) :
       pending' = [pending EXCEPT !.preflight = r]
  /\ fpc' = "send"
  /\ UNCHANGED <<config, process, tip, next_block, latest, block_number,
                 fetch_failures, retried_queued_post, caught_up, queue, worker,
                 posts, output, history, queued_spawns>>

\* tx.send: waits for room in the channel.
SendItem ==
  /\ process = "running"
  /\ fpc = "send"
  /\ Len(queue) < PROVER_QUEUE_CAPACITY
  /\ queue' = Append(queue, pending)
  /\ fate' = [fate EXCEPT ![block_number] = "enqueued"]
  /\ next_block' = block_number + 1
  /\ block_number' = block_number + 1
  /\ pending' = None
  /\ fpc' = "scan"
  /\ UNCHANGED <<config, process, tip, latest, fetch_failures,
                 retried_queued_post, caught_up, worker, posts, output,
                 failed_fetches, served, reached_tip, failure_tip, queued_spawns>>

\* The for loop is through its range: the fetcher counts as caught up, waits
\* for a new head (or the timer) and polls again.
EndScan ==
  /\ process = "running"
  /\ fpc = "scan"
  /\ block_number > latest
  /\ caught_up' = (caught_up \/ next_block > latest)
  /\ fpc' = "poll"
  /\ UNCHANGED <<config, process, tip, next_block, latest, block_number,
                 fetch_failures, retried_queued_post, pending, queue, worker,
                 posts, output, history, queued_spawns>>

-----------------------------------------------------------------------------
(* The prover worker task. *)

\* rx.recv: the next item; an item to execute is run on the simulator here and
\* now (its failure is only logged).
Recv ==
  /\ process = "running"
  /\ wpc = "recv"
  /\ queue # <<>>
  /\ queue' = Tail(queue)
  /\ LET next == Head(queue) IN
       IF next.prove THEN wpc' = "gate" /\ item' = next
                     ELSE UNCHANGED <<wpc, item>>
  /\ UNCHANGED <<config, process, tip, fetcher, preflight_task, prove_result,
                 posts, output, history, queued_spawns>>

\* rx.recv returns None: the fetcher dropped tx and the channel is drained.
WorkerExit ==
  /\ process = "running"
  /\ wpc = "recv"
  /\ channel_closed
  /\ wpc' = "exited"
  /\ UNCHANGED <<config, process, tip, fetcher, queue, item, preflight_task,
                 prove_result, posts, output, history, queued_spawns>>

\* prove_item spawns the `proving` post, which first awaits the `queued` one.
spawn_proving_M1 ==
  IF config.eth_client
  THEN [posts EXCEPT ![item.block_number].proving = "spawned"]
  ELSE posts
spawn_proving ==
  IF config.eth_client
  THEN [posts EXCEPT ![item.block_number].proving = "spawned",
                     ![item.block_number].awaits_queued = item.queued_post]
  ELSE posts

\* prove_item with the serial preflight: the item's own run of it, or one made
\* now, gates the proving.
GateSerial ==
  /\ process = "running"
  /\ wpc = "gate"
  /\ config.serial_preflight
  /\ \E run \in IF item.preflight # "none" THEN {item.preflight}
                 ELSE preflight_outcomes(item.good) :
       \/ /\ ~preflight_failure(run)
          /\ wpc' = "proving"
          /\ posts' = spawn_proving
          /\ UNCHANGED <<item, proving_log>>
       \/ /\ preflight_failure(run)
          /\ wpc' = "recv"
          /\ item' = None
          /\ proving_log' = [proving_log EXCEPT ![item.block_number] = "SKIPPED"]
          /\ UNCHANGED posts
  /\ UNCHANGED <<config, process, tip, fetcher, queue, preflight_task,
                 prove_result, proof_bin, history, queued_spawns>>

\* prove_item with Z6M_CONCURRENT_PREFLIGHT: the preflight starts as a task of
\* its own and the proving goes on.
GateConcurrent ==
  /\ process = "running"
  /\ wpc = "gate"
  /\ ~config.serial_preflight
  /\ preflight_task' = "running"
  /\ posts' = spawn_proving
  /\ wpc' = "proving"
  /\ UNCHANGED <<config, process, tip, fetcher, queue, item, prove_result,
                 output, history, queued_spawns>>

\* The concurrent preflight's blocking task finishes.
PreflightTask ==
  /\ process = "running"
  /\ preflight_task = "running"
  /\ preflight_task' \in preflight_outcomes(item.good)
  /\ UNCHANGED <<config, process, tip, fetcher, queue, wpc, item, prove_result,
                 posts, output, history, queued_spawns>>

\* prove_inner returns: a proof whose output is the block's hash, or an error
\* (no prover, the prover failed or panicked, the proof commits another value).
ProveReturns ==
  /\ process = "running"
  /\ wpc = "proving"
  /\ \E r \in prove_outcomes : prove_result' = prove_inner(r)
  /\ wpc' = "verdict"
  /\ UNCHANGED <<config, process, tip, fetcher, queue, item, preflight_task,
                 posts, output, history, queued_spawns>>

\* On a bundle the guest rejects, the prover may abort the whole process.
ProverAborts ==
  /\ process = "running"
  /\ wpc = "proving"
  /\ ~item.good
  /\ process' = "aborted"
  /\ posts' = cancel_posts
  /\ UNCHANGED <<config, tip, fetcher, queue, worker, output, history,
                 queued_spawns>>

\* The concurrent preflight failed: discard the proof.
VerdictDiscard ==
  /\ process = "running"
  /\ wpc = "verdict"
  /\ preflight_failure(preflight_task)
  /\ proving_log' = [proving_log EXCEPT ![item.block_number] = "SKIPPED"]
  /\ wpc' = "recv" /\ item' = None
  /\ preflight_task' = "none" /\ prove_result' = "none"
  /\ UNCHANGED <<config, process, tip, fetcher, queue, posts, proof_bin,
                 history, queued_spawns>>

\* The preflight passed: write the proof (an I/O error is only logged), spawn
\* the `proved` post, which first awaits `proving`, and log the block.
VerdictKeep ==
  /\ process = "running"
  /\ wpc = "verdict"
  /\ preflight_task \in {"none", "ok"}
  /\ prove_result # "err"
  /\ proof_bin' \in {proof_bin, [proof_bin EXCEPT ![item.block_number] = prove_result]}
  /\ posts' = IF config.eth_client
              THEN [posts EXCEPT ![item.block_number].proved = "spawned",
                                 ![item.block_number].proof = prove_result]
              ELSE posts
  /\ proving_log' = [proving_log EXCEPT ![item.block_number] = "Success"]
  /\ wpc' = "recv" /\ item' = None
  /\ preflight_task' = "none" /\ prove_result' = "none"
  /\ UNCHANGED <<config, process, tip, fetcher, queue, history, queued_spawns>>

\* The preflight passed, the proving failed: log it.
VerdictFailed ==
  /\ process = "running"
  /\ wpc = "verdict"
  /\ preflight_task \in {"none", "ok"}
  /\ prove_result = "err"
  /\ proving_log' = [proving_log EXCEPT ![item.block_number] = "FAILED"]
  /\ wpc' = "recv" /\ item' = None
  /\ preflight_task' = "none" /\ prove_result' = "none"
  /\ UNCHANGED <<config, process, tip, fetcher, queue, posts, proof_bin, history,
                 queued_spawns>>

-----------------------------------------------------------------------------
(* The background posts. A request that is out completes whatever the answer:  *)
(* queued and proving only warn, proved gives up after its attempts.           *)

PostQueued(b) ==
  /\ process = "running"
  /\ \/ posts[b].queued = "spawned" /\ posts' = [posts EXCEPT ![b].queued = "out"]
     \/ posts[b].queued = "out" /\ posts' = [posts EXCEPT ![b].queued = "done"]
  /\ UNCHANGED <<config, process, tip, fetcher, queue, worker, output, history,
                 queued_spawns>>

PostProving(b) ==
  /\ process = "running"
  /\ \/ /\ posts[b].proving = "spawned"
        /\ posts[b].awaits_queued => posts[b].queued = "done"
        /\ posts' = [posts EXCEPT ![b].proving = "out"]
     \/ posts[b].proving = "out" /\ posts' = [posts EXCEPT ![b].proving = "done"]
  /\ UNCHANGED <<config, process, tip, fetcher, queue, worker, output, history,
                 queued_spawns>>

PostProved(b) ==
  /\ process = "running"
  /\ \/ /\ posts[b].proved = "spawned"
        /\ posts[b].proving = "done"
        /\ posts' = [posts EXCEPT ![b].proved = "out"]
     \/ posts[b].proved = "out" /\ posts' = [posts EXCEPT ![b].proved = "done"]
  /\ UNCHANGED <<config, process, tip, fetcher, queue, worker, output, history,
                 queued_spawns>>

-----------------------------------------------------------------------------
(* run() and main: once both tasks have ended run() returns, and the runtime   *)
(* that main built for it is dropped with every task still in flight.          *)
RunReturns ==
  /\ process = "running"
  /\ fpc = "exited"
  /\ wpc = "exited"
  /\ process' = "returned"
  /\ posts' = cancel_posts
  /\ UNCHANGED <<config, tip, fetcher, queue, worker, output, history,
                 queued_spawns>>

\* The chain grows.
TipAdvances ==
  /\ process = "running"
  /\ tip < MaxBlock
  /\ tip' = tip + 1
  /\ reached_tip' = (reached_tip \/ (fpc # "start" /\ next_block > tip))
  /\ UNCHANGED <<config, process, fetcher, queue, worker, posts, output, fate,
                 failed_fetches, served, failure_tip, queued_spawns>>

\* The process is gone.
Ended == process # "running" /\ UNCHANGED vars

FetcherStep ==
  \/ FetcherStart \/ PollBounded \/ \E n \in reported : PollTip(n)
  \/ PassBlock \/ PickBlock \/ FetchOk \/ FetchRetry \/ FetchGiveUp
  \/ FetcherPreflight \/ SendItem \/ EndScan

WorkerStep ==
  \/ Recv \/ WorkerExit \/ GateSerial \/ GateConcurrent
  \/ ProveReturns \/ ProverAborts \/ VerdictDiscard \/ VerdictKeep \/ VerdictFailed

PostStep == \E b \in Blocks : PostQueued(b) \/ PostProving(b) \/ PostProved(b)

Next ==
  \/ FetcherStep \/ WorkerStep \/ PreflightTask \/ PostStep \/ RunReturns
  \/ TipAdvances \/ Ended

Spec == Init /\ [][Next]_vars

\* The scheduler runs every task that can run, a fetch, a preflight, a proof and
\* a post all end (each is bounded by a timeout or the cycle limit), and the
\* node reports the tip again and again.
Fairness ==
  /\ WF_vars(FetcherStep) /\ WF_vars(WorkerStep)
  /\ WF_vars(PreflightTask) /\ WF_vars(RunReturns)
  /\ SF_vars(PollTip(tip))
  /\ \A b \in Blocks : /\ WF_vars(PostQueued(b))
                       /\ WF_vars(PostProving(b))
                       /\ WF_vars(PostProved(b))

FairSpec == Spec /\ Fairness

-----------------------------------------------------------------------------
(* Properties. *)

PostRecord ==
  [queued : PostState, proving : PostState, proved : PostState,
   awaits_queued : BOOLEAN, proof : {"none", "commits", "other"}]

TypeEnvironment ==
  /\ config \in Configs
  /\ process \in {"running", "returned", "aborted"}
  /\ tip \in Blocks

TypeFetcher ==
  /\ fpc \in {"start", "poll", "scan", "fetch", "preflight", "send", "exited"}
  /\ next_block \in 0..(MaxBlock + 1)
  /\ latest \in Blocks
  /\ block_number \in 0..(MaxBlock + 1)
  /\ fetch_failures \in 0..(MAX_FETCH_ATTEMPTS - 1)
  /\ retried_queued_post \in Blocks \cup {None}
  /\ pending \in WorkItem \cup {None}

TypeWorker ==
  /\ wpc \in {"recv", "gate", "proving", "verdict", "exited"}
  /\ item \in WorkItem \cup {None}
  /\ preflight_task \in {"none", "running", "ok", "failed"}
  /\ prove_result \in {"none", "commits", "other", "err"}

TypeQueue == queue \in Seq(WorkItem) /\ Len(queue) <= PROVER_QUEUE_CAPACITY

TypeOutput ==
  /\ proof_bin \in [Blocks -> {"none", "commits", "other"}]
  /\ proving_log \in [Blocks -> {"none", "SKIPPED", "FAILED", "Success"}]

TypePosts ==
  /\ posts \in [Blocks -> PostRecord]
  /\ queued_spawns \in [Blocks -> Nat]

TypeHistory ==
  /\ fate \in [Blocks -> {"none", "enqueued", "given_up", "left_behind"}]
  /\ failed_fetches \in [Blocks -> Nat]
  /\ served \in [Blocks -> {"none", "good", "bad"}]
  /\ failure_tip \in Blocks

\* Every variable of the service has its type; the queue never exceeds its
\* capacity, nor the count of failed fetches the attempts.
TypeOK ==
  /\ TypeEnvironment /\ TypeFetcher /\ TypeWorker /\ TypeQueue /\ TypeOutput
  /\ TypePosts /\ TypeHistory
  /\ caught_up \in BOOLEAN /\ reached_tip \in BOOLEAN

\* fetcher_loop: "next_block only advances past blocks handled above: a lagging
\* RPC that reports a lower latest leaves it in place instead of re-proving
\* blocks". A block enters the queue at most once, and never after it was given
\* up or left behind.
NeverEnqueuedTwice ==
  [][Len(queue') > Len(queue) => fate[queue'[Len(queue')].block_number] = "none"]_vars

\* fetcher_loop, MAX_FETCH_ATTEMPTS: "a transient RPC error loses nothing". Once
\* a block (the start block among them) is handled, no selected block between it
\* and next_block is passed over in silence: each was enqueued, given up after
\* exactly MAX_FETCH_ATTEMPTS failed fetches, or left behind by a skip to the tip.
NothingLostSilently ==
  \A b \in Blocks :
    /\ (/\ b < next_block
        /\ should_anything(b)
        /\ \/ config.start_block # None /\ config.start_block <= b
           \/ \E a \in 0..b : fate[a] # "none")
       => fate[b] # "none"
    /\ fate[b] = "given_up" <=> failed_fetches[b] = MAX_FETCH_ATTEMPTS

\* fetcher_loop, retried_queued_post: "it is sent once". However often a block's
\* fetch is retried, its `queued` post is spawned once.
QueuedPostOnce == \A b \in Blocks : queued_spawns[b] <= 1

\* prove_item: "a proof is written and posted only if the simulator ran the block
\* to the guest's exit point and the proof commits the block's hash".
KeptProofsChecked ==
  \A b \in Blocks :
    proof_bin[b] # "none" \/ posts[b].proof # "none" =>
      /\ served[b] = "good"
      /\ {proof_bin[b], posts[b].proof} \subseteq {"none", "commits"}

\* prove_item: the serial preflight keeps the prover off every bundle that would
\* abort the process.
SerialPreflightNeverAborts == config.serial_preflight => process # "aborted"

\* fetcher_loop, max_lag: "A failed fetch comes back here before its retry, so a
\* block whose witness doesn't come is given up once the tip has moved on". A block
\* whose fetch failed is fetched again only on a tip the node reported since (so at
\* most the node's lag behind the chain as it was when the fetch failed), and, once
\* the fetcher is caught up, only if that tip is no more than max_lag past the block,
\* whatever the chain, other failures, give-ups and the channel did in between.
RetriedNearTip ==
  (fpc = "fetch" /\ failed_fetches[block_number] > 0 /\ config.end_block = None) =>
    /\ latest >= saturating_sub(failure_tip, RpcLag)
    /\ caught_up /\ config.max_lag > 0 => latest - block_number <= config.max_lag

\* The posts a block's status on Ethproofs is made of, in the order they went out.
sent == {"out", "done", "cut_off"}
ethproofs_status ==
  [b \in Blocks |-> IF posts[b].proved \in sent THEN "proved"
                    ELSE IF posts[b].proving \in sent THEN "proving"
                    ELSE IF posts[b].queued \in sent THEN "queued" ELSE "unseen"]

\* WorkItem.queued_post: "one that lands late would move the block's status back".
\* The three detached posts of a block go out in order, and none goes out twice.
Status == INSTANCE EthproofsStatus WITH status <- ethproofs_status
StatusMovesForward == Status!Spec

\* A run with an end block ends, and so does run(): the fetcher stops at the end
\* block, the worker drains the queue, and neither waits for the other for ever.
BoundedRunEnds == config.end_block # None ~> process # "running"

\* The service keeps up with the chain: a selected block of the chain at or past
\* next_block is enqueued, given up or left behind in the end.
EveryBlockHandled ==
  \A b \in Blocks :
    config.end_block = None /\ fpc = "poll" /\ next_block <= b /\ b <= tip
      /\ should_anything(b) ~> fate[b] # "none" \/ process # "running"

\* docs/airbender-docker-service.md, Behavior: "A run from START_BLOCK works through
\* its backlog first, until a backlog block cannot be fetched at all". No block is
\* left behind before the fetcher has been at the tip or has given up a block.
BacklogFirst ==
  (\E b \in Blocks : fate[b] = "left_behind") =>
    reached_tip \/ \E b \in Blocks : fate[b] = "given_up"

\* docs/airbender-docker-service.md, Behavior: "Ethproofs receives `queued` when a
\* block is picked, `proving` when its proving starts, and `proved`". When a run
\* has returned, the `proved` post of every block it proved has gone out.
ProvedPostedBeforeReturn ==
  process = "returned" =>
    \A b \in Blocks : posts[b].proved # "none" => posts[b].proved = "done"

=============================================================================
