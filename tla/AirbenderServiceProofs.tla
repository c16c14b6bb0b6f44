----------------------- MODULE AirbenderServiceProofs -----------------------
(* Theorems about AirbenderService, for every chain length, queue capacity,       *)
(* number of fetch attempts, node lag and set of configurations: the inductive    *)
(* invariant, that every step keeps each of its parts (the types, then what it    *)
(* says of the fetcher, the queue, the worker and the posts), and the theorems.   *)
EXTENDS AirbenderService, TLAPS

-----------------------------------------------------------------------------
(* The inductive invariant, one part per piece of the pipeline. *)

Holding == fpc \in {"fetch", "preflight", "send"}
Working == wpc \in {"gate", "proving", "verdict"}

\* The fetcher is at next_block, with the item it puts together for it.
FetcherInv ==
  /\ fpc = "scan" \/ Holding => block_number = next_block
  /\ Holding => /\ block_number <= latest
                /\ pending \in WorkItem
                /\ pending.block_number = block_number
                /\ pending.prove = should_prove(block_number)
                /\ should_anything(block_number)
  /\ fpc = "fetch" => pending.preflight = "none"
  /\ fpc = "send" => /\ pending.preflight = "ok" => pending.good
                     /\ config.serial_preflight /\ pending.prove => pending.preflight # "none"
  /\ fpc \in {"preflight", "send"} =>
       served[block_number] = (IF pending.good THEN "good" ELSE "bad")

\* A retried queued post is the next block's; the fetcher's item has its own.
RetryInv ==
  /\ Holding => retried_queued_post = None
  /\ retried_queued_post # None =>
       /\ fpc # "start"
       /\ retried_queued_post = next_block
       /\ should_prove(next_block)
       /\ config.eth_client
       /\ queued_spawns[next_block] = 1
  /\ Holding => /\ pending.queued_post = (pending.prove /\ config.eth_client)
                /\ queued_spawns[block_number] = (IF pending.queued_post THEN 1 ELSE 0)

\* Nothing has happened yet to the blocks at and past next_block.
FutureInv ==
  \A b \in Blocks :
    /\ fpc = "start" \/ b >= next_block => fate[b] = "none"
    /\ fpc = "start" \/ b > next_block => queued_spawns[b] = 0 /\ failed_fetches[b] = 0
    /\ b = next_block /\ ~Holding /\ retried_queued_post # b => queued_spawns[b] = 0
    /\ queued_spawns[b] <= 1

\* The failed fetches of next_block are the ones counted.
AttemptsInv ==
  /\ \A b \in Blocks : /\ fate[b] = "given_up" <=> failed_fetches[b] = MAX_FETCH_ATTEMPTS
                       /\ failed_fetches[b] > 0 => should_anything(b)
  /\ fpc = "start" => fetch_failures = 0
  /\ fpc \in {"preflight", "send"} => fetch_failures = 0
  /\ fpc \in {"poll", "scan", "fetch"} =>
       fetch_failures = IF next_block \in Blocks THEN failed_fetches[next_block] ELSE 0
  /\ next_block \in Blocks => failed_fetches[next_block] < MAX_FETCH_ATTEMPTS

\* What the queue and the worker hold is what the fetcher enqueued.
ItemInv(x) ==
  /\ fate[x.block_number] = "enqueued"
  /\ served[x.block_number] = (IF x.good THEN "good" ELSE "bad")
  /\ x.prove = should_prove(x.block_number)
  /\ x.queued_post = (x.prove /\ config.eth_client)
  /\ x.queued_post => queued_spawns[x.block_number] = 1
  /\ x.preflight = "ok" => x.good
  /\ config.serial_preflight /\ x.prove => x.preflight # "none"

QueueInv ==
  /\ \A i \in 1..Len(queue) : ItemInv(queue[i])
  /\ \A i, j \in 1..Len(queue) : i < j => queue[i].block_number < queue[j].block_number

WorkerInv ==
  /\ Working => /\ item \in WorkItem
                /\ ItemInv(item)
                /\ item.prove
                /\ \A i \in 1..Len(queue) : item.block_number < queue[i].block_number
  /\ ~Working \/ wpc = "gate" \/ config.serial_preflight => preflight_task = "none"
  /\ wpc \in {"proving", "verdict"} /\ ~config.serial_preflight => preflight_task # "none"
  /\ wpc \in {"proving", "verdict"} /\ config.serial_preflight => item.good
  /\ preflight_task = "ok" => item.good
  /\ wpc = "verdict" => prove_result \in {"commits", "err"}

\* The posts of a block: in order, and those of its proof only once it is taken
\* from the queue.
BlockPostsInv(b) ==
  /\ posts[b].queued # "none" <=> queued_spawns[b] = 1
  /\ posts[b].proving # "none" =>
       /\ posts[b].awaits_queued
       /\ fate[b] = "enqueued"
       /\ queued_spawns[b] = 1
       /\ \A i \in 1..Len(queue) : b < queue[i].block_number
       /\ wpc = "gate" => b < item.block_number
       /\ wpc \in {"proving", "verdict"} => b <= item.block_number
  /\ posts[b].proved # "none" =>
       /\ posts[b].proving # "none"
       /\ wpc \in {"proving", "verdict"} => b < item.block_number
  /\ wpc \in {"proving", "verdict"} /\ config.eth_client /\ b = item.block_number =>
       posts[b].proving # "none"
  /\ posts[b].proving \in sent => posts[b].queued = "done"
  /\ posts[b].proved \in sent => posts[b].proving = "done"

PostsInv == \A b \in Blocks : BlockPostsInv(b)

\* A kept proof is of an enqueued block.
KeptInv ==
  \A b \in Blocks :
    proof_bin[b] # "none" \/ posts[b].proof # "none" => fate[b] = "enqueued"

IInv ==
  /\ TypeOK /\ FetcherInv /\ RetryInv /\ FutureInv /\ AttemptsInv /\ QueueInv /\ WorkerInv
  /\ PostsInv /\ KeptInv /\ KeptProofsChecked /\ SerialPreflightNeverAborts
  /\ NothingLostSilently

-----------------------------------------------------------------------------
LEMMA ConfigFields ==
  ASSUME config \in Configs
  PROVE  /\ config.start_block \in Blocks \cup {None}
         /\ config.end_block \in Blocks \cup {None}
         /\ config.prove_every \in Nat /\ config.execute_every \in Nat
         /\ config.save_all_responses \in BOOLEAN /\ config.max_lag \in Nat
         /\ config.eth_client \in BOOLEAN /\ config.serial_preflight \in BOOLEAN
  BY Zenon, ConstantsAssumption DEF ServiceConfig

LEMMA ReportedBlocks ==
  ASSUME tip \in Blocks
  PROVE  reported \subseteq 0..tip /\ 0..tip \subseteq Blocks /\ tip \in reported
  BY ConstantsAssumption DEF reported, saturating_sub, Blocks

LEMMA TypeInit == Init => TypeOK
  BY SMTT(40), ConstantsAssumption, ConfigFields
  DEF Init, TypeOK, TypeEnvironment, TypeFetcher, TypeWorker, TypeQueue, TypeOutput, TypePosts, TypeHistory,
      Blocks, PostRecord, PostState, WorkItem

LEMMA ConfigStable == [Next]_vars => config' = config
  BY ZenonT(40) DEF Next, FetcherStep, WorkerStep, PostStep, vars, FetcherStart, PollBounded, PollTip,
         PassBlock, PickBlock, FetchOk, FetchRetry, FetchGiveUp, FetcherPreflight, SendItem,
         EndScan, Recv, WorkerExit, GateSerial, GateConcurrent, PreflightTask, ProveReturns,
         ProverAborts, VerdictDiscard, VerdictKeep, VerdictFailed, PostQueued, PostProving,
         PostProved, RunReturns, TipAdvances, Ended

\* The block in the fetcher's hands is a block of the chain.
LEMMA HeldBlock ==
  ASSUME TypeOK, FetcherInv, Holding
  PROVE  block_number \in Blocks /\ block_number = next_block /\ pending \in WorkItem
  BY ConstantsAssumption DEF TypeOK, TypeFetcher, FetcherInv, Blocks

LEMMA PickedItem ==
  ASSUME TypeOK, PickBlock
  PROVE  block_number \in Blocks /\ pending' \in WorkItem
<1> USE ConstantsAssumption DEF TypeOK, TypeEnvironment, TypeFetcher
<1>1. block_number \in Blocks
  BY SMTT(40) DEF PickBlock, Blocks
<1> QED
  BY Zenon, <1>1, ConfigFields DEF PickBlock, WorkItem, should_prove, should_execute,
     matches_interval, has_retried_post, Blocks

LEMMA TypeFetcherStep == IInv /\ [Next]_vars => TypeFetcher'
<1> SUFFICES ASSUME IInv, [Next]_vars PROVE TypeFetcher'
    BY Zenon
<1> USE ConstantsAssumption DEF IInv, TypeOK, TypeEnvironment, TypeFetcher
<1>f. CASE FetcherStart
  <2>1. next_block' \in 0..(MaxBlock + 1)
    BY <1>f, ConfigFields, ReportedBlocks DEF FetcherStart, Blocks
  <2>2. fpc' \in {"start", "poll", "scan", "fetch", "preflight", "send", "exited"}
    BY Zenon, <1>f DEF FetcherStart
  <2> QED
    BY Zenon, <1>f, <2>1, <2>2 DEF FetcherStart
<1>pb. CASE PollBounded
  BY Zenon, <1>pb, ConfigFields DEF PollBounded, past_end, Blocks
<1>pt. ASSUME NEW n \in reported, PollTip(n) PROVE TypeFetcher'
  <2>1. n \in Blocks
    BY Zenon, ReportedBlocks
  <2>2. next_block' \in 0..(MaxBlock + 1) /\ block_number' \in 0..(MaxBlock + 1)
    BY <1>pt, <2>1 DEF PollTip, skip_target, Blocks
  <2> QED
    BY <1>pt, <2>1, <2>2 DEF PollTip
<1>ps. CASE PassBlock
  BY <1>ps DEF PassBlock, Blocks
<1>pk. CASE PickBlock
  BY Zenon, <1>pk, PickedItem DEF PickBlock
<1>fo. CASE FetchOk
  BY <1>fo, HeldBlock DEF FetchOk, WorkItem, Blocks, Holding
<1>fr. CASE FetchRetry
  BY <1>fr, HeldBlock DEF FetchRetry, attempts_left, Blocks, Holding
<1>fg. CASE FetchGiveUp
  BY <1>fg, HeldBlock DEF FetchGiveUp, Blocks, Holding
<1>fp. CASE FetcherPreflight
  BY <1>fp, HeldBlock DEF FetcherPreflight, WorkItem, preflight_outcomes, Blocks, Holding
<1>si. CASE SendItem
  BY <1>si, HeldBlock DEF SendItem, Blocks, Holding
<1>es. CASE EndScan
  BY Zenon, <1>es DEF EndScan
<1>ot. CASE UNCHANGED fetcher
  BY SMTT(40), <1>ot DEF fetcher
<1> QED
  BY ZenonT(40), <1>f, <1>pb, <1>pt, <1>ps, <1>pk, <1>fo, <1>fr, <1>fg, <1>fp, <1>si, <1>es, <1>ot
  DEF Next, FetcherStep, WorkerStep, PostStep, vars, Recv, WorkerExit, GateSerial,
      GateConcurrent, PreflightTask, ProveReturns, ProverAborts, VerdictDiscard, VerdictKeep,
      VerdictFailed, PostQueued, PostProving, PostProved, RunReturns, TipAdvances, Ended

LEMMA TypeWorkerStep == IInv /\ [Next]_vars => TypeWorker'
<1> SUFFICES ASSUME IInv, [Next]_vars PROVE TypeWorker'
    BY Zenon
<1> USE DEF IInv, TypeOK, TypeWorker
<1>r. CASE Recv
  <2>1. Head(queue) \in WorkItem
    BY <1>r DEF Recv, TypeQueue
  <2> QED
    BY Zenon, <1>r, <2>1 DEF Recv
<1>we. CASE WorkerExit
  BY Zenon, <1>we DEF WorkerExit
<1>gs. CASE GateSerial
  BY Zenon, <1>gs DEF GateSerial
<1>gc. CASE GateConcurrent
  BY Zenon, <1>gc DEF GateConcurrent
<1>pf. CASE PreflightTask
  BY Zenon, <1>pf DEF PreflightTask, preflight_outcomes
<1>pr. CASE ProveReturns
  BY Zenon, <1>pr DEF ProveReturns, prove_outcomes, prove_inner
<1>vd. CASE VerdictDiscard
  BY Zenon, <1>vd DEF VerdictDiscard
<1>vk. CASE VerdictKeep
  BY Zenon, <1>vk DEF VerdictKeep
<1>vf. CASE VerdictFailed
  BY Zenon, <1>vf DEF VerdictFailed
<1>ot. CASE UNCHANGED worker
  BY SMTT(40), <1>ot DEF worker
<1> QED
  BY ZenonT(40), <1>r, <1>we, <1>gs, <1>gc, <1>pf, <1>pr, <1>vd, <1>vk, <1>vf, <1>ot
  DEF Next, FetcherStep, WorkerStep, PostStep, vars, FetcherStart, PollBounded, PollTip,
      PassBlock, PickBlock, FetchOk, FetchRetry, FetchGiveUp, FetcherPreflight, SendItem,
      EndScan, ProverAborts, PostQueued, PostProving, PostProved, RunReturns, TipAdvances, Ended

LEMMA TypeQueueStep == IInv /\ [Next]_vars => TypeQueue'
<1> SUFFICES ASSUME IInv, [Next]_vars PROVE TypeQueue'
    BY Zenon
<1> USE ConstantsAssumption DEF IInv, TypeOK, TypeQueue
<1>si. CASE SendItem
  BY <1>si, HeldBlock DEF SendItem, Holding
<1>r. CASE Recv
  BY <1>r DEF Recv
<1>ot. CASE UNCHANGED queue
  BY Zenon, <1>ot
<1> QED
  BY ZenonT(40), <1>si, <1>r, <1>ot
  DEF Next, FetcherStep, WorkerStep, PostStep, vars, FetcherStart, PollBounded, PollTip,
      PassBlock, PickBlock, FetchOk, FetchRetry, FetchGiveUp, FetcherPreflight,
      EndScan, WorkerExit, GateSerial, GateConcurrent, PreflightTask, ProveReturns,
      ProverAborts, VerdictDiscard, VerdictKeep, VerdictFailed, PostQueued, PostProving,
      PostProved, RunReturns, TipAdvances, Ended

LEMMA WorkedBlock ==
  ASSUME WorkerInv, Working
  PROVE  item \in WorkItem /\ item.block_number \in Blocks
  BY SMTT(40) DEF WorkerInv, WorkItem

LEMMA TypeOutputStep == IInv /\ [Next]_vars => TypeOutput'
<1> SUFFICES ASSUME IInv, [Next]_vars PROVE TypeOutput'
    BY Zenon
<1> USE DEF IInv, TypeOK, TypeOutput
<1>gs. CASE GateSerial
  BY Zenon, <1>gs, WorkedBlock DEF GateSerial, Working
<1>vd. CASE VerdictDiscard
  BY Zenon, <1>vd, WorkedBlock DEF VerdictDiscard, Working
<1>vk. CASE VerdictKeep
  BY Zenon, <1>vk, WorkedBlock DEF VerdictKeep, Working, WorkerInv
<1>vf. CASE VerdictFailed
  BY Zenon, <1>vf, WorkedBlock DEF VerdictFailed, Working
<1>ot. CASE UNCHANGED output
  BY Zenon, <1>ot DEF output
<1> QED
  BY ZenonT(40), <1>gs, <1>vd, <1>vk, <1>vf, <1>ot
  DEF Next, FetcherStep, WorkerStep, PostStep, vars, FetcherStart, PollBounded, PollTip,
      PassBlock, PickBlock, FetchOk, FetchRetry, FetchGiveUp, FetcherPreflight, SendItem,
      EndScan, Recv, WorkerExit, GateConcurrent, PreflightTask, ProveReturns, ProverAborts,
      PostQueued, PostProving, PostProved, RunReturns, TipAdvances, Ended

\* Dropping the runtime keeps the posts that were done and the ones never spawned.
LEMMA Cancelled ==
  ASSUME TypePosts
  PROVE  /\ cancel_posts \in [Blocks -> PostRecord]
         /\ \A b \in Blocks :
              /\ cancel_posts[b].proof = posts[b].proof
              /\ cancel_posts[b].awaits_queued = posts[b].awaits_queued
              /\ cancel_posts[b].queued = "none" <=> posts[b].queued = "none"
              /\ cancel_posts[b].proving = "none" <=> posts[b].proving = "none"
              /\ cancel_posts[b].proved = "none" <=> posts[b].proved = "none"
              /\ cancel_posts[b].queued \in sent <=> posts[b].queued \in sent
              /\ cancel_posts[b].proving \in sent <=> posts[b].proving \in sent
              /\ cancel_posts[b].proved \in sent <=> posts[b].proved \in sent
              /\ posts[b].queued = "done" => cancel_posts[b].queued = "done"
              /\ posts[b].proving = "done" => cancel_posts[b].proving = "done"
<1>1. ASSUME NEW b \in Blocks
      PROVE  /\ posts[b] \in PostRecord
             /\ cancel_posts[b] \in PostRecord
             /\ cancel_posts[b].proof = posts[b].proof
             /\ cancel_posts[b].awaits_queued = posts[b].awaits_queued
             /\ cancel_posts[b].queued = ended(posts[b].queued)
             /\ cancel_posts[b].proving = ended(posts[b].proving)
             /\ cancel_posts[b].proved = ended(posts[b].proved)
  <2>1. posts[b] \in PostRecord
    BY Zenon DEF TypePosts
  <2>2. ASSUME NEW st \in PostState PROVE ended(st) \in PostState
    BY Zenon DEF ended, PostState
  <2>3. cancel_posts[b] = [posts[b] EXCEPT !.queued = ended(@), !.proving = ended(@),
                                         !.proved = ended(@)]
    BY Zenon DEF cancel_posts
  <2> QED
    BY ZenonT(40), <2>1, <2>2, <2>3 DEF PostRecord
<1>2. cancel_posts \in [Blocks -> PostRecord]
  <2>1. cancel_posts = [b \in Blocks |-> cancel_posts[b]]
    BY Zenon DEF cancel_posts
  <2> QED
    BY Zenon, <1>1, <2>1
<1> QED
  BY Zenon, <1>1, <1>2 DEF ended, sent

\* The posts after prove_item has spawned the proving one.
LEMMA SpawnedProving ==
  ASSUME TypePosts, item \in WorkItem, config.eth_client
  PROVE  /\ spawn_proving \in [Blocks -> PostRecord]
         /\ \A b \in Blocks \ {item.block_number} : spawn_proving[b] = posts[b]
         /\ spawn_proving[item.block_number].queued = posts[item.block_number].queued
         /\ spawn_proving[item.block_number].proved = posts[item.block_number].proved
         /\ spawn_proving[item.block_number].proof = posts[item.block_number].proof
         /\ spawn_proving[item.block_number].proving = "spawned"
         /\ spawn_proving[item.block_number].awaits_queued = item.queued_post
<1> DEFINE bn == item.block_number
<1>1. bn \in Blocks /\ item.queued_post \in BOOLEAN /\ posts[bn] \in PostRecord
  BY Zenon DEF WorkItem, TypePosts
<1>2. spawn_proving = [posts EXCEPT ![bn] = [posts[bn] EXCEPT !.proving = "spawned",
                                               !.awaits_queued = item.queued_post]]
  BY ZenonT(40), <1>1 DEF spawn_proving, TypePosts
<1>3. [posts[bn] EXCEPT !.proving = "spawned", !.awaits_queued = item.queued_post] \in PostRecord
  BY ZenonT(40), <1>1 DEF PostRecord, PostState
<1> QED
  BY Zenon, <1>1, <1>2, <1>3 DEF TypePosts, PostRecord

LEMMA TypePostsStep == IInv /\ [Next]_vars => TypePosts'
<1> SUFFICES ASSUME IInv, [Next]_vars PROVE TypePosts'
    BY Zenon
<1> USE ConstantsAssumption DEF IInv, TypeOK, TypePosts
<1>pk. CASE PickBlock
  <2>1. block_number \in Blocks
    BY <1>pk DEF PickBlock, TypeFetcher, Blocks
  <2>2. [posts[block_number] EXCEPT !.queued = "spawned"] \in PostRecord
    BY Zenon, <2>1 DEF PostRecord, PostState
  <2>3. queued_spawns[block_number] + 1 \in Nat
    BY <2>1
  <2>4. /\ posts' = posts \/ posts' = [posts EXCEPT ![block_number].queued = "spawned"]
        /\ \/ queued_spawns' = queued_spawns
           \/ queued_spawns' = [queued_spawns EXCEPT ![block_number] = @ + 1]
    BY Zenon, <1>pk DEF PickBlock
  <2>5. posts' \in [Blocks -> PostRecord]
    BY Zenon, <2>1, <2>2, <2>4
  <2>6. queued_spawns' \in [Blocks -> Nat]
    BY Zenon, <2>1, <2>3, <2>4
  <2> QED
    BY Zenon, <2>5, <2>6
<1>gs. CASE GateSerial
  <2>1. item \in WorkItem /\ item.block_number \in Blocks
    BY Zenon, <1>gs, WorkedBlock DEF GateSerial, Working
  <2>2. spawn_proving \in [Blocks -> PostRecord]
    BY Zenon, <2>1, SpawnedProving DEF spawn_proving
  <2> QED
    BY Zenon, <1>gs, <2>2 DEF GateSerial
<1>gc. CASE GateConcurrent
  <2>1. item \in WorkItem /\ item.block_number \in Blocks
    BY Zenon, <1>gc, WorkedBlock DEF GateConcurrent, Working
  <2>2. spawn_proving \in [Blocks -> PostRecord]
    BY Zenon, <2>1, SpawnedProving DEF spawn_proving
  <2> QED
    BY Zenon, <1>gc, <2>2 DEF GateConcurrent
<1>pa. CASE ProverAborts \/ RunReturns
  BY Zenon, <1>pa, Cancelled DEF ProverAborts, RunReturns
<1>vk. CASE VerdictKeep
  <2>1. item.block_number \in Blocks /\ prove_result = "commits"
    BY Zenon, <1>vk, WorkedBlock DEF VerdictKeep, Working, WorkerInv
  <2> QED
    BY <1>vk, <2>1 DEF VerdictKeep, PostRecord, PostState
<1>po. ASSUME NEW b \in Blocks, PostQueued(b) \/ PostProving(b) \/ PostProved(b)
       PROVE  TypePosts'
  BY <1>po DEF PostQueued, PostProving, PostProved, PostRecord, PostState
<1>ot. CASE UNCHANGED <<posts, queued_spawns>>
  BY Zenon, <1>ot
<1> QED
  BY ZenonT(40), <1>pk, <1>gs, <1>gc, <1>pa, <1>vk, <1>po, <1>ot
  DEF Next, FetcherStep, WorkerStep, PostStep, vars, FetcherStart, PollBounded, PollTip,
      PassBlock, FetchOk, FetchRetry, FetchGiveUp, FetcherPreflight, SendItem,
      EndScan, Recv, WorkerExit, PreflightTask, ProveReturns, VerdictDiscard, VerdictFailed,
      TipAdvances, Ended

LEMMA TypeHistoryStep == IInv /\ [Next]_vars => TypeHistory'
<1> SUFFICES ASSUME IInv, [Next]_vars PROVE TypeHistory'
    BY Zenon
<1> USE DEF IInv, TypeOK, TypeHistory
<1>pt. ASSUME NEW n \in reported, PollTip(n) PROVE TypeHistory'
  BY Zenon, <1>pt DEF PollTip
<1>fo. CASE FetchOk
  BY Zenon, <1>fo, HeldBlock DEF FetchOk, Holding
<1>fr. CASE FetchRetry
  BY <1>fr, HeldBlock DEF FetchRetry, Holding, TypeEnvironment
<1>fg. CASE FetchGiveUp
  BY <1>fg, HeldBlock DEF FetchGiveUp, Holding, TypeEnvironment
<1>si. CASE SendItem
  BY Zenon, <1>si, HeldBlock DEF SendItem, Holding
<1>ot. CASE UNCHANGED <<fate, failed_fetches, served, failure_tip>>
  BY Zenon, <1>ot
<1> QED
  BY ZenonT(40), <1>pt, <1>fo, <1>fr, <1>fg, <1>si, <1>ot
  DEF Next, FetcherStep, WorkerStep, PostStep, vars, history, FetcherStart, PollBounded,
      PassBlock, PickBlock, FetcherPreflight, EndScan, Recv, WorkerExit, GateSerial,
      GateConcurrent, PreflightTask, ProveReturns, ProverAborts, VerdictDiscard, VerdictKeep,
      VerdictFailed, PostQueued, PostProving, PostProved, RunReturns, TipAdvances, Ended

LEMMA TypeFlagsStep ==
  IInv /\ [Next]_vars => TypeEnvironment' /\ caught_up' \in BOOLEAN /\ reached_tip' \in BOOLEAN
<1> SUFFICES ASSUME IInv, [Next]_vars
             PROVE  TypeEnvironment' /\ caught_up' \in BOOLEAN /\ reached_tip' \in BOOLEAN
    BY Zenon
<1> USE ConstantsAssumption DEF IInv, TypeOK, TypeEnvironment
<1>1. config' \in Configs
  BY Zenon, ConfigStable
<1>2. tip' \in Blocks
  <2>1. CASE TipAdvances
    BY SMTT(40), <2>1 DEF TipAdvances, Blocks
  <2>2. TipAdvances \/ UNCHANGED tip
    BY ZenonT(40) DEF Next, FetcherStep, WorkerStep, PostStep, vars, FetcherStart, PollBounded, PollTip,
        PassBlock, PickBlock, FetchOk, FetchRetry, FetchGiveUp, FetcherPreflight, SendItem,
        EndScan, Recv, WorkerExit, GateSerial, GateConcurrent, PreflightTask, ProveReturns,
        ProverAborts, VerdictDiscard, VerdictKeep, VerdictFailed, PostQueued, PostProving,
        PostProved, RunReturns, Ended
  <2> QED
    BY Zenon, <2>1, <2>2
<1>3. process' \in {"running", "returned", "aborted"}
  BY ZenonT(40) DEF Next, FetcherStep, WorkerStep, PostStep, vars, FetcherStart, PollBounded, PollTip,
      PassBlock, PickBlock, FetchOk, FetchRetry, FetchGiveUp, FetcherPreflight, SendItem,
      EndScan, Recv, WorkerExit, GateSerial, GateConcurrent, PreflightTask, ProveReturns,
      ProverAborts, VerdictDiscard, VerdictKeep, VerdictFailed, PostQueued, PostProving,
      PostProved, RunReturns, TipAdvances, Ended
<1>4. caught_up' \in BOOLEAN
  BY Zenon DEF Next, FetcherStep, WorkerStep, PostStep, vars, fetcher, FetcherStart, PollBounded, PollTip,
      PassBlock, PickBlock, FetchOk, FetchRetry, FetchGiveUp, FetcherPreflight, SendItem,
      EndScan, Recv, WorkerExit, GateSerial, GateConcurrent, PreflightTask, ProveReturns,
      ProverAborts, VerdictDiscard, VerdictKeep, VerdictFailed, PostQueued, PostProving,
      PostProved, RunReturns, TipAdvances, Ended
<1>5. reached_tip' \in BOOLEAN
  BY ZenonT(40) DEF Next, FetcherStep, WorkerStep, PostStep, vars, history, FetcherStart, PollBounded, PollTip,
      PassBlock, PickBlock, FetchOk, FetchRetry, FetchGiveUp, FetcherPreflight, SendItem,
      EndScan, Recv, WorkerExit, GateSerial, GateConcurrent, PreflightTask, ProveReturns,
      ProverAborts, VerdictDiscard, VerdictKeep, VerdictFailed, PostQueued, PostProving,
      PostProved, RunReturns, TipAdvances, Ended
<1> QED
  BY Zenon, <1>1, <1>2, <1>3, <1>4, <1>5

LEMMA TypeStep == IInv /\ [Next]_vars => TypeOK'
  BY Zenon, TypeFetcherStep, TypeWorkerStep, TypeQueueStep, TypeOutputStep, TypePostsStep,
     TypeHistoryStep, TypeFlagsStep DEF TypeOK

-----------------------------------------------------------------------------
(* The fetcher's parts of the invariant. *)

\* Only the fetcher's steps change its variables and the history it writes.
LEMMA FetcherFrame ==
  [Next]_vars =>
    FetcherStep \/ UNCHANGED <<config, fetcher, fate, failed_fetches, served, queued_spawns>>
  BY Zenon DEF Next, WorkerStep, PostStep, vars, history, Recv, WorkerExit, GateSerial,
         GateConcurrent, PreflightTask, ProveReturns, ProverAborts, VerdictDiscard,
         VerdictKeep, VerdictFailed, PostQueued, PostProving, PostProved, RunReturns,
         TipAdvances, Ended

LEMMA FetcherInvStep == IInv /\ [Next]_vars => FetcherInv'
<1> SUFFICES ASSUME IInv, [Next]_vars PROVE FetcherInv'
    BY Zenon
<1> USE ConstantsAssumption, ConfigStable
    DEF IInv, FetcherInv, Holding, should_anything, should_prove, should_execute
<1>t. TypeOK /\ TypeFetcher /\ TypeHistory /\ TypeOK'
  BY Zenon, TypeStep DEF TypeOK
<1>f. CASE FetcherStart
  BY Zenon, <1>f DEF FetcherStart
<1>pb. CASE PollBounded
  BY Zenon, <1>pb DEF PollBounded
<1>pt. ASSUME NEW n \in reported, PollTip(n) PROVE FetcherInv'
  BY Zenon, <1>pt DEF PollTip
<1>ps. CASE PassBlock
  BY Zenon, <1>ps DEF PassBlock
<1>pk. CASE PickBlock
  BY Zenon, <1>pk, <1>t, PickedItem DEF PickBlock
<1>fo. CASE FetchOk
  <2>1. block_number \in Blocks /\ pending \in WorkItem
    BY Zenon, <1>fo, <1>t, HeldBlock DEF FetchOk
  <2>2. PICK g \in BOOLEAN : /\ pending' = [pending EXCEPT !.good = g]
                             /\ served' = [served EXCEPT ![block_number] = IF g THEN "good" ELSE "bad"]
    BY ZenonT(40), <1>fo DEF FetchOk
  <2>3. /\ pending' \in WorkItem
        /\ pending'.good = g /\ pending'.block_number = pending.block_number
        /\ pending'.prove = pending.prove /\ pending'.preflight = pending.preflight
    BY Zenon, <2>1, <2>2 DEF WorkItem
  <2>4. served'[block_number] = IF g THEN "good" ELSE "bad"
    BY Zenon, <2>1, <2>2, <1>t DEF TypeHistory
  <2>5. fpc = "fetch" /\ UNCHANGED <<config, block_number, next_block, latest>>
    BY Zenon, <1>fo DEF FetchOk
  <2>6. \/ fpc' = "preflight"
        \/ fpc' = "send" /\ ~(pending.prove /\ config.serial_preflight)
    BY Zenon, <1>fo DEF FetchOk
  <2> QED
    BY Zenon, <2>1, <2>3, <2>4, <2>5, <2>6
<1>fr. CASE FetchRetry
  BY Zenon, <1>fr DEF FetchRetry
<1>fg. CASE FetchGiveUp
  BY Zenon, <1>fg DEF FetchGiveUp
<1>fp. CASE FetcherPreflight
  <2>1. block_number \in Blocks /\ pending \in WorkItem
    BY Zenon, <1>fp, <1>t, HeldBlock DEF FetcherPreflight
  <2>2. PICK r \in preflight_outcomes(pending.good) : pending' = [pending EXCEPT !.preflight = r]
    BY Zenon, <1>fp DEF FetcherPreflight
  <2>3. /\ pending' \in WorkItem
        /\ pending'.preflight = r /\ pending'.block_number = pending.block_number
        /\ pending'.prove = pending.prove /\ pending'.good = pending.good
    BY Zenon, <2>1, <2>2 DEF WorkItem, preflight_outcomes
  <2>4. r # "none" /\ (r = "ok" => pending.good)
    BY Zenon, <2>2 DEF preflight_outcomes
  <2> QED
    BY Zenon, <1>fp, <2>1, <2>3, <2>4 DEF FetcherPreflight, history
<1>si. CASE SendItem
  BY Zenon, <1>si DEF SendItem
<1>es. CASE EndScan
  BY Zenon, <1>es DEF EndScan
<1>ot. CASE UNCHANGED <<config, fetcher, fate, failed_fetches, served, queued_spawns>>
  BY Zenon, <1>ot DEF fetcher
<1> QED
  BY ZenonT(40), <1>f, <1>pb, <1>pt, <1>ps, <1>pk, <1>fo, <1>fr, <1>fg, <1>fp, <1>si, <1>es, <1>ot,
     FetcherFrame DEF FetcherStep

\* What the fetcher does to the queued posts' count when it picks a block.
LEMMA PickedPost ==
  ASSUME IInv, PickBlock
  PROVE  /\ pending'.prove = should_prove(block_number)
         /\ pending'.queued_post = (should_prove(block_number) /\ config.eth_client)
         /\ retried_queued_post' = None
         /\ \A b \in Blocks : b # block_number => queued_spawns'[b] = queued_spawns[b]
         /\ queued_spawns'[block_number] = (IF pending'.queued_post THEN 1 ELSE 0)
<1> USE ConstantsAssumption DEF IInv
<1>1. block_number \in Blocks /\ block_number = next_block /\ fpc = "scan"
  BY Zenon, PickedItem DEF PickBlock, FetcherInv
<1>2. queued_spawns \in [Blocks -> Nat] /\ retried_queued_post \in Blocks \cup {None} /\ None \notin Blocks
  BY DEF TypeOK, TypePosts, TypeFetcher, Blocks
<1>3. has_retried_post(block_number) =>
        should_prove(block_number) /\ config.eth_client /\ queued_spawns[block_number] = 1
  BY Zenon, <1>1, <1>2 DEF has_retried_post, RetryInv
<1>4. ~has_retried_post(block_number) => retried_queued_post = None /\ queued_spawns[block_number] = 0
  BY Zenon, <1>1, <1>2 DEF has_retried_post, RetryInv, FutureInv, Holding
<1>5. CASE should_prove(block_number) /\ ~has_retried_post(block_number) /\ config.eth_client
  <2>1. queued_spawns' = [queued_spawns EXCEPT ![block_number] = queued_spawns[block_number] + 1]
    BY Zenon, <1>1, <1>2, <1>5 DEF PickBlock
  <2>2. queued_spawns'[block_number] = 1
        /\ \A b \in Blocks : b # block_number => queued_spawns'[b] = queued_spawns[b]
    BY <1>1, <1>2, <1>4, <1>5, <2>1
  <2>3. /\ retried_queued_post' = None
        /\ pending'.prove = should_prove(block_number)
        /\ pending'.queued_post = TRUE
    BY ZenonT(40), <1>5 DEF PickBlock
  <2> QED
    BY ZenonT(40), <1>5, <2>2, <2>3
<1>6. CASE ~(should_prove(block_number) /\ ~has_retried_post(block_number) /\ config.eth_client)
  <2>1. queued_spawns' = queued_spawns /\ retried_queued_post' = None
    BY Zenon, <1>1, <1>2, <1>3, <1>4, <1>6 DEF PickBlock
  <2>2. pending'.prove = should_prove(block_number)
        /\ pending'.queued_post = (should_prove(block_number) /\ has_retried_post(block_number))
    BY SMTT(40), <1>6 DEF PickBlock
  <2> QED
    BY ZenonT(40), <1>1, <1>2, <1>3, <1>4, <1>6, <2>1, <2>2
<1> QED
  BY Zenon, <1>5, <1>6

LEMMA RetryInvStep == IInv /\ [Next]_vars => RetryInv'
<1> SUFFICES ASSUME IInv, [Next]_vars PROVE RetryInv'
    BY Zenon
<1> USE ConstantsAssumption, ConfigStable
    DEF IInv, RetryInv, Holding, should_prove
<1>t. TypeOK /\ TypeFetcher
  BY Zenon DEF TypeOK
<1>f. CASE FetcherStart
  BY Zenon, <1>f DEF FetcherStart
<1>pb. CASE PollBounded
  BY Zenon, <1>pb DEF PollBounded
<1>pt. ASSUME NEW n \in reported, PollTip(n) PROVE RetryInv'
  BY Zenon, <1>pt DEF PollTip
<1>ps. CASE PassBlock
  BY Zenon, <1>ps, <1>t DEF PassBlock, should_anything, FetcherInv
<1>pk. CASE PickBlock
  BY Zenon, <1>pk, PickedPost DEF PickBlock, FetcherInv
<1>fo. CASE FetchOk
  <2>1. pending'.prove = pending.prove /\ pending'.queued_post = pending.queued_post
    BY Zenon, <1>fo, <1>t, HeldBlock DEF FetchOk, WorkItem
  <2> QED
    BY Zenon, <1>fo, <2>1 DEF FetchOk
<1>fr. CASE FetchRetry
  BY ZenonT(40), <1>fr, <1>t, HeldBlock DEF FetchRetry, FetcherInv
<1>fg. CASE FetchGiveUp
  BY Zenon, <1>fg DEF FetchGiveUp
<1>fp. CASE FetcherPreflight
  <2>1. pending'.prove = pending.prove /\ pending'.queued_post = pending.queued_post
    BY Zenon, <1>fp, <1>t, HeldBlock DEF FetcherPreflight, WorkItem
  <2> QED
    BY Zenon, <1>fp, <2>1 DEF FetcherPreflight
<1>si. CASE SendItem
  BY Zenon, <1>si DEF SendItem
<1>es. CASE EndScan
  BY Zenon, <1>es DEF EndScan
<1>ot. CASE UNCHANGED <<config, fetcher, fate, failed_fetches, served, queued_spawns>>
  BY Zenon, <1>ot DEF fetcher
<1> QED
  BY ZenonT(40), <1>f, <1>pb, <1>pt, <1>ps, <1>pk, <1>fo, <1>fr, <1>fg, <1>fp, <1>si, <1>es, <1>ot,
     FetcherFrame DEF FetcherStep

\* A poll that skips ahead goes on at n and leaves the blocks before it behind.
LEMMA Skipped ==
  ASSUME TypeOK, NEW n \in reported, PollTip(n), skips_ahead(n)
  PROVE  /\ n \in Blocks /\ n \in Nat /\ next_block' = n /\ next_block < n /\ fpc = "poll" /\ fpc' = "scan"
         /\ fetch_failures' = 0 /\ queued_spawns' = queued_spawns /\ failed_fetches' = failed_fetches
         /\ \A b \in Blocks : fate'[b] = IF b \in next_block..(n - 1) THEN "left_behind" ELSE fate[b]
<1>1. n \in Blocks /\ n \in Nat
  BY ReportedBlocks, ConstantsAssumption DEF TypeOK, TypeEnvironment, Blocks
<1>2. /\ next_block' = n /\ fpc = "poll" /\ fpc' = "scan" /\ fetch_failures' = 0
      /\ queued_spawns' = queued_spawns /\ failed_fetches' = failed_fetches
      /\ fate' = [b \in Blocks |-> IF b \in next_block..(n - 1) THEN "left_behind" ELSE fate[b]]
  BY Zenon DEF PollTip, skip_target
<1>3. next_block < n
  <2>1. config.max_lag \in Nat /\ next_block \in Nat
    BY ConfigFields, ConstantsAssumption DEF TypeOK, TypeEnvironment, TypeFetcher
  <2> QED
    BY <1>1, <2>1 DEF skips_ahead, saturating_sub
<1> QED
  BY Zenon, <1>1, <1>2, <1>3

LEMMA FutureInvStep == IInv /\ [Next]_vars => FutureInv'
<1> SUFFICES ASSUME IInv, [Next]_vars, NEW b \in Blocks
             PROVE  FutureInv!(b)'
    BY Zenon DEF FutureInv
<1>n. next_block' \in Nat
  BY TypeFetcherStep, ConstantsAssumption DEF TypeFetcher
<1>t. /\ TypeOK /\ TypeFetcher /\ b \in Nat /\ next_block \in Nat /\ next_block' \in Nat
      /\ queued_spawns \in [Blocks -> Nat]
      /\ fate \in [Blocks -> {"none", "enqueued", "given_up", "left_behind"}]
      /\ failed_fetches \in [Blocks -> Nat]
  BY <1>n, ConstantsAssumption DEF IInv, TypeOK, TypeFetcher, TypePosts, TypeHistory, Blocks
<1>i. FutureInv!(b) /\ FetcherInv /\ RetryInv
  BY Zenon DEF IInv, FutureInv
<1> USE DEF Holding
<1>f. CASE FetcherStart
  BY Zenon, <1>f, <1>t, <1>i DEF FetcherStart, RetryInv, history
<1>pb. CASE PollBounded
  BY Zenon, <1>pb, <1>i DEF PollBounded, history
<1>pt. ASSUME NEW n \in reported, PollTip(n) PROVE FutureInv!(b)'
  <2>1. CASE skips_ahead(n)
    <3>1. /\ n \in Nat /\ next_block' = n /\ next_block < n /\ fpc = "poll" /\ fpc' = "scan"
          /\ queued_spawns' = queued_spawns /\ failed_fetches' = failed_fetches
          /\ fate'[b] = IF b \in next_block..(n - 1) THEN "left_behind" ELSE fate[b]
      BY Zenon, <1>pt, <1>t, <2>1, Skipped
    <3>2. b >= n => fate'[b] = fate[b] /\ b > next_block /\ b >= next_block
      BY <1>t, <3>1
    <3>3. b > n => b >= n
      BY <1>t, <3>1
    <3>4. b = n => b >= n
      BY <1>t, <3>1
    <3> QED
      BY Zenon, <1>i, <3>1, <3>2, <3>3, <3>4
  <2>2. CASE ~skips_ahead(n)
    BY Zenon, <1>pt, <1>i, <2>2 DEF PollTip
  <2> QED
    BY Zenon, <2>1, <2>2
<1>ps. CASE PassBlock
  <2>1. /\ fpc = "scan" /\ fpc' = "scan" /\ next_block' = next_block + 1 /\ ~should_anything(next_block)
        /\ UNCHANGED <<fate, failed_fetches, queued_spawns, retried_queued_post>>
    BY Zenon, <1>ps, <1>i DEF PassBlock, FetcherInv, history
  <2>2. b >= next_block' => b > next_block /\ b >= next_block
    BY <1>t, <2>1
  <2>3. b > next_block' => b >= next_block'
    BY <1>t
  <2>4. b = next_block' => b >= next_block'
    BY <1>t
  <2> QED
    BY Zenon, <1>i, <2>1, <2>2, <2>3, <2>4
<1>pk. CASE PickBlock
  <2>1. next_block = block_number /\ block_number \in Blocks
    BY Zenon, <1>pk, <1>i, <1>t, PickedItem DEF PickBlock, FetcherInv
  <2>2. fpc = "scan" /\ fpc' = "fetch" /\ UNCHANGED <<next_block, fate, failed_fetches>>
    BY Zenon, <1>pk DEF PickBlock, history
  <2>3. CASE b = block_number
    <3>1. ~(b > next_block) /\ b >= next_block
      BY <1>t, <2>1, <2>3
    <3>2. queued_spawns'[b] <= 1
      BY <1>pk, <2>3, PickedPost
    <3> QED
      BY Zenon, <1>i, <2>2, <3>1, <3>2
  <2>4. CASE b # block_number
    <3>1. queued_spawns'[b] = queued_spawns[b]
      BY Zenon, <1>pk, <2>4, PickedPost
    <3> QED
      BY Zenon, <1>i, <2>1, <2>2, <2>4, <3>1
  <2> QED
    BY Zenon, <2>3, <2>4
<1>fo. CASE FetchOk
  BY Zenon, <1>fo, <1>i DEF FetchOk
<1>fr. CASE FetchRetry
  <2>1. next_block = block_number /\ block_number \in Blocks
    BY Zenon, <1>fr, <1>t, <1>i, HeldBlock DEF FetchRetry
  <2>2. pending.queued_post \/ queued_spawns[block_number] = 0
    BY Zenon, <1>fr, <1>i DEF FetchRetry, RetryInv
  <2> QED
    BY <1>fr, <1>t, <1>i, <2>1, <2>2 DEF FetchRetry
<1>fg. CASE FetchGiveUp
  BY <1>fg, <1>t, <1>i, HeldBlock DEF FetchGiveUp
<1>fp. CASE FetcherPreflight
  BY Zenon, <1>fp, <1>i DEF FetcherPreflight, history
<1>si. CASE SendItem
  BY <1>si, <1>t, <1>i, HeldBlock DEF SendItem
<1>es. CASE EndScan
  BY Zenon, <1>es, <1>i DEF EndScan, history
<1>ot. CASE UNCHANGED <<config, fetcher, fate, failed_fetches, served, queued_spawns>>
  BY Zenon, <1>ot, <1>i DEF fetcher
<1> QED
  BY Zenon, <1>f, <1>pb, <1>pt, <1>ps, <1>pk, <1>fo, <1>fr, <1>fg, <1>fp, <1>si, <1>es, <1>ot,
     FetcherFrame DEF FetcherStep

LEMMA AttemptsInvStep == IInv /\ [Next]_vars => AttemptsInv'
<1> SUFFICES ASSUME IInv, [Next]_vars PROVE AttemptsInv'
    BY Zenon
<1>t. /\ TypeOK /\ TypeFetcher /\ next_block \in Nat /\ next_block' \in Nat
      /\ fate \in [Blocks -> {"none", "enqueued", "given_up", "left_behind"}]
      /\ failed_fetches \in [Blocks -> Nat] /\ fetch_failures \in Nat
      /\ fetch_failures < MAX_FETCH_ATTEMPTS /\ MaxBlock \in Nat /\ MAX_FETCH_ATTEMPTS \in Nat \ {0}
  <2>1. TypeOK /\ TypeFetcher /\ TypeHistory /\ TypeFetcher'
    BY Zenon, TypeFetcherStep DEF IInv, TypeOK
  <2> QED
    BY <2>1, ConstantsAssumption DEF TypeFetcher, TypeHistory
<1>c. \A b : should_anything(b)' <=> should_anything(b)
  BY Zenon, ConfigStable DEF should_anything, should_prove, should_execute
<1>i. AttemptsInv /\ FetcherInv
  BY Zenon DEF IInv
<1>u. \A b \in Blocks : fpc = "start" \/ b > next_block => failed_fetches[b] = 0 /\ failed_fetches[b] # MAX_FETCH_ATTEMPTS
  BY Zenon, <1>t DEF IInv, FutureInv
<1>x. \A b \in Blocks : /\ fate[b] = "given_up" <=> failed_fetches[b] = MAX_FETCH_ATTEMPTS
                        /\ failed_fetches[b] > 0 => should_anything(b)'
  BY Zenon, <1>c, <1>i DEF AttemptsInv
\* The step to a next block that is past the one the fetcher was at.
<1>g. ASSUME next_block' > next_block, fetch_failures' = 0, fpc' = "scan",
             next_block' \in Blocks => failed_fetches'[next_block'] = failed_fetches[next_block'],
             \A b \in Blocks : /\ fate'[b] = "given_up" <=> failed_fetches'[b] = MAX_FETCH_ATTEMPTS
                               /\ failed_fetches'[b] > 0 => should_anything(b)'
      PROVE  AttemptsInv'
  <2>1. next_block' \in Blocks => failed_fetches'[next_block'] = 0
    BY Zenon, <1>u, <1>g
  <2>2. 0 < MAX_FETCH_ATTEMPTS
    BY <1>t
  <2> QED
    BY Zenon, <1>g, <2>1, <2>2 DEF AttemptsInv
<1>f. CASE FetcherStart
  <2>1. /\ fpc = "start" /\ fpc' \in {"poll", "exited"} /\ UNCHANGED <<fate, failed_fetches, fetch_failures>>
    BY Zenon, <1>f DEF FetcherStart, history
  <2>2. next_block' \in Blocks => failed_fetches[next_block'] = 0
    BY Zenon, <1>u, <2>1
  <2>3. fetch_failures = 0 /\ 0 < MAX_FETCH_ATTEMPTS
    BY Zenon, <1>i, <1>t, <2>1 DEF AttemptsInv
  <2> QED
    BY Zenon, <1>x, <2>1, <2>2, <2>3 DEF AttemptsInv
<1>pb. CASE PollBounded
  <2>1. fpc = "poll" /\ fpc' \in {"scan", "exited"} /\ UNCHANGED <<next_block, fate, failed_fetches, fetch_failures>>
    BY Zenon, <1>pb DEF PollBounded, history
  <2> QED
    BY Zenon, <1>x, <1>i, <2>1 DEF AttemptsInv
<1>pt. ASSUME NEW n \in reported, PollTip(n) PROVE AttemptsInv'
  <2>1. CASE skips_ahead(n)
    <3>1. /\ n \in Nat /\ next_block' = n /\ next_block < n /\ fetch_failures' = 0 /\ fpc' = "scan"
          /\ failed_fetches' = failed_fetches
          /\ \A b \in Blocks : fate'[b] = IF b \in next_block..(n - 1) THEN "left_behind" ELSE fate[b]
      BY Zenon, <1>pt, <1>t, <2>1, Skipped
    <3>2. ASSUME NEW b \in Blocks
          PROVE  fate'[b] = "given_up" <=> failed_fetches[b] = MAX_FETCH_ATTEMPTS
      <4>1. CASE b \in next_block..(n - 1)
        <5>1. b = next_block \/ b > next_block
          BY <1>t, <3>1, <4>1
        <5>2. failed_fetches[next_block] < MAX_FETCH_ATTEMPTS => failed_fetches[next_block] # MAX_FETCH_ATTEMPTS
          BY <1>t
        <5>3. failed_fetches[b] # MAX_FETCH_ATTEMPTS
          BY Zenon, <1>i, <1>u, <5>1, <5>2 DEF AttemptsInv
        <5> QED
          BY Zenon, <3>1, <4>1, <5>3
      <4>2. CASE b \notin next_block..(n - 1)
        BY Zenon, <1>x, <3>1, <4>2
      <4> QED
        BY Zenon, <4>1, <4>2
    <3>3. next_block' > next_block
      BY Zenon, <1>t, <3>1
    <3> QED
      BY Zenon, <1>x, <1>g, <3>1, <3>2, <3>3
  <2>2. CASE ~skips_ahead(n)
    <3>1. fpc = "poll" /\ fpc' = "scan" /\ UNCHANGED <<next_block, fate, failed_fetches, fetch_failures>>
      BY Zenon, <1>pt, <2>2 DEF PollTip
    <3> QED
      BY Zenon, <1>x, <1>i, <3>1 DEF AttemptsInv
  <2> QED
    BY Zenon, <2>1, <2>2
<1>ps. CASE PassBlock
  <2>1. /\ fpc = "scan" /\ fpc' = "scan" /\ next_block' = next_block + 1 /\ ~should_anything(next_block)
        /\ UNCHANGED <<fate, failed_fetches, fetch_failures>>
    BY Zenon, <1>ps, <1>i DEF PassBlock, FetcherInv, history
  <2>2. fetch_failures = 0
    <3>1. next_block \in Blocks => ~(failed_fetches[next_block] > 0) /\ failed_fetches[next_block] \in Nat
      BY Zenon, <1>i, <1>t, <2>1 DEF AttemptsInv
    <3>2. next_block \in Blocks => failed_fetches[next_block] = 0
      BY <3>1
    <3> QED
      BY Zenon, <1>i, <2>1, <3>2 DEF AttemptsInv
  <2>3. next_block' > next_block
    BY <1>t, <2>1
  <2> QED
    BY Zenon, <1>x, <1>g, <2>1, <2>2, <2>3
<1>pk. CASE PickBlock
  <2>1. fpc = "scan" /\ fpc' = "fetch" /\ UNCHANGED <<next_block, fate, failed_fetches, fetch_failures>>
    BY Zenon, <1>pk DEF PickBlock, history
  <2> QED
    BY Zenon, <1>x, <1>i, <2>1 DEF AttemptsInv
<1>fo. CASE FetchOk
  <2>1. /\ fpc = "fetch" /\ fpc' \in {"preflight", "send"} /\ fetch_failures' = 0
        /\ UNCHANGED <<next_block, fate, failed_fetches>>
    BY Zenon, <1>fo DEF FetchOk
  <2> QED
    BY Zenon, <1>x, <1>i, <2>1 DEF AttemptsInv
<1>fr. CASE FetchRetry
  <2>1. next_block = block_number /\ block_number \in Blocks /\ should_anything(block_number) /\ fpc = "fetch"
    BY Zenon, <1>fr, <1>t, <1>i, HeldBlock DEF FetchRetry, FetcherInv, Holding
  <2>2. /\ fpc' = "poll" /\ fetch_failures' = fetch_failures + 1 /\ fetch_failures + 1 < MAX_FETCH_ATTEMPTS
        /\ failed_fetches' = [failed_fetches EXCEPT ![next_block] = @ + 1] /\ UNCHANGED <<next_block, fate>>
    BY Zenon, <1>fr, <2>1 DEF FetchRetry, attempts_left
  <2>3. failed_fetches[next_block] = fetch_failures /\ failed_fetches[next_block] < MAX_FETCH_ATTEMPTS
    BY Zenon, <1>i, <2>1 DEF AttemptsInv
  <2>4. /\ failed_fetches'[next_block] = fetch_failures + 1
        /\ \A b \in Blocks : b # next_block => failed_fetches'[b] = failed_fetches[b]
    BY Zenon, <1>t, <2>1, <2>2, <2>3
  <2>5. failed_fetches[next_block] # MAX_FETCH_ATTEMPTS /\ fetch_failures + 1 # MAX_FETCH_ATTEMPTS
    BY <1>t, <2>1, <2>2, <2>3
  <2>6. \A b \in Blocks : /\ fate[b] = "given_up" <=> failed_fetches'[b] = MAX_FETCH_ATTEMPTS
                          /\ failed_fetches'[b] > 0 => should_anything(b)'
    BY Zenon, <1>x, <1>c, <2>1, <2>4, <2>5
  <2> QED
    BY Zenon, <2>1, <2>2, <2>4, <2>6 DEF AttemptsInv
<1>fg. CASE FetchGiveUp
  <2>1. next_block = block_number /\ block_number \in Blocks /\ should_anything(block_number) /\ fpc = "fetch"
    BY Zenon, <1>fg, <1>t, <1>i, HeldBlock DEF FetchGiveUp, FetcherInv, Holding
  <2>2. /\ fpc' = "scan" /\ fetch_failures' = 0 /\ ~(fetch_failures + 1 < MAX_FETCH_ATTEMPTS)
        /\ next_block' = next_block + 1 /\ fate' = [fate EXCEPT ![next_block] = "given_up"]
        /\ failed_fetches' = [failed_fetches EXCEPT ![next_block] = @ + 1]
    BY Zenon, <1>fg, <2>1 DEF FetchGiveUp, attempts_left
  <2>3. failed_fetches[next_block] = fetch_failures
    BY Zenon, <1>i, <2>1 DEF AttemptsInv
  <2>4. /\ failed_fetches'[next_block] = fetch_failures + 1 /\ fate'[next_block] = "given_up"
        /\ \A b \in Blocks : b # next_block => failed_fetches'[b] = failed_fetches[b] /\ fate'[b] = fate[b]
    BY Zenon, <1>t, <2>1, <2>2, <2>3
  <2>5. fetch_failures + 1 = MAX_FETCH_ATTEMPTS /\ next_block' > next_block /\ next_block' # next_block
    BY <1>t, <2>2
  <2>6. \A b \in Blocks : /\ fate'[b] = "given_up" <=> failed_fetches'[b] = MAX_FETCH_ATTEMPTS
                          /\ failed_fetches'[b] > 0 => should_anything(b)'
    BY Zenon, <1>x, <1>c, <2>1, <2>4, <2>5
  <2> QED
    BY Zenon, <1>g, <2>2, <2>4, <2>5, <2>6
<1>fp. CASE FetcherPreflight
  <2>1. fpc = "preflight" /\ fpc' = "send" /\ UNCHANGED <<next_block, fate, failed_fetches, fetch_failures>>
    BY Zenon, <1>fp DEF FetcherPreflight, history
  <2> QED
    BY Zenon, <1>x, <1>i, <2>1 DEF AttemptsInv
<1>si. CASE SendItem
  <2>1. next_block = block_number /\ block_number \in Blocks
    BY Zenon, <1>si, <1>t, <1>i, HeldBlock DEF SendItem, Holding
  <2>2. /\ fpc = "send" /\ fpc' = "scan" /\ next_block' = next_block + 1
        /\ fate' = [fate EXCEPT ![next_block] = "enqueued"] /\ UNCHANGED <<failed_fetches, fetch_failures>>
    BY Zenon, <1>si, <2>1 DEF SendItem
  <2>3. failed_fetches[next_block] < MAX_FETCH_ATTEMPTS /\ fetch_failures = 0
    BY Zenon, <1>i, <2>1, <2>2 DEF AttemptsInv
  <2>4. /\ fate'[next_block] = "enqueued" /\ failed_fetches[next_block] # MAX_FETCH_ATTEMPTS
        /\ \A b \in Blocks : b # next_block => fate'[b] = fate[b]
        /\ next_block' > next_block
    BY <1>t, <2>1, <2>2, <2>3
  <2>5. \A b \in Blocks : fate'[b] = "given_up" <=> failed_fetches[b] = MAX_FETCH_ATTEMPTS
    BY Zenon, <1>x, <2>4
  <2> QED
    BY Zenon, <1>x, <1>g, <2>2, <2>3, <2>4, <2>5
<1>es. CASE EndScan
  <2>1. fpc = "scan" /\ fpc' = "poll" /\ UNCHANGED <<next_block, fate, failed_fetches, fetch_failures>>
    BY Zenon, <1>es DEF EndScan, history
  <2> QED
    BY Zenon, <1>x, <1>i, <2>1 DEF AttemptsInv
<1>ot. CASE UNCHANGED <<config, fetcher, fate, failed_fetches, served, queued_spawns>>
  BY Zenon, <1>ot, <1>x, <1>i DEF AttemptsInv, fetcher
<1> QED
  BY Zenon, <1>f, <1>pb, <1>pt, <1>ps, <1>pk, <1>fo, <1>fr, <1>fg, <1>fp, <1>si, <1>es, <1>ot,
     FetcherFrame DEF FetcherStep

LEMMA NothingLostStep == IInv /\ [Next]_vars => NothingLostSilently'
<1> SUFFICES ASSUME IInv, [Next]_vars, NEW b \in Blocks,
                    (b < next_block /\ should_anything(b))',
                    \/ (config.start_block # None /\ config.start_block <= b)'
                    \/ \E a \in 0..b : fate'[a] # "none"
             PROVE  fate'[b] # "none"
  BY Zenon, AttemptsInvStep DEF NothingLostSilently, AttemptsInv
<1>n. next_block' \in Nat /\ fate' \in [Blocks -> {"none", "enqueued", "given_up", "left_behind"}]
  BY TypeFetcherStep, TypeHistoryStep, ConstantsAssumption DEF TypeFetcher, TypeHistory
<1>t. /\ TypeOK /\ b \in Nat /\ next_block \in Nat /\ 0..b \subseteq Blocks
      /\ fate \in [Blocks -> {"none", "enqueued", "given_up", "left_behind"}]
  BY ConstantsAssumption DEF IInv, TypeOK, TypeFetcher, TypeHistory, Blocks
<1>c. config' = config /\ should_anything(b)
  BY Zenon, ConfigStable DEF should_anything, should_prove, should_execute
<1>i. FetcherInv /\ FutureInv
  BY Zenon DEF IInv
<1>o. ASSUME b < next_block,
             \/ config.start_block # None /\ config.start_block <= b
             \/ \E a \in 0..b : fate[a] # "none"
      PROVE  fate[b] # "none"
  BY Zenon, <1>o, <1>c DEF IInv, NothingLostSilently
<1>f. CASE FetcherStart
  <2>1. \A a \in 0..b : fate'[a] = "none"
    BY Zenon, <1>f, <1>t, <1>i DEF FetcherStart, FutureInv, history
  <2>2. config.start_block # None /\ config.start_block <= b
    BY Zenon, <2>1, <1>c
  <2>3. next_block' = config.start_block
    BY Zenon, <1>f, <2>2 DEF FetcherStart
  <2> QED
    BY <1>t, <1>n, <2>2, <2>3
<1>pt. ASSUME NEW n \in reported, PollTip(n) PROVE fate'[b] # "none"
  <2>0. n \in Nat
    BY <1>t, ReportedBlocks DEF TypeOK, TypeEnvironment, Blocks
  <2>1. CASE skips_ahead(n)
    <3>1. next_block' = n
      BY Zenon, <1>pt, <2>1 DEF PollTip, skips_ahead, saturating_sub, skip_target
    <3>2. CASE b \in next_block..(n - 1)
      BY Zenon, <1>pt, <1>t, <2>1, <3>2 DEF PollTip
    <3>3. CASE b < next_block
      <4>1. \A a \in 0..b : fate'[a] = fate[a]
        BY <1>pt, <1>t, <2>0, <2>1, <3>3 DEF PollTip
      <4> QED
        BY <1>o, <1>c, <1>t, <3>3, <4>1
    <3> QED
      BY <1>t, <1>n, <2>0, <3>1, <3>2, <3>3
  <2>2. CASE ~skips_ahead(n)
    BY Zenon, <1>pt, <1>o, <1>c, <2>2 DEF PollTip
  <2> QED
    BY Zenon, <2>1, <2>2
<1>ps. CASE PassBlock
  BY <1>ps, <1>t, <1>o, <1>c, <1>i DEF PassBlock, FetcherInv, history
<1>fg. CASE FetchGiveUp
  BY <1>fg, <1>t, <1>o, <1>c, <1>i, HeldBlock DEF FetchGiveUp, Holding
<1>si. CASE SendItem
  BY <1>si, <1>t, <1>o, <1>c, <1>i, HeldBlock DEF SendItem, Holding
<1>ot. CASE UNCHANGED <<next_block, fate>>
  BY Zenon, <1>ot, <1>o, <1>c
<1> QED
  BY Zenon, <1>f, <1>pt, <1>ps, <1>fg, <1>si, <1>ot, FetcherFrame
  DEF FetcherStep, fetcher, history, PollBounded, PickBlock, FetchOk, FetchRetry,
      FetcherPreflight, EndScan

-----------------------------------------------------------------------------
(* The worker's parts of the invariant. *)

\* What the fetcher recorded of an enqueued block never changes again.
LEMMA PastStable ==
  ASSUME IInv, [Next]_vars, NEW b \in Blocks, fate[b] = "enqueued"
  PROVE  fate'[b] = "enqueued" /\ served'[b] = served[b] /\ queued_spawns'[b] = queued_spawns[b]
<1>t. /\ TypeOK /\ b \in Nat /\ next_block \in Nat /\ fpc # "start" /\ b < next_block
      /\ fate \in [Blocks -> {"none", "enqueued", "given_up", "left_behind"}]
      /\ served \in [Blocks -> {"none", "good", "bad"}]
      /\ queued_spawns \in [Blocks -> Nat]
  <2>1. TypeOK /\ TypeFetcher /\ TypeHistory /\ TypePosts /\ FutureInv
    BY Zenon DEF IInv, TypeOK
  <2>2. b \in Nat /\ next_block \in Nat
    BY <2>1, ConstantsAssumption DEF TypeFetcher, Blocks
  <2>3. ~(fpc = "start" \/ b >= next_block)
    BY Zenon, <2>1 DEF FutureInv
  <2> QED
    BY <2>1, <2>2, <2>3 DEF TypeHistory, TypePosts
<1>i. FetcherInv
  BY Zenon DEF IInv
<1>pt. ASSUME NEW n \in reported, PollTip(n)
       PROVE  fate'[b] = "enqueued" /\ served'[b] = served[b] /\ queued_spawns'[b] = queued_spawns[b]
  <2>0. n \in Nat
    BY <1>t, ReportedBlocks, ConstantsAssumption DEF TypeOK, TypeEnvironment, Blocks
  <2> QED
    BY <1>pt, <1>t, <2>0 DEF PollTip
<1>pk. CASE PickBlock
  <2>1. b # block_number
    BY <1>pk, <1>t, <1>i DEF PickBlock, FetcherInv
  <2> QED
    BY Zenon, <1>pk, <2>1, PickedPost DEF PickBlock, history
<1>fo. CASE FetchOk
  BY <1>fo, <1>t, <1>i, HeldBlock DEF FetchOk, Holding
<1>fg. CASE FetchGiveUp
  BY <1>fg, <1>t, <1>i, HeldBlock DEF FetchGiveUp, Holding
<1>si. CASE SendItem
  BY Zenon, <1>si, <1>t, <1>i, HeldBlock DEF SendItem, Holding
<1>ot. CASE UNCHANGED <<fate, served, queued_spawns>>
  BY Zenon, <1>ot
<1> QED
  BY Zenon, <1>pt, <1>pk, <1>fo, <1>fg, <1>si, <1>ot, FetcherFrame
  DEF FetcherStep, fetcher, history, FetcherStart, PollBounded, PassBlock, FetchRetry,
      FetcherPreflight, EndScan

LEMMA ItemStable ==
  ASSUME IInv, [Next]_vars
  PROVE  \A x \in WorkItem : ItemInv(x) => ItemInv(x)'
<1> SUFFICES ASSUME NEW x \in WorkItem, ItemInv(x) PROVE ItemInv(x)'
    BY Zenon
<1>1. x.block_number \in Blocks /\ fate[x.block_number] = "enqueued"
  BY Zenon DEF WorkItem, ItemInv
<1>2. /\ fate'[x.block_number] = "enqueued"
      /\ served'[x.block_number] = served[x.block_number]
      /\ queued_spawns'[x.block_number] = queued_spawns[x.block_number]
  BY Zenon, <1>1, PastStable
<1> QED
  BY Zenon, <1>2, ConfigStable DEF ItemInv, should_prove

\* An enqueued block is behind the fetcher.
LEMMA PastBlock ==
  ASSUME IInv, NEW b \in Blocks, fate[b] = "enqueued"
  PROVE  fpc # "start" /\ b < next_block /\ b \in Nat /\ next_block \in Nat
  BY SMTT(40), ConstantsAssumption DEF IInv, FutureInv, TypeOK, TypeFetcher, Blocks

\* The only steps that move the queue.
LEMMA QueueFrame ==
  [Next]_vars => SendItem \/ Recv \/ UNCHANGED queue
  BY ZenonT(40) DEF Next, FetcherStep, WorkerStep, PostStep, vars, FetcherStart, PollBounded, PollTip,
      PassBlock, PickBlock, FetchOk, FetchRetry, FetchGiveUp, FetcherPreflight,
      EndScan, WorkerExit, GateSerial, GateConcurrent, PreflightTask, ProveReturns,
      ProverAborts, VerdictDiscard, VerdictKeep, VerdictFailed, PostQueued, PostProving,
      PostProved, RunReturns, TipAdvances, Ended

\* The item the fetcher sends is the last in the queue, and behind no other.
LEMMA SentItem ==
  ASSUME IInv, SendItem, [Next]_vars
  PROVE  /\ pending \in WorkItem /\ pending.block_number = next_block
         /\ \A x : x = pending => ItemInv(x)'
         /\ Len(queue') = Len(queue) + 1
         /\ \A i \in 1..Len(queue) : queue'[i] = queue[i]
         /\ queue'[Len(queue) + 1] = pending
<1>1. /\ pending \in WorkItem /\ block_number \in Blocks /\ block_number = next_block
      /\ queue \in Seq(WorkItem) /\ fpc = "send" /\ pending.block_number = block_number
  BY Zenon, HeldBlock DEF IInv, SendItem, Holding, TypeOK, TypeQueue, FetcherInv
<1>2. /\ Len(queue') = Len(queue) + 1
      /\ \A i \in 1..Len(queue) : queue'[i] = queue[i]
      /\ queue'[Len(queue) + 1] = pending
  <2>1. queue' = Append(queue, pending)
    BY Zenon DEF SendItem
  <2>2. queue \in Seq(WorkItem) /\ pending \in WorkItem
    BY Zenon, <1>1
  <2> QED
    BY <2>1, <2>2
<1>3. /\ fate'[block_number] = "enqueued" /\ served' = served
      /\ queued_spawns' = queued_spawns /\ config' = config
  BY Zenon, <1>1 DEF SendItem, IInv, TypeOK, TypeHistory
<1>4. /\ served[block_number] = (IF pending.good THEN "good" ELSE "bad")
      /\ pending.prove = should_prove(block_number)
      /\ pending.preflight = "ok" => pending.good
      /\ config.serial_preflight /\ pending.prove => pending.preflight # "none"
      /\ pending.queued_post = (pending.prove /\ config.eth_client)
      /\ pending.queued_post => queued_spawns[block_number] = 1
  BY Zenon, <1>1 DEF IInv, FetcherInv, RetryInv, Holding
<1>5. ASSUME NEW x, x = pending PROVE ItemInv(x)'
  BY Zenon, <1>1, <1>3, <1>4, <1>5 DEF ItemInv, should_prove
<1> QED
  BY Zenon, <1>1, <1>2, <1>5

LEMMA QueueInvStep == IInv /\ [Next]_vars => QueueInv'
<1> SUFFICES ASSUME IInv, [Next]_vars PROVE QueueInv'
    BY Zenon
<1>t. queue \in Seq(WorkItem) /\ Len(queue) \in Nat /\ QueueInv
      /\ \A i \in 1..Len(queue) : queue[i] \in WorkItem
  BY DEF IInv, TypeOK, TypeQueue
<1>o. \A i \in 1..Len(queue) : /\ ItemInv(queue[i])
                                 /\ queue[i].block_number \in Nat /\ queue[i].block_number < next_block
  <2>1. \A i \in 1..Len(queue) : ItemInv(queue[i]) /\ queue[i].block_number \in Blocks
                                 /\ fate[queue[i].block_number] = "enqueued"
    BY Zenon, <1>t DEF QueueInv, ItemInv, WorkItem
  <2> QED
    BY SMTT(40), <2>1, PastBlock
<1>s. \A x : (\E i \in 1..Len(queue) : x = queue[i]) => ItemInv(x)'
  BY Zenon, <1>o, <1>t, ItemStable
<1>si. CASE SendItem
  <2>1. /\ \A i \in 1..Len(queue) : queue'[i] = queue[i]
        /\ Len(queue') = Len(queue) + 1 /\ queue'[Len(queue) + 1] = pending
        /\ pending.block_number = next_block
        /\ \A x : x = pending => ItemInv(x)'
    BY SMTT(40), <1>si, SentItem
  <2>2. ASSUME NEW i \in 1..Len(queue') PROVE ItemInv(queue[i])'
    <3>1. i \in 1..Len(queue) \/ i = Len(queue) + 1
      BY <1>t, <2>1
    <3> QED
      BY Zenon, <1>s, <2>1, <3>1 DEF ItemInv
  <2>3. ASSUME NEW i \in 1..Len(queue'), NEW j \in 1..Len(queue'), i < j
        PROVE  queue'[i].block_number < queue'[j].block_number
    <3>1. i \in 1..Len(queue) /\ (j \in 1..Len(queue) \/ j = Len(queue) + 1)
      BY <1>t, <2>1, <2>3
    <3> QED
      BY Zenon, <1>o, <1>t, <2>1, <2>3, <3>1 DEF QueueInv
  <2> QED
    BY Zenon, <2>2, <2>3 DEF QueueInv
<1>r. CASE Recv
  <2>1. /\ Len(queue') = Len(queue) - 1
        /\ \A i \in 1..Len(queue') : queue'[i] = queue[i + 1] /\ i + 1 \in 1..Len(queue)
    BY SMTT(40), <1>r, <1>t DEF Recv
  <2>2. ASSUME NEW i \in 1..Len(queue') PROVE ItemInv(queue[i])'
    BY Zenon, <1>s, <1>t, <2>1 DEF ItemInv
  <2>3. ASSUME NEW i \in 1..Len(queue'), NEW j \in 1..Len(queue'), i < j
        PROVE  queue'[i].block_number < queue'[j].block_number
    <3>1. i + 1 \in 1..Len(queue) /\ j + 1 \in 1..Len(queue) /\ i + 1 < j + 1
      BY <1>t, <2>1, <2>3
    <3>2. queue[i + 1].block_number < queue[j + 1].block_number
      BY Zenon, <1>t, <3>1 DEF QueueInv
    <3> QED
      BY Zenon, <2>1, <3>2
  <2> QED
    BY Zenon, <2>2, <2>3 DEF QueueInv
<1>ot. CASE UNCHANGED queue
  <2>2. ASSUME NEW i \in 1..Len(queue') PROVE ItemInv(queue[i])'
    BY ZenonT(40), <1>s, <1>ot DEF ItemInv
  <2> QED
    BY Zenon, <1>t, <1>ot, <2>2 DEF QueueInv
<1> QED
  BY Zenon, <1>si, <1>r, <1>ot, QueueFrame

\* The worker's own steps, and the concurrent preflight's.
WorkerOwn ==
  \/ Recv \/ WorkerExit \/ GateSerial \/ GateConcurrent \/ PreflightTask
  \/ ProveReturns \/ VerdictDiscard \/ VerdictKeep \/ VerdictFailed

LEMMA WorkerFrame ==
  [Next]_vars => WorkerOwn \/ UNCHANGED <<config, worker>>
  BY ZenonT(40) DEF Next, FetcherStep, WorkerStep, PostStep, WorkerOwn, vars, FetcherStart, PollBounded,
      PollTip, PassBlock, PickBlock, FetchOk, FetchRetry, FetchGiveUp, FetcherPreflight,
      SendItem, EndScan, ProverAborts, PostQueued, PostProving, PostProved, RunReturns,
      TipAdvances, Ended

\* The worker's item stays the same item while the worker works on it.
LEMMA WorkedItem ==
  [Next]_vars /\ ~Recv /\ Working' => Working /\ item' = item
  BY Zenon, WorkerFrame
  DEF WorkerOwn, Working, worker, WorkerExit, GateSerial, GateConcurrent, PreflightTask,
      ProveReturns, VerdictDiscard, VerdictKeep, VerdictFailed

WorkingItem ==
  /\ item \in WorkItem
  /\ ItemInv(item)
  /\ item.prove
  /\ \A i \in 1..Len(queue) : item.block_number < queue[i].block_number

LEMMA WorkingItemStep == IInv /\ [Next]_vars /\ Working' => WorkingItem'
<1> SUFFICES ASSUME IInv, [Next]_vars, Working' PROVE WorkingItem'
    BY Zenon
<1>t. /\ queue \in Seq(WorkItem) /\ Len(queue) \in Nat /\ QueueInv
      /\ \A i \in 1..Len(queue) : queue[i] \in WorkItem
  BY DEF IInv, TypeOK, TypeQueue
<1>r. CASE Recv
  <2>1. item' = Head(queue) /\ Head(queue).prove /\ queue' = Tail(queue) /\ queue # <<>>
    BY Zenon, <1>r DEF Recv, Working
  <2>2. /\ 1 \in 1..Len(queue) /\ item' = queue[1] /\ queue[1] \in WorkItem /\ queue[1].prove
        /\ ItemInv(queue[1])
        /\ Len(queue') = Len(queue) - 1
        /\ \A i \in 1..Len(queue') : queue'[i] = queue[i + 1] /\ i + 1 \in 1..Len(queue) /\ 1 < i + 1
    BY <1>t, <2>1 DEF QueueInv
  <2>3. \A x : x = queue[1] => ItemInv(x)'
    BY SMTT(40), <2>2, ItemStable
  <2>4. ItemInv(item)'
    <3>1. PICK x : x = queue[1]
      BY Zenon
    <3>2. ItemInv(x)'
      BY Zenon, <2>3, <3>1
    <3>3. item' = x
      BY Zenon, <2>2, <3>1
    <3> QED
      BY Zenon, <3>2, <3>3 DEF ItemInv
  <2>5. \A i \in 1..Len(queue') : item'.block_number < queue'[i].block_number
    BY Zenon, <1>t, <2>2 DEF QueueInv
  <2> QED
    BY Zenon, <2>2, <2>4, <2>5 DEF WorkingItem
<1>o. CASE ~Recv
  <2>1. Working /\ item' = item
    BY Zenon, <1>o, WorkedItem
  <2>2. /\ item \in WorkItem /\ ItemInv(item) /\ item.prove
        /\ \A i \in 1..Len(queue) : item.block_number < queue[i].block_number
    BY Zenon, <2>1 DEF IInv, WorkerInv
  <2>3. ItemInv(item)'
    <3>1. \A x : x = item => ItemInv(x)'
      BY Zenon, <2>2, ItemStable
    <3> QED
      BY Zenon, <2>1, <3>1 DEF ItemInv
  <2>4. \A i \in 1..Len(queue') : item.block_number < queue'[i].block_number
    <3>1. CASE SendItem
      <4>1. /\ \A i \in 1..Len(queue) : queue'[i] = queue[i]
            /\ Len(queue') = Len(queue) + 1 /\ queue'[Len(queue) + 1] = pending
            /\ pending.block_number = next_block
        BY Zenon, <3>1, SentItem
      <4>2. item.block_number \in Blocks /\ fate[item.block_number] = "enqueued"
        BY Zenon, <2>2 DEF WorkItem, ItemInv
      <4>3. item.block_number < next_block
        BY Zenon, <4>2, PastBlock
      <4>4. \A i \in 1..Len(queue') : i \in 1..Len(queue) \/ i = Len(queue) + 1
        BY <1>t, <4>1
      <4> QED
        BY Zenon, <2>2, <4>1, <4>3, <4>4
    <3>2. CASE UNCHANGED queue
      BY SMTT(40), <2>2, <3>2
    <3> QED
      BY Zenon, <1>o, <3>1, <3>2, QueueFrame
  <2> QED
    BY Zenon, <2>1, <2>2, <2>3, <2>4 DEF WorkingItem
<1> QED
  BY Zenon, <1>r, <1>o

\* The rest of WorkerInv: what the worker's control point says of its preflight
\* and of its result.
WorkerControl ==
  /\ ~Working \/ wpc = "gate" \/ config.serial_preflight => preflight_task = "none"
  /\ wpc \in {"proving", "verdict"} /\ ~config.serial_preflight => preflight_task # "none"
  /\ wpc \in {"proving", "verdict"} /\ config.serial_preflight => item.good
  /\ preflight_task = "ok" => item.good
  /\ wpc = "verdict" => prove_result \in {"commits", "err"}

LEMMA WorkerControlStep == IInv /\ [Next]_vars => WorkerControl'
<1> SUFFICES ASSUME IInv, [Next]_vars PROVE WorkerControl'
    BY Zenon
<1>c. config' = config
  BY Zenon, ConfigStable
<1>i. WorkerControl
  BY Zenon DEF IInv, WorkerInv, WorkerControl
<1>g. wpc = "gate" => item.preflight \in {"none", "ok", "failed"} /\ (item.preflight = "ok" => item.good)
  BY Zenon DEF IInv, WorkerInv, Working, WorkItem, ItemInv
<1> USE <1>c, <1>i DEF WorkerControl, Working
<1>r. CASE Recv
  BY Zenon, <1>r DEF Recv
<1>we. CASE WorkerExit
  BY Zenon, <1>we DEF WorkerExit
<1>gs. CASE GateSerial
  <2>1. /\ wpc = "gate" /\ config.serial_preflight /\ UNCHANGED preflight_task
        /\ wpc' = "recv" \/ (wpc' = "proving" /\ item' = item /\ item.good)
    BY Zenon, <1>gs, <1>g DEF GateSerial, preflight_failure, preflight_outcomes
  <2> QED
    BY Zenon, <2>1
<1>gc. CASE GateConcurrent
  <2>1. /\ wpc' = "proving" /\ ~config.serial_preflight /\ preflight_task' = "running"
    BY Zenon, <1>gc DEF GateConcurrent
  <2> QED
    BY Zenon, <2>1
<1>pf. CASE PreflightTask
  <2>1. /\ preflight_task = "running" /\ UNCHANGED <<wpc, item, prove_result>>
        /\ preflight_task' \in {"ok", "failed"} /\ (preflight_task' = "ok" => item.good)
    BY Zenon, <1>pf DEF PreflightTask, preflight_outcomes
  <2> QED
    BY Zenon, <2>1
<1>pr. CASE ProveReturns
  <2>1. /\ wpc = "proving" /\ wpc' = "verdict" /\ UNCHANGED <<item, preflight_task>>
        /\ prove_result' \in {"commits", "err"}
    BY Zenon, <1>pr DEF ProveReturns, prove_outcomes, prove_inner
  <2> QED
    BY Zenon, <2>1
<1>vd. CASE VerdictDiscard \/ VerdictKeep \/ VerdictFailed
  <2>1. wpc' = "recv" /\ preflight_task' = "none"
    BY Zenon, <1>vd DEF VerdictDiscard, VerdictKeep, VerdictFailed
  <2> QED
    BY Zenon, <2>1
<1>ot. CASE UNCHANGED <<config, worker>>
  BY Zenon, <1>ot DEF worker
<1> QED
  BY ZenonT(40), <1>r, <1>we, <1>gs, <1>gc, <1>pf, <1>pr, <1>vd, <1>ot, WorkerFrame DEF WorkerOwn

LEMMA WorkerInvStep == IInv /\ [Next]_vars => WorkerInv'
  BY Zenon, WorkingItemStep, WorkerControlStep DEF WorkerInv, WorkingItem, WorkerControl

LEMMA SerialStep == IInv /\ [Next]_vars => SerialPreflightNeverAborts'
<1> SUFFICES ASSUME IInv, [Next]_vars PROVE SerialPreflightNeverAborts'
    BY Zenon
<1> USE ConfigStable DEF IInv, SerialPreflightNeverAborts
<1>1. CASE ProverAborts
  BY Zenon, <1>1 DEF ProverAborts, WorkerInv
<1>2. CASE RunReturns
  BY Zenon, <1>2 DEF RunReturns
<1>3. CASE UNCHANGED process
  BY Zenon, <1>3
<1> QED
  BY ZenonT(40), <1>1, <1>2, <1>3
  DEF Next, FetcherStep, WorkerStep, PostStep, vars, FetcherStart, PollBounded, PollTip,
      PassBlock, PickBlock, FetchOk, FetchRetry, FetchGiveUp, FetcherPreflight, SendItem,
      EndScan, Recv, WorkerExit, GateSerial, GateConcurrent, PreflightTask, ProveReturns,
      VerdictDiscard, VerdictKeep, VerdictFailed, PostQueued, PostProving, PostProved,
      TipAdvances, Ended

-----------------------------------------------------------------------------
(* The posts' part of the invariant. *)

LEMMA PostsInvStep == IInv /\ [Next]_vars => PostsInv'
<1> SUFFICES ASSUME IInv, [Next]_vars, NEW b \in Blocks PROVE BlockPostsInv(b)'
    BY Zenon DEF PostsInv
<1>t. /\ TypeOK /\ TypePosts /\ b \in Nat /\ queue \in Seq(WorkItem) /\ Len(queue) \in Nat
      /\ posts \in [Blocks -> PostRecord] /\ posts[b] \in PostRecord
  BY ConstantsAssumption DEF IInv, TypeOK, TypePosts, TypeQueue, Blocks
<1>c. config' = config
  BY Zenon, ConfigStable
<1>i. BlockPostsInv(b) /\ WorkerInv /\ QueueInv /\ FetcherInv
  BY Zenon DEF IInv, PostsInv
<1>p. posts[b].proving # "none" =>
        fate'[b] = "enqueued" /\ queued_spawns'[b] = queued_spawns[b] /\ b < next_block /\ next_block \in Nat
  BY Zenon, <1>i, PastStable, PastBlock DEF BlockPostsInv
<1>w. Working => item \in WorkItem /\ item.block_number \in Nat /\ item.block_number \in Blocks
  <2> SUFFICES ASSUME Working
               PROVE  item \in WorkItem /\ item.block_number \in Nat /\ item.block_number \in Blocks
      BY Zenon
  <2>1. item \in WorkItem /\ item.block_number \in Blocks
    BY Zenon, <1>i, WorkedBlock
  <2> QED
    BY <2>1, ConstantsAssumption DEF Blocks
<1>pk. CASE PickBlock
  <2>1. block_number = next_block /\ block_number \in Blocks
    BY Zenon, <1>pk, <1>t, <1>i, PickedItem DEF PickBlock, FetcherInv
  <2>2. UNCHANGED <<queue, wpc, item, fate>>
    BY Zenon, <1>pk DEF PickBlock, worker, history
  <2>3. CASE b # block_number
    <3>1. posts'[b] = posts[b] /\ queued_spawns'[b] = queued_spawns[b]
      BY Zenon, <1>pk, <1>t, <2>1, <2>3, PickedPost DEF PickBlock
    <3> QED
      BY Zenon, <1>i, <1>c, <2>2, <3>1 DEF BlockPostsInv
  <2>4. CASE b = block_number
    <3>1. posts[b].proving = "none" /\ posts[b].proved = "none"
      <4>1. posts[b].proving = "none"
        BY <1>p, <1>t, <2>1, <2>4
      <4> QED
        BY Zenon, <1>i, <4>1 DEF BlockPostsInv
    <3>2. /\ posts'[b].proving = "none" /\ posts'[b].proved = "none"
          /\ posts'[b].queued # "none" <=> queued_spawns'[b] = 1
      <4>1. CASE posts' = posts /\ queued_spawns' = queued_spawns
        BY Zenon, <1>i, <3>1, <4>1 DEF BlockPostsInv
      <4>2. CASE /\ posts' = [posts EXCEPT ![block_number].queued = "spawned"]
                 /\ should_prove(block_number) /\ config.eth_client
        <5>1. queued_spawns'[b] = 1
          BY ZenonT(40), <1>pk, <2>4, <4>2, PickedPost
        <5>2. posts'[b] = [posts[b] EXCEPT !.queued = "spawned"]
          BY Zenon, <1>t, <2>4, <4>2
        <5> QED
          BY Zenon, <1>t, <3>1, <5>1, <5>2 DEF PostRecord
      <4> QED
        BY Zenon, <1>pk, <4>1, <4>2 DEF PickBlock
    <3>3. ~(wpc \in {"proving", "verdict"} /\ config.eth_client /\ b = item.block_number)
      BY Zenon, <1>i, <3>1 DEF BlockPostsInv
    <3> QED
      BY Zenon, <1>c, <2>2, <3>2, <3>3 DEF BlockPostsInv, sent
  <2> QED
    BY Zenon, <2>3, <2>4
<1>gs. CASE GateSerial \/ GateConcurrent
  <2>1. /\ wpc = "gate" /\ UNCHANGED <<queue, fate, queued_spawns>>
        /\ \/ wpc' = "recv" /\ posts' = posts
           \/ wpc' = "proving" /\ posts' = spawn_proving /\ item' = item
    BY Zenon, <1>gs DEF GateSerial, GateConcurrent, history
  <2>2. CASE wpc' = "recv" /\ posts' = posts
    BY Zenon, <1>i, <1>c, <2>1, <2>2 DEF BlockPostsInv
  <2>3. CASE wpc' = "proving" /\ posts' = spawn_proving /\ item' = item /\ ~config.eth_client
    <3>1. posts' = posts
      BY Zenon, <2>3 DEF spawn_proving
    <3> QED
      <4>1. posts[b].proving # "none" => b < item.block_number
        BY Zenon, <1>i, <2>1 DEF BlockPostsInv
      <4>2. item.block_number \in Nat
        BY Zenon, <1>w, <2>1 DEF Working
      <4>3. posts[b].proving # "none" => b <= item.block_number
        BY <1>t, <4>1, <4>2
      <4> QED
        BY Zenon, <1>i, <1>c, <2>1, <2>3, <3>1, <4>1, <4>3 DEF BlockPostsInv
  <2>4. CASE wpc' = "proving" /\ posts' = spawn_proving /\ item' = item /\ config.eth_client
    <3>1. item \in WorkItem /\ ItemInv(item) /\ item.prove /\ item.block_number \in Nat
          /\ \A i \in 1..Len(queue) : item.block_number < queue[i].block_number
      BY Zenon, <1>i, <1>w, <2>1 DEF WorkerInv, Working
    <3>2. CASE b # item.block_number
      <4>1. posts'[b] = posts[b]
        BY Zenon, <1>t, <2>4, <3>1, <3>2, SpawnedProving
      <4> QED
        <5>1. posts[b].proving # "none" => b < item.block_number
          BY Zenon, <1>i, <2>1 DEF BlockPostsInv
        <5>2. posts[b].proving # "none" => b <= item.block_number
          BY <1>t, <3>1, <5>1
        <5> QED
          BY Zenon, <1>i, <1>c, <2>1, <2>4, <3>2, <4>1, <5>1, <5>2 DEF BlockPostsInv
    <3>3. CASE b = item.block_number
      <4>1. posts[b].proving = "none" /\ posts[b].proved = "none"
        <5>1. ~(b < item.block_number)
          BY <1>t, <3>3
        <5> QED
          BY Zenon, <1>i, <2>1, <5>1 DEF BlockPostsInv
      <4>2. /\ posts'[b].queued = posts[b].queued /\ posts'[b].proved = "none"
            /\ posts'[b].proving = "spawned" /\ posts'[b].awaits_queued = item.queued_post
        BY Zenon, <1>t, <2>4, <3>1, <3>3, <4>1, SpawnedProving
      <4>3. item.queued_post /\ queued_spawns[b] = 1 /\ fate[b] = "enqueued"
        BY ZenonT(40), <2>4, <3>1, <3>3 DEF ItemInv
      <4> QED
        <5>1. b <= item.block_number
          BY <1>t, <3>3
        <5> QED
          BY Zenon, <1>i, <1>c, <2>1, <2>4, <3>1, <3>3, <4>2, <4>3, <5>1 DEF BlockPostsInv, sent
    <3> QED
      BY Zenon, <3>2, <3>3
  <2> QED
    BY Zenon, <2>1, <2>2, <2>3, <2>4
<1>pa. CASE ProverAborts \/ RunReturns
  <2>1. UNCHANGED <<queue, wpc, item, fate, queued_spawns>> /\ posts' = cancel_posts
    BY Zenon, <1>pa DEF ProverAborts, RunReturns, worker, history
  <2> QED
    BY Zenon, <1>i, <1>t, <1>c, <2>1, Cancelled DEF BlockPostsInv
<1>vk. CASE VerdictKeep
  <2>1. /\ wpc = "verdict" /\ wpc' = "recv" /\ UNCHANGED <<queue, fate, queued_spawns>>
        /\ \/ posts' = posts
           \/ /\ config.eth_client
              /\ posts' = [posts EXCEPT ![item.block_number].proved = "spawned",
                                        ![item.block_number].proof = prove_result]
    BY Zenon, <1>vk DEF VerdictKeep, history
  <2>2. CASE posts'[b] = posts[b]
    BY Zenon, <1>i, <1>c, <2>1, <2>2 DEF BlockPostsInv
  <2>3. CASE /\ b = item.block_number /\ config.eth_client
             /\ posts' = [posts EXCEPT ![item.block_number].proved = "spawned",
                                       ![item.block_number].proof = prove_result]
    <3>1. posts'[b] = [posts[b] EXCEPT !.proved = "spawned", !.proof = prove_result]
      BY ZenonT(40), <1>t, <2>3
    <3>2. /\ posts'[b].proved = "spawned" /\ posts'[b].queued = posts[b].queued
          /\ posts'[b].proving = posts[b].proving /\ posts'[b].awaits_queued = posts[b].awaits_queued
      BY Zenon, <1>t, <3>1 DEF PostRecord
    <3> QED
      BY Zenon, <1>i, <1>c, <2>1, <2>3, <3>2 DEF BlockPostsInv, sent
  <2>4. b = item.block_number \/ posts'[b] = posts[b]
    BY Zenon, <1>t, <1>w, <2>1
  <2> QED
    BY Zenon, <2>1, <2>2, <2>3, <2>4
<1>po. ASSUME NEW c \in Blocks, PostQueued(c) \/ PostProving(c) \/ PostProved(c)
       PROVE  BlockPostsInv(b)'
  <2>1. UNCHANGED <<queue, wpc, item, fate, queued_spawns>>
    BY Zenon, <1>po DEF PostQueued, PostProving, PostProved, worker, history
  <2>2. CASE b # c
    <3>1. posts'[b] = posts[b]
      BY Zenon, <1>po, <1>t, <2>2 DEF PostQueued, PostProving, PostProved
    <3> QED
      BY Zenon, <1>i, <1>c, <2>1, <3>1 DEF BlockPostsInv
  <2>3. CASE b = c
    <3>1. CASE PostQueued(c)
      <4>1. /\ posts[b].queued \in {"spawned", "out"} /\ posts'[b].queued \in {"out", "done"}
            /\ posts'[b].proving = posts[b].proving /\ posts'[b].proved = posts[b].proved
            /\ posts'[b].awaits_queued = posts[b].awaits_queued
        BY <1>t, <2>3, <3>1 DEF PostQueued, PostRecord
      <4> QED
        BY Zenon, <1>i, <1>c, <2>1, <4>1 DEF BlockPostsInv
    <3>2. CASE PostProving(c)
      <4>1. /\ posts'[b].queued = posts[b].queued /\ posts'[b].proved = posts[b].proved
            /\ posts'[b].awaits_queued = posts[b].awaits_queued
            /\ \/ /\ posts[b].proving = "spawned" /\ posts'[b].proving = "out"
                  /\ posts[b].awaits_queued => posts[b].queued = "done"
               \/ posts[b].proving = "out" /\ posts'[b].proving = "done"
        BY <1>t, <2>3, <3>2 DEF PostProving, PostRecord
      <4> QED
        BY Zenon, <1>i, <1>c, <2>1, <4>1 DEF BlockPostsInv, sent
    <3>3. CASE PostProved(c)
      <4>1. /\ posts'[b].queued = posts[b].queued /\ posts'[b].proving = posts[b].proving
            /\ posts'[b].awaits_queued = posts[b].awaits_queued
            /\ \/ /\ posts[b].proved = "spawned" /\ posts'[b].proved = "out"
                  /\ posts[b].proving = "done"
               \/ posts[b].proved = "out" /\ posts'[b].proved = "done"
        BY <1>t, <2>3, <3>3 DEF PostProved, PostRecord
      <4> QED
        BY Zenon, <1>i, <1>c, <2>1, <4>1 DEF BlockPostsInv, sent
    <3> QED
      BY Zenon, <1>po, <3>1, <3>2, <3>3
  <2> QED
    BY Zenon, <2>2, <2>3
<1>si. CASE SendItem
  <2>1. /\ \A i \in 1..Len(queue) : queue'[i] = queue[i]
        /\ Len(queue') = Len(queue) + 1 /\ queue'[Len(queue) + 1] = pending
        /\ pending.block_number = next_block
    BY Zenon, <1>si, SentItem
  <2>2. UNCHANGED <<wpc, item, posts, queued_spawns>>
    BY Zenon, <1>si DEF SendItem, worker
  <2> QED
    <3>1. \A i \in 1..Len(queue') : i \in 1..Len(queue) \/ i = Len(queue) + 1
      BY <1>t, <2>1
    <3>2. posts[b].proving # "none" => \A i \in 1..Len(queue') : b < queue'[i].block_number
      BY Zenon, <1>i, <1>p, <2>1, <3>1 DEF BlockPostsInv
    <3> QED
      BY Zenon, <1>i, <1>p, <1>c, <2>2, <3>2 DEF BlockPostsInv
<1>r. CASE Recv
  <2>1. /\ Len(queue') = Len(queue) - 1 /\ 1 \in 1..Len(queue) /\ Head(queue) = queue[1]
        /\ \A i \in 1..Len(queue') : queue'[i] = queue[i + 1] /\ i + 1 \in 1..Len(queue)
    BY <1>r, <1>t DEF Recv
  <2>2. /\ UNCHANGED <<posts, queued_spawns, fate>> /\ wpc = "recv"
        /\ wpc' = "recv" \/ (wpc' = "gate" /\ item' = queue[1])
    BY Zenon, <1>r, <2>1 DEF Recv, history
  <2> QED
    BY Zenon, <1>i, <1>t, <1>c, <2>1, <2>2 DEF BlockPostsInv
<1>pr. CASE ProveReturns
  <2>1. UNCHANGED <<posts, queued_spawns, fate, queue, item>> /\ wpc = "proving" /\ wpc' = "verdict"
    BY Zenon, <1>pr DEF ProveReturns, history
  <2> QED
    BY Zenon, <1>i, <1>c, <2>1 DEF BlockPostsInv
<1>ve. CASE VerdictDiscard \/ VerdictFailed \/ WorkerExit
  <2>1. UNCHANGED <<posts, queued_spawns, fate, queue>> /\ wpc' \in {"recv", "exited"}
    BY Zenon, <1>ve DEF VerdictDiscard, VerdictFailed, WorkerExit, history
  <2> QED
    BY Zenon, <1>i, <1>c, <2>1 DEF BlockPostsInv
<1>ot. CASE UNCHANGED <<queue, wpc, item, posts, queued_spawns>>
  BY Zenon, <1>ot, <1>i, <1>p, <1>c DEF BlockPostsInv
<1> QED
  BY ZenonT(40), <1>pk, <1>gs, <1>pa, <1>vk, <1>po, <1>si, <1>r, <1>pr, <1>ve, <1>ot
  DEF Next, FetcherStep, WorkerStep, PostStep, vars, worker, FetcherStart, PollBounded, PollTip,
      PassBlock, FetchOk, FetchRetry, FetchGiveUp, FetcherPreflight, EndScan, PreflightTask,
      TipAdvances, Ended
-----------------------------------------------------------------------------
(* The proofs kept and posted. *)

\* The only step that keeps a proof is VerdictKeep, and it keeps the item's.
LEMMA KeptStep ==
  ASSUME IInv, [Next]_vars, NEW b \in Blocks
  PROVE  \/ proof_bin'[b] = proof_bin[b] /\ posts'[b].proof = posts[b].proof
         \/ /\ fate[b] = "enqueued" /\ served[b] = "good"
            /\ {proof_bin'[b], posts'[b].proof} \subseteq
                 {"commits", proof_bin[b], posts[b].proof}
<1>t. /\ posts \in [Blocks -> PostRecord] /\ posts[b] \in PostRecord
      /\ proof_bin \in [Blocks -> {"none", "commits", "other"}]
  BY Zenon DEF IInv, TypeOK, TypePosts, TypeOutput
<1>1. CASE VerdictKeep
  <2>1. wpc = "verdict" /\ preflight_task \in {"none", "ok"} /\ prove_result # "err"
    BY Zenon, <1>1 DEF VerdictKeep
  <2>2. item \in WorkItem /\ ItemInv(item) /\ item.good /\ prove_result = "commits"
    BY Zenon, <2>1 DEF IInv, WorkerInv, Working
  <2>3. CASE b = item.block_number
    <3>1. fate[b] = "enqueued" /\ served[b] = "good"
      BY Zenon, <2>2, <2>3 DEF ItemInv
    <3>2. proof_bin'[b] \in {proof_bin[b], "commits"}
      BY Zenon, <1>t, <1>1, <2>2, <2>3 DEF VerdictKeep
    <3>3. posts'[b].proof \in {posts[b].proof, "commits"}
      <4>1. \/ posts' = posts
            \/ posts' = [posts EXCEPT ![item.block_number].proved = "spawned",
                                      ![item.block_number].proof = prove_result]
        BY Zenon, <1>1 DEF VerdictKeep
      <4> QED
        BY <1>t, <2>2, <2>3, <4>1 DEF PostRecord
    <3> QED
      BY Zenon, <3>1, <3>2, <3>3
  <2>4. CASE b # item.block_number
    BY Zenon, <1>t, <1>1, <2>2, <2>4 DEF VerdictKeep
  <2> QED
    BY Zenon, <2>3, <2>4
<1>2. CASE PickBlock
  <2>1. proof_bin' = proof_bin
        /\ \/ posts' = posts
           \/ posts' = [posts EXCEPT ![block_number].queued = "spawned"]
    BY Zenon, <1>2 DEF PickBlock, output
  <2> QED
    BY <1>t, <2>1 DEF PostRecord
<1>3. CASE GateSerial \/ GateConcurrent
  <2>1. proof_bin' = proof_bin /\ (posts' = posts \/ posts' = spawn_proving)
    BY SMTT(40), <1>3 DEF GateSerial, GateConcurrent, output
  <2> QED
    BY <1>t, <2>1 DEF spawn_proving, PostRecord
<1>4. CASE ProverAborts \/ RunReturns
  <2>1. proof_bin' = proof_bin /\ posts' = cancel_posts
    BY Zenon, <1>4 DEF ProverAborts, RunReturns, output
  <2> QED
    BY ZenonT(40), <1>t, <2>1 DEF cancel_posts, PostRecord
<1>5. ASSUME NEW c \in Blocks, PostQueued(c) \/ PostProving(c) \/ PostProved(c)
      PROVE  proof_bin'[b] = proof_bin[b] /\ posts'[b].proof = posts[b].proof
  BY <1>t, <1>5 DEF PostQueued, PostProving, PostProved, output, PostRecord
<1>6. CASE UNCHANGED <<proof_bin, posts>>
  BY Zenon, <1>6
<1> QED
  BY ZenonT(40), <1>1, <1>2, <1>3, <1>4, <1>5, <1>6
  DEF Next, FetcherStep, WorkerStep, PostStep, vars, output, FetcherStart, PollBounded, PollTip,
      PassBlock, FetchOk, FetchRetry, FetchGiveUp, FetcherPreflight, SendItem, EndScan, Recv,
      WorkerExit, PreflightTask, ProveReturns, VerdictDiscard, VerdictFailed, TipAdvances, Ended

LEMMA KeptInvStep == IInv /\ [Next]_vars => KeptInv' /\ KeptProofsChecked'
<1> SUFFICES ASSUME IInv, [Next]_vars, NEW b \in Blocks,
                    proof_bin'[b] # "none" \/ posts'[b].proof # "none"
             PROVE  /\ fate'[b] = "enqueued" /\ served'[b] = "good"
                    /\ {proof_bin'[b], posts'[b].proof} \subseteq {"none", "commits"}
    BY Zenon DEF KeptInv, KeptProofsChecked
<1>k. /\ proof_bin[b] # "none" \/ posts[b].proof # "none" =>
           /\ fate[b] = "enqueued" /\ served[b] = "good"
           /\ {proof_bin[b], posts[b].proof} \subseteq {"none", "commits"}
      /\ {proof_bin[b], posts[b].proof} \subseteq {"none", "commits"}
  BY Zenon DEF IInv, KeptInv, KeptProofsChecked
<1>1. /\ fate[b] = "enqueued" /\ served[b] = "good"
      /\ {proof_bin'[b], posts'[b].proof} \subseteq {"none", "commits"}
  BY Zenon, <1>k, KeptStep
<1>2. fate'[b] = "enqueued" /\ served'[b] = served[b]
  BY Zenon, <1>1, PastStable
<1> QED
  BY Zenon, <1>1, <1>2
-----------------------------------------------------------------------------
(* The theorems. *)

LEMMA IInvInit == Init => IInv
<1> SUFFICES ASSUME Init PROVE IInv
    BY Zenon
<1>1. TypeOK
  BY Zenon, TypeInit
<1>2. fpc = "start" /\ wpc = "recv" /\ queue = <<>> /\ retried_queued_post = None
      /\ process = "running" /\ next_block = 0 /\ fetch_failures = 0 /\ preflight_task = "none"
  BY Zenon DEF Init
<1>3. ASSUME NEW b \in Blocks
      PROVE  /\ fate[b] = "none" /\ failed_fetches[b] = 0 /\ queued_spawns[b] = 0
             /\ posts[b].queued = "none" /\ posts[b].proving = "none" /\ posts[b].proved = "none"
             /\ posts[b].proof = "none" /\ proof_bin[b] = "none" /\ b \in Nat
             /\ queued_spawns[b] # 1 /\ queued_spawns[b] <= 1
             /\ ~(failed_fetches[b] > 0) /\ failed_fetches[b] < MAX_FETCH_ATTEMPTS
             /\ failed_fetches[b] # MAX_FETCH_ATTEMPTS /\ ~(b < next_block)
  <2>1. b \in Nat
    BY ConstantsAssumption DEF Blocks
  <2>2. posts[b] = [queued |-> "none", proving |-> "none", proved |-> "none", awaits_queued |-> FALSE, proof |-> "none"]
    BY Zenon DEF Init
  <2>3. fate[b] = "none" /\ failed_fetches[b] = 0 /\ queued_spawns[b] = 0 /\ proof_bin[b] = "none"
    BY Zenon DEF Init
  <2>4. /\ posts[b].queued = "none" /\ posts[b].proving = "none" /\ posts[b].proved = "none"
        /\ posts[b].proof = "none"
    BY <2>2
  <2>5. /\ queued_spawns[b] # 1 /\ queued_spawns[b] <= 1
        /\ ~(failed_fetches[b] > 0) /\ failed_fetches[b] < MAX_FETCH_ATTEMPTS
        /\ failed_fetches[b] # MAX_FETCH_ATTEMPTS /\ ~(b < next_block)
    BY <1>2, <2>1, <2>3, ConstantsAssumption
  <2> QED
    BY Zenon, <2>1, <2>3, <2>4, <2>5
<1>4. FetcherInv /\ RetryInv /\ QueueInv /\ WorkerInv
  <2>1. \A i \in 1..Len(queue) : FALSE
    BY <1>2
  <2>2. QueueInv
    BY Zenon, <2>1 DEF QueueInv
  <2> QED
    BY Zenon, <1>2, <2>2 DEF FetcherInv, RetryInv, WorkerInv, Holding, Working
<1>5. FutureInv /\ AttemptsInv
  BY Zenon, <1>2, <1>3 DEF FutureInv, AttemptsInv
<1>6. PostsInv /\ KeptInv /\ KeptProofsChecked
  BY Zenon, <1>2, <1>3 DEF PostsInv, BlockPostsInv, KeptInv, KeptProofsChecked, sent
<1>7. SerialPreflightNeverAborts /\ NothingLostSilently
  BY Zenon, <1>2, <1>3 DEF SerialPreflightNeverAborts, NothingLostSilently
<1> QED
  BY Zenon, <1>1, <1>4, <1>5, <1>6, <1>7 DEF IInv

LEMMA IInvStep == IInv /\ [Next]_vars => IInv'
  BY Zenon, TypeStep, FetcherInvStep, RetryInvStep, FutureInvStep, AttemptsInvStep, QueueInvStep,
     WorkerInvStep, PostsInvStep, KeptInvStep, SerialStep, NothingLostStep DEF IInv

\* The inductive invariant holds in every reachable state of the service.
THEOREM Invariance == Spec => []IInv
  BY IInvInit, IInvStep, PTL DEF Spec

\* The state of fetcher_loop, prover_worker and the posts always has its type; the
\* channel never holds more than PROVER_QUEUE_CAPACITY items and fetch_failures never
\* reaches MAX_FETCH_ATTEMPTS.
THEOREM TypeCorrect == Spec => []TypeOK
<1>1. IInv => TypeOK
  BY Zenon DEF IInv
<1> QED
  BY <1>1, Invariance, PTL

\* fetcher_loop: every selected block between the first one handled and next_block was
\* enqueued, given up after exactly MAX_FETCH_ATTEMPTS failures, or left behind.
THEOREM NothingLost == Spec => []NothingLostSilently
<1>1. IInv => NothingLostSilently
  BY Zenon DEF IInv
<1> QED
  BY <1>1, Invariance, PTL

\* fetcher_loop: retried_queued_post keeps the `queued` post of a block to one, however
\* often its fetch is retried.
THEOREM QueuedOnce == Spec => []QueuedPostOnce
<1>1. IInv => QueuedPostOnce
  BY Zenon DEF IInv, FutureInv, QueuedPostOnce
<1> QED
  BY <1>1, Invariance, PTL

\* prove_item: every proof written or posted commits the hash of a block whose bundle
\* the simulator ran to the guest's exit point, with either preflight mode.
THEOREM ProofsChecked == Spec => []KeptProofsChecked
<1>1. IInv => KeptProofsChecked
  BY Zenon DEF IInv
<1> QED
  BY <1>1, Invariance, PTL

\* prove_item: with the serial preflight no bundle reaches the prover that would abort
\* the process.
THEOREM NeverAborts == Spec => []SerialPreflightNeverAborts
<1>1. IInv => SerialPreflightNeverAborts
  BY Zenon DEF IInv
<1> QED
  BY <1>1, Invariance, PTL

\* fetcher_loop: a block enters the channel at most once, whatever a lagging node
\* reports, and never after it was given up or left behind.
THEOREM EnqueuedOnce == Spec => NeverEnqueuedTwice
<1>1. IInv /\ [Next]_vars =>
        [Len(queue') > Len(queue) => fate[queue'[Len(queue')].block_number] = "none"]_vars
  <2> SUFFICES ASSUME IInv, [Next]_vars, Len(queue') > Len(queue)
               PROVE  fate[queue'[Len(queue')].block_number] = "none"
      BY Zenon
  <2>1. queue \in Seq(WorkItem)
    BY Zenon DEF IInv, TypeOK, TypeQueue
  <2>2. SendItem
    BY <2>1, QueueFrame DEF Recv
  <2>3. queue'[Len(queue')] = pending /\ pending \in WorkItem /\ pending.block_number = next_block
    BY Zenon, <2>1, <2>2, SentItem
  <2>4. next_block \in Blocks
    BY Zenon, <2>3 DEF WorkItem
  <2>5. fate[next_block] = "none"
    BY <2>4, ConstantsAssumption DEF IInv, FutureInv, Blocks
  <2> QED
    BY Zenon, <2>3, <2>5
<1> QED
  BY <1>1, Invariance, PTL DEF Spec, NeverEnqueuedTwice
-----------------------------------------------------------------------------
(* What a failed block is fetched again on. The property is about the fetch; its  *)
(* inductive form also covers the scan that leads to it, and that the tip never   *)
(* falls below the one of the last failure. The blocks past next_block have no    *)
(* failed fetch (FutureInv), so only the answer of a new poll can bring the       *)
(* fetcher back to one that has.                                                  *)

LagInv ==
  /\ failure_tip <= tip
  /\ (fpc \in {"scan", "fetch"} /\ next_block \in Blocks /\ failed_fetches[next_block] > 0
        /\ config.end_block = None) =>
       /\ latest >= saturating_sub(failure_tip, RpcLag)
       /\ caught_up /\ config.max_lag > 0 => latest - next_block <= config.max_lag

\* The chain only grows, and only a failed fetch notes its tip.
LEMMA TipFrame ==
  [Next]_vars => /\ tip' = tip \/ TipAdvances
                 /\ FetchRetry \/ FetchGiveUp \/ UNCHANGED failure_tip
  BY ZenonT(40) DEF Next, FetcherStep, WorkerStep, PostStep, vars, history, FetcherStart, PollBounded,
      PollTip, PassBlock, PickBlock, FetchOk, FetchRetry, FetchGiveUp, FetcherPreflight, SendItem,
      EndScan, Recv, WorkerExit, GateSerial, GateConcurrent, PreflightTask, ProveReturns,
      ProverAborts, VerdictDiscard, VerdictKeep, VerdictFailed, PostQueued, PostProving,
      PostProved, RunReturns, TipAdvances, Ended

LEMMA FailureTipStep == IInv /\ LagInv /\ [Next]_vars => failure_tip' <= tip'
<1> SUFFICES ASSUME IInv, LagInv, [Next]_vars PROVE failure_tip' <= tip'
    BY Zenon
<1>1. tip \in Nat /\ failure_tip \in Nat /\ failure_tip <= tip
  BY ConstantsAssumption DEF IInv, TypeOK, TypeEnvironment, TypeHistory, Blocks, LagInv
<1>2. tip' = tip \/ tip' = tip + 1
  BY Zenon, TipFrame DEF TipAdvances
<1>3. CASE FetchRetry
  BY <1>1, <1>3 DEF FetchRetry
<1>4. CASE FetchGiveUp
  BY <1>1, <1>4 DEF FetchGiveUp
<1>5. CASE UNCHANGED failure_tip
  BY <1>1, <1>2, <1>5
<1> QED
  BY Zenon, <1>3, <1>4, <1>5, TipFrame

\* The answer of a poll: near the tip, and near enough for the block to be kept.
LEMMA PolledTip ==
  ASSUME IInv, LagInv, NEW n \in reported, PollTip(n)
  PROVE  /\ latest' >= saturating_sub(failure_tip, RpcLag)
         /\ caught_up /\ config.max_lag > 0 => latest' - next_block' <= config.max_lag
         /\ UNCHANGED <<failure_tip, caught_up, config>>
<1>1. /\ tip \in Nat /\ failure_tip \in Nat /\ failure_tip <= tip /\ RpcLag \in Nat
      /\ next_block \in Nat /\ config.max_lag \in Nat
  BY ConfigFields, ConstantsAssumption
  DEF IInv, TypeOK, TypeEnvironment, TypeFetcher, TypeHistory, Blocks, LagInv
<1>2. n \in Nat /\ n >= saturating_sub(tip, RpcLag)
  BY <1>1 DEF reported, saturating_sub
<1>3. latest' = n /\ UNCHANGED <<failure_tip, caught_up, config>>
  BY Zenon DEF PollTip
<1>4. n >= saturating_sub(failure_tip, RpcLag)
  BY <1>1, <1>2 DEF saturating_sub
<1>5. ASSUME caught_up, config.max_lag > 0 PROVE n - next_block' <= config.max_lag
  <2>1. CASE skips_ahead(n)
    <3>1. next_block' = n
      BY Zenon, <2>1 DEF PollTip, skip_target
    <3> QED
      BY <1>1, <1>2, <3>1
  <2>2. CASE ~skips_ahead(n)
    <3>1. next_block' = next_block
      BY Zenon, <2>2 DEF PollTip
    <3>2. config.end_block = None
      BY Zenon DEF PollTip
    <3>3. ~(saturating_sub(n, next_block) > config.max_lag)
      BY Zenon, <1>5, <2>2, <3>2 DEF skips_ahead
    <3> QED
      BY <1>1, <1>2, <3>1, <3>3 DEF saturating_sub
  <2> QED
    BY Zenon, <2>1, <2>2
<1> QED
  BY Zenon, <1>3, <1>4, <1>5

\* A block the fetcher moves on to has not failed yet.
LEMMA NextNotFailed ==
  ASSUME IInv, [Next]_vars, PassBlock \/ FetchGiveUp \/ SendItem, next_block' \in Blocks
  PROVE  failed_fetches'[next_block'] = 0
<1>t. next_block \in Nat /\ failed_fetches \in [Blocks -> Nat]
  BY ConstantsAssumption DEF IInv, TypeOK, TypeFetcher, TypeHistory
<1>1. next_block' = next_block + 1
  BY Zenon DEF IInv, FetcherInv, Holding, PassBlock, FetchGiveUp, SendItem
<1>2. failed_fetches[next_block'] = 0
  <2>1. next_block' > next_block
    BY <1>t, <1>1
  <2> QED
    BY Zenon, <2>1 DEF IInv, FutureInv
<1>3. CASE FetchGiveUp
  <2>1. block_number = next_block
    BY Zenon, <1>3 DEF IInv, FetcherInv, Holding, FetchGiveUp
  <2>2. block_number # next_block'
    BY <1>t, <1>1, <2>1
  <2> QED
    BY Zenon, <1>t, <1>2, <1>3, <2>2 DEF FetchGiveUp
<1>4. CASE PassBlock
  BY Zenon, <1>2, <1>4 DEF PassBlock, history
<1>5. CASE SendItem
  BY Zenon, <1>2, <1>5 DEF SendItem
<1> QED
  BY Zenon, <1>3, <1>4, <1>5

LEMMA LagInvStep == IInv /\ LagInv /\ [Next]_vars => LagInv'
<1> SUFFICES ASSUME IInv, LagInv, [Next]_vars,
                    fpc' \in {"scan", "fetch"}, next_block' \in Blocks,
                    failed_fetches'[next_block'] > 0, config'.end_block = None
             PROVE  /\ latest' >= saturating_sub(failure_tip', RpcLag)
                    /\ caught_up' /\ config'.max_lag > 0 => latest' - next_block' <= config'.max_lag
    BY Zenon, FailureTipStep DEF LagInv
<1>c. config' = config
  BY Zenon, ConfigStable
<1>pt. ASSUME NEW n \in reported, PollTip(n)
       PROVE  /\ latest' >= saturating_sub(failure_tip', RpcLag)
              /\ caught_up' /\ config'.max_lag > 0 => latest' - next_block' <= config'.max_lag
  BY Zenon, <1>pt, PolledTip
<1>ps. ~(PassBlock \/ FetchGiveUp \/ SendItem)
  BY NextNotFailed
<1>pk. CASE PickBlock
  BY Zenon, <1>pk DEF PickBlock, LagInv, history
<1>lp. ~(FetcherStart \/ PollBounded \/ FetchOk \/ FetchRetry \/ FetcherPreflight \/ EndScan)
  BY Zenon, <1>c DEF FetcherStart, PollBounded, FetchOk, FetchRetry, FetcherPreflight, EndScan
<1>ot. CASE UNCHANGED <<config, fetcher, fate, failed_fetches, served, queued_spawns>>
  <2>1. UNCHANGED failure_tip
    BY Zenon, <1>ps, <1>lp, TipFrame
  <2> QED
    BY Zenon, <1>ot, <2>1 DEF fetcher, LagInv
<1> QED
  BY Zenon, <1>pt, <1>ps, <1>pk, <1>lp, <1>ot, FetcherFrame DEF FetcherStep

\* fetcher_loop, max_lag: a block whose fetch failed is fetched again only on a tip
\* reported since the failure, and, once caught up, only within max_lag of that tip,
\* for every lag of the node, every max_lag and every number of attempts.
THEOREM RetriedNear == Spec => []RetriedNearTip
<1>1. Init => LagInv
  BY ConstantsAssumption DEF Init, LagInv, Blocks
<1>2. IInv /\ LagInv => RetriedNearTip
  <2> SUFFICES ASSUME IInv, LagInv, fpc = "fetch", failed_fetches[block_number] > 0,
                      config.end_block = None
               PROVE  RetriedNearTip
      BY Zenon DEF RetriedNearTip
  <2>1. block_number = next_block /\ next_block \in Blocks
    BY Zenon, HeldBlock DEF IInv, Holding
  <2> QED
    BY Zenon, <2>1 DEF LagInv, RetriedNearTip
<1> QED
  BY <1>1, <1>2, LagInvStep, Invariance, PTL DEF Spec

-----------------------------------------------------------------------------
(* The refinement of EthproofsStatus. *)

\* Which posts of a block have gone out.
SentUnchanged(b) ==
  /\ posts'[b].queued \in sent <=> posts[b].queued \in sent
  /\ posts'[b].proving \in sent <=> posts[b].proving \in sent
  /\ posts'[b].proved \in sent <=> posts[b].proved \in sent

\* The steps that touch the posts.
LEMMA PostsFrame ==
  [Next]_vars => \/ PickBlock \/ GateSerial \/ GateConcurrent \/ ProverAborts \/ RunReturns
                 \/ VerdictKeep \/ PostStep \/ UNCHANGED posts
  BY ZenonT(40) DEF Next, FetcherStep, WorkerStep, vars, FetcherStart, PollBounded, PollTip,
      PassBlock, FetchOk, FetchRetry, FetchGiveUp, FetcherPreflight, SendItem, EndScan, Recv,
      WorkerExit, PreflightTask, ProveReturns, VerdictDiscard, VerdictFailed, TipAdvances, Ended

\* A post goes out only as a background task's step; no other step takes one back.
LEMMA SentFrame ==
  ASSUME IInv, [Next]_vars, NEW b \in Blocks
  PROVE  SentUnchanged(b) \/ PostQueued(b) \/ PostProving(b) \/ PostProved(b)
<1>t. /\ TypeOK /\ TypePosts /\ posts \in [Blocks -> PostRecord] /\ posts[b] \in PostRecord
  BY Zenon DEF IInv, TypeOK, TypePosts
<1>i. BlockPostsInv(b) /\ WorkerInv
  BY Zenon DEF IInv, PostsInv
<1>pk. CASE PickBlock
  <2>1. \/ posts' = posts
        \/ /\ posts' = [posts EXCEPT ![block_number].queued = "spawned"]
           /\ ~has_retried_post(block_number)
    BY Zenon, <1>pk DEF PickBlock
  <2>2. ~has_retried_post(block_number) => queued_spawns[block_number] = 0
    BY Zenon, <1>pk, PickedItem, ConstantsAssumption
    DEF PickBlock, IInv, FetcherInv, FutureInv, Holding, has_retried_post
  <2>3. b = block_number /\ ~has_retried_post(block_number) => posts[b].queued = "none"
    <3>1. posts[b].queued # "none" => queued_spawns[b] = 1
      BY Zenon, <1>i DEF BlockPostsInv
    <3> QED
      BY <2>2, <3>1
  <2> QED
    BY <1>t, <2>1, <2>3 DEF SentUnchanged, sent, PostRecord
<1>gs. CASE GateSerial \/ GateConcurrent
  <2>1. wpc = "gate" /\ (posts' = posts \/ posts' = spawn_proving)
    BY Zenon, <1>gs DEF GateSerial, GateConcurrent
  <2>2. item \in WorkItem
    BY Zenon, <1>i, <2>1 DEF WorkerInv, Working
  <2>3. b = item.block_number => posts[b].proving = "none"
    <3>1. posts[b].proving # "none" => b < item.block_number
      BY Zenon, <1>i, <2>1 DEF BlockPostsInv
    <3>2. b \in Nat
      BY ConstantsAssumption DEF Blocks
    <3> QED
      BY <3>1, <3>2
  <2>4. CASE posts' = posts
    BY Zenon, <2>4 DEF SentUnchanged
  <2>5. CASE posts' = spawn_proving /\ config.eth_client
    BY Zenon, <1>t, <2>2, <2>3, <2>5, SpawnedProving DEF SentUnchanged, sent
  <2> QED
    BY Zenon, <2>1, <2>4, <2>5 DEF spawn_proving
<1>pa. CASE ProverAborts \/ RunReturns
  BY Zenon, <1>pa, <1>t, Cancelled DEF ProverAborts, RunReturns, SentUnchanged
<1>vk. CASE VerdictKeep
  <2>1. wpc = "verdict"
        /\ \/ posts' = posts
           \/ posts' = [posts EXCEPT ![item.block_number].proved = "spawned",
                                     ![item.block_number].proof = prove_result]
    BY Zenon, <1>vk DEF VerdictKeep
  <2>2. b = item.block_number => posts[b].proved = "none"
    BY <1>i, <2>1, ConstantsAssumption DEF BlockPostsInv, Blocks
  <2> QED
    BY <1>t, <2>1, <2>2 DEF SentUnchanged, sent, PostRecord
<1>po. ASSUME NEW c \in Blocks, PostQueued(c) \/ PostProving(c) \/ PostProved(c)
       PROVE  SentUnchanged(b) \/ PostQueued(b) \/ PostProving(b) \/ PostProved(b)
  <2>1. b # c => posts'[b] = posts[b]
    BY Zenon, <1>po, <1>t DEF PostQueued, PostProving, PostProved
  <2> QED
    BY Zenon, <1>po, <2>1 DEF SentUnchanged
<1>ot. CASE UNCHANGED posts
  BY Zenon, <1>ot DEF SentUnchanged
<1>ps. CASE PostStep
  BY Zenon, <1>ps, <1>po DEF PostStep
<1> QED
  BY Zenon, <1>pk, <1>gs, <1>pa, <1>vk, <1>ps, <1>ot, PostsFrame

\* The status of one block after a step of one of its posts.
LEMMA PostedStatus ==
  ASSUME IInv, NEW b \in Blocks, PostQueued(b) \/ PostProving(b) \/ PostProved(b)
  PROVE  /\ \A c \in Blocks : c # b => posts'[c] = posts[c]
         /\ \/ SentUnchanged(b)
            \/ ethproofs_status[b] = "unseen" /\ ethproofs_status'[b] = "queued"
            \/ ethproofs_status[b] = "queued" /\ ethproofs_status'[b] = "proving"
            \/ ethproofs_status[b] = "proving" /\ ethproofs_status'[b] = "proved"
<1>t. posts \in [Blocks -> PostRecord] /\ posts[b] \in PostRecord
  BY Zenon DEF IInv, TypeOK, TypePosts
<1>i. BlockPostsInv(b)
  BY Zenon DEF IInv, PostsInv
<1>f. \A c \in Blocks : c # b => posts'[c] = posts[c]
  BY Zenon, <1>t DEF PostQueued, PostProving, PostProved
<1>s. /\ ethproofs_status[b] = (IF posts[b].proved \in sent THEN "proved"
                    ELSE IF posts[b].proving \in sent THEN "proving"
                    ELSE IF posts[b].queued \in sent THEN "queued" ELSE "unseen")
      /\ ethproofs_status'[b] = (IF posts'[b].proved \in sent THEN "proved"
                    ELSE IF posts'[b].proving \in sent THEN "proving"
                    ELSE IF posts'[b].queued \in sent THEN "queued" ELSE "unseen")
  BY Zenon DEF ethproofs_status
<1>1. CASE PostQueued(b)
  <2>1. /\ posts'[b].proving = posts[b].proving /\ posts'[b].proved = posts[b].proved
        /\ \/ posts[b].queued = "spawned" /\ posts'[b].queued = "out"
           \/ posts[b].queued = "out" /\ posts'[b].queued = "done"
    BY <1>1, <1>t DEF PostQueued, PostRecord
  <2> QED
    BY Zenon, <1>f, <1>i, <1>s, <2>1 DEF BlockPostsInv, SentUnchanged, sent
<1>2. CASE PostProving(b)
  <2>1. /\ posts'[b].queued = posts[b].queued /\ posts'[b].proved = posts[b].proved
        /\ \/ /\ posts[b].proving = "spawned" /\ posts'[b].proving = "out"
              /\ posts[b].awaits_queued => posts[b].queued = "done"
           \/ posts[b].proving = "out" /\ posts'[b].proving = "done"
    BY ZenonT(40), <1>2, <1>t DEF PostProving, PostRecord
  <2> QED
    BY Zenon, <1>f, <1>i, <1>s, <2>1 DEF BlockPostsInv, SentUnchanged, sent
<1>3. CASE PostProved(b)
  <2>1. /\ posts'[b].queued = posts[b].queued /\ posts'[b].proving = posts[b].proving
        /\ \/ posts[b].proved = "spawned" /\ posts'[b].proved = "out" /\ posts[b].proving = "done"
           \/ posts[b].proved = "out" /\ posts'[b].proved = "done"
    BY <1>3, <1>t DEF PostProved, PostRecord
  <2> QED
    BY Zenon, <1>f, <1>i, <1>s, <2>1 DEF BlockPostsInv, SentUnchanged, sent
<1> QED
  BY Zenon, <1>1, <1>2, <1>3

LEMMA StatusStep == IInv /\ [Next]_vars => [Status!Next]_ethproofs_status
<1> SUFFICES ASSUME IInv, [Next]_vars PROVE [Status!Next]_ethproofs_status
    BY Zenon
<1>d. /\ ethproofs_status = [b \in Blocks |-> ethproofs_status[b]]
      /\ ethproofs_status' = [b \in Blocks |-> ethproofs_status'[b]]
  BY Zenon DEF ethproofs_status
<1>e. ASSUME NEW b \in Blocks, SentUnchanged(b) PROVE ethproofs_status'[b] = ethproofs_status[b]
  BY Zenon, <1>e DEF SentUnchanged, ethproofs_status
<1>1. CASE \A b \in Blocks : SentUnchanged(b)
  BY Zenon, <1>1, <1>d, <1>e
<1>2. ASSUME NEW b \in Blocks, PostQueued(b) \/ PostProving(b) \/ PostProved(b)
      PROVE  [Status!Next]_ethproofs_status
  <2>1. \A c \in Blocks : c # b => ethproofs_status'[c] = ethproofs_status[c]
    BY Zenon, <1>2, <1>e, PostedStatus DEF SentUnchanged
  <2>2. CASE ethproofs_status'[b] = ethproofs_status[b]
    BY Zenon, <1>d, <2>1, <2>2
  <2>3. ASSUME NEW st \in {"queued", "proving", "proved"},
               ethproofs_status[b] = Status!Follows[st], ethproofs_status'[b] = st
        PROVE  Status!Next
    <3>1. ethproofs_status' = [ethproofs_status EXCEPT ![b] = st]
      BY Zenon, <1>d, <2>1, <2>3
    <3>2. Status!Post(b, st)
      BY Zenon, <2>3, <3>1 DEF Status!Post
    <3>3. st \in DOMAIN Status!Follows
      BY Zenon DEF Status!Follows
    <3> QED
      BY Zenon, <3>2, <3>3 DEF Status!Next
  <2> QED
    BY Zenon, <1>2, <1>e, <2>2, <2>3, PostedStatus DEF Status!Follows
<1> QED
  BY Zenon, <1>1, <1>2, SentFrame

\* The detached posts of post_queued, post_proving and post_proved implement the
\* abstract status: for each block they go out in order and each at most once.
THEOREM StatusRefined == Spec => StatusMovesForward
<1>1. Init => Status!Init
  <2> SUFFICES ASSUME Init PROVE Status!Init
      BY Zenon
  <2>1. \A b \in Blocks : posts[b].queued = "none" /\ posts[b].proving = "none" /\ posts[b].proved = "none"
    <3>1. \A b \in Blocks : posts[b] = [queued |-> "none", proving |-> "none", proved |-> "none",
                                        awaits_queued |-> FALSE, proof |-> "none"]
      BY Zenon DEF Init
    <3> QED
      BY SMTT(40), <3>1
  <2>2. "none" \notin sent
    BY Zenon DEF sent
  <2> QED
    BY Zenon, <2>1, <2>2 DEF Status!Init, ethproofs_status
<1> QED
  BY <1>1, StatusStep, Invariance, PTL DEF Spec, StatusMovesForward, Status!Spec

=============================================================================
