----------------------------- MODULE ServiceProofs -----------------------------
(***************************************************************************)
(* Theorems about the parts of Services: the Hypercube service, for any    *)
(* length of the chain and any set of configurations, the prover's thread, *)
(* for any number of calls, and the Ethproofs client, for any number of    *)
(* attempts, faults and runs of the service and any waits. Those about the *)
(* fetcher are proved in a module of their own.                            *)
(***************************************************************************)
EXTENDS Services, TLAPS

\* HypercubeService

TypeOK ==
  /\ config \in Configs
  /\ pc \in {"start", "poll", "fetch", "lock", "race", "drain", "returned", "failed"}
  /\ next_block \in Nat
  /\ first \in Nat
  /\ tip \in 0..MaxBlock
  /\ holder \in [Clients -> Blocks \cup {0}]
  /\ task \in [Blocks -> {"none", "done", "write", "post", "log", "report"} \cup Working]
  /\ fetch_lost \subseteq Nat

\* Where the loop is. Before it starts there is no block.
LoopInv ==
  /\ pc \in {"start", "failed"} => first = 0 /\ next_block = 0
  /\ pc \notin {"start", "failed"} => first # 0 /\ next_block >= first
  /\ pc \in {"fetch", "lock", "race"} => next_block \in Blocks
  /\ pc = "lock" => should_prove(next_block)
  /\ pc = "race" => ~should_prove(next_block)

\* Blocks the loop has not handed on have no task.
FutureInv == \A b \in Blocks : (first = 0 \/ b >= next_block) => task[b] = "none"

\* The locks and the tasks at their provers are matched one to one: a lock
\* is held exactly while its task works, so that no two tasks share a prover
\* and no lock outlives its work; a proof has client1.
LocksMatchWork ==
  /\ \A c \in Clients : holder[c] # 0 => task[holder[c]] \in Working
  /\ \A b \in Blocks : task[b] \in Working => \E c \in Clients : holder[c] = b
  /\ holder["client1"] # 0 => holder["client1"] # holder["client2"]
  /\ \A b \in Blocks : task[b] = "prove" => holder["client1"] = b

\* A task at "input" that will prove holds client1 already.
ProofInv == \A b \in Blocks : (task[b] \in Working /\ should_prove(b)) => holder["client1"] = b

KindInv == \A b \in Blocks : task[b] = "prove" => should_prove(b)

IInv == TypeOK /\ LoopInv /\ FutureInv /\ LocksMatchWork /\ ProofInv /\ KindInv /\ NothingSkipped

-----------------------------------------------------------------------------
\* Steps that leave the loop's position, the locks and the tasks alone.
LEMMA Frame ==
  ASSUME IInv, UNCHANGED <<config, pc, next_block, first, holder, task, fetch_lost>>, tip' \in 0..MaxBlock
  PROVE  IInv'
  BY Zenon DEF IInv, TypeOK, LoopInv, FutureInv, LocksMatchWork, ProofInv, KindInv, NothingSkipped,
         should_prove, should_execute, matches_interval

\* The loop steps over its block without a task: one that is not to be worked
\* on, or one whose fetch failed.
LEMMA Passed ==
  ASSUME ConstantsAssumption, IInv, pc \in {"poll", "fetch"}, next_block \in Blocks, next_block' = advance,
         pc' = "poll", UNCHANGED <<config, first, tip, holder, task>>,
         fetch_lost' \in {fetch_lost, fetch_lost \cup {next_block}},
         config.download_only \/ ~(should_prove(next_block) \/ should_execute(next_block))
           \/ next_block \in fetch_lost'
  PROVE  IInv'
<1> USE DEF ConstantsAssumption, IInv, advance, Blocks
<1>1. TypeOK' /\ LoopInv'
  BY DEF TypeOK, LoopInv
<1>2. FutureInv' /\ LocksMatchWork' /\ ProofInv' /\ KindInv'
  BY DEF TypeOK, LoopInv, FutureInv, LocksMatchWork, ProofInv, KindInv, should_prove, matches_interval
<1>3. NothingSkipped'
  BY DEF TypeOK, NothingSkipped, should_prove, should_execute, matches_interval
<1> QED
  BY Zenon, <1>1, <1>2, <1>3

\* Steps of the loop that keep its block.
LEMMA Unmoved ==
  ASSUME IInv, UNCHANGED <<config, next_block, first, holder, task, fetch_lost>>
  PROVE  FutureInv' /\ LocksMatchWork' /\ ProofInv' /\ KindInv' /\ NothingSkipped'
  BY Zenon DEF IInv, FutureInv, LocksMatchWork, ProofInv, KindInv, NothingSkipped,
         should_prove, should_execute, matches_interval

LEMMA DispatchStep ==
  ASSUME ConstantsAssumption, IInv, NEW c \in Clients, Dispatch(c),
         (pc = "lock" /\ c = "client1") \/ pc = "race"
  PROVE  IInv'
<1> USE DEF ConstantsAssumption, IInv, advance, Blocks, Clients, Working
<1>1. /\ next_block \in Blocks /\ holder[c] = 0 /\ next_block' = next_block + 1 /\ task[next_block] = "none"
      /\ holder' = [holder EXCEPT ![c] = next_block] /\ task' = [task EXCEPT ![next_block] = "input"]
      /\ UNCHANGED <<config, first, tip, fetch_lost>> /\ pc' = "poll"
  BY DEF Dispatch, Loop, LoopInv, FutureInv, TypeOK
<1>2. TypeOK' /\ LoopInv'
  BY <1>1 DEF TypeOK, LoopInv
<1>3. FutureInv' /\ KindInv'
  BY <1>1 DEF TypeOK, LoopInv, FutureInv, KindInv, should_prove, matches_interval
<1>4. LocksMatchWork'
  BY <1>1 DEF TypeOK, LocksMatchWork
<1>5. ProofInv'
  BY <1>1 DEF TypeOK, LoopInv, ProofInv, should_prove, matches_interval
<1>6. NothingSkipped'
  BY <1>1 DEF TypeOK, NothingSkipped, should_prove, should_execute, matches_interval
<1> QED
  BY Zenon, <1>2, <1>3, <1>4, <1>5, <1>6

LEMMA LoopStep == ConstantsAssumption /\ IInv /\ RunService => IInv'
<1> SUFFICES ASSUME ConstantsAssumption, IInv, RunService PROVE IInv'
    BY Zenon
<1> USE DEF ConstantsAssumption
<1>1. CASE Start
  <2>1. UNCHANGED <<config, tip, holder, task, fetch_lost>> /\ first = 0 /\ next_block = 0
    BY Zenon, <1>1 DEF Start, IInv, LoopInv
  <2>2. \A b \in Blocks : task[b] = "none"
    BY Zenon, <2>1 DEF IInv, FutureInv
  <2>3. \/ next_block' \in Nat \ {0} /\ first' = next_block' /\ pc' = "poll"
        \/ next_block' = 0 /\ first' = 0 /\ pc' = "failed"
    BY <1>1, <2>1 DEF Start, IInv, TypeOK
  <2>4. TypeOK' /\ LoopInv'
    BY <2>1, <2>3 DEF IInv, TypeOK, LoopInv
  <2>5. FutureInv'
    BY Zenon, <2>1, <2>2 DEF FutureInv
  <2>6. LocksMatchWork' /\ ProofInv' /\ KindInv'
    BY Zenon, <2>1 DEF IInv, LocksMatchWork, ProofInv, KindInv, should_prove, matches_interval
  <2>7. \A b \in Blocks : ~(first' <= b /\ b < next_block' /\ first' # 0)
    BY <2>3 DEF Blocks
  <2>8. NothingSkipped'
    BY Zenon, <2>7 DEF NothingSkipped
  <2> QED
    BY Zenon, <2>4, <2>5, <2>6, <2>8 DEF IInv
<1>2. CASE PollEnd
  <2>1. TypeOK' /\ LoopInv'
    BY Zenon, <1>2 DEF PollEnd, Loop, IInv, TypeOK, LoopInv
  <2> QED
    BY Zenon, <1>2, <2>1, Unmoved DEF PollEnd, Loop, IInv
<1>3. CASE PollNothing
  <2>1. next_block \in Blocks
    BY <1>3 DEF PollNothing, IInv, TypeOK, LoopInv, Blocks
  <2> QED
    BY Zenon, <1>3, <2>1, Passed DEF PollNothing, Loop, should_anything
<1>4. CASE PollBlock
  <2>1. TypeOK' /\ LoopInv'
    BY <1>4 DEF PollBlock, Loop, IInv, TypeOK, LoopInv, Blocks
  <2> QED
    BY Zenon, <1>4, <2>1, Unmoved DEF PollBlock, Loop, IInv
<1>5. CASE FetchFails
  BY Zenon, <1>5, Passed DEF FetchFails, Loop, IInv, LoopInv
<1>6. CASE FetchOk
  <2>1. next_block \in Blocks
    BY Zenon, <1>6 DEF FetchOk, IInv, LoopInv
  <2>2. CASE pc' = "poll"
    BY Zenon, <1>6, <2>1, <2>2, Passed DEF FetchOk, Loop
  <2>3. CASE pc' # "poll"
    <3>1. /\ UNCHANGED <<config, first, tip, next_block, holder, task, fetch_lost>>
          /\ pc' \in {"lock", "race"} /\ (pc' = "lock" <=> should_prove(next_block)) /\ pc = "fetch"
      BY Zenon, <1>6, <2>3 DEF FetchOk, Loop, should_execute
    <3>2. TypeOK'
      BY Zenon, <3>1 DEF IInv, TypeOK
    <3>3. LoopInv'
      BY Zenon, <2>1, <3>1 DEF IInv, LoopInv, should_prove, matches_interval
    <3> QED
      BY Zenon, <3>1, <3>2, <3>3, Unmoved DEF IInv
  <2> QED
    BY Zenon, <2>2, <2>3
<1>7. CASE TakeClient1
  BY Zenon, <1>7, DispatchStep DEF TakeClient1, Clients
<1>8. CASE TakeEither
  BY Zenon, <1>8, DispatchStep DEF TakeEither
<1>9. CASE Drain
  BY Zenon, <1>9 DEF Drain, IInv, TypeOK, LoopInv, FutureInv, LocksMatchWork, ProofInv, KindInv, NothingSkipped,
              should_prove, should_execute, matches_interval
<1> QED
  BY Zenon, <1>1, <1>2, <1>3, <1>4, <1>5, <1>6, <1>7, <1>8, <1>9 DEF RunService

\* A task goes on at its prover, gives its lock back as it leaves it, or works
\* on its files after it has.
LEMMA TaskProgress ==
  ASSUME ConstantsAssumption, IInv, NEW b \in Blocks, Task(b)
  PROVE  /\ UNCHANGED <<config, pc, next_block, first, tip, fetch_lost>>
         /\ task' = [task EXCEPT ![b] = task'[b]]
         /\ \/ /\ task[b] = "input" /\ holder' = holder
               /\ task'[b] = (IF should_prove(b) THEN "prove" ELSE "execute")
            \/ /\ task[b] \in Working /\ holder' = release(b)
               /\ task'[b] \in {"done", "write", "report"}
            \/ /\ task[b] \in {"write", "post", "log", "report"} /\ holder' = holder
               /\ task'[b] \in {"done", "post", "log"}
  BY Zenon DEF Task, TaskStep, InputFails, InputOk, ProveOk, ProveFails, WriteProof, PostProof, LogProof,
         ExecuteReturns, Report, Working, IInv, TypeOK

LEMMA TaskKeeps ==
  ASSUME ConstantsAssumption, IInv, NEW b \in Blocks, Task(b)
  PROVE  IInv'
<1> USE DEF ConstantsAssumption, IInv, Blocks, Clients, Working
<1>1. /\ UNCHANGED <<config, pc, next_block, first, tip, fetch_lost>>
      /\ task' = [task EXCEPT ![b] = task'[b]] /\ task[b] # "none" /\ task'[b] # "none"
      /\ task'[b] \in {"done", "write", "post", "log", "report"} \cup Working
  BY Zenon, TaskProgress DEF TypeOK
<1>2. holder' \in {holder, release(b)}
  BY Zenon, TaskProgress
<1>3. TypeOK'
  BY <1>1, <1>2 DEF TypeOK, release
<1>4. LoopInv' /\ FutureInv'
  BY Zenon, <1>1 DEF LoopInv, FutureInv, TypeOK, should_prove, matches_interval
<1>5. NothingSkipped'
  BY Zenon, <1>1 DEF NothingSkipped, TypeOK, should_prove, should_execute, matches_interval
<1>6. CASE /\ task[b] = "input" /\ holder' = holder
           /\ task'[b] = (IF should_prove(b) THEN "prove" ELSE "execute")
  <2>1. LocksMatchWork'
    <3>1. /\ \A d \in Blocks : d # b => task'[d] = task[d]
          /\ task'[b] \in Working /\ (task'[b] = "prove" => holder["client1"] = b)
      BY Zenon, <1>1, <1>6 DEF TypeOK, ProofInv
    <3>2. \A d \in Blocks : (task'[d] \in Working) <=> (task[d] \in Working)
      BY Zenon, <1>6, <3>1
    <3>3. \A d \in Blocks : task'[d] = "prove" => holder["client1"] = d
      BY Zenon, <3>1 DEF LocksMatchWork
    <3> QED
      BY <1>6, <3>2, <3>3 DEF TypeOK, LocksMatchWork
  <2>2. ProofInv' /\ KindInv'
    BY Zenon, <1>1, <1>6 DEF TypeOK, ProofInv, KindInv, should_prove, matches_interval
  <2> QED
    BY Zenon, <1>3, <1>4, <1>5, <2>1, <2>2
<1>7. CASE task[b] \in Working /\ holder' = release(b) /\ task'[b] \in {"done", "write", "report"}
  <2>1. LocksMatchWork'
    <3>1. \A c \in Clients : holder'[c] = IF holder[c] = b THEN 0 ELSE holder[c]
      BY Zenon, <1>7 DEF release
    <3>2. \A d \in Blocks : task'[d] \in Working => d # b /\ task'[d] = task[d]
      BY Zenon, <1>1, <1>7 DEF TypeOK
    <3>3. \A c \in Clients : holder'[c] # 0 => task'[holder'[c]] \in Working
      BY <1>1, <3>1 DEF TypeOK, LocksMatchWork
    <3>4. \A d \in Blocks : task'[d] \in Working => \E c \in Clients : holder'[c] = d
      BY <3>1, <3>2 DEF LocksMatchWork
    <3>5. holder'["client1"] # 0 => holder'["client1"] # holder'["client2"]
      BY Zenon, <3>1 DEF LocksMatchWork
    <3>6. \A d \in Blocks : task'[d] = "prove" => holder'["client1"] = d
      BY <3>1, <3>2 DEF LocksMatchWork
    <3> QED
      BY Zenon, <3>3, <3>4, <3>5, <3>6 DEF LocksMatchWork
  <2>2. ProofInv' /\ KindInv'
    BY Zenon, <1>1, <1>7 DEF TypeOK, ProofInv, KindInv, release, should_prove, matches_interval
  <2> QED
    BY Zenon, <1>3, <1>4, <1>5, <2>1, <2>2
<1>8. CASE /\ task[b] \in {"write", "post", "log", "report"} /\ holder' = holder
           /\ task'[b] \in {"done", "post", "log"}
  <2>1. LocksMatchWork'
    <3>1. \A d \in Blocks : (task'[d] \in Working) <=> (task[d] \in Working)
      BY Zenon, <1>1, <1>8 DEF TypeOK
    <3>2. \A d \in Blocks : task'[d] = "prove" => task[d] = "prove"
      BY Zenon, <1>1, <1>8 DEF TypeOK
    <3> QED
      BY <1>8, <3>1, <3>2 DEF TypeOK, LocksMatchWork
  <2>2. ProofInv' /\ KindInv'
    BY Zenon, <1>1, <1>8 DEF TypeOK, ProofInv, KindInv, should_prove, matches_interval
  <2> QED
    BY Zenon, <1>3, <1>4, <1>5, <2>1, <2>2
<1> QED
  BY Zenon, <1>6, <1>7, <1>8, TaskProgress

THEOREM Invariance == ConstantsAssumption => (Spec => []IInv)
<1> SUFFICES ASSUME ConstantsAssumption PROVE Spec => []IInv
    BY Zenon
<1>1. Init => IInv
  BY DEF ConstantsAssumption, Init, IInv, TypeOK, LoopInv, FutureInv, LocksMatchWork, ProofInv, KindInv,
         NothingSkipped, Blocks, Clients, Working
<1>2. IInv /\ [Next]_vars => IInv'
  <2> SUFFICES ASSUME IInv, [Next]_vars PROVE IInv'
      BY Zenon
  <2>1. CASE TipAdvances
    BY <2>1, Frame DEF TipAdvances, IInv, TypeOK, ConstantsAssumption
  <2>2. CASE Deliver
    BY Zenon, <2>2, Frame DEF Deliver, IInv, TypeOK
  <2>3. CASE UNCHANGED vars
    BY Zenon, <2>3, Frame DEF vars, IInv, TypeOK
  <2> QED
    BY Zenon, <2>1, <2>2, <2>3, LoopStep, TaskKeeps DEF Next
<1> QED
  BY <1>1, <1>2, PTL DEF Spec

\* run_service passes over no block it has to prove or execute: each one below
\* next_block has its task or a logged fetch error.
THEOREM NoneSkipped == ConstantsAssumption => (Spec => []NothingSkipped)
  BY Invariance, PTL DEF IInv

\* The locks of client1 and client2 are held exactly by the tasks at their
\* provers, one each: no two tasks share a prover, a proof runs on client1,
\* and every way out of a task gives its lock back.
THEOREM LocksHeldByWork == ConstantsAssumption => (Spec => []LocksMatchWork)
  BY Invariance, PTL DEF IInv

-----------------------------------------------------------------------------
\* BlockProver

ProverGone == {"none", "ended"}
ProverThreadStates == ProverGone \cup {"building", "waiting", "proving", "leaving"}

ProverTypeOK ==
  /\ caller \in {"new", "init", "idle", "send", "wait", "join", "dead"}
  /\ calls \in 0..MaxProofs
  /\ spawned \in 0..(2 * MaxProofs + 1)
  /\ worker \in 0..(2 * MaxProofs + 1)
  /\ thread \in [Prover!Workers -> ProverThreadStates]
  /\ purpose \in {"new", "prove", "replace"}

\* A call that has not come to its end: it may still spawn a replacement.
ProverInCall == caller \in {"send", "wait", "join"} \/ (caller = "init" /\ purpose = "prove")

\* Each call spawns at most one worker to send to and one replacement.
ProverSpawnsInv ==
  /\ caller = "new" => spawned = 0 /\ calls = 0 /\ worker = 0
  /\ spawned <= 2 * calls + 1
  /\ ProverInCall => spawned <= 2 * calls /\ calls > 0

\* Every thread but that of the last worker spawned has ended, and that one
\* has too when the caller has dropped its worker.
ProverThreadsInv ==
  /\ \A w \in Prover!Workers : w # spawned => thread[w] \in ProverGone
  /\ worker \in {0, spawned}
  /\ caller \in {"init", "send", "wait", "join"} => worker = spawned /\ spawned # 0
  /\ (worker = 0 /\ spawned # 0) => thread[spawned] \in ProverGone

ProverIInv == ProverTypeOK /\ ProverSpawnsInv /\ ProverThreadsInv

-----------------------------------------------------------------------------
LEMMA ProverDoubled ==
  /\ \A s, m, n \in Nat : s <= 2 * m /\ m <= n => s + 1 <= 2 * n + 1
  /\ \A s, m \in Nat : s <= 2 * m => s + 1 <= 2 * m + 1
  /\ \A s, m \in Nat : s <= 2 * m - 1 => s + 1 <= 2 * m
  OBVIOUS

\* Worker::spawn is only reached when every thread spawned before has ended
\* and there is a number left for the new one.
LEMMA ProverSpawnStep ==
  ASSUME Prover!ConstantsAssumption, ProverIInv, NEW why \in {"new", "prove", "replace"}, Prover!Spawn(why),
         \A w \in Prover!Workers : thread[w] \in ProverGone,
         calls' \in 0..MaxProofs, spawned <= 2 * calls',
         why = "prove" => spawned <= 2 * calls' - 1 /\ calls' > 0
  PROVE  ProverIInv'
<1> USE DEF Prover!ConstantsAssumption, Prover!Workers
<1>1. spawned + 1 \in Prover!Workers /\ spawned' = spawned + 1 /\ worker' = spawned + 1
  <2>1. MaxProofs \in Nat /\ spawned \in Nat /\ calls' \in Nat /\ calls' <= MaxProofs
    BY DEF ProverIInv, ProverTypeOK
  <2>2. spawned + 1 <= 2 * MaxProofs + 1
    BY Zenon, <2>1, ProverDoubled
  <2> QED
    BY <2>1, <2>2 DEF Prover!Spawn
<1>2. ProverTypeOK'
  BY <1>1 DEF Prover!Spawn, ProverIInv, ProverTypeOK, ProverThreadStates
<1>3. ProverSpawnsInv'
  <2>1. spawned \in Nat /\ calls' \in Nat
    BY DEF ProverIInv, ProverTypeOK
  <2>2. spawned + 1 <= 2 * calls' + 1 /\ (why = "prove" => spawned + 1 <= 2 * calls')
    BY Zenon, <2>1, ProverDoubled
  <2> QED
    BY Zenon, <1>1, <2>2 DEF Prover!Spawn, ProverSpawnsInv, ProverInCall
<1>4. ProverThreadsInv'
  BY <1>1 DEF Prover!Spawn, ProverThreadsInv, ProverIInv, ProverTypeOK
<1> QED
  BY Zenon, <1>2, <1>3, <1>4 DEF ProverIInv

LEMMA ProverCallerStep == Prover!ConstantsAssumption /\ ProverIInv /\ Prover!Caller => ProverIInv'
<1> SUFFICES ASSUME Prover!ConstantsAssumption, ProverIInv, Prover!Caller PROVE ProverIInv'
    BY Zenon
<1> USE DEF Prover!ConstantsAssumption, ProverIInv
<1>all. ASSUME worker = 0 \/ thread[spawned] \in ProverGone
        PROVE  \A w \in Prover!Workers : thread[w] \in ProverGone
  BY <1>all DEF ProverTypeOK, ProverThreadsInv, Prover!Workers
<1>1. CASE Prover!New
  BY <1>1, <1>all, ProverSpawnStep DEF Prover!New, ProverSpawnsInv, ProverTypeOK
<1>2. CASE Prover!Prove /\ worker = 0
  <2>1. Prover!Spawn("prove") /\ calls' = calls + 1 /\ calls' \in 0..MaxProofs
    BY <1>2 DEF Prover!Prove, ProverTypeOK
  <2> QED
    BY <1>2, <1>all, <2>1, ProverSpawnStep DEF ProverSpawnsInv, ProverTypeOK
<1>3. CASE Prover!Prove /\ worker # 0
  BY <1>3 DEF Prover!Prove, ProverTypeOK, ProverSpawnsInv, ProverThreadsInv, ProverInCall
<1>4. CASE Prover!InitOk
  BY Zenon, <1>4 DEF Prover!InitOk, ProverTypeOK, ProverSpawnsInv, ProverThreadsInv, ProverInCall
<1>5. CASE Prover!InitFails
  BY <1>5 DEF Prover!InitFails, ProverTypeOK, ProverSpawnsInv, ProverThreadsInv, ProverInCall, ProverGone
<1>6. CASE Prover!Send
  BY Zenon, <1>6 DEF Prover!Send, ProverTypeOK, ProverSpawnsInv, ProverThreadsInv, ProverInCall
<1>7. CASE Prover!Receive
  BY Zenon, <1>7 DEF Prover!Receive, ProverTypeOK, ProverSpawnsInv, ProverThreadsInv, ProverInCall
<1>8. CASE Prover!Join
  <2>1. Prover!Spawn("replace") /\ calls' = calls /\ spawned <= 2 * calls
    BY Zenon, <1>8 DEF Prover!Join, ProverSpawnsInv, ProverInCall
  <2>2. thread[spawned] \in ProverGone
    BY Zenon, <1>8 DEF Prover!Join, ProverThreadsInv, ProverGone
  <2> QED
    BY Zenon, <1>all, <2>1, <2>2, ProverSpawnStep DEF ProverTypeOK
<1>9. CASE Prover!Drop
  BY Zenon, <1>9 DEF Prover!Drop, ProverTypeOK, ProverSpawnsInv, ProverThreadsInv, ProverInCall
<1> QED
  BY Zenon, <1>1, <1>2, <1>3, <1>4, <1>5, <1>6, <1>7, <1>8, <1>9 DEF Prover!Caller

\* A thread that has not ended is the last worker's, and one that has stays so.
LEMMA ProverThreadStep ==
  ASSUME Prover!ConstantsAssumption, ProverIInv, NEW w \in Prover!Workers, Prover!Thread(w)
  PROVE  ProverIInv'
<1> USE DEF Prover!ConstantsAssumption, ProverIInv
<1>1. /\ thread[w] \notin ProverGone
      /\ thread' = [thread EXCEPT ![w] = thread'[w]] /\ thread'[w] \in ProverThreadStates
      /\ UNCHANGED <<caller, calls, worker, spawned, purpose>>
  BY Zenon DEF Prover!Thread, Prover!Build, Prover!Take, Prover!Answer, Prover!Panic, Prover!Ended, ProverTypeOK,
         ProverGone, ProverThreadStates
<1>2. w = spawned /\ worker # 0
  BY <1>1 DEF ProverThreadsInv, ProverTypeOK, Prover!Workers
<1> QED
  BY Zenon, <1>1, <1>2 DEF ProverTypeOK, ProverSpawnsInv, ProverThreadsInv, ProverInCall

THEOREM ProverInvariance == Prover!ConstantsAssumption => (Prover!Spec => []ProverIInv)
<1> SUFFICES ASSUME Prover!ConstantsAssumption PROVE Prover!Spec => []ProverIInv
    BY Zenon
<1>1. Prover!Init => ProverIInv
  BY DEF Prover!ConstantsAssumption, Prover!Init, ProverIInv, ProverTypeOK, ProverSpawnsInv, ProverThreadsInv,
         ProverInCall, Prover!Workers, ProverGone, ProverThreadStates
<1>2. ProverIInv /\ [Prover!Next]_(Prover!vars) => ProverIInv'
  <2>1. ASSUME ProverIInv, UNCHANGED Prover!vars PROVE ProverIInv'
    BY Zenon, <2>1 DEF Prover!vars, ProverIInv, ProverTypeOK, ProverSpawnsInv, ProverThreadsInv, ProverInCall
  <2> QED
    BY Zenon, <2>1, ProverCallerStep, ProverThreadStep DEF Prover!Next
<1> QED
  BY <1>1, <1>2, PTL DEF Prover!Spec

\* BlockProver::prove replaces a worker only after joining its thread: at most
\* one thread holds a prover, for any number of calls, panics and rebuilds.
THEOREM ProverIsOne == Prover!ConstantsAssumption => (Prover!Spec => []OneProver)
<1> SUFFICES ASSUME Prover!ConstantsAssumption PROVE Prover!Spec => []OneProver
    BY Zenon
<1>1. ProverIInv => OneProver
  BY Zenon DEF OneProver, Prover!OneProver, ProverIInv, ProverThreadsInv, ProverGone
<1> QED
  BY <1>1, ProverInvariance, PTL

-----------------------------------------------------------------------------
\* EthproofsClient

ClientAnswers ==
  Client!RateLimits
    \cup {Client!ServerError, Client!NoResponse, Client!Success, Client!Conflict, Client!Refused,
          Client!NoAnswer}

ClientTypeOK ==
  /\ run \in 1..MaxRuns
  /\ call \in {"post", "await", "sleep", "done", "killed"}
  /\ attempt \in 0..PROVED_ATTEMPTS
  /\ wait \in 0..MAX_RETRY_WAIT
  /\ outcome \in {"none", "ok", "already", "failed"}
  /\ flight \subseteq Client!Requests
  /\ answer \in ClientAnswers
  /\ storedBy \in Client!Requests \cup {Client!NoRequest}
  /\ faults \in 0..MaxPostFaults

\* A post is only made while attempts are left.
ClientAttemptsInv == call \in {"post", "sleep"} => attempt < PROVED_ATTEMPTS

\* The server says it has the proof only when it has one, of whichever run.
ClientAnswerInv == answer \in {Client!Success, Client!Conflict} => storedBy # Client!NoRequest

ClientIInv == ClientTypeOK /\ ClientAttemptsInv /\ ClientAnswerInv /\ Client!ReportedIsStored

\* Every wait between two posts is at most MAX_RETRY_WAIT and a call posts at
\* most PROVED_ATTEMPTS times, whatever waits the server names.
CallBounded == attempt <= PROVED_ATTEMPTS /\ wait <= MAX_RETRY_WAIT

-----------------------------------------------------------------------------
LEMMA ClientRequestsAreReal == Client!ConstantsAssumption => Client!NoRequest \notin Client!Requests
  BY DEF Client!ConstantsAssumption, Client!NoRequest, Client!Requests

\* The answers are told apart by their status.
LEMMA ClientAnswersDiffer ==
  /\ \A a \in {Client!Success, Client!Conflict, Client!Refused, Client!ServerError, Client!NoResponse} :
       a # Client!NoAnswer
  /\ \A a \in Client!RateLimits \cup {Client!ServerError, Client!NoResponse, Client!Refused, Client!NoAnswer} :
       a \notin {Client!Success, Client!Conflict}
  BY DEF Client!Success, Client!Conflict, Client!Refused, Client!ServerError, Client!NoResponse,
         Client!NoAnswer, Client!RateLimits

LEMMA ClientNetworkStep ==
  ASSUME Client!ConstantsAssumption, ClientIInv, NEW r \in flight,
  Client!ServerAnswers(r) \/ Client!AnswerLost(r)
  PROVE  ClientIInv'
<1> USE DEF ClientIInv
<1>1. r \in Client!Requests /\ r # Client!NoRequest
  BY Zenon, ClientRequestsAreReal DEF ClientTypeOK
<1>2. UNCHANGED <<run, call, attempt, wait, outcome>> /\ flight' \subseteq flight
  BY Zenon DEF Client!ServerAnswers, Client!AnswerLost
<1>3. /\ storedBy' \in Client!Requests \cup {Client!NoRequest}
      /\ storedBy # Client!NoRequest => storedBy' = storedBy
      /\ answer' \in {Client!Success, Client!Conflict} => storedBy' # Client!NoRequest
      /\ answer' \in ClientAnswers
      /\ faults' \in 0..MaxPostFaults
  <2>1. CASE Client!ServerAnswers(r)
    BY <1>1, <2>1, ClientAnswersDiffer
    DEF Client!ConstantsAssumption, Client!ServerAnswers, Client!Handled, ClientTypeOK, ClientAnswerInv,
        ClientAnswers
  <2>2. CASE Client!AnswerLost(r)
    BY <1>1, <2>2, ClientAnswersDiffer
    DEF Client!ConstantsAssumption, Client!AnswerLost, ClientTypeOK, ClientAnswerInv, ClientAnswers
  <2> QED
    BY Zenon, <2>1, <2>2
<1> QED
  BY Zenon, <1>2, <1>3 DEF ClientTypeOK, ClientAttemptsInv, ClientAnswerInv, Client!ReportedIsStored

LEMMA ClientWaitBounded ==
  ASSUME Client!ConstantsAssumption, NEW a \in ClientAnswers
  PROVE  Client!retry_wait(a) \in 0..MAX_RETRY_WAIT
<1>1. a.wait \in Nat
  <2>1. CASE a \in Client!RateLimits
    BY Zenon, <2>1 DEF Client!ConstantsAssumption, Client!RateLimits
  <2>2. CASE a \notin Client!RateLimits
    BY <2>2 DEF Client!ConstantsAssumption, ClientAnswers, Client!ServerError, Client!NoResponse,
       Client!Success, Client!Conflict, Client!Refused, Client!NoAnswer
  <2> QED
    BY Zenon, <2>1, <2>2
<1> QED
  BY <1>1 DEF Client!ConstantsAssumption, Client!retry_wait, Client!Least

LEMMA ClientStep ==
  ASSUME Client!ConstantsAssumption, ClientIInv,
         Client!Post \/ Client!TimesOut \/ Client!Receive \/ Client!Wake \/ Client!Kill \/ Client!Restart
  PROVE  ClientIInv'
<1> USE DEF ClientIInv, Client!ConstantsAssumption
<1>1. CASE Client!Post
  <2>1. <<run, attempt + 1>> \in Client!Requests
    BY <1>1 DEF Client!Post, ClientTypeOK, ClientAttemptsInv, Client!Requests
  <2> QED
    BY <1>1, <2>1, ClientAnswersDiffer DEF Client!Post, ClientTypeOK, ClientAttemptsInv, ClientAnswerInv,
       Client!ReportedIsStored, ClientAnswers
<1>2. CASE Client!TimesOut
  BY <1>2, ClientAnswersDiffer DEF Client!TimesOut, ClientTypeOK, ClientAttemptsInv, ClientAnswerInv,
     Client!ReportedIsStored, ClientAnswers
<1>3. CASE Client!Receive
  <2>1. Client!retry_wait(answer) \in 0..MAX_RETRY_WAIT
    BY Zenon, ClientWaitBounded DEF ClientTypeOK
  <2>2. outcome' \in {"ok", "already"} => storedBy # Client!NoRequest
    BY Zenon, <1>3 DEF Client!Receive, Client!Returns, Client!already_stored, ClientAnswerInv, Client!ReportedIsStored
  <2> QED
    BY Zenon, <1>3, <2>1, <2>2 DEF Client!Receive, Client!Returns, Client!retries_left, ClientTypeOK,
       ClientAttemptsInv, ClientAnswerInv, Client!ReportedIsStored
<1>4. CASE Client!Wake
  BY Zenon, <1>4 DEF Client!Wake, ClientTypeOK, ClientAttemptsInv, ClientAnswerInv, Client!ReportedIsStored
<1>5. CASE Client!Kill
  BY Zenon, <1>5 DEF Client!Kill, ClientTypeOK, ClientAttemptsInv, ClientAnswerInv, Client!ReportedIsStored
<1>6. CASE Client!Restart
  BY <1>6, ClientAnswersDiffer DEF Client!Restart, ClientTypeOK, ClientAttemptsInv, ClientAnswerInv,
     Client!ReportedIsStored, ClientAnswers
<1> QED
  BY Zenon, <1>1, <1>2, <1>3, <1>4, <1>5, <1>6

THEOREM ClientInvariance == Client!ConstantsAssumption => (Client!Spec => []ClientIInv)
<1> SUFFICES ASSUME Client!ConstantsAssumption PROVE Client!Spec => []ClientIInv
    BY Zenon
<1>1. Client!Init => ClientIInv
  BY ClientAnswersDiffer
  DEF Client!ConstantsAssumption, Client!Init, ClientIInv, ClientTypeOK, ClientAttemptsInv, ClientAnswerInv,
      Client!ReportedIsStored, ClientAnswers
<1>2. ClientIInv /\ [Client!Next]_(Client!vars) => ClientIInv'
  <2>1. ASSUME ClientIInv, UNCHANGED Client!vars PROVE ClientIInv'
    BY Zenon, <2>1 DEF Client!vars, ClientIInv, ClientTypeOK, ClientAttemptsInv, ClientAnswerInv,
       Client!ReportedIsStored
  <2> QED
    BY Zenon, <2>1, ClientNetworkStep, ClientStep DEF Client!Next, Client!Network
<1> QED
  BY <1>1, <1>2, PTL DEF Client!Spec

\* EthproofsClient::proved reports a proof as posted, on a success or on a 409
\* to a retry, only when the server holds a proof of the block: through lost
\* and late messages, kills and restarts, for any limits.
THEOREM ReportsHold == Client!ConstantsAssumption => (Client!Spec => []ReportedIsStored)
  BY ClientInvariance, PTL DEF ClientIInv, ReportedIsStored

\* A call of proved posts at most PROVED_ATTEMPTS times, and no wait is longer
\* than MAX_RETRY_WAIT.
THEOREM CallsBounded == Client!ConstantsAssumption => (Client!Spec => []CallBounded)
<1> SUFFICES ASSUME Client!ConstantsAssumption PROVE Client!Spec => []CallBounded
    BY Zenon
<1>1. ClientIInv => CallBounded
  BY DEF Client!ConstantsAssumption, ClientIInv, ClientTypeOK, CallBounded
<1> QED
  BY <1>1, ClientInvariance, PTL

-----------------------------------------------------------------------------
\* Fetcher, proved in FetcherProofs

\* A bundle file is only ever there whole, for any crashes and failed writes
\* of the one process that works in the directory.
THEOREM BundleIsWhole ==
  ASSUME Fetcher!ConstantsAssumption, NEW p, Procs = {p}
  PROVE  Fetcher!Spec => []BundleWhole
  BY Zenon, Fetcher!BundleIsWhole DEF BundleWhole

\* A forced fetch that met no fault of its own has what the node gave it.
THEOREM ForcedFetchIsFresh ==
  ASSUME Fetcher!ConstantsAssumption, NEW p, Procs = {p}
  PROVE  Fetcher!Spec => []ForcedIsFresh
  BY Zenon, Fetcher!ForcedFetchIsFresh DEF ForcedIsFresh
=============================================================================
