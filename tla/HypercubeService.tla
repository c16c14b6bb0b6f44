---------------------------- MODULE HypercubeService ----------------------------
(***************************************************************************)
(* The service mode of the SP1 Hypercube prover (Z6mProverService::        *)
(* run_service): one loop walks the blocks, fetches each selected one and  *)
(* hands it, with the lock of a prover, to a task of its own. Proving      *)
(* takes client1; executing takes whichever of client1 and client2 is free *)
(* first. A task gives the lock back when its prover work is over and      *)
(* then writes its files. The posts to Ethproofs are detached tasks.       *)
(*                                                                         *)
(* A proof on disk is "whole", or "head" while its tail is still in the    *)
(* writer's buffer. A guest's gas_used is abstracted to "gas" for a        *)
(* positive amount, "zero", or "failure" for the guest's failure value.    *)
(***************************************************************************)
EXTENDS Naturals, FiniteSets

CONSTANTS
  MaxBlock,   \* bound: the last block the chain reaches
  Configs,    \* service configurations
  Results     \* what executing a block can yield

ConstantsAssumption ==
  /\ MaxBlock \in Nat \ {0}
  /\ Configs \subseteq [start_block : Nat, end_block : Nat, prove_every : Nat, execute_every : Nat,
                         save_all : BOOLEAN, download_only : BOOLEAN, ethproofs : BOOLEAN]
  /\ Results \subseteq {"gas", "zero", "failure", "error"}

VARIABLES
  config,      \* [start_block, end_block, prove_every, execute_every, save_all, download_only, ethproofs]; 0 for an option left out
  pc,          \* of run_service: start, poll, fetch, lock, race, drain, returned, failed
  next_block,
  first,       \* the block the loop started at
  tip,
  holder,      \* the block whose task holds each client's lock, 0 for none
  task,        \* the task of each block
  fetch_lost,  \* blocks whose fetch failed
  proof,       \* the proof file of each block: none, head, whole
  posts,       \* detached posts not delivered yet, as <<kind, block>>
  sent,        \* the proof bytes handed to the proved post: none, head, whole
  guest,       \* what the guest yielded for each executed block
  verdict      \* what the service printed of it: none, executed, FAILED

vars == <<config, pc, next_block, first, tip, holder, task, fetch_lost, proof, posts, sent, guest, verdict>>

Blocks == 1..MaxBlock
Clients == {"client1", "client2"}

\* A task: spawned with its lock, at the prover, done with it and writing
\* its files (write, post, log), over.
Working == {"input", "prove", "execute"}

matches_interval(n, b) == n # 0 /\ b % n = 0

should_prove(b) == matches_interval(config.prove_every, b)
should_execute(b) == matches_interval(config.execute_every, b) /\ ~should_prove(b)
should_anything(b) == should_prove(b) \/ should_execute(b) \/ config.save_all \/ config.download_only

-----------------------------------------------------------------------------
Init ==
  /\ config \in Configs
  /\ pc = "start"
  /\ next_block = 0
  /\ first = 0
  /\ tip \in 0..MaxBlock
  /\ holder = [c \in Clients |-> 0]
  /\ task = [b \in Blocks |-> "none"]
  /\ fetch_lost = {}
  /\ proof = [b \in Blocks |-> "none"]
  /\ posts = {}
  /\ sent = [b \in Blocks |-> "none"]
  /\ guest = [b \in Blocks |-> "none"]
  /\ verdict = [b \in Blocks |-> "none"]

TipAdvances ==
  /\ tip < MaxBlock
  /\ tip' = tip + 1
  /\ UNCHANGED <<config, pc, next_block, first, holder, task, fetch_lost, proof, posts, sent, guest, verdict>>

Loop(label) ==
  /\ pc' = label
  /\ UNCHANGED <<config, first, tip, proof, sent, guest, verdict>>

\* The first block is start_block, or the one after the tip; without either
\* (the node does not answer) the service ends.
Start ==
  /\ pc = "start"
  /\ \/ /\ next_block' = IF config.start_block # 0 THEN config.start_block ELSE tip + 1
        /\ first' = next_block'
        /\ pc' = "poll"
     \/ config.start_block = 0 /\ pc' = "failed" /\ UNCHANGED <<next_block, first>>
  /\ UNCHANGED <<config, tip, holder, task, fetch_lost, proof, posts, sent, guest, verdict>>

\* With an end block the loop stops after it; without one it waits for the
\* node to report the next block (and keeps asking when the node fails).
past_end == config.end_block # 0 /\ next_block > config.end_block

available == config.end_block # 0 \/ next_block <= tip

advance_M1 == next_block + 2

advance == next_block + 1

PollEnd ==
  /\ pc = "poll"
  /\ past_end
  /\ Loop("drain")
  /\ UNCHANGED <<next_block, holder, task, fetch_lost, posts>>

PollNothing ==
  /\ pc = "poll"
  /\ ~past_end /\ available
  /\ next_block <= MaxBlock
  /\ ~should_anything(next_block)
  /\ next_block' = advance
  /\ Loop("poll")
  /\ UNCHANGED <<holder, task, fetch_lost, posts>>

PollBlock ==
  /\ pc = "poll"
  /\ ~past_end /\ available
  /\ next_block <= MaxBlock
  /\ should_anything(next_block)
  /\ Loop("fetch")
  /\ UNCHANGED <<next_block, holder, task, fetch_lost, posts>>

FetchFails ==
  /\ pc = "fetch"
  /\ fetch_lost' = fetch_lost \cup {next_block}
  /\ next_block' = advance
  /\ Loop("poll")
  /\ UNCHANGED <<holder, task, posts>>

\* The bundle is there: hand the block on. queued is posted before the lock
\* is even waited for.
FetchOk ==
  /\ pc = "fetch"
  /\ LET b == next_block
         working == should_prove(b) \/ should_execute(b) IN
       \/ /\ config.download_only \/ ~working
          /\ next_block' = advance /\ Loop("poll") /\ UNCHANGED posts
       \/ /\ ~config.download_only /\ should_prove(b)
          /\ posts' = IF config.ethproofs THEN posts \cup {<<"queued", b>>} ELSE posts
          /\ Loop("lock") /\ UNCHANGED next_block
       \/ /\ ~config.download_only /\ should_execute(b)
          /\ Loop("race") /\ UNCHANGED <<next_block, posts>>
  /\ UNCHANGED <<holder, task, fetch_lost>>

Dispatch(c) ==
  /\ holder[c] = 0
  /\ holder' = [holder EXCEPT ![c] = next_block]
  /\ task' = [task EXCEPT ![next_block] = "input"]
  /\ next_block' = advance
  /\ Loop("poll")
  /\ UNCHANGED <<fetch_lost, posts>>

\* Proving waits for client1: the loop stands still until it is free.
TakeClient1 == pc = "lock" /\ Dispatch("client1")

\* Executing takes the client whose lock is free first.
TakeEither == pc = "race" /\ \E c \in Clients : Dispatch(c)

drained == \A b \in Blocks : task[b] \in {"none", "done"}

\* The loop is over: wait for every task, then return. What is still in
\* posts is dropped with the runtime.
Drain ==
  /\ pc = "drain"
  /\ drained
  /\ pc' = "returned"
  /\ posts' = {}
  /\ UNCHANGED <<config, next_block, first, tip, holder, task, fetch_lost, proof, sent, guest, verdict>>

-----------------------------------------------------------------------------
\* Tasks.
TaskStep(b, s) ==
  /\ pc # "returned"
  /\ task' = [task EXCEPT ![b] = s]
  /\ UNCHANGED <<config, pc, next_block, first, tip, fetch_lost>>

release_M2(b) == [c \in Clients |-> IF holder[c] = b /\ c = "client2" THEN 0 ELSE holder[c]]

\* The task's guard is dropped.
release(b) == [c \in Clients |-> IF holder[c] = b THEN 0 ELSE holder[c]]

\* The input cannot be read: the task ends and its guard with it.
InputFails(b) ==
  /\ task[b] = "input"
  /\ holder' = release(b)
  /\ TaskStep(b, "done")
  /\ UNCHANGED <<proof, posts, sent, guest, verdict>>

InputOk(b) ==
  /\ task[b] = "input"
  /\ TaskStep(b, IF should_prove(b) THEN "prove" ELSE "execute")
  /\ posts' = IF should_prove(b) /\ config.ethproofs THEN posts \cup {<<"proving", b>>} ELSE posts
  /\ UNCHANGED <<holder, proof, sent, guest, verdict>>

\* prove returns a proof within its 30 minutes; the guard is dropped before
\* any file is written.
ProveOk(b) ==
  /\ task[b] = "prove"
  /\ holder' = release(b)
  /\ TaskStep(b, "write")
  /\ UNCHANGED <<proof, posts, sent, guest, verdict>>

\* prove fails (logged) or runs into the timeout (not logged).
ProveFails(b) ==
  /\ task[b] = "prove"
  /\ holder' = release(b)
  /\ TaskStep(b, "done")
  /\ UNCHANGED <<proof, posts, sent, guest, verdict>>

\* The proof is encoded into a buffered writer, which the scope keeps open:
\* up to its last buffer it is in the file.
WriteProof(b) ==
  /\ task[b] = "write"
  /\ \/ /\ proof' = [proof EXCEPT ![b] = "head"]
        /\ TaskStep(b, IF config.ethproofs THEN "post" ELSE "log")
     \/ TaskStep(b, "done") /\ UNCHANGED proof
  /\ UNCHANGED <<holder, posts, sent, guest, verdict>>

\* The proof bytes are read back from the file and handed to the post.
read_back(b) == proof[b]

PostProof(b) ==
  /\ task[b] = "post"
  /\ sent' = [sent EXCEPT ![b] = read_back(b)]
  /\ posts' = posts \cup {<<"proved", b>>}
  /\ TaskStep(b, "log")
  /\ UNCHANGED <<holder, proof, guest, verdict>>

\* The log line, and the end of the scope, which flushes the writer.
LogProof(b) ==
  /\ task[b] = "log"
  /\ proof' = [proof EXCEPT ![b] = "whole"]
  /\ TaskStep(b, "done")
  /\ UNCHANGED <<holder, posts, sent, guest, verdict>>

\* The execution returns the guest's gas_used, or an error that ends the task.
ExecuteReturns(b) ==
  /\ task[b] = "execute"
  /\ \E r \in Results :
       /\ guest' = [guest EXCEPT ![b] = r]
       /\ TaskStep(b, IF r = "error" THEN "done" ELSE "report")
  /\ holder' = release(b)
  /\ UNCHANGED <<proof, posts, sent, verdict>>

\* gas_used == 0 is printed as a failure, anything else as executed.
reports(g) == IF g = "zero" THEN "FAILED" ELSE "executed"

Report(b) ==
  /\ task[b] = "report"
  /\ verdict' = [verdict EXCEPT ![b] = reports(guest[b])]
  /\ TaskStep(b, "done")
  /\ UNCHANGED <<holder, proof, posts, sent, guest>>

\* A detached post is delivered, in any order.
Deliver ==
  /\ \E p \in posts : posts' = posts \ {p}
  /\ UNCHANGED <<config, pc, next_block, first, tip, holder, task, fetch_lost, proof, sent, guest, verdict>>

RunService ==
  \/ Start \/ PollEnd \/ PollNothing \/ PollBlock \/ FetchFails \/ FetchOk
  \/ TakeClient1 \/ TakeEither \/ Drain

Task(b) ==
  \/ InputFails(b) \/ InputOk(b) \/ ProveOk(b) \/ ProveFails(b) \/ WriteProof(b)
  \/ PostProof(b) \/ LogProof(b) \/ ExecuteReturns(b) \/ Report(b)

Next == TipAdvances \/ RunService \/ Deliver \/ \E b \in Blocks : Task(b)

\* The loop has asked the node for the tip or for a block. Neither call has a
\* timeout: what an unanswered one holds up, it holds up for ever.
asks_node ==
  \/ pc = "fetch"
  \/ pc = "start" /\ config.start_block = 0
  \/ pc = "poll" /\ config.end_block = 0

\* A step of the loop that takes no answer of the node's.
OwnStep == ~asks_node /\ RunService

\* The runtime polls the loop and every task; prove is cut by its timeout,
\* and an execution of a block ends. The node need not answer, ever.
Fairness ==
  /\ WF_vars(OwnStep)
  /\ \A b \in Blocks : WF_vars(Task(b))

Spec == Init /\ [][Next]_vars

FairSpec == Spec /\ Fairness

-----------------------------------------------------------------------------

\* Every block between the first one and next_block that is to be proved or
\* executed has its task, unless its fetch failed (which is logged): waiting
\* for a lock, a slow task or a node that fails never passes over one.
NothingSkipped ==
  ~config.download_only =>
    \A b \in Blocks :
      (first <= b /\ b < next_block /\ first # 0 /\ (should_prove(b) \/ should_execute(b))) =>
        task[b] # "none" \/ b \in fetch_lost

\* Nothing but the node keeps the loop waiting for ever: every wait for a lock
\* ends, whichever tasks hold it, fail or time out, and a run with an end block
\* returns unless a call to the node stays unanswered.
BoundedRunEnds ==
  /\ pc \in {"lock", "race"} ~> pc = "poll"
  /\ (config.end_block # 0) => <>(pc \in {"returned", "failed"}) \/ <>[]asks_node

\* What the post sends is the proof: the bytes read back are the whole file.
PostedProofWhole == \A b \in Blocks : sent[b] \in {"none", "whole"}
=============================================================================
