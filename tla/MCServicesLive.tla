---------------------------- MODULE MCServicesLive ----------------------------
(***************************************************************************)
(* What must eventually happen in the proving services: the Airbender      *)
(* service, the Hypercube service, the Ethproofs client and the prover     *)
(* thread. They share no state; a behaviour is one of one part, chosen at  *)
(* its start, while the others stay as they begin.                         *)
(***************************************************************************)
EXTENDS MCAirbenderService

VARIABLES
  part,
  \* HypercubeService
  h_config, h_pc, h_next, h_first, h_tip, holder, task, fetch_lost, h_proof, h_posts, h_sent, guest, verdict,
  \* EthproofsClient
  run, call, attempt, wait, outcome, flight, answer, storedBy, faults,
  \* BlockProver
  caller, calls, prover, spawned, thread, init, request, open, batch, reply, result, purpose

HypercubeConfigs ==
  [start_block : {1}, end_block : {0, 3}, prove_every : {2}, execute_every : {1},
   save_all : {FALSE}, download_only : {FALSE}, ethproofs : {FALSE}]

Hypercube == INSTANCE HypercubeService
  WITH MaxBlock <- 3, Configs <- HypercubeConfigs, Results <- {"gas", "zero", "failure", "error"},
       config <- h_config, pc <- h_pc, next_block <- h_next, first <- h_first, tip <- h_tip,
       proof <- h_proof, posts <- h_posts, sent <- h_sent

Ethproofs == INSTANCE EthproofsClient
  WITH PROVED_ATTEMPTS <- 4, MAX_RETRY_WAIT <- 120, ERROR_WAIT <- 10,
       RATE_WAIT <- 30, ServerWaits <- {0, 600}, MaxFaults <- 3, MaxRuns <- 1, pc <- call

Prover == INSTANCE BlockProver WITH MaxCalls <- 3, pc <- caller, worker <- prover

h_vars == <<h_config, h_pc, h_next, h_first, h_tip, holder, task, fetch_lost, h_proof, h_posts, h_sent,
            guest, verdict>>
e_vars == <<run, call, attempt, wait, outcome, flight, answer, storedBy, faults>>
p_vars == <<caller, calls, prover, spawned, thread, init, request, open, batch, reply, result, purpose>>
all_vars == <<part, vars, h_vars, e_vars, p_vars>>

LiveInit ==
  /\ part \in {"airbender", "hypercube", "ethproofs", "prover"}
  /\ Init /\ (part # "airbender" => tip = 0 /\ config.end_block = None)
  /\ Hypercube!Init /\ (part # "hypercube" => h_tip = 0 /\ h_config.end_block = 0)
  /\ Ethproofs!Init
  /\ Prover!Init

LiveNext ==
  \/ part = "airbender" /\ Next /\ UNCHANGED <<part, h_vars, e_vars, p_vars>>
  \/ part = "hypercube" /\ Hypercube!Next /\ UNCHANGED <<part, vars, e_vars, p_vars>>
  \/ part = "ethproofs" /\ Ethproofs!Next /\ UNCHANGED <<part, vars, h_vars, p_vars>>
  \/ part = "prover" /\ Prover!Next /\ UNCHANGED <<part, vars, h_vars, e_vars>>

\* The parts' Fairness, each in its own behaviours only.
LiveFairness ==
  /\ WF_vars(part = "airbender" /\ FetcherStep) /\ WF_vars(part = "airbender" /\ WorkerStep)
  /\ WF_vars(part = "airbender" /\ PreflightTask) /\ WF_vars(part = "airbender" /\ RunReturns)
  /\ SF_vars(part = "airbender" /\ PollTip(tip))
  /\ \A b \in Blocks :
       /\ WF_vars(part = "airbender" /\ PostQueued(b))
       /\ WF_vars(part = "airbender" /\ PostProving(b))
       /\ WF_vars(part = "airbender" /\ PostProved(b))
  /\ WF_h_vars(part = "hypercube" /\ Hypercube!OwnStep)
  /\ \A b \in Hypercube!Blocks : WF_h_vars(part = "hypercube" /\ Hypercube!Task(b))
  /\ WF_e_vars(part = "ethproofs" /\ Ethproofs!Post)
  /\ WF_e_vars(part = "ethproofs" /\ Ethproofs!Receive)
  /\ WF_e_vars(part = "ethproofs" /\ Ethproofs!Wake)
  /\ WF_e_vars(part = "ethproofs" /\ Ethproofs!AnswerOrTimeout)
  /\ WF_p_vars(part = "prover" /\ Prover!Caller)
  /\ \A w \in Prover!Workers : WF_p_vars(part = "prover" /\ Prover!Thread(w))

LiveSpec == LiveInit /\ [][LiveNext]_all_vars /\ LiveFairness

-----------------------------------------------------------------------------
\* A Hypercube run waits for ever only for the node: with an end block it returns,
\* whichever tasks fail, unless a call to the node stays unanswered.
HypercubeRunEnds == part = "hypercube" => Hypercube!BoundedRunEnds

\* With fewer faults than attempts the proof reaches Ethproofs or is refused.
Delivered == part = "ethproofs" => Ethproofs!Delivered

\* Every call of prove returns, and a dropped prover's thread ends.
CallsReturn == part = "prover" => Prover!CallsReturn
=============================================================================
