--------------------------- MODULE MCAirbenderService ---------------------------
(* Small instances of AirbenderService for TLC. *)
EXTENDS AirbenderService

Base ==
  [start_block |-> None, end_block |-> None, prove_every |-> 1, execute_every |-> 0,
   save_all_responses |-> FALSE, max_lag |-> 0, eth_client |-> FALSE,
   serial_preflight |-> TRUE]

\* Following the tip, from a start block or from the tip, and skipping ahead past
\* a lag of one block.
Following ==
  {[Base EXCEPT !.start_block = 0, !.max_lag = 1, !.prove_every = 2, !.execute_every = 3],
   [Base EXCEPT !.start_block = 1, !.max_lag = 1, !.prove_every = 3,
                !.save_all_responses = TRUE, !.eth_client = TRUE],
   [Base EXCEPT !.max_lag = 1, !.prove_every = 2, !.eth_client = TRUE],
   [Base EXCEPT !.max_lag = 1, !.prove_every = 2, !.serial_preflight = FALSE,
                !.save_all_responses = TRUE]}

\* Bounded runs, whose end block may be past the tip.
Bounded ==
  {[Base EXCEPT !.start_block = 1, !.end_block = 2, !.eth_client = TRUE],
   [Base EXCEPT !.start_block = 2, !.end_block = 3, !.serial_preflight = FALSE]}

\* For the temporal properties: one bounded run, one that follows the tip.
Live ==
  {[Base EXCEPT !.start_block = 1, !.end_block = 2, !.serial_preflight = FALSE],
   [Base EXCEPT !.max_lag = 1, !.prove_every = 2, !.execute_every = 1]}

\* A backlog run with the node answering exactly the tip.
Backlog == {[Base EXCEPT !.start_block = 0, !.max_lag = 1]}

\* A bounded run that posts to Ethproofs.
BoundedPosting == {[Base EXCEPT !.start_block = 1, !.end_block = 1, !.eth_client = TRUE]}

AllConfigs == Following \cup Bounded

=============================================================================
