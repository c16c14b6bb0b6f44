------------------------------- MODULE Execution -------------------------------
(***************************************************************************)
(* The run over an envelope (StateTransition) and the execution of a block *)
(* (BlockExecution), which is one step of the former, side by side: they   *)
(* share no state.                                                         *)
(***************************************************************************)
EXTENDS StateTransition

CONSTANTS
  Addr, Revisions, GasLimits, Transactions, Accounts, BaseFee, BlobGasPrice, kMaxTxGasLimit,
  MAX_TX_TOTAL_GAS_LIMIT, MaxTxns, MaxBlocks

VARIABLES
  pc, current, blocks, nonce, balance, code, receipts, sums, tx_index, bal, ran, applied, honest, picked,
  verdict

Processor == INSTANCE BlockExecutionProofs WITH block <- current, result <- verdict

-----------------------------------------------------------------------------
\* The properties of BlockExecution, stated there.

\* The transactions of a block use no more gas than its limit, in either dimension.
GasWithinLimit == Processor!GasWithinLimit
\* Every transaction that runs was given gas for it and can be paid for.
CostsCovered == Processor!CostsCovered
\* A block that runs to its end is accepted exactly when its header commits to what ran.
CommitmentsDecide == Processor!CommitmentsDecide
=============================================================================
