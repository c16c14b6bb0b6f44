---------------------------- MODULE ExecutionProofs ----------------------------
(***************************************************************************)
(* The theorems of BlockExecutionProofs as properties of Execution.        *)
(***************************************************************************)
EXTENDS Execution, TLAPS

\* The transactions of a block never use more than its gas limit, in either dimension.
THEOREM GasBounded == Processor!ConstantsAssumption => (Processor!Spec => []GasWithinLimit)
BY Processor!GasBounded DEF GasWithinLimit

\* What validate_transaction checked covers what evmone may take of the gas and of the balance.
THEOREM SendersPay == Processor!ConstantsAssumption => (Processor!Spec => []CostsCovered)
BY Processor!SendersPay DEF CostsCovered

\* A block that runs to its end is accepted exactly when its header commits to what evmone did for it.
THEOREM HeaderDecides == Processor!ConstantsAssumption => (Processor!Spec => []CommitmentsDecide)
BY Processor!HeaderDecides DEF CommitmentsDecide
=============================================================================
