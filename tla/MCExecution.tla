------------------------------ MODULE MCExecution ------------------------------
(***************************************************************************)
(* StateTransition and BlockExecution in one run: a behaviour is one of    *)
(* either, chosen at its start.                                            *)
(***************************************************************************)
EXTENDS MCStateTransition, Execution

VARIABLE part

Senders == {"rich", "poor"}

Plain ==
  [type |-> "legacy", create |-> FALSE, self |-> FALSE, value |-> 10, data |-> 0, non_zero |-> 0,
   addresses |-> 0, keys |-> 0, auths |-> 0, blobs |-> 0, max_fee |-> 1, priority |-> 1, max_blob_fee |-> 1,
   formed |-> TRUE, gas_limit |-> 50000]

\* Gas limits at the intrinsic gas (the blob's), at the cap and above it; data
\* whose floor is above the cap; a creation, a payment to oneself, which leaves
\* most of its gas for state, a blob and an authorization.
Kinds ==
  {[Plain EXCEPT !.gas_limit = 30000],
   [Plain EXCEPT !.data = 300],
   [Plain EXCEPT !.create = TRUE],
   [Plain EXCEPT !.self = TRUE],
   [Plain EXCEPT !.type = "blob", !.blobs = 1, !.gas_limit = 21000],
   [Plain EXCEPT !.type = "set_code", !.auths = 1]}

Sent == {k @@ [sender |-> a, nonce |-> n] : k \in Kinds, a \in Senders, n \in 0..1}

MCAccounts ==
  [balance : {[rich |-> 200000, poor |-> 60000]},
   code : {[rich |-> "none", poor |-> c] : c \in {"none", "contract"}}]

ASSUME Processor!ConstantsAssumption

execution == <<pc, current, blocks, nonce, balance, code, receipts, sums, tx_index, bal, ran, applied, honest,
               picked, verdict>>

ExecutionInit == part \in {"run", "execution"} /\ Init /\ Processor!Init

ExecutionNext ==
  \/ part = "run" /\ Next /\ UNCHANGED <<part, execution>>
  \/ part = "execution" /\ Processor!Next /\ UNCHANGED <<part, vars>>

ExecutionSpec == ExecutionInit /\ [][ExecutionNext]_<<part, vars, execution>>
=============================================================================
