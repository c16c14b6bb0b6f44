---------------------------- MODULE BlockExecution ----------------------------
(***************************************************************************)
(* A block executed on the state (Blockchain::insert_block and             *)
(* ExecutionProcessor::execute_block): its transactions validated before   *)
(* and again at their turn, the gas they take from the block, the receipts *)
(* and the block-level access list they leave, and the header's            *)
(* commitments held against them. The receipts are the Blockchain's, and   *)
(* one block's stay until the next overwrites them.                        *)
(*                                                                         *)
(* evmone is external: a transaction may use any gas between what it owes  *)
(* and its limit, succeed or fail, log, delegate an account and move the   *)
(* balance of a delegated one. The body is picked transaction by           *)
(* transaction among those that pass the checks made of the whole body.    *)
(***************************************************************************)
EXTENDS TransactionRules, SequencesExt

CONSTANTS
  Addr,          \* accounts that send transactions
  Revisions,
  GasLimits,     \* of a block
  Transactions,  \* transactions a block may hold
  Accounts,      \* [balance, code]: the accounts at the start
  BaseFee, BlobGasPrice,
  MaxTxns,       \* bound: transactions of all the blocks
  MaxBlocks      \* bound: blocks

\* A decoded transaction: only a blob transaction carries blobs.
Transaction ==
  [type : {"legacy", "access_list", "dynamic_fee", "blob", "set_code"}, formed : BOOLEAN,
   create : BOOLEAN, self : BOOLEAN, value : Nat, data : Nat, non_zero : Nat, addresses : Nat,
   keys : Nat, auths : Nat, blobs : Nat, max_fee : Nat, priority : Nat, max_blob_fee : Nat,
   gas_limit : Nat, sender : Addr, nonce : Nat]

ConstantsAssumption ==
  /\ kMaxTxGasLimit \in Nat /\ MAX_TX_TOTAL_GAS_LIMIT \in Nat
  /\ Revisions \subseteq 0..AMSTERDAM /\ GasLimits \subseteq Nat
  /\ Accounts \subseteq [balance : [Addr -> Nat], code : [Addr -> {"none", "contract"}]]
  /\ Transactions \subseteq Transaction
  /\ \A tx \in Transactions : tx.non_zero <= tx.data /\ (tx.type # "blob" => tx.blobs = 0)
  /\ BaseFee \in Nat /\ BlobGasPrice \in Nat
  /\ MaxTxns \in Nat /\ MaxBlocks \in Nat

VARIABLES
  pc,          \* idle, transactions
  block,       \* [rev, gas_limit, size]: the block inserted
  blocks,      \* blocks inserted so far
  nonce, balance, code,   \* of each account
  receipts,    \* receipts_ of the Blockchain
  sums,        \* [cumulative, regular, state]: the gas used so far
  tx_index,    \* tx_index_
  bal,         \* what bal_builder_ has recorded
  ran,         \* history: what evmone returned for each transaction
  applied,     \* history: the diffs applied to the state, with their index
  honest,      \* history: the header committed to what evmone did
  picked,      \* history: transactions of all the blocks
  result       \* of the last insert_block

accounts == <<nonce, balance, code>>
processor == <<sums, tx_index, bal, ran, applied>>
vars == <<pc, block, blocks, accounts, receipts, processor, honest, picked, result>>

Amsterdam == block.rev >= AMSTERDAM
NoReceipt == [gas |-> 0, logs |-> <<>>]
NoGas == [cumulative |-> 0, regular |-> 0, state |-> 0]

Init ==
  /\ pc = "idle" /\ blocks = 0 /\ result = "none"
  /\ block = [rev |-> 0, gas_limit |-> 0, size |-> 0]
  /\ nonce = [a \in Addr |-> 0]
  /\ \E start \in Accounts : balance = start.balance /\ code = start.code
  /\ receipts = <<>> /\ picked = 0 /\ honest = FALSE
  /\ sums = NoGas /\ tx_index = 0 /\ bal = <<>> /\ ran = <<>> /\ applied = <<>>

\* The processor lives as long as its block's execution.
Ends(r) ==
  /\ pc' = "idle" /\ result' = r
  /\ sums' = NoGas /\ tx_index' = 0 /\ bal' = <<>> /\ ran' = <<>> /\ applied' = <<>>

pre_valid(tx, rev) == pre_validate_transaction(tx, rev, IF rev >= LONDON THEN BaseFee ELSE 0, BlobGasPrice)

\* A body with a transaction that fails its checks is rejected before anything runs.
RejectBody ==
  /\ pc = "idle" /\ blocks < MaxBlocks
  /\ \E rev \in Revisions : rev >= block.rev /\ \E tx \in Transactions : ~pre_valid(tx, rev)
  /\ blocks' = blocks + 1
  /\ result' = "rejected"
  /\ UNCHANGED <<pc, block, accounts, receipts, processor, honest, picked>>

\* receipts.resize: those of an earlier block stay as they are.
resized(n) == [i \in 1..n |-> IF i <= Len(receipts) THEN receipts[i] ELSE NoReceipt]

\* insert_block up to the first transaction: a new processor, and the
\* block-start system calls.
Begin ==
  /\ pc = "idle" /\ blocks < MaxBlocks
  /\ \E rev \in Revisions, limit \in GasLimits, n \in 0..(MaxTxns - picked) :
       /\ rev >= block.rev
       /\ block' = [rev |-> rev, gas_limit |-> limit, size |-> n]
       /\ receipts' = resized(n)
       /\ picked' = picked + n
       /\ bal' = IF rev >= AMSTERDAM THEN <<<<0, "start">>>> ELSE <<>>
  /\ applied' = <<<<0, "start">>>>
  /\ blocks' = blocks + 1
  /\ sums' = NoGas /\ tx_index' = 0 /\ ran' = <<>>
  /\ pc' = "transactions" /\ result' = "none" /\ honest' = FALSE
  /\ UNCHANGED accounts

-----------------------------------------------------------------------------
\* Mutant: what the block has used is left out of the check.
dimensions_fit_M1(tx) ==
  /\ smaller(kMaxTxGasLimit, tx.gas_limit) <= block.gas_limit - sums.regular
  /\ tx.gas_limit <= block.gas_limit

\* From Amsterdam on, the worst case of both dimensions must fit.
dimensions_fit(tx) ==
  /\ smaller(kMaxTxGasLimit, tx.gas_limit) <= block.gas_limit - sums.regular
  /\ tx.gas_limit <= block.gas_limit - sums.state

available_gas ==
  block.gas_limit - IF sums.regular # 0 \/ sums.state # 0 THEN larger(sums.regular, sums.state)
                    ELSE sums.cumulative

\* Mutant: the blobs are left out of the cost.
affordable_M1(tx) == balance[tx.sender] >= tx.gas_limit * tx.max_fee + tx.value

affordable(tx) == balance[tx.sender] >= maximum_gas_cost(tx) + tx.value

validate_transaction(tx, gas_available) ==
  /\ code[tx.sender] \in {"none", "delegated"}
  /\ nonce[tx.sender] = tx.nonce
  /\ affordable(tx)
  /\ gas_available >= tx.gas_limit

includes(tx) ==
  /\ Amsterdam => dimensions_fit(tx)
  /\ validate_transaction(tx, IF Amsterdam THEN block.gas_limit ELSE available_gas)

\* tx_props: what evmone may spend on the execution, and on state.
state_gas_limit(tx) == IF Amsterdam THEN larger(tx.gas_limit - kMaxTxGasLimit, 0) ELSE 0
execution_gas_limit(tx) == tx.gas_limit - owed_gas(tx, block.rev) - state_gas_limit(tx)
min_gas_cost(tx) == least_gas(tx, block.rev)

\* evmone::state::transition (external): all it was given, or none of it, is
\* used, and the least cost is charged in any case. State gas is taken from
\* its own limit first and then from the execution's.
outcomes(tx) ==
  LET owed == owed_gas(tx, block.rev)
      spent == {[regular |-> owed, state |-> 0],
                [regular |-> owed + execution_gas_limit(tx), state |-> 0]}
               \cup (IF Amsterdam
                     THEN {[regular |-> owed, state |-> state_gas_limit(tx) + execution_gas_limit(tx)],
                           [regular |-> owed + execution_gas_limit(tx), state |-> state_gas_limit(tx)]}
                     ELSE {})
  IN {[used |-> larger(s.regular + s.state, min_gas_cost(tx)),
       regular |-> larger(s.regular, min_gas_cost(tx)), state |-> s.state,
       exec |-> execution_gas_limit(tx), ok |-> ok,
       logs |-> IF ok THEN <<<<blocks, tx_index + 1>>>> ELSE <<>>] : s \in spent, ok \in BOOLEAN}

\* The accounts a transaction leaves: the sender pays, the recipient gets the
\* value, an authorization delegates the other account and takes its nonce,
\* and a delegated account's balance may be moved by whoever calls it.
fee(tx, o) ==
  o.used * (IF block.rev >= LONDON THEN effective_gas_price(tx, BaseFee) ELSE tx.max_fee)
  + total_blob_gas(tx) * BlobGasPrice

transition(tx, o) ==
  LET moved == IF o.ok /\ ~tx.self /\ ~tx.create THEN tx.value ELSE 0
      lost == IF o.ok THEN tx.value ELSE 0
      other == {a \in Addr : a # tx.sender}
      signed == IF tx.auths > 0 THEN {a \in other : code[a] # "contract"} ELSE {}
      swept == {a \in other : o.ok /\ code[a] = "delegated"}
  IN /\ nonce' = [a \in Addr |-> IF a = tx.sender \/ a \in signed THEN nonce[a] + 1 ELSE nonce[a]]
     /\ code' = [a \in Addr |-> IF a \in signed THEN "delegated" ELSE code[a]]
     /\ \E taken \in SUBSET swept :
          balance' = [a \in Addr |->
                        IF a = tx.sender THEN balance[a] - fee(tx, o) - (IF tx.self THEN 0 ELSE lost)
                        ELSE IF a \in taken THEN 0 ELSE balance[a] + moved]

\* Mutant: the logs of an earlier block are kept.
receipt_M1(old, gas, o) == [gas |-> gas, logs |-> old.logs \o o.logs]

\* The receipt is overwritten, its logs cleared first.
receipt(old, gas, o) == [gas |-> gas, logs |-> o.logs]

\* The next transaction, where it is valid on the state as it is now.
ExecuteTransaction ==
  /\ pc = "transactions" /\ tx_index < block.size
  /\ \E tx \in Transactions :
       /\ pre_valid(tx, block.rev) /\ includes(tx)
       /\ \E o \in outcomes(tx) :
            /\ sums' = [cumulative |-> sums.cumulative + o.used,
                        regular |-> IF Amsterdam THEN sums.regular + o.regular ELSE 0,
                        state |-> IF Amsterdam THEN sums.state + o.state ELSE 0]
            /\ receipts' = [receipts EXCEPT ![tx_index + 1] = receipt(@, sums.cumulative + o.used, o)]
            /\ transition(tx, o)
            /\ ran' = Append(ran, o)
  /\ bal' = IF Amsterdam THEN Append(bal, <<tx_index + 1, "transaction">>) ELSE bal
  /\ applied' = Append(applied, <<tx_index + 1, "transaction">>)
  /\ tx_index' = tx_index + 1
  /\ UNCHANGED <<pc, block, blocks, honest, picked, result>>

\* A transaction that is not valid now rejects the block where it stands.
RejectTransaction ==
  /\ pc = "transactions" /\ tx_index < block.size
  /\ \E tx \in Transactions : pre_valid(tx, block.rev) /\ ~includes(tx)
  /\ Ends("rejected")
  /\ UNCHANGED <<block, blocks, accounts, receipts, honest, picked>>

-----------------------------------------------------------------------------
post_block_index == block.size + 1

withdrawn == [a \in Addr |-> balance[a] + IF block.rev >= SHANGHAI THEN 1 ELSE 0]

\* The diffs after the last transaction: the withdrawals, made in place and
\* after the block-end calls before Amsterdam, and the block-end calls.
final_diffs ==
  (IF Amsterdam THEN <<<<post_block_index, "withdrawals">>>> ELSE <<>>)
  \o (IF block.rev >= PRAGUE THEN <<<<post_block_index, "requests">>>> ELSE <<>>)

\* All the logs of the receipts, in block order; the deposits are among them.
logs_of(rs) == FlattenSeq([i \in DOMAIN rs |-> rs[i].logs])

\* What the header is held against: the gas, the receipts' root, their logs'
\* bloom, the requests and the block-level access list.
expected ==
  [gas_used |-> IF Amsterdam THEN larger(sums.regular, sums.state) ELSE sums.cumulative,
   receipts |-> receipts,
   bloom |-> Range(logs_of(receipts)),
   requests |-> logs_of(receipts),
   bal |-> bal \o final_diffs]

\* Before Byzantium the receipts' root cannot be checked, the requests are
\* checked from Prague on and the access list from Amsterdam on.
checked ==
  {"gas_used", "bloom"} \cup (IF block.rev >= BYZANTIUM THEN {"receipts"} ELSE {})
    \cup (IF block.rev >= PRAGUE THEN {"requests"} ELSE {}) \cup (IF Amsterdam THEN {"bal"} ELSE {})

agrees(c, d) == \A f \in checked : c[f] = d[f]

\* The commitments to what evmone did, from its results alone.
SumOf(f) == LET sum[i \in 0..Len(ran)] == IF i = 0 THEN 0 ELSE sum[i - 1] + ran[i][f] IN sum
true_claim ==
  LET rs == [i \in DOMAIN ran |-> [gas |-> SumOf("used")[i], logs |-> ran[i].logs]] IN
  [gas_used |-> IF Amsterdam THEN larger(SumOf("regular")[Len(ran)], SumOf("state")[Len(ran)])
                ELSE SumOf("used")[Len(ran)],
   receipts |-> rs, bloom |-> Range(logs_of(rs)), requests |-> logs_of(rs),
   bal |-> applied \o final_diffs]

\* The claims a header may make: the true one, what the code expects, and one
\* that differs in a single commitment.
claims ==
  {true_claim, expected, [true_claim EXCEPT !.gas_used = @ + 1], [true_claim EXCEPT !.receipts = Append(@, NoReceipt)],
   [true_claim EXCEPT !.bloom = @ \cup {<<0, 0>>}], [true_claim EXCEPT !.requests = Append(@, <<0, 0>>)],
   [true_claim EXCEPT !.bal = Append(@, <<0, "start">>)]}

\* Before Amsterdam the withdrawals come after the check of the requests.
withdraws(c) == Amsterdam \/ "requests" \notin checked \/ c.requests = expected.requests

\* The end of the block, with every commitment of the header checked.
EndBlock ==
  /\ pc = "transactions" /\ tx_index = block.size
  /\ \E c \in claims :
       /\ balance' = IF withdraws(c) THEN withdrawn ELSE balance
       /\ Ends(IF agrees(c, expected) THEN "kOk" ELSE "mismatch")
       /\ honest' = agrees(c, true_claim)
  /\ UNCHANGED <<block, blocks, nonce, code, receipts, picked>>

\* The block-end calls fail, before the withdrawals up to Amsterdam, or the
\* access list is too long for the gas limit.
EndFails ==
  /\ pc = "transactions" /\ tx_index = block.size
  /\ block.rev >= PRAGUE
  /\ balance' = IF Amsterdam THEN withdrawn ELSE balance
  /\ Ends("failed")
  /\ UNCHANGED <<block, blocks, nonce, code, receipts, honest, picked>>

Next == RejectBody \/ Begin \/ ExecuteTransaction \/ RejectTransaction \/ EndBlock \/ EndFails

Spec == Init /\ [][Next]_vars

-----------------------------------------------------------------------------
\* The transactions of a block never use more gas than its limit, in either
\* dimension from Amsterdam on: no sum passes it, so that no difference to it
\* wraps, whatever mix of limits, floors and state gas the block holds.
GasWithinLimit ==
  pc # "idle" =>
    /\ ~Amsterdam => sums.cumulative <= block.gas_limit
    /\ Amsterdam => sums.regular <= block.gas_limit /\ sums.state <= block.gas_limit

\* What the two validations promise evmone: the gas left for the execution is
\* not negative, and the sender can pay for all the transaction may cost,
\* though the transactions before it may have moved the sender's balance.
CostsCovered ==
  /\ \A i \in DOMAIN ran : ran[i].exec >= 0
  /\ \A a \in Addr : balance[a] >= 0

\* A block that runs to its end is accepted exactly when its header commits to
\* what evmone did for this block: no receipt, log or gas of an earlier or a
\* rejected block is left among what the header is held against.
CommitmentsDecide == result \in {"kOk", "mismatch"} => (result = "kOk" <=> honest)
=============================================================================
