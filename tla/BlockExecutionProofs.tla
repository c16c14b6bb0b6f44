------------------------- MODULE BlockExecutionProofs -------------------------
(***************************************************************************)
(* Theorems about BlockExecution, for any accounts, transactions, gas      *)
(* limits, fees and caps, and any number of blocks.                        *)
(***************************************************************************)
EXTENDS BlockExecution, TLAPS

\* What evmone returned for a transaction.
Outcome ==
  [used : Nat, regular : Nat, state : Nat, exec : Nat, ok : BOOLEAN, logs : Seq(Nat \X Nat)]

TypeOK ==
  /\ pc \in {"idle", "transactions"}
  /\ block \in [rev : 0..AMSTERDAM, gas_limit : Nat, size : Nat]
  /\ blocks \in Nat
  /\ nonce \in [Addr -> Nat]
  /\ balance \in [Addr -> Nat]
  /\ code \in [Addr -> {"none", "contract", "delegated"}]
  /\ sums \in [cumulative : Nat, regular : Nat, state : Nat]
  /\ tx_index \in Nat
  /\ ran \in Seq(Outcome)
  /\ picked \in 0..MaxTxns
  /\ honest \in BOOLEAN

Dimensions == {"used", "regular", "state"}

\* s sums the field f up along r. SumOf(f) is such a function, if there is one.
IsSum(s, r, f) == s = [i \in 0..Len(r) |-> IF i = 0 THEN 0 ELSE s[i - 1] + r[i][f]]

\* There is, and only one: true of the empty sequence, and of every longer one
\* by a step of the block.
SumInv ==
  \A f \in Dimensions :
    /\ \E s : IsSum(s, ran, f)
    /\ \A s, t : IsSum(s, ran, f) /\ IsSum(t, ran, f) => s = t

\* The block under way: the receipts written so far, and none of an earlier
\* block's among them, the sums and the access list are those of what evmone
\* returned for this block.
BlockInv ==
  /\ pc = "idle" => ran = <<>>
  /\ pc = "transactions" =>
       /\ tx_index = Len(ran) /\ tx_index <= block.size
       /\ receipts = [i \in 1..block.size |-> receipts[i]]
       /\ \A i \in 1..tx_index : receipts[i] = [gas |-> SumOf("used")[i], logs |-> ran[i].logs]
       /\ sums.cumulative = SumOf("used")[tx_index]
       /\ Amsterdam => /\ sums.regular = SumOf("regular")[tx_index]
                       /\ sums.state = SumOf("state")[tx_index]
                       /\ bal = applied
       /\ ~Amsterdam => sums.regular = 0 /\ sums.state = 0

IInv == TypeOK /\ SumInv /\ BlockInv /\ GasWithinLimit /\ CommitmentsDecide

-----------------------------------------------------------------------------
(* The gas rules. *)

LEMMA GasIsNat ==
  ASSUME NEW tx \in Transaction, tx.non_zero <= tx.data, NEW rev \in 0..AMSTERDAM
  PROVE  /\ owed_gas(tx, rev) \in Nat /\ least_gas(tx, rev) \in Nat
         /\ amsterdam_tx_gas_cost(tx).regular \in Nat /\ amsterdam_tx_gas_cost(tx).floor \in Nat
<1>1. /\ tx.data \in Nat /\ tx.non_zero \in Nat /\ tx.data - tx.non_zero \in Nat
      /\ tx.addresses \in Nat /\ tx.keys \in Nat /\ tx.auths \in Nat /\ tx.value \in Nat
      /\ tx.create \in BOOLEAN /\ tx.self \in BOOLEAN
  BY DEF Transaction
<1>2. \A m, n \in Nat : m * n \in Nat /\ m + n \in Nat
  OBVIOUS
<1>3. num_words(tx.data) \in Nat
  BY <1>1 DEF num_words
<1>4. base_regular(tx) \in Nat
  BY <1>1 DEF base_regular
<1>5. intrinsic_gas(tx, rev) \in Nat
  BY <1>1, <1>2, <1>3 DEF intrinsic_gas, ISTANBUL, SHANGHAI
<1>6. access_list_tokens(tx) \in Nat /\ floor_cost(tx) \in Nat
  BY <1>1, <1>2 DEF access_list_tokens, floor_cost
<1>7. amsterdam_tx_gas_cost(tx).regular \in Nat
  BY <1>1, <1>2, <1>3, <1>4, <1>6 DEF amsterdam_tx_gas_cost
<1>8. amsterdam_tx_gas_cost(tx).floor \in Nat
  BY <1>1, <1>2, <1>4, <1>6 DEF amsterdam_tx_gas_cost
<1> QED
  BY <1>5, <1>6, <1>7, <1>8 DEF owed_gas, least_gas, AMSTERDAM, PRAGUE

\* What a valid transaction can use.
LEMMA OutcomeFacts ==
  ASSUME ConstantsAssumption, TypeOK, NEW tx \in Transactions, pre_valid(tx, block.rev), NEW o \in outcomes(tx)
  PROVE  /\ o \in Outcome
         /\ o.used <= tx.gas_limit
         /\ Amsterdam => o.regular <= smaller(kMaxTxGasLimit, tx.gas_limit) /\ o.state <= tx.gas_limit
<1> DEFINE owed == owed_gas(tx, block.rev)
           least == least_gas(tx, block.rev)
           sg == state_gas_limit(tx)
           ex == execution_gas_limit(tx)
<1>1. /\ tx \in Transaction /\ tx.non_zero <= tx.data /\ tx.gas_limit \in Nat
      /\ block.rev \in 0..AMSTERDAM /\ kMaxTxGasLimit \in Nat
  BY Zenon DEF ConstantsAssumption, TypeOK, Transaction
<1>2. owed \in Nat /\ least \in Nat
  BY Zenon, <1>1, GasIsNat
<1>3. owed <= tx.gas_limit
  BY Zenon DEF pre_valid, pre_validate_transaction, pre_validate_common_base, covers_owed
<1>4. Amsterdam => owed <= kMaxTxGasLimit /\ least <= kMaxTxGasLimit
  <2> SUFFICES ASSUME Amsterdam PROVE owed <= kMaxTxGasLimit /\ least <= kMaxTxGasLimit
      BY Zenon
  <2>1. under_cap(tx) /\ owed = amsterdam_tx_gas_cost(tx).regular /\ least = amsterdam_tx_gas_cost(tx).floor
    BY <1>1 DEF Amsterdam, pre_valid, pre_validate_transaction, pre_validate_common_base, owed_gas, least_gas,
                AMSTERDAM, PRAGUE
  <2> QED
    BY <1>1, <1>2, <2>1 DEF under_cap, larger
<1>5. least <= tx.gas_limit
  <2>1. CASE block.rev >= PRAGUE
    BY Zenon, <2>1 DEF pre_valid, pre_validate_transaction, pre_validate_common_forks
  <2>2. CASE ~(block.rev >= PRAGUE)
    BY <1>1, <2>2 DEF least_gas, AMSTERDAM, PRAGUE
  <2> QED
    BY Zenon, <2>1, <2>2
<1>7. /\ sg = IF Amsterdam THEN larger(tx.gas_limit - kMaxTxGasLimit, 0) ELSE 0
      /\ ex = tx.gas_limit - owed - sg
  BY Zenon DEF state_gas_limit, execution_gas_limit
<1> HIDE DEF owed, least, sg, ex
<1>8. /\ sg \in Nat /\ ex \in Nat
      /\ owed + ex <= tx.gas_limit /\ sg + ex <= tx.gas_limit /\ owed + (sg + ex) <= tx.gas_limit
      /\ (owed + ex) + sg <= tx.gas_limit
      /\ Amsterdam => owed + ex <= smaller(kMaxTxGasLimit, tx.gas_limit) /\ owed <= smaller(kMaxTxGasLimit, tx.gas_limit)
  <2>1. CASE Amsterdam
    <3>1. sg = IF tx.gas_limit > kMaxTxGasLimit THEN tx.gas_limit - kMaxTxGasLimit ELSE 0
      BY <1>1, <1>7, <2>1 DEF larger
    <3>2. sg \in Nat /\ tx.gas_limit - sg = smaller(kMaxTxGasLimit, tx.gas_limit)
      BY <1>1, <3>1 DEF smaller
    <3>3. owed <= smaller(kMaxTxGasLimit, tx.gas_limit)
      BY Zenon, <1>1, <1>2, <1>3, <1>4, <2>1 DEF smaller
    <3>4. smaller(kMaxTxGasLimit, tx.gas_limit) \in Nat
      BY Zenon, <1>1 DEF smaller
    <3> QED
      BY <1>1, <1>2, <1>7, <3>2, <3>3, <3>4
  <2>2. CASE ~Amsterdam
    BY <1>1, <1>2, <1>3, <1>7, <2>2
  <2> QED
    BY Zenon, <2>1, <2>2
<1> DEFINE spent == {[regular |-> owed, state |-> 0], [regular |-> owed + ex, state |-> 0]}
                    \cup (IF Amsterdam THEN {[regular |-> owed, state |-> sg + ex],
                                             [regular |-> owed + ex, state |-> sg]} ELSE {})
<1>9. \E s \in spent, ok \in BOOLEAN :
        o = [used |-> larger(s.regular + s.state, least), regular |-> larger(s.regular, least), state |-> s.state,
             exec |-> ex, ok |-> ok, logs |-> IF ok THEN <<<<blocks, tx_index + 1>>>> ELSE <<>>]
  BY DEF outcomes, min_gas_cost, owed, least, sg, ex
<1>10. PICK s \in spent, ok \in BOOLEAN :
        o = [used |-> larger(s.regular + s.state, least), regular |-> larger(s.regular, least), state |-> s.state,
             exec |-> ex, ok |-> ok, logs |-> IF ok THEN <<<<blocks, tx_index + 1>>>> ELSE <<>>]
  BY Zenon, <1>9
<1>11. /\ s.regular \in Nat /\ s.state \in Nat /\ s.regular + s.state <= tx.gas_limit
       /\ s.state <= tx.gas_limit
       /\ Amsterdam => s.regular <= smaller(kMaxTxGasLimit, tx.gas_limit)
  <2>1. s \in {[regular |-> owed, state |-> 0], [regular |-> owed + ex, state |-> 0],
               [regular |-> owed, state |-> sg + ex], [regular |-> owed + ex, state |-> sg]}
    BY Zenon
  <2> QED
    BY <1>1, <1>2, <1>3, <1>8, <2>1
<1>12. o.logs \in Seq(Nat \X Nat)
  <2>1. <<blocks, tx_index + 1>> \in Nat \X Nat
    BY DEF TypeOK
  <2>2. <<<<blocks, tx_index + 1>>>> \in Seq(Nat \X Nat) /\ <<>> \in Seq(Nat \X Nat)
    BY <2>1
  <2>3. o.logs = IF ok THEN <<<<blocks, tx_index + 1>>>> ELSE <<>>
    BY Zenon, <1>10
  <2> QED
    BY Zenon, <2>2, <2>3
<1> HIDE DEF spent
<1>13. o \in Outcome
  BY <1>2, <1>8, <1>10, <1>11, <1>12 DEF Outcome, larger
<1>14. o.used <= tx.gas_limit
  BY Zenon, <1>1, <1>2, <1>5, <1>10, <1>11 DEF larger
<1>15. Amsterdam => o.regular <= smaller(kMaxTxGasLimit, tx.gas_limit) /\ o.state <= tx.gas_limit
  BY Zenon, <1>1, <1>2, <1>4, <1>5, <1>10, <1>11 DEF larger, smaller
<1> QED
  BY Zenon, <1>13, <1>14, <1>15

LEMMA ProductMonotone ==
  ASSUME NEW a \in Nat, NEW b \in Nat, NEW c \in Nat, NEW d \in Nat, a <= b, c <= d
  PROVE  a * c \in Nat /\ b * d \in Nat /\ a * c <= b * d
<1>1. a * c \in Nat /\ b * d \in Nat /\ b * c \in Nat
  OBVIOUS
<1>2. a * c <= b * c
  OBVIOUS
<1>3. b * c <= b * d
  OBVIOUS
<1> QED
  BY <1>1, <1>2, <1>3

\* What is charged is within what the two validations made the sender hold.
LEMMA FeeCovered ==
  ASSUME ConstantsAssumption, TypeOK, NEW tx \in Transactions, pre_valid(tx, block.rev), affordable(tx),
         NEW o \in Outcome, o.used <= tx.gas_limit
  PROVE  fee(tx, o) \in Nat /\ tx.value \in Nat /\ fee(tx, o) + tx.value <= balance[tx.sender]
<1> DEFINE price == IF block.rev >= LONDON THEN effective_gas_price(tx, BaseFee) ELSE tx.max_fee
           blob_gas == total_blob_gas(tx)
<1>1. /\ tx.gas_limit \in Nat /\ tx.max_fee \in Nat /\ tx.priority \in Nat /\ tx.max_blob_fee \in Nat
      /\ tx.blobs \in Nat /\ tx.value \in Nat /\ o.used \in Nat /\ BaseFee \in Nat /\ BlobGasPrice \in Nat
      /\ tx.sender \in Addr /\ (tx.type # "blob" => tx.blobs = 0)
  BY Zenon DEF ConstantsAssumption, Transaction, Outcome
<1>2. price \in Nat /\ price <= tx.max_fee
  <2>1. CASE block.rev >= LONDON
    <3>1. tx.max_fee >= BaseFee
      BY Zenon, <2>1 DEF pre_valid, pre_validate_transaction
    <3> QED
      BY <1>1, <2>1, <3>1 DEF effective_gas_price, smaller
  <2>2. CASE ~(block.rev >= LONDON)
    BY <1>1, <2>2
  <2> QED
    BY Zenon, <2>1, <2>2
<1>3. blob_gas \in Nat /\ (tx.blobs = 0 => blob_gas = 0)
  BY <1>1 DEF total_blob_gas, kGasPerBlob
<1>4. blob_gas * BlobGasPrice \in Nat /\ blob_gas * tx.max_blob_fee \in Nat
      /\ blob_gas * BlobGasPrice <= blob_gas * tx.max_blob_fee
  <2>1. CASE tx.type = "blob"
    <3>1. BlobGasPrice <= tx.max_blob_fee
      BY Zenon, <1>1, <2>1 DEF pre_valid, pre_validate_transaction, pre_validate_common_forks
    <3> HIDE DEF blob_gas
    <3> QED
      BY <1>1, <1>3, <3>1, ProductMonotone
  <2>2. CASE tx.type # "blob"
    <3>1. blob_gas = 0
      BY Zenon, <1>1, <1>3, <2>2
    <3> HIDE DEF blob_gas
    <3> QED
      BY <1>1, <3>1
  <2> QED
    BY Zenon, <2>1, <2>2
<1>5. o.used * price \in Nat /\ tx.gas_limit * tx.max_fee \in Nat /\ o.used * price <= tx.gas_limit * tx.max_fee
  <2> HIDE DEF price
  <2> QED
    BY Zenon, <1>1, <1>2, ProductMonotone
<1>6. fee(tx, o) = o.used * price + blob_gas * BlobGasPrice
  BY Zenon DEF fee
<1>7. balance[tx.sender] >= tx.gas_limit * tx.max_fee + blob_gas * tx.max_blob_fee + tx.value
  BY Zenon DEF affordable, maximum_gas_cost
<1>8. balance[tx.sender] \in Nat
  BY Zenon, <1>1 DEF TypeOK
<1> HIDE DEF price, blob_gas
<1> QED
  BY <1>1, <1>4, <1>5, <1>6, <1>7, <1>8

-----------------------------------------------------------------------------
(* Sums along what evmone returned. *)

LEMMA SumOfIsSum ==
  ASSUME NEW f, \E s : IsSum(s, ran, f)
  PROVE  IsSum(SumOf(f), ran, f)
  BY Zenon DEF SumOf, IsSum

LEMMA SumExtended ==
  ASSUME NEW r \in Seq(Outcome), NEW o \in Outcome, NEW f, NEW s, IsSum(s, r, f)
  PROVE  IsSum([i \in 0..Len(Append(r, o)) |-> IF i <= Len(r) THEN s[i] ELSE s[Len(r)] + o[f]], Append(r, o), f)
<1> DEFINE q == Append(r, o)
           t == [i \in 0..Len(q) |-> IF i <= Len(r) THEN s[i] ELSE s[Len(r)] + o[f]]
<1>1. Len(r) \in Nat /\ Len(q) = Len(r) + 1 /\ q[Len(r) + 1] = o /\ \A i \in 1..Len(r) : q[i] = r[i]
  OBVIOUS
<1>2. \A i \in 0..Len(r) : s[i] = IF i = 0 THEN 0 ELSE s[i - 1] + r[i][f]
  BY Zenon DEF IsSum
<1> HIDE DEF q
<1>3. ASSUME NEW i \in 0..Len(q) PROVE t[i] = IF i = 0 THEN 0 ELSE t[i - 1] + q[i][f]
  <2>1. CASE i = 0
    BY <1>1, <1>2, <2>1
  <2>2. CASE i \in 1..Len(r)
    <3>1. t[i] = s[i] /\ t[i - 1] = s[i - 1] /\ q[i] = r[i]
      BY <1>1, <2>2
    <3> QED
      BY <1>1, <1>2, <2>2, <3>1
  <2>3. CASE i = Len(r) + 1
    <3>1. t[i] = s[Len(r)] + o[f] /\ t[i - 1] = s[Len(r)] /\ q[i] = o
      BY <1>1, <2>3
    <3> QED
      BY <1>1, <2>3, <3>1
  <2> QED
    BY <1>1, <2>1, <2>2, <2>3
<1>4. t = [i \in 0..Len(q) |-> IF i = 0 THEN 0 ELSE t[i - 1] + q[i][f]]
  BY Zenon, <1>3
<1> QED
  BY Zenon, <1>4 DEF IsSum, q

LEMMA SumRestricted ==
  ASSUME NEW r \in Seq(Outcome), NEW o \in Outcome, NEW f, NEW t, IsSum(t, Append(r, o), f)
  PROVE  /\ IsSum([i \in 0..Len(r) |-> t[i]], r, f)
         /\ t = [i \in 0..(Len(r) + 1) |-> t[i]] /\ t[Len(r) + 1] = t[Len(r)] + o[f]
<1> DEFINE q == Append(r, o)
           s == [i \in 0..Len(r) |-> t[i]]
<1>1. Len(r) \in Nat /\ Len(q) = Len(r) + 1 /\ q[Len(r) + 1] = o /\ \A i \in 1..Len(r) : q[i] = r[i]
  OBVIOUS
<1>2. t = [i \in 0..Len(q) |-> IF i = 0 THEN 0 ELSE t[i - 1] + q[i][f]]
  BY Zenon DEF IsSum
<1> HIDE DEF q
<1>3. ASSUME NEW i \in 0..Len(r) PROVE s[i] = IF i = 0 THEN 0 ELSE s[i - 1] + r[i][f]
  <2>1. CASE i = 0
    BY <1>1, <1>2, <2>1
  <2>2. CASE i \in 1..Len(r)
    <3>1. s[i] = t[i] /\ s[i - 1] = t[i - 1] /\ q[i] = r[i] /\ i \in 0..Len(q)
      BY <1>1, <2>2
    <3> QED
      BY Zenon, <1>1, <1>2, <2>2, <3>1
  <2> QED
    BY <1>1, <2>1, <2>2
<1>4. s = [i \in 0..Len(r) |-> IF i = 0 THEN 0 ELSE s[i - 1] + r[i][f]]
  BY Zenon, <1>3
<1>5. t[Len(r) + 1] = t[Len(r)] + o[f]
  <2>1. Len(r) + 1 \in 0..Len(q) /\ Len(r) + 1 # 0 /\ (Len(r) + 1) - 1 = Len(r)
    BY <1>1
  <2>2. t[Len(r) + 1] = t[(Len(r) + 1) - 1] + q[Len(r) + 1][f]
    BY Zenon, <1>2, <2>1
  <2> QED
    BY Zenon, <1>1, <2>1, <2>2
<1>6. t = [i \in 0..Len(q) |-> t[i]]
  BY Zenon, <1>2
<1> QED
  BY Zenon, <1>1, <1>4, <1>5, <1>6 DEF IsSum

\* A transaction's outcome leaves the sums before it as they were.
LEMMA SumStep ==
  ASSUME SumInv, ran \in Seq(Outcome), NEW o \in Outcome, ran' = Append(ran, o)
  PROVE  /\ SumInv'
         /\ \A f \in Dimensions :
              /\ \A i \in 0..Len(ran) : SumOf(f)'[i] = SumOf(f)[i]
              /\ SumOf(f)'[Len(ran) + 1] = SumOf(f)[Len(ran)] + o[f]
<1> SUFFICES ASSUME NEW f \in Dimensions
             PROVE  /\ \E s : IsSum(s, ran', f)
                    /\ \A s, t : IsSum(s, ran', f) /\ IsSum(t, ran', f) => s = t
                    /\ \A i \in 0..Len(ran) : SumOf(f)'[i] = SumOf(f)[i]
                    /\ SumOf(f)'[Len(ran) + 1] = SumOf(f)[Len(ran)] + o[f]
    BY Zenon DEF SumInv
<1>1. IsSum(SumOf(f), ran, f)
  BY Zenon, SumOfIsSum DEF SumInv
<1>2. \E s : IsSum(s, ran', f)
  BY Zenon, <1>1, SumExtended
<1>3. ASSUME NEW t, IsSum(t, ran', f)
      PROVE  /\ [i \in 0..Len(ran) |-> t[i]] = SumOf(f)
             /\ t = [i \in 0..(Len(ran) + 1) |-> t[i]] /\ t[Len(ran) + 1] = t[Len(ran)] + o[f]
  <2>1. /\ IsSum([i \in 0..Len(ran) |-> t[i]], ran, f)
        /\ t = [i \in 0..(Len(ran) + 1) |-> t[i]] /\ t[Len(ran) + 1] = t[Len(ran)] + o[f]
    BY <1>3, SumRestricted
  <2> QED
    BY Zenon, <1>1, <2>1 DEF SumInv
<1>4. Len(ran) \in Nat
  OBVIOUS
<1>5. ASSUME NEW t, IsSum(t, ran', f)
      PROVE  /\ \A i \in 0..Len(ran) : t[i] = SumOf(f)[i]
             /\ t[Len(ran) + 1] = SumOf(f)[Len(ran)] + o[f]
             /\ t = [i \in 0..(Len(ran) + 1) |-> t[i]]
  <2> DEFINE u == SumOf(f)
  <2>1. [i \in 0..Len(ran) |-> t[i]] = u
    BY Zenon, <1>3, <1>5
  <2> HIDE DEF u
  <2>2. \A i \in 0..Len(ran) : t[i] = u[i]
    BY Zenon, <2>1
  <2>3. Len(ran) \in 0..Len(ran)
    BY <1>4
  <2> QED
    BY Zenon, <1>3, <1>5, <2>2, <2>3 DEF u
<1>6. \A s, t : IsSum(s, ran', f) /\ IsSum(t, ran', f) => s = t
  <2> SUFFICES ASSUME NEW s, NEW t, IsSum(s, ran', f), IsSum(t, ran', f) PROVE s = t
      BY Zenon
  <2>1. \A i \in 0..(Len(ran) + 1) : s[i] = t[i]
    BY <1>4, <1>5
  <2> QED
    BY <1>5, <2>1
<1>7. IsSum(SumOf(f)', ran', f)
  BY <1>2, Zenon DEF SumOf, IsSum
<1> QED
  BY Zenon, <1>2, <1>5, <1>6, <1>7

-----------------------------------------------------------------------------
(* The steps. *)

\* The gas a transaction may take fits into what the block has left.
LEMMA GasStep ==
  ASSUME ConstantsAssumption, IInv, pc = "transactions", NEW tx \in Transactions, includes(tx), NEW o \in Outcome,
         o.used <= tx.gas_limit,
         Amsterdam => o.regular <= smaller(kMaxTxGasLimit, tx.gas_limit) /\ o.state <= tx.gas_limit
  PROVE  /\ ~Amsterdam => sums.cumulative + o.used <= block.gas_limit
         /\ Amsterdam => sums.regular + o.regular <= block.gas_limit /\ sums.state + o.state <= block.gas_limit
<1>1. /\ sums.cumulative \in Nat /\ sums.regular \in Nat /\ sums.state \in Nat /\ block.gas_limit \in Nat
      /\ o.used \in Nat /\ o.regular \in Nat /\ o.state \in Nat /\ tx.gas_limit \in Nat /\ kMaxTxGasLimit \in Nat
  BY Zenon DEF IInv, TypeOK, Outcome, ConstantsAssumption, Transaction
<1>2. CASE ~Amsterdam
  <2>1. block.gas_limit - sums.cumulative >= tx.gas_limit
    BY Zenon, <1>2 DEF includes, validate_transaction, available_gas, IInv, BlockInv
  <2> QED
    BY <1>1, <1>2, <2>1
<1>3. CASE Amsterdam
  <2>1. /\ smaller(kMaxTxGasLimit, tx.gas_limit) <= block.gas_limit - sums.regular
        /\ tx.gas_limit <= block.gas_limit - sums.state
    BY Zenon, <1>3 DEF includes, dimensions_fit
  <2>2. smaller(kMaxTxGasLimit, tx.gas_limit) \in Nat
    BY Zenon, <1>1 DEF smaller
  <2> QED
    BY <1>1, <1>3, <2>1, <2>2
<1> QED
  BY Zenon, <1>2, <1>3

\* The accounts a transaction leaves.
LEMMA AccountsStep ==
  ASSUME ConstantsAssumption, TypeOK, NEW tx \in Transactions, pre_valid(tx, block.rev), includes(tx),
         NEW o \in Outcome, o.used <= tx.gas_limit, transition(tx, o)
  PROVE  nonce' \in [Addr -> Nat] /\ balance' \in [Addr -> Nat] /\ code' \in [Addr -> {"none", "contract", "delegated"}]
<1>1. fee(tx, o) \in Nat /\ tx.value \in Nat /\ fee(tx, o) + tx.value <= balance[tx.sender] /\ tx.sender \in Addr
  BY Zenon, FeeCovered DEF includes, validate_transaction, ConstantsAssumption, Transaction
<1>2. nonce' \in [Addr -> Nat] /\ code' \in [Addr -> {"none", "contract", "delegated"}]
  BY DEF transition, TypeOK
<1> DEFINE moved == IF o.ok /\ ~tx.self /\ ~tx.create THEN tx.value ELSE 0
           lost == IF o.ok THEN tx.value ELSE 0
<1>3. \E taken \in SUBSET Addr :
        balance' = [a \in Addr |->
                      IF a = tx.sender THEN balance[a] - fee(tx, o) - (IF tx.self THEN 0 ELSE lost)
                      ELSE IF a \in taken THEN 0 ELSE balance[a] + moved]
  BY Zenon DEF transition
<1>4. PICK taken \in SUBSET Addr :
        balance' = [a \in Addr |->
                      IF a = tx.sender THEN balance[a] - fee(tx, o) - (IF tx.self THEN 0 ELSE lost)
                      ELSE IF a \in taken THEN 0 ELSE balance[a] + moved]
  BY Zenon, <1>3
<1>5. moved \in Nat /\ lost \in Nat /\ lost <= tx.value
  BY <1>1
<1> HIDE DEF moved, lost
<1>6. ASSUME NEW a \in Addr PROVE balance'[a] \in Nat
  <2>1. balance[a] \in Nat
    BY Zenon DEF TypeOK
  <2>2. CASE a = tx.sender
    <3>1. balance'[a] = balance[a] - fee(tx, o) - (IF tx.self THEN 0 ELSE lost)
      BY Zenon, <1>4, <2>2
    <3> QED
      BY <1>1, <1>5, <2>1, <2>2, <3>1
  <2>3. CASE a # tx.sender
    BY <1>4, <1>5, <2>1, <2>3
  <2> QED
    BY Zenon, <2>2, <2>3
<1>7. balance' \in [Addr -> Nat]
  BY Zenon, <1>4, <1>6
<1> QED
  BY Zenon, <1>2, <1>7

\* What ExecuteTransaction makes of the outcome o.
Applies(tx, o) ==
  /\ sums' = [cumulative |-> sums.cumulative + o.used,
              regular |-> IF Amsterdam THEN sums.regular + o.regular ELSE 0,
              state |-> IF Amsterdam THEN sums.state + o.state ELSE 0]
  /\ receipts' = [receipts EXCEPT ![tx_index + 1] = receipt(@, sums.cumulative + o.used, o)]
  /\ transition(tx, o)
  /\ ran' = Append(ran, o)

LEMMA Overwritten ==
  ASSUME NEW S, NEW f, f = [i \in S |-> f[i]], NEW k \in S, NEW v, NEW g, g = [f EXCEPT ![k] = v]
  PROVE  g = [i \in S |-> g[i]] /\ g[k] = v /\ \A i \in S : i # k => g[i] = f[i]
  BY Zenon

LEMMA ExecuteStep ==
  ASSUME ConstantsAssumption, IInv, ExecuteTransaction
  PROVE  IInv'
<1>0. PICK tx \in Transactions :
        /\ pre_valid(tx, block.rev) /\ includes(tx)
        /\ \E o \in outcomes(tx) : Applies(tx, o)
  BY Zenon DEF ExecuteTransaction, Applies
<1>1. PICK o \in outcomes(tx) : Applies(tx, o)
  BY Zenon, <1>0
<1>a. /\ sums'.cumulative = sums.cumulative + o.used
      /\ sums'.regular = IF Amsterdam THEN sums.regular + o.regular ELSE 0
      /\ sums'.state = IF Amsterdam THEN sums.state + o.state ELSE 0
      /\ sums' = [cumulative |-> sums'.cumulative, regular |-> sums'.regular, state |-> sums'.state]
  BY Zenon, <1>1 DEF Applies
<1>b. /\ receipts' = [receipts EXCEPT ![tx_index + 1] = [gas |-> sums.cumulative + o.used, logs |-> o.logs]]
      /\ transition(tx, o) /\ ran' = Append(ran, o)
  BY Zenon, <1>1 DEF Applies, receipt
<1>2. /\ o \in Outcome /\ o.used <= tx.gas_limit
      /\ Amsterdam => o.regular <= smaller(kMaxTxGasLimit, tx.gas_limit) /\ o.state <= tx.gas_limit
  BY Zenon, <1>0, <1>1, OutcomeFacts DEF IInv
<1>3. /\ pc = "transactions" /\ tx_index < block.size /\ tx_index' = tx_index + 1
      /\ UNCHANGED <<pc, block, blocks, honest, picked, result>>
      /\ bal' = IF Amsterdam THEN Append(bal, <<tx_index + 1, "transaction">>) ELSE bal
      /\ applied' = Append(applied, <<tx_index + 1, "transaction">>)
  BY Zenon DEF ExecuteTransaction
<1>4. ran \in Seq(Outcome) /\ tx_index \in Nat /\ block.size \in Nat /\ tx_index = Len(ran) /\ Amsterdam' = Amsterdam
  BY Zenon, <1>3 DEF IInv, TypeOK, BlockInv, Amsterdam
<1>5. TypeOK'
  <2>1. sums' \in [cumulative : Nat, regular : Nat, state : Nat]
    <3>1. /\ sums.cumulative \in Nat /\ sums.regular \in Nat /\ sums.state \in Nat
          /\ o.used \in Nat /\ o.regular \in Nat /\ o.state \in Nat
      BY Zenon, <1>2 DEF IInv, TypeOK, Outcome
    <3>2. sums'.cumulative \in Nat /\ sums'.regular \in Nat /\ sums'.state \in Nat
      BY <1>a, <3>1
    <3> QED
      BY Zenon, <1>a, <3>2
  <2>2. nonce' \in [Addr -> Nat] /\ balance' \in [Addr -> Nat] /\ code' \in [Addr -> {"none", "contract", "delegated"}]
    BY Zenon, <1>0, <1>b, <1>2, AccountsStep DEF IInv
  <2>3. ran' \in Seq(Outcome)
    BY <1>b, <1>2, <1>4
  <2> QED
    <3>1. UNCHANGED <<pc, block, blocks, picked, honest>> /\ tx_index' \in Nat
      BY <1>3, <1>4
    <3> QED
      BY Zenon, <2>1, <2>2, <2>3, <3>1 DEF IInv, TypeOK
<1>6. GasWithinLimit'
  BY Zenon, <1>0, <1>a, <1>2, <1>3, <1>4, GasStep DEF GasWithinLimit
<1>7. CommitmentsDecide'
  BY Zenon, <1>3 DEF IInv, CommitmentsDecide
<1>8. /\ SumInv'
      /\ \A f \in Dimensions :
           /\ \A i \in 0..tx_index : SumOf(f)'[i] = SumOf(f)[i]
           /\ SumOf(f)'[tx_index + 1] = SumOf(f)[tx_index] + o[f]
  BY Zenon, <1>b, <1>2, <1>4, SumStep DEF IInv
<1>9. BlockInv'
  <2>1. ran'[tx_index + 1] = o /\ Len(ran') = tx_index + 1 /\ \A i \in 1..tx_index : ran'[i] = ran[i]
    BY <1>b, <1>2, <1>4
  <2>2. /\ SumOf("used")'[tx_index + 1] = SumOf("used")[tx_index] + o.used
        /\ SumOf("regular")'[tx_index + 1] = SumOf("regular")[tx_index] + o.regular
        /\ SumOf("state")'[tx_index + 1] = SumOf("state")[tx_index] + o.state
        /\ \A i \in 1..tx_index : SumOf("used")'[i] = SumOf("used")[i]
    BY <1>4, <1>8 DEF Dimensions
  <2>3. /\ receipts' = [i \in 1..block.size |-> receipts'[i]]
        /\ receipts'[tx_index + 1] = [gas |-> sums.cumulative + o.used, logs |-> o.logs]
        /\ \A i \in 1..tx_index : receipts'[i] = receipts[i]
    <3>1. receipts = [i \in 1..block.size |-> receipts[i]] /\ tx_index + 1 \in 1..block.size
      BY <1>3, <1>4 DEF IInv, BlockInv
    <3>2. /\ receipts' = [i \in 1..block.size |-> receipts'[i]]
          /\ receipts'[tx_index + 1] = [gas |-> sums.cumulative + o.used, logs |-> o.logs]
          /\ \A i \in 1..block.size : i # tx_index + 1 => receipts'[i] = receipts[i]
      BY Zenon, <1>b, <3>1, Overwritten
    <3>3. \A i \in 1..tx_index : i \in 1..block.size /\ i # tx_index + 1
      BY <1>4, <3>1
    <3>4. \A i \in 1..tx_index : receipts'[i] = receipts[i]
      BY Zenon, <3>2, <3>3
    <3> QED
      BY Zenon, <3>2, <3>4
  <2>4. \A i \in 1..tx_index' : receipts'[i] = [gas |-> SumOf("used")'[i], logs |-> ran'[i].logs]
    <3> SUFFICES ASSUME NEW i \in 1..(tx_index + 1)
                 PROVE  receipts'[i] = [gas |-> SumOf("used")'[i], logs |-> ran'[i].logs]
        BY Zenon, <1>3
    <3>1. CASE i \in 1..tx_index
      BY Zenon, <1>3, <2>1, <2>2, <2>3, <3>1 DEF IInv, BlockInv
    <3>2. CASE i = tx_index + 1
      BY Zenon, <1>3, <2>1, <2>2, <2>3, <3>2 DEF IInv, BlockInv
    <3> QED
      BY <1>4, <3>1, <3>2
  <2>5. /\ sums'.cumulative = SumOf("used")'[tx_index']
        /\ Amsterdam => sums'.regular = SumOf("regular")'[tx_index'] /\ sums'.state = SumOf("state")'[tx_index']
        /\ ~Amsterdam => sums'.regular = 0 /\ sums'.state = 0
    BY Zenon, <1>a, <1>3, <2>2 DEF IInv, BlockInv
  <2>6. Amsterdam => bal' = applied'
    BY Zenon, <1>3 DEF IInv, BlockInv
  <2> QED
    BY <1>3, <1>4, <2>1, <2>3, <2>4, <2>5, <2>6 DEF BlockInv
<1> QED
  BY Zenon, <1>5, <1>6, <1>7, <1>8, <1>9 DEF IInv

LEMMA NoOutcome == <<>> \in Seq(Outcome)
  OBVIOUS

\* Of no outcome there is one sum.
LEMMA NoSum == ASSUME NEW f, NEW s, NEW r, r = <<>> PROVE IsSum(s, r, f) <=> s = [i \in {0} |-> 0]
<1>1. 0..Len(r) = {0}
  OBVIOUS
<1> QED
  BY Zenon, <1>1 DEF IsSum

LEMMA EmptyBlock ==
  ASSUME ran' = <<>>
  PROVE  SumInv' /\ \A f \in Dimensions : SumOf(f)'[0] = 0
<1>1. SumInv'
  <2>1. ASSUME NEW f \in Dimensions
        PROVE  /\ \E s : IsSum(s, ran', f)
               /\ \A s, t : IsSum(s, ran', f) /\ IsSum(t, ran', f) => s = t
    <3>1. \A s : IsSum(s, ran', f) <=> s = [i \in {0} |-> 0]
      BY Zenon, NoSum
    <3>2. \E s : IsSum(s, ran', f)
      BY Zenon, <3>1
    <3>3. ASSUME NEW s, NEW t, IsSum(s, ran', f), IsSum(t, ran', f) PROVE s = t
      BY <3>1, <3>3
    <3> QED
      BY Zenon, <3>2, <3>3
  <2> QED
    BY Zenon, <2>1 DEF SumInv
<1>2. ASSUME NEW f \in Dimensions PROVE SumOf(f)'[0] = 0
  <2>1. \E s : IsSum(s, ran', f)
    BY Zenon, NoSum
  <2>2. IsSum(SumOf(f)', ran', f)
    BY <2>1, Zenon DEF SumOf, IsSum
  <2> QED
    BY Zenon, <2>2, NoSum
<1> QED
  BY Zenon, <1>1, <1>2

\* A block that ends, in any way: the processor is gone.
LEMMA EndStep ==
  ASSUME ConstantsAssumption, IInv, NEW r, Ends(r), UNCHANGED <<block, blocks, nonce, code, receipts, picked>>,
         balance' \in [Addr -> Nat], honest' \in BOOLEAN,
         r \in {"kOk", "mismatch"} => (r = "kOk" <=> honest')
  PROVE  IInv'
<1>1. /\ pc' = "idle" /\ result' = r /\ tx_index' = 0 /\ ran' = <<>>
      /\ sums' \in [cumulative : Nat, regular : Nat, state : Nat]
  BY Zenon DEF Ends, NoGas
<1>2. TypeOK'
  BY <1>1 DEF IInv, TypeOK
<1>3. SumInv'
  BY Zenon, <1>1, EmptyBlock
<1>4. BlockInv' /\ GasWithinLimit' /\ CommitmentsDecide'
  BY Zenon, <1>1 DEF BlockInv, GasWithinLimit, CommitmentsDecide
<1> QED
  BY Zenon, <1>2, <1>3, <1>4 DEF IInv

LEMMA BeginStep ==
  ASSUME ConstantsAssumption, IInv, Begin
  PROVE  IInv'
<1>1. PICK rev \in Revisions, limit \in GasLimits, n \in 0..(MaxTxns - picked) :
        /\ block' = [rev |-> rev, gas_limit |-> limit, size |-> n]
        /\ receipts' = resized(n)
        /\ picked' = picked + n
        /\ bal' = IF rev >= AMSTERDAM THEN <<<<0, "start">>>> ELSE <<>>
  BY Zenon DEF Begin
<1>2. /\ applied' = <<<<0, "start">>>> /\ blocks' = blocks + 1 /\ tx_index' = 0 /\ ran' = <<>>
      /\ sums' = NoGas /\ pc' = "transactions" /\ result' = "none" /\ honest' = FALSE
      /\ UNCHANGED <<nonce, balance, code>>
  BY Zenon DEF Begin, accounts
<1>3. /\ rev \in 0..AMSTERDAM /\ limit \in Nat /\ n \in Nat /\ picked' \in 0..MaxTxns
      /\ block' \in [rev : 0..AMSTERDAM, gas_limit : Nat, size : Nat]
      /\ block'.rev = rev /\ block'.gas_limit = limit /\ block'.size = n
  BY <1>1 DEF IInv, TypeOK, ConstantsAssumption
<1>4. /\ sums' \in [cumulative : Nat, regular : Nat, state : Nat]
      /\ sums'.cumulative = 0 /\ sums'.regular = 0 /\ sums'.state = 0
  BY Zenon, <1>2 DEF NoGas
<1>5. TypeOK'
  <2>1. blocks' \in Nat /\ tx_index' \in Nat /\ ran' \in Seq(Outcome) /\ honest' \in BOOLEAN
    <3>1. blocks' \in Nat
      BY <1>2 DEF IInv, TypeOK
    <3>2. ran' \in Seq(Outcome)
      BY Zenon, <1>2, NoOutcome
    <3> QED
      BY Zenon, <1>2, <3>1, <3>2
  <2>2. nonce' \in [Addr -> Nat] /\ balance' \in [Addr -> Nat] /\ code' \in [Addr -> {"none", "contract", "delegated"}]
    BY Zenon, <1>2 DEF IInv, TypeOK
  <2> QED
    BY Zenon, <1>2, <1>3, <1>4, <2>1, <2>2 DEF TypeOK
<1>6. SumInv' /\ SumOf("used")'[0] = 0 /\ SumOf("regular")'[0] = 0 /\ SumOf("state")'[0] = 0
  BY Zenon, <1>2, EmptyBlock DEF Dimensions
<1>7. GasWithinLimit' /\ CommitmentsDecide'
  BY <1>2, <1>3, <1>4 DEF GasWithinLimit, CommitmentsDecide
<1>8. BlockInv'
  <2>1. receipts' = [i \in 1..block'.size |-> receipts'[i]]
    BY Zenon, <1>1, <1>3 DEF resized
  <2>2. Amsterdam' => bal' = applied'
    BY Zenon, <1>1, <1>2, <1>3 DEF Amsterdam
  <2>3. Len(ran') = 0 /\ 1..tx_index' = {} /\ tx_index' <= block'.size /\ tx_index' = 0
    BY <1>2, <1>3
  <2> QED
    BY Zenon, <1>2, <1>4, <1>6, <2>1, <2>2, <2>3 DEF BlockInv
<1> QED
  BY Zenon, <1>5, <1>6, <1>7, <1>8 DEF IInv

\* At the end of the block, what the header is held against is what evmone did.
LEMMA ExpectedIsTrue ==
  ASSUME IInv, pc = "transactions", tx_index = block.size, NEW c
  PROVE  agrees(c, expected) <=> agrees(c, true_claim)
<1> DEFINE rs == [i \in DOMAIN ran |-> [gas |-> SumOf("used")[i], logs |-> ran[i].logs]]
<1>1. ran \in Seq(Outcome) /\ tx_index = Len(ran) /\ DOMAIN ran = 1..block.size
  BY DEF IInv, TypeOK, BlockInv
<1>2. receipts = rs
  BY Zenon, <1>1 DEF IInv, BlockInv
<1> HIDE DEF rs
<1>3. /\ expected.receipts = true_claim.receipts /\ expected.bloom = true_claim.bloom
      /\ expected.requests = true_claim.requests
  BY Zenon, <1>2 DEF expected, true_claim, rs
<1>4. expected.gas_used = true_claim.gas_used
  BY Zenon, <1>1 DEF expected, true_claim, IInv, BlockInv
<1>5. Amsterdam => expected.bal = true_claim.bal
  BY Zenon DEF expected, true_claim, IInv, BlockInv
<1>6. \A f \in checked : expected[f] = true_claim[f]
  BY Zenon, <1>3, <1>4, <1>5 DEF checked
<1> QED
  BY Zenon, <1>6 DEF agrees

LEMMA EndBlockStep ==
  ASSUME ConstantsAssumption, IInv, EndBlock
  PROVE  IInv'
<1>1. PICK c \in claims :
        /\ balance' = IF withdraws(c) THEN withdrawn ELSE balance
        /\ Ends(IF agrees(c, expected) THEN "kOk" ELSE "mismatch")
        /\ honest' = agrees(c, true_claim)
  BY Zenon DEF EndBlock
<1>2. agrees(c, expected) <=> agrees(c, true_claim)
  BY Zenon, ExpectedIsTrue DEF EndBlock
<1>3. balance' \in [Addr -> Nat]
  <2>1. withdrawn \in [Addr -> Nat]
    BY DEF withdrawn, IInv, TypeOK
  <2> QED
    BY Zenon, <1>1, <2>1 DEF IInv, TypeOK
<1>4. honest' \in BOOLEAN
  BY Zenon, <1>1 DEF agrees
<1>5. UNCHANGED <<block, blocks, nonce, code, receipts, picked>>
  BY Zenon DEF EndBlock
<1>6. CASE agrees(c, expected)
  BY Zenon, <1>1, <1>2, <1>3, <1>4, <1>5, <1>6, EndStep
<1>7. CASE ~agrees(c, expected)
  BY Zenon, <1>1, <1>2, <1>3, <1>4, <1>5, <1>7, EndStep
<1> QED
  BY Zenon, <1>6, <1>7

LEMMA EndFailsStep ==
  ASSUME ConstantsAssumption, IInv, EndFails
  PROVE  IInv'
<1>1. balance' \in [Addr -> Nat]
  <2>1. withdrawn \in [Addr -> Nat]
    BY DEF withdrawn, IInv, TypeOK
  <2> QED
    BY Zenon, <2>1 DEF EndFails, IInv, TypeOK
<1>2. honest' \in BOOLEAN /\ Ends("failed") /\ UNCHANGED <<block, blocks, nonce, code, receipts, picked>>
  BY Zenon DEF EndFails, IInv, TypeOK
<1> QED
  BY Zenon, <1>1, <1>2, EndStep

\* A rejection leaves the state and the receipts as they are.
LEMMA RejectSteps ==
  ASSUME ConstantsAssumption, IInv, RejectBody \/ RejectTransaction
  PROVE  IInv'
<1>1. CASE RejectBody
  <2>1. /\ blocks' = blocks + 1 /\ result' = "rejected"
        /\ UNCHANGED <<pc, block, nonce, balance, code, receipts, sums, tx_index, bal, ran, applied, honest, picked>>
    BY Zenon, <1>1 DEF RejectBody, accounts, processor
  <2>2. TypeOK'
    BY <2>1 DEF IInv, TypeOK
  <2>3. SumInv'
    BY Zenon, <2>1 DEF IInv, SumInv
  <2>4. BlockInv'
    BY Zenon, <1>1, <2>1 DEF IInv, BlockInv, RejectBody
  <2>5. GasWithinLimit' /\ CommitmentsDecide'
    BY Zenon, <1>1, <2>1 DEF IInv, GasWithinLimit, CommitmentsDecide, RejectBody
  <2> QED
    BY Zenon, <2>2, <2>3, <2>4, <2>5 DEF IInv
<1>2. CASE RejectTransaction
  <2>1. Ends("rejected") /\ UNCHANGED <<block, blocks, nonce, balance, code, receipts, honest, picked>>
    BY Zenon, <1>2 DEF RejectTransaction, accounts
  <2>2. balance' \in [Addr -> Nat] /\ honest' \in BOOLEAN
    BY Zenon, <2>1 DEF IInv, TypeOK
  <2> QED
    BY Zenon, <2>1, <2>2, EndStep
<1> QED
  BY Zenon, <1>1, <1>2

-----------------------------------------------------------------------------
LEMMA InitIInv == ASSUME ConstantsAssumption, Init PROVE IInv
<1>1. PICK start \in Accounts : balance = start.balance /\ code = start.code
  BY Zenon DEF Init
<1>2. balance \in [Addr -> Nat] /\ code \in [Addr -> {"none", "contract", "delegated"}]
  BY Zenon, <1>1 DEF ConstantsAssumption
<1>3. TypeOK
  <2>1. /\ pc = "idle" /\ blocks = 0 /\ block = [rev |-> 0, gas_limit |-> 0, size |-> 0] /\ nonce = [a \in Addr |-> 0]
        /\ picked = 0 /\ honest = FALSE /\ sums = NoGas /\ tx_index = 0 /\ ran = <<>>
    BY Zenon DEF Init
  <2>2. block \in [rev : 0..AMSTERDAM, gas_limit : Nat, size : Nat]
    BY <2>1 DEF AMSTERDAM
  <2> QED
    <3>1. sums \in [cumulative : Nat, regular : Nat, state : Nat] /\ picked \in 0..MaxTxns
      BY <2>1 DEF NoGas, ConstantsAssumption
    <3>2. ran \in Seq(Outcome)
      BY Zenon, <2>1, NoOutcome
    <3> QED
      BY Zenon, <1>2, <2>1, <2>2, <3>1, <3>2 DEF TypeOK
<1>4. SumInv
  <2>1. ASSUME NEW f \in Dimensions
        PROVE  \A s : IsSum(s, ran, f) <=> s = [i \in {0} |-> 0]
    BY Zenon, NoSum DEF Init
  <2>2. ASSUME NEW f \in Dimensions
        PROVE  \E s : IsSum(s, ran, f)
    BY Zenon, <2>1
  <2>3. ASSUME NEW f \in Dimensions, NEW s, NEW t, IsSum(s, ran, f), IsSum(t, ran, f) PROVE s = t
    BY <2>1, <2>3
  <2> QED
    BY Zenon, <2>2, <2>3 DEF SumInv
<1> QED
  BY Zenon, <1>3, <1>4 DEF IInv, Init, BlockInv, GasWithinLimit, CommitmentsDecide

LEMMA NextIInv == ASSUME ConstantsAssumption, IInv, [Next]_vars PROVE IInv'
<1>1. CASE Next
  BY Zenon, <1>1, RejectSteps, BeginStep, ExecuteStep, EndBlockStep, EndFailsStep DEF Next
<1>2. CASE UNCHANGED vars
  <2>1. UNCHANGED <<pc, block, blocks, nonce, balance, code, receipts, sums, tx_index, bal, ran, applied, honest,
                    picked, result>>
    BY Zenon, <1>2 DEF vars, accounts, processor
  <2>2. TypeOK' /\ SumInv'
    BY Zenon, <2>1 DEF IInv, TypeOK, SumInv
  <2>3. Amsterdam' = Amsterdam /\ \A f : SumOf(f)' = SumOf(f)
    BY Zenon, <2>1 DEF Amsterdam, SumOf
  <2>4. BlockInv'
    BY Zenon, <2>1, <2>3 DEF IInv, BlockInv
  <2>5. GasWithinLimit' /\ CommitmentsDecide'
    BY Zenon, <2>1, <2>3 DEF IInv, GasWithinLimit, CommitmentsDecide
  <2> QED
    BY Zenon, <2>2, <2>4, <2>5 DEF IInv
<1> QED
  BY Zenon, <1>1, <1>2

\* What holds of every state: the types, the sums, and the block under way.
THEOREM Invariance == ConstantsAssumption => (Spec => []IInv)
<1> SUFFICES ASSUME ConstantsAssumption PROVE Spec => []IInv
    BY Zenon
<1>1. Init => IInv
  BY Zenon, InitIInv
<1>2. IInv /\ [Next]_vars => IInv'
  BY Zenon, NextIInv
<1> QED
  BY <1>1, <1>2, PTL DEF Spec

\* The transactions of a block never use more than its gas limit, in either dimension.
THEOREM GasBounded == ConstantsAssumption => (Spec => []GasWithinLimit)
<1>1. IInv => GasWithinLimit
  BY Zenon DEF IInv
<1> QED
  BY <1>1, Invariance, PTL

\* No transaction runs with a negative gas limit, and no balance falls below
\* zero: what validate_transaction checked covers what evmone may take.
THEOREM SendersPay == ConstantsAssumption => (Spec => []CostsCovered)
<1>1. IInv => CostsCovered
  <2> SUFFICES ASSUME IInv PROVE CostsCovered
      BY Zenon
  <2>1. \A i \in DOMAIN ran : ran[i].exec >= 0
    <3>1. ASSUME NEW i \in DOMAIN ran PROVE ran[i] \in Outcome
      BY DEF IInv, TypeOK
    <3> QED
      BY <3>1 DEF Outcome
  <2>2. \A a \in Addr : balance[a] >= 0
    BY DEF IInv, TypeOK
  <2> QED
    BY Zenon, <2>1, <2>2 DEF CostsCovered
<1> QED
  BY <1>1, Invariance, PTL

\* A block that runs to its end is accepted exactly when its header commits to
\* what evmone did for it.
THEOREM HeaderDecides == ConstantsAssumption => (Spec => []CommitmentsDecide)
<1>1. IInv => CommitmentsDecide
  BY Zenon DEF IInv
<1> QED
  BY <1>1, Invariance, PTL
=============================================================================
