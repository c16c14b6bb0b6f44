--------------------------- MODULE TransactionRules ---------------------------
(***************************************************************************)
(* The rules a transaction must meet before its block is executed: the     *)
(* gas it owes whatever it does (protocol/intrinsic_gas.cpp) and the       *)
(* checks of protocol/validation.cpp that need no state.                   *)
(*                                                                         *)
(* A transaction is a record of what these rules read: its type, whether   *)
(* it creates a contract or pays its own sender, its value, the length of  *)
(* its data and how many bytes of it are not zero, the addresses and keys  *)
(* of its access list, its authorizations and blobs, its gas limit and     *)
(* fees. The signature, the chain id, the versions of blob hashes and the  *)
(* limits of 2^256 on the cost and 2^64 on the nonce are the field         *)
(* "formed".                                                               *)
(***************************************************************************)
EXTENDS Integers

CONSTANTS
  kMaxTxGasLimit,         \* 2^24 in the code
  MAX_TX_TOTAL_GAS_LIMIT  \* 2^32 - 1 in the code

\* evmc_revision, in its order.
SPURIOUS_DRAGON == 3
BYZANTIUM == 4
ISTANBUL == 7
BERLIN == 8
LONDON == 9
SHANGHAI == 11
CANCUN == 12
PRAGUE == 13
OSAKA == 14
AMSTERDAM == 15

larger(m, n) == IF m > n THEN m ELSE n
smaller(m, n) == IF m < n THEN m ELSE n
num_words(bytes) == (bytes + 31) \div 32

kGasPerBlob == 131072
kMaxBlobsPerTx == 6
kMaxInitCodeSize == 49152
MAX_INITCODE_SIZE_AMSTERDAM == 131072

-----------------------------------------------------------------------------
\* The intrinsic gas before Amsterdam; creation is dearer from Homestead on.
intrinsic_gas(tx, rev) ==
  21000
  + (IF tx.create /\ rev >= 1 THEN 32000 ELSE 0)
  + tx.addresses * 2400 + tx.keys * 1900
  + tx.auths * 25000
  + tx.non_zero * (IF rev >= ISTANBUL THEN 16 ELSE 68) + (tx.data - tx.non_zero) * 4
  + (IF tx.create /\ rev >= SHANGHAI THEN num_words(tx.data) * 2 ELSE 0)

floor_cost(tx) == 21000 + ((tx.data - tx.non_zero) + tx.non_zero * 4) * 10

access_list_tokens(tx) == tx.addresses * 80 + tx.keys * 128

\* What both Amsterdam costs start from: the sender, and the recipient.
base_regular(tx) ==
  12000 + CASE tx.create -> 12000
            [] ~tx.create /\ tx.self -> 0
            [] ~tx.create /\ ~tx.self -> 3000 + (IF tx.value # 0 THEN 6000 ELSE 0)

amsterdam_tx_gas_cost(tx) ==
  [regular |-> base_regular(tx)
               + (IF tx.create THEN num_words(tx.data) * 2 ELSE 0)
               + (4 * tx.non_zero + (tx.data - tx.non_zero)) * 4
               + tx.addresses * 2900 + tx.keys * 2000 + access_list_tokens(tx) * 16
               + tx.auths * 7816,
   floor |-> (tx.data * 4 + access_list_tokens(tx)) * 16 + base_regular(tx)]

\* The regular gas owed, by revision, and the least a transaction pays.
owed_gas(tx, rev) == IF rev >= AMSTERDAM THEN amsterdam_tx_gas_cost(tx).regular ELSE intrinsic_gas(tx, rev)

least_gas(tx, rev) ==
  CASE rev >= AMSTERDAM -> amsterdam_tx_gas_cost(tx).floor
    [] rev >= PRAGUE /\ rev < AMSTERDAM -> floor_cost(tx)
    [] rev < PRAGUE -> 0

total_blob_gas(tx) == kGasPerBlob * tx.blobs
maximum_gas_cost(tx) == tx.gas_limit * tx.max_fee + total_blob_gas(tx) * tx.max_blob_fee

\* Before London the one gas price is both the fee and the priority fee.
effective_gas_price(tx, base_fee) == base_fee + smaller(tx.priority, tx.max_fee - base_fee)

-----------------------------------------------------------------------------
transaction_type_is_supported(type, rev) ==
  rev >= CASE type = "legacy" -> 0
           [] type = "access_list" -> BERLIN
           [] type = "dynamic_fee" -> LONDON
           [] type = "blob" -> CANCUN
           [] type = "set_code" -> PRAGUE

\* The gas above the cap is for state only: the part below it must cover both costs.
under_cap(tx) ==
  larger(amsterdam_tx_gas_cost(tx).regular, amsterdam_tx_gas_cost(tx).floor) <= kMaxTxGasLimit

\* Mutant: the intrinsic gas of another revision's rules.
covers_owed_M1(tx, rev) == tx.gas_limit >= intrinsic_gas(tx, 0)

covers_owed(tx, rev) == tx.gas_limit >= owed_gas(tx, rev)

pre_validate_common_base(tx, rev) ==
  /\ transaction_type_is_supported(tx.type, rev)
  /\ rev >= AMSTERDAM => under_cap(tx)
  /\ covers_owed(tx, rev)

pre_validate_common_forks(tx, rev, blob_gas_price) ==
  /\ (rev >= SHANGHAI /\ tx.create) =>
       tx.data <= (IF rev >= AMSTERDAM THEN MAX_INITCODE_SIZE_AMSTERDAM ELSE kMaxInitCodeSize)
  /\ tx.type = "blob" => tx.blobs > 0 /\ tx.max_blob_fee >= blob_gas_price /\ ~tx.create
  /\ tx.type = "set_code" => tx.auths > 0 /\ ~tx.create
  /\ rev >= PRAGUE => tx.gas_limit >= least_gas(tx, rev)
  /\ (rev >= OSAKA /\ rev < AMSTERDAM) => tx.gas_limit <= kMaxTxGasLimit
  /\ rev >= AMSTERDAM => tx.gas_limit <= MAX_TX_TOTAL_GAS_LIMIT
  /\ rev >= OSAKA => tx.blobs <= kMaxBlobsPerTx

pre_validate_transaction(tx, rev, base_fee, blob_gas_price) ==
  /\ tx.formed
  /\ pre_validate_common_base(tx, rev)
  /\ rev >= LONDON => tx.max_fee >= base_fee /\ tx.priority <= tx.max_fee
  /\ pre_validate_common_forks(tx, rev, blob_gas_price)
=============================================================================
