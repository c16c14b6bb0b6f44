------------------------------ MODULE MCServices ------------------------------
(***************************************************************************)
(* Services, and the encoders of the guest's input with those who read it, *)
(* in one run: they share no state either, and a behaviour is one of one   *)
(* part, chosen at its start.                                              *)
(***************************************************************************)
EXTENDS Services

VARIABLES
  part,
  \* MphfMap
  encoder, solving, added, unique, collisions, seed_try, order, d, slot_owner, idx_for_key,
  spilled_this_try, best, slots, sidecar,
  \* FlatBundle
  stage, blocks, bundles, envelope, read, expected

MCConfigs ==
  [start_block : {0, 1}, end_block : {0, 3}, prove_every : {0, 2}, execute_every : {0, 1},
   save_all : {FALSE}, download_only : {FALSE}, ethproofs : {TRUE}]
  \cup
  [start_block : {1}, end_block : {3}, prove_every : {3}, execute_every : {0, 2},
   save_all : BOOLEAN, download_only : BOOLEAN, ethproofs : {FALSE}]

MCRequests == [force_rebuild : BOOLEAN, save : BOOLEAN, geth : BOOLEAN]

\* Two keys with the same short form, and no displacement but the first, so
\* that buckets that fit nowhere are common.
ShortKeys == [a |-> 1, b |-> 1, c |-> 2, d |-> 3]

Map == INSTANCE MphfMap
  WITH Keys <- DOMAIN ShortKeys, Key8 <- ShortKeys, Encoders <- {"cpp"}, kLambda <- 2,
       kMaxDisplacement <- 0, kMaxSeedRetries <- 2, MaxAdds <- 3, pc <- solving

\* Sizes below, at and above the alignment.
Bundle == INSTANCE FlatBundle
  WITH Align <- 2, HeaderSize <- 4, RecordSize <- 4, HashSize <- 2, BlockSizes <- {1, 2, 3},
       GenesisSizes <- {1, 2}, MaxBlocks <- 3, MaxHashes <- 2,
       pc <- stage, guest <- read, host <- expected

ASSUME ConstantsAssumption /\ Client!ConstantsAssumption
ASSUME Fetcher!ConstantsAssumption /\ Prover!ConstantsAssumption
ASSUME Map!ConstantsAssumption /\ Bundle!ConstantsAssumption

ethproofs == <<run, call, attempt, wait, outcome, flight, answer, storedBy, faults>>
fetcher == <<files, names, at, kind, req, id, got, out, attempts, excused, fetched, fetches, failures>>
prover == <<caller, calls, worker, spawned, thread, init, request, open, batch, reply, result, purpose>>
map == <<encoder, solving, added, unique, collisions, seed_try, order, d, slot_owner, idx_for_key,
         spilled_this_try, best, slots, sidecar>>
bundle == <<stage, blocks, bundles, envelope, read, expected>>

all_vars == <<part, vars, ethproofs, fetcher, prover, map, bundle>>

SumInit ==
  /\ part \in {"hypercube", "ethproofs", "fetcher", "prover", "map", "bundle"}
  /\ Init
  /\ part # "hypercube" => config = (CHOOSE c \in Configs : TRUE) /\ tip = 0
  /\ Client!Init
  /\ Fetcher!Init
  /\ part # "fetcher" =>
       /\ names["witness"] = Fetcher!NoFile
       /\ req["service"] = [force_rebuild |-> FALSE, save |-> FALSE, geth |-> FALSE]
  /\ Prover!Init
  /\ Map!Init
  /\ Bundle!Init
  /\ part # "bundle" => blocks = <<[size |-> 1, invalid |-> FALSE]>>

HypercubeNext ==
  /\ part = "hypercube" /\ Next
  /\ UNCHANGED <<part, ethproofs, fetcher, prover, map, bundle>>

EthproofsNext ==
  /\ part = "ethproofs" /\ Client!Next
  /\ UNCHANGED <<part, vars, fetcher, prover, map, bundle>>

FetcherNext ==
  /\ part = "fetcher" /\ Fetcher!Next
  /\ UNCHANGED <<part, vars, ethproofs, prover, map, bundle>>

ProverNext ==
  /\ part = "prover" /\ Prover!Next
  /\ UNCHANGED <<part, vars, ethproofs, fetcher, map, bundle>>

MapNext ==
  /\ part = "map" /\ Map!Next
  /\ UNCHANGED <<part, vars, ethproofs, fetcher, prover, bundle>>

BundleNext ==
  /\ part = "bundle" /\ Bundle!Next
  /\ UNCHANGED <<part, vars, ethproofs, fetcher, prover, map>>

SumNext ==
  \/ HypercubeNext \/ EthproofsNext \/ FetcherNext \/ ProverNext \/ MapNext
  \/ BundleNext

SumSpec == SumInit /\ [][SumNext]_all_vars

-----------------------------------------------------------------------------
\* The other parts' properties, stated where the parts are modelled.

\* The guest finds every key the map was built from.
EveryKeyFound == Map!EveryKeyFound

\* Guest and host read back the bundles that were written, and every block
\* of a fixture runs after the valid ones before it.
ReadAsWritten == Bundle!ReadAsWritten
=============================================================================
