------------------------- MODULE MCStateTransition -------------------------
(***************************************************************************)
(* Headers and states for StateTransition.                                 *)
(*                                                                         *)
(*   z <- g <- a <- b      the chain: states r0 (g), r1 (a), r2 (b)        *)
(*        g <- f           commits to what it makes of a's state, not g's  *)
(*        g <- c           commits to a state it does not lead to          *)
(*             a <- w      commits to what it makes of a state that is not *)
(*                         a's, r3: the records of a witness that leaves   *)
(*                         some of the state out                           *)
(***************************************************************************)
EXTENDS StateTransition

MCHash == {"z", "g", "a", "b", "c", "f", "w"}

MCRoot == {"r0", "r1", "r2", "r3"}

MCHeader ==
    LET H(parent, number, root, gas_used) ==
            [parent_hash |-> parent, number |-> number, state_root |-> root, gas_used |-> gas_used] IN
    [z |-> H("zero", 0, "r0", 0), g |-> H("z", 1, "r0", 0), a |-> H("g", 2, "r1", 1), b |-> H("a", 3, "r2", 2),
     c |-> H("g", 2, "r3", 1), f |-> H("g", 3, "r2", 2), w |-> H("a", 3, "r2", 1)]

MCExecutes ==
    [e \in MCRoot \X MCHash |->
        CASE e = <<"r0", "a">> -> "r1"
          [] e = <<"r0", "c">> -> "r2"
          [] e = <<"r1", "b">> -> "r2"
          [] e = <<"r1", "f">> -> "r2"
          [] e = <<"r3", "w">> -> "r2"
          [] e = <<"r3", "a">> -> "r2"
          [] OTHER -> "invalid"]

MCChainId == [mainnet |-> 1, sepolia |-> 2]

Bundle(blocks, genesis, ancestors, well_formed, engine, network, bound, records) ==
    [genesis |-> genesis, ancestors |-> ancestors, ancestors_well_formed |-> well_formed,
     engine_records |-> engine, blocks |-> blocks, network |-> network, bound |-> bound, records |-> records]

MCBlock == [hash: {"a", "b", "c", "f", "w"}, expect_invalid: BOOLEAN]

\* Every sequence of up to three blocks, on a whole witness, a partial one, one of another state.
ChainBundles ==
    {Bundle(blocks, "g", <<>>, TRUE, FALSE, "mainnet", witness[1], witness[2]) :
        blocks \in BoundedSeq(MCBlock, 3),
        witness \in {<<"r0", "r0">>, <<"r0", "r3">>, <<"r1", "r1">>, <<"noroot", "r0">>}}

\* One block or none, under every kind of witness header.
HeaderBundles ==
    {Bundle(blocks, genesis, ancestors, well_formed, engine, "sepolia", witness[1], witness[2]) :
        blocks \in BoundedSeq([hash: {"a", "b"}, expect_invalid: BOOLEAN], 1),
        genesis \in {"g", "a"},
        ancestors \in {<<"z", "g">>, <<"g", "a">>, <<"g", "z">>},
        well_formed \in BOOLEAN, engine \in BOOLEAN,
        witness \in {<<"r0", "r0">>, <<"r1", "r3">>}}

MCBundles == ChainBundles \union HeaderBundles
=============================================================================
