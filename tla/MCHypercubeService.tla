-------------------------- MODULE MCHypercubeService --------------------------
EXTENDS HypercubeService

MCProving ==
  [start_block : {1}, end_block : {2}, prove_every : {1}, execute_every : {0},
   save_all : {FALSE}, download_only : {FALSE}, ethproofs : {TRUE}]
=============================================================================
