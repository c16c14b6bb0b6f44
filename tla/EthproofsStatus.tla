---------------------------- MODULE EthproofsStatus ----------------------------
(***************************************************************************)
(* What the service promises Ethproofs about a block: its posts go out in  *)
(* the order queued, proving, proved, each of them once, so the block's    *)
(* status only ever moves forward, one step at a time. It may stop at any  *)
(* of them (a fetch given up, a failed preflight or proof, the process     *)
(* ending).                                                                *)
(***************************************************************************)
EXTENDS Naturals

CONSTANT Blocks

VARIABLE status

Statuses == {"unseen", "queued", "proving", "proved"}

Follows == [queued |-> "unseen", proving |-> "queued", proved |-> "proving"]

Init == status = [b \in Blocks |-> "unseen"]

Post(b, s) ==
  /\ status[b] = Follows[s]
  /\ status' = [status EXCEPT ![b] = s]

Next == \E b \in Blocks, s \in DOMAIN Follows : Post(b, s)

Spec == Init /\ [][Next]_status

=============================================================================
