---------------------------- MODULE MCHypernode -----------------------------
(* The node for TLC: one transaction in a block, and no reorganisation, so   *)
(* that a block is told by its payment.                                      *)
EXTENDS Hypernode

CONSTANT r1

MCTxLists == {<<>>} \union {<<[pays |-> id]>> : id \in Ids}

=============================================================================
