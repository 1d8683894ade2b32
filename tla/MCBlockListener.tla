-------------------------- MODULE MCBlockListener --------------------------
(* The block listener for TLC: two reservations, blocks with at most two    *)
(* transactions.                                                            *)
EXTENDS BlockListener, TLC

CONSTANTS r1, r2

Pay(id) == [pays |-> id]

\* Blocks with no payment, one, or one for each reservation.
MCTxLists == {<<>>} \union {<<Pay(id)>> : id \in Ids}
                    \union {<<Pay(i), Pay(j)>> : i, j \in Ids}

\* One payment per block, for the runs that need long chains.
MCSingleTxLists == {<<>>} \union {<<Pay(id)>> : id \in Ids}

Symmetry == Permutations(Ids)

=============================================================================
