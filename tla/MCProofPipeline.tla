-------------------------- MODULE MCProofPipeline --------------------------
(* The proof pipeline for TLC: two payments and the windows around them.     *)
EXTENDS ProofPipeline

MCPayments == [height : {1, 3}]
MCWindows == {[safe |-> 0, confirmation |-> 2], [safe |-> 2, confirmation |-> 4]}

=============================================================================
