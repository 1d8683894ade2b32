-------------------------- MODULE MCEventListener --------------------------
(* The event listener for TLC.                                              *)
EXTENDS EventListener, TLC

Symmetry == Permutations(Ids)

=============================================================================
