----------------------------- MODULE MCReleaser -----------------------------
(* The releaser for TLC.                                                    *)
EXTENDS Releaser, TLC

Symmetry == Permutations(Ids)

=============================================================================
