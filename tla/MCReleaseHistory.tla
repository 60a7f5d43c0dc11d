------------------------- MODULE MCReleaseHistory --------------------------
(* Instances of ReleaseHistory for TLC.                                    *)
EXTENDS ReleaseHistory, TLC

Symmetry == Permutations(Runs) \cup Permutations(Commits)
=============================================================================
