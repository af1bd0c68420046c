------------------------ MODULE MCLocalityPredictor ------------------------
(* Instances of LocalityPredictor for TLC.                                  *)
EXTENDS LocalityPredictor, TLC

Symmetry == Permutations(Chunks) \cup Permutations(Threads)
=============================================================================
