---------------------------- MODULE MCAllocHook ----------------------------
(* Instances of AllocHook for TLC: threads, blocks and chunk structures are *)
(* interchangeable.                                                         *)
EXTENDS AllocHook

Symmetry ==
    Permutations(Threads) \cup Permutations(Blocks) \cup Permutations(Chunks)
=============================================================================
