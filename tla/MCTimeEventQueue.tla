-------------------------- MODULE MCTimeEventQueue --------------------------
(* Instances of TimeEventQueue for TLC: the threads are interchangeable.    *)
EXTENDS TimeEventQueue, TLC

Symmetry == Permutations(Threads) \cup Permutations(Privates)
=============================================================================
