-------------------------- MODULE MCCentralFreeList --------------------------
(* Instances of CentralFreeList for TLC.                                    *)
EXTENDS CentralFreeList

\* A program that only gets memory of the default heap type, and one that
\* gets small objects of the other type as well.
ListsDefault == {<<0, 1>>, <<0, 2>>}
ListsRestrict == {<<0, 1>>, <<0, 2>>, <<1, 1>>}

\* The first class may get one slot more, the second has its slots.
CacheSizes == <<1, 2>>
MaxCacheSizes == <<2, 2>>

Symmetry == Permutations(Threads) \cup Permutations(Spans)
=============================================================================
