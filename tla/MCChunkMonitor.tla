--------------------------- MODULE MCChunkMonitor ---------------------------
(* Instances of ChunkMonitor for TLC.                                       *)
EXTENDS ChunkMonitor, TLC

CONSTANTS t1, t2, s1, s2

\* Which thread touches which pages.
TouchesApart == [t \in Threads |-> IF t = t1 THEN {s1} ELSE Samples \ {s1}]
TouchesShared == [t \in Threads |-> Samples]
=============================================================================
