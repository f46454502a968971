-------------------------- MODULE MCPausableVirtual --------------------------
(* Bounds for PausableVirtual.                                              *)
EXTENDS PausableVirtual, TLC

MCMinDuration == -8             \* durations of four bits
MCDelays == {1, 3}
MCConformanceDelays == {-1, 1, 2}

Symmetry == Permutations(Entries)
=============================================================================
