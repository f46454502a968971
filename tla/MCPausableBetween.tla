-------------------------- MODULE MCPausableBetween --------------------------
(* Bounds for PausableBetween.                                              *)
EXTENDS PausableBetween, TLC

MCMinDuration == -8             \* durations of four bits
MCDelays == {1, 2}

Symmetry == Permutations(Entries)
=============================================================================
