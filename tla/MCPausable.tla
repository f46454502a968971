----------------------------- MODULE MCPausable -----------------------------
(* Bounds for Pausable.                                                     *)
EXTENDS Pausable, TLC

MCMinDuration == -8             \* durations of four bits
MCDelays == {-1, 2}
MCShortDelays == {-1, 1}
MCExtremeDelays == {MCMinDuration, 1}

Symmetry == Permutations(Entries)
=============================================================================
