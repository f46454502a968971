--------------------------- MODULE MCVirtualTime ---------------------------
(* Bounds for VirtualTime.                                                  *)
EXTENDS VirtualTime

MCDurations == {-1, 0, 1}       \* in the past, at once, later

=============================================================================
