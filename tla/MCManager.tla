------------------------------ MODULE MCManager ------------------------------
(* Two dispatchers, one of them with more than one timer.                   *)
EXTENDS Manager, TLC

CONSTANTS d1, d2, t1, t2, t3, t4, t5

MCDispatchers == {d1, d2}
MCTimers == {t1, t2, t3, t4, t5}
MCDispatcherOf == t1 :> d1 @@ t2 :> d1 @@ t3 :> d1 @@ t4 :> d2 @@ t5 :> d2

Symmetry == Permutations({t1, t2, t3}) \cup Permutations({t4, t5})
=============================================================================
