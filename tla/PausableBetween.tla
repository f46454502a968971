--------------------------- MODULE PausableBetween ---------------------------
(***************************************************************************)
(* pausable.Dispatcher over a virtualtime.Dispatcher when Pause and Resume *)
(* are called between two advances of the clock, never inside of one, as a *)
(* game pauses between two frames                                          *)
(* (src/docs/state-machine-best-practices.md:280-296).  Functions still    *)
(* call AfterFunc and Timer.Stop.  PausableVirtual has the client whose    *)
(* functions pause, too.                                                   *)
(***************************************************************************)
EXTENDS PausableVirtual

VARIABLE skipped        \* history: how far the base's clock has moved while paused

betweenVars == <<allVars, skipped>>

BetweenInit == VirtualInit /\ skipped = 0

(* Both clocks have counted the same for everything that waits.  They have  *)
(* not for what a function asked for in the middle of an advance; a Pause   *)
(* before it has run then goes by the caller's clock, which is what the     *)
(* test at src/task/pausable/dispatcher_test.go:390-409 wants.              *)
Agreed == halted \/ \A e \in tracked : elapsed[e] = baseElapsed[e]

MainToggles ==
    /\ MainActs
    /\ \E g \in Goroutines \ {Worker} : (Agreed /\ Pause(g)) \/ Resume(g)

BetweenNext ==
    \/ /\ BaseActs
       /\ skipped' = skipped + (IF paused THEN baseClock' - baseClock ELSE 0)
    \/ (WrapperActs \/ MainToggles) /\ UNCHANGED <<target, baseElapsed, skipped>>

BetweenSpec == BetweenInit /\ [][BetweenNext]_betweenVars

-----------------------------------------------------------------------------
(* The dispatcher is itself one with time, on a clock that stands still     *)
(* during pauses: functions run when their delays have elapsed on it, in    *)
(* that order, however often they were suspended, and an advance leaves     *)
(* nothing behind that is due (src/task/pausable/dispatcher.go:71-74,       *)
(* 98-99).  An advance during a pause is none.                              *)
unpausedClock == baseClock - skipped

UnpausedDue(e) ==
    IF Status(e) = "pending"
    THEN unpausedClock + (NotNegative(original[e]) - baseElapsed[e]) ELSE NoTime

unpausedTarget == IF paused \/ target = T!NoTarget THEN T!NoTarget ELSE target - skipped

U == INSTANCE TimedDispatcher WITH
        Timers <- Entries,
        Durations <- Delays,
        Targets <- Times,
        status <- [e \in Entries |-> Status(e)],
        clock <- unpausedClock,
        due <- [e \in Entries |-> UnpausedDue(e)],
        target <- unpausedTarget

KeepsUnpausedTime == U!Spec
=============================================================================
