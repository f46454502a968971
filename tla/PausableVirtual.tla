--------------------------- MODULE PausableVirtual ---------------------------
(***************************************************************************)
(* pausable.Dispatcher over a virtualtime.Dispatcher, as the helper of     *)
(* src/task/pausable/dispatcher_test.go and the documentation combine the  *)
(* two: now() reads the clock of the caller, who sets it to a time before  *)
(* it fast-forwards the base to that time.  The base is TimedDispatcher,   *)
(* which VirtualTime implements, so that the two clocks differ while its   *)
(* functions run: the caller's is at the target, the base's still at the   *)
(* time of the function.                                                   *)
(*                                                                         *)
(* One goroutine, not the Worker, advances the clock and calls methods in  *)
(* between; the Worker stands for it inside of the functions.              *)
(***************************************************************************)
EXTENDS Pausable

VARIABLES
    target,             \* of the FastForward in progress, see TimedDispatcher
    baseElapsed         \* history: the part of elapsed that passed on the base's clock

T == INSTANCE TimedDispatcher WITH
        Timers <- BaseTimers,
        Durations <- Delays,
        Targets <- Times,
        answers <- [t \in BaseTimers |-> {}],
        clock <- baseClock,
        due <- at

allVars == <<vars, target, baseElapsed>>

VirtualInit ==
    /\ Init
    /\ target = T!NoTarget
    /\ baseElapsed = [e \in Entries |-> NoTime]

(* What passes on one of the clocks counts for the entries that wait. *)
Pass(counter, duration) ==
    [e \in Entries |-> IF Waiting(e) /\ ~paused THEN counter[e] + duration ELSE counter[e]]

MainActs == target = T!NoTarget /\ \A g \in Goroutines \ {Worker} : pc[g] = "idle"

(* The helper's AdvanceTo: first the clock, then FastForward. *)
AdvanceTo(to) ==
    /\ MainActs
    /\ to >= clock
    /\ clock' = to
    /\ elapsed' = Pass(elapsed, to - clock)
    /\ T!AdvanceTo(to)
    /\ UNCHANGED <<paused, tracked, entries, threads, entered, handles, answers, original,
                   baseElapsed>>

BaseRuns(t) ==
    /\ T!Start(t)
    /\ Forget(t[1])
    /\ baseElapsed' = [Pass(baseElapsed, at[t] - baseClock) EXCEPT ![t[1]] = NoTime]
    /\ UNCHANGED <<clock, paused, tracked, entries, threads, entered, handles, answers>>

FastForwardReturns ==
    /\ T!Advanced \/ T!Failed
    /\ baseElapsed' = Pass(baseElapsed, baseClock' - baseClock)
    /\ UNCHANGED <<clock, paused, tracked, entries, threads, entered, history>>

(* The steps of Pausable, its methods called when main or a function acts.  *)
WrapperActs ==
    \/ \E t \in BaseTimers : Callback(t) \/ CallbackEnds(t)
    \/ \E g \in Goroutines :
         \/ Continue(g)
         \/ /\ g = Worker \/ MainActs
            /\ \E e \in Entries :
                 \/ \E d \in Delays : AfterFunc(g, e, d)
                 \/ StopFound(g, e) \/ StopNotFound(g, e)

Toggles == \E g \in Goroutines : (g = Worker \/ MainActs) /\ (Pause(g) \/ Resume(g))

BaseActs ==
    \/ \E to \in Times : AdvanceTo(to)
    \/ \E t \in BaseTimers : BaseRuns(t)
    \/ FastForwardReturns

VirtualNext ==
    \/ BaseActs
    \/ (WrapperActs \/ Toggles) /\ UNCHANGED <<target, baseElapsed>>

VirtualSpec == VirtualInit /\ [][VirtualNext]_allVars

(* The same of a client that never pauses, as the conformance tests of      *)
(* src/task/tasktest are.                                                   *)
UnpausedNext == BaseActs \/ (WrapperActs /\ UNCHANGED <<target, baseElapsed>>)

UnpausedSpec == VirtualInit /\ [][UnpausedNext]_allVars

-----------------------------------------------------------------------------
(* A function does not run before its delay, by neither of the two clocks:  *)
(* "should not fire before its delay" (src/task/tasktest/dispatcher.go:82). *)
NotBeforeItsDelay ==
    [][\A t \in BaseTimers :
        B!Running(t)' /\ ~B!Running(t) =>
            \/ elapsed[t[1]] >= original[t[1]]
            \/ baseElapsed[t[1]] + (at[t] - baseClock) >= original[t[1]]]_allVars

(* A pausable.Dispatcher that is never paused passes the conformance tests  *)
(* of a dispatcher with time (src/task/pausable/dispatcher_test.go:17-19):  *)
(* the wrapper and its lock change neither when a function runs nor what    *)
(* Stop answers.                                                            *)
First(e) == <<e, 1>>

C == INSTANCE TimedDispatcher WITH
        Timers <- Entries,
        Durations <- Delays,
        Targets <- Times,
        status <- [e \in Entries |->
                    IF TRUE \in answers[e] THEN "stopped" ELSE status[First(e)]],
        clock <- baseClock,
        due <- [e \in Entries |-> at[First(e)]]

IsATimedDispatcher == C!Spec
=============================================================================
