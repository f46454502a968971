-------------------------- MODULE TimedDispatcher --------------------------
(***************************************************************************)
(* The dispatcher contract with time, as the conformance tests of          *)
(* src/task/tasktest/dispatcher.go state it for every implementation:      *)
(* somebody advances the time to a target, and the functions due by then   *)
(* run, each at its own time, in the order of these times.  Delays are     *)
(* relative to the time of the call, which inside of a function is the     *)
(* time the function runs at and not the target.                           *)
(***************************************************************************)
EXTENDS Integers

CONSTANTS
    Timers,
    Durations,              \* arguments of AfterFunc; negative ones are legal
    Targets                 \* arguments of AdvanceTo, on a clock that starts at 0

VARIABLES
    status, halted, answers,    \* see Dispatcher
    clock,
    due,                    \* when each pending function is due, 0 for the others
    target                  \* of the advance in progress, or NoTarget

vars == <<status, halted, answers, clock, due, target>>

D == INSTANCE Dispatcher

NoTarget == -1

Init ==
    /\ D!Init
    /\ clock = 0
    /\ due = [t \in Timers |-> 0]
    /\ target = NoTarget

AdvanceTo(to) ==
    /\ target = NoTarget
    /\ target' = to
    /\ UNCHANGED <<status, halted, answers, clock, due>>

(* A negative delay is one of 0, and never in the past of the clock. *)
AfterFunc(t, d) ==
    /\ D!AfterFunc(t)
    /\ due' = [due EXCEPT ![t] = clock + (IF d > 0 THEN d ELSE 0)]
    /\ UNCHANGED <<clock, target>>

Pending(t) == status[t] = "pending"

Start(t) ==
    /\ target # NoTarget
    /\ due[t] <= target
    /\ \A u \in Timers : Pending(u) => due[t] <= due[u]
    /\ D!Start(t)
    /\ clock' = due[t]
    /\ due' = [due EXCEPT ![t] = 0]
    /\ UNCHANGED target

End(t) ==
    /\ D!Return(t) \/ D!Panic(t)
    /\ UNCHANGED <<clock, due, target>>

Stop(t) ==
    /\ D!Stop(t)
    /\ due' = [due EXCEPT ![t] = 0]
    /\ UNCHANGED <<clock, target>>

NoneRuns == \A t \in Timers : ~D!Running(t)

(* AdvanceTo returns without an error. *)
Advanced ==
    /\ target # NoTarget
    /\ ~halted
    /\ NoneRuns
    /\ \A t \in Timers : Pending(t) => due[t] > target
    /\ clock' = IF target > clock THEN target ELSE clock
    /\ target' = NoTarget
    /\ UNCHANGED <<status, halted, answers, due>>

(* AdvanceTo returns because of a panic, of this advance or an earlier one. *)
Failed ==
    /\ target # NoTarget
    /\ halted
    /\ NoneRuns
    /\ target' = NoTarget
    /\ UNCHANGED <<status, halted, answers, clock, due>>

Next ==
    \/ \E to \in Targets : AdvanceTo(to)
    \/ Advanced
    \/ Failed
    \/ \E t \in Timers :
         \/ \E d \in Durations : AfterFunc(t, d)
         \/ Start(t) \/ End(t) \/ Stop(t)

Spec == Init /\ [][Next]_vars
=============================================================================
