----------------------------- MODULE Dispatcher -----------------------------
(***************************************************************************)
(* What task.Dispatcher and task.Timer promise to their callers            *)
(* (src/task/dispatcher.go, src/task/timer.go): a function handed to       *)
(* AfterFunc runs at most once, one at a time; a panic is caught and no    *)
(* other function ever starts; Stop tells the truth about whether it       *)
(* prevented the function.  No clock and no queue: those belong to the     *)
(* implementations, which are shown to refine this module.                 *)
(***************************************************************************)
CONSTANT Timers             \* the handles AfterFunc can return

VARIABLES
    status,                 \* where each scheduled function is in its life
    halted,                 \* a function has panicked
    answers                 \* history: what Stop has answered for each timer

vars == <<status, halted, answers>>

Statuses == {"unused", "pending", "running", "done", "stopped"}

TypeOK ==
    /\ status \in [Timers -> Statuses]
    /\ halted \in BOOLEAN
    /\ answers \in [Timers -> SUBSET BOOLEAN]

Init ==
    /\ status = [t \in Timers |-> "unused"]
    /\ halted = FALSE
    /\ answers = [t \in Timers |-> {}]

Running(t) == status[t] = "running"

AfterFunc(t) ==
    /\ status[t] = "unused"
    /\ status' = [status EXCEPT ![t] = "pending"]
    /\ UNCHANGED <<halted, answers>>

Start(t) ==
    /\ status[t] = "pending"
    /\ ~halted
    /\ \A u \in Timers : ~Running(u)
    /\ status' = [status EXCEPT ![t] = "running"]
    /\ UNCHANGED <<halted, answers>>

Return(t) ==
    /\ Running(t)
    /\ status' = [status EXCEPT ![t] = "done"]
    /\ UNCHANGED <<halted, answers>>

Panic(t) ==
    /\ Running(t)
    /\ status' = [status EXCEPT ![t] = "done"]
    /\ halted' = TRUE
    /\ UNCHANGED answers

(* TRUE exactly when the function had not started and was not stopped yet,  *)
(* also when a panic means that it would never have started.                *)
Stop(t) ==
    /\ status[t] # "unused"
    /\ answers' = [answers EXCEPT ![t] = @ \cup {status[t] = "pending"}]
    /\ status' = [status EXCEPT ![t] = IF @ = "pending" THEN "stopped" ELSE @]
    /\ UNCHANGED halted

Next ==
    \E t \in Timers :
        AfterFunc(t) \/ Start(t) \/ Return(t) \/ Panic(t) \/ Stop(t)

Spec == Init /\ [][Next]_vars

-----------------------------------------------------------------------------
(* Scheduled functions are executed serially: shared variables need no      *)
(* synchronization inside them (src/task/dispatcher.go:15).                 *)
Serial == \A t, u \in Timers : Running(t) /\ Running(u) => t = u

(* A function that a Stop has claimed to have prevented never runs, and no  *)
(* Stop claims to have prevented one that runs or has run                   *)
(* (src/task/timer.go:10-20).                                               *)
StopIsFinal ==
    [][\A t \in Timers :
        /\ TRUE \in answers[t] => ~Running(t)'
        /\ Running(t) \/ status[t] = "done" => TRUE \notin answers'[t]]_vars

(* Once a function has panicked nothing starts again                        *)
(* (src/task/dispatcher.go:20).                                             *)
NothingStartsOnceHalted ==
    [][halted => \A t \in Timers : Running(t)' => Running(t)]_vars
=============================================================================
