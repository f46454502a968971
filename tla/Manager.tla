------------------------------- MODULE Manager -------------------------------
(***************************************************************************)
(* state.Manager and its timerGroup (src/state/manager.go, timers.go) used *)
(* on their own: a value, and timers on any number of dispatchers that     *)
(* must not outlive it.                                                    *)
(*                                                                         *)
(* Everything happens on one goroutine.  Between two steps user code runs, *)
(* the innermost callback or the Manager's owner, and it calls every       *)
(* method.  It also drives the dispatchers: a callback that runs on one of *)
(* them may make another one run its timers, so that callbacks nest, and   *)
(* the innermost one may replace the value under the others.               *)
(***************************************************************************)
EXTENDS Naturals, Sequences, SequencesExt

CONSTANTS
    Dispatchers,
    Timers,             \* the timerEntries AfterFunc can create; its bound
    DispatcherOf,       \* where each of them is scheduled
    MaxValues           \* bound on the calls of Set

ASSUME ManagerAssumption ==
    /\ DispatcherOf \in [Timers -> Dispatchers]
    /\ MaxValues \in Nat

VARIABLES
    current,            \* the value, by the number of the Set that brought it
    timers,             \* the timerGroup's
    status,             \* of the timers of all dispatchers, see Dispatcher
    halted,             \* the dispatchers that a panic has stopped
    stack,              \* the timers whose callbacks are in progress
    scheduledFor        \* history: the value each timer was scheduled for

vars == <<current, timers, status, halted, stack, scheduledFor>>

Init ==
    /\ current = 0
    /\ timers = <<>>
    /\ status = [t \in Timers |-> "unused"]
    /\ halted = {}
    /\ stack = <<>>
    /\ scheduledFor = [t \in Timers |-> 0]

-----------------------------------------------------------------------------
(* Methods                                                                 *)

Stopped(t) == IF status[t] = "pending" THEN "stopped" ELSE status[t]

SetOnFirstDispatcher ==         \* wrong: stops where the first timer is only
    /\ current < MaxValues
    /\ status' = [t \in Timers |->
                    IF t \in ToSet(timers) /\ DispatcherOf[t] = DispatcherOf[timers[1]]
                    THEN Stopped(t) ELSE status[t]]
    /\ timers' = <<>>
    /\ current' = current + 1
    /\ UNCHANGED <<halted, stack, scheduledFor>>

(* Clear stops the timers of the group and ignores what Stop answers; a     *)
(* timer whose callback is in progress is not stopped, but leaves the group *)
(* as well.                                                                 *)
Set ==
    /\ current < MaxValues
    /\ status' = [t \in Timers |-> IF t \in ToSet(timers) THEN Stopped(t) ELSE status[t]]
    /\ timers' = <<>>
    /\ current' = current + 1
    /\ UNCHANGED <<halted, stack, scheduledFor>>

(* Also on a dispatcher that has stopped, which never calls the function. *)
AfterFunc(t) ==
    /\ status[t] = "unused"
    /\ status' = [status EXCEPT ![t] = "pending"]
    /\ timers' = Append(timers, t)
    /\ scheduledFor' = [scheduledFor EXCEPT ![t] = current]
    /\ UNCHANGED <<current, halted, stack>>

-----------------------------------------------------------------------------
(* The dispatchers and the wrapper they call                               *)

(* Timers of the same dispatcher do not nest. *)
Fires(t) ==
    /\ status[t] = "pending"
    /\ DispatcherOf[t] \notin halted
    /\ \A i \in 1..Len(stack) : DispatcherOf[stack[i]] # DispatcherOf[t]
    /\ status' = [status EXCEPT ![t] = "running"]
    /\ stack' = Append(stack, t)
    /\ UNCHANGED <<current, timers, halted, scheduledFor>>

removeTimerUnswapped(t) ==                \* wrong: shortens the list without the swap
    IF \E i \in 1..Len(timers) : timers[i] = t THEN Front(timers) ELSE timers

(* removeTimer: the last timer takes the place of the one that has fired,   *)
(* which is in the list no more when the value has been replaced.           *)
removeTimer(t) ==
    IF \E i \in 1..Len(timers) : timers[i] = t
    THEN LET i == CHOOSE j \in 1..Len(timers) : timers[j] = t
         IN  Front([timers EXCEPT ![i] = Last(timers)])
    ELSE timers

(* The wrapper ends with f, whether f returns or panics. *)
Ends ==
    /\ stack # <<>>
    /\ status' = [status EXCEPT ![Last(stack)] = "done"]
    /\ timers' = removeTimer(Last(stack))
    /\ stack' = Front(stack)
    /\ UNCHANGED <<current, scheduledFor>>

Returns == Ends /\ UNCHANGED halted

(* The dispatcher that called the wrapper catches the panic: the callback   *)
(* around it goes on.                                                       *)
Panics == Ends /\ halted' = halted \cup {DispatcherOf[Last(stack)]}

Next ==
    \/ Set
    \/ \E t \in Timers : AfterFunc(t) \/ Fires(t)
    \/ Returns \/ Panics

Spec == Init /\ [][Next]_vars

-----------------------------------------------------------------------------
(* A timer never fires for a value that has been replaced, whichever        *)
(* dispatcher it is on and whoever replaced the value                       *)
(* (src/state/manager.go:9-11).                                             *)
NeverForAReplacedValue ==
    [][\A t \in Timers :
        status'[t] = "running" /\ status[t] = "pending" => scheduledFor[t] = current]_vars

(* The group holds the timers of the current value that are pending or in   *)
(* progress, each once, and nothing else: none is kept after it has fired,  *)
(* also when it panicked, and none is forgotten that a Set has to stop      *)
(* (src/state/timers.go:13-15, 26-35).                                      *)
GroupIsTheLiveTimers ==
    /\ \A i, j \in 1..Len(timers) : timers[i] = timers[j] => i = j
    /\ ToSet(timers) =
        {t \in Timers : scheduledFor[t] = current /\ status[t] \in {"pending", "running"}}
=============================================================================
