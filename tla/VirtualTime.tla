---------------------------- MODULE VirtualTime ----------------------------
(***************************************************************************)
(* virtualtime.Dispatcher (src/task/virtualtime/dispatcher.go): functions  *)
(* on a simulated clock that only FastForward advances.                    *)
(*                                                                         *)
(* Goroutines call FastForward, AfterFunc and Timer.Stop concurrently, and *)
(* the function a FastForward runs calls them too, on the goroutine of     *)
(* that FastForward.  One critical section of mu is one action; what a     *)
(* FastForward does outside of it (the compare-and-swap of running, the    *)
(* call of the function, the deferred reset of running) are actions of     *)
(* their own, so that everything can happen in between.                    *)
(***************************************************************************)
EXTENDS Integers, Sequences, SequencesExt

CONSTANTS
    Goroutines,
    Tasks,              \* the pendingTasks AfterFunc can allocate; its bound
    NoTask,
    Durations,          \* arguments of AfterFunc; negative ones are legal
    Targets             \* arguments of FastForward, on a clock that starts at 0

ASSUME VirtualTimeAssumption ==
    /\ Durations \subseteq Int
    /\ Targets \subseteq Nat
    /\ NoTask \notin Tasks

VARIABLES
    running,            \* a FastForward is in progress (atomic.Bool)
    advancedTo,
    stopErr,            \* the task whose panic stopped the dispatcher, or NoTask
    tasks,              \* the queue of scheduledTasks
    pc,                 \* where each goroutine is inside FastForward
    end,                \* the argument of its FastForward
    head,               \* the scheduledTask it took out of the queue last
    result,             \* what its FastForward returns, once that is decided
    created,            \* history: tasks with a Timer
    started,            \* history: tasks whose function was called
    answers             \* history: what Stop has answered for each task

shared == <<running, advancedTo, stopErr, tasks>>
local == <<pc, end, head, result>>
history == <<created, started, answers>>
vars == <<shared, local, history>>

ScheduledTasks == [at : Nat, task : Tasks]
NoHead == [at |-> 0, task |-> NoTask]

(* "idle": outside of FastForward.  "loop": about to enter                  *)
(* proceedAndDequeue.  "call": in the function of its head.  "failed": that *)
(* function panicked and was recovered, shutdown not entered yet.           *)
(* "unwind": the result is decided, the deferred reset of running is not    *)
(* done yet.                                                                *)
Places == {"idle", "loop", "call", "failed", "unwind"}

TypeOK ==
    /\ running \in BOOLEAN
    /\ advancedTo \in Nat
    /\ stopErr \in Tasks \cup {NoTask}
    /\ tasks \in Seq(ScheduledTasks)
    /\ pc \in [Goroutines -> Places]
    /\ end \in [Goroutines -> Nat]
    /\ head \in [Goroutines -> ScheduledTasks \cup {NoHead}]
    /\ \A g \in Goroutines : pc[g] \in {"call", "failed"} => head[g] \in ScheduledTasks
    /\ result \in [Goroutines -> {"none", "nil", "error"}]
    /\ created \in SUBSET Tasks
    /\ started \in SUBSET Tasks
    /\ answers \in [Tasks -> SUBSET BOOLEAN]

Init ==
    /\ running = FALSE
    /\ advancedTo = 0
    /\ stopErr = NoTask
    /\ tasks = <<>>
    /\ pc = [g \in Goroutines |-> "idle"]
    /\ end = [g \in Goroutines |-> 0]
    /\ head = [g \in Goroutines |-> NoHead]
    /\ result = [g \in Goroutines |-> "none"]
    /\ created = {}
    /\ started = {}
    /\ answers = [t \in Tasks |-> {}]

(* Client code runs on g outside of FastForward or in the function it runs. *)
CanCall(g) == pc[g] \in {"idle", "call"}

Goto(g, place) == pc' = [pc EXCEPT ![g] = place]

-----------------------------------------------------------------------------
(* FastForward                                                             *)

FastForwardUnchecked(g, to) ==      \* wrong: no compare-and-swap
    /\ pc[g] = "idle"
    /\ running' = TRUE
    /\ Goto(g, "loop")
    /\ end' = [end EXCEPT ![g] = to]
    /\ result' = [result EXCEPT ![g] = "none"]
    /\ UNCHANGED <<advancedTo, stopErr, tasks, head, history>>

(* The compare-and-swap.  When it fails, as it does for a FastForward       *)
(* called from a function, FastForward returns ErrRunning and changes       *)
(* nothing.                                                                 *)
FastForward(g, to) ==
    /\ pc[g] = "idle"
    /\ ~running
    /\ running' = TRUE
    /\ Goto(g, "loop")
    /\ end' = [end EXCEPT ![g] = to]
    /\ result' = [result EXCEPT ![g] = "none"]
    /\ UNCHANGED <<advancedTo, stopErr, tasks, head, history>>

(* proceedAndDequeue of a dispatcher that a panic has stopped. *)
ProceedStopped(g) ==
    /\ pc[g] = "loop"
    /\ stopErr # NoTask
    /\ result' = [result EXCEPT ![g] = "error"]
    /\ Goto(g, "unwind")
    /\ UNCHANGED <<shared, end, head, history>>

HeadIsDueExclusive(to) == tasks # <<>> /\ Head(tasks).at < to   \* wrong at the end time

HeadIsDue(to) == tasks # <<>> /\ Head(tasks).at <= to

ProceedRunKeeping(g) ==             \* wrong: the head stays in the queue
    /\ pc[g] = "loop"
    /\ stopErr = NoTask
    /\ HeadIsDue(end[g])
    /\ advancedTo' = Head(tasks).at
    /\ head' = [head EXCEPT ![g] = Head(tasks)]
    /\ started' = started \cup {Head(tasks).task}
    /\ Goto(g, "call")
    /\ UNCHANGED <<running, stopErr, tasks, end, result, created, answers>>

(* proceedAndDequeue takes the head out of the queue and FastForward calls  *)
(* its function.  Nothing can prevent the call once mu is released, so the  *)
(* function counts as started from here.                                    *)
ProceedRun(g) ==
    /\ pc[g] = "loop"
    /\ stopErr = NoTask
    /\ HeadIsDue(end[g])
    /\ tasks' = Tail(tasks)
    /\ advancedTo' = Head(tasks).at
    /\ head' = [head EXCEPT ![g] = Head(tasks)]
    /\ started' = started \cup {Head(tasks).task}
    /\ Goto(g, "call")
    /\ UNCHANGED <<running, stopErr, end, result, created, answers>>

ProceedDoneBackwards(g) ==          \* wrong: a target in the past rewinds the clock
    /\ pc[g] = "loop"
    /\ stopErr = NoTask
    /\ ~HeadIsDue(end[g])
    /\ advancedTo' = end[g]
    /\ result' = [result EXCEPT ![g] = "nil"]
    /\ Goto(g, "unwind")
    /\ UNCHANGED <<running, stopErr, tasks, end, head, history>>

(* proceedAndDequeue finds nothing due: the clock moves on to the end. *)
ProceedDone(g) ==
    /\ pc[g] = "loop"
    /\ stopErr = NoTask
    /\ ~HeadIsDue(end[g])
    /\ advancedTo' = IF end[g] > advancedTo THEN end[g] ELSE advancedTo
    /\ result' = [result EXCEPT ![g] = "nil"]
    /\ Goto(g, "unwind")
    /\ UNCHANGED <<running, stopErr, tasks, end, head, history>>

(* The function of the head returns. *)
Return(g) ==
    /\ pc[g] = "call"
    /\ head' = [head EXCEPT ![g] = NoHead]
    /\ Goto(g, "loop")
    /\ UNCHANGED <<shared, end, result, history>>

(* The function of the head panics, and pendingTask.run recovers. *)
Panic(g) ==
    /\ pc[g] = "call"
    /\ Goto(g, "failed")
    /\ UNCHANGED <<shared, end, head, result, history>>

Shutdown(g) ==
    /\ pc[g] = "failed"
    /\ stopErr' = head[g].task
    /\ head' = [head EXCEPT ![g] = NoHead]
    /\ result' = [result EXCEPT ![g] = "error"]
    /\ Goto(g, "unwind")
    /\ UNCHANGED <<running, advancedTo, tasks, end, history>>

UnwindOnSuccess(g) ==               \* wrong: an error leaves running set
    /\ pc[g] = "unwind"
    /\ running' = (result[g] = "error")
    /\ Goto(g, "idle")
    /\ end' = [end EXCEPT ![g] = 0]
    /\ UNCHANGED <<advancedTo, stopErr, tasks, head, result, history>>

(* The deferred reset of running. *)
Unwind(g) ==
    /\ pc[g] = "unwind"
    /\ running' = FALSE
    /\ Goto(g, "idle")
    /\ end' = [end EXCEPT ![g] = 0]
    /\ UNCHANGED <<advancedTo, stopErr, tasks, head, result, history>>

-----------------------------------------------------------------------------
(* AfterFunc and Timer.Stop                                                *)

InsertionPointAtEnd(at, i) == i = Len(tasks) + 1    \* wrong: does not look at at

(* The index the loop of enqueue leaves its counter at: the first entry     *)
(* that is later, or the end of the queue.                                  *)
InsertionPoint(at, i) ==
    /\ \A j \in 1..(i - 1) : tasks[j].at <= at
    /\ i <= Len(tasks) => at < tasks[i].at

AfterFunc(g, t, d) ==
    /\ CanCall(g)
    /\ t \notin created
    /\ LET at == advancedTo + (IF d > 0 THEN d ELSE 0) IN
         \E i \in 1..(Len(tasks) + 1) :
            /\ InsertionPoint(at, i)
            /\ tasks' = InsertAt(tasks, i, [at |-> at, task |-> t])
    /\ created' = created \cup {t}
    /\ UNCHANGED <<running, advancedTo, stopErr, local, started, answers>>

Answer(t, b) == answers' = [answers EXCEPT ![t] = @ \cup {b}]

StopForgetful(g, t) ==              \* wrong: reports success, drops nothing
    /\ CanCall(g)
    /\ \E i \in 1..Len(tasks) : tasks[i].task = t
    /\ Answer(t, TRUE)
    /\ UNCHANGED <<shared, local, created, started>>

(* Timer.Stop: dropTask finds the task in the queue and removes it. *)
StopPending(g, t) ==
    /\ CanCall(g)
    /\ \E i \in 1..Len(tasks) :
         /\ tasks[i].task = t
         /\ tasks' = RemoveAt(tasks, i)
    /\ Answer(t, TRUE)
    /\ UNCHANGED <<running, advancedTo, stopErr, local, created, started>>

(* Timer.Stop: dropTask does not find it. *)
StopTooLate(g, t) ==
    /\ CanCall(g)
    /\ t \in created
    /\ \A i \in 1..Len(tasks) : tasks[i].task # t
    /\ Answer(t, FALSE)
    /\ UNCHANGED <<shared, local, created, started>>

-----------------------------------------------------------------------------
Proceed(g) == ProceedStopped(g) \/ ProceedRun(g) \/ ProceedDone(g)

(* The steps of a FastForward in progress: no goroutine stays forever in    *)
(* one, as mu is never held for long and functions are assumed to return.   *)
Advance(g) == Proceed(g) \/ Return(g) \/ Panic(g) \/ Shutdown(g) \/ Unwind(g)

Next ==
    \E g \in Goroutines :
        \/ \E to \in Targets : FastForward(g, to)
        \/ Advance(g)
        \/ \E t \in Tasks :
             \/ \E d \in Durations : AfterFunc(g, t, d)
             \/ StopPending(g, t)
             \/ StopTooLate(g, t)

Spec == Init /\ [][Next]_vars

FairSpec == Spec /\ \A g \in Goroutines : WF_vars(Advance(g))

-----------------------------------------------------------------------------
(* At most one FastForward is in progress, it is the one that set running,  *)
(* and running is set only then: functions run serially, and FastForward    *)
(* works again after each way the last one has ended                        *)
(* (src/task/virtualtime/dispatcher.go:48-51).                              *)
OneFastForward ==
    /\ \A g \in Goroutines : pc[g] # "idle" => running
    /\ running => \E g \in Goroutines : pc[g] # "idle"
    /\ \A g, h \in Goroutines : pc[g] # "idle" /\ pc[h] # "idle" => g = h

(* The queue is sorted by due time (src/task/virtualtime/dispatcher.go:36). *)
QueueIsSorted ==
    \A i, j \in 1..Len(tasks) : i <= j => tasks[i].at <= tasks[j].at

(* Nothing queued is in the past of the clock, where dequeue would rewind   *)
(* it (src/task/virtualtime/dispatcher.go:127).                             *)
NothingOverdue == \A i \in 1..Len(tasks) : tasks[i].at >= advancedTo

(* While a function runs the clock shows the time it was scheduled for,     *)
(* whatever other goroutines do: a chain of AfterFunc calls in functions    *)
(* does not drift.                                                          *)
FunctionSeesItsTime ==
    \A g \in Goroutines : pc[g] = "call" => advancedTo = head[g].at

(* Each task with a Timer is in exactly one of: the queue, once; the hands  *)
(* of a FastForward or beyond; stopped, with Stop having said so.  No       *)
(* function is lost, run twice or run after a Stop that answered true       *)
(* (src/task/timer.go:10-20).                                               *)
Queued(t) == \E i \in 1..Len(tasks) : tasks[i].task = t

NoTaskQueuedTwice ==
    \A i, j \in 1..Len(tasks) : tasks[i].task = tasks[j].task => i = j

EveryTaskIsAccountedFor ==
    /\ NoTaskQueuedTwice
    /\ \A t \in Tasks :
        /\ Queued(t) => t \in created /\ t \notin started
        /\ t \in started => t \in created
        /\ TRUE \in answers[t] => t \in created /\ ~Queued(t) /\ t \notin started
        /\ t \in created => Queued(t) \/ t \in started \/ TRUE \in answers[t]
    /\ \A g \in Goroutines : pc[g] \in {"call", "failed"} => head[g].task \in started

(* Nothing is in progress in a dispatcher that a panic has stopped: the     *)
(* error is set by the FastForward that ran the function, before another    *)
(* one can begin (src/task/virtualtime/dispatcher.go:60-63).                *)
NothingRunsOnceStopped ==
    stopErr # NoTask => \A g \in Goroutines : pc[g] \notin {"call", "failed"}

(* Simulated time never goes back. *)
ClockNeverGoesBack == [][advancedTo' >= advancedTo]_vars

(* A FastForward that returns nil has reached its target, and nothing due   *)
(* by then is left (src/task/virtualtime/dispatcher.go:40-42).              *)
SuccessMeansAllDueHaveRun ==
    [][\A g \in Goroutines :
        result[g] = "none" /\ result'[g] = "nil" =>
            /\ advancedTo' >= end[g]
            /\ \A i \in 1..Len(tasks') : tasks'[i].at > end[g]]_vars

(* The first panic stops the dispatcher for good, from the moment it is     *)
(* recovered, when mu is free and the error not set yet: nothing starts, no *)
(* FastForward succeeds any more, and the error, once set, does not change  *)
(* (src/task/virtualtime/dispatcher.go:44-46, 60-63).                       *)
Halted == stopErr # NoTask \/ \E g \in Goroutines : pc[g] = "failed"

StoppedForGood ==
    [][Halted =>
        /\ Halted'
        /\ stopErr # NoTask => stopErr' = stopErr
        /\ started' = started
        /\ \A g \in Goroutines : result'[g] = "nil" => result[g] = "nil"]_vars

(* virtualtime.Dispatcher is a task.Dispatcher: its steps are steps of the  *)
(* contract (src/task/dispatcher.go, src/task/timer.go).                    *)
InCall(t) == \E g \in Goroutines : pc[g] = "call" /\ head[g].task = t

Status(t) ==
    IF InCall(t) THEN "running"
    ELSE IF t \in started THEN "done"
    ELSE IF TRUE \in answers[t] THEN "stopped"
    ELSE IF t \in created THEN "pending"
    ELSE "unused"

D == INSTANCE Dispatcher WITH
        Timers <- Tasks,
        status <- [t \in Tasks |-> Status(t)],
        halted <- Halted

IsADispatcher == D!Spec

(* virtualtime.Dispatcher keeps the times of the contract that the          *)
(* conformance tests check (src/task/tasktest/dispatcher.go:165-196): each  *)
(* function runs at its own time, in order, and its AfterFunc calls are     *)
(* relative to that time.                                                   *)
Due(t) ==
    IF Queued(t) THEN tasks[CHOOSE i \in 1..Len(tasks) : tasks[i].task = t].at ELSE 0

Advancing(g) == pc[g] \in {"loop", "call", "failed"}

Target ==
    IF \E g \in Goroutines : Advancing(g)
    THEN end[CHOOSE g \in Goroutines : Advancing(g)] ELSE -1

T == INSTANCE TimedDispatcher WITH
        Timers <- Tasks,
        status <- [t \in Tasks |-> Status(t)],
        halted <- Halted,
        clock <- advancedTo,
        due <- [t \in Tasks |-> Due(t)],
        target <- Target

IsATimedDispatcher == T!Spec

(* A FastForward ends once nobody schedules further functions (Tasks bounds *)
(* how many there are) and those it runs end.                               *)
FastForwardEnds == \A g \in Goroutines : pc[g] # "idle" ~> pc[g] = "idle"

(* What is queued and due by the target of a FastForward in progress is run *)
(* by it, unless it is stopped or a panic stops the dispatcher.             *)
DueFunctionsRun ==
    \A g \in Goroutines, t \in Tasks :
        (/\ pc[g] \in {"loop", "call"}
         /\ \E i \in 1..Len(tasks) : tasks[i].task = t /\ tasks[i].at <= end[g])
        ~> t \in started \/ TRUE \in answers[t] \/ Halted
=============================================================================
