------------------------------ MODULE Machine ------------------------------
(***************************************************************************)
(* state.Machine with its Manager and timerGroup (src/state/machine.go,    *)
(* manager.go, timers.go) over any task.Dispatcher.                        *)
(*                                                                         *)
(* The machine calls user code: exit actions, the Tracer, Entry and timer  *)
(* callbacks.  stack holds the callbacks in progress, the innermost last,  *)
(* and between two steps it is user code that runs: the innermost callback *)
(* or, with an empty stack, the owner of the machine.  That code may call  *)
(* every method of the machine and of the handles it was given, return, or *)
(* panic.  A step is what the machine does between two pieces of user      *)
(* code.  A call that returns an error before it calls user code changes   *)
(* nothing and is not a step.                                              *)
(*                                                                         *)
(* As the code requires, calls are serialized with the timers by the       *)
(* dispatcher (machine.go:49-54), which does not fire a timer inside of a  *)
(* callback (machine.go:246-249): timers fire when the stack is empty.     *)
(***************************************************************************)
EXTENDS Naturals, Sequences, SequencesExt

CONSTANTS
    Nodes,
    NoNode,
    InitialNode,
    Events,
    Edges,              \* Graph.FindNext: the destination of an event, or NoNode
    Timers,             \* the timers AfterFunc can create; its bound
    NoTimer,
    MaxVisits           \* bound on the visits of a behaviour

ASSUME MachineAssumption ==
    /\ NoNode \notin Nodes
    /\ InitialNode \in Nodes
    /\ Edges \in [Nodes \X Events -> Nodes \cup {NoNode}]
    /\ NoTimer \notin Timers
    /\ MaxVisits \in Nat

VARIABLES
    tracer,             \* a Tracer is configured
    node,               \* Machine.node
    current,            \* the visit the Manager holds, NoVisit for nil
    callback,           \* Machine.callback, a callbackKind
    exits,              \* the visits with a registered exit action
    group,              \* the timers of the timerGroup
    status, halted,     \* the dispatcher's, see Dispatcher
    owner,              \* the visit whose handle a timer's closure holds
    stack,              \* the callbacks in progress, and what they return to
    visits,             \* how many visits there have been; the newest of them
    handed,             \* the visits whose Entry was called: handles exist
    traced              \* history: the last Transition reported

machine == <<tracer, node, current, callback, exits>>
timers == <<group, status, halted, owner>>
vars == <<machine, timers, stack, visits, handed, traced>>

(* Clear ignores what Stop answers (timers.go:39). *)
D == INSTANCE Dispatcher WITH answers <- [t \in Timers |-> {}]

Visits == 1..MaxVisits
NoVisit == 0

TransitionKinds == {"exit", "trace", "entry", "stop exit", "stop trace"}

(* One callback in progress, of visit (for a stop trace, of the visit that  *)
(* has ended).  to: where the transition goes once the exit action returns. *)
(* timer: whose callback it is.  previous: what popCallback restores.       *)
Frames == [kind : TransitionKinds \cup {"timer"},
           visit : Visits,
           to : Nodes \cup {NoNode},
           timer : Timers \cup {NoTimer},
           previous : {"none", "timer", "transition"}]

TypeOK ==
    /\ tracer \in BOOLEAN
    /\ node \in Nodes \cup {NoNode}
    /\ current \in Visits \cup {NoVisit}
    /\ current # NoVisit => node \in Nodes
    /\ callback \in {"none", "timer", "transition"}
    /\ exits \in SUBSET Visits
    /\ group \in SUBSET Timers
    /\ status \in [Timers -> D!Statuses]
    /\ halted \in BOOLEAN
    /\ owner \in [Timers -> Visits \cup {NoVisit}]
    /\ stack \in Seq(Frames)
    /\ \A i \in 1..Len(stack) : stack[i].kind = "timer" <=> stack[i].timer # NoTimer
    /\ visits \in 0..MaxVisits
    /\ handed \in SUBSET Visits
    /\ traced \in [from : Nodes \cup {NoNode}, to : Nodes \cup {NoNode}]

Init ==
    /\ tracer \in BOOLEAN
    /\ node = NoNode
    /\ current = NoVisit
    /\ callback = "none"
    /\ exits = {}
    /\ group = {}
    /\ status = [t \in Timers |-> "unused"]
    /\ halted = FALSE
    /\ owner = [t \in Timers |-> NoVisit]
    /\ stack = <<>>
    /\ visits = 0
    /\ handed = {}
    /\ traced = [from |-> NoNode, to |-> NoNode]

(* The node of CurrentState, NoNode for its error; also the From of a       *)
(* Transition.                                                              *)
CurrentState == IF current = NoVisit THEN NoNode ELSE node

Top == Last(stack)

TopIs(kind) == stack # <<>> /\ Top.kind = kind

Frame(kind, v, to, previous) ==
    [kind |-> kind, visit |-> v, to |-> to, timer |-> NoTimer, previous |-> previous]

-----------------------------------------------------------------------------
(* The pieces of a transition.  Each ends at the next callback: rest is the *)
(* stack below the transition, previous the callbackKind it replaced.       *)

SetWithoutClear(v) ==                   \* wrong: Clear forgets to stop the timers
    /\ current' = v
    /\ group' = {}
    /\ UNCHANGED status

(* Manager.Set: Clear stops every timer of the group. *)
Set(v) ==
    /\ current' = v
    /\ group' = {}
    /\ status' = [t \in Timers |->
                    IF t \in group /\ status[t] = "pending" THEN "stopped" ELSE status[t]]

Report(from, to) ==
    traced' = IF tracer THEN [from |-> from, to |-> to] ELSE traced

EnterLateFrom(rest, previous, to) ==    \* wrong: From is read after the change
    /\ visits < MaxVisits
    /\ visits' = visits + 1
    /\ node' = to
    /\ Set(visits')
    /\ callback' = "transition"
    /\ Report(node', to)
    /\ LET kind == IF tracer THEN "trace" ELSE "entry" IN
         /\ stack' = Append(rest, Frame(kind, visits', NoNode, previous))
         /\ handed' = IF tracer THEN handed ELSE handed \cup {visits'}
    /\ UNCHANGED <<tracer, exits, halted, owner>>

(* enter, up to the Tracer or else Entry. *)
Enter(rest, previous, to) ==
    /\ visits < MaxVisits
    /\ visits' = visits + 1
    /\ node' = to
    /\ Set(visits')
    /\ callback' = "transition"
    /\ Report(CurrentState, to)
    /\ LET kind == IF tracer THEN "trace" ELSE "entry" IN
         /\ stack' = Append(rest, Frame(kind, visits', NoNode, previous))
         /\ handed' = IF tracer THEN handed ELSE handed \cup {visits'}
    /\ UNCHANGED <<tracer, exits, halted, owner>>

(* leave with an event that has a transition, up to the exit action, or on  *)
(* to enter when none is registered.                                        *)
Leave(rest, previous, v, e) ==
    LET to == Edges[node, e] IN
    /\ to # NoNode
    /\ IF v \in exits
       THEN /\ stack' = Append(rest, Frame("exit", v, to, previous))
            /\ callback' = "transition"
            /\ UNCHANGED <<tracer, node, current, exits, timers, visits, handed, traced>>
       ELSE Enter(rest, previous, to)

(* stop from the return of the exit action, up to the Tracer or else the    *)
(* return of the operation.                                                 *)
EndVisit(rest, previous, v) ==
    /\ Set(NoVisit)
    /\ Report(node, NoNode)
    /\ IF tracer
       THEN /\ stack' = Append(rest, Frame("stop trace", v, NoNode, previous))
            /\ callback' = "transition"
       ELSE /\ stack' = rest
            /\ callback' = previous
    /\ UNCHANGED <<tracer, node, exits, halted, owner, visits, handed>>

StopVisitAtOnce(rest, previous, v) ==   \* wrong: ends the visit without its exit action
    EndVisit(rest, previous, v)

StopVisit(rest, previous, v) ==
    IF v \in exits
    THEN /\ stack' = Append(rest, Frame("stop exit", v, NoNode, previous))
         /\ callback' = "transition"
         /\ UNCHANGED <<tracer, node, current, exits, timers, visits, handed, traced>>
    ELSE EndVisit(rest, previous, v)

ReturnClearing ==                       \* wrong: clears callback
    /\ stack' = Front(stack)
    /\ callback' = "none"

(* The deferred popCallback: the operation returns or panics to its caller. *)
Return ==
    /\ stack' = Front(stack)
    /\ callback' = Top.previous

-----------------------------------------------------------------------------
(* Methods of Machine                                                      *)

Launch ==
    /\ callback = "none"
    /\ current = NoVisit
    /\ Enter(stack, callback, InitialNode)

TriggerAnywhere(e) ==                   \* wrong: allowed inside of a transition
    /\ current # NoVisit
    /\ Len(stack) < 3                   \* keeps the wrong machine finite
    /\ Leave(stack, callback, current, e)

Trigger(e) ==
    /\ current # NoVisit
    /\ callback # "transition"
    /\ Leave(stack, callback, current, e)

Stop ==
    /\ current # NoVisit
    /\ callback # "transition"
    /\ StopVisit(stack, callback, current)

-----------------------------------------------------------------------------
(* Handles.  Whoever has one may use it at any time.                       *)

Stale(v) == current # v

(* EntryMachine.OnExit. *)
OnExit(v) ==
    /\ v \in handed
    /\ ~Stale(v)
    /\ v \notin exits
    /\ exits' = exits \cup {v}
    /\ UNCHANGED <<tracer, node, current, callback, timers, stack, visits, handed, traced>>

(* AfterFunc of EntryMachine and of AfterFuncMachine, down to the           *)
(* timerGroup.                                                              *)
AfterFunc(v, t) ==
    /\ v \in handed
    /\ ~Stale(v)
    /\ D!AfterFunc(t)
    /\ group' = group \cup {t}
    /\ owner' = [owner EXCEPT ![t] = v]
    /\ UNCHANGED <<machine, stack, visits, handed, traced>>

(* A timer callback was given the AfterFuncMachine of v. *)
HasTimerHandle(v) ==
    \E t \in Timers : owner[t] = v /\ status[t] \in {"running", "done"}

HandleTrigger(v, e) ==
    /\ HasTimerHandle(v)
    /\ ~Stale(v)
    /\ Trigger(e)

HandleStop(v) ==
    /\ HasTimerHandle(v)
    /\ ~Stale(v)
    /\ Stop

-----------------------------------------------------------------------------
(* Timer callbacks                                                         *)

TimerFires(t) ==
    /\ stack = <<>>
    /\ D!Start(t)
    /\ stack' = <<[kind |-> "timer", visit |-> owner[t], to |-> NoNode,
                   timer |-> t, previous |-> callback]>>
    /\ callback' = "timer"
    /\ UNCHANGED <<tracer, node, current, exits, group, owner, visits, handed, traced>>

(* The deferred popCallback and removeTimer of a timer callback that        *)
(* returns; the timer is in the group no more if the callback has moved the *)
(* machine.                                                                 *)
TimerReturns ==
    /\ TopIs("timer")
    /\ D!Return(Top.timer)
    /\ group' = group \ {Top.timer}
    /\ Return
    /\ UNCHANGED <<tracer, node, current, exits, owner, visits, handed, traced>>

TimerPanicsHeld ==                      \* wrong: removeTimer is not deferred
    /\ TopIs("timer")
    /\ D!Panic(Top.timer)
    /\ Return
    /\ UNCHANGED <<tracer, node, current, exits, group, owner, visits, handed, traced>>

(* The same for one that panics, and the dispatcher catches the panic. *)
TimerPanics ==
    /\ TopIs("timer")
    /\ D!Panic(Top.timer)
    /\ group' = group \ {Top.timer}
    /\ Return
    /\ UNCHANGED <<tracer, node, current, exits, owner, visits, handed, traced>>

-----------------------------------------------------------------------------
(* Returns and panics of the callbacks of a transition                     *)

ExitProceeds ==
    /\ TopIs("exit")
    /\ Enter(Front(stack), Top.previous, Top.to)

(* The exit action returns a *Guarded. *)
ExitBlocks ==
    /\ TopIs("exit")
    /\ Return
    /\ UNCHANGED <<tracer, node, current, exits, timers, visits, handed, traced>>

(* Also when the exit action of a stop returns a *Guarded. *)
StopExitReturns ==
    /\ TopIs("stop exit")
    /\ EndVisit(Front(stack), Top.previous, Top.visit)

TraceReturns ==
    /\ TopIs("trace")
    /\ stack' = [stack EXCEPT ![Len(stack)].kind = "entry"]
    /\ handed' = handed \cup {Top.visit}
    /\ UNCHANGED <<machine, timers, visits, traced>>

StopTraceReturns ==
    /\ TopIs("stop trace")
    /\ Return
    /\ UNCHANGED <<tracer, node, current, exits, timers, visits, handed, traced>>

(* Entry returns nil, or a Command that fails: an unknown one, or the       *)
(* trigger of a nil event or of one without a transition.                   *)
EntryStays ==
    /\ TopIs("entry")
    /\ Return
    /\ UNCHANGED <<tracer, node, current, exits, timers, visits, handed, traced>>

EntryStops ==
    /\ TopIs("entry")
    /\ StopVisit(Front(stack), Top.previous, Top.visit)

EntryTriggers(e) ==
    /\ TopIs("entry")
    /\ Leave(Front(stack), Top.previous, Top.visit, e)

CallbackPanicsKeepingExit ==            \* wrong: the exit action stays registered
    /\ \E kind \in TransitionKinds : TopIs(kind)
    /\ Return
    /\ UNCHANGED <<tracer, node, current, exits, timers, visits, handed, traced>>

(* A callback of a transition panics.  runExit consumes the exit action,    *)
(* and the panic goes on to the caller of the operation.                    *)
CallbackPanics ==
    /\ \E kind \in TransitionKinds : TopIs(kind)
    /\ Return
    /\ exits' = IF Top.kind \in {"exit", "stop exit"} THEN exits \ {Top.visit} ELSE exits
    /\ UNCHANGED <<tracer, node, current, timers, visits, handed, traced>>

-----------------------------------------------------------------------------
(* What a callback does when it ends. *)
CallbackEnds ==
    \/ TimerReturns \/ TimerPanics
    \/ ExitProceeds \/ ExitBlocks \/ StopExitReturns
    \/ TraceReturns \/ StopTraceReturns
    \/ EntryStays \/ EntryStops \/ (\E e \in Events : EntryTriggers(e))
    \/ CallbackPanics

Next ==
    \/ Launch
    \/ \E e \in Events : Trigger(e)
    \/ Stop
    \/ \E v \in Visits :
         \/ OnExit(v)
         \/ \E t \in Timers : AfterFunc(v, t)
         \/ \E e \in Events : HandleTrigger(v, e)
         \/ HandleStop(v)
    \/ \E t \in Timers : TimerFires(t)
    \/ CallbackEnds

Spec == Init /\ [][Next]_vars

-----------------------------------------------------------------------------
(* Every timer that can still fire belongs to the visit the machine is in   *)
(* and is in the group that the end of that visit clears: no timer fires    *)
(* for a state that was left, whoever scheduled it and when                 *)
(* (src/state/manager.go:9-11).                                             *)
TimersOfCurrentVisit ==
    \A t \in Timers : status[t] = "pending" => t \in group /\ owner[t] = current

(* The group holds no timer whose callback has ended, also when it panicked *)
(* (src/state/timers.go:13-15).                                             *)
NoTimerLeak ==
    \A t \in group : status[t] = "pending" \/ D!Running(t)

(* At most one operation is in progress, innermost, and at most one timer   *)
(* callback, outermost: none of the callbacks can start a second operation  *)
(* inside of one (src/state/machine.go:42-44).                              *)
OneOperation ==
    /\ Len(stack) <= 2
    /\ \A i \in 1..Len(stack) : stack[i].kind = "timer" => i = 1
    /\ Len(stack) = 2 => stack[1].kind = "timer"
    /\ \A t \in Timers : D!Running(t) <=> \E i \in 1..Len(stack) : stack[i].timer = t

(* callback says what is in progress, through returns, blocked transitions  *)
(* and panics; in particular it is none whenever nothing is in progress, so *)
(* that the machine can always be stopped from outside                      *)
(* (src/state/machine.go:44-47, 225-238).                                   *)
KindOf(frame) == IF frame.kind = "timer" THEN "timer" ELSE "transition"

CallbackMatchesStack ==
    /\ callback = IF stack = <<>> THEN "none" ELSE KindOf(Top)
    /\ \A i \in 1..Len(stack) :
         stack[i].previous = IF i = 1 THEN "none" ELSE KindOf(stack[i - 1])

(* A callback runs while the machine is in the visit the callback belongs   *)
(* to, and a stop is traced once the machine is out of it                   *)
(* (src/state/machine.go:137-140).                                          *)
CallbackSeesItsState ==
    stack # <<>> =>
        /\ Top.kind \in {"exit", "stop exit", "trace", "entry"} => current = Top.visit
        /\ Top.kind = "stop trace" => current = NoVisit
        /\ Top.kind = "exit" =>
             Top.to # NoNode /\ \E e \in Events : Edges[node, e] = Top.to

(* The reported transitions are a walk: each starts where the last one      *)
(* ended and ends where the machine is (src/state/option.go:34-38).         *)
TraceIsTheWalk ==
    [][tracer /\ (visits' # visits \/ current' # current) =>
        traced'.from = traced.to /\ traced'.to = CurrentState']_vars

(* A visit with an exit action ends only when that action returns           *)
(* (src/state/machine.go:119-121, 175-178).                                 *)
ExitActionPrecedesTheEnd ==
    [][current' # current /\ current \in exits =>
        TopIs("exit") \/ TopIs("stop exit")]_vars

(* A stop cannot be blocked: it ends with the visit over or, after a panic  *)
(* of the exit action, with that action consumed, so that the next stop     *)
(* gets through without it (src/state/machine.go:119-121, 294-296).         *)
StopGetsThrough ==
    [][TopIs("stop exit") /\ stack' = Front(stack) =>
        current' = NoVisit \/ current \notin exits']_vars

(* The machine moves along the edges of its graph only.                     *)
W == INSTANCE StateWalk WITH at <- CurrentState

IsAStateWalk == W!Spec
=============================================================================
