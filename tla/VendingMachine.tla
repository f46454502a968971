--------------------------- MODULE VendingMachine ---------------------------
(***************************************************************************)
(* The vending machine example (src/examples/vending-machine/main.go): a   *)
(* state.Machine whose timers run on a virtualtime.Dispatcher.  It         *)
(* composes Machine with TimedDispatcher, which VirtualTime implements:    *)
(* both act on the same timers, and the states of the example are the      *)
(* user code that Machine leaves open.                                     *)
(*                                                                         *)
(* One goroutine triggers events and fast-forwards the clock in any order, *)
(* of which main() is one.                                                 *)
(***************************************************************************)
EXTENDS Naturals, Sequences

CONSTANTS
    Timeout,            \* of WaitingState, 10 s
    MaxTime,            \* bound on the clock
    MaxVisits           \* bound on the visits of a behaviour

ASSUME VendingMachineAssumption ==
    /\ Timeout \in Nat \ {0}
    /\ MaxTime \in Nat
    /\ MaxVisits \in Nat

Nodes == {"initial", "waiting", "pouring"}
NoNode == "none"
InitialNode == "initial"

(* Events by their type, buttons by their item, too. *)
Buttons == {"water", "coffee"}
Events == {"coin", "done"} \cup Buttons

EventType(e) == IF e \in Buttons THEN "*ButtonEvent" ELSE e

(* state.On: the edge is for all events of a type. *)
On(type, from, to) == [from |-> from, event |-> type, to |-> to]

stateGraph == {
    On("coin", "initial", "waiting"),
    On("coin", "waiting", "waiting"),
    On("done", "waiting", "initial"),
    On("*ButtonEvent", "waiting", "pouring"),
    On("done", "pouring", "initial") }

Edges ==
    [x \in Nodes \X Events |->
        LET matching == {d \in stateGraph : d.from = x[1] /\ d.event = EventType(x[2])}
        IN  IF matching = {} THEN NoNode ELSE (CHOOSE d \in matching : TRUE).to]

(* A visit schedules one timer at most, which goes by its number. *)
Timers == 1..MaxVisits
NoTimer == 0

VARIABLES
    tracer, node, current, callback, exits,
    group, status, halted, owner,
    stack, visits, handed, traced,      \* of the Machine
    clock, due, target,                 \* of the Dispatcher
    coins,                              \* VendingMachine.Coins
    event,                              \* what the last Trigger was called with
    lastCoin                            \* history: when the last coin was counted

M == INSTANCE Machine

T == INSTANCE TimedDispatcher WITH
        Durations <- {Timeout},
        Targets <- 1..MaxTime,
        answers <- [t \in Timers |-> {}]

machine == <<tracer, node, current, callback, exits, group, owner,
             stack, visits, handed, traced>>
time == <<clock, target>>
vars == <<machine, status, halted, time, due, coins, event, lastCoin>>

Init ==
    /\ M!Init
    /\ tracer
    /\ clock = 0
    /\ due = [t \in Timers |-> 0]
    /\ target = T!NoTarget
    /\ coins = 0
    /\ event = "none"
    /\ lastCoin = 0

(* The timers that a step of the machine stops are due no more. *)
DueOfPending ==
    due' = [t \in Timers |-> IF status'[t] = "pending" THEN due[t] ELSE 0]

-----------------------------------------------------------------------------
(* main                                                                    *)

MainRuns == stack = <<>> /\ target = T!NoTarget

Launch ==
    /\ MainRuns
    /\ M!Launch
    /\ DueOfPending
    /\ UNCHANGED <<time, coins, event, lastCoin>>

(* The bounds leave room for the end of each sale that begins. *)
Trigger(e) ==
    /\ MainRuns
    /\ visits + 3 <= MaxVisits /\ clock + Timeout <= MaxTime
    /\ M!Trigger(e)
    /\ event' = e
    /\ DueOfPending
    /\ UNCHANGED <<time, coins, lastCoin>>

FastForward(to) ==
    /\ MainRuns /\ current # M!NoVisit
    /\ to > clock
    /\ T!AdvanceTo(to)
    /\ UNCHANGED <<machine, coins, event, lastCoin>>

FastForwardReturns ==
    /\ T!Advanced
    /\ UNCHANGED <<machine, coins, event, lastCoin>>

-----------------------------------------------------------------------------
(* The callbacks                                                           *)

Entering(n) == M!TopIs("entry") /\ node = n

InitialEntry ==
    /\ Entering("initial")
    /\ coins' = 0
    /\ M!EntryStays
    /\ UNCHANGED <<time, due, event, lastCoin>>

(* WaitingState.Entry counts the coin and registers the guard, *)
WaitingEntry ==
    /\ Entering("waiting")
    /\ M!OnExit(M!Top.visit)
    /\ IF event = "coin"
       THEN coins' = coins + 1 /\ lastCoin' = clock
       ELSE UNCHANGED <<coins, lastCoin>>
    /\ UNCHANGED <<time, due, event>>

SetTimeoutOnce ==                       \* wrong: for the first coin only
    /\ Entering("waiting")
    /\ M!Top.visit \in exits
    /\ IF coins = 1
       THEN M!AfterFunc(M!Top.visit, M!Top.visit) /\ T!AfterFunc(M!Top.visit, Timeout)
       ELSE /\ status' = [status EXCEPT ![M!Top.visit] = "stopped"]
            /\ UNCHANGED <<machine, halted, time, due>>
    /\ UNCHANGED <<coins, event, lastCoin>>

(* then schedules the timeout *)
SetTimeout ==
    /\ Entering("waiting")
    /\ M!Top.visit \in exits
    /\ M!AfterFunc(M!Top.visit, M!Top.visit)
    /\ T!AfterFunc(M!Top.visit, Timeout)
    /\ UNCHANGED <<coins, event, lastCoin>>

(* and returns. *)
WaitingEntered ==
    /\ Entering("waiting")
    /\ status[M!Top.visit] # "unused"
    /\ M!EntryStays
    /\ UNCHANGED <<time, due, coins, event, lastCoin>>

(* PouringState.Entry returns the command to trigger the end. *)
PouringEntry ==
    /\ Entering("pouring")
    /\ M!EntryTriggers("done")
    /\ event' = "done"
    /\ DueOfPending
    /\ UNCHANGED <<time, coins, lastCoin>>

GuardsOneCoin == event = "coffee" /\ coins < 1       \* wrong: one coin is enough

(* What the exit action of WaitingState refuses. *)
Guards == event = "coffee" /\ coins < 2

WaitingExit ==
    /\ IF Guards THEN M!ExitBlocks ELSE M!ExitProceeds
    /\ DueOfPending
    /\ UNCHANGED <<time, coins, event, lastCoin>>

Traced ==
    /\ M!TraceReturns
    /\ UNCHANGED <<time, due, coins, event, lastCoin>>

(* The dispatcher calls the function of a timeout, *)
TimeoutFires(t) ==
    /\ M!TimerFires(t)
    /\ T!Start(t)
    /\ event' = "none"
    /\ UNCHANGED <<coins, lastCoin>>

(* which triggers the end of the visit *)
TimeoutTriggers ==
    /\ M!TopIs("timer") /\ event = "none"
    /\ M!HandleTrigger(M!Top.visit, "done")
    /\ event' = "done"
    /\ DueOfPending
    /\ UNCHANGED <<time, coins, lastCoin>>

(* and returns. *)
TimeoutReturns ==
    /\ M!TopIs("timer") /\ event = "done"
    /\ M!TimerReturns
    /\ UNCHANGED <<time, due, coins, event, lastCoin>>

-----------------------------------------------------------------------------
(* What goes on without main's doing. *)
Proceed ==
    \/ InitialEntry \/ WaitingEntry \/ SetTimeout \/ WaitingEntered \/ PouringEntry
    \/ WaitingExit \/ Traced
    \/ (\E t \in Timers : TimeoutFires(t)) \/ TimeoutTriggers \/ TimeoutReturns
    \/ FastForwardReturns

TimeGoesOn == \E to \in 1..MaxTime : FastForward(to)

Next == Launch \/ (\E e \in Events : Trigger(e)) \/ TimeGoesOn \/ Proceed

Spec == Init /\ [][Next]_vars

(* Callbacks return, and main fast-forwards the clock again and again, also  *)
(* when it triggers events that are blocked in between.                     *)
FairSpec == Spec /\ WF_vars(Proceed) /\ SF_vars(TimeGoesOn)

-----------------------------------------------------------------------------
(* No call that the example wraps in must.NoError fails, and PouringState   *)
(* is entered with a button only, as its type assertion demands: nothing    *)
(* panics, whatever the customer does and when                              *)
(* (src/examples/vending-machine/main.go:67, 81-83, 92).                    *)
NothingPanics ==
    /\ \A n \in Nodes : Entering(n) => ~M!Stale(M!Top.visit)
    /\ M!TopIs("timer") /\ event = "none" =>
        ~M!Stale(M!Top.visit) /\ Edges[node, "done"] # NoNode
    /\ Entering("pouring") => event \in Buttons

(* The machine as its customer sees it (src/examples/vending-machine/       *)
(* main.go:51-53): an item is poured only for its price, coins are kept     *)
(* until the sale ends and not a step longer, and a sale times out exactly  *)
(* Timeout after its last coin, never on behalf of an earlier one.          *)
Arriving == \E i \in 1..Len(stack) : stack[i].kind \in {"trace", "entry"}

Phase ==
    CASE node = "pouring" -> event
      [] node = "waiting" \/ (node = "initial" /\ ~Arriving) -> "open"
      [] OTHER -> IF stack # <<>> /\ stack[1].kind = "timer" THEN "expired" ELSE "closing"

S == INSTANCE VendingService WITH phase <- Phase

IsAVendingService == S!Spec

(* A sale ends: no coins stay in the machine for ever                       *)
(* (src/examples/vending-machine/main.go:80-83).                            *)
SalesEnd == coins > 0 ~> coins = 0
=============================================================================
