# kazura in TLA+

kazura is a Go library for state machines whose timers run on a dispatcher that
serializes function execution. These modules specify its components, TLC checks
them on small instances, and TLAPS proves the most important properties for all
instances. Paths are relative to the repository root.

## The system

| Component | Source | State | Operations |
|---|---|---|---|
| contract `task.Dispatcher`, `task.Timer` | `src/task/dispatcher.go`, `timer.go` | – (interface) | `AfterFunc`, `Timer.Stop`; running a function, a panic of one |
| `virtualtime.Dispatcher` | `src/task/virtualtime/dispatcher.go` | `running`, `advancedTo`, `stopErr`, the sorted queue `tasks` | `FastForward`, `AfterFunc`, `Stop` |
| `pausable.Dispatcher` | `src/task/pausable/dispatcher.go` | `paused`, `tracked`; per entry `delay`, `dispatchedAt`, `baseTimer` | `AfterFunc`, `Stop`, `Pause`, `Resume`; the wrapper it gives to its base |
| `state.Manager`, `timerGroup` | `src/state/manager.go`, `timers.go` | current value, its timers | `Get`, `Set`, `AfterFunc`, `Clear`, `removeTimer` |
| `state.Machine` with `EntryMachine`, `AfterFuncMachine` | `src/state/machine.go`, `state.go`, `option.go` | `node`, the current visit (in the Manager) with its exit action, `callback` | `Launch`, `Trigger`, `Stop`, `CurrentState`; `OnExit`, `AfterFunc` and `Trigger`/`Stop` of the handles |
| `graph.New`, `FindNext`, `getEdges`, `Dump` | `src/state/graph/graph.go`, `node.go`, `dump.go` | registry of nodes, their transitions, the wildcards | building and validating, lookup, traversal and rendering of a diagram |
| `state.NewGraph`, `On`, `must` | `src/state/graph.go`, `src/must` | – | type conversions, errors as panics |
| vending machine | `src/examples/vending-machine` | its states, `Coins` | a client: coins, buttons, cancellation, a timeout |
| `tasktest` | `src/task/tasktest` | – | the tests every dispatcher has to pass, which state the contract with time |

How they interact. A `Machine` looks events up in its `Graph`, holds its visit
in a `Manager`, and the `Manager` schedules timers on a `Dispatcher` the user
brings: `virtualtime`, `pausable` over any other, or one of the user's own.
`pausable` calls its base while it holds its mutex, and the base calls the
wrapper of `pausable`, which takes the same mutex. The machine calls user code
(exit actions, the Tracer, `Entry`, timer callbacks) in the middle of its
methods, and that code calls back into the machine and its handles.

What is hard about it, and what makes each component correct:

* **virtualtime**: goroutines and running functions change the queue between
  two dequeues of a `FastForward`; due times lie in the past; a function panics;
  the lock is free between a recovered panic and `shutdown`. Correct: no task is
  lost, run twice or run after a successful `Stop`; a function sees the time it
  was scheduled for; the clock is monotone; success means that all that was due
  has run; the first panic is final.
* **pausable**: the base takes a callback, or the clock moves, inside of
  `Pause`, `Resume` or `AfterFunc`. Correct: a suspended timer keeps its exact
  remainder, over several pauses; nothing fires during a pause or early, nothing
  fires twice; nobody dereferences a nil base timer; no deadlock with the base.
* **Machine**: reentrance from each callback, panics that unwind through nested
  callbacks, blocked transitions, chained events, stale handles, timers that an
  exit action schedules. Correct: callbacks run in the visit they belong to; no
  timer outlives its visit; one operation at a time; `callback` never gets
  stuck; what the Tracer hears is what happened; a stop always gets through.
* **Graph**: wildcards against explicit edges in every order of the arguments,
  reachability only through wildcards, identities with two values, states that
  cannot be compared. Correct: exactly the well-formed lists are accepted, the
  lookup is deterministic and complete, the traversals end and miss nothing,
  a diagram depends on nothing but the edges.
* **Manager**: timers of one value on several dispatchers, callbacks that nest,
  panic and replace the value under each other. Correct: no timer fires for a
  value that has been replaced, and the group is exactly the live timers.
* **pausable over virtualtime**: the caller's clock is at the target of an
  advance while the base's is still at the time of a function. Correct: without
  a pause the wrapper is invisible; with one, remainders are exact and nothing
  fires before its delay (the last does not hold, see Findings).
* **vending machine**: a machine, its timeouts and a clock together; each coin
  restarts the timeout. Correct: nothing panics, a sale is for the right price
  and ends at its own timeout at the latest.

`PROJECT.json` lists each hazard at its line with the properties that cover it.

## The modules

| Module | Models | Checked by | Proved in |
|---|---|---|---|
| `Dispatcher` | the contract, abstractly | through `VirtualTime`, `Pausable` | `DispatcherProofs` |
| `TimedDispatcher` | the contract with time, over `INSTANCE Dispatcher` | through `VirtualTime`, `PausableVirtual`, `PausableBetween`, `VendingMachine` | – (its refinements in `VirtualTimeProofs` and `PausableProofs`) |
| `VirtualTime` | virtualtime; implements `Dispatcher` and `TimedDispatcher` | `MCVirtualTime.cfg` | `VirtualTimeProofs`, `SequenceLemmas` |
| `Pausable` | pausable over `INSTANCE Dispatcher`; implements `Dispatcher` | `MCPausable`(`Live`, `Extreme`)`.cfg` | `PausableProofs` |
| `PausableVirtual` | `Pausable` over `INSTANCE TimedDispatcher`; implements it when never paused | `MCPausable`(`Virtual`, `Conformance`, `Early`)`.cfg` | `PausableProofs` |
| `PausableBetween` | `PausableVirtual` with `Pause` and `Resume` between two advances only; implements `TimedDispatcher` on a clock that stands still in pauses | `MCPausableBetween.cfg` | `PausableProofs` |
| `Manager` | Manager and timerGroup on their own, on several dispatchers | `MCManager.cfg` | `ManagerProofs` |
| `StateWalk` | what a machine promises: a walk on its graph | through `Machine` | – |
| `Machine` | Machine, handles, Manager and timerGroup over `INSTANCE Dispatcher`; implements `StateWalk` | `MCMachine.cfg` | `MachineProofs` |
| `Graph` | `graph.New`, `FindNext`, `Dump` | `MCGraph.cfg` | `GraphProofs` |
| `VendingService` | what the vending machine does for its customer | through `VendingMachine` | – |
| `VendingMachine` | the example: `INSTANCE Machine` and `INSTANCE TimedDispatcher` on the same timers; implements `VendingService` | `MCVendingMachine.cfg` | `VendingMachineProofs` |

Operators marked `wrong:` are variants of the definition below them with a
plausible bug. No specification uses them; put in place of that definition, each
makes a property fail, which shows that the property says something about it.

### Dispatcher

A timer is unused, pending, running, done or stopped; `halted` says that a
function has panicked. `Start` is enabled only while nothing runs, `Stop`
answers TRUE exactly for a pending timer. The order in which functions start is
left open: `src/task/dispatcher.go:17-18` leaves the order of indistinguishable
delays unspecified, and it is the implementations that have a clock.

### TimedDispatcher

What the conformance tests of `src/task/tasktest/dispatcher.go` add for every
implementation, with a clock and the due times: `AdvanceTo` has the functions
due by its target run, each at its own time (`Start` moves the clock there) and
in the order of these times, also those scheduled on the way; it returns
without an error when nothing due is left, and with one after a panic. It says
nothing of a queue, of goroutines or of the order at equal times.

### VirtualTime

A critical section of `mu` is one action (`ProceedStopped`, `ProceedRun`,
`ProceedDone` for `proceedAndDequeue`; `AfterFunc`; `StopPending`,
`StopTooLate` for `dropTask`; `Shutdown`). What `FastForward` does outside of it
– the compare-and-swap, the end or panic of the function, the deferred reset of
`running` – are actions too, so that other goroutines act in between. `pc` is
the place of each goroutine in `FastForward`; at `"call"` client code runs on it
and may call everything. A refused `FastForward` (`ErrRunning`) changes nothing
and is not an action. `created`, `started` and `answers` are history.

The refinement of `TimedDispatcher` maps `advancedTo` to its clock, the queue to
the due times and the end of the `FastForward` in progress to its target. It is
what `InsertionPoint` and the jump of the clock in `dequeue` have to get right
together.

### Pausable

A method holds `mu` from beginning to end, and calls the base in between. Each
call of the base in a loop is a step of its own (`PauseEntry`, `ResumeEntry`, in
any order, as the loops range over a map; `AfterFuncDispatches`), so that the
base takes callbacks (`BaseStarts`) and the clock moves (`Tick`) while a method
runs. `Callback` is the wrapper's critical section; it waits for `mu`. `Stop`
is one action: it has one call of the base, and no one sees what is around it.
The base is the contract plus a clock: it takes functions in the order of their
due times, not before these, possibly late. `now` reads `clock` and the base
measures by `baseClock`; in this module the two go together (`Tick`), as the
constructor demands (`src/task/pausable/dispatcher.go:126-128`). `time.Duration`
has a width: the subtraction in `PauseEntry` is `Wrapped` into
`MinDuration..MaxDuration` before `NotNegative`, as in the code. `original` and
`elapsed` are history: the delay that was asked for, and the time that has
passed since then while `paused` was false. `ErrPaused` and `ErrNotPaused`
change nothing and are not actions.

### PausableVirtual

The helper of `src/task/pausable/dispatcher_test.go:57-82` sets the clock that
`now` reads to a time and then fast-forwards the base to it. The module takes
the actions of `Pausable` for the wrapper and replaces its base by
`TimedDispatcher`, through `INSTANCE` on `baseClock` and `at`: `AdvanceTo` moves
`clock` at once, `BaseRuns` moves `baseClock` function by function. One
goroutine advances and calls methods in between; the worker stands for it
inside of functions. `VirtualSpec` is all of it, `UnpausedSpec` a client that
calls neither `Pause` nor `Resume`. `baseElapsed` is `elapsed` by the other
clock.

### PausableBetween

The client of `src/docs/state-machine-best-practices.md:280-296` pauses between
two frames: the goroutine that advances the clock calls `Pause` and `Resume`
when no advance is in progress, and functions call `AfterFunc` and `Stop` only.
For it the pausable dispatcher is a `TimedDispatcher` itself, on a clock that
stands still during pauses: `skipped` counts how far the base's clock has moved
while `paused`, `unpausedClock` is the rest, an advance during a pause is none,
and what is suspended is pending, due when the remainder of its delay has
elapsed on that clock.

`Agreed` is the client's part of it: nothing waits that a function asked for in
the middle of an advance and that a `Pause` would now measure on the caller's
clock, ahead of the base's. The remainder is then shorter, as
`src/task/pausable/dispatcher_test.go:390-409` fixes it; without the condition
the mapping does not hold.

### Manager

`current` is the number of a `Set`, `timers` the slice of the group with its
swap removal, `status` the timers on all dispatchers. A callback runs on a
stack: between two steps its code, or the owner's, calls `Set` and `AfterFunc`
and makes other dispatchers run timers (`Fires`), which nest. `Ends` is the
deferred `removeTimer`; after `Panics` the dispatcher of that timer runs nothing
more, but the callback around it goes on. One goroutine, as
`src/state/manager.go:13` demands.

### Machine and StateWalk

`stack` holds the callbacks in progress. Between two steps user code runs – the
innermost callback, or the machine's owner – and a step is what the machine does
until it calls user code again. `Enter`, `Leave`, `StopVisit` and `EndVisit` are
the pieces of the code between callbacks, used by `Launch`, `Trigger`, `Stop`
and the returns of callbacks. User code is unrestricted: it calls every method
and every handle it was ever given, returns, blocks or panics. Each frame
carries the `callbackKind` its deferred `popCallback` restores. Visits are
numbered as their `stateVisit` pointers are never reused. Calls that return an
error before they reach user code change nothing and are not actions.

Two conditions of use are assumed, both stated by the code: calls are serialized
with the timers (`src/state/machine.go:49-54`), and the dispatcher does not fire
a timer inside of a call of `AfterFunc` (`:246-249`). Hence a timer fires only
with an empty stack. The graph is not nil and has an initial node: the errors of
`Launch` for the others change nothing.

The refinement of `StateWalk` maps `CurrentState` to its position: a machine
launches into the initial node, moves along edges only, and stops. The spec
says nothing of callbacks or visits; that the interleaving of
callbacks never leads to a move from a node already left is what the mapping
shows.

### Graph

A behaviour builds one graph: `CreateInitial`, then the three loops of `Handle`,
one edge at a time (`Partition`, `HandleWild`, `HandleEdge`; `wildEdges` and
`regularEdges` are its slices `wilds` and `es`), `Seed` and `Visit` for the
search, then `CheckReachable`; `StartDump` and `Dump` are the traversal of
`getEdges`, `Render` the sorted lines. `Inputs` is a set of lists of edges;
choices of map iteration order are nondeterministic. A Go state is a value with
an identity (`Identity`) and may be incomparable (`Comparable`). Diagrams show
labels, which drop packages and pointers (`StateLabel`, `EventLabel`, not
injective); the text of a line is its place in the order of strings (`Place`),
which is all that sorting looks at. `sort.Strings` is what it returns
(`Sorted`): each line at its `Rank`, the number of lines that come before it.

### VendingMachine and VendingService

The states of the example are the user code that `Machine` leaves open: each
callback of the example is an action that says which step of `Machine` it takes,
what it does to `Coins`, and, for timers, which step of `TimedDispatcher` goes
with it; the two modules share the variable `status`. `WaitingState.Entry` is
three actions, since its calls of `OnExit` and `AfterFunc` are steps of
`Machine`. Buttons are events by their item, of one Go type (`EventType`), as
`On` keys edges by type. `main` becomes a goroutine that triggers any event and
fast-forwards to any time in any order; its four scenarios are some of the
behaviours. Numbers stand for timers: a visit has at most one, and a visit
number is never reused.

`VendingService` has no states, events or timers: coins, a phase and the time of
the last coin. `Expire` is enabled exactly `Timeout` after the last coin and
`PassTo` cannot pass that time, so the refinement says that the timeout of an
earlier coin ends nothing and that of the last one is not missed.

## The runs

Two runs look for a violation and find it (see Findings); the others end with
all properties satisfied. Deadlock is checked in the run of `VirtualTime`
only: elsewhere the system may stop, in `Graph` when the result is there, and in
the others when the bounds below are used up and the client calls nothing. The
contracts `Dispatcher`, `TimedDispatcher`, `StateWalk` and `VendingService` have
no runs of their own; they are what the refinements are checked against.

* **virtualtime** – safety, refinement and liveness. Two goroutines, three tasks,
  durations −1, 0 and 1, targets 0 to 2. Three tasks are the fewest for an
  insertion between two others; a duration in the past, none and a later
  one cover the three sides of the comparison in `AfterFunc`; with three targets
  a `FastForward` can go back, stay and go on. The refinement of both contracts
  is checked on the same states, and so is that a `FastForward` ends and runs what
  is due.
* **pausable** – safety and refinement. A worker of the base and one more
  goroutine, two entries, delays −1 and 2, clock to 3, at most two dispatches of
  an entry. The delay of 2 can be interrupted before, at and after its half and
  can be late; two dispatches are a suspension and a resumption, and a second
  pause can follow (its resumption cannot: the bound `MaxDispatches`). The two
  entries are interchangeable, so the run uses symmetry. Durations have four
  bits, −8 to 7: none of these delays comes near to wrapping.
* **pausable_extreme** – the same with a delay of −8, the smallest: a violation.
* **pausable_virtual** – are remainders exact over a lagging base? Two
  entries, delays 1 and 3, clock to 4: a function at 1 or 2 runs during an
  advance to 3 or 4 and pauses, resumes or both while the other one waits.
* **pausable_conformance** – is the wrapper invisible without a pause? Three
  entries, for one scheduled between two others; delays −1, 1 and 2, clock to 3.
* **pausable_between** – does a pause between two advances only stop the clock?
  Two entries, delays 1 and 2, clock to 3, three dispatches of an entry: each
  can be suspended before and after its half, a second time after it has been
  resumed, and while an advance goes on without it; the other one is due before,
  with or after it, or scheduled by it.
* **pausable_early** – is a function never early, by neither clock? The instance
  of pausable_virtual: a violation.
* **pausable_live** – no deadlock between the base and `mu`. Shorter delays and
  a clock to 1, no symmetry.
* **machine** – four visits on a graph with a branch, a way back, a self-loop
  and missing edges; two timers; with and without a Tracer. Four visits are
  enough to leave, return to the same node, stop and launch again; two timers
  for one that fires while another is pending.
* **graph** – every list of up to three edges over three nodes, two events,
  wildcards, and one edge of each kind that has to be refused. Three edges reach
  every rule: conflicts of two edges in each order, with a third for
  reachability; and cycles of up to three nodes, for termination. Two of the
  nodes share a label.
* **manager** – three timers on one dispatcher and two on another, three calls
  of `Set`. The swap removal has a first, a middle and a last entry; two callbacks
  nest, and each can replace the value. Timers of a dispatcher are
  interchangeable.
* **vending** – a timeout of 2, the clock to 6, nine visits: time passes half of
  a timeout, all of it and more, up to three times; nine visits are one sale
  with up to six coins, two with a drink or three without. `Trigger` leaves room
  for the visits that end a sale, so that `SalesEnd` is not cut off by the bound.

### Fairness

* `VirtualTime`: weak fairness of the steps of a goroutine in `FastForward`: it
  runs on, and `mu` is held for a moment only. The functions it runs are assumed
  to return. `Tasks` bounds how many functions schedule further ones; without a
  bound `FastForward` need not end, nor does the code.
* `Pausable`: weak fairness of the steps of a method that holds the lock and
  of the end of callbacks; strong fairness of the wrapper's critical section,
  since `mu` can be free and taken again while it waits: a `sync.Mutex` hands
  over to a waiter in its starvation mode after a millisecond. `MethodsReturn`
  says that a method that has the lock gives it back.
* `Graph`: weak fairness of its only thread.
* `VendingMachine`: weak fairness of what goes on by itself (callbacks, the
  `FastForward` in progress); strong fairness of `TimeGoesOn`, that `main`
  fast-forwards again and again: it is interrupted by each `Trigger`, and a
  customer who presses a refused button for ever must not stop the time.
* `Machine`, `Manager`, `PausableVirtual` and `PausableBetween` claim no
  liveness: user code decides what comes next.

## Findings

* **pausable_extreme** (`src/task/pausable/dispatcher.go:90`). A delay next to
  the smallest `time.Duration`, such as `time.Until` of the zero `time.Time`, is
  legal and means at once (`src/task/dispatcher.go:13`). When `Pause` comes
  before the base has run the function and some time has elapsed,
  `entry.delay-elapsed` wraps around to one of the largest durations, `max(0, ·)`
  lets it pass, and the function is due in about 292 years. The comment at
  `:72-73` says that the remainder counts only the time elapsed.
* **pausable_early** (`src/task/pausable/dispatcher.go:111`). A function of a
  virtualtime base pauses and resumes. Remainders are measured on the caller's
  clock, which is at the target already, and given to a base that counts them
  from the time of that function. In the run two functions are asked for at 0,
  with delays 1 and 3. `AdvanceTo(2)` runs the first at 1; it pauses and resumes,
  which leaves 3 − 2 = 1 of the other delay, to be counted from 1. The second
  function runs at 2, when no clock has counted more than 2 of its 3. The
  contract says "executed after duration d" (`src/task/dispatcher.go:11`). Tests
  fix that a pause in a function measures on the caller's clock
  (`src/task/pausable/dispatcher_test.go:373-388`), but none resumes there; the
  constructor's comment (`:126-127`) takes the two clocks for one.

## The proofs

All are for every value of the constants under the `ASSUME` of the module:
`Tasks`, `Timers`, `Goroutines`, `Entries`, `States`, `Events` and `Nodes` are
arbitrary sets, the lists of edges have any length, and what bounds a counter
(`MaxVisits`, `MaxTime`, `MaxDispatches`, `MaxValues`) is any natural number
(`MaxDispatches` at least 1, or no function would ever be dispatched). Two
theorems have a hypothesis of their own, `NoDelayWraps`, explained below. Every
safety property, action property and refinement of a run that passes is stated
by a theorem.

Each inductive invariant was model-checked on the instance of its component's
run before it was proved. In every module `IInv` is that invariant, each action
has a step or a lemma that it preserves `IInv`, and the theorem `Invariance`
(or its like) is what the others follow from.

* **DispatcherProofs**: `Contract` (`Serial`, with `TypeOK`), `Prevention`
  (`StopIsFinal`, from the invariant `StopIsTruthful`) and `Halting`: two
  functions never run at a time, a timer whose `Stop` answered TRUE never runs
  later, and nothing starts after a panic. What implements the contract inherits
  them through its refinement.
* **VirtualTimeProofs**: `Exclusion`, `QueueOrder`, `FunctionTime`,
  `Accounting`, `ClockMonotonicity`, `PanicIsFinal`, `Completeness`,
  `Refinement` and `TimedRefinement`. `IInv` is the conjunction of the checked
  invariants and of four more, `TypeOK`, `QueueIsSorted`, `NothingOverdue` and
  `NothingRunsOnceStopped`; none is inductive alone. Monotonicity needs that
  nothing queued is overdue, as `dequeue` sets the clock; that needs the queue
  sorted, as the head is then the minimum; that a function sees its time needs
  the exclusion of `FastForward`s, or another would move the clock.
  `Completeness` reads the sorted queue: the head is later than the target, so
  all are. `TimedRefinement` maps each step to one of the contract with time:
  what is dequeued is the head, and a sorted queue makes its due time the least,
  so the contract lets it start there and then; a step that ends an advance
  finds nothing due left; and a step that does neither leaves every due time in
  place, whatever it inserts or removes (`DueKept`). `SequenceLemmas` has the
  facts on inserting into and removing from a queue; `InsertionPoint` is
  described by what it guarantees.
* **PausableProofs**: `TypeCorrect`, `NoNilTimer`, `PauseIsComplete`,
  `OnceOnly`, `NoneIsEarly`, `RemainderIsExact`, `Refinement`, `Conformance`,
  `UnpausedInTime` and `UnpausedTime`. `Pausable` and `PausableVirtual` differ in how the clocks
  move and in when the base takes a function, and most of what the wrapper
  guarantees depends on neither. `LooseNext` is what they have in common: the
  caller's clock goes on, the base's goes anywhere behind it, and the base takes
  any pending function. `SpecIsLoose` and `VirtualSpecIsLoose` say that both are
  such a behaviour, so a theorem about `LooseSpec` is one about `Spec` and
  `VirtualSpec`, also for functions that pause and resume the dispatcher that
  runs them.

  A method is in the middle of its loop while the base takes callbacks, so
  `IInv` says what holds there: `LockOK`, who has the lock and which entries are
  left to it; `TimersOK`, what the status of a base timer says about its entry,
  and where an entry is says about its timer; `ClocksOK` and `PauseIsLast`, that
  nothing is measured from a later time than it is measured to.
  `BaseTimerMatchesPause` alone is not inductive: the callback that removes an
  entry from `tracked` has to be of the timer the entry refers to.

  The two theorems on pauses and time have invariants of their own, about
  `Remaining(e)`, what is left of the delay by the dispatcher's book-keeping, and
  `Owed(e)`, what the caller is owed by the caller's clock. That the one is not
  less than the other (`NotTooShort`) holds for all delays: one so negative that
  `Pause` wraps it round becomes later. That it is not more (`NotTooLong`) does
  not, as the run **pausable_extreme** shows; hence the hypothesis of
  `RemainderIsExact`, that no delay, nor 0, is within `MaxTime` of the smallest
  `Duration`: the time that passes in a behaviour fits a `Duration` and can be
  subtracted from every delay. The delays of the runs satisfy it. `NoneIsEarly`
  needs `SameClock`, that the base measures by the clock of `now`, and is stated
  for `Spec` alone: **pausable_early** refutes it without.

  `Refinement` is that of `Dispatcher`: `StatusMeaning` says what the mapped
  status of an entry is in terms of its last base timer, the answers of `Stop`
  and where it waits; each action then is a step of the contract or stutters.
  `Pause` and `Resume` stutter: suspended is pending.

  `Conformance` is the refinement of `TimedDispatcher` by `UnpausedSpec`. Its
  invariant adds `Unpaused`: no `Pause` or `Resume` is in progress, and an entry
  never has another base timer than its first, with the delay it was asked for.
  So the status and the due time of that timer are those of the contract
  (`statusC`, `dueC`); a call of `AfterFunc` takes effect where the wrapper
  calls the base, the wait of a callback for `mu` and what follows it is part of
  the function, and the rest is not seen. `UnpausedInTime` adds `InTime`: what
  is missing of a delay on the base's clock is no more than the base still
  waits. It is the positive half of the finding of **pausable_early**, for all
  delays, clocks and clients: the early function takes a pause and a resumption.

  `UnpausedTime` is the refinement of `TimedDispatcher` by `BetweenSpec`, under
  `NoDelayWraps`, as it is about exact remainders. Its invariant is
  `BetweenInv`, whose heart is `LeftIsOwed`: what the base still waits for a
  dispatched entry, or what is recorded of a suspended one, is what is missing
  of its delay by `baseElapsed`. A `Pause` computes the remainder by `elapsed`
  instead; `Agreed` makes them the same (`PausedAlike`), and from `Resume` on
  the base counts again from the time it counted to. `Turns` says that a method
  of the caller and an advance exclude each other, and that no function runs
  during a pause. Then each action is a step of the timed contract or a stutter:
  `DueStays` and `DueMoves` are about the due times of the entries the step is
  not about, while the clock stands or moves, and by `DueWhileAlone` the base
  waits exactly as long as the contract, so it runs and leaves the same.

* **ManagerProofs**: `GroupIsExact` and `TimersDieWithTheirValue`. `IInv` adds
  that the stack is exactly the timers that run, once each (or the swap in
  `removeTimer` could take out another timer), and that what is pending was
  scheduled for the current value (`PendingIsCurrent`).
* **GraphProofs**: `Acceptance`, `Determinism`, `Following`, `DumpIsComplete`
  and `Types`. `Acceptance` is the comment of `New` in both directions.
  That what it accepts is well-formed needs that no edge is lost on its way
  through the three loops, and that one given twice cannot get through
  (`EdgesOK`: an edge is given twice exactly if it waits twice, or waits and is
  recorded already, in which case it is about to be refused). That it refuses
  nothing well-formed needs that every transition comes from an edge and every
  node from a state of the arguments (`TransitionsOK`, `NodesOK`), so that a
  conflict found is one of the arguments. For the search, `visited` never leaves
  the reachable nodes, and is closed under the edges once the queue is empty
  (`SearchOK`, `TraversalIsComplete`). The same closure shows that `getEdges`,
  which starts elsewhere, collects every edge. `DumpIsComplete` goes on to the
  lines: `Rank` numbers the positions of a list from 1 on without a gap or a
  repetition, so sorting by it is a permutation, in order. `Determinism` rests
  on the order of the loops: while a wildcard waits, no node has a transition
  (`PhaseOK`).
* **MachineProofs**: `Types`, `TimerConfinement`, `NoLeak`, `NoReentrance`,
  `CallbackIsAccurate`, `CallbackState`, `Tracing`, `ExitFirst`, `StopEnds` and
  `Refinement`. `IInv` adds to the invariants that timers belong to visits which
  exist (`OwnersAreVisits`: or a new visit could inherit an old timer) and that
  the last reported transition ends where the machine is (`TracedIsHere`). The
  twenty actions are sorted into a handful of kinds of step (`StepKinds`) and
  each kind preserves `IInv`. The heart is `CallbackMatchesStack` together with
  `OneOperation`: `callback` describes the stack, so its guards keep the stack
  at one timer and one operation, so the visit an operation read at its start
  is still current when its callback returns.

* **VendingMachineProofs**: `NoPanic` and `Service`, the refinement of
  `VendingService`, for any timeout. `IInv` is about the two composed modules at
  once. `StackInv` is the part of the invariant of `MachineProofs` that the
  example needs; `NodeInv` says what runs in which state and for which event
  (below a timer callback only the end of a sale is in progress); `TimeoutInv`
  ties the machine to the clock: a pending timer is the one of the current
  visit, of a visit with an exit action, and due `Timeout` after `lastCoin`, and
  a sale at rest has one pending. So a fast-forward that returns has not passed
  the timeout, and a timer callback finds the clock at it. The mapping needs one
  fact of its own, that only the innermost callback can be that of an arrival
  (`PhaseFacts`); then each action is a step of the service or none (the lemmas
  `...Serves`).

Only model-checked is liveness, for which the provers have no temporal fairness
reasoning: `FastForwardEnds`, `DueFunctionsRun`, `MethodsReturn`,
`TakenIsCalled`, `Ends` and `SalesEnd`.

Not claimed: the order of the functions that `Resume` dispatches overdue (see
the hazard at `src/task/pausable/dispatcher.go:109`).

## Not modelled

The characters of labels, diagrams and errors; the values machines and
transitions carry (`T`, `Event`, `Guarded`), which nothing tells apart;
`state.NewGraph`, which converts its edges one by one to the same records; the
helpers of `must` other than `NoError`; the test harness and the benchmarks of
`tasktest`; real time dispatchers, which the library leaves to its users and
which the contract stands for. The simulated time of `VirtualTime` is a natural
number: a `time.Time` does not overflow by a `time.Duration` from any date in
use.
