------------------------ MODULE VendingMachineProofs ------------------------
(***************************************************************************)
(* Proofs about VendingMachine for any timeout and any bounds on the clock *)
(* and on the visits.                                                      *)
(***************************************************************************)
EXTENDS VendingMachine, SequenceLemmas

-----------------------------------------------------------------------------
(* The inductive invariant                                                 *)

Pending(t) == status[t] = "pending"

Calls == {"trace", "entry", "exit", "timer"}

TypeInv ==
    /\ tracer = TRUE /\ halted = FALSE
    /\ node \in Nodes \cup {NoNode}
    /\ visits \in 0..MaxVisits
    /\ current \in 0..visits
    /\ callback \in {"none", "timer", "transition"}
    /\ exits \in SUBSET (1..visits)
    /\ status \in [Timers -> M!D!Statuses]
    /\ \A t \in Timers : status[t] # "unused" => t <= visits
    /\ owner \in [Timers -> Timers \cup {0}]
    /\ stack \in Seq(M!Frames)
    /\ clock \in Nat /\ lastCoin \in Nat /\ coins \in Nat
    /\ due \in [Timers -> Nat]
    /\ target \in Nat \cup {T!NoTarget}
    /\ event \in Events \cup {"none"}

OnTimer == stack # <<>> /\ stack[1].kind = "timer"

Arrives == M!TopIs("trace") \/ M!TopIs("entry")

(* One operation is in progress at most, in a callback of main or of one    *)
(* timer, and its callback sees the visit it belongs to.                    *)
StackInv ==
    /\ Len(stack) <= 2
    /\ \A i \in 1..Len(stack) :
         stack[i].kind \in Calls /\ (stack[i].kind = "timer" => i = 1)
    /\ Len(stack) = 2 => stack[1].kind = "timer" /\ event = "done"
    /\ OnTimer => stack[1].timer \in Timers /\ status[stack[1].timer] = "running"
    /\ Arrives \/ M!TopIs("exit") => current = M!Top.visit
    /\ stack # <<>> /\ target # T!NoTarget => OnTimer

(* The coins and the timeout are those of a visit of WaitingState that has  *)
(* counted its coin: it is the one with an exit action.                     *)
TimeoutInv ==
    /\ \A t \in Timers : Pending(t) =>
         /\ t = current /\ t \in exits /\ t \in group /\ owner[t] = t
         /\ due[t] = lastCoin + Timeout /\ due[t] >= clock
    /\ current \in exits => node = "waiting" /\ coins > 0
    /\ node = "waiting" /\ current \in exits =>
         /\ ~M!TopIs("trace")
         /\ M!TopIs("entry") => ~OnTimer /\ lastCoin = clock
         /\ OnTimer => clock = lastCoin + Timeout
         /\ ~OnTimer /\ ~M!TopIs("entry") => Pending(current)
    /\ node = "waiting" /\ Arrives => status[current] \in {"unused", "pending"}

(* Edges, event by event. *)
Destination(n, e) ==
    IF e = "coin" /\ n \in {"initial", "waiting"} THEN "waiting"
    ELSE IF e \in Buttons /\ n = "waiting" THEN "pouring"
    ELSE IF e = "done" /\ n \in {"waiting", "pouring"} THEN "initial"
    ELSE NoNode

(* What runs in which state, and for which event. *)
NodeInv ==
    /\ current = M!NoVisit <=> node = NoNode
    /\ node = NoNode => stack = <<>> /\ coins = 0 /\ target = T!NoTarget
    /\ M!TopIs("exit") =>
         /\ current \in exits
         /\ M!Top.to # NoNode /\ M!Top.to = Destination("waiting", event)
    /\ M!TopIs("timer") =>
         \/ event = "none" /\ current \in exits /\ current = M!Top.visit
         \/ event = "done" /\ node = "initial"
    /\ node = "initial" /\ ~Arrives => coins = 0
    /\ node = "waiting" /\ current \notin exits => Arrives /\ ~OnTimer /\ event = "coin"
    /\ node = "pouring" => Arrives /\ ~OnTimer /\ event \in Buttons

IInv == TypeInv /\ StackInv /\ TimeoutInv /\ NodeInv

-----------------------------------------------------------------------------
(* The operators of the model                                              *)

(* The transitions that stateGraph gives to the nodes, event by event.      *)
LEMMA EdgeFacts ==
    ASSUME NEW n \in Nodes, NEW e \in Events
    PROVE  Edges[n, e] = Destination(n, e)
<1> DEFINE matching == {d \in stateGraph : d.from = n /\ d.event = EventType(e)}
<1>1. Edges[n, e] = IF matching = {} THEN NoNode ELSE (CHOOSE d \in matching : TRUE).to
  <2>1. Edges[n, e] = Edges[<<n, e>>]
    OBVIOUS
  <2>2. Edges[<<n, e>>] = IF matching = {} THEN NoNode ELSE (CHOOSE d \in matching : TRUE).to
    BY DEF Edges
  <2> QED
    BY <2>1, <2>2
<1>2. \A d \in stateGraph : d.from = n /\ d.event = EventType(e) =>
        d.to = Destination(n, e)
  BY DEF Destination, stateGraph, On, EventType, Events, Buttons, Nodes
<1>3. matching # {} => (CHOOSE d \in matching : TRUE) \in matching
  OBVIOUS
<1>4. ASSUME matching = {}
      PROVE  Destination(n, e) = NoNode
  <2>1. \A d \in stateGraph : ~(d.from = n /\ d.event = EventType(e))
    BY <1>4
  <2>2. /\ On("coin", "initial", "waiting") \in stateGraph
        /\ On("coin", "waiting", "waiting") \in stateGraph
        /\ On("done", "waiting", "initial") \in stateGraph
        /\ On("*ButtonEvent", "waiting", "pouring") \in stateGraph
        /\ On("done", "pouring", "initial") \in stateGraph
    BY DEF stateGraph
  <2>3. /\ ~("initial" = n /\ "coin" = EventType(e))
        /\ ~("waiting" = n /\ "coin" = EventType(e))
        /\ ~("waiting" = n /\ "done" = EventType(e))
        /\ ~("waiting" = n /\ "*ButtonEvent" = EventType(e))
        /\ ~("pouring" = n /\ "done" = EventType(e))
    BY <2>1, <2>2 DEF On
  <2> QED
    BY <2>3 DEF Destination, EventType, Buttons
<1> QED
  BY <1>1, <1>2, <1>3, <1>4

(* The innermost callback.                                                  *)
LEMMA TopFacts ==
    ASSUME TypeInv, stack # <<>>
    PROVE  /\ Len(stack) \in Nat /\ Len(stack) >= 1
           /\ M!Top = stack[Len(stack)] /\ M!Top \in M!Frames
           /\ M!Front(stack) \in Seq(M!Frames)
           /\ Len(M!Front(stack)) = Len(stack) - 1
           /\ \A j \in 1..(Len(stack) - 1) : M!Front(stack)[j] = stack[j]
<1>1. stack \in Seq(M!Frames)
  BY DEF TypeInv
<1>2. M!Front(stack) = Front(stack) /\ M!Top = Last(stack)
  BY DEF M!Front, Front, M!Top, M!Last, Last
<1> QED
  BY <1>1, <1>2, FrontFacts

(* Manager.Set leaves no timer pending, and only changes pending timers.    *)
LEMMA ClearFacts ==
    ASSUME TypeInv, TimeoutInv,
           status' = [t \in Timers |-> IF t \in group /\ status[t] = "pending"
                                       THEN "stopped" ELSE status[t]]
    PROVE  /\ status' \in [Timers -> M!D!Statuses]
           /\ \A t \in Timers : ~Pending(t)'
           /\ \A t \in Timers : status[t] # "pending" => status'[t] = status[t]
           /\ \A t \in Timers : status'[t] # "unused" => status[t] # "unused"
BY DEF TypeInv, TimeoutInv, Pending, M!D!Statuses

-----------------------------------------------------------------------------
(* The kinds of steps                                                      *)

(* rest is what a transition runs on: nothing, or the callback of the timer *)
(* at the bottom of the stack.                                              *)
Base(rest) ==
    /\ rest \in Seq(M!Frames)
    /\ \/ rest = <<>> /\ Len(rest) = 0
       \/ /\ OnTimer /\ Len(rest) = 1
          /\ rest # <<>> /\ rest[1] = stack[1]

(* The stack after a transition has called a callback.                      *)
LEMMA PushFacts ==
    ASSUME IInv, NEW rest, Base(rest), NEW frame \in M!Frames,
           frame.kind \in Calls, frame.kind # "timer", stack' = Append(rest, frame)
    PROVE  /\ stack' \in Seq(M!Frames)
           /\ stack' # <<>>
           /\ Len(stack') = Len(rest) + 1 /\ Len(stack') \in 1..2
           /\ M!Top' = frame
           /\ \A i \in 1..Len(stack') :
                stack'[i].kind \in Calls /\ (stack'[i].kind = "timer" => i = 1)
           /\ Len(stack') = 2 => stack'[1].kind = "timer"
           /\ OnTimer' <=> rest # <<>>
           /\ OnTimer' => stack'[1] = stack[1] /\ OnTimer
           /\ \A kind \in Calls : M!TopIs(kind)' <=> kind = frame.kind
           /\ Arrives' <=> frame.kind \in {"trace", "entry"}
<1>1. rest \in Seq(M!Frames) /\ Len(rest) \in 0..1
  BY DEF Base
<1>2. /\ stack' \in Seq(M!Frames)
      /\ stack' # <<>>
      /\ Len(stack') = Len(rest) + 1
      /\ \A j \in 1..Len(rest) : stack'[j] = rest[j]
      /\ stack'[Len(rest) + 1] = frame
  BY <1>1, AppendFacts
<1>3. M!Top' = frame
  BY <1>1, <1>2 DEF M!Top, M!Last
<1>4. rest # <<>> => rest[1] = stack[1] /\ OnTimer /\ Len(rest) = 1
  BY DEF Base
<1>5. rest = <<>> => Len(rest) = 0
  BY DEF Base
<1>6. /\ rest # <<>> => stack'[1] = stack[1] /\ stack[1].kind = "timer" /\ stack'[2] = frame
      /\ rest = <<>> => stack'[1] = frame
  BY <1>1, <1>2, <1>4, <1>5 DEF OnTimer
<1>7. OnTimer' <=> rest # <<>>
  BY <1>2, <1>6 DEF OnTimer
<1>8. \A i \in 1..Len(stack') :
        stack'[i].kind \in Calls /\ (stack'[i].kind = "timer" => i = 1)
  BY <1>1, <1>2, <1>4, <1>5, <1>6 DEF Calls
<1>9. /\ \A kind \in Calls : M!TopIs(kind)' <=> kind = frame.kind
      /\ Arrives' <=> frame.kind \in {"trace", "entry"}
  BY <1>2, <1>3 DEF M!TopIs, Arrives, Calls
<1> QED
  BY <1>1, <1>2, <1>3, <1>4, <1>5, <1>6, <1>7, <1>8, <1>9

(* The stack after the innermost callback has returned.                     *)
LEMMA PopFacts ==
    ASSUME IInv, stack # <<>>, stack' = M!Front(stack)
    PROVE  /\ stack' \in Seq(M!Frames)
           /\ Base(stack')
           /\ stack' = <<>> <=> Len(stack) = 1
           /\ stack' # <<>> <=> Len(stack) = 2
           /\ OnTimer' <=> stack' # <<>>
           /\ stack' # <<>> => M!Top' = stack[1] /\ stack'[1] = stack[1] /\ Len(stack') = 1
           /\ \A kind \in Calls : M!TopIs(kind)' <=> kind = "timer" /\ stack' # <<>>
           /\ ~Arrives'
<1>1. /\ Len(stack) \in 1..2
      /\ stack' \in Seq(M!Frames)
      /\ Len(stack') = Len(stack) - 1
      /\ \A j \in 1..(Len(stack) - 1) : stack'[j] = stack[j]
  BY TopFacts DEF IInv, StackInv
<1>2. stack' = <<>> <=> Len(stack') = 0
  BY <1>1, EmptySeq
<1>3. Len(stack) = 2 => stack[1].kind = "timer"
  BY DEF IInv, StackInv
<1>4. stack' # <<>> => M!Top' = stack[1] /\ stack'[1] = stack[1] /\ Len(stack') = 1
  BY <1>1, <1>2 DEF M!Top, M!Last
<1>5. OnTimer' <=> stack' # <<>>
  BY <1>1, <1>2, <1>3, <1>4 DEF OnTimer
<1>6. Base(stack')
  BY <1>1, <1>2, <1>3, <1>4 DEF Base, OnTimer
<1>7. \A kind \in Calls : M!TopIs(kind)' <=> kind = "timer" /\ stack' # <<>>
  BY <1>1, <1>2, <1>3, <1>4 DEF M!TopIs, Calls
<1>8. ~Arrives'
  BY <1>7 DEF Arrives, Calls
<1> QED
  BY <1>1, <1>2, <1>4, <1>5, <1>6, <1>7, <1>8

(* The machine enters the node to.                                          *)
EnterStep(rest, previous, to) ==
    /\ M!Enter(rest, previous, to)
    /\ Base(rest)
    /\ previous \in {"none", "timer", "transition"}
    /\ to \in Nodes
    /\ event' \in Events \cup {"none"}
    /\ to = "waiting" => event' = "coin" /\ rest = <<>>
    /\ to = "pouring" => event' \in Buttons /\ rest = <<>>
    /\ rest # <<>> => event' = "done"
    /\ rest = <<>> => target = T!NoTarget
    /\ DueOfPending
    /\ UNCHANGED <<time, coins, lastCoin>>

(* What the steps that enter a node have in common.                         *)
LEMMA EnterFacts ==
    ASSUME IInv, NEW rest, NEW previous, NEW to, EnterStep(rest, previous, to)
    PROVE  \E frame \in M!Frames :
             /\ stack' = Append(rest, frame)
             /\ frame.kind = "trace" /\ frame.visit = current'
             /\ visits' = visits + 1 /\ visits' \in 1..MaxVisits
             /\ current' = visits' /\ current' \notin exits'
             /\ node' = to /\ callback' = "transition"
             /\ status' \in [Timers -> M!D!Statuses]
             /\ \A t \in Timers : ~Pending(t)'
             /\ \A t \in Timers : status[t] # "pending" => status'[t] = status[t]
             /\ \A t \in Timers : status'[t] # "unused" => status[t] # "unused"
             /\ due' \in [Timers -> Nat]
             /\ UNCHANGED <<tracer, exits, halted, owner, time, coins, lastCoin>>
<1> DEFINE frame == M!Frame("trace", visits', NoNode, previous)
<1>1. TypeInv /\ TimeoutInv
  BY DEF IInv
<1>2. /\ visits < MaxVisits
      /\ visits' = visits + 1 /\ current' = visits'
      /\ node' = to /\ callback' = "transition"
      /\ status' = [t \in Timers |-> IF t \in group /\ status[t] = "pending"
                                     THEN "stopped" ELSE status[t]]
      /\ stack' = Append(rest, frame)
      /\ UNCHANGED <<tracer, exits, halted, owner, time, coins, lastCoin>>
      /\ previous \in {"none", "timer", "transition"}
      /\ due' = [t \in Timers |-> IF status'[t] = "pending" THEN due[t] ELSE 0]
  BY <1>1 DEF EnterStep, M!Enter, M!Set, TypeInv, DueOfPending
<1>3. visits' \in 1..MaxVisits /\ current' \notin exits'
  BY <1>1, <1>2, VendingMachineAssumption DEF TypeInv
<1>4. frame \in M!Frames /\ frame.kind = "trace" /\ frame.visit = current'
  BY <1>2, <1>3 DEF M!Frame, M!Frames, M!Visits, M!TransitionKinds
<1>5. due' \in [Timers -> Nat]
  BY <1>1, <1>2 DEF TypeInv
<1>6. /\ status' \in [Timers -> M!D!Statuses]
      /\ \A t \in Timers : ~Pending(t)'
      /\ \A t \in Timers : status[t] # "pending" => status'[t] = status[t]
      /\ \A t \in Timers : status'[t] # "unused" => status[t] # "unused"
  BY <1>1, <1>2, ClearFacts
<1> HIDE DEF frame
<1> QED
  BY <1>2, <1>3, <1>4, <1>5, <1>6

(* Entering a node preserves the invariant.                                 *)
LEMMA EnterPreserves ==
    ASSUME IInv, NEW rest, NEW previous, NEW to, EnterStep(rest, previous, to)
    PROVE  IInv'
<1>1. PICK frame \in M!Frames :
             /\ stack' = Append(rest, frame)
             /\ frame.kind = "trace" /\ frame.visit = current'
             /\ visits' = visits + 1 /\ visits' \in 1..MaxVisits
             /\ current' = visits' /\ current' \notin exits'
             /\ node' = to /\ callback' = "transition"
             /\ status' \in [Timers -> M!D!Statuses]
             /\ \A t \in Timers : ~Pending(t)'
             /\ \A t \in Timers : status[t] # "pending" => status'[t] = status[t]
             /\ \A t \in Timers : status'[t] # "unused" => status[t] # "unused"
             /\ due' \in [Timers -> Nat]
             /\ UNCHANGED <<tracer, exits, halted, owner, time, coins, lastCoin>>
  BY EnterFacts
<1>2. /\ Base(rest)
      /\ to \in Nodes /\ event' \in Events \cup {"none"}
      /\ to = "waiting" => event' = "coin" /\ rest = <<>>
      /\ to = "pouring" => event' \in Buttons /\ rest = <<>>
      /\ rest # <<>> => event' = "done"
      /\ rest = <<>> => target = T!NoTarget
  BY DEF EnterStep
<1>3. /\ stack' \in Seq(M!Frames)
      /\ stack' # <<>>
      /\ Len(stack') = Len(rest) + 1 /\ Len(stack') \in 1..2
      /\ M!Top' = frame
      /\ \A i \in 1..Len(stack') :
           stack'[i].kind \in Calls /\ (stack'[i].kind = "timer" => i = 1)
      /\ Len(stack') = 2 => stack'[1].kind = "timer"
      /\ OnTimer' <=> rest # <<>>
      /\ OnTimer' => stack'[1] = stack[1] /\ OnTimer
      /\ \A kind \in Calls : M!TopIs(kind)' <=> kind = frame.kind
      /\ Arrives' <=> frame.kind \in {"trace", "entry"}
  BY <1>1, <1>2, PushFacts DEF Calls
<1>4. M!TopIs("trace")' /\ ~M!TopIs("entry")' /\ ~M!TopIs("exit")' /\ ~M!TopIs("timer")' /\ Arrives'
  BY <1>1, <1>3 DEF Calls
<1>5. TypeInv'
  <2>1. TypeInv
    BY DEF IInv
  <2>2. exits' \in SUBSET (1..visits') /\ current' \in 0..visits' /\ visits' \in 0..MaxVisits
    BY <1>1, <2>1 DEF TypeInv
  <2>3. \A t \in Timers : status'[t] # "unused" => t <= visits'
    BY <1>1, <2>1 DEF TypeInv, Timers
  <2>4. clock' = clock /\ target' = target
    BY <1>1 DEF time
  <2> QED
    BY <1>1, <1>2, <1>3, <2>1, <2>2, <2>3, <2>4 DEF TypeInv
<1>6. StackInv'
  <2>1. OnTimer' => stack'[1].timer \in Timers /\ status'[stack'[1].timer] = "running"
    BY <1>1, <1>3 DEF IInv, StackInv
  <2>2. Len(stack') = 2 => rest # <<>>
    BY <1>3 DEF Base
  <2> QED
    BY <1>1, <1>2, <1>3, <2>1, <2>2 DEF StackInv, time
<1>7. TimeoutInv'
  <2>1. TypeInv /\ current' \in Timers
    BY <1>1 DEF IInv, Timers
  <2>2. status[current'] = "unused"
    BY <1>1, <2>1 DEF TypeInv
  <2>3. status'[current'] = "unused"
    BY <1>1, <2>1, <2>2
  <2> QED
    BY <1>1, <1>4, <2>3 DEF TimeoutInv
<1>8. NodeInv'
  BY <1>1, <1>2, <1>3, <1>4, VendingMachineAssumption DEF NodeInv, M!NoVisit, NoNode, Nodes
<1> QED
  BY <1>5, <1>6, <1>7, <1>8 DEF IInv

(* What a step does not touch that leaves the timers and the visit alone.   *)
StaysInVisit ==
    /\ UNCHANGED <<tracer, node, current, exits, owner, halted, visits, time, lastCoin>>
    /\ due' \in [Timers -> Nat]
    /\ \A t \in Timers : Pending(t)' => due'[t] = due[t]

(* The exit action of WaitingState is called.                               *)
ExitStep ==
    /\ Base(stack)
    /\ current \in exits
    /\ event' \in Events
    /\ Destination("waiting", event') # NoNode
    /\ stack' = Append(stack, M!Frame("exit", current, Destination("waiting", event'), callback))
    /\ callback' = "transition"
    /\ IF stack = <<>> THEN target = T!NoTarget ELSE event' = "done"
    /\ StaysInVisit
    /\ UNCHANGED <<group, status, coins>>

(* Calling an exit action preserves the invariant.                          *)
LEMMA ExitPreserves ==
    ASSUME IInv, ExitStep
    PROVE  IInv'
<1> DEFINE to == Destination("waiting", event')
           frame == M!Frame("exit", current, to, callback)
<1>0. TypeInv /\ StackInv /\ TimeoutInv /\ NodeInv
  BY DEF IInv
<1>1. node = "waiting" /\ coins > 0
  BY <1>0 DEF ExitStep, TimeoutInv
<1>2. /\ frame \in M!Frames /\ frame.kind = "exit" /\ frame.visit = current
      /\ frame.to = to /\ to # NoNode
  <2>1. to \in Nodes
    BY DEF ExitStep, Destination, Nodes
  <2>2. current \in M!Visits /\ callback \in {"none", "timer", "transition"}
    BY <1>0, VendingMachineAssumption DEF ExitStep, TypeInv, M!Visits
  <2> QED
    BY <2>1, <2>2 DEF ExitStep, M!Frame, M!Frames, M!TransitionKinds
<1>3. stack' = Append(stack, frame)
  BY DEF ExitStep
<1> HIDE DEF frame
<1>4. /\ stack' \in Seq(M!Frames)
      /\ stack' # <<>>
      /\ Len(stack') = Len(stack) + 1 /\ Len(stack') \in 1..2
      /\ M!Top' = frame
      /\ \A i \in 1..Len(stack') :
           stack'[i].kind \in Calls /\ (stack'[i].kind = "timer" => i = 1)
      /\ Len(stack') = 2 => stack'[1].kind = "timer"
      /\ OnTimer' <=> stack # <<>>
      /\ OnTimer' => stack'[1] = stack[1] /\ OnTimer
      /\ \A kind \in Calls : M!TopIs(kind)' <=> kind = frame.kind
      /\ Arrives' <=> frame.kind \in {"trace", "entry"}
  <2>1. Base(stack)
    BY DEF ExitStep
  <2> QED
    BY <1>2, <1>3, <2>1, PushFacts DEF Calls
<1>5. M!TopIs("exit")' /\ ~M!TopIs("trace")' /\ ~M!TopIs("entry")' /\ ~M!TopIs("timer")' /\ ~Arrives'
  BY <1>2, <1>4 DEF Calls
<1>6. /\ UNCHANGED <<tracer, node, current, exits, owner, halted, visits, lastCoin>>
      /\ UNCHANGED <<group, status, coins, clock, target>>
      /\ callback' = "transition" /\ event' \in Events
      /\ current \in exits
      /\ due' \in [Timers -> Nat]
      /\ \A t \in Timers : Pending(t)' => due'[t] = due[t]
      /\ IF stack = <<>> THEN target = T!NoTarget ELSE event' = "done"
  BY DEF ExitStep, StaysInVisit, time
<1>7. TypeInv'
  BY <1>0, <1>4, <1>6 DEF TypeInv
<1>8. StackInv'
  <2>1. OnTimer' => stack'[1].timer \in Timers /\ status'[stack'[1].timer] = "running"
    BY <1>0, <1>4, <1>6 DEF StackInv
  <2>2. Len(stack') = 2 => stack # <<>>
    BY <1>4 DEF Base
  <2> QED
    BY <1>2, <1>4, <1>5, <1>6, <2>1, <2>2 DEF StackInv
<1>9. TimeoutInv'
  <2>1. ~OnTimer' => Pending(current)
    <3>1. ~OnTimer' => stack = <<>>
      BY <1>4
    <3> QED
      BY <1>0, <1>1, <1>6, <3>1 DEF TimeoutInv, OnTimer, M!TopIs
  <2> QED
    BY <1>0, <1>1, <1>4, <1>5, <1>6, <2>1 DEF TimeoutInv, Pending
<1>10. NodeInv'
  <2>1. node # NoNode /\ current # M!NoVisit
    BY <1>0, <1>1 DEF NodeInv, NoNode
  <2> QED
    BY <1>0, <1>1, <1>2, <1>4, <1>5, <1>6, <2>1 DEF NodeInv, Nodes, NoNode
<1> QED
  BY <1>7, <1>8, <1>9, <1>10 DEF IInv

(* A callback of a transition returns, and the machine stays in the visit.  *)
PopStep ==
    /\ M!TopIs("entry") \/ M!TopIs("exit")
    /\ stack' = M!Front(stack)
    /\ callback' = M!Top.previous
    /\ node = "initial" => coins' = 0
    /\ node # "initial" => coins' = coins /\ ~OnTimer /\ Pending(current)
    /\ StaysInVisit
    /\ UNCHANGED <<group, status, event>>

(* The return of such a callback preserves the invariant.                   *)
LEMMA PopPreserves ==
    ASSUME IInv, PopStep
    PROVE  IInv'
<1>0. TypeInv /\ StackInv /\ TimeoutInv /\ NodeInv
  BY DEF IInv
<1>1. stack # <<>> /\ stack' = M!Front(stack)
  BY DEF PopStep, M!TopIs
<1>2. /\ stack' \in Seq(M!Frames)
      /\ Base(stack')
      /\ stack' = <<>> <=> Len(stack) = 1
      /\ stack' # <<>> <=> Len(stack) = 2
      /\ OnTimer' <=> stack' # <<>>
      /\ stack' # <<>> => M!Top' = stack[1] /\ stack'[1] = stack[1] /\ Len(stack') = 1
      /\ \A kind \in Calls : M!TopIs(kind)' <=> kind = "timer" /\ stack' # <<>>
      /\ ~Arrives'
  BY <1>1, PopFacts
<1>3. /\ M!TopIs("timer")' <=> stack' # <<>>
      /\ ~M!TopIs("exit")' /\ ~M!TopIs("trace")' /\ ~M!TopIs("entry")'
  BY <1>2 DEF Calls
<1>4. /\ UNCHANGED <<tracer, node, current, exits, owner, halted, visits, lastCoin>>
      /\ UNCHANGED <<group, status, event, clock, target>>
      /\ due' \in [Timers -> Nat]
      /\ \A t \in Timers : Pending(t)' => due'[t] = due[t]
      /\ node = "initial" => coins' = 0
      /\ node # "initial" => coins' = coins /\ ~OnTimer /\ Pending(current)
      /\ callback' = M!Top.previous
  BY DEF PopStep, StaysInVisit, time
<1>5. OnTimer' => OnTimer /\ event = "done" /\ node = "initial"
  BY <1>0, <1>1, <1>2, <1>4 DEF StackInv, OnTimer
<1>6. TypeInv'
  <2>1. callback' \in {"none", "timer", "transition"}
    BY <1>0, <1>1, <1>4, TopFacts DEF M!Frames
  <2>2. coins' \in Nat
    BY <1>0, <1>4 DEF TypeInv
  <2> QED
    BY <1>0, <1>2, <1>4, <2>1, <2>2 DEF TypeInv
<1>7. StackInv'
  <2>1. stack' # <<>> => stack[1].kind = "timer" /\ Len(stack') = 1
    BY <1>0, <1>2 DEF StackInv
  <2>2. stack' = <<>> => Len(stack') = 0
    OBVIOUS
  <2>3. /\ Len(stack') \in 0..1
        /\ \A i \in 1..Len(stack') : stack'[i].kind = "timer" /\ i = 1
    BY <1>2, <2>1, <2>2
  <2> QED
    BY <1>0, <1>1, <1>2, <1>3, <1>4, <1>5, <2>3 DEF StackInv, Calls
<1>8. TimeoutInv'
  <2>1. current \in exits => coins' > 0
    BY <1>0, <1>4 DEF TimeoutInv
  <2> QED
    BY <1>0, <1>2, <1>3, <1>4, <1>5, <2>1 DEF TimeoutInv, Pending
<1>9. NodeInv'
  <2>1. node # NoNode /\ node # "pouring" /\ (node = "waiting" => current \in exits)
    <3>1. node # NoNode /\ current # 0
      BY <1>0, <1>1 DEF NodeInv, M!NoVisit
    <3>2. current \in Timers
      BY <1>0, <3>1, VendingMachineAssumption DEF TypeInv, Timers
    <3>3. Pending(current) => current \in exits
      BY <1>0, <3>2 DEF TimeoutInv
    <3> QED
      BY <1>0, <1>1, <1>4, <3>1, <3>3 DEF NodeInv, TimeoutInv
  <2> QED
    BY <1>0, <1>2, <1>3, <1>4, <1>5, <2>1 DEF NodeInv, NoNode
<1> QED
  BY <1>6, <1>7, <1>8, <1>9 DEF IInv

(* The stack while a callback is in progress; that of a timer is alone on   *)
(* it when it is the innermost.                                             *)
LEMMA StackFacts ==
    ASSUME IInv, stack # <<>>
    PROVE  /\ stack \in Seq(M!Frames)
           /\ Len(stack) \in 1..2
           /\ M!Top = stack[Len(stack)] /\ M!Top \in M!Frames
           /\ \A i \in 1..Len(stack) : stack[i] \in M!Frames
           /\ M!Top.kind = "timer" => Len(stack) = 1 /\ M!Top = stack[1]
<1>1. stack \in Seq(M!Frames) /\ Len(stack) <= 2
  BY DEF IInv, TypeInv, StackInv
<1>2. /\ Len(stack) \in Nat /\ Len(stack) >= 1
      /\ M!Top = stack[Len(stack)] /\ M!Top \in M!Frames
  BY TopFacts DEF IInv
<1>3. \A i \in 1..Len(stack) : stack[i] \in M!Frames
  BY <1>1, ElementOfSeq
<1>4. Len(stack) \in 1..2
  <2>1. \A n \in Nat : n >= 1 /\ n <= 2 => n \in 1..2
    OBVIOUS
  <2> QED
    BY <1>1, <1>2, <2>1, Zenon
<1>5. \A i \in 1..Len(stack) : stack[i].kind = "timer" => i = 1
  BY DEF IInv, StackInv
<1>6. ASSUME M!Top.kind = "timer" PROVE Len(stack) = 1
  <2>1. Len(stack) \in 1..Len(stack)
    BY <1>4
  <2> QED
    BY <1>2, <1>5, <1>6, <2>1
<1> QED
  BY <1>1, <1>2, <1>3, <1>4, <1>6

(* What is below the callback of a transition.                              *)
LEMMA BelowFacts ==
    ASSUME IInv, stack # <<>>, M!Top.kind # "timer"
    PROVE  /\ Base(M!Front(stack))
           /\ M!Front(stack) # <<>> <=> OnTimer
           /\ OnTimer => event = "done"
           /\ M!Front(stack) = <<>> => target = T!NoTarget
           /\ M!Top \in M!Frames
<1> DEFINE rest == M!Front(stack)
<1>1. /\ Len(stack) \in 1..2
      /\ M!Top = stack[Len(stack)] /\ M!Top \in M!Frames
      /\ rest \in Seq(M!Frames)
      /\ Len(rest) = Len(stack) - 1
      /\ \A j \in 1..(Len(stack) - 1) : rest[j] = stack[j]
  BY TopFacts DEF IInv, StackInv
<1>2. rest = <<>> <=> Len(rest) = 0
  BY <1>1, EmptySeq
<1>3. Len(stack) = 2 => stack[1].kind = "timer" /\ event = "done"
  BY DEF IInv, StackInv
<1>4. rest # <<>> <=> OnTimer
  BY <1>1, <1>2, <1>3 DEF OnTimer
<1>5. Base(rest)
  BY <1>1, <1>2, <1>4 DEF Base
<1>6. OnTimer => event = "done"
  BY <1>1, <1>3 DEF OnTimer
<1>7. rest = <<>> => target = T!NoTarget
  BY <1>4 DEF IInv, StackInv
<1> QED
  BY <1>1, <1>4, <1>5, <1>6, <1>7

(* A transition ends at the exit action or else enters a node.              *)
LEMMA LeaveFacts ==
    ASSUME NEW rest, NEW previous, NEW v, NEW e \in Events, node \in Nodes,
           M!Leave(rest, previous, v, e)
    PROVE  /\ Destination(node, e) # NoNode
           /\ v \notin exits => M!Enter(rest, previous, Destination(node, e))
           /\ v \in exits =>
                /\ stack' = Append(rest, M!Frame("exit", v, Destination(node, e), previous))
                /\ callback' = "transition"
                /\ UNCHANGED <<tracer, node, current, exits, group, status, halted,
                               owner, visits>>
<1> DEFINE to == Edges[node, e]
<1>1. to = Destination(node, e)
  BY EdgeFacts
<1>2. to # NoNode
  BY DEF M!Leave
<1>3. v \notin exits => M!Enter(rest, previous, to)
  BY DEF M!Leave
<1>4. v \in exits =>
        /\ stack' = Append(rest, M!Frame("exit", v, to, previous))
        /\ callback' = "transition"
        /\ UNCHANGED <<tracer, node, current, exits, M!timers, visits, handed, traced>>
  BY DEF M!Leave
<1>5. UNCHANGED M!timers => UNCHANGED <<group, status, halted, owner>>
  BY DEF M!timers
<1> HIDE DEF to
<1> QED
  BY <1>1, <1>2, <1>3, <1>4, <1>5

(* What depends on the stack alone stays as it is when the stack does.      *)
LEMMA SameStackFacts ==
    ASSUME stack' = stack
    PROVE  /\ M!Top' = M!Top
           /\ \A kind : M!TopIs(kind)' <=> M!TopIs(kind)
           /\ M!TopIs("trace")' <=> M!TopIs("trace")
           /\ M!TopIs("entry")' <=> M!TopIs("entry")
           /\ M!TopIs("exit")' <=> M!TopIs("exit")
           /\ M!TopIs("timer")' <=> M!TopIs("timer")
           /\ Arrives' <=> Arrives
           /\ OnTimer' <=> OnTimer
BY DEF M!Top, M!Last, M!TopIs, Arrives, OnTimer

(* DueOfPending is about pending timers only.                               *)
LEMMA DueFacts ==
    ASSUME TypeInv, DueOfPending
    PROVE  /\ due' \in [Timers -> Nat]
           /\ \A t \in Timers : Pending(t)' => due'[t] = due[t]
BY DEF TypeInv, DueOfPending, Pending

-----------------------------------------------------------------------------
(* The actions                                                             *)

(* Launch enters the initial node.                                          *)
LEMMA LaunchKind == IInv /\ Launch => EnterStep(stack, callback, "initial")
<1> SUFFICES ASSUME IInv, Launch PROVE EnterStep(stack, callback, "initial")
  OBVIOUS
<1>1. stack = <<>> /\ target = T!NoTarget
  BY DEF Launch, MainRuns
<1>2. callback \in {"none", "timer", "transition"} /\ event \in Events \cup {"none"}
  BY DEF IInv, TypeInv
<1>3. Base(stack)
  BY <1>1 DEF Base, IInv, TypeInv
<1>4. M!Enter(stack, callback, "initial")
  BY DEF Launch, M!Launch, InitialNode
<1>5. DueOfPending /\ UNCHANGED <<time, coins, lastCoin>> /\ event' = event
  BY DEF Launch
<1> QED
  BY <1>1, <1>2, <1>3, <1>4, <1>5 DEF EnterStep, Nodes

(* An event leaves InitialState at once, WaitingState by its exit action.   *)
LEMMA TriggerKind == \A e \in Events : IInv /\ Trigger(e) => ExitStep \/ EnterStep(stack, callback, "waiting")
<1> SUFFICES ASSUME NEW e \in Events, IInv, Trigger(e) PROVE ExitStep \/ EnterStep(stack, callback, "waiting")
  OBVIOUS
<1>0. TypeInv /\ StackInv /\ TimeoutInv /\ NodeInv
  BY DEF IInv
<1>1. stack = <<>> /\ target = T!NoTarget /\ event' = e
  BY DEF Trigger, MainRuns
<1>2. callback \in {"none", "timer", "transition"}
  BY <1>0 DEF TypeInv
<1>3. Base(stack)
  BY <1>0, <1>1 DEF Base, TypeInv
<1>4. ~Arrives
  BY <1>1 DEF Arrives, M!TopIs
<1>5. DueOfPending /\ UNCHANGED <<time, coins, lastCoin>>
  BY DEF Trigger
<1>6. current # M!NoVisit /\ M!Leave(stack, callback, current, e)
  BY DEF Trigger, M!Trigger
<1>7. node \in Nodes
  BY <1>0, <1>6 DEF TypeInv, NodeInv
<1>8. CASE current \in exits
  <2>1. node = "waiting"
    BY <1>0, <1>8 DEF TimeoutInv
  <2>2. /\ Destination("waiting", e) # NoNode
        /\ stack' = Append(stack, M!Frame("exit", current, Destination("waiting", e), callback))
        /\ callback' = "transition"
        /\ UNCHANGED <<tracer, node, current, exits, group, status, halted, owner, visits>>
    BY <1>6, <1>7, <1>8, <2>1, LeaveFacts
  <2>3. /\ due' \in [Timers -> Nat]
        /\ \A t \in Timers : Pending(t)' => due'[t] = due[t]
    BY <1>0, <1>5, DueFacts
  <2> QED
    BY <1>1, <1>3, <1>5, <1>8, <2>2, <2>3 DEF ExitStep, StaysInVisit
<1>9. CASE current \notin exits
  <2>1. node = "initial"
    BY <1>0, <1>4, <1>7, <1>9 DEF NodeInv, Nodes
  <2>2. Destination("initial", e) # NoNode /\ M!Enter(stack, callback, Destination("initial", e))
    BY <1>6, <1>7, <1>9, <2>1, LeaveFacts
  <2>3. e = "coin" /\ Destination("initial", e) = "waiting"
    BY <2>2 DEF Destination
  <2>4. M!Enter(stack, callback, "waiting")
    BY <2>2, <2>3
  <2> QED
    BY <1>1, <1>2, <1>3, <1>5, <2>3, <2>4 DEF EnterStep, Nodes, Events
<1> QED
  BY <1>8, <1>9

(* main begins to fast-forward.                                             *)
LEMMA FastForwardPreserves == \A to \in 1..MaxTime : IInv /\ FastForward(to) => IInv'
<1> SUFFICES ASSUME NEW to \in 1..MaxTime, IInv, FastForward(to) PROVE IInv'
  OBVIOUS
<1>0. TypeInv /\ StackInv /\ TimeoutInv /\ NodeInv
  BY DEF IInv
<1>1. stack = <<>> /\ target' = to
  BY DEF FastForward, MainRuns, T!AdvanceTo
<1>2. UNCHANGED <<tracer, node, current, callback, exits, group, owner, stack, visits,
                  status, halted, clock, due, coins, event, lastCoin>>
  BY DEF FastForward, T!AdvanceTo, machine
<1>3. to \in Nat
  BY VendingMachineAssumption
<1>4. TypeInv'
  BY <1>0, <1>1, <1>2, <1>3 DEF TypeInv
<1>5. StackInv'
  BY <1>0, <1>1, <1>2, SameStackFacts DEF StackInv
<1>6. TimeoutInv'
  BY <1>0, <1>2, SameStackFacts DEF TimeoutInv, Pending
<1>7. NodeInv'
  <2>1. node # NoNode
    BY <1>0 DEF FastForward, NodeInv
  <2> QED
    BY <1>0, <1>2, <2>1, SameStackFacts DEF NodeInv
<1> QED
  BY <1>4, <1>5, <1>6, <1>7 DEF IInv

(* The clock reaches the target, before any timeout is due.                 *)
LEMMA FastForwardReturnsPreserves == IInv /\ FastForwardReturns => IInv'
<1> SUFFICES ASSUME IInv, FastForwardReturns PROVE IInv'
  OBVIOUS
<1>0. TypeInv /\ StackInv /\ TimeoutInv /\ NodeInv
  BY DEF IInv
<1>1. /\ target \in Nat /\ target' = T!NoTarget
      /\ clock' = IF target > clock THEN target ELSE clock
      /\ \A t \in Timers : Pending(t) => due[t] > target
      /\ \A t \in Timers : status[t] # "running"
  BY <1>0 DEF FastForwardReturns, T!Advanced, T!NoneRuns, T!Pending, T!D!Running,
              Pending, TypeInv
<1>2. UNCHANGED <<tracer, node, current, callback, exits, group, owner, stack, visits,
                  status, halted, due, coins, event, lastCoin>>
  BY DEF FastForwardReturns, T!Advanced, machine
<1>3. stack = <<>>
  BY <1>0, <1>1 DEF StackInv, T!NoTarget
<1>4. TypeInv'
  BY <1>0, <1>1, <1>2 DEF TypeInv
<1>5. StackInv'
  BY <1>0, <1>2, <1>3, SameStackFacts DEF StackInv
<1>6. TimeoutInv'
  <2>1. ~OnTimer /\ ~M!TopIs("entry")
    BY <1>3 DEF OnTimer, M!TopIs
  <2>2. \A t \in Timers : Pending(t) => due[t] >= clock'
    BY <1>0, <1>1 DEF TimeoutInv, TypeInv
  <2> QED
    BY <1>0, <1>2, <2>1, <2>2, SameStackFacts DEF TimeoutInv, Pending
<1>7. NodeInv'
  BY <1>0, <1>1, <1>2, SameStackFacts DEF NodeInv
<1> QED
  BY <1>4, <1>5, <1>6, <1>7 DEF IInv

(* InitialState.Entry returns.                                              *)
LEMMA InitialEntryKind == IInv /\ InitialEntry => PopStep
<1> SUFFICES ASSUME IInv, InitialEntry PROVE PopStep
  OBVIOUS
<1>1. M!TopIs("entry") /\ node = "initial" /\ coins' = 0
  BY DEF InitialEntry, Entering
<1>2. stack' = M!Front(stack) /\ callback' = M!Top.previous
  BY DEF InitialEntry, M!EntryStays, M!Return
<1>3. UNCHANGED <<tracer, node, current, exits, group, owner, halted, status, visits,
                  time, due, event, lastCoin>>
  BY DEF InitialEntry, M!EntryStays, M!timers
<1> QED
  BY <1>1, <1>2, <1>3 DEF PopStep, StaysInVisit, IInv, TypeInv

(* WaitingState.Entry is there for a coin, and counts it.                   *)
LEMMA WaitingEntryPreserves == IInv /\ WaitingEntry => IInv'
<1> SUFFICES ASSUME IInv, WaitingEntry PROVE IInv'
  OBVIOUS
<1>0. TypeInv /\ StackInv /\ TimeoutInv /\ NodeInv
  BY DEF IInv
<1>1. /\ M!TopIs("entry") /\ node = "waiting"
      /\ M!Top.visit = current
      /\ current \notin exits
      /\ exits' = exits \cup {current}
  BY <1>0 DEF WaitingEntry, Entering, M!OnExit, M!Stale, StackInv, Arrives
<1>2. UNCHANGED <<tracer, node, current, callback, group, owner, stack, visits,
                  status, halted, clock, target, due, event>>
  BY DEF WaitingEntry, M!OnExit, M!timers, time
<1>3. event = "coin" /\ ~OnTimer /\ Arrives
  BY <1>0, <1>1 DEF NodeInv
<1>4. coins' = coins + 1 /\ lastCoin' = clock
  BY <1>3 DEF WaitingEntry
<1>5. ~M!TopIs("trace") /\ ~M!TopIs("exit") /\ ~M!TopIs("timer")
  BY <1>1 DEF M!TopIs
<1>6. current \in 1..visits
  BY <1>0, <1>1 DEF NodeInv, TypeInv, M!NoVisit, NoNode
<1>7. TypeInv'
  BY <1>0, <1>1, <1>2, <1>4, <1>6 DEF TypeInv
<1>8. StackInv'
  BY <1>0, <1>2, SameStackFacts DEF StackInv
<1>9. TimeoutInv'
  <2>1. \A t \in Timers : ~Pending(t)
    BY <1>0, <1>1 DEF TimeoutInv
  <2>2. coins' > 0
    BY <1>0, <1>4 DEF TypeInv
  <2> QED
    BY <1>0, <1>1, <1>2, <1>3, <1>4, <1>5, <2>1, <2>2, SameStackFacts DEF TimeoutInv, Pending
<1>10. NodeInv'
  BY <1>0, <1>1, <1>2, <1>3, <1>5, SameStackFacts DEF NodeInv, NoNode
<1> QED
  BY <1>7, <1>8, <1>9, <1>10 DEF IInv

(* The timeout is due Timeout after the coin just counted.                  *)
LEMMA SetTimeoutPreserves == IInv /\ SetTimeout => IInv'
<1> SUFFICES ASSUME IInv, SetTimeout PROVE IInv'
  OBVIOUS
<1>0. TypeInv /\ StackInv /\ TimeoutInv /\ NodeInv
  BY DEF IInv
<1>1. /\ M!TopIs("entry") /\ node = "waiting"
      /\ M!Top.visit = current
      /\ current \in exits
  BY <1>0 DEF SetTimeout, Entering, StackInv, Arrives
<1>2. current \in Timers /\ current <= visits
  BY <1>0, <1>1, VendingMachineAssumption DEF TypeInv, Timers
<1>3. /\ status[current] = "unused"
      /\ status' = [status EXCEPT ![current] = "pending"]
      /\ group' = group \cup {current}
      /\ owner' = [owner EXCEPT ![current] = current]
      /\ UNCHANGED <<tracer, node, current, callback, exits, stack, visits, halted>>
  BY <1>1 DEF SetTimeout, M!AfterFunc, M!D!AfterFunc, M!machine
<1>4. /\ due' = [due EXCEPT ![current] = clock + Timeout]
      /\ UNCHANGED <<clock, target, coins, event, lastCoin>>
  <2>1. /\ due' = [due EXCEPT ![current] = clock + (IF Timeout > 0 THEN Timeout ELSE 0)]
        /\ UNCHANGED <<clock, target, coins, event, lastCoin>>
    BY <1>1 DEF SetTimeout, T!AfterFunc
  <2>2. (IF Timeout > 0 THEN Timeout ELSE 0) = Timeout
    BY VendingMachineAssumption
  <2> QED
    BY <2>1, <2>2
<1>5. ~OnTimer /\ lastCoin = clock
  BY <1>0, <1>1 DEF TimeoutInv
<1>6. TypeInv'
  <2>1. clock + Timeout \in Nat
    BY <1>0, VendingMachineAssumption DEF TypeInv
  <2>2. due' \in [Timers -> Nat]
    BY <1>0, <1>4, <2>1 DEF TypeInv
  <2>3. status' \in [Timers -> M!D!Statuses]
    BY <1>0, <1>3 DEF TypeInv, M!D!Statuses
  <2>4. owner' \in [Timers -> Timers \cup {0}]
    BY <1>0, <1>2, <1>3 DEF TypeInv
  <2>5. \A t \in Timers : status'[t] # "unused" => t <= visits
    BY <1>0, <1>2, <1>3 DEF TypeInv
  <2> QED
    BY <1>0, <1>3, <1>4, <2>2, <2>3, <2>4, <2>5 DEF TypeInv
<1>7. StackInv'
  BY <1>0, <1>3, <1>4, <1>5, SameStackFacts DEF StackInv
<1>8. TimeoutInv'
  <2>1. \A t \in Timers : t # current => ~Pending(t)'
    BY <1>0, <1>2, <1>3 DEF TypeInv, TimeoutInv, Pending
  <2>2. Pending(current)'
    BY <1>0, <1>2, <1>3 DEF TypeInv, Pending
  <2>3. due'[current] = lastCoin + Timeout /\ due'[current] >= clock
    BY <1>0, <1>2, <1>4, <1>5, VendingMachineAssumption DEF TypeInv
  <2>4. owner'[current] = current
    BY <1>0, <1>2, <1>3 DEF TypeInv
  <2>5. status'[current] = "pending"
    BY <2>2, <1>3 DEF Pending
  <2> QED
    BY <1>0, <1>1, <1>2, <1>3, <1>4, <1>5, <2>1, <2>2, <2>3, <2>4, <2>5, SameStackFacts
    DEF TimeoutInv
<1>9. NodeInv'
  BY <1>0, <1>3, <1>4, SameStackFacts DEF NodeInv
<1> QED
  BY <1>6, <1>7, <1>8, <1>9 DEF IInv

(* WaitingState.Entry returns once its timeout is pending.                  *)
LEMMA WaitingEnteredKind == IInv /\ WaitingEntered => PopStep
<1> SUFFICES ASSUME IInv, WaitingEntered PROVE PopStep
  OBVIOUS
<1>0. TypeInv /\ StackInv /\ TimeoutInv /\ NodeInv
  BY DEF IInv
<1>1. /\ M!TopIs("entry") /\ node = "waiting" /\ Arrives
      /\ M!Top.visit = current
      /\ status[current] # "unused"
  BY <1>0 DEF WaitingEntered, Entering, StackInv, Arrives
<1>2. stack' = M!Front(stack) /\ callback' = M!Top.previous
  BY DEF WaitingEntered, M!EntryStays, M!Return
<1>3. UNCHANGED <<tracer, node, current, exits, group, owner, halted, status, visits,
                  time, due, coins, event, lastCoin>>
  BY DEF WaitingEntered, M!EntryStays, M!timers
<1>4. Pending(current)
  BY <1>0, <1>1 DEF TimeoutInv, Pending
<1>5. current \in Timers
  BY <1>0, <1>1, VendingMachineAssumption DEF NodeInv, TypeInv, M!NoVisit, NoNode, Timers
<1>6. ~OnTimer
  BY <1>0, <1>1, <1>4, <1>5 DEF TimeoutInv
<1> QED
  BY <1>0, <1>1, <1>2, <1>3, <1>4, <1>6 DEF PopStep, StaysInVisit, TypeInv

(* PouringState.Entry goes on to InitialState.                              *)
LEMMA PouringEntryKind == IInv /\ PouringEntry => EnterStep(M!Front(stack), M!Top.previous, "initial")
<1> SUFFICES ASSUME IInv, PouringEntry PROVE EnterStep(M!Front(stack), M!Top.previous, "initial")
  OBVIOUS
<1>0. TypeInv /\ StackInv /\ TimeoutInv /\ NodeInv
  BY DEF IInv
<1>1. /\ M!TopIs("entry") /\ node = "pouring" /\ stack # <<>> /\ M!Top.kind = "entry"
      /\ M!Top.visit = current
  BY <1>0 DEF PouringEntry, Entering, StackInv, Arrives, M!TopIs
<1>2. /\ M!Leave(M!Front(stack), M!Top.previous, current, "done")
      /\ event' = "done" /\ DueOfPending /\ UNCHANGED <<time, coins, lastCoin>>
  BY <1>1 DEF PouringEntry, M!EntryTriggers
<1>3. ~OnTimer /\ current \notin exits
  BY <1>0, <1>1 DEF NodeInv, TimeoutInv
<1>4. /\ Base(M!Front(stack)) /\ M!Front(stack) = <<>> /\ target = T!NoTarget
      /\ M!Top.previous \in {"none", "timer", "transition"}
  BY <1>1, <1>3, BelowFacts DEF M!Frames
<1>5. M!Enter(M!Front(stack), M!Top.previous, "initial")
  <2>1. "done" \in Events /\ node \in Nodes
    BY <1>1 DEF Events, Nodes
  <2>2. M!Enter(M!Front(stack), M!Top.previous, Destination("pouring", "done"))
    BY <1>1, <1>2, <1>3, <2>1, LeaveFacts
  <2>3. Destination("pouring", "done") = "initial"
    BY DEF Destination, Buttons
  <2> QED
    BY <2>2, <2>3
<1> QED
  BY <1>2, <1>4, <1>5 DEF EnterStep, Nodes, Events

(* The exit action of WaitingState blocks the transition or lets it go on.  *)
LEMMA WaitingExitKind == IInv /\ WaitingExit => PopStep \/ EnterStep(M!Front(stack), M!Top.previous, M!Top.to)
<1> SUFFICES ASSUME IInv, WaitingExit PROVE PopStep \/ EnterStep(M!Front(stack), M!Top.previous, M!Top.to)
  OBVIOUS
<1>0. TypeInv /\ StackInv /\ TimeoutInv /\ NodeInv
  BY DEF IInv
<1>1. M!TopIs("exit") /\ stack # <<>> /\ M!Top.kind = "exit"
  BY DEF WaitingExit, M!ExitBlocks, M!ExitProceeds, M!TopIs
<1>2. DueOfPending /\ UNCHANGED <<time, coins, lastCoin>> /\ event' = event
  BY DEF WaitingExit
<1>3. /\ current \in exits /\ node = "waiting"
      /\ M!Top.to # NoNode /\ M!Top.to = Destination("waiting", event)
      /\ current = M!Top.visit
  BY <1>0, <1>1 DEF NodeInv, TimeoutInv, StackInv
<1>4. /\ Base(M!Front(stack))
      /\ M!Front(stack) # <<>> <=> OnTimer
      /\ OnTimer => event = "done"
      /\ M!Front(stack) = <<>> => target = T!NoTarget
      /\ M!Top.previous \in {"none", "timer", "transition"}
  BY <1>1, BelowFacts DEF M!Frames
<1>5. CASE Guards
  <2>1. /\ stack' = M!Front(stack) /\ callback' = M!Top.previous
        /\ UNCHANGED <<tracer, node, current, exits, group, owner, halted, status, visits>>
    BY <1>5 DEF WaitingExit, M!ExitBlocks, M!Return, M!timers
  <2>2. ~OnTimer
    BY <1>4, <1>5 DEF Guards
  <2>3. Pending(current)
    BY <1>0, <1>1, <1>3, <2>2 DEF TimeoutInv, M!TopIs
  <2>4. /\ due' \in [Timers -> Nat]
        /\ \A t \in Timers : Pending(t)' => due'[t] = due[t]
    BY <1>0, <1>2, DueFacts
  <2> QED
    BY <1>1, <1>2, <1>3, <2>1, <2>2, <2>3, <2>4 DEF PopStep, StaysInVisit
<1>6. CASE ~Guards
  <2>1. M!Enter(M!Front(stack), M!Top.previous, M!Top.to)
    BY <1>6 DEF WaitingExit, M!ExitProceeds
  <2>2. /\ M!Top.to \in Nodes
        /\ M!Top.to = "waiting" => event = "coin"
        /\ M!Top.to = "pouring" => event \in Buttons
    BY <1>3 DEF Destination, Nodes, NoNode, Buttons
  <2>3. event \in Events \cup {"none"}
    BY <1>0 DEF TypeInv
  <2>4. event = "done" => event # "coin" /\ event \notin Buttons
    BY DEF Buttons
  <2> QED
    BY <1>2, <1>4, <2>1, <2>2, <2>3, <2>4 DEF EnterStep
<1> QED
  BY <1>5, <1>6

(* Entry follows the Tracer, in the place of it on the stack.               *)
LEMMA TracedStack ==
    ASSUME IInv, Traced
    PROVE  /\ M!TopIs("trace") /\ stack # <<>> /\ M!Top.kind = "trace"
           /\ Len(stack) \in 1..2 /\ M!Top = stack[Len(stack)]
           /\ stack' \in Seq(M!Frames) /\ Len(stack') = Len(stack)
           /\ stack' # <<>>
           /\ \A i \in 1..Len(stack) :
                stack'[i] = IF i = Len(stack) THEN [M!Top EXCEPT !.kind = "entry"] ELSE stack[i]
           /\ M!Top' = [M!Top EXCEPT !.kind = "entry"]
           /\ M!Top'.kind = "entry" /\ M!Top'.visit = M!Top.visit
           /\ OnTimer' <=> OnTimer
           /\ OnTimer => stack'[1] = stack[1] /\ Len(stack) = 2
           /\ M!TopIs("entry")' /\ ~M!TopIs("trace")' /\ ~M!TopIs("exit")' /\ ~M!TopIs("timer")'
           /\ Arrives' /\ Arrives
<1>1. /\ M!TopIs("trace") /\ stack # <<>> /\ M!Top.kind = "trace"
      /\ stack' = [stack EXCEPT ![Len(stack)].kind = "entry"]
  BY DEF Traced, M!TraceReturns, M!TopIs
<1>2. /\ Len(stack) \in 1..2
      /\ stack \in Seq(M!Frames)
      /\ M!Top = stack[Len(stack)] /\ M!Top \in M!Frames
      /\ \A i \in 1..Len(stack) : stack[i] \in M!Frames
  BY <1>1, StackFacts
<1>3. /\ stack' \in Seq(M!Frames) /\ Len(stack') = Len(stack)
      /\ stack' # <<>>
      /\ \A i \in 1..Len(stack) :
           stack'[i] = IF i = Len(stack) THEN [M!Top EXCEPT !.kind = "entry"] ELSE stack[i]
  <2> DEFINE top == [M!Top EXCEPT !.kind = "entry"]
  <2>1. top \in M!Frames
    BY <1>2 DEF M!Frames, M!TransitionKinds
  <2>2. stack' = [stack EXCEPT ![Len(stack)] = top]
    BY <1>1, <1>2
  <2> HIDE DEF top
  <2>3. stack' \in Seq(M!Frames) /\ Len(stack') = Len(stack)
    BY <1>2, <2>1, <2>2, ExceptSeq
  <2>4. \A i \in 1..Len(stack) : stack'[i] = IF i = Len(stack) THEN top ELSE stack[i]
    BY <1>2, <2>1, <2>2, ExceptSeq
  <2>5. stack' # <<>>
    BY <1>2, <2>3
  <2> QED
    BY <2>3, <2>4, <2>5 DEF top
<1>4. M!Top' = [M!Top EXCEPT !.kind = "entry"]
  BY <1>2, <1>3 DEF M!Top, M!Last
<1>5. M!Top'.kind = "entry" /\ M!Top'.visit = M!Top.visit
  BY <1>2, <1>4 DEF M!Frames
<1>6. OnTimer' <=> OnTimer
  BY <1>1, <1>2, <1>3, <1>5 DEF OnTimer
<1>7. OnTimer => stack'[1] = stack[1] /\ Len(stack) = 2
  BY <1>1, <1>2, <1>3 DEF OnTimer
<1>8. /\ M!TopIs("entry")' /\ ~M!TopIs("trace")' /\ ~M!TopIs("exit")' /\ ~M!TopIs("timer")'
      /\ Arrives' /\ Arrives
  BY <1>1, <1>3, <1>5 DEF M!TopIs, Arrives
<1> QED
  BY <1>1, <1>2, <1>3, <1>4, <1>5, <1>6, <1>7, <1>8

(* The Tracer returns.                                                      *)
LEMMA TracedPreserves == IInv /\ Traced => IInv'
<1> SUFFICES ASSUME IInv, Traced PROVE IInv'
  OBVIOUS
<1>0. TypeInv /\ StackInv /\ TimeoutInv /\ NodeInv
  BY DEF IInv
<1>1. UNCHANGED <<tracer, node, current, callback, exits, group, owner, halted, status,
                  visits, clock, target, due, coins, event, lastCoin>>
  BY DEF Traced, M!TraceReturns, M!machine, M!timers, time
<1>2. /\ Len(stack) \in 1..2 /\ M!Top = stack[Len(stack)]
      /\ M!Top' = [M!Top EXCEPT !.kind = "entry"]
  BY TracedStack
<1>3. /\ stack' \in Seq(M!Frames) /\ Len(stack') = Len(stack)
      /\ stack' # <<>>
      /\ \A i \in 1..Len(stack) :
           stack'[i] = IF i = Len(stack) THEN [M!Top EXCEPT !.kind = "entry"] ELSE stack[i]
  BY TracedStack
<1>4. M!Top'.kind = "entry" /\ M!Top'.visit = M!Top.visit
  BY TracedStack
<1>5. OnTimer' <=> OnTimer
  BY TracedStack
<1>6. OnTimer => stack'[1] = stack[1] /\ Len(stack) = 2
  BY TracedStack
<1>7. M!TopIs("trace") /\ stack # <<>>
  BY TracedStack
<1>8. /\ M!TopIs("entry")' /\ ~M!TopIs("trace")' /\ ~M!TopIs("exit")' /\ ~M!TopIs("timer")'
      /\ Arrives' /\ Arrives
  BY TracedStack
<1>9. TypeInv'
  BY <1>0, <1>1, <1>3 DEF TypeInv
<1>10. StackInv'
  <2>1. \A i \in 1..Len(stack') :
          stack'[i].kind \in Calls /\ (stack'[i].kind = "timer" => i = 1)
    <3> TAKE i \in 1..Len(stack')
    <3>1. CASE i = Len(stack)
      <4>1. stack'[i] = M!Top'
        BY <1>2, <1>3, <3>1
      <4> QED
        BY <1>4, <4>1 DEF Calls
    <3>2. CASE i # Len(stack)
      BY <1>0, <1>2, <1>3, <3>2 DEF StackInv
    <3> QED
      BY <3>1, <3>2
  <2>2. Len(stack') = 2 => stack'[1].kind = "timer"
    BY <1>0, <1>2, <1>3 DEF StackInv
  <2> QED
    BY <1>0, <1>1, <1>2, <1>3, <1>4, <1>5, <1>6, <1>7, <1>8, <2>1, <2>2 DEF StackInv
<1>11. TimeoutInv'
  <2>1. node = "waiting" => current \notin exits
    BY <1>0, <1>7 DEF TimeoutInv
  <2> QED
    BY <1>0, <1>1, <1>8, <2>1 DEF TimeoutInv, Pending
<1>12. NodeInv'
  BY <1>0, <1>1, <1>3, <1>5, <1>8 DEF NodeInv
<1> QED
  BY <1>9, <1>10, <1>11, <1>12 DEF IInv

(* A timeout that fires is that of the current visit.                       *)
LEMMA TimeoutFiresPreserves == \A t \in Timers : IInv /\ TimeoutFires(t) => IInv'
<1> SUFFICES ASSUME NEW t \in Timers, IInv, TimeoutFires(t) PROVE IInv'
  OBVIOUS
<1> DEFINE frame == [kind |-> "timer", visit |-> owner[t], to |-> NoNode,
                     timer |-> t, previous |-> callback]
<1>0. TypeInv /\ StackInv /\ TimeoutInv /\ NodeInv
  BY DEF IInv
<1>1. /\ stack = <<>> /\ status[t] = "pending"
      /\ status' = [status EXCEPT ![t] = "running"]
      /\ stack' = <<frame>>
      /\ callback' = "timer"
      /\ UNCHANGED <<tracer, node, current, exits, group, owner, visits, halted>>
  BY DEF TimeoutFires, M!TimerFires, M!D!Start
<1>2. /\ clock' = due[t] /\ due' = [due EXCEPT ![t] = 0]
      /\ event' = "none"
      /\ UNCHANGED <<target, coins, lastCoin>>
  BY DEF TimeoutFires, T!Start
<1>3. /\ t = current /\ current \in exits /\ owner[t] = t
      /\ due[t] = lastCoin + Timeout /\ node = "waiting" /\ coins > 0
  BY <1>0, <1>1 DEF TimeoutInv, Pending
<1>4. frame \in M!Frames /\ frame.kind = "timer" /\ frame.visit = t /\ frame.timer = t
  <2>1. owner[t] \in M!Visits
    BY <1>3 DEF M!Visits, Timers
  <2>2. callback \in {"none", "timer", "transition"}
    BY <1>0 DEF TypeInv
  <2> QED
    BY <1>3, <2>1, <2>2 DEF M!Frames
<1> HIDE DEF frame
<1>5. /\ stack' \in Seq(M!Frames) /\ stack' # <<>> /\ Len(stack') = 1 /\ stack'[1] = frame
      /\ M!Top' = frame
  BY <1>1, <1>4 DEF M!Top, M!Last
<1>6. /\ M!TopIs("timer")' /\ ~M!TopIs("trace")' /\ ~M!TopIs("entry")' /\ ~M!TopIs("exit")'
      /\ ~Arrives' /\ OnTimer'
  BY <1>4, <1>5 DEF M!TopIs, Arrives, OnTimer
<1>7. TypeInv'
  <2>1. status' \in [Timers -> M!D!Statuses]
    BY <1>0, <1>1 DEF TypeInv, M!D!Statuses
  <2>2. \A u \in Timers : status'[u] # "unused" => u <= visits
    BY <1>0, <1>1 DEF TypeInv
  <2>3. due' \in [Timers -> Nat] /\ clock' \in Nat
    BY <1>0, <1>2 DEF TypeInv
  <2> QED
    BY <1>0, <1>1, <1>2, <1>5, <2>1, <2>2, <2>3 DEF TypeInv
<1>8. StackInv'
  <2>1. status'[t] = "running"
    BY <1>0, <1>1 DEF TypeInv
  <2> QED
    BY <1>0, <1>1, <1>2, <1>4, <1>5, <1>6, <2>1 DEF StackInv, Calls
<1>9. TimeoutInv'
  <2>1. \A u \in Timers : ~Pending(u)'
    BY <1>0, <1>1, <1>3 DEF TimeoutInv, TypeInv, Pending
  <2> QED
    BY <1>0, <1>1, <1>2, <1>3, <1>6, <2>1 DEF TimeoutInv
<1>10. NodeInv'
  BY <1>0, <1>1, <1>2, <1>3, <1>4, <1>5, <1>6 DEF NodeInv, NoNode
<1> QED
  BY <1>7, <1>8, <1>9, <1>10 DEF IInv

(* The timeout triggers an event that WaitingState is left for.             *)
LEMMA TimeoutTriggersKind == IInv /\ TimeoutTriggers => ExitStep
<1> SUFFICES ASSUME IInv, TimeoutTriggers PROVE ExitStep
  OBVIOUS
<1>0. TypeInv /\ StackInv /\ TimeoutInv /\ NodeInv
  BY DEF IInv
<1>1. /\ M!TopIs("timer") /\ event = "none" /\ stack # <<>> /\ M!Top.kind = "timer"
      /\ M!Leave(stack, callback, current, "done")
      /\ event' = "done" /\ DueOfPending /\ UNCHANGED <<time, coins, lastCoin>>
  BY DEF TimeoutTriggers, M!HandleTrigger, M!Trigger, M!TopIs
<1>2. current \in exits /\ node = "waiting"
  BY <1>0, <1>1 DEF NodeInv, TimeoutInv
<1>3. Base(stack)
  <2>1. Len(stack) = 1 /\ M!Top = stack[1] /\ stack \in Seq(M!Frames)
    BY <1>1, StackFacts
  <2> QED
    BY <1>1, <2>1 DEF Base, OnTimer
<1>4. "done" \in Events /\ node \in Nodes
  BY <1>2 DEF Events, Nodes
<1>5. /\ Destination("waiting", "done") # NoNode
      /\ stack' = Append(stack, M!Frame("exit", current, Destination("waiting", "done"), callback))
      /\ callback' = "transition"
      /\ UNCHANGED <<tracer, node, current, exits, group, status, halted, owner, visits>>
  BY <1>1, <1>2, <1>4, LeaveFacts
<1>6. /\ due' \in [Timers -> Nat]
      /\ \A t \in Timers : Pending(t)' => due'[t] = due[t]
  BY <1>0, <1>1, DueFacts
<1> QED
  BY <1>1, <1>2, <1>3, <1>4, <1>5, <1>6 DEF ExitStep, StaysInVisit

(* The callback of a timeout returns when the sale is over.                 *)
LEMMA TimeoutReturnsPreserves == IInv /\ TimeoutReturns => IInv'
<1> SUFFICES ASSUME IInv, TimeoutReturns PROVE IInv'
  OBVIOUS
<1>0. TypeInv /\ StackInv /\ TimeoutInv /\ NodeInv
  BY DEF IInv
<1>1. /\ M!TopIs("timer") /\ event = "done" /\ stack # <<>> /\ M!Top.kind = "timer"
      /\ status' = [status EXCEPT ![M!Top.timer] = "done"]
      /\ stack' = M!Front(stack) /\ callback' = M!Top.previous
      /\ UNCHANGED <<tracer, node, current, exits, owner, visits, halted,
                     clock, target, due, coins, event, lastCoin>>
  BY DEF TimeoutReturns, M!TimerReturns, M!D!Return, M!Return, M!TopIs, time
<1>2. node = "initial"
  BY <1>0, <1>1 DEF NodeInv
<1>3. /\ Len(stack) = 1 /\ M!Top \in M!Frames /\ M!Top = stack[1]
  BY <1>1, StackFacts
<1>4. /\ stack' \in Seq(M!Frames) /\ stack' = <<>> /\ ~OnTimer' /\ ~Arrives'
      /\ \A kind \in Calls : ~M!TopIs(kind)'
  BY <1>1, <1>3, PopFacts
<1>5. ~M!TopIs("trace")' /\ ~M!TopIs("entry")' /\ ~M!TopIs("exit")' /\ ~M!TopIs("timer")'
  BY <1>4 DEF Calls
<1>6. \A t \in Timers : ~Pending(t) /\ ~Pending(t)'
  BY <1>0, <1>1, <1>2 DEF TimeoutInv, TypeInv, Pending
<1>7. coins = 0
  <2>1. ~Arrives
    BY <1>1 DEF Arrives, M!TopIs
  <2> QED
    BY <1>0, <1>2, <2>1 DEF NodeInv
<1>8. TypeInv'
  <2>1. M!Top.timer \in Timers /\ status[M!Top.timer] = "running"
    BY <1>0, <1>1, <1>3 DEF StackInv, OnTimer
  <2>2. status' \in [Timers -> M!D!Statuses]
    BY <1>0, <1>1 DEF TypeInv, M!D!Statuses
  <2>3. \A t \in Timers : status'[t] # "unused" => t <= visits
    BY <1>0, <1>1, <2>1 DEF TypeInv
  <2>4. callback' \in {"none", "timer", "transition"}
    BY <1>1, <1>3 DEF M!Frames
  <2> QED
    BY <1>0, <1>1, <1>4, <2>2, <2>3, <2>4 DEF TypeInv
<1>9. StackInv'
  BY <1>0, <1>1, <1>4, <1>5 DEF StackInv
<1>10. TimeoutInv'
  BY <1>0, <1>1, <1>2, <1>4, <1>5, <1>6 DEF TimeoutInv
<1>11. NodeInv'
  BY <1>0, <1>1, <1>2, <1>4, <1>5, <1>7 DEF NodeInv, NoNode
<1> QED
  BY <1>8, <1>9, <1>10, <1>11 DEF IInv

-----------------------------------------------------------------------------
(* IInv holds initially                                                     *)
LEMMA InitHolds == Init => IInv
<1> SUFFICES ASSUME Init PROVE IInv
  OBVIOUS
<1>1. /\ tracer = TRUE /\ halted = FALSE /\ node = NoNode /\ visits = 0 /\ current = 0
      /\ callback = "none" /\ exits = {} /\ status = [t \in Timers |-> "unused"]
      /\ owner = [t \in Timers |-> 0] /\ stack = <<>>
      /\ clock = 0 /\ lastCoin = 0 /\ coins = 0 /\ due = [t \in Timers |-> 0]
      /\ target = T!NoTarget /\ event = "none"
  BY DEF Init, M!Init, M!NoVisit
<1>2. /\ ~M!TopIs("trace") /\ ~M!TopIs("entry") /\ ~M!TopIs("exit") /\ ~M!TopIs("timer")
      /\ ~Arrives /\ ~OnTimer
  BY <1>1 DEF M!TopIs, Arrives, OnTimer
<1>3. TypeInv
  BY <1>1, VendingMachineAssumption DEF TypeInv, M!D!Statuses
<1>4. StackInv
  BY <1>1, <1>2 DEF StackInv
<1>5. TimeoutInv
  BY <1>1, <1>2 DEF TimeoutInv, Pending, NoNode
<1>6. NodeInv
  BY <1>1, <1>2 DEF NodeInv, NoNode, M!NoVisit
<1> QED
  BY <1>3, <1>4, <1>5, <1>6 DEF IInv

(* A step that changes nothing preserves IInv.                              *)
LEMMA StutterPreserves == IInv /\ UNCHANGED vars => IInv'
<1> SUFFICES ASSUME IInv, UNCHANGED vars PROVE IInv'
  OBVIOUS
<1>0. TypeInv /\ StackInv /\ TimeoutInv /\ NodeInv
  BY DEF IInv
<1>1. UNCHANGED <<tracer, node, current, callback, exits, group, owner, stack, visits,
                  status, halted, clock, target, due, coins, event, lastCoin>>
  BY DEF vars, machine, time
<1>2. TypeInv'
  BY <1>0, <1>1 DEF TypeInv
<1>3. StackInv'
  BY <1>0, <1>1, SameStackFacts DEF StackInv
<1>4. TimeoutInv'
  BY <1>0, <1>1, SameStackFacts DEF TimeoutInv, Pending
<1>5. NodeInv'
  BY <1>0, <1>1, SameStackFacts DEF NodeInv
<1> QED
  BY <1>2, <1>3, <1>4, <1>5 DEF IInv

(* IInv is an invariant of the vending machine.                             *)
THEOREM Invariance == Spec => []IInv
<1>1. IInv /\ [Next]_vars => IInv'
  <2> SUFFICES ASSUME IInv, [Next]_vars PROVE IInv'
    OBVIOUS
  <2>1. CASE Launch
    BY <2>1, LaunchKind, EnterPreserves
  <2>2. CASE \E e \in Events : Trigger(e)
    BY <2>2, TriggerKind, ExitPreserves, EnterPreserves
  <2>3. CASE TimeGoesOn
    BY <2>3, FastForwardPreserves DEF TimeGoesOn
  <2>4. CASE InitialEntry \/ WaitingEntered
    BY <2>4, InitialEntryKind, WaitingEnteredKind, PopPreserves
  <2>5. CASE WaitingEntry \/ SetTimeout
    BY <2>5, WaitingEntryPreserves, SetTimeoutPreserves
  <2>6. CASE PouringEntry
    BY <2>6, PouringEntryKind, EnterPreserves
  <2>7. CASE WaitingExit
    BY <2>7, WaitingExitKind, PopPreserves, EnterPreserves
  <2>8. CASE Traced \/ TimeoutReturns \/ FastForwardReturns
    BY <2>8, TracedPreserves, TimeoutReturnsPreserves, FastForwardReturnsPreserves
  <2>9. CASE \E t \in Timers : TimeoutFires(t)
    BY <2>9, TimeoutFiresPreserves
  <2>10. CASE TimeoutTriggers
    BY <2>10, TimeoutTriggersKind, ExitPreserves
  <2>11. CASE UNCHANGED vars
    BY <2>11, StutterPreserves
  <2> QED
    BY <2>1, <2>2, <2>3, <2>4, <2>5, <2>6, <2>7, <2>8, <2>9, <2>10, <2>11
    DEF Next, Proceed
<1> QED
  BY InitHolds, <1>1, PTL DEF Spec

(* None of the calls that the example wraps in must.NoError fails, and no   *)
(* type assertion of it does, whatever the timeout, the number of visits    *)
(* and the order of events and of the passing of time                       *)
(* (src/examples/vending-machine/main.go:67, 81-83, 92).                    *)
THEOREM NoPanic == Spec => []NothingPanics
<1>1. IInv => NothingPanics
  <2> SUFFICES ASSUME IInv PROVE NothingPanics
    OBVIOUS
  <2>0. TypeInv /\ StackInv /\ TimeoutInv /\ NodeInv
    BY DEF IInv
  <2>1. \A n \in Nodes : Entering(n) => ~M!Stale(M!Top.visit)
    BY <2>0 DEF Entering, M!Stale, StackInv, Arrives
  <2>2. ASSUME M!TopIs("timer"), event = "none"
        PROVE  ~M!Stale(M!Top.visit) /\ Edges[node, "done"] # NoNode
    <3>1. current = M!Top.visit /\ node = "waiting"
      BY <2>0, <2>2 DEF NodeInv, TimeoutInv
    <3>2. node \in Nodes /\ "done" \in Events /\ Destination("waiting", "done") # NoNode
      BY <3>1 DEF Nodes, Events, Destination, Buttons, NoNode
    <3>3. Edges[node, "done"] = Destination(node, "done")
      BY <3>2, EdgeFacts
    <3>4. Edges[node, "done"] # NoNode
      BY <3>1, <3>2, <3>3
    <3>5. ~M!Stale(M!Top.visit)
      BY <3>1 DEF M!Stale
    <3> QED
      BY <3>4, <3>5
  <2>3. Entering("pouring") => event \in Buttons
    BY <2>0 DEF Entering, NodeInv
  <2> QED
    BY <2>1, <2>2, <2>3 DEF NothingPanics
<1> QED
  BY Invariance, <1>1, PTL

-----------------------------------------------------------------------------
(* The machine is a vending service                                        *)

(* Phase in terms of the innermost callback and of the one at the bottom.   *)
PhaseIs ==
    IF node = "pouring" THEN event
    ELSE IF node = "waiting" \/ (node = "initial" /\ ~Arrives) THEN "open"
    ELSE IF OnTimer THEN "expired"
    ELSE "closing"

(* Only the innermost callback can be that of an arrival.                   *)
LEMMA PhaseFacts == IInv => Phase = PhaseIs
<1> SUFFICES ASSUME IInv PROVE Phase = PhaseIs
  OBVIOUS
<1>1. Arriving <=> Arrives
  <2>1. CASE stack = <<>>
    BY <2>1 DEF Arriving, Arrives, M!TopIs
  <2>2. CASE stack # <<>>
    <3>1. Len(stack) \in 1..2 /\ M!Top = stack[Len(stack)]
      BY <2>2, StackFacts
    <3>2. Len(stack) = 2 => stack[1].kind = "timer"
      BY DEF IInv, StackInv
    <3>3. Arrives <=> stack[Len(stack)].kind \in {"trace", "entry"}
      BY <2>2, <3>1 DEF Arrives, M!TopIs
    <3>4. Arriving => stack[Len(stack)].kind \in {"trace", "entry"}
      BY <3>1, <3>2 DEF Arriving
    <3>5. stack[Len(stack)].kind \in {"trace", "entry"} => Arriving
      BY <3>1 DEF Arriving
    <3> QED
      BY <3>3, <3>4, <3>5
  <2> QED
    BY <2>1, <2>2
<1>2. node = "pouring" => ~(node = "waiting" \/ (node = "initial" /\ ~Arriving))
  OBVIOUS
<1> QED
  BY <1>1, <1>2 DEF Phase, PhaseIs, OnTimer

(* What entering a node means for the customer.                             *)
LEMMA EnterPhase ==
    ASSUME IInv, NEW rest, NEW previous, NEW to, EnterStep(rest, previous, to)
    PROVE  /\ PhaseIs' = IF to = "pouring" THEN event'
                         ELSE IF to = "waiting" THEN "open"
                         ELSE IF rest # <<>> THEN "expired" ELSE "closing"
           /\ UNCHANGED <<coins, clock, lastCoin>>
<1>1. PICK frame \in M!Frames :
             /\ stack' = Append(rest, frame)
             /\ frame.kind = "trace"
             /\ node' = to
             /\ UNCHANGED <<time, coins, lastCoin>>
  BY EnterFacts
<1>2. Base(rest) /\ to \in Nodes
  BY DEF EnterStep
<1>3. (OnTimer' <=> rest # <<>>) /\ Arrives'
  BY <1>1, <1>2, PushFacts DEF Calls
<1> QED
  BY <1>1, <1>2, <1>3 DEF PhaseIs, Nodes, time

(* Calling an exit action means nothing.                                    *)
LEMMA ExitPhase ==
    ASSUME IInv, ExitStep
    PROVE  PhaseIs = "open" /\ PhaseIs' = "open" /\ UNCHANGED <<coins, clock, lastCoin>>
<1>1. node = "waiting" /\ node' = node
  BY DEF IInv, TimeoutInv, ExitStep, StaysInVisit
<1> QED
  BY <1>1 DEF PhaseIs, ExitStep, StaysInVisit, time

(* Returning from Entry ends a sale in InitialState, and else, as from an   *)
(* exit action that blocks, means nothing.                                  *)
LEMMA PopPhase ==
    ASSUME IInv, PopStep
    PROVE  /\ PhaseIs' = "open"
           /\ UNCHANGED <<clock, lastCoin>>
           /\ \/ node = "initial" /\ PhaseIs \in {"closing", "expired"} /\ coins' = 0
              \/ PhaseIs = "open" /\ UNCHANGED coins
<1>0. TypeInv /\ StackInv /\ TimeoutInv /\ NodeInv
  BY DEF IInv
<1>1. /\ stack # <<>> /\ stack' = M!Front(stack)
      /\ node' = node /\ UNCHANGED <<clock, lastCoin>>
      /\ node = "initial" => coins' = 0
      /\ node # "initial" => coins' = coins /\ ~OnTimer /\ Pending(current)
  BY DEF PopStep, StaysInVisit, M!TopIs, time
<1>2. ~Arrives'
  BY <1>1, PopFacts
<1>3. CASE node = "initial"
  <2>1. ~M!TopIs("exit")
    BY <1>0, <1>3 DEF NodeInv, TimeoutInv
  <2>2. Arrives
    BY <2>1 DEF PopStep, Arrives
  <2> QED
    BY <1>1, <1>2, <1>3, <2>2 DEF PhaseIs
<1>4. CASE node # "initial"
  <2>1. node # NoNode /\ current # 0
    BY <1>0, <1>1 DEF NodeInv, M!NoVisit
  <2>2. current \in Timers
    BY <1>0, <2>1, VendingMachineAssumption DEF TypeInv, Timers
  <2>3. node = "waiting"
    BY <1>0, <1>1, <1>4, <2>2 DEF TimeoutInv
  <2> QED
    BY <1>1, <1>4, <2>3 DEF PhaseIs
<1> QED
  BY <1>3, <1>4

(* A step of the vending service from one phase to another, or none.        *)
ServiceStep(from, to) ==
    \/ /\ from = "open" /\ to = "open"
       /\ coins' = coins + 1 /\ lastCoin' = clock /\ UNCHANGED clock
    \/ /\ from = "open" /\ to \in S!Items
       /\ coins >= S!Price(to)
       /\ UNCHANGED <<coins, clock, lastCoin>>
    \/ from \in S!Items /\ to = "closing" /\ UNCHANGED <<coins, clock, lastCoin>>
    \/ /\ from = "open" /\ coins > 0
       /\ to = "closing" \/ (to = "expired" /\ clock = lastCoin + Timeout)
       /\ UNCHANGED <<coins, clock, lastCoin>>
    \/ /\ from \in {"closing", "expired"} /\ to = "open"
       /\ coins' = 0 /\ UNCHANGED <<clock, lastCoin>>
    \/ /\ from = "open" /\ to = "open"
       /\ clock' > clock /\ (coins > 0 => clock' <= lastCoin + Timeout)
       /\ UNCHANGED <<coins, lastCoin>>
    \/ from = to /\ UNCHANGED <<coins, clock, lastCoin>>

(* They are the steps of VendingService.                                    *)
LEMMA ServiceSteps ==
    ASSUME ServiceStep(Phase, Phase')
    PROVE  [S!Next]_(S!vars)
<1>1. S!vars = <<Phase, coins, clock, lastCoin>> /\ S!vars' = <<Phase', coins', clock', lastCoin'>>
  BY DEF S!vars
<1> QED
  BY <1>1 DEF ServiceStep, S!Next, S!Insert, S!Press, S!Poured, S!Cancel, S!Expire, S!Reset,
              S!PassTo

(* Launch is no step of the service.                                        *)
LEMMA LaunchServes == IInv /\ Launch => ServiceStep(PhaseIs, PhaseIs')
<1> SUFFICES ASSUME IInv, Launch PROVE ServiceStep(PhaseIs, PhaseIs')
  OBVIOUS
<1>1. stack = <<>> /\ node = NoNode
  BY DEF Launch, MainRuns, M!Launch, IInv, NodeInv
<1>2. PhaseIs' = "closing" /\ UNCHANGED <<coins, clock, lastCoin>>
  BY <1>1, LaunchKind, EnterPhase
<1>3. PhaseIs = "closing"
  BY <1>1 DEF PhaseIs, NoNode, OnTimer
<1> QED
  BY <1>2, <1>3 DEF ServiceStep

(* Neither is an event, before Entry or the exit action has acted on it.    *)
LEMMA TriggerServes == \A e \in Events : IInv /\ Trigger(e) => ServiceStep(PhaseIs, PhaseIs')
<1> SUFFICES ASSUME NEW e \in Events, IInv, Trigger(e) PROVE ServiceStep(PhaseIs, PhaseIs')
  OBVIOUS
<1>1. CASE ExitStep
  BY <1>1, ExitPhase DEF ServiceStep
<1>2. CASE EnterStep(stack, callback, "waiting")
  <2>1. PhaseIs' = "open" /\ UNCHANGED <<coins, clock, lastCoin>>
    BY <1>2, EnterPhase
  <2>2. ~Arrives /\ current # M!NoVisit
    BY DEF Trigger, MainRuns, M!Trigger, Arrives, M!TopIs
  <2>3. node = "initial" \/ node = "waiting"
    BY <2>2 DEF IInv, TypeInv, NodeInv, Nodes
  <2>4. PhaseIs = "open"
    BY <2>2, <2>3 DEF PhaseIs
  <2> QED
    BY <2>1, <2>4 DEF ServiceStep
<1> QED
  BY <1>1, <1>2, TriggerKind

(* Neither is the beginning of a fast-forward.                              *)
LEMMA FastForwardServes ==
    \A to \in 1..MaxTime : IInv /\ FastForward(to) => ServiceStep(PhaseIs, PhaseIs')
<1> SUFFICES ASSUME NEW to \in 1..MaxTime, IInv, FastForward(to)
             PROVE  ServiceStep(PhaseIs, PhaseIs')
  OBVIOUS
<1>1. UNCHANGED <<node, stack, event, coins, clock, lastCoin>>
  BY DEF FastForward, T!AdvanceTo, machine
<1>2. PhaseIs' = PhaseIs
  BY <1>1, SameStackFacts DEF PhaseIs
<1> QED
  BY <1>1, <1>2 DEF ServiceStep

(* Time passes to the target, which is before the timeout of a sale.        *)
LEMMA FastForwardReturnsServes ==
    IInv /\ FastForwardReturns => ServiceStep(PhaseIs, PhaseIs')
<1> SUFFICES ASSUME IInv, FastForwardReturns PROVE ServiceStep(PhaseIs, PhaseIs')
  OBVIOUS
<1>0. TypeInv /\ StackInv /\ TimeoutInv /\ NodeInv
  BY DEF IInv
<1>1. /\ target \in Nat
      /\ clock' = IF target > clock THEN target ELSE clock
      /\ \A t \in Timers : Pending(t) => due[t] > target
      /\ \A t \in Timers : status[t] # "running"
  BY <1>0 DEF FastForwardReturns, T!Advanced, T!NoneRuns, T!Pending, T!D!Running,
              Pending, TypeInv
<1>2. UNCHANGED <<node, stack, event, coins, lastCoin>>
  BY DEF FastForwardReturns, machine
<1>3. stack = <<>>
  BY <1>0, <1>1 DEF StackInv, T!NoTarget
<1>4. ~Arrives /\ ~OnTimer /\ ~M!TopIs("entry")
  BY <1>3 DEF Arrives, OnTimer, M!TopIs
<1>5. PhaseIs' = PhaseIs
  BY <1>2, SameStackFacts DEF PhaseIs
<1>6. CASE clock' = clock
  BY <1>2, <1>5, <1>6 DEF ServiceStep
<1>7. CASE clock' # clock
  <2>1. clock' = target /\ clock' > clock
    BY <1>0, <1>1, <1>7 DEF TypeInv
  <2>2. node # NoNode
    BY <1>0, <1>1 DEF NodeInv, T!NoTarget
  <2>3. node \in {"initial", "waiting"}
    BY <1>0, <1>4, <2>2 DEF TypeInv, NodeInv, Nodes
  <2>4. PhaseIs = "open"
    BY <1>4, <2>3 DEF PhaseIs
  <2>5. ASSUME coins > 0 PROVE clock' <= lastCoin + Timeout
    <3>1. node = "waiting" /\ current \in exits
      BY <1>0, <1>4, <2>3, <2>5 DEF NodeInv
    <3>2. Pending(current)
      BY <1>0, <1>4, <3>1 DEF TimeoutInv
    <3>3. current \in Timers
      BY <1>0, <3>1, VendingMachineAssumption DEF TypeInv, Timers
    <3>4. due[current] = lastCoin + Timeout /\ due[current] > target
      BY <1>0, <1>1, <3>2, <3>3 DEF TimeoutInv
    <3>5. lastCoin + Timeout \in Nat
      BY <1>0, VendingMachineAssumption DEF TypeInv
    <3>6. target \in Nat /\ clock' = target
      BY <1>1, <2>1
    <3> QED
      BY <3>4, <3>5, <3>6
  <2> QED
    BY <1>2, <1>5, <2>1, <2>4, <2>5 DEF ServiceStep
<1> QED
  BY <1>6, <1>7

(* InitialState.Entry starts anew; the return of WaitingState.Entry is none.*)
LEMMA EntryServes ==
    IInv /\ (InitialEntry \/ WaitingEntered) => ServiceStep(PhaseIs, PhaseIs')
<1> SUFFICES ASSUME IInv, InitialEntry \/ WaitingEntered
             PROVE  ServiceStep(PhaseIs, PhaseIs')
  OBVIOUS
<1>1. PopStep
  BY InitialEntryKind, WaitingEnteredKind
<1> QED
  BY <1>1, PopPhase DEF ServiceStep

(* WaitingState.Entry takes the coin.                                       *)
LEMMA WaitingEntryServes == IInv /\ WaitingEntry => ServiceStep(PhaseIs, PhaseIs')
<1> SUFFICES ASSUME IInv, WaitingEntry PROVE ServiceStep(PhaseIs, PhaseIs')
  OBVIOUS
<1>1. node = "waiting" /\ node' = node /\ UNCHANGED clock
  BY DEF WaitingEntry, Entering, M!OnExit, time
<1>2. event = "coin"
  <2>1. current \notin exits
    BY DEF WaitingEntry, M!OnExit, M!Stale
  <2> QED
    BY <1>1, <2>1 DEF IInv, NodeInv
<1>3. coins' = coins + 1 /\ lastCoin' = clock
  BY <1>2 DEF WaitingEntry
<1>4. PhaseIs = "open" /\ PhaseIs' = "open"
  BY <1>1 DEF PhaseIs
<1> QED
  BY <1>1, <1>3, <1>4 DEF ServiceStep

(* Scheduling the timeout is no step of the service.                        *)
LEMMA SetTimeoutServes == IInv /\ SetTimeout => ServiceStep(PhaseIs, PhaseIs')
<1> SUFFICES ASSUME IInv, SetTimeout PROVE ServiceStep(PhaseIs, PhaseIs')
  OBVIOUS
<1>1. node = "waiting" /\ node' = node /\ UNCHANGED <<coins, clock, lastCoin>>
  BY DEF SetTimeout, Entering, M!AfterFunc, T!AfterFunc, M!machine
<1>2. PhaseIs = "open" /\ PhaseIs' = "open"
  BY <1>1 DEF PhaseIs
<1> QED
  BY <1>1, <1>2 DEF ServiceStep

(* PouringState.Entry has poured the item.                                  *)
LEMMA PouringEntryServes == IInv /\ PouringEntry => ServiceStep(PhaseIs, PhaseIs')
<1> SUFFICES ASSUME IInv, PouringEntry PROVE ServiceStep(PhaseIs, PhaseIs')
  OBVIOUS
<1>1. node = "pouring" /\ stack # <<>> /\ M!Top.kind = "entry"
  BY DEF PouringEntry, Entering, M!TopIs
<1>2. ~OnTimer /\ event \in Buttons
  BY <1>1 DEF IInv, NodeInv
<1>3. M!Front(stack) = <<>>
  BY <1>1, <1>2, BelowFacts
<1>4. PhaseIs' = "closing" /\ UNCHANGED <<coins, clock, lastCoin>>
  BY <1>3, PouringEntryKind, EnterPhase
<1>5. PhaseIs \in S!Items
  BY <1>1, <1>2 DEF PhaseIs, S!Items, Buttons
<1> QED
  BY <1>4, <1>5 DEF ServiceStep

(* The exit action sells, cancels or lets the sale expire, or refuses to.   *)
LEMMA WaitingExitServes == IInv /\ WaitingExit => ServiceStep(PhaseIs, PhaseIs')
<1> SUFFICES ASSUME IInv, WaitingExit PROVE ServiceStep(PhaseIs, PhaseIs')
  OBVIOUS
<1>0. TypeInv /\ StackInv /\ TimeoutInv /\ NodeInv
  BY DEF IInv
<1>1. CASE Guards
  <2>1. M!TopIs("exit") /\ stack' = M!Front(stack) /\ node' = node
    BY <1>1 DEF WaitingExit, M!ExitBlocks, M!Return
  <2>2. node = "waiting"
    BY <1>0, <2>1 DEF NodeInv, TimeoutInv
  <2>3. UNCHANGED <<coins, clock, lastCoin>>
    BY DEF WaitingExit, time
  <2> QED
    BY <2>1, <2>2, <2>3 DEF ServiceStep, PhaseIs
<1>2. CASE ~Guards
  <2>1. M!TopIs("exit") /\ M!Enter(M!Front(stack), M!Top.previous, M!Top.to)
    BY <1>2 DEF WaitingExit, M!ExitProceeds
  <2>2. /\ current \in exits /\ node = "waiting" /\ coins > 0
        /\ M!Top.to = Destination("waiting", event) /\ M!Top.to # NoNode
        /\ OnTimer => clock = lastCoin + Timeout
    BY <1>0, <2>1 DEF NodeInv, TimeoutInv
  <2>3. node' = M!Top.to /\ event' = event
    BY <2>1 DEF M!Enter, WaitingExit
  <2>4. stack # <<>> /\ M!Top.kind # "timer"
    BY <2>1 DEF M!TopIs
  <2>5. M!Front(stack) # <<>> <=> OnTimer
    BY <2>4, BelowFacts
  <2>6. PhaseIs = "open"
    BY <2>2 DEF PhaseIs
  <2>7. CASE PopStep
    BY <2>7, PopPhase, <2>2 DEF ServiceStep
  <2>8. CASE EnterStep(M!Front(stack), M!Top.previous, M!Top.to)
    <3>1. /\ PhaseIs' = IF M!Top.to = "pouring" THEN event'
                        ELSE IF M!Top.to = "waiting" THEN "open"
                        ELSE IF M!Front(stack) # <<>> THEN "expired" ELSE "closing"
          /\ UNCHANGED <<coins, clock, lastCoin>>
      BY <2>8, EnterPhase
    <3>2. CASE M!Top.to = "pouring"
      <4>1. PhaseIs' = event /\ event \in Buttons
        BY <2>2, <2>3, <3>1, <3>2 DEF Destination, NoNode
      <4>2. coins >= S!Price(event)
        BY <1>0, <1>2, <2>2, <4>1 DEF S!Price, Guards, TypeInv
      <4> QED
        BY <2>6, <3>1, <4>1, <4>2 DEF ServiceStep, S!Items, Buttons
    <3>3. CASE M!Top.to = "waiting"
      BY <2>6, <3>1, <3>3 DEF ServiceStep
    <3>4. CASE M!Top.to \notin {"pouring", "waiting"}
      BY <2>2, <2>5, <2>6, <3>1, <3>4 DEF ServiceStep
    <3> QED
      BY <3>2, <3>3, <3>4
  <2> QED
    BY <2>7, <2>8, WaitingExitKind
<1> QED
  BY <1>1, <1>2

(* The return of the Tracer is no step of the service.                      *)
LEMMA TracedServes == IInv /\ Traced => ServiceStep(PhaseIs, PhaseIs')
<1> SUFFICES ASSUME IInv, Traced PROVE ServiceStep(PhaseIs, PhaseIs')
  OBVIOUS
<1>1. UNCHANGED <<node, event, coins, clock, lastCoin>>
  BY DEF Traced, M!TraceReturns, M!machine, time
<1>2. (Arrives' <=> Arrives) /\ (OnTimer' <=> OnTimer)
  BY TracedStack
<1> QED
  BY <1>1, <1>2 DEF ServiceStep, PhaseIs

(* Time passes to the timeout, and not beyond.                              *)
LEMMA TimeoutFiresServes ==
    \A t \in Timers : IInv /\ TimeoutFires(t) => ServiceStep(PhaseIs, PhaseIs')
<1> SUFFICES ASSUME NEW t \in Timers, IInv, TimeoutFires(t)
             PROVE  ServiceStep(PhaseIs, PhaseIs')
  OBVIOUS
<1>1. /\ Pending(t) /\ clock' = due[t]
      /\ UNCHANGED <<node, coins, lastCoin>>
  BY DEF TimeoutFires, M!TimerFires, M!D!Start, T!Start, Pending
<1>2. /\ due[t] = lastCoin + Timeout /\ due[t] >= clock /\ node = "waiting"
      /\ clock \in Nat /\ due[t] \in Nat
  BY <1>1 DEF IInv, TimeoutInv, TypeInv
<1>3. PhaseIs = "open" /\ PhaseIs' = "open"
  BY <1>1, <1>2 DEF PhaseIs
<1>4. clock' = clock \/ (clock' > clock /\ clock' <= lastCoin + Timeout)
  BY <1>1, <1>2
<1> QED
  BY <1>1, <1>3, <1>4 DEF ServiceStep

(* The return of the callback of a timeout is no step of the service.       *)
LEMMA TimeoutReturnsServes == IInv /\ TimeoutReturns => ServiceStep(PhaseIs, PhaseIs')
<1> SUFFICES ASSUME IInv, TimeoutReturns PROVE ServiceStep(PhaseIs, PhaseIs')
  OBVIOUS
<1>1. /\ M!TopIs("timer") /\ event = "done" /\ stack # <<>>
      /\ stack' = M!Front(stack)
      /\ UNCHANGED <<node, coins, clock, lastCoin>>
  BY DEF TimeoutReturns, M!TimerReturns, M!Return, M!TopIs, time
<1>2. node = "initial"
  BY <1>1 DEF IInv, NodeInv
<1>3. ~Arrives /\ ~Arrives'
  BY <1>1, PopFacts DEF Arrives, M!TopIs
<1> QED
  BY <1>1, <1>2, <1>3 DEF ServiceStep, PhaseIs

(* The vending machine is a vending service, whatever the timeout and the   *)
(* bounds: an item is poured only for its price, coins are kept until the   *)
(* sale ends and not a step longer, and a sale times out exactly Timeout    *)
(* after its last coin (src/examples/vending-machine/main.go:51-53).        *)
THEOREM Service == Spec => IsAVendingService
<1>1. Init => S!Init
  <2> SUFFICES ASSUME Init PROVE S!Init
    OBVIOUS
  <2>1. node = NoNode /\ stack = <<>> /\ clock = 0 /\ lastCoin = 0 /\ coins = 0
    BY DEF Init, M!Init
  <2>2. Phase = "closing"
    <3>1. IInv
      BY InitHolds
    <3>2. Phase = PhaseIs
      BY <3>1, PhaseFacts
    <3> QED
      BY <2>1, <3>2 DEF PhaseIs, OnTimer, NoNode
  <2> QED
    BY <2>1, <2>2 DEF S!Init
<1>2. IInv /\ [Next]_vars => ServiceStep(PhaseIs, PhaseIs')
  <2> SUFFICES ASSUME IInv, [Next]_vars PROVE ServiceStep(PhaseIs, PhaseIs')
    OBVIOUS
  <2>1. CASE Launch
    BY <2>1, LaunchServes
  <2>2. CASE \E e \in Events : Trigger(e)
    BY <2>2, TriggerServes
  <2>3. CASE TimeGoesOn
    BY <2>3, FastForwardServes DEF TimeGoesOn
  <2>4. CASE InitialEntry \/ WaitingEntered
    BY <2>4, EntryServes
  <2>5. CASE WaitingEntry \/ SetTimeout
    BY <2>5, WaitingEntryServes, SetTimeoutServes
  <2>6. CASE PouringEntry \/ WaitingExit
    BY <2>6, PouringEntryServes, WaitingExitServes
  <2>7. CASE Traced \/ TimeoutReturns \/ FastForwardReturns
    BY <2>7, TracedServes, TimeoutReturnsServes, FastForwardReturnsServes
  <2>8. CASE \E t \in Timers : TimeoutFires(t)
    BY <2>8, TimeoutFiresServes
  <2>9. CASE TimeoutTriggers
    BY <2>9, TimeoutTriggersKind, ExitPhase DEF ServiceStep
  <2>10. CASE UNCHANGED vars
    <3>1. UNCHANGED <<node, stack, event, coins, clock, lastCoin>>
      BY <2>10 DEF vars, machine, time
    <3>2. PhaseIs' = PhaseIs
      BY <3>1, SameStackFacts DEF PhaseIs
    <3> QED
      BY <3>1, <3>2 DEF ServiceStep
  <2> QED
    BY <2>1, <2>2, <2>3, <2>4, <2>5, <2>6, <2>7, <2>8, <2>9, <2>10 DEF Next, Proceed
<1>3. IInv' => (Phase = PhaseIs)'
  BY PhaseFacts, PTL
<1>4. IInv /\ IInv' /\ [Next]_vars => [S!Next]_(S!vars)
  <2> SUFFICES ASSUME IInv, IInv', [Next]_vars PROVE [S!Next]_(S!vars)
    OBVIOUS
  <2>1. ServiceStep(PhaseIs, PhaseIs')
    BY <1>2
  <2>2. Phase = PhaseIs /\ Phase' = PhaseIs'
    BY <1>3, PhaseFacts
  <2>3. ServiceStep(Phase, Phase')
    BY <2>1, <2>2
  <2> QED
    BY <2>3, ServiceSteps
<1> QED
  BY <1>1, <1>4, Invariance, PTL DEF Spec, IsAVendingService, S!Spec
=============================================================================
