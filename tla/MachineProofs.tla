---------------------------- MODULE MachineProofs ----------------------------
(***************************************************************************)
(* Proofs about Machine for any graph, any timers and any bound on visits. *)
(***************************************************************************)
EXTENDS Machine, SequenceLemmas

-----------------------------------------------------------------------------
(* The stack                                                               *)

(* rest is a stack on which a transition may be in progress, and previous   *)
(* the callbackKind it has to restore: the whole stack when an operation    *)
(* begins, or what is below the callback of the operation in progress.      *)
Base(rest, previous) ==
    \/ /\ rest = stack
       /\ previous = callback
       /\ callback # "transition"
    \/ /\ stack # <<>>
       /\ Top.kind \in TransitionKinds
       /\ rest = Front(stack)
       /\ previous = Top.previous

StackInv ==
    /\ stack \in Seq(Frames)
    /\ \A i \in 1..Len(stack) : stack[i].kind = "timer" <=> stack[i].timer # NoTimer
    /\ OneOperation
    /\ CallbackMatchesStack

EmptyBase(rest, previous) ==
    /\ Len(rest) = 0 /\ rest = <<>>
    /\ previous = "none"
    /\ \A t \in Timers : ~D!Running(t)

TimerBase(rest, previous) ==
    /\ Len(rest) = 1 /\ rest # <<>>
    /\ rest[1].kind = "timer" /\ rest[1].previous = "none" /\ rest[1].timer # NoTimer
    /\ previous = "timer"
    /\ \A t \in Timers : D!Running(t) <=> rest[1].timer = t

(* A transition is on the empty stack or on one timer callback.             *)
LEMMA BaseFacts ==
    ASSUME StackInv, NEW rest, NEW previous, Base(rest, previous)
    PROVE  /\ rest \in Seq(Frames)
           /\ \/ EmptyBase(rest, previous)
              \/ TimerBase(rest, previous)
<1>1. /\ stack \in Seq(Frames) /\ Len(stack) \in Nat /\ Len(stack) <= 2
      /\ \A i \in 1..Len(stack) : stack[i] \in Frames
      /\ \A i \in 1..Len(stack) : stack[i].kind = "timer" <=> stack[i].timer # NoTimer
      /\ \A i \in 1..Len(stack) : stack[i].kind = "timer" => i = 1
      /\ Len(stack) = 2 => stack[1].kind = "timer"
      /\ \A t \in Timers : D!Running(t) <=> \E i \in 1..Len(stack) : stack[i].timer = t
  BY ElementOfSeq, LenProperties DEF StackInv, OneOperation
<1>2. /\ callback = IF stack = <<>> THEN "none" ELSE KindOf(Top)
      /\ \A i \in 1..Len(stack) :
           stack[i].previous = IF i = 1 THEN "none" ELSE KindOf(stack[i - 1])
  BY DEF StackInv, CallbackMatchesStack
<1>3. CASE stack = <<>>
  <2>1. rest = <<>> /\ previous = "none" /\ Len(rest) = 0
    BY <1>2, <1>3 DEF Base
  <2>2. \A t \in Timers : ~D!Running(t)
    BY <1>1, <1>3
  <2> QED
    BY <1>1, <1>3, <2>1, <2>2 DEF EmptyBase
<1>4. ASSUME stack # <<>>
      PROVE  /\ Top = stack[Len(stack)] /\ Len(stack) >= 1
             /\ Front(stack) \in Seq(Frames)
             /\ Len(Front(stack)) = Len(stack) - 1
             /\ \A j \in 1..(Len(stack) - 1) : Front(stack)[j] = stack[j]
  BY <1>1, <1>4, FrontFacts DEF Top
<1>5. ASSUME stack # <<>>, stack[1].kind = "timer"
      PROVE  \A t \in Timers : D!Running(t) <=> stack[1].timer = t
  <2>1. \A i \in 1..Len(stack) : i # 1 => stack[i].timer = NoTimer
    BY <1>1
  <2>2. 1 \in 1..Len(stack)
    BY <1>1, <1>4, <1>5
  <2>3. \A i \in 1..Len(stack), t \in Timers : stack[i].timer = t => i = 1
    BY <2>1, MachineAssumption
  <2> QED
    BY <1>1, <2>2, <2>3
<1>6. CASE stack # <<>> /\ rest = stack /\ previous = callback /\ callback # "transition"
  <2>1. Top.kind = "timer" /\ previous = "timer"
    BY <1>2, <1>6 DEF KindOf
  <2>2. Len(stack) = 1 /\ stack[1].kind = "timer"
    BY <1>1, <1>4, <1>6, <2>1
  <2>3. stack[1].previous = "none" /\ stack[1].timer # NoTimer
    BY <1>1, <1>2, <2>2
  <2> QED
    BY <1>1, <1>5, <1>6, <2>1, <2>2, <2>3 DEF TimerBase
<1>7. CASE /\ stack # <<>> /\ Top.kind \in TransitionKinds
           /\ rest = Front(stack) /\ previous = Top.previous
  <2>1. Top.kind # "timer"
    BY <1>7 DEF TransitionKinds
  <2>2. CASE Len(stack) = 1
    <3>1. Len(rest) = 0 /\ rest = <<>>
      BY <1>4, <1>7, <2>2, EmptySeq
    <3>2. previous = "none" /\ stack[1].timer = NoTimer
      BY <1>1, <1>2, <1>4, <1>7, <2>1, <2>2
    <3>3. \A t \in Timers : ~D!Running(t)
      BY <1>1, <2>2, <3>2, MachineAssumption
    <3> QED
      BY <1>4, <1>7, <3>1, <3>2, <3>3 DEF EmptyBase
  <2>3. CASE Len(stack) = 2
    <3>1. Len(rest) = 1 /\ rest[1] = stack[1]
      BY <1>4, <1>7, <2>3
    <3>2. stack[1].kind = "timer" /\ stack[1].timer # NoTimer /\ stack[1].previous = "none"
      BY <1>1, <1>2, <2>3
    <3>3. previous = "timer"
      <4>1. Top = stack[2] /\ 2 \in 1..Len(stack)
        BY <1>4, <1>7, <2>3
      <4>2. stack[2].previous = KindOf(stack[2 - 1])
        BY <1>2, <4>1
      <4> QED
        BY <1>7, <3>2, <4>1, <4>2 DEF KindOf
    <3>4. rest # <<>>
      BY <3>1
    <3> QED
      BY <1>4, <1>5, <1>7, <3>1, <3>2, <3>3, <3>4 DEF TimerBase
  <2> QED
    BY <1>1, <1>4, <1>7, <2>2, <2>3
<1> QED
  BY <1>3, <1>6, <1>7 DEF Base

(* A callback of a transition goes on top of a base.                        *)
LEMMA PushedStack ==
    ASSUME StackInv, NEW rest, NEW previous, Base(rest, previous),
           NEW f \in Frames, f.kind \in TransitionKinds, f.timer = NoTimer,
           f.previous = previous,
           stack' = Append(rest, f), callback' = "transition",
           \A t \in Timers : D!Running(t)' <=> D!Running(t)
    PROVE  StackInv' /\ stack' # <<>> /\ Top' = f /\ Len(stack') = Len(rest) + 1
<1>1. rest \in Seq(Frames) /\ (EmptyBase(rest, previous) \/ TimerBase(rest, previous))
  BY BaseFacts
<1>2. /\ stack' \in Seq(Frames) /\ stack' # <<>>
      /\ Len(stack') = Len(rest) + 1
      /\ \A j \in 1..Len(rest) : stack'[j] = rest[j]
      /\ stack'[Len(rest) + 1] = f
      /\ Top' = f
  BY <1>1, AppendFacts DEF Top
<1>3. f.kind # "timer" /\ KindOf(f) = "transition"
  BY DEF TransitionKinds, KindOf
<1>4. CASE EmptyBase(rest, previous)
  <2>1. Len(stack') = 1 /\ stack'[1] = f
    BY <1>2, <1>4 DEF EmptyBase
  <2>2. OneOperation'
    <3>1. \A t \in Timers : ~D!Running(t)' /\ f.timer # t
      BY <1>4, MachineAssumption DEF EmptyBase
    <3> QED
      BY <1>3, <2>1, <3>1 DEF OneOperation
  <2>3. CallbackMatchesStack'
    BY <1>2, <1>3, <1>4, <2>1 DEF CallbackMatchesStack, EmptyBase
  <2> QED
    BY <1>2, <1>3, <2>1, <2>2, <2>3 DEF StackInv
<1>5. CASE TimerBase(rest, previous)
  <2>1. /\ Len(stack') = 2 /\ stack'[1] = rest[1] /\ stack'[2] = f
        /\ \A i \in 1..Len(stack') : i = 1 \/ i = 2
    BY <1>2, <1>5 DEF TimerBase
  <2>2. /\ rest[1].kind = "timer" /\ rest[1].previous = "none" /\ rest[1].timer # NoTimer
        /\ KindOf(rest[1]) = "timer"
    BY <1>5 DEF TimerBase, KindOf
  <2>3. OneOperation'
    <3>1. \A t \in Timers : (D!Running(t)' <=> rest[1].timer = t) /\ f.timer # t
      BY <1>5, MachineAssumption DEF TimerBase
    <3>2. 1 \in 1..Len(stack') /\ 2 \in 1..Len(stack')
      BY <2>1
    <3>3. \A t \in Timers : D!Running(t)' <=> \E i \in 1..Len(stack') : stack'[i].timer = t
      BY <2>1, <3>1, <3>2
    <3> QED
      BY <1>3, <2>1, <2>2, <3>3 DEF OneOperation
  <2>4. CallbackMatchesStack'
    <3>1. stack'[1].previous = "none" /\ stack'[2].previous = KindOf(stack'[2 - 1])
      BY <1>5, <2>1, <2>2 DEF TimerBase
    <3>2. callback' = KindOf(Top')
      BY <1>2, <1>3
    <3>3. \A i \in 1..Len(stack') :
            stack'[i].previous = IF i = 1 THEN "none" ELSE KindOf(stack'[i - 1])
      BY <2>1, <3>1
    <3> QED
      BY <1>2, <3>2, <3>3 DEF CallbackMatchesStack, KindOf
  <2>5. \A i \in 1..Len(stack') : stack'[i].kind = "timer" <=> stack'[i].timer # NoTimer
    BY <1>3, <2>1, <2>2
  <2> QED
    BY <1>2, <2>3, <2>4, <2>5 DEF StackInv
<1> QED
  BY <1>1, <1>2, <1>4, <1>5

(* An operation returns to its base.                                        *)
LEMMA PoppedStack ==
    ASSUME StackInv, NEW rest, NEW previous, Base(rest, previous),
           stack' = rest, callback' = previous,
           \A t \in Timers : D!Running(t)' <=> D!Running(t)
    PROVE  StackInv' /\ (stack' # <<>> => Top'.kind = "timer")
<1>1. rest \in Seq(Frames) /\ (EmptyBase(rest, previous) \/ TimerBase(rest, previous))
  BY BaseFacts
<1>2. CASE EmptyBase(rest, previous)
  BY <1>1, <1>2 DEF EmptyBase, StackInv, OneOperation, CallbackMatchesStack
<1>3. CASE TimerBase(rest, previous)
  <2>1. /\ Len(stack') = 1 /\ stack' # <<>> /\ Top' = stack'[1]
        /\ stack'[1].kind = "timer" /\ stack'[1].previous = "none" /\ stack'[1].timer # NoTimer
        /\ callback' = "timer"
    <3>1. Last(rest) = rest[Len(rest)]
      BY DEF Last
    <3> QED
      BY <1>3, <3>1 DEF TimerBase, Top
  <2>2. OneOperation'
    BY <1>3, <2>1 DEF TimerBase, OneOperation
  <2>3. CallbackMatchesStack'
    BY <2>1 DEF CallbackMatchesStack, KindOf
  <2> QED
    BY <1>1, <2>1, <2>2, <2>3 DEF StackInv
<1> QED
  BY <1>1, <1>2, <1>3

-----------------------------------------------------------------------------
(* The inductive invariant                                                 *)

(* A timer was given the handle of a visit when it was created.             *)
OwnersAreVisits == \A t \in Timers : status[t] # "unused" => owner[t] \in Visits

(* The last reported transition ends where the machine is.                  *)
TracedIsHere == tracer => traced.to = CurrentState

IInv ==
    /\ TypeOK
    /\ TimersOfCurrentVisit
    /\ NoTimerLeak
    /\ OneOperation
    /\ CallbackMatchesStack
    /\ CallbackSeesItsState
    /\ OwnersAreVisits
    /\ TracedIsHere

-----------------------------------------------------------------------------
(* The kinds of steps: what the twenty actions of Next do to a transition.  *)

(* The machine enters the node to: by Launch, or along an edge.             *)
EnterStep(rest, previous, to) ==
    /\ Enter(rest, previous, to)
    /\ IF current = NoVisit THEN to = InitialNode
                            ELSE \E e \in Events : Edges[node, e] = to
    /\ current \in exits => TopIs("exit")

(* An exit action is called.                                                *)
ExitStep(rest, previous, kind, to) ==
    /\ current # NoVisit
    /\ stack' = Append(rest, Frame(kind, current, to, previous))
    /\ callback' = "transition"
    /\ UNCHANGED <<tracer, node, current, exits, timers, visits, handed, traced>>
    /\ kind = "exit" => to # NoNode /\ \E e \in Events : Edges[node, e] = to

(* The visit ends by a stop.                                                *)
EndStep(rest, previous) ==
    /\ current # NoVisit
    /\ EndVisit(rest, previous, current)
    /\ current \in exits => TopIs("stop exit")

(* An operation returns or panics, and the machine stays where it is.       *)
PopStep(rest, previous) ==
    /\ stack # <<>>
    /\ Top.kind \in TransitionKinds
    /\ stack' = rest
    /\ callback' = previous
    /\ exits' \in SUBSET exits
    /\ UNCHANGED <<tracer, node, current, timers, visits, handed, traced>>
    /\ TopIs("stop exit") => Top.visit \notin exits'

TransitionStep(rest, previous) ==
    \/ \E to \in Nodes : EnterStep(rest, previous, to)
    \/ \E kind \in {"exit", "stop exit"}, to \in Nodes \cup {NoNode} :
         ExitStep(rest, previous, kind, to)
    \/ EndStep(rest, previous)
    \/ PopStep(rest, previous)

HandleStep ==
    \E v \in Visits : OnExit(v) \/ \E t \in Timers : AfterFunc(v, t)

TimerEnds == TimerReturns \/ TimerPanics

(* The fields of the innermost callback have their types.                   *)
LEMMA KindsOfFrames ==
    ASSUME TypeOK, stack # <<>>
    PROVE  /\ Top \in Frames
           /\ Top.visit \in Visits /\ Top.visit # NoVisit
           /\ Top.to \in Nodes \cup {NoNode}
           /\ Top.timer \in Timers \cup {NoTimer}
<1>1. Top \in Frames
  <2>1. stack \in Seq(Frames)
    BY DEF TypeOK
  <2> QED
    BY <2>1, FrontFacts DEF Top
<1> HIDE DEF Top
<1>2. \A n \in Visits : n # NoVisit
  BY MachineAssumption DEF Visits, NoVisit
<1> QED
  BY <1>1, <1>2 DEF Frames

(* Leave ends at the exit action, or else at the callback of the node it    *)
(* enters.                                                                  *)
LEMMA LeaveKind ==
    ASSUME TypeOK, NEW rest, NEW previous, NEW e \in Events,
           current # NoVisit, Leave(rest, previous, current, e)
    PROVE  TransitionStep(rest, previous)
<1> DEFINE to == Edges[node, e]
<1>1. node \in Nodes /\ to \in Nodes
  <2>1. node \in Nodes
    BY DEF TypeOK
  <2>2. to \in Nodes \cup {NoNode}
    BY <2>1, MachineAssumption
  <2> QED
    BY <2>1, <2>2 DEF Leave
<1>2. to # NoNode /\ \E f \in Events : Edges[node, f] = to
  BY DEF Leave
<1>3. CASE current \in exits
  <2>1. ExitStep(rest, previous, "exit", to)
    BY <1>2, <1>3 DEF Leave, ExitStep
  <2> QED
    BY <1>1, <2>1 DEF TransitionStep
<1>4. CASE current \notin exits
  <2>1. EnterStep(rest, previous, to)
    BY <1>2, <1>4 DEF Leave, EnterStep
  <2> QED
    BY <1>1, <2>1 DEF TransitionStep
<1> QED
  BY <1>3, <1>4

(* A stop is one of the kinds of step by which a transition begins.         *)
LEMMA StopKind ==
    ASSUME NEW rest, NEW previous, current # NoVisit, StopVisit(rest, previous, current)
    PROVE  TransitionStep(rest, previous)
<1>1. CASE current \in exits
  <2>1. ExitStep(rest, previous, "stop exit", NoNode)
    BY <1>1 DEF StopVisit, ExitStep
  <2> QED
    BY <2>1 DEF TransitionStep
<1>2. CASE current \notin exits
  BY <1>2 DEF StopVisit, EndStep, TransitionStep
<1> QED
  BY <1>1, <1>2

(* Every action of the machine is a step of one of a few kinds.             *)
LEMMA StepKinds ==
    ASSUME IInv, Next
    PROVE  \/ \E rest, previous : Base(rest, previous) /\ TransitionStep(rest, previous)
           \/ HandleStep
           \/ \E t \in Timers : TimerFires(t)
           \/ TimerEnds
           \/ TraceReturns
<1> USE DEF IInv
<1>1. ASSUME NEW kind \in TransitionKinds, TopIs(kind)
      PROVE  /\ stack # <<>> /\ Top.kind = kind
             /\ Base(Front(stack), Top.previous)
  BY <1>1 DEF TopIs, Base
<1>2. ASSUME NEW kind \in TransitionKinds, TopIs(kind), kind # "stop trace"
      PROVE  Top.visit = current /\ current # NoVisit
  BY <1>1, <1>2, KindsOfFrames DEF CallbackSeesItsState, TransitionKinds
<1>3. CASE Launch
  <2>1. Base(stack, callback) /\ current = NoVisit
    BY <1>3 DEF Launch, Base
  <2>2. InitialNode \in Nodes
    BY MachineAssumption
  <2>3. CASE NoVisit \notin exits
    BY <1>3, <2>1, <2>2, <2>3 DEF Launch, EnterStep, TransitionStep
  <2>4. NoVisit \notin exits
    BY MachineAssumption DEF TypeOK, Visits, NoVisit
  <2> QED
    BY <2>3, <2>4
<1>4. CASE \E e \in Events : Trigger(e)
  <2>1. PICK e \in Events : Trigger(e)
    BY <1>4
  <2>2. Base(stack, callback)
    BY <2>1 DEF Trigger, Base
  <2> QED
    BY <2>1, <2>2, LeaveKind DEF Trigger
<1>5. CASE Stop
  <2>1. Base(stack, callback)
    BY <1>5 DEF Stop, Base
  <2> QED
    BY <1>5, <2>1, StopKind DEF Stop
<1>6. ASSUME NEW v \in Visits,
             \/ OnExit(v)
             \/ \E t \in Timers : AfterFunc(v, t)
      PROVE  HandleStep
  BY <1>6 DEF HandleStep
<1>7. ASSUME NEW v \in Visits,
             \/ \E e \in Events : HandleTrigger(v, e)
             \/ HandleStop(v)
      PROVE  (\E e \in Events : Trigger(e)) \/ Stop
  BY <1>7 DEF HandleTrigger, HandleStop
<1>8. CASE ExitProceeds
  <2>1. TopIs("exit") /\ "exit" \in TransitionKinds
    BY <1>8 DEF ExitProceeds, TransitionKinds
  <2>2. Top.to \in Nodes /\ \E e \in Events : Edges[node, e] = Top.to
    BY <1>1, <2>1, KindsOfFrames DEF CallbackSeesItsState
  <2>3. EnterStep(Front(stack), Top.previous, Top.to)
    BY <1>2, <1>8, <2>1, <2>2 DEF ExitProceeds, EnterStep
  <2> QED
    BY <1>1, <2>1, <2>2, <2>3 DEF TransitionStep
<1>9. CASE ExitBlocks \/ StopTraceReturns \/ EntryStays
  <2>1. PICK kind \in TransitionKinds \ {"stop exit"} : TopIs(kind)
    BY <1>9 DEF ExitBlocks, StopTraceReturns, EntryStays, TransitionKinds
  <2>2. PopStep(Front(stack), Top.previous)
    BY <1>1, <1>9, <2>1
    DEF ExitBlocks, StopTraceReturns, EntryStays, PopStep, Return, TopIs
  <2> QED
    BY <1>1, <2>1, <2>2 DEF TransitionStep
<1>10. CASE CallbackPanics
  <2>1. PICK kind \in TransitionKinds : TopIs(kind)
    BY <1>10 DEF CallbackPanics
  <2>2. exits' \in SUBSET exits /\ (TopIs("stop exit") => Top.visit \notin exits')
    BY <1>1, <1>10, <2>1 DEF CallbackPanics, TopIs
  <2>3. PopStep(Front(stack), Top.previous)
    BY <1>1, <1>10, <2>1, <2>2 DEF CallbackPanics, PopStep, Return
  <2> QED
    BY <1>1, <2>1, <2>3 DEF TransitionStep
<1>11. CASE StopExitReturns
  <2>1. TopIs("stop exit") /\ "stop exit" \in TransitionKinds
    BY <1>11 DEF StopExitReturns, TransitionKinds
  <2>2. EndStep(Front(stack), Top.previous)
    BY <1>2, <1>11, <2>1 DEF StopExitReturns, EndStep
  <2> QED
    BY <1>1, <2>1, <2>2 DEF TransitionStep
<1>12. CASE EntryStops \/ \E e \in Events : EntryTriggers(e)
  <2>1. TopIs("entry") /\ "entry" \in TransitionKinds
    BY <1>12 DEF EntryStops, EntryTriggers, TransitionKinds
  <2>2. current # NoVisit /\ Top.visit = current
    BY <1>2, <2>1
  <2>3. TransitionStep(Front(stack), Top.previous)
    <3>1. CASE EntryStops
      BY <2>2, <3>1, StopKind DEF EntryStops
    <3>2. ASSUME NEW e \in Events, EntryTriggers(e)
          PROVE  TransitionStep(Front(stack), Top.previous)
      BY <2>2, <3>2, LeaveKind DEF EntryTriggers
    <3> QED
      BY <1>12, <3>1, <3>2
  <2> QED
    BY <1>1, <2>1, <2>3
<1> QED
  BY <1>3, <1>4, <1>5, <1>6, <1>7, <1>8, <1>9, <1>10, <1>11, <1>12
  DEF Next, CallbackEnds, TimerEnds

-----------------------------------------------------------------------------
(* The invariant is inductive                                              *)

(* The end of a visit stops every timer that could still fire, and no other. *)
LEMMA SetFacts ==
    ASSUME IInv, NEW v, Set(v)
    PROVE  /\ current' = v
           /\ group' = {}
           /\ status' \in [Timers -> D!Statuses]
           /\ \A t \in Timers : status'[t] # "pending"
           /\ \A t \in Timers : D!Running(t)' <=> D!Running(t)
           /\ \A t \in Timers : status'[t] # "unused" => status[t] # "unused"
<1>1. status \in [Timers -> D!Statuses]
  BY DEF IInv, TypeOK
<1>2. \A t \in Timers : status[t] = "pending" => t \in group
  BY DEF IInv, TimersOfCurrentVisit
<1>3. /\ current' = v /\ group' = {}
      /\ status' = [t \in Timers |->
                      IF t \in group /\ status[t] = "pending" THEN "stopped" ELSE status[t]]
  BY DEF Set
<1> QED
  BY <1>1, <1>2, <1>3 DEF D!Running, D!Statuses

(* A callback the machine starts is a frame with the fields it was given.   *)
LEMMA FrameType ==
    ASSUME NEW kind \in TransitionKinds, NEW v \in Visits, NEW to \in Nodes \cup {NoNode},
           NEW previous \in {"none", "timer"}
    PROVE  LET f == Frame(kind, v, to, previous)
           IN  /\ f \in Frames /\ f.kind = kind /\ f.visit = v /\ f.to = to
               /\ f.timer = NoTimer /\ f.previous = previous
BY DEF Frame, Frames

(* The invariant, with the parts that concern the stack taken together.     *)
LEMMA StackOfIInv == IInv <=> /\ TypeOK /\ StackInv
                              /\ TimersOfCurrentVisit /\ NoTimerLeak
                              /\ CallbackSeesItsState /\ OwnersAreVisits /\ TracedIsHere
BY DEF IInv, StackInv, TypeOK

(* Entering a node keeps the invariant.                                     *)
LEMMA EnterPreserves ==
    ASSUME IInv, NEW rest, NEW previous, Base(rest, previous),
           NEW to \in Nodes, Enter(rest, previous, to)
    PROVE  IInv' /\ current' = visits + 1 /\ CurrentState' = to
<1> DEFINE kind == IF tracer THEN "trace" ELSE "entry"
           f == Frame(kind, visits', NoNode, previous)
<1>1. /\ TypeOK /\ StackInv /\ OwnersAreVisits /\ TracedIsHere
  BY StackOfIInv
<1>2. /\ visits \in Nat /\ visits' = visits + 1 /\ visits' \in 0..MaxVisits
      /\ visits' \in Visits /\ visits' # NoVisit
  BY <1>1, MachineAssumption DEF TypeOK, Enter, Visits, NoVisit
<1>3. /\ node' = to /\ Set(visits') /\ callback' = "transition"
      /\ Report(CurrentState, to)
      /\ stack' = Append(rest, f)
      /\ handed' \in SUBSET (handed \cup {visits'})
      /\ UNCHANGED <<tracer, exits, halted, owner>>
  BY DEF Enter
<1>4. /\ current' = visits'
      /\ group' = {}
      /\ status' \in [Timers -> D!Statuses]
      /\ \A t \in Timers : status'[t] # "pending"
      /\ \A t \in Timers : D!Running(t)' <=> D!Running(t)
      /\ \A t \in Timers : status'[t] # "unused" => status[t] # "unused"
  BY <1>3, SetFacts
<1>5. previous \in {"none", "timer"}
  BY <1>1, BaseFacts DEF EmptyBase, TimerBase
<1>6. /\ f \in Frames /\ f.kind = kind /\ f.visit = visits' /\ f.timer = NoTimer
      /\ f.previous = previous /\ kind \in {"trace", "entry"} /\ kind \in TransitionKinds
  <2>1. kind \in {"trace", "entry"} /\ kind \in TransitionKinds
    BY DEF TransitionKinds
  <2> HIDE DEF kind
  <2> QED
    BY <1>2, <1>5, <2>1, FrameType
<1> HIDE DEF f, kind
<1>7. StackInv' /\ stack' # <<>> /\ Top' = f
  BY <1>1, <1>3, <1>4, <1>6, PushedStack
<1>8. CurrentState' = to
  BY <1>2, <1>3, <1>4 DEF CurrentState
<1>9. CurrentState \in Nodes \cup {NoNode}
  BY <1>1 DEF CurrentState, TypeOK
<1>10. /\ traced' \in [from : Nodes \cup {NoNode}, to : Nodes \cup {NoNode}]
       /\ tracer => traced'.to = to
  BY <1>1, <1>3, <1>9 DEF Report, TypeOK
<1>11. TypeOK'
  BY <1>1, <1>2, <1>3, <1>4, <1>7, <1>10 DEF TypeOK, StackInv
<1>12. TimersOfCurrentVisit' /\ NoTimerLeak'
  BY <1>4 DEF TimersOfCurrentVisit, NoTimerLeak
<1>13. CallbackSeesItsState'
  BY <1>4, <1>6, <1>7 DEF CallbackSeesItsState
<1>14. OwnersAreVisits'
  BY <1>1, <1>3, <1>4 DEF OwnersAreVisits
<1>15. TracedIsHere'
  BY <1>3, <1>8, <1>10 DEF TracedIsHere
<1>16. IInv'
  BY <1>7, <1>11, <1>12, <1>13, <1>14, <1>15 DEF IInv, StackInv
<1> QED
  BY <1>2, <1>4, <1>8, <1>16

(* Running an exit action keeps the invariant.                              *)
LEMMA ExitPreserves ==
    ASSUME IInv, NEW rest, NEW previous, Base(rest, previous),
           NEW kind \in {"exit", "stop exit"}, NEW to \in Nodes \cup {NoNode},
           ExitStep(rest, previous, kind, to)
    PROVE  IInv'
<1> DEFINE f == Frame(kind, current, to, previous)
<1>1. /\ TypeOK /\ StackInv /\ TimersOfCurrentVisit /\ NoTimerLeak
      /\ OwnersAreVisits /\ TracedIsHere
  BY StackOfIInv
<1>2. /\ current # NoVisit /\ current \in Visits
      /\ stack' = Append(rest, f) /\ callback' = "transition"
      /\ UNCHANGED <<tracer, node, current, exits, timers, visits, handed, traced>>
  BY <1>1 DEF ExitStep, TypeOK
<1>3. previous \in {"none", "timer"}
  BY <1>1, BaseFacts DEF EmptyBase, TimerBase
<1>4. kind \in TransitionKinds
  BY DEF TransitionKinds
<1>5. /\ f \in Frames /\ f.kind = kind /\ f.visit = current /\ f.to = to
      /\ f.timer = NoTimer /\ f.previous = previous
  <2>1. current \in Visits
    BY <1>2
  <2> QED
    BY <1>3, <1>4, <2>1 DEF Frame, Frames
<1> HIDE DEF f
<1>6. /\ group \in SUBSET Timers /\ group' = group /\ status' = status /\ owner' = owner
      /\ \A t \in Timers : D!Running(t)' <=> D!Running(t)
  BY <1>1, <1>2 DEF timers, D!Running, TypeOK
<1>7. StackInv' /\ stack' # <<>> /\ Top' = f
  BY <1>1, <1>2, <1>4, <1>5, <1>6, PushedStack
<1>8. TypeOK'
  BY <1>1, <1>2, <1>7 DEF TypeOK, StackInv, timers
<1>9. /\ TimersOfCurrentVisit' /\ NoTimerLeak' /\ OwnersAreVisits'
  BY <1>1, <1>2, <1>6 DEF TimersOfCurrentVisit, NoTimerLeak, OwnersAreVisits
<1>10. TracedIsHere'
  BY <1>1, <1>2 DEF TracedIsHere, CurrentState
<1>11. CallbackSeesItsState'
  BY <1>2, <1>5, <1>7 DEF CallbackSeesItsState, ExitStep
<1> QED
  BY <1>7, <1>8, <1>9, <1>10, <1>11 DEF IInv, StackInv

(* Ending a visit keeps the invariant.                                      *)
LEMMA EndPreserves ==
    ASSUME IInv, NEW rest, NEW previous, Base(rest, previous), EndStep(rest, previous)
    PROVE  IInv' /\ current' = NoVisit /\ CurrentState' = NoNode
<1> DEFINE f == Frame("stop trace", current, NoNode, previous)
<1>1. /\ TypeOK /\ StackInv /\ OwnersAreVisits
  BY StackOfIInv
<1>2. /\ current \in Visits
      /\ Set(NoVisit) /\ Report(node, NoNode)
      /\ UNCHANGED <<tracer, node, exits, halted, owner, visits, handed>>
      /\ \/ stack' = Append(rest, f) /\ callback' = "transition"
         \/ stack' = rest /\ callback' = previous
  BY <1>1 DEF EndStep, EndVisit, TypeOK
<1>3. /\ current' = NoVisit
      /\ group' = {}
      /\ status' \in [Timers -> D!Statuses]
      /\ \A t \in Timers : status'[t] # "pending"
      /\ \A t \in Timers : D!Running(t)' <=> D!Running(t)
      /\ \A t \in Timers : status'[t] # "unused" => status[t] # "unused"
  BY <1>2, SetFacts
<1>4. previous \in {"none", "timer"}
  BY <1>1, BaseFacts DEF EmptyBase, TimerBase
<1>5. /\ f \in Frames /\ f.kind = "stop trace" /\ f.kind \in TransitionKinds
      /\ f.timer = NoTimer /\ f.previous = previous
  <2>1. "stop trace" \in TransitionKinds
    BY DEF TransitionKinds
  <2>2. current \in Visits
    BY <1>2
  <2>3. NoNode \in Nodes \cup {NoNode}
    OBVIOUS
  <2> QED
    BY <1>4, <2>1, <2>2, <2>3 DEF Frame, Frames
<1> HIDE DEF f
<1>6. StackInv' /\ (stack' # <<>> => Top'.kind \in {"stop trace", "timer"})
  <2>1. CASE stack' = Append(rest, f) /\ callback' = "transition"
    BY <1>1, <1>3, <1>5, <2>1, PushedStack
  <2>2. CASE stack' = rest /\ callback' = previous
    BY <1>1, <1>3, <2>2, PoppedStack
  <2> QED
    BY <1>2, <2>1, <2>2
<1>7. CurrentState' = NoNode
  BY <1>3 DEF CurrentState
<1>8. node \in Nodes \cup {NoNode}
  BY <1>1 DEF TypeOK
<1>9. /\ traced' \in [from : Nodes \cup {NoNode}, to : Nodes \cup {NoNode}]
      /\ tracer => traced'.to = NoNode
  BY <1>1, <1>2, <1>8 DEF Report, TypeOK
<1>10. callback' \in {"none", "timer", "transition"}
  BY <1>2, <1>4
<1>11. TypeOK'
  BY <1>1, <1>2, <1>3, <1>6, <1>9, <1>10 DEF TypeOK, StackInv
<1>12. TimersOfCurrentVisit' /\ NoTimerLeak' /\ OwnersAreVisits'
  BY <1>1, <1>2, <1>3 DEF TimersOfCurrentVisit, NoTimerLeak, OwnersAreVisits
<1>13. CallbackSeesItsState' /\ TracedIsHere'
  BY <1>2, <1>3, <1>6, <1>7, <1>9 DEF CallbackSeesItsState, TracedIsHere
<1> QED
  BY <1>3, <1>6, <1>7, <1>11, <1>12, <1>13 DEF IInv, StackInv

(* The return of a callback keeps the invariant.                            *)
LEMMA PopPreserves ==
    ASSUME IInv, NEW rest, NEW previous, Base(rest, previous), PopStep(rest, previous)
    PROVE  IInv'
<1>1. /\ TypeOK /\ StackInv /\ TimersOfCurrentVisit /\ NoTimerLeak
      /\ OwnersAreVisits /\ TracedIsHere
  BY StackOfIInv
<1>2. /\ stack' = rest /\ callback' = previous /\ exits' \in SUBSET exits
      /\ UNCHANGED <<tracer, node, current, timers, visits, handed, traced>>
  BY DEF PopStep
<1>3. /\ group \in SUBSET Timers /\ group' = group /\ status' = status /\ owner' = owner
      /\ \A t \in Timers : D!Running(t)' <=> D!Running(t)
  BY <1>1, <1>2 DEF timers, D!Running, TypeOK
<1>4. StackInv' /\ (stack' # <<>> => Top'.kind = "timer")
  BY <1>1, <1>2, <1>3, PoppedStack
<1>5. callback' \in {"none", "timer", "transition"}
  BY <1>1, <1>2, BaseFacts DEF EmptyBase, TimerBase
<1>6. TypeOK'
  BY <1>1, <1>2, <1>4, <1>5 DEF TypeOK, StackInv, timers
<1>7. TimersOfCurrentVisit' /\ NoTimerLeak' /\ OwnersAreVisits'
  BY <1>1, <1>2, <1>3 DEF TimersOfCurrentVisit, NoTimerLeak, OwnersAreVisits
<1>8. TracedIsHere'
  BY <1>1, <1>2 DEF TracedIsHere, CurrentState
<1>9. CallbackSeesItsState'
  BY <1>4 DEF CallbackSeesItsState
<1> QED
  BY <1>4, <1>6, <1>7, <1>8, <1>9 DEF IInv, StackInv

(* Setting an exit action keeps the invariant.                              *)
LEMMA OnExitPreserves ==
    ASSUME IInv, NEW v \in Visits, OnExit(v)
    PROVE  IInv'
<1>1. /\ exits' = exits \cup {v}
      /\ tracer' = tracer /\ node' = node /\ current' = current /\ callback' = callback
      /\ group' = group /\ status' = status /\ halted' = halted /\ owner' = owner
      /\ stack' = stack /\ visits' = visits /\ handed' = handed /\ traced' = traced
  BY DEF OnExit, timers
<1>2. group \in SUBSET Timers /\ \A t \in Timers : D!Running(t)' <=> D!Running(t)
  BY <1>1 DEF D!Running, IInv, TypeOK
<1>3. TypeOK'
  BY <1>1 DEF IInv, TypeOK
<1>4. TimersOfCurrentVisit' /\ NoTimerLeak' /\ OwnersAreVisits'
  BY <1>1, <1>2 DEF IInv, TimersOfCurrentVisit, NoTimerLeak, OwnersAreVisits
<1>5. OneOperation' /\ CallbackMatchesStack'
  BY <1>1, <1>2 DEF IInv, OneOperation, CallbackMatchesStack, Top
<1>6. CallbackSeesItsState' /\ TracedIsHere'
  BY <1>1 DEF IInv, CallbackSeesItsState, Top, TracedIsHere, CurrentState
<1> QED
  BY <1>3, <1>4, <1>5, <1>6 DEF IInv

(* Scheduling a timer keeps the invariant.                                  *)
LEMMA AfterFuncPreserves ==
    ASSUME IInv, NEW v \in Visits, NEW t \in Timers, AfterFunc(v, t)
    PROVE  IInv'
<1>1. /\ v = current /\ status[t] = "unused"
      /\ status' = [status EXCEPT ![t] = "pending"]
      /\ group' = group \cup {t}
      /\ owner' = [owner EXCEPT ![t] = v]
      /\ halted' = halted
      /\ tracer' = tracer /\ node' = node /\ current' = current /\ callback' = callback
      /\ exits' = exits
      /\ stack' = stack /\ visits' = visits /\ handed' = handed /\ traced' = traced
  BY DEF AfterFunc, Stale, D!AfterFunc, machine
<1>2. /\ group \in SUBSET Timers
      /\ status \in [Timers -> D!Statuses]
      /\ owner \in [Timers -> Visits \cup {NoVisit}]
  BY DEF IInv, TypeOK
<1>3. \A u \in Timers : D!Running(u)' <=> D!Running(u)
  BY <1>1, <1>2 DEF D!Running
<1>4. TypeOK'
  <2>1. status' \in [Timers -> D!Statuses] /\ owner' \in [Timers -> Visits \cup {NoVisit}]
    BY <1>1, <1>2 DEF D!Statuses
  <2> QED
    BY <1>1, <1>2, <2>1 DEF IInv, TypeOK
<1>5. TimersOfCurrentVisit' /\ OwnersAreVisits'
  BY <1>1, <1>2 DEF IInv, TimersOfCurrentVisit, OwnersAreVisits
<1>6. NoTimerLeak'
  <2>1. \A u \in group' : status'[u] = "pending" \/ D!Running(u)'
    BY <1>1, <1>2, <1>3 DEF IInv, NoTimerLeak
  <2> QED
    BY <2>1 DEF NoTimerLeak
<1>7. OneOperation' /\ CallbackMatchesStack'
  BY <1>1, <1>3 DEF IInv, OneOperation, CallbackMatchesStack, Top
<1>8. CallbackSeesItsState' /\ TracedIsHere'
  BY <1>1 DEF IInv, CallbackSeesItsState, Top, TracedIsHere, CurrentState
<1> QED
  BY <1>4, <1>5, <1>6, <1>7, <1>8 DEF IInv

(* Going on from the Tracer to Entry keeps the invariant.                   *)
LEMMA TraceReturnsPreserves ==
    ASSUME IInv, TraceReturns
    PROVE  IInv' /\ stack' # Front(stack)
<1> DEFINE n == Len(stack)
<1>1. /\ stack # <<>> /\ Top.kind = "trace"
      /\ stack' = [stack EXCEPT ![n].kind = "entry"]
      /\ handed' = handed \cup {Top.visit}
      /\ tracer' = tracer /\ node' = node /\ current' = current /\ callback' = callback
      /\ exits' = exits
      /\ group' = group /\ status' = status /\ halted' = halted /\ owner' = owner
      /\ visits' = visits /\ traced' = traced
  BY DEF TraceReturns, TopIs, machine, timers
<1>2. /\ stack \in Seq(Frames) /\ n \in Nat /\ n >= 1 /\ Top = stack[n]
      /\ Top \in Frames /\ Top.visit \in Visits
  BY <1>1, FrontFacts, KindsOfFrames DEF IInv, TypeOK, Top
<1> DEFINE f == [stack[n] EXCEPT !.kind = "entry"]
<1>3. /\ f \in Frames /\ f.kind = "entry"
      /\ f.visit = Top.visit /\ f.timer = Top.timer /\ f.previous = Top.previous
  <2>1. stack[n] \in Frames
    BY <1>2
  <2> QED
    BY <1>2, <2>1 DEF Frames, TransitionKinds
<1> HIDE DEF f
<1>4. stack' = Append(Front(stack), f)
  <2>1. stack' = [stack EXCEPT ![n] = f] /\ n \in 1..Len(stack)
    BY <1>1, <1>2 DEF f
  <2>2. /\ stack' \in Seq(Frames) /\ Len(stack') = n
        /\ \A j \in 1..n : stack'[j] = IF j = n THEN f ELSE stack[j]
    BY <1>2, <1>3, <2>1, ExceptSeq
  <2>3. /\ Front(stack) \in Seq(Frames)
        /\ Len(Front(stack)) = n - 1
        /\ \A j \in 1..(n - 1) : Front(stack)[j] = stack[j]
    BY <1>1, <1>2, FrontFacts
  <2>4. /\ Append(Front(stack), f) \in Seq(Frames)
        /\ Len(Append(Front(stack), f)) = (n - 1) + 1
        /\ \A j \in 1..(n - 1) : Append(Front(stack), f)[j] = Front(stack)[j]
        /\ Append(Front(stack), f)[(n - 1) + 1] = f
    BY <1>3, <2>3, AppendFacts
  <2>5. \A j \in 1..n : stack'[j] = Append(Front(stack), f)[j]
    BY <1>2, <2>2, <2>3, <2>4
  <2> QED
    BY <1>2, <2>2, <2>4, <2>5, SeqEqual
<1>5. /\ StackInv
      /\ Base(Front(stack), Top.previous)
      /\ f.kind \in TransitionKinds /\ f.timer = NoTimer
      /\ callback = "transition"
  <2>1. StackInv /\ CallbackMatchesStack
    BY StackOfIInv DEF StackInv
  <2>2. Top.kind \in TransitionKinds /\ f.kind \in TransitionKinds
    BY <1>1, <1>3 DEF TransitionKinds
  <2>3. f.timer = NoTimer
    BY <1>1, <1>2, <1>3 DEF IInv, TypeOK
  <2>4. callback = "transition"
    BY <1>1, <2>1 DEF CallbackMatchesStack, KindOf
  <2> QED
    BY <1>1, <2>1, <2>2, <2>3, <2>4 DEF Base
<1>6. group \in SUBSET Timers /\ \A t \in Timers : D!Running(t)' <=> D!Running(t)
  BY <1>1 DEF D!Running, IInv, TypeOK
<1>7. StackInv' /\ Top' = f /\ Len(stack') = Len(Front(stack)) + 1
  BY <1>1, <1>3, <1>4, <1>5, <1>6, PushedStack
<1>8. TypeOK'
  BY <1>1, <1>2, <1>7 DEF IInv, TypeOK, StackInv
<1>9. /\ TimersOfCurrentVisit' /\ NoTimerLeak' /\ OwnersAreVisits' /\ TracedIsHere'
  BY <1>1, <1>6
  DEF IInv, TimersOfCurrentVisit, NoTimerLeak, OwnersAreVisits, TracedIsHere, CurrentState
<1>10. CallbackSeesItsState'
  BY <1>1, <1>3, <1>7 DEF IInv, CallbackSeesItsState
<1>11. stack' # Front(stack)
  BY <1>1, <1>2, <1>7, FrontFacts
<1> QED
  BY <1>7, <1>8, <1>9, <1>10, <1>11 DEF IInv, StackInv

(* The start of a timer's function keeps the invariant.                     *)
LEMMA TimerFiresPreserves ==
    ASSUME IInv, NEW t \in Timers, TimerFires(t)
    PROVE  IInv'
<1> DEFINE f == [kind |-> "timer", visit |-> owner[t], to |-> NoNode,
                 timer |-> t, previous |-> callback]
<1>1. /\ stack = <<>> /\ stack' = <<f>> /\ callback' = "timer"
      /\ status[t] = "pending"
      /\ \A u \in Timers : ~D!Running(u)
      /\ status' = [status EXCEPT ![t] = "running"]
      /\ tracer' = tracer /\ node' = node /\ current' = current /\ exits' = exits
      /\ group' = group /\ halted' = halted /\ owner' = owner
      /\ visits' = visits /\ handed' = handed /\ traced' = traced
  BY DEF TimerFires, D!Start
<1>2. /\ group \in SUBSET Timers /\ status \in [Timers -> D!Statuses]
      /\ owner[t] \in Visits /\ callback = "none"
  BY <1>1 DEF IInv, TypeOK, OwnersAreVisits, CallbackMatchesStack
<1>3. /\ f \in Frames /\ f.kind = "timer" /\ f.timer = t /\ f.previous = "none"
      /\ t # NoTimer
  BY <1>2, MachineAssumption DEF Frames
<1> HIDE DEF f
<1>4. /\ stack' \in Seq(Frames) /\ Len(stack') = 1 /\ stack'[1] = f /\ stack' # <<>>
      /\ Top' = f
  BY <1>1, <1>3 DEF Top, Last
<1>5. \A u \in Timers : D!Running(u)' <=> u = t
  BY <1>1, <1>2 DEF D!Running
<1>6. OneOperation'
  BY <1>3, <1>4, <1>5 DEF OneOperation
<1>7. CallbackMatchesStack'
  BY <1>1, <1>3, <1>4 DEF CallbackMatchesStack, KindOf
<1>8. TypeOK'
  <2>1. status' \in [Timers -> D!Statuses]
    BY <1>1, <1>2 DEF D!Statuses
  <2> QED
    BY <1>1, <1>3, <1>4, <2>1 DEF IInv, TypeOK
<1>9. TimersOfCurrentVisit' /\ OwnersAreVisits'
  BY <1>1, <1>2 DEF IInv, TimersOfCurrentVisit, OwnersAreVisits
<1>10. NoTimerLeak'
  BY <1>1, <1>2, <1>5 DEF IInv, NoTimerLeak
<1>11. CallbackSeesItsState' /\ TracedIsHere'
  BY <1>1, <1>3, <1>4 DEF IInv, CallbackSeesItsState, TracedIsHere, CurrentState
<1> QED
  BY <1>6, <1>7, <1>8, <1>9, <1>10, <1>11 DEF IInv

(* The end or panic of a timer's function keeps the invariant.              *)
LEMMA TimerEndsPreserves ==
    ASSUME IInv, TimerEnds
    PROVE  IInv'
<1> DEFINE t == Top.timer
<1>1. /\ stack # <<>> /\ Top.kind = "timer"
      /\ stack' = Front(stack) /\ callback' = Top.previous
      /\ status[t] = "running"
      /\ status' = [status EXCEPT ![t] = "done"]
      /\ halted' \in {halted, TRUE}
      /\ group' = group \ {t}
      /\ tracer' = tracer /\ node' = node /\ current' = current /\ exits' = exits
      /\ owner' = owner
      /\ visits' = visits /\ handed' = handed /\ traced' = traced
  BY DEF TimerEnds, TimerReturns, TimerPanics, TopIs, Return, D!Return, D!Panic, D!Running
<1>2. /\ group \in SUBSET Timers /\ status \in [Timers -> D!Statuses]
      /\ halted' \in BOOLEAN
  BY <1>1 DEF IInv, TypeOK
<1>3. Len(stack) = 1 /\ Top = stack[1] /\ stack' = <<>>
  <2>1. /\ Len(stack) \in Nat /\ Len(stack) >= 1 /\ Top = stack[Len(stack)]
        /\ Front(stack) \in Seq(Frames) /\ Len(Front(stack)) = Len(stack) - 1
    BY <1>1, FrontFacts DEF IInv, TypeOK, Top
  <2>2. Len(stack) = 1
    BY <1>1, <2>1 DEF IInv, OneOperation
  <2>3. Front(stack) = <<>>
    BY <2>1, <2>2, EmptySeq
  <2> QED
    BY <1>1, <2>1, <2>2, <2>3
<1>4. t \in Timers /\ t # NoTimer /\ callback' = "none"
  <2>1. t \in Timers \cup {NoTimer}
    BY <1>1, KindsOfFrames DEF IInv
  <2>2. t # NoTimer
    BY <1>1, <1>3 DEF IInv, TypeOK
  <2>3. Top.previous = "none"
    BY <1>3 DEF IInv, CallbackMatchesStack
  <2> QED
    BY <1>1, <2>1, <2>2, <2>3
<1>5. \A u \in Timers : D!Running(u) => u = t
  <2>1. \A u \in Timers : D!Running(u) <=> \E i \in 1..Len(stack) : stack[i].timer = u
    BY DEF IInv, OneOperation
  <2> QED
    BY <1>3, <2>1
<1> HIDE DEF t
<1>6. \A u \in Timers : ~D!Running(u)'
  BY <1>1, <1>2, <1>5 DEF D!Running
<1>7. OneOperation' /\ CallbackMatchesStack' /\ CallbackSeesItsState'
  BY <1>3, <1>4, <1>6 DEF OneOperation, CallbackMatchesStack, CallbackSeesItsState
<1>8. TypeOK'
  <2>1. status' \in [Timers -> D!Statuses]
    BY <1>1, <1>2 DEF D!Statuses
  <2> QED
    BY <1>1, <1>2, <1>3, <1>4, <2>1 DEF IInv, TypeOK
<1>9. TimersOfCurrentVisit' /\ OwnersAreVisits'
  BY <1>1, <1>2 DEF IInv, TimersOfCurrentVisit, OwnersAreVisits
<1>10. NoTimerLeak'
  BY <1>1, <1>2, <1>4, <1>5 DEF IInv, NoTimerLeak, D!Running
<1>11. TracedIsHere'
  BY <1>1 DEF IInv, TracedIsHere, CurrentState
<1> QED
  BY <1>7, <1>8, <1>9, <1>10, <1>11 DEF IInv

(* The machine starts in a state of the invariant.                          *)
LEMMA Initially == Init => IInv
<1> SUFFICES ASSUME Init PROVE IInv
  OBVIOUS
<1>1. /\ stack = <<>> /\ callback = "none" /\ current = NoVisit /\ group = {}
      /\ status = [t \in Timers |-> "unused"] /\ traced.to = NoNode
  BY DEF Init
<1>2. TypeOK
  <2>1. stack \in Seq(Frames) /\ \A i \in 1..Len(stack) : FALSE
    BY <1>1
  <2>2. status \in [Timers -> D!Statuses]
    BY <1>1 DEF D!Statuses
  <2>3. owner \in [Timers -> Visits \cup {NoVisit}]
    BY DEF Init
  <2>4. 0 \in 0..MaxVisits
    BY MachineAssumption
  <2>5. /\ node \in Nodes \cup {NoNode} /\ current = NoVisit /\ exits = {} /\ handed = {}
        /\ visits \in 0..MaxVisits /\ tracer \in BOOLEAN /\ halted \in BOOLEAN
        /\ traced \in [from : Nodes \cup {NoNode}, to : Nodes \cup {NoNode}]
    BY <2>4 DEF Init
  <2> QED
    BY <1>1, <2>1, <2>2, <2>3, <2>5 DEF TypeOK
<1>3. \A t \in Timers : ~D!Running(t)
  BY <1>1 DEF D!Running
<1>4. OneOperation /\ CallbackMatchesStack /\ CallbackSeesItsState
  BY <1>1, <1>3 DEF OneOperation, CallbackMatchesStack, CallbackSeesItsState
<1>5. TimersOfCurrentVisit /\ NoTimerLeak /\ OwnersAreVisits
  BY <1>1 DEF TimersOfCurrentVisit, NoTimerLeak, OwnersAreVisits
<1>6. TracedIsHere
  BY <1>1 DEF TracedIsHere, CurrentState
<1> QED
  BY <1>2, <1>4, <1>5, <1>6 DEF IInv

(* A step that changes nothing keeps the invariant.                         *)
LEMMA Unchanged == IInv /\ UNCHANGED vars => IInv'
<1> SUFFICES ASSUME IInv, UNCHANGED vars PROVE IInv'
  OBVIOUS
<1>1. /\ tracer' = tracer /\ node' = node /\ current' = current /\ callback' = callback
      /\ exits' = exits
      /\ group' = group /\ status' = status /\ halted' = halted /\ owner' = owner
      /\ stack' = stack /\ visits' = visits /\ handed' = handed /\ traced' = traced
  BY DEF vars, machine, timers
<1>2. group \in SUBSET Timers /\ \A t \in Timers : D!Running(t)' <=> D!Running(t)
  BY <1>1 DEF D!Running, IInv, TypeOK
<1>3. TypeOK'
  BY <1>1 DEF IInv, TypeOK
<1>4. TimersOfCurrentVisit' /\ NoTimerLeak' /\ OwnersAreVisits'
  BY <1>1, <1>2 DEF IInv, TimersOfCurrentVisit, NoTimerLeak, OwnersAreVisits
<1>5. OneOperation' /\ CallbackMatchesStack'
  BY <1>1, <1>2 DEF IInv, OneOperation, CallbackMatchesStack, Top
<1>6. CallbackSeesItsState' /\ TracedIsHere'
  BY <1>1 DEF IInv, CallbackSeesItsState, Top, TracedIsHere, CurrentState
<1> QED
  BY <1>3, <1>4, <1>5, <1>6 DEF IInv

(* Every step of the machine keeps the invariant.                           *)
LEMMA Inductive == IInv /\ [Next]_vars => IInv'
<1> SUFFICES ASSUME IInv, Next PROVE IInv'
  BY Unchanged
<1>1. ASSUME NEW rest, NEW previous, Base(rest, previous), TransitionStep(rest, previous)
      PROVE  IInv'
  BY <1>1, EnterPreserves, ExitPreserves, EndPreserves, PopPreserves
  DEF TransitionStep, EnterStep
<1>2. CASE HandleStep
  BY <1>2, OnExitPreserves, AfterFuncPreserves DEF HandleStep
<1>3. CASE \E t \in Timers : TimerFires(t)
  BY <1>3, TimerFiresPreserves
<1>4. CASE TimerEnds
  BY <1>4, TimerEndsPreserves
<1>5. CASE TraceReturns
  BY <1>5, TraceReturnsPreserves
<1> QED
  BY <1>1, <1>2, <1>3, <1>4, <1>5, StepKinds

-----------------------------------------------------------------------------
(* The invariants                                                          *)

(* Everything IInv says holds in every state of every machine: for any      *)
(* graph, any user code and any order of timers and calls.                  *)
THEOREM Invariance == Spec => []IInv
<1> QED
  BY Initially, Inductive, PTL DEF Spec

(* Variables keep their types; in particular a visit has a node.            *)
THEOREM Types == Spec => []TypeOK
<1>1. IInv => TypeOK
  BY DEF IInv
<1> QED
  BY <1>1, Invariance, PTL

(* No timer fires for a state that was left (src/state/manager.go:9-11).    *)
THEOREM TimerConfinement == Spec => []TimersOfCurrentVisit
<1>1. IInv => TimersOfCurrentVisit
  BY DEF IInv
<1> QED
  BY <1>1, Invariance, PTL

(* The group holds no timer that has run (src/state/timers.go:13-15).       *)
THEOREM NoLeak == Spec => []NoTimerLeak
<1>1. IInv => NoTimerLeak
  BY DEF IInv
<1> QED
  BY <1>1, Invariance, PTL

(* No operation starts inside of another (src/state/machine.go:42-44).      *)
THEOREM NoReentrance == Spec => []OneOperation
<1>1. IInv => OneOperation
  BY DEF IInv
<1> QED
  BY <1>1, Invariance, PTL

(* callback always says what is in progress, whatever has blocked or        *)
(* panicked before (src/state/machine.go:225-238).                          *)
THEOREM CallbackIsAccurate == Spec => []CallbackMatchesStack
<1>1. IInv => CallbackMatchesStack
  BY DEF IInv
<1> QED
  BY <1>1, Invariance, PTL

(* Callbacks run in the state they belong to (src/state/machine.go:137-140). *)
THEOREM CallbackState == Spec => []CallbackSeesItsState
<1>1. IInv => CallbackSeesItsState
  BY DEF IInv
<1> QED
  BY <1>1, Invariance, PTL

-----------------------------------------------------------------------------
(* What the steps do                                                       *)

(* What a step does to the visit, its node and the report of it.            *)
VisitStays == current' = current /\ node' = node /\ visits' = visits /\ CurrentState' = CurrentState

(* A step enters a node, ends a visit or leaves the visit as it is.         *)
LEMMA StepEffects ==
    ASSUME IInv, [Next]_vars
    PROVE  \/ \E rest, previous, to :
                /\ Base(rest, previous) /\ to \in Nodes /\ EnterStep(rest, previous, to)
           \/ \E rest, previous : Base(rest, previous) /\ EndStep(rest, previous)
           \/ VisitStays
<1>1. ASSUME NEW rest, NEW previous, Base(rest, previous), TransitionStep(rest, previous)
      PROVE  \/ \E to \in Nodes : EnterStep(rest, previous, to)
             \/ EndStep(rest, previous)
             \/ VisitStays
  BY <1>1 DEF TransitionStep, ExitStep, PopStep, VisitStays, CurrentState
<1>2. CASE \/ HandleStep \/ (\E t \in Timers : TimerFires(t)) \/ TimerEnds
           \/ TraceReturns
  BY <1>2 DEF HandleStep, OnExit, AfterFunc, TimerFires, TimerEnds, TimerReturns, TimerPanics,
              TraceReturns, machine, VisitStays, CurrentState
<1>3. CASE UNCHANGED vars
  BY <1>3 DEF vars, machine, VisitStays, CurrentState
<1>4. CASE Next
  <2>1. CASE \E rest, previous : Base(rest, previous) /\ TransitionStep(rest, previous)
    BY <1>1, <2>1
  <2> QED
    BY <1>2, <1>4, <2>1, StepKinds
<1> QED
  BY <1>3, <1>4

(* The reported transitions are the walk of the machine                     *)
(* (src/state/option.go:34-38).                                             *)
THEOREM Tracing == Spec => TraceIsTheWalk
<1>1. ASSUME IInv, [Next]_vars
      PROVE  [tracer /\ (visits' # visits \/ current' # current) =>
                traced'.from = traced.to /\ traced'.to = CurrentState']_vars
  <2>1. tracer => traced.to = CurrentState
    BY <1>1 DEF IInv, TracedIsHere
  <2>2. ASSUME NEW rest, NEW previous, NEW to \in Nodes,
               Base(rest, previous), EnterStep(rest, previous, to), tracer
        PROVE  traced'.from = traced.to /\ traced'.to = CurrentState'
    <3>1. CurrentState' = to
      BY <1>1, <2>2, EnterPreserves DEF EnterStep
    <3>2. traced' = [from |-> CurrentState, to |-> to]
      BY <2>2 DEF EnterStep, Enter, Report
    <3> QED
      BY <2>1, <2>2, <3>1, <3>2
  <2>3. ASSUME NEW rest, NEW previous, Base(rest, previous), EndStep(rest, previous), tracer
        PROVE  traced'.from = traced.to /\ traced'.to = CurrentState'
    <3>1. CurrentState' = NoNode
      BY <1>1, <2>3, EndPreserves
    <3>2. traced' = [from |-> node, to |-> NoNode] /\ CurrentState = node
      BY <2>3 DEF EndStep, EndVisit, Report, CurrentState
    <3> QED
      BY <2>1, <2>3, <3>1, <3>2
  <2> QED
    BY <1>1, <2>2, <2>3, StepEffects DEF VisitStays
<1> QED
  BY <1>1, Invariance, PTL DEF Spec, TraceIsTheWalk

(* A visit with an exit action ends only when that action returns           *)
(* (src/state/machine.go:119-121, 175-178).                                 *)
THEOREM ExitFirst == Spec => ExitActionPrecedesTheEnd
<1>1. ASSUME IInv, [Next]_vars
      PROVE  [current' # current /\ current \in exits =>
                TopIs("exit") \/ TopIs("stop exit")]_vars
  BY <1>1, StepEffects DEF VisitStays, EnterStep, EndStep
<1> QED
  BY <1>1, Invariance, PTL DEF Spec, ExitActionPrecedesTheEnd

(* A stop cannot be blocked (src/state/machine.go:119-121, 294-296).        *)
THEOREM StopEnds == Spec => StopGetsThrough
<1>1. ASSUME IInv, Next, TopIs("stop exit"), stack' = Front(stack)
      PROVE  current' = NoVisit \/ current \notin exits'
  <2>1. /\ stack # <<>> /\ Top.kind = "stop exit" /\ Top.visit = current
        /\ callback = "transition"
    BY <1>1 DEF TopIs, IInv, CallbackSeesItsState, CallbackMatchesStack, KindOf
  <2>2. /\ stack \in Seq(Frames) /\ Front(stack) \in Seq(Frames)
        /\ Len(stack) \in Nat /\ Len(stack) >= 1 /\ Len(Front(stack)) = Len(stack) - 1
    BY <1>1, <2>1, FrontFacts DEF IInv, TypeOK
  <2>3. Len(stack') = Len(stack) - 1 /\ stack' # stack
    <3>1. Len(stack') = Len(stack) - 1
      BY <1>1, <2>2
    <3> QED
      BY <2>2, <3>1
  <2>4. ASSUME NEW f PROVE stack' # Append(Front(stack), f)
    <3>1. Len(Append(Front(stack), f)) = Len(stack)
      BY <2>2
    <3> QED
      BY <2>2, <2>3, <3>1
  <2>5. ASSUME NEW rest, NEW previous, Base(rest, previous), TransitionStep(rest, previous)
        PROVE  current' = NoVisit \/ current \notin exits'
    <3>1. rest = Front(stack)
      BY <2>1, <2>5 DEF Base
    <3>2. ASSUME NEW to \in Nodes, EnterStep(rest, previous, to) PROVE FALSE
      BY <2>4, <3>1, <3>2 DEF EnterStep, Enter
    <3>3. ASSUME NEW kind, NEW to, ExitStep(rest, previous, kind, to) PROVE FALSE
      BY <2>4, <3>1, <3>3 DEF ExitStep
    <3>4. CASE EndStep(rest, previous)
      BY <3>4 DEF EndStep, EndVisit, Set
    <3>5. CASE PopStep(rest, previous)
      BY <1>1, <2>1, <3>5 DEF PopStep
    <3> QED
      BY <2>5, <3>2, <3>3, <3>4, <3>5 DEF TransitionStep
  <2>6. ~HandleStep
    BY <2>3 DEF HandleStep, OnExit, AfterFunc
  <2>7. ~(\E t \in Timers : TimerFires(t))
    BY <2>1 DEF TimerFires
  <2>8. ~TimerEnds /\ ~TraceReturns
    BY <2>1 DEF TimerEnds, TimerReturns, TimerPanics, TraceReturns, TopIs
  <2> QED
    BY <1>1, <2>5, <2>6, <2>7, <2>8, StepKinds
<1>2. ASSUME IInv, [Next]_vars
      PROVE  [TopIs("stop exit") /\ stack' = Front(stack) =>
                current' = NoVisit \/ current \notin exits']_vars
  BY <1>1, <1>2
<1> QED
  BY <1>2, Invariance, PTL DEF Spec, StopGetsThrough

(* The machine implements the walk over its graph                           *)
(* (src/state/machine.go:20-22, 96-102).                                    *)
THEOREM Refinement == Spec => IsAStateWalk
<1>1. Init => W!Init
  BY DEF Init, W!Init, CurrentState
<1>2. ASSUME IInv, [Next]_vars
      PROVE  [W!Next]_(W!vars)
  <2>1. TypeOK /\ NoNode \notin Nodes
    BY <1>2, MachineAssumption DEF IInv
  <2>2. ASSUME NEW rest, NEW previous, NEW to \in Nodes,
               Base(rest, previous), EnterStep(rest, previous, to)
        PROVE  W!Next
    <3>1. CurrentState' = to /\ visits' = visits + 1
      BY <1>2, <2>2, EnterPreserves DEF EnterStep, Enter
    <3>2. CASE current = NoVisit
      <4>1. CurrentState = NoNode /\ to = InitialNode
        BY <2>2, <3>2 DEF CurrentState, EnterStep
      <4> QED
        BY <3>1, <4>1 DEF W!Next, W!Launch
    <3>3. CASE current # NoVisit
      <4>1. CurrentState = node /\ node # NoNode
        BY <2>1, <3>3 DEF CurrentState, TypeOK
      <4>2. PICK e \in Events : Edges[node, e] = to
        BY <2>2, <3>3 DEF EnterStep
      <4>3. W!Move(e)
        BY <2>1, <2>2, <3>1, <4>1, <4>2 DEF W!Move
      <4> QED
        BY <4>3 DEF W!Next
    <3> QED
      BY <3>2, <3>3
  <2>3. ASSUME NEW rest, NEW previous, Base(rest, previous), EndStep(rest, previous)
        PROVE  W!Next
    <3>1. CurrentState' = NoNode /\ visits' = visits
      BY <1>2, <2>3, EndPreserves DEF EndStep, EndVisit
    <3>2. CurrentState # NoNode
      BY <2>1, <2>3 DEF EndStep, CurrentState, TypeOK
    <3> QED
      BY <3>1, <3>2 DEF W!Next, W!Stop
  <2>4. CASE VisitStays
    BY <2>4 DEF VisitStays, W!vars
  <2> QED
    BY <1>2, <2>2, <2>3, <2>4, StepEffects
<1> QED
  BY <1>1, <1>2, Invariance, PTL DEF Spec, IsAStateWalk, W!Spec
=============================================================================
