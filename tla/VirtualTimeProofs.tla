-------------------------- MODULE VirtualTimeProofs --------------------------
(***************************************************************************)
(* Proofs about VirtualTime for any goroutines, tasks, durations and       *)
(* targets.                                                                *)
(***************************************************************************)
EXTENDS VirtualTime, SequenceLemmas

(* The queue after each of the steps that change it.                        *)
LEMMA InsertionKeepsType ==
    ASSUME TypeOK, NEW at \in Nat, NEW t \in Tasks, NEW i \in 1..(Len(tasks) + 1),
           tasks' = InsertAt(tasks, i, [at |-> at, task |-> t])
    PROVE  tasks' \in Seq(ScheduledTasks)
BY InsertAtFacts DEF TypeOK, ScheduledTasks

(* Every step keeps the types.                                              *)
LEMMA TypeStep == TypeOK /\ [Next]_vars => TypeOK'
<1> SUFFICES ASSUME TypeOK, [Next]_vars PROVE TypeOK'
  OBVIOUS
<1> USE VirtualTimeAssumption
<1> USE DEF TypeOK, Goto, ScheduledTasks, Places, shared, local, history, vars
<1>1. CASE UNCHANGED vars
  BY <1>1
<1>2. ASSUME NEW g \in Goroutines, NEW to \in Targets, FastForward(g, to)
      PROVE  TypeOK'
  BY <1>2 DEF FastForward
<1>3. ASSUME NEW g \in Goroutines, ProceedStopped(g)
      PROVE  TypeOK'
  BY <1>3 DEF ProceedStopped
<1>4. ASSUME NEW g \in Goroutines, ProceedRun(g)
      PROVE  TypeOK'
  <2>1. Head(tasks) \in ScheduledTasks /\ Tail(tasks) \in Seq(ScheduledTasks)
    BY <1>4, TailFacts DEF ProceedRun, HeadIsDue
  <2> QED
    BY <1>4, <2>1 DEF ProceedRun
<1>5. ASSUME NEW g \in Goroutines, ProceedDone(g)
      PROVE  TypeOK'
  BY <1>5 DEF ProceedDone
<1>6. ASSUME NEW g \in Goroutines, Return(g)
      PROVE  TypeOK'
  BY <1>6 DEF Return
<1>7. ASSUME NEW g \in Goroutines, Panic(g)
      PROVE  TypeOK'
  BY <1>7 DEF Panic
<1>8. ASSUME NEW g \in Goroutines, Shutdown(g)
      PROVE  TypeOK'
  BY <1>8 DEF Shutdown
<1>9. ASSUME NEW g \in Goroutines, Unwind(g)
      PROVE  TypeOK'
  BY <1>9 DEF Unwind
<1>10. ASSUME NEW g \in Goroutines, NEW t \in Tasks, NEW d \in Durations, AfterFunc(g, t, d)
       PROVE  TypeOK'
  <2>1. tasks' \in Seq(ScheduledTasks)
    <3> DEFINE at == advancedTo + (IF d > 0 THEN d ELSE 0)
    <3>1. at \in Nat
      OBVIOUS
    <3>2. PICK i \in 1..(Len(tasks) + 1) : tasks' = InsertAt(tasks, i, [at |-> at, task |-> t])
      BY <1>10 DEF AfterFunc
    <3> QED
      BY <3>1, <3>2, InsertionKeepsType
  <2> QED
    BY <1>10, <2>1 DEF AfterFunc
<1>11. ASSUME NEW g \in Goroutines, NEW t \in Tasks, StopPending(g, t)
       PROVE  TypeOK'
  <2>1. PICK i \in 1..Len(tasks) : tasks' = RemoveAt(tasks, i)
    BY <1>11 DEF StopPending
  <2>2. tasks' \in Seq(ScheduledTasks)
    BY <2>1, RemoveAtFacts
  <2> QED
    BY <1>11, <2>2 DEF StopPending, Answer
<1>12. ASSUME NEW g \in Goroutines, NEW t \in Tasks, StopTooLate(g, t)
       PROVE  TypeOK'
  BY <1>12 DEF StopTooLate, Answer
<1> QED
  BY <1>1, <1>2, <1>3, <1>4, <1>5, <1>6, <1>7, <1>8, <1>9, <1>10, <1>11, <1>12
     DEF Next, Advance, Proceed

-----------------------------------------------------------------------------
(* The queue and the clock                                                 *)

(* Only four of the actions touch the queue or the clock.                   *)
LEMMA QueueAndClockSteps ==
    ASSUME [Next]_vars
    PROVE  \/ UNCHANGED <<advancedTo, tasks>>
           \/ \E g \in Goroutines : ProceedRun(g) \/ ProceedDone(g)
           \/ \E g \in Goroutines, t \in Tasks, d \in Durations : AfterFunc(g, t, d)
           \/ \E g \in Goroutines, t \in Tasks : StopPending(g, t)
<1>1. CASE UNCHANGED vars
  BY <1>1 DEF vars, shared
<1>2. CASE Next
  <2>1. ASSUME NEW g \in Goroutines, NEW to \in Targets, FastForward(g, to)
        PROVE  UNCHANGED <<advancedTo, tasks>>
    BY <2>1 DEF FastForward
  <2>2. ASSUME NEW g \in Goroutines,
               ProceedStopped(g) \/ Return(g) \/ Panic(g) \/ Shutdown(g) \/ Unwind(g)
        PROVE  UNCHANGED <<advancedTo, tasks>>
    BY <2>2 DEF ProceedStopped, Return, Panic, Shutdown, Unwind, shared
  <2>3. ASSUME NEW g \in Goroutines, NEW t \in Tasks, StopTooLate(g, t)
        PROVE  UNCHANGED <<advancedTo, tasks>>
    BY <2>3 DEF StopTooLate, shared
  <2> QED
    BY <1>2, <2>1, <2>2, <2>3 DEF Next, Advance, Proceed
<1> QED
  BY <1>1, <1>2

(* The queue as a function, before and after a step.                        *)
LEMMA QueueFacts ==
    ASSUME TypeOK, TypeOK'
    PROVE  /\ tasks \in Seq(ScheduledTasks) /\ tasks' \in Seq(ScheduledTasks)
           /\ Len(tasks) \in Nat
           /\ Len(tasks') \in Nat
           /\ \A k \in 1..Len(tasks) : tasks[k].at \in Nat
<1>1. tasks \in Seq(ScheduledTasks) /\ tasks' \in Seq(ScheduledTasks)
  BY DEF TypeOK, ScheduledTasks
<1>2. \A k \in 1..Len(tasks) : tasks[k] \in ScheduledTasks
  BY <1>1, ElementOfSeq
<1> QED
  BY <1>1, <1>2, LenProperties DEF ScheduledTasks

(* What AfterFunc does to the queue, with its conversion of the duration.   *)
LEMMA AfterFuncInserts ==
    ASSUME TypeOK, NEW g \in Goroutines, NEW t \in Tasks, NEW d \in Durations,
           AfterFunc(g, t, d)
    PROVE  \E e \in ScheduledTasks, k \in 1..(Len(tasks) + 1) :
              /\ e.at >= advancedTo
              /\ e.task = t
              /\ InsertionPoint(e.at, k)
              /\ Len(tasks') = Len(tasks) + 1
              /\ \A m \in 1..(Len(tasks) + 1) :
                   tasks'[m] = IF m < k THEN tasks[m] ELSE IF m = k THEN e ELSE tasks[m - 1]
<1> DEFINE at == advancedTo + (IF d > 0 THEN d ELSE 0)
           e == [at |-> at, task |-> t]
<1>1. at \in Nat /\ at >= advancedTo
  BY VirtualTimeAssumption DEF TypeOK
<1>2. PICK k \in 1..(Len(tasks) + 1) : InsertionPoint(at, k) /\ tasks' = InsertAt(tasks, k, e)
  BY DEF AfterFunc
<1> HIDE DEF at
<1>3. e \in ScheduledTasks /\ e.at = at /\ e.task = t
  BY <1>1 DEF ScheduledTasks
<1> HIDE DEF e
<1>4. tasks \in Seq(ScheduledTasks)
  BY DEF TypeOK
<1>5. /\ Len(tasks') = Len(tasks) + 1
      /\ \A m \in 1..(Len(tasks) + 1) :
           tasks'[m] = IF m < k THEN tasks[m] ELSE IF m = k THEN e ELSE tasks[m - 1]
  <2>1. /\ Len(InsertAt(tasks, k, e)) = Len(tasks) + 1
        /\ \A m \in 1..(Len(tasks) + 1) :
             InsertAt(tasks, k, e)[m] =
                IF m < k THEN tasks[m] ELSE IF m = k THEN e ELSE tasks[m - 1]
    BY <1>3, <1>4, InsertAtFacts
  <2> QED
    BY <1>2, <2>1
<1> QED
  BY <1>1, <1>2, <1>3, <1>5

(* What Stop does to the queue when it finds the task in it.                *)
LEMMA StopRemoves ==
    ASSUME TypeOK, NEW g \in Goroutines, NEW t \in Tasks, StopPending(g, t)
    PROVE  \E k \in 1..Len(tasks) :
              /\ tasks[k].task = t
              /\ Len(tasks') = Len(tasks) - 1
              /\ \A m \in 1..(Len(tasks) - 1) :
                   tasks'[m] = IF m < k THEN tasks[m] ELSE tasks[m + 1]
<1>1. tasks \in Seq(ScheduledTasks)
  BY LenProperties DEF TypeOK
<1>2. PICK k \in 1..Len(tasks) : tasks[k].task = t /\ tasks' = RemoveAt(tasks, k)
  BY <1>1 DEF StopPending
<1> QED
  BY <1>1, <1>2, RemoveAtFacts

(* What running the head does to the queue.                                 *)
LEMMA ProceedTakesHead ==
    ASSUME TypeOK, NEW g \in Goroutines, ProceedRun(g)
    PROVE  /\ Len(tasks) >= 1
           /\ Len(tasks') = Len(tasks) - 1
           /\ \A m \in 1..(Len(tasks) - 1) : tasks'[m] = tasks[m + 1]
           /\ advancedTo' = tasks[1].at
           /\ started' = started \cup {tasks[1].task}
           /\ head' = [head EXCEPT ![g] = tasks[1]]
<1>1. tasks \in Seq(ScheduledTasks) /\ tasks # <<>> /\ tasks' = Tail(tasks)
  BY DEF TypeOK, ProceedRun, HeadIsDue
<1>2. Head(tasks) = tasks[1]
  BY <1>1, TailFacts
<1> QED
  BY <1>1, <1>2, TailFacts DEF ProceedRun

(* Every step keeps the queue sorted.                                       *)
LEMMA SortedStep == TypeOK /\ QueueIsSorted /\ [Next]_vars => QueueIsSorted'
<1> SUFFICES ASSUME TypeOK, QueueIsSorted, [Next]_vars,
                    NEW i \in 1..Len(tasks'), NEW j \in 1..Len(tasks'), i <= j
             PROVE  tasks'[i].at <= tasks'[j].at
  BY DEF QueueIsSorted
<1>1. /\ tasks \in Seq(ScheduledTasks) /\ tasks' \in Seq(ScheduledTasks)
      /\ Len(tasks) \in Nat
      /\ Len(tasks') \in Nat
      /\ \A k \in 1..Len(tasks) : tasks[k].at \in Nat
  BY QueueFacts, TypeStep
<1>2. CASE UNCHANGED <<advancedTo, tasks>>
  BY <1>2 DEF QueueIsSorted
<1>3. ASSUME NEW g \in Goroutines, ProceedRun(g)
      PROVE  tasks'[i].at <= tasks'[j].at
  <2>1. /\ i + 1 \in 1..Len(tasks) /\ tasks'[i] = tasks[i + 1]
        /\ j + 1 \in 1..Len(tasks) /\ tasks'[j] = tasks[j + 1]
    BY <1>1, <1>3, ProceedTakesHead
  <2> QED
    BY <1>1, <2>1 DEF QueueIsSorted
<1>4. ASSUME NEW g \in Goroutines, ProceedDone(g)
      PROVE  tasks'[i].at <= tasks'[j].at
  BY <1>4 DEF ProceedDone, QueueIsSorted
<1>5. ASSUME NEW g \in Goroutines, NEW t \in Tasks, NEW d \in Durations, AfterFunc(g, t, d)
      PROVE  tasks'[i].at <= tasks'[j].at
  <2>1. PICK e \in ScheduledTasks, k \in 1..(Len(tasks) + 1) :
          /\ InsertionPoint(e.at, k)
          /\ Len(tasks') = Len(tasks) + 1
          /\ \A m \in 1..(Len(tasks) + 1) :
               tasks'[m] = IF m < k THEN tasks[m] ELSE IF m = k THEN e ELSE tasks[m - 1]
    BY <1>5, AfterFuncInserts
  <2> DEFINE at == e.at
  <2>2. at \in Nat /\ Len(tasks') = Len(tasks) + 1
    BY <2>1 DEF ScheduledTasks
  <2>3. \A m \in 1..Len(tasks) : (m < k => tasks[m].at <= at) /\ (m >= k => at <= tasks[m].at)
    BY <1>1, <2>1, <2>2 DEF InsertionPoint, QueueIsSorted
  <2>4. \A m \in 1..Len(tasks') :
             tasks'[m].at = IF m < k THEN tasks[m].at ELSE IF m = k THEN at ELSE tasks[m - 1].at
    BY <2>1, <2>2
  <2> HIDE DEF at
  <2>6. CASE j < k
    BY <1>1, <2>2, <2>4, <2>6 DEF QueueIsSorted
  <2>7. CASE i > k
    <3>1. i - 1 \in 1..Len(tasks) /\ j - 1 \in 1..Len(tasks)
      BY <1>1, <2>2, <2>7
    <3>2. tasks'[i].at = tasks[i - 1].at /\ tasks'[j].at = tasks[j - 1].at
      BY <2>4, <2>7
    <3> QED
      BY <1>1, <3>1, <3>2 DEF QueueIsSorted
  <2>8. CASE i <= k /\ k <= j
    <3>1. tasks'[i].at \in Nat /\ tasks'[i].at <= at
      <4>1. CASE i = k
        BY <2>2, <2>4, <4>1
      <4>2. CASE i < k
        <5>1. i \in 1..Len(tasks)
          BY <1>1, <4>2
        <5> QED
          BY <1>1, <2>3, <2>4, <4>2, <5>1
      <4> QED
        BY <2>8, <4>1, <4>2
    <3>2. tasks'[j].at \in Nat /\ at <= tasks'[j].at
      <4>1. CASE j = k
        BY <2>2, <2>4, <4>1
      <4>2. CASE j > k
        <5>1. j - 1 \in 1..Len(tasks) /\ j - 1 >= k
          BY <1>1, <2>2, <4>2
        <5>2. tasks'[j].at = tasks[j - 1].at
          BY <2>4, <4>2
        <5> QED
          BY <1>1, <2>3, <5>1, <5>2
      <4> QED
        BY <2>8, <4>1, <4>2
    <3> QED
      BY <2>2, <3>1, <3>2
  <2> QED
    BY <2>1, <2>6, <2>7, <2>8
<1>6. ASSUME NEW g \in Goroutines, NEW t \in Tasks, StopPending(g, t)
      PROVE  tasks'[i].at <= tasks'[j].at
  <2>1. PICK k \in 1..Len(tasks) :
          /\ Len(tasks') = Len(tasks) - 1
          /\ \A m \in 1..(Len(tasks) - 1) :
               tasks'[m] = IF m < k THEN tasks[m] ELSE tasks[m + 1]
    BY <1>6, StopRemoves
  <2> DEFINE up(m) == IF m < k THEN m ELSE m + 1
  <2>2. up(i) \in 1..Len(tasks) /\ up(j) \in 1..Len(tasks) /\ up(i) <= up(j)
    BY <1>1, <2>1
  <2>3. tasks'[i] = tasks[up(i)] /\ tasks'[j] = tasks[up(j)]
    BY <1>1, <2>1
  <2> HIDE DEF up
  <2> QED
    BY <2>2, <2>3 DEF QueueIsSorted
<1> QED
  BY <1>2, <1>3, <1>4, <1>5, <1>6, QueueAndClockSteps

(* Every step leaves nothing queued in the past of the clock.               *)
LEMMA OverdueStep ==
    TypeOK /\ QueueIsSorted /\ NothingOverdue /\ [Next]_vars => NothingOverdue'
<1> SUFFICES ASSUME TypeOK, QueueIsSorted, NothingOverdue, [Next]_vars,
                    NEW i \in 1..Len(tasks')
             PROVE  tasks'[i].at >= advancedTo'
  BY DEF NothingOverdue
<1>1. /\ tasks \in Seq(ScheduledTasks) /\ tasks' \in Seq(ScheduledTasks)
      /\ Len(tasks) \in Nat
      /\ Len(tasks') \in Nat
      /\ \A k \in 1..Len(tasks) : tasks[k].at \in Nat
      /\ advancedTo \in Nat
  BY QueueFacts, TypeStep DEF TypeOK
<1>2. CASE UNCHANGED <<advancedTo, tasks>>
  BY <1>2 DEF NothingOverdue
<1>3. ASSUME NEW g \in Goroutines, ProceedRun(g)
      PROVE  tasks'[i].at >= advancedTo'
  <2>1. i + 1 \in 1..Len(tasks) /\ tasks'[i] = tasks[i + 1] /\ advancedTo' = tasks[1].at
    BY <1>1, <1>3, ProceedTakesHead
  <2> QED
    BY <1>1, <2>1 DEF QueueIsSorted
<1>4. ASSUME NEW g \in Goroutines, ProceedDone(g)
      PROVE  tasks'[i].at >= advancedTo'
  <2>1. /\ tasks' = tasks /\ ~HeadIsDue(end[g]) /\ end[g] \in Nat
        /\ advancedTo' = IF end[g] > advancedTo THEN end[g] ELSE advancedTo
    BY <1>4 DEF ProceedDone, TypeOK
  <2>2. tasks # <<>> /\ Head(tasks) = tasks[1] /\ Len(tasks) >= 1
    BY <1>1, <2>1, TailFacts
  <2>3. tasks[1].at > end[g]
    BY <1>1, <2>1, <2>2 DEF HeadIsDue
  <2>4. tasks[1].at <= tasks[i].at
    BY <1>1, <2>1, <2>2 DEF QueueIsSorted
  <2> QED
    BY <1>1, <2>1, <2>2, <2>3, <2>4 DEF NothingOverdue
<1>5. ASSUME NEW g \in Goroutines, NEW t \in Tasks, NEW d \in Durations, AfterFunc(g, t, d)
      PROVE  tasks'[i].at >= advancedTo'
  <2>1. PICK e \in ScheduledTasks, k \in 1..(Len(tasks) + 1) :
          /\ e.at >= advancedTo
          /\ Len(tasks') = Len(tasks) + 1
          /\ \A m \in 1..(Len(tasks) + 1) :
               tasks'[m] = IF m < k THEN tasks[m] ELSE IF m = k THEN e ELSE tasks[m - 1]
    BY <1>5, AfterFuncInserts
  <2>2. advancedTo' = advancedTo
    BY <1>5 DEF AfterFunc
  <2>3. CASE i = k
    BY <2>1, <2>2, <2>3
  <2>4. CASE i < k
    <3>1. i \in 1..Len(tasks)
      BY <1>1, <2>4
    <3> QED
      BY <2>1, <2>2, <2>4, <3>1 DEF NothingOverdue
  <2>5. CASE i > k
    <3>1. i - 1 \in 1..Len(tasks) /\ i \in 1..(Len(tasks) + 1)
      BY <1>1, <2>1, <2>5
    <3> QED
      BY <2>1, <2>2, <2>5, <3>1 DEF NothingOverdue
  <2> QED
    BY <1>1, <2>1, <2>3, <2>4, <2>5
<1>6. ASSUME NEW g \in Goroutines, NEW t \in Tasks, StopPending(g, t)
      PROVE  tasks'[i].at >= advancedTo'
  <2>1. PICK k \in 1..Len(tasks) :
          /\ Len(tasks') = Len(tasks) - 1
          /\ \A m \in 1..(Len(tasks) - 1) :
               tasks'[m] = IF m < k THEN tasks[m] ELSE tasks[m + 1]
    BY <1>6, StopRemoves
  <2>2. advancedTo' = advancedTo
    BY <1>6 DEF StopPending
  <2> QED
    BY <1>1, <2>1, <2>2 DEF NothingOverdue
<1> QED
  BY <1>2, <1>3, <1>4, <1>5, <1>6, QueueAndClockSteps

-----------------------------------------------------------------------------
(* FastForward                                                             *)

(* Every step keeps FastForward exclusive.                                  *)
LEMMA ExclusionStep == TypeOK /\ OneFastForward /\ [Next]_vars => OneFastForward'
<1> SUFFICES ASSUME TypeOK, OneFastForward, [Next]_vars PROVE OneFastForward'
  OBVIOUS
<1> USE DEF TypeOK, OneFastForward, Goto, Places
<1>1. CASE UNCHANGED <<running, pc>>
  BY <1>1
<1>2. ASSUME NEW g \in Goroutines, NEW to \in Targets, FastForward(g, to)
      PROVE  OneFastForward'
  BY <1>2 DEF FastForward
<1>3. ASSUME NEW g \in Goroutines,
             \/ ProceedStopped(g) \/ ProceedRun(g) \/ ProceedDone(g)
             \/ Return(g) \/ Panic(g) \/ Shutdown(g)
      PROVE  OneFastForward'
  <2>1. /\ running' = running
        /\ pc[g] # "idle"
        /\ \E p \in Places \ {"idle"} : pc' = [pc EXCEPT ![g] = p]
    BY <1>3 DEF ProceedStopped, ProceedRun, ProceedDone, Return, Panic, Shutdown, shared
  <2> QED
    BY <2>1
<1>4. ASSUME NEW g \in Goroutines, Unwind(g)
      PROVE  OneFastForward'
  BY <1>4 DEF Unwind
<1>5. ASSUME NEW g \in Goroutines, NEW t \in Tasks,
             \/ \E d \in Durations : AfterFunc(g, t, d)
             \/ StopPending(g, t)
             \/ StopTooLate(g, t)
      PROVE  OneFastForward'
  BY <1>1, <1>5 DEF AfterFunc, StopPending, StopTooLate, shared, local
<1>6. CASE UNCHANGED vars
  BY <1>1, <1>6 DEF vars, shared, local
<1> QED
  BY <1>2, <1>3, <1>4, <1>5, <1>6 DEF Next, Advance, Proceed

(* Every step keeps the clock still while a function runs.                  *)
LEMMA FunctionTimeStep ==
    TypeOK /\ OneFastForward /\ FunctionSeesItsTime /\ [Next]_vars => FunctionSeesItsTime'
<1> SUFFICES ASSUME TypeOK, OneFastForward, FunctionSeesItsTime, [Next]_vars
             PROVE  FunctionSeesItsTime'
  OBVIOUS
<1> USE DEF TypeOK, OneFastForward, FunctionSeesItsTime, Goto, Places
<1>1. CASE UNCHANGED <<advancedTo, pc, head>>
  BY <1>1
<1>2. ASSUME NEW g \in Goroutines, NEW to \in Targets, FastForward(g, to)
      PROVE  FunctionSeesItsTime'
  BY <1>2 DEF FastForward
<1>3. ASSUME NEW g \in Goroutines, ProceedStopped(g) \/ Panic(g) \/ Unwind(g)
      PROVE  FunctionSeesItsTime'
  BY <1>3 DEF ProceedStopped, Panic, Unwind, shared
<1>4. ASSUME NEW g \in Goroutines, ProceedRun(g)
      PROVE  FunctionSeesItsTime'
  <2>1. \A h \in Goroutines : pc'[h] = "call" => h = g
    BY <1>4 DEF ProceedRun
  <2>2. advancedTo' = Head(tasks).at /\ head' = [head EXCEPT ![g] = Head(tasks)]
    BY <1>4 DEF ProceedRun
  <2>3. head'[g] = Head(tasks)
    BY <2>2
  <2> QED
    BY <2>1, <2>2, <2>3
<1>5. ASSUME NEW g \in Goroutines, ProceedDone(g)
      PROVE  FunctionSeesItsTime'
  BY <1>5 DEF ProceedDone
<1>6. ASSUME NEW g \in Goroutines, Return(g) \/ Shutdown(g)
      PROVE  FunctionSeesItsTime'
  BY <1>6 DEF Return, Shutdown, shared
<1>7. ASSUME NEW g \in Goroutines, NEW t \in Tasks,
             \/ \E d \in Durations : AfterFunc(g, t, d)
             \/ StopPending(g, t)
             \/ StopTooLate(g, t)
      PROVE  FunctionSeesItsTime'
  BY <1>1, <1>7 DEF AfterFunc, StopPending, StopTooLate, shared, local
<1>8. CASE UNCHANGED vars
  BY <1>1, <1>8 DEF vars, shared, local
<1> QED
  BY <1>2, <1>3, <1>4, <1>5, <1>6, <1>7, <1>8 DEF Next, Advance, Proceed

(* Every step keeps a stopped dispatcher quiet.                             *)
LEMMA QuietStep ==
    TypeOK /\ OneFastForward /\ NothingRunsOnceStopped /\ [Next]_vars => NothingRunsOnceStopped'
<1> SUFFICES ASSUME TypeOK, OneFastForward, NothingRunsOnceStopped, [Next]_vars
             PROVE  NothingRunsOnceStopped'
  OBVIOUS
<1> USE DEF TypeOK, OneFastForward, NothingRunsOnceStopped, Goto, Places
<1>1. CASE UNCHANGED <<stopErr, pc>>
  BY <1>1
<1>2. ASSUME NEW g \in Goroutines, NEW to \in Targets, FastForward(g, to)
      PROVE  NothingRunsOnceStopped'
  BY <1>2 DEF FastForward
<1>3. ASSUME NEW g \in Goroutines,
             ProceedStopped(g) \/ ProceedRun(g) \/ ProceedDone(g) \/ Return(g) \/ Unwind(g)
      PROVE  NothingRunsOnceStopped'
  BY <1>3 DEF ProceedStopped, ProceedRun, ProceedDone, Return, Unwind, shared
<1>4. ASSUME NEW g \in Goroutines, Panic(g)
      PROVE  NothingRunsOnceStopped'
  BY <1>4 DEF Panic, shared
<1>5. ASSUME NEW g \in Goroutines, Shutdown(g)
      PROVE  NothingRunsOnceStopped'
  BY <1>5 DEF Shutdown
<1>6. ASSUME NEW g \in Goroutines, NEW t \in Tasks,
             \/ \E d \in Durations : AfterFunc(g, t, d)
             \/ StopPending(g, t)
             \/ StopTooLate(g, t)
      PROVE  NothingRunsOnceStopped'
  BY <1>1, <1>6 DEF AfterFunc, StopPending, StopTooLate, shared, local
<1>7. CASE UNCHANGED vars
  BY <1>1, <1>7 DEF vars, shared, local
<1> QED
  BY <1>2, <1>3, <1>4, <1>5, <1>6, <1>7 DEF Next, Advance, Proceed

-----------------------------------------------------------------------------
(* Every task is accounted for                                             *)

(* Running the head takes its task, and only that one, out of the queue.    *)
LEMMA QueuedAfterProceed ==
    ASSUME TypeOK, TypeOK', NoTaskQueuedTwice, NEW g \in Goroutines, ProceedRun(g)
    PROVE  /\ NoTaskQueuedTwice'
           /\ Queued(tasks[1].task)
           /\ \A u \in Tasks : Queued(u)' <=> Queued(u) /\ u # tasks[1].task
<1>1. /\ Len(tasks) \in Nat /\ Len(tasks') \in Nat
      /\ Len(tasks) >= 1
      /\ Len(tasks') = Len(tasks) - 1
      /\ \A m \in 1..(Len(tasks) - 1) : tasks'[m] = tasks[m + 1]
  BY ProceedTakesHead, QueueFacts
<1>2. \A m \in 1..Len(tasks') : m + 1 \in 1..Len(tasks) /\ m + 1 # 1 /\ tasks'[m] = tasks[m + 1]
  BY <1>1
<1>3. 1 \in 1..Len(tasks)
  BY <1>1
<1>4. NoTaskQueuedTwice'
  <2> SUFFICES ASSUME NEW i \in 1..Len(tasks'), NEW j \in 1..Len(tasks'),
                      tasks'[i].task = tasks'[j].task
               PROVE  i = j
    BY DEF NoTaskQueuedTwice
  <2>1. i + 1 = j + 1
    BY <1>2 DEF NoTaskQueuedTwice
  <2> QED
    BY <1>1, <2>1
<1>5. Queued(tasks[1].task)
  BY <1>3 DEF Queued
<1>6. ASSUME NEW u \in Tasks, Queued(u)'
      PROVE  Queued(u) /\ u # tasks[1].task
  <2>1. PICK i \in 1..Len(tasks') : tasks'[i].task = u
    BY <1>6 DEF Queued
  <2>2. i + 1 \in 1..Len(tasks) /\ tasks[i + 1].task = u /\ i + 1 # 1
    BY <1>2, <2>1
  <2> QED
    BY <1>3, <2>2 DEF Queued, NoTaskQueuedTwice
<1>7. ASSUME NEW u \in Tasks, Queued(u), u # tasks[1].task
      PROVE  Queued(u)'
  <2>1. PICK i \in 1..Len(tasks) : tasks[i].task = u
    BY <1>7 DEF Queued
  <2>2. i # 1
    BY <1>7, <2>1
  <2>3. i - 1 \in 1..Len(tasks') /\ tasks'[i - 1] = tasks[(i - 1) + 1] /\ (i - 1) + 1 = i
    BY <1>1, <2>2
  <2>4. tasks'[i - 1].task = u
    BY <2>1, <2>3
  <2> QED
    BY <2>3, <2>4 DEF Queued
<1> QED
  BY <1>4, <1>5, <1>6, <1>7

(* AfterFunc queues its task in addition to those that are.                 *)
LEMMA QueuedAfterAfterFunc ==
    ASSUME TypeOK, TypeOK', NoTaskQueuedTwice,
           NEW g \in Goroutines, NEW t \in Tasks, NEW d \in Durations,
           AfterFunc(g, t, d), ~Queued(t)
    PROVE  /\ NoTaskQueuedTwice'
           /\ \A u \in Tasks : Queued(u)' <=> Queued(u) \/ u = t
<1>1. PICK e \in ScheduledTasks, k \in 1..(Len(tasks) + 1) :
        /\ e.task = t
        /\ Len(tasks') = Len(tasks) + 1
        /\ \A m \in 1..(Len(tasks) + 1) :
             tasks'[m] = IF m < k THEN tasks[m] ELSE IF m = k THEN e ELSE tasks[m - 1]
  BY AfterFuncInserts
<1> DEFINE down(m) == IF m < k THEN m ELSE m - 1
           up(m) == IF m < k THEN m ELSE m + 1
<1>2. Len(tasks) \in Nat
  BY QueueFacts
<1>3. /\ \A m \in 1..Len(tasks') : m # k => down(m) \in 1..Len(tasks) /\ tasks'[m] = tasks[down(m)]
      /\ \A m, n \in 1..Len(tasks') : m # k /\ n # k /\ down(m) = down(n) => m = n
      /\ k \in 1..Len(tasks') /\ tasks'[k] = e
  BY <1>1, <1>2
<1>4. \A m \in 1..Len(tasks) : up(m) \in 1..Len(tasks') /\ tasks'[up(m)] = tasks[m]
  <2> SUFFICES ASSUME NEW m \in 1..Len(tasks)
               PROVE  up(m) \in 1..Len(tasks') /\ tasks'[up(m)] = tasks[m]
    OBVIOUS
  <2>1. CASE m < k
    BY <1>1, <1>2, <2>1
  <2>2. CASE ~(m < k)
    <3>1. m + 1 \in 1..(Len(tasks) + 1) /\ ~(m + 1 < k) /\ m + 1 # k /\ (m + 1) - 1 = m
      BY <1>2, <2>2
    <3>2. tasks'[m + 1] = tasks[(m + 1) - 1]
      BY <1>1, <3>1
    <3> QED
      BY <1>1, <2>2, <3>1, <3>2
  <2> QED
    BY <2>1, <2>2
<1> HIDE DEF down, up
<1>5. NoTaskQueuedTwice'
  <2> SUFFICES ASSUME NEW i \in 1..Len(tasks'), NEW j \in 1..Len(tasks'),
                      tasks'[i].task = tasks'[j].task
               PROVE  i = j
    BY DEF NoTaskQueuedTwice
  <2>1. CASE i # k /\ j # k
    <3>1. tasks[down(i)].task = tasks[down(j)].task
      BY <1>3, <2>1
    <3>2. down(i) = down(j)
      BY <1>3, <2>1, <3>1 DEF NoTaskQueuedTwice
    <3> QED
      BY <1>3, <2>1, <3>2
  <2>2. CASE i = k /\ j # k
    BY <1>1, <1>3, <2>2 DEF Queued
  <2>3. CASE i # k /\ j = k
    BY <1>1, <1>3, <2>3 DEF Queued
  <2> QED
    BY <2>1, <2>2, <2>3
<1>6. ASSUME NEW u \in Tasks, Queued(u)'
      PROVE  Queued(u) \/ u = t
  <2>1. PICK i \in 1..Len(tasks') : tasks'[i].task = u
    BY <1>6 DEF Queued
  <2> QED
    BY <1>1, <1>3, <2>1 DEF Queued
<1>7. ASSUME NEW u \in Tasks, Queued(u) \/ u = t
      PROVE  Queued(u)'
  <2>1. CASE u = t
    BY <1>1, <1>3, <2>1 DEF Queued
  <2>2. CASE Queued(u)
    BY <1>4, <2>2 DEF Queued
  <2> QED
    BY <1>7, <2>1, <2>2
<1> QED
  BY <1>5, <1>6, <1>7

(* A Stop that finds its task takes it, and only it, out of the queue.      *)
LEMMA QueuedAfterStop ==
    ASSUME TypeOK, TypeOK', NoTaskQueuedTwice,
           NEW g \in Goroutines, NEW t \in Tasks, StopPending(g, t)
    PROVE  /\ NoTaskQueuedTwice'
           /\ Queued(t)
           /\ \A u \in Tasks : Queued(u)' <=> Queued(u) /\ u # t
<1>1. PICK k \in 1..Len(tasks) :
        /\ tasks[k].task = t
        /\ Len(tasks') = Len(tasks) - 1
        /\ \A m \in 1..(Len(tasks) - 1) :
             tasks'[m] = IF m < k THEN tasks[m] ELSE tasks[m + 1]
  BY StopRemoves
<1> DEFINE up(m) == IF m < k THEN m ELSE m + 1
           down(m) == IF m < k THEN m ELSE m - 1
<1>2. Len(tasks) \in Nat
  BY QueueFacts
<1>3. /\ \A m \in 1..Len(tasks') :
            up(m) \in 1..Len(tasks) /\ up(m) # k /\ tasks'[m] = tasks[up(m)]
      /\ \A m, n \in 1..Len(tasks') : up(m) = up(n) => m = n
  BY <1>1, <1>2
<1>4. \A m \in 1..Len(tasks) : m # k => down(m) \in 1..Len(tasks') /\ tasks'[down(m)] = tasks[m]
  <2> SUFFICES ASSUME NEW m \in 1..Len(tasks), m # k
               PROVE  down(m) \in 1..Len(tasks') /\ tasks'[down(m)] = tasks[m]
    OBVIOUS
  <2>1. CASE m < k
    BY <1>1, <1>2, <2>1
  <2>2. CASE ~(m < k)
    <3>1. m - 1 \in 1..(Len(tasks) - 1) /\ ~(m - 1 < k) /\ (m - 1) + 1 = m
      BY <1>2, <2>2
    <3>2. tasks'[m - 1] = tasks[(m - 1) + 1]
      BY <1>1, <3>1
    <3> QED
      BY <1>1, <2>2, <3>1, <3>2
  <2> QED
    BY <2>1, <2>2
<1> HIDE DEF down, up
<1>5. NoTaskQueuedTwice'
  <2> SUFFICES ASSUME NEW i \in 1..Len(tasks'), NEW j \in 1..Len(tasks'),
                      tasks'[i].task = tasks'[j].task
               PROVE  i = j
    BY DEF NoTaskQueuedTwice
  <2>1. up(i) = up(j)
    BY <1>3 DEF NoTaskQueuedTwice
  <2> QED
    BY <1>3, <2>1
<1>6. ASSUME NEW u \in Tasks, Queued(u)'
      PROVE  Queued(u) /\ u # t
  <2>1. PICK i \in 1..Len(tasks') : tasks'[i].task = u
    BY <1>6 DEF Queued
  <2>2. up(i) \in 1..Len(tasks) /\ up(i) # k /\ tasks[up(i)].task = u
    BY <1>3, <2>1
  <2> QED
    BY <1>1, <2>2 DEF Queued, NoTaskQueuedTwice
<1>7. ASSUME NEW u \in Tasks, Queued(u), u # t
      PROVE  Queued(u)'
  <2>1. PICK i \in 1..Len(tasks) : tasks[i].task = u
    BY <1>7 DEF Queued
  <2>2. i # k
    BY <1>1, <1>7, <2>1
  <2>3. down(i) \in 1..Len(tasks') /\ tasks'[down(i)].task = u
    BY <1>4, <2>1, <2>2
  <2> QED
    BY <2>3 DEF Queued
<1>8. Queued(t)
  BY <1>1 DEF Queued
<1> QED
  BY <1>5, <1>6, <1>7, <1>8

(* Every step keeps every task accounted for.                               *)
LEMMA AccountStep ==
    TypeOK /\ OneFastForward /\ EveryTaskIsAccountedFor /\ [Next]_vars
        => EveryTaskIsAccountedFor'
<1> SUFFICES ASSUME TypeOK, OneFastForward, EveryTaskIsAccountedFor, [Next]_vars
             PROVE  EveryTaskIsAccountedFor'
  OBVIOUS
<1>1. TypeOK'
  BY TypeStep
<1> USE DEF EveryTaskIsAccountedFor
<1>2. ASSUME UNCHANGED <<tasks, history>>,
             \A g \in Goroutines : pc'[g] \in {"call", "failed"} =>
                pc[g] \in {"call", "failed"} /\ head'[g] = head[g]
      PROVE  EveryTaskIsAccountedFor'
  BY <1>2 DEF history, Queued, NoTaskQueuedTwice
<1>3. ASSUME NEW g \in Goroutines, NEW to \in Targets, FastForward(g, to)
      PROVE  EveryTaskIsAccountedFor'
  BY <1>2, <1>3 DEF FastForward, TypeOK, Goto
<1>4. ASSUME NEW g \in Goroutines, ProceedStopped(g) \/ ProceedDone(g) \/ Unwind(g)
      PROVE  EveryTaskIsAccountedFor'
  BY <1>2, <1>4 DEF ProceedStopped, ProceedDone, Unwind, TypeOK, Goto, shared
<1>5. ASSUME NEW g \in Goroutines, Return(g) \/ Panic(g) \/ Shutdown(g)
      PROVE  EveryTaskIsAccountedFor'
  BY <1>2, <1>5 DEF Return, Panic, Shutdown, TypeOK, Goto, shared
<1>6. ASSUME NEW g \in Goroutines, ProceedRun(g)
      PROVE  EveryTaskIsAccountedFor'
  <2> DEFINE t == tasks[1].task
  <2>1. /\ NoTaskQueuedTwice'
        /\ Queued(t)
        /\ \A u \in Tasks : Queued(u)' <=> Queued(u) /\ u # t
    BY <1>1, <1>6, QueuedAfterProceed
  <2>2. /\ started' = started \cup {t}
        /\ head' = [head EXCEPT ![g] = tasks[1]]
        /\ UNCHANGED <<created, answers>>
        /\ pc' = [pc EXCEPT ![g] = "call"]
    BY <1>6, ProceedTakesHead DEF ProceedRun, Goto
  <2>3. t \in Tasks
    <3>1. tasks \in Seq(ScheduledTasks) /\ Len(tasks) \in Nat /\ Len(tasks) >= 1
      BY <1>1, <1>6, ProceedTakesHead, QueueFacts
    <3>2. tasks[1] \in ScheduledTasks
      BY <3>1, ElementOfSeq
    <3> QED
      BY <3>2 DEF ScheduledTasks
  <2>4. \A h \in Goroutines : pc'[h] \in {"call", "failed"} => head'[h].task \in started'
    BY <2>2 DEF TypeOK
  <2> HIDE DEF t
  <2>5. \A u \in Tasks :
          /\ Queued(u)' => u \in created' /\ u \notin started'
          /\ u \in started' => u \in created'
          /\ TRUE \in answers'[u] => u \in created' /\ ~Queued(u)' /\ u \notin started'
          /\ u \in created' => Queued(u)' \/ u \in started' \/ TRUE \in answers'[u]
    BY <2>1, <2>2, <2>3
  <2> QED
    BY <2>1, <2>4, <2>5
<1>7. ASSUME NEW g \in Goroutines, NEW t \in Tasks, NEW d \in Durations, AfterFunc(g, t, d)
      PROVE  EveryTaskIsAccountedFor'
  <2>1. t \notin created /\ created' = created \cup {t} /\ UNCHANGED <<local, started, answers>>
    BY <1>7 DEF AfterFunc
  <2>2. /\ NoTaskQueuedTwice'
        /\ \A u \in Tasks : Queued(u)' <=> Queued(u) \/ u = t
    BY <1>1, <1>7, <2>1, QueuedAfterAfterFunc
  <2>3. \A u \in Tasks :
          /\ Queued(u)' => u \in created' /\ u \notin started'
          /\ u \in started' => u \in created'
          /\ TRUE \in answers'[u] => u \in created' /\ ~Queued(u)' /\ u \notin started'
          /\ u \in created' => Queued(u)' \/ u \in started' \/ TRUE \in answers'[u]
    BY <2>1, <2>2
  <2> QED
    BY <2>1, <2>2, <2>3 DEF local
<1>8. ASSUME NEW g \in Goroutines, NEW t \in Tasks, StopPending(g, t)
      PROVE  EveryTaskIsAccountedFor'
  <2>1. /\ answers' = [answers EXCEPT ![t] = @ \cup {TRUE}]
        /\ UNCHANGED <<local, created, started>>
    BY <1>8 DEF StopPending, Answer
  <2>2. /\ NoTaskQueuedTwice'
        /\ Queued(t)
        /\ \A u \in Tasks : Queued(u)' <=> Queued(u) /\ u # t
    BY <1>1, <1>8, QueuedAfterStop
  <2>3. \A u \in Tasks : TRUE \in answers'[u] <=> TRUE \in answers[u] \/ u = t
    BY <2>1 DEF TypeOK
  <2>4. \A u \in Tasks :
          /\ Queued(u)' => u \in created' /\ u \notin started'
          /\ u \in started' => u \in created'
          /\ TRUE \in answers'[u] => u \in created' /\ ~Queued(u)' /\ u \notin started'
          /\ u \in created' => Queued(u)' \/ u \in started' \/ TRUE \in answers'[u]
    BY <2>1, <2>2, <2>3
  <2> QED
    BY <2>1, <2>2, <2>4 DEF local
<1>9. ASSUME NEW g \in Goroutines, NEW t \in Tasks, StopTooLate(g, t)
      PROVE  EveryTaskIsAccountedFor'
  <2>1. /\ answers' = [answers EXCEPT ![t] = @ \cup {FALSE}]
        /\ UNCHANGED <<shared, local, created, started>>
    BY <1>9 DEF StopTooLate, Answer
  <2>2. \A u \in Tasks : TRUE \in answers'[u] <=> TRUE \in answers[u]
    BY <2>1 DEF TypeOK
  <2> QED
    BY <2>1, <2>2 DEF shared, local, Queued, NoTaskQueuedTwice
<1>10. CASE UNCHANGED vars
  BY <1>2, <1>10 DEF vars, shared, local, history
<1> QED
  BY <1>3, <1>4, <1>5, <1>6, <1>7, <1>8, <1>9, <1>10 DEF Next, Advance, Proceed

-----------------------------------------------------------------------------
(* Invariants                                                              *)

(* No invariant below is inductive on its own: NothingOverdue needs the     *)
(* queue to be sorted, the others need FastForward to be exclusive, and all *)
(* of them need the types.                                                  *)
IInv ==
    /\ TypeOK
    /\ OneFastForward
    /\ QueueIsSorted
    /\ NothingOverdue
    /\ FunctionSeesItsTime
    /\ EveryTaskIsAccountedFor
    /\ NothingRunsOnceStopped

(* The invariant holds in the initial state.                                *)
LEMMA IInvInit == Init => IInv
<1> SUFFICES ASSUME Init PROVE IInv
  OBVIOUS
<1> USE DEF Init
<1>1. TypeOK
  <2>1. tasks \in Seq(ScheduledTasks)
    BY EmptySeq
  <2>2. head \in [Goroutines -> ScheduledTasks \cup {NoHead}]
    OBVIOUS
  <2>3. \A g \in Goroutines : pc[g] \notin {"call", "failed"}
    OBVIOUS
  <2> QED
    BY <2>1, <2>2, <2>3 DEF TypeOK, Places
<1>2. Len(tasks) = 0
  OBVIOUS
<1>3. OneFastForward /\ FunctionSeesItsTime /\ NothingRunsOnceStopped
  BY DEF OneFastForward, FunctionSeesItsTime, NothingRunsOnceStopped
<1>4. QueueIsSorted /\ NothingOverdue
  BY <1>2 DEF QueueIsSorted, NothingOverdue
<1>5. EveryTaskIsAccountedFor
  BY <1>2 DEF EveryTaskIsAccountedFor, NoTaskQueuedTwice, Queued
<1> QED
  BY <1>1, <1>3, <1>4, <1>5 DEF IInv

(* Every step preserves the invariant.                                      *)
LEMMA IInvStep == IInv /\ [Next]_vars => IInv'
BY TypeStep, ExclusionStep, SortedStep, OverdueStep, FunctionTimeStep, AccountStep, QuietStep
   DEF IInv

(* The invariant holds in every reachable state.                            *)
THEOREM Invariance == Spec => []IInv
BY IInvInit, IInvStep, PTL DEF Spec

(* At most one FastForward is in progress, and running says whether.        *)
THEOREM Exclusion == Spec => []OneFastForward
<1>1. IInv => OneFastForward
  BY DEF IInv
<1> QED
  BY <1>1, Invariance, PTL

(* The queue is sorted and nothing in it is in the past of the clock.       *)
THEOREM QueueOrder == Spec => [](QueueIsSorted /\ NothingOverdue)
<1>1. IInv => QueueIsSorted /\ NothingOverdue
  BY DEF IInv
<1> QED
  BY <1>1, Invariance, PTL

(* A function runs while the clock shows the time it was scheduled for.     *)
THEOREM FunctionTime == Spec => []FunctionSeesItsTime
<1>1. IInv => FunctionSeesItsTime
  BY DEF IInv
<1> QED
  BY <1>1, Invariance, PTL

(* No function is lost, called twice, or called after a Stop that answered  *)
(* true.                                                                    *)
THEOREM Accounting == Spec => []EveryTaskIsAccountedFor
<1>1. IInv => EveryTaskIsAccountedFor
  BY DEF IInv
<1> QED
  BY <1>1, Invariance, PTL

-----------------------------------------------------------------------------
(* What a step may not do                                                  *)

(* The head is never in the past, so taking it does not rewind the clock.   *)
LEMMA ClockStep == IInv /\ [Next]_vars => advancedTo' >= advancedTo
<1> SUFFICES ASSUME IInv, [Next]_vars PROVE advancedTo' >= advancedTo
  OBVIOUS
<1>1. TypeOK /\ NothingOverdue /\ advancedTo \in Nat
  BY DEF IInv, TypeOK
<1>2. TypeOK'
  BY <1>1, TypeStep
<1>3. CASE UNCHANGED <<advancedTo, tasks>>
  BY <1>1, <1>3
<1>4. ASSUME NEW g \in Goroutines, ProceedRun(g)
      PROVE  advancedTo' >= advancedTo
  <2>1. advancedTo' = tasks[1].at /\ 1 \in 1..Len(tasks)
    BY <1>1, <1>2, <1>4, ProceedTakesHead, QueueFacts
  <2> QED
    BY <1>1, <2>1 DEF NothingOverdue
<1>5. ASSUME NEW g \in Goroutines, ProceedDone(g)
      PROVE  advancedTo' >= advancedTo
  BY <1>1, <1>5 DEF ProceedDone, TypeOK
<1>6. ASSUME NEW g \in Goroutines, NEW t \in Tasks,
             (\E d \in Durations : AfterFunc(g, t, d)) \/ StopPending(g, t)
      PROVE  advancedTo' >= advancedTo
  <2>1. advancedTo' = advancedTo
    BY <1>6 DEF AfterFunc, StopPending
  <2> QED
    BY <1>1, <2>1
<1> QED
  BY <1>3, <1>4, <1>5, <1>6, QueueAndClockSteps

(* Simulated time never goes back.                                          *)
THEOREM ClockMonotonicity == Spec => ClockNeverGoesBack
<1>1. IInv /\ [Next]_vars => [advancedTo' >= advancedTo]_vars
  BY ClockStep
<1> QED
  BY <1>1, Invariance, PTL DEF Spec, ClockNeverGoesBack

(* From the recovered panic on no step lets a function start or a           *)
(* FastForward succeed: until the error is set, the FastForward that        *)
(* recovered it is the only one in progress.                                *)
LEMMA HaltedStep ==
    IInv /\ [Next]_vars /\ Halted =>
        /\ Halted'
        /\ stopErr # NoTask => stopErr' = stopErr
        /\ started' = started
        /\ \A g \in Goroutines : result'[g] = "nil" => result[g] = "nil"
<1> DEFINE Kept == /\ Halted'
                   /\ stopErr # NoTask => stopErr' = stopErr
                   /\ started' = started
                   /\ \A g \in Goroutines : result'[g] = "nil" => result[g] = "nil"
<1> SUFFICES ASSUME IInv, [Next]_vars, Halted PROVE Kept
  OBVIOUS
<1> USE DEF Halted
<1>1. /\ result \in [Goroutines -> {"none", "nil", "error"}]
      /\ pc \in [Goroutines -> Places]
  BY DEF IInv, TypeOK
<1>2. stopErr # NoTask => \A g \in Goroutines : pc[g] \notin {"call", "failed"}
  BY DEF IInv, NothingRunsOnceStopped
<1>3. \A g, h \in Goroutines : pc[g] = "failed" /\ pc[h] # "idle" => g = h
  BY DEF IInv, OneFastForward
<1>4. (\E h \in Goroutines : pc[h] = "failed") => running
  BY DEF IInv, OneFastForward
<1>5. ASSUME NEW g \in Goroutines, NEW to \in Targets, FastForward(g, to)
      PROVE  Kept
  <2>1. stopErr # NoTask
    BY <1>4, <1>5 DEF FastForward
  <2> QED
    BY <1>1, <1>5, <2>1 DEF FastForward, history
<1>6. ASSUME NEW g \in Goroutines, ProceedStopped(g) \/ Unwind(g)
      PROVE  Kept
  <2>1. stopErr # NoTask
    BY <1>3, <1>6 DEF ProceedStopped, Unwind
  <2> QED
    BY <1>1, <1>6, <2>1 DEF ProceedStopped, Unwind, shared, history
<1>7. ASSUME NEW g \in Goroutines, ProceedRun(g) \/ ProceedDone(g)
      PROVE  Kept
  BY <1>3, <1>7 DEF ProceedRun, ProceedDone
<1>8. ASSUME NEW g \in Goroutines, Return(g) \/ Panic(g)
      PROVE  Kept
  BY <1>2, <1>3, <1>8 DEF Return, Panic
<1>9. ASSUME NEW g \in Goroutines, Shutdown(g)
      PROVE  Kept
  <2>1. stopErr = NoTask /\ head[g].task \in Tasks /\ stopErr' = head[g].task
    BY <1>2, <1>9 DEF Shutdown, IInv, TypeOK, ScheduledTasks
  <2>2. stopErr' # NoTask
    BY <2>1, VirtualTimeAssumption
  <2> QED
    BY <1>1, <1>9, <2>1, <2>2 DEF Shutdown, history
<1>10. ASSUME NEW g \in Goroutines, NEW t \in Tasks,
              \/ \E d \in Durations : AfterFunc(g, t, d)
              \/ StopPending(g, t)
              \/ StopTooLate(g, t)
       PROVE  Kept
  BY <1>10 DEF AfterFunc, StopPending, StopTooLate, shared, local
<1>11. CASE UNCHANGED vars
  BY <1>11 DEF vars, shared, local, history
<1> QED
  BY <1>5, <1>6, <1>7, <1>8, <1>9, <1>10, <1>11 DEF Next, Advance, Proceed

(* The first panic stops the dispatcher for good, from the moment it is     *)
(* recovered on.                                                            *)
THEOREM PanicIsFinal == Spec => StoppedForGood
<1>1. IInv /\ [Next]_vars =>
        [Halted =>
            /\ Halted'
            /\ stopErr # NoTask => stopErr' = stopErr
            /\ started' = started
            /\ \A g \in Goroutines : result'[g] = "nil" => result[g] = "nil"]_vars
  BY HaltedStep
<1> QED
  BY <1>1, Invariance, PTL DEF Spec, StoppedForGood

(* The step that decides on success has reached the target and leaves       *)
(* nothing due by then.                                                     *)
LEMMA SuccessStep ==
    ASSUME IInv, [Next]_vars, NEW g \in Goroutines, result[g] = "none", result'[g] = "nil"
    PROVE  /\ advancedTo' >= end[g]
           /\ \A i \in 1..Len(tasks') : tasks'[i].at > end[g]
<1>1. TypeOK /\ TypeOK' /\ QueueIsSorted /\ result \in [Goroutines -> {"none", "nil", "error"}]
  BY TypeStep DEF IInv, TypeOK
<1>2. ProceedDone(g)
  <2>1. ASSUME NEW h \in Goroutines, NEW to \in Targets, FastForward(h, to)
        PROVE  FALSE
    BY <1>1, <2>1 DEF FastForward
  <2>2. ASSUME NEW h \in Goroutines, ProceedStopped(h)
        PROVE  FALSE
    BY <1>1, <2>2 DEF ProceedStopped
  <2>3. ASSUME NEW h \in Goroutines, ProceedRun(h) \/ Return(h) \/ Panic(h) \/ Unwind(h)
        PROVE  FALSE
    BY <2>3 DEF ProceedRun, Return, Panic, Unwind
  <2>4. ASSUME NEW h \in Goroutines, Shutdown(h)
        PROVE  FALSE
    BY <1>1, <2>4 DEF Shutdown
  <2>5. ASSUME NEW h \in Goroutines, ProceedDone(h)
        PROVE  ProceedDone(g)
    BY <1>1, <2>5 DEF ProceedDone
  <2>6. ASSUME NEW h \in Goroutines, NEW t \in Tasks,
               \/ \E d \in Durations : AfterFunc(h, t, d)
               \/ StopPending(h, t)
               \/ StopTooLate(h, t)
        PROVE  FALSE
    BY <2>6 DEF AfterFunc, StopPending, StopTooLate, local
  <2>7. CASE UNCHANGED vars
    BY <2>7 DEF vars, local
  <2> QED
    BY <2>1, <2>2, <2>3, <2>4, <2>5, <2>6, <2>7 DEF Next, Advance, Proceed
<1>3. /\ tasks' = tasks /\ ~HeadIsDue(end[g])
      /\ advancedTo' = IF end[g] > advancedTo THEN end[g] ELSE advancedTo
      /\ advancedTo \in Nat /\ end[g] \in Nat
  BY <1>1, <1>2 DEF ProceedDone, TypeOK
<1>4. ASSUME NEW i \in 1..Len(tasks)
      PROVE  tasks[i].at > end[g]
  <2>1. /\ Len(tasks) \in Nat /\ 1 \in 1..Len(tasks) /\ 1 <= i
        /\ tasks[1].at \in Nat /\ tasks[i].at \in Nat
    BY <1>1, QueueFacts
  <2>2. tasks # <<>> /\ Head(tasks) = tasks[1]
    BY <1>1, <2>1, TailFacts, EmptySeq DEF TypeOK
  <2>3. tasks[1].at > end[g]
    BY <1>3, <2>1, <2>2 DEF HeadIsDue
  <2>4. tasks[1].at <= tasks[i].at
    BY <1>1, <2>1 DEF QueueIsSorted
  <2> QED
    BY <1>3, <2>1, <2>3, <2>4
<1> QED
  BY <1>3, <1>4

(* A FastForward that returns nil has reached its target and run all that   *)
(* was due by then.                                                         *)
THEOREM Completeness == Spec => SuccessMeansAllDueHaveRun
<1>1. IInv /\ [Next]_vars =>
        [\A g \in Goroutines :
            result[g] = "none" /\ result'[g] = "nil" =>
                /\ advancedTo' >= end[g]
                /\ \A i \in 1..Len(tasks') : tasks'[i].at > end[g]]_vars
  BY SuccessStep
<1> QED
  BY <1>1, Invariance, PTL DEF Spec, SuccessMeansAllDueHaveRun

-----------------------------------------------------------------------------
(* virtualtime.Dispatcher implements task.Dispatcher                       *)

(* What the abstract status of a task stands for.                           *)
LEMMA StatusMeaning ==
    ASSUME IInv, NEW t \in Tasks
    PROVE  /\ InCall(t) => t \in started
           /\ Status(t) = "running" <=> InCall(t)
           /\ Status(t) = "pending" <=> Queued(t)
           /\ Status(t) = "unused" <=> t \notin created
           /\ Status(t) \in {"unused", "pending", "running", "done", "stopped"}
<1>1. InCall(t) => t \in started
  BY DEF IInv, EveryTaskIsAccountedFor, InCall
<1>2. /\ Queued(t) => t \in created /\ t \notin started
      /\ t \in started => t \in created
      /\ TRUE \in answers[t] => t \in created /\ ~Queued(t) /\ t \notin started
      /\ t \in created => Queued(t) \/ t \in started \/ TRUE \in answers[t]
  BY DEF IInv, EveryTaskIsAccountedFor
<1> QED
  BY <1>1, <1>2 DEF Status

(* A step that changes nothing Status depends on changes no status.         *)
LEMMA StatusFrame ==
    ASSUME UNCHANGED history, \A u \in Tasks : InCall(u)' <=> InCall(u)
    PROVE  [u \in Tasks |-> Status(u)]' = [u \in Tasks |-> Status(u)]
<1>1. \A u \in Tasks : Status(u)' = Status(u)
  BY DEF Status, history
<1> QED
  BY <1>1

(* The steps of FastForward that are not the start or the end of a          *)
(* function, which the contract does not see.                               *)
LEMMA StutteringSteps ==
    ASSUME IInv, NEW g \in Goroutines,
           \/ \E to \in Targets : FastForward(g, to)
           \/ ProceedStopped(g) \/ ProceedDone(g) \/ Shutdown(g) \/ Unwind(g)
    PROVE  UNCHANGED D!vars
<1>1. pc \in [Goroutines -> Places] /\ head \in [Goroutines -> ScheduledTasks \cup {NoHead}]
  BY DEF IInv, TypeOK
<1>2. UNCHANGED history
  BY DEF FastForward, ProceedStopped, ProceedDone, Shutdown, Unwind
<1>3. \A h \in Goroutines :
        /\ pc'[h] = "call" <=> pc[h] = "call"
        /\ pc[h] = "call" => head'[h] = head[h]
  BY <1>1 DEF FastForward, ProceedStopped, ProceedDone, Shutdown, Unwind, Goto, shared, Places
<1>4. \A u \in Tasks : InCall(u)' <=> InCall(u)
  BY <1>3 DEF InCall
<1>5. Halted' <=> Halted
  <2>1. CASE Shutdown(g)
    <3>1. head[g] \in ScheduledTasks /\ pc[g] = "failed" /\ stopErr' = head[g].task
      BY <2>1 DEF IInv, TypeOK, Shutdown
    <3>2. stopErr' # NoTask
      BY <3>1, VirtualTimeAssumption DEF ScheduledTasks
    <3> QED
      BY <3>1, <3>2 DEF Halted
  <2>2. CASE ~Shutdown(g)
    <3>1. /\ stopErr' = stopErr
          /\ \A h \in Goroutines : pc'[h] = "failed" <=> pc[h] = "failed"
      BY <1>1, <2>2 DEF FastForward, ProceedStopped, ProceedDone, Unwind, Goto, shared, Places
    <3> QED
      BY <3>1 DEF Halted
  <2> QED
    BY <2>1, <2>2
<1>6. Halted' = Halted
  BY <1>5 DEF Halted
<1> QED
  BY <1>2, <1>4, <1>6, StatusFrame DEF D!vars, history

(* Calling the function of the head is the start of its task.               *)
LEMMA ProceedIsStart ==
    ASSUME IInv, IInv', NEW g \in Goroutines, ProceedRun(g)
    PROVE  tasks[1].task \in Tasks /\ D!Start(tasks[1].task)
<1> DEFINE t == tasks[1].task
<1>1. TypeOK /\ TypeOK' /\ NoTaskQueuedTwice
  BY DEF IInv, EveryTaskIsAccountedFor
<1>2. Queued(t)
  BY <1>1, QueuedAfterProceed
<1>3. t \in Tasks
  <2>1. tasks \in Seq(ScheduledTasks) /\ 1 \in 1..Len(tasks)
    BY <1>1, ProceedTakesHead, QueueFacts
  <2>2. tasks[1] \in ScheduledTasks
    BY <2>1, ElementOfSeq
  <2> QED
    BY <2>2 DEF ScheduledTasks
<1>4. /\ started' = started \cup {t}
      /\ head' = [head EXCEPT ![g] = tasks[1]]
      /\ pc' = [pc EXCEPT ![g] = "call"]
      /\ pc[g] = "loop"
      /\ stopErr = NoTask
      /\ UNCHANGED <<stopErr, created, answers>>
  BY <1>1, ProceedTakesHead DEF ProceedRun, Goto
<1>5. \A h \in Goroutines : h # g => pc[h] = "idle" /\ pc'[h] = "idle"
  BY <1>4 DEF IInv, OneFastForward, TypeOK
<1>6. /\ \A u \in Tasks : ~InCall(u)
      /\ \A u \in Tasks : InCall(u)' <=> u = t
  BY <1>1, <1>4, <1>5 DEF InCall, TypeOK
<1>7. ~Halted /\ ~Halted'
  BY <1>1, <1>4, <1>5 DEF Halted, TypeOK
<1>8. Halted' = Halted
  BY <1>7 DEF Halted
<1>9. Status(t) = "pending"
  BY <1>2, <1>3, StatusMeaning
<1> HIDE DEF t
<1>10. \A u \in Tasks : Status(u)' = IF u = t THEN "running" ELSE Status(u)
  BY <1>3, <1>4, <1>6 DEF Status
<1>11. [u \in Tasks |-> Status(u)]' = [[u \in Tasks |-> Status(u)] EXCEPT ![t] = "running"]
  BY <1>10
<1>12. \A u \in Tasks : Status(u) # "running"
  BY <1>6, StatusMeaning
<1>13. D!Start(t)
  BY <1>3, <1>4, <1>7, <1>8, <1>9, <1>11, <1>12 DEF D!Start, D!Running
<1> QED
  BY <1>3, <1>13 DEF t

(* The end of a function is the end of its task.                            *)
LEMMA EndIsEnd ==
    ASSUME IInv, NEW g \in Goroutines, Return(g) \/ Panic(g)
    PROVE  head[g].task \in Tasks /\ (D!Return(head[g].task) \/ D!Panic(head[g].task))
<1> DEFINE t == head[g].task
<1>1. pc[g] = "call" /\ UNCHANGED history /\ UNCHANGED stopErr
  BY DEF Return, Panic, shared
<1>2. pc \in [Goroutines -> Places] /\ head[g] \in ScheduledTasks /\ t \in Tasks
  BY <1>1 DEF IInv, TypeOK, ScheduledTasks
<1>3. t \in started
  BY <1>1 DEF IInv, EveryTaskIsAccountedFor
<1>4. \A h \in Goroutines : h # g => pc[h] = "idle" /\ pc'[h] = "idle"
  BY <1>1, <1>2 DEF IInv, OneFastForward, Return, Panic, Goto
<1>5. pc'[g] # "call"
  BY <1>2 DEF Return, Panic, Goto
<1>6. /\ \A u \in Tasks : InCall(u) <=> u = t
      /\ \A u \in Tasks : ~InCall(u)'
  BY <1>1, <1>4, <1>5 DEF InCall
<1> HIDE DEF t
<1>7. Status(t) = "running"
  BY <1>2, <1>6 DEF Status
<1>8. \A u \in Tasks : Status(u)' = IF u = t THEN "done" ELSE Status(u)
  BY <1>1, <1>3, <1>6 DEF Status, history
<1>9. [u \in Tasks |-> Status(u)]' = [[u \in Tasks |-> Status(u)] EXCEPT ![t] = "done"]
  BY <1>8
<1>10. CASE Return(g)
  <2>1. stopErr = NoTask /\ ~Halted /\ ~Halted'
    BY <1>1, <1>2, <1>4, <1>10
    DEF IInv, NothingRunsOnceStopped, Halted, Return, Goto, shared
  <2>2. Halted' = Halted
    BY <2>1 DEF Halted
  <2>3. D!Return(t)
    BY <1>1, <1>2, <1>7, <1>9, <2>2 DEF D!Return, D!Running, history
  <2> QED
    BY <1>2, <2>3 DEF t
<1>11. CASE Panic(g)
  <2>1. Halted' = TRUE
    BY <1>2, <1>11 DEF Halted, Panic, Goto
  <2>2. D!Panic(t)
    BY <1>1, <1>2, <1>7, <1>9, <2>1 DEF D!Panic, D!Running, history
  <2> QED
    BY <1>2, <2>2 DEF t
<1> QED
  BY <1>2, <1>10, <1>11 DEF t

(* AfterFunc and Stop are what they are in the contract.                    *)
LEMMA CallsAreCalls ==
    ASSUME IInv, NEW g \in Goroutines, NEW t \in Tasks,
           \/ \E d \in Durations : AfterFunc(g, t, d)
           \/ StopPending(g, t)
           \/ StopTooLate(g, t)
    PROVE  /\ (\E d \in Durations : AfterFunc(g, t, d)) => D!AfterFunc(t)
           /\ StopPending(g, t) \/ StopTooLate(g, t) => D!Stop(t)
<1>1. UNCHANGED <<stopErr, local, started>> /\ answers \in [Tasks -> SUBSET BOOLEAN]
  BY DEF AfterFunc, StopPending, StopTooLate, shared, IInv, TypeOK
<1>2. Halted' = Halted
  BY <1>1 DEF Halted, local
<1>3. \A u \in Tasks : InCall(u)' <=> InCall(u)
  BY <1>1 DEF InCall, local
<1>4. /\ InCall(t) => t \in started
      /\ t \in started => t \in created
      /\ TRUE \in answers[t] => t \in created
      /\ Status(t) = "pending" <=> Queued(t)
      /\ Status(t) = "unused" <=> t \notin created
  BY StatusMeaning DEF IInv, EveryTaskIsAccountedFor
<1>5. ASSUME NEW d \in Durations, AfterFunc(g, t, d)
      PROVE  D!AfterFunc(t)
  <2>1. t \notin created /\ created' = created \cup {t} /\ UNCHANGED answers
    BY <1>5 DEF AfterFunc
  <2>2. \A u \in Tasks : Status(u)' = IF u = t THEN "pending" ELSE Status(u)
    BY <1>1, <1>3, <1>4, <2>1 DEF Status
  <2>3. [u \in Tasks |-> Status(u)]' = [[u \in Tasks |-> Status(u)] EXCEPT ![t] = "pending"]
    BY <2>2
  <2> QED
    BY <1>2, <1>4, <2>1, <2>3 DEF D!AfterFunc
<1>6. ASSUME StopPending(g, t)
      PROVE  D!Stop(t)
  <2>1. Queued(t) /\ answers' = [answers EXCEPT ![t] = @ \cup {TRUE}] /\ UNCHANGED created
    BY <1>6 DEF StopPending, Answer, Queued
  <2>2. t \in created /\ t \notin started
    BY <2>1 DEF IInv, EveryTaskIsAccountedFor
  <2>3. \A u \in Tasks : Status(u)' = IF u = t THEN "stopped" ELSE Status(u)
    BY <1>1, <1>3, <1>4, <2>1, <2>2 DEF Status
  <2>4. Status(t) = "pending"
    BY <1>4, <2>1
  <2>5. [u \in Tasks |-> Status(u)]' =
        [[u \in Tasks |-> Status(u)] EXCEPT ![t] = IF @ = "pending" THEN "stopped" ELSE @]
    BY <2>3, <2>4
  <2> QED
    BY <1>2, <2>1, <2>4, <2>5 DEF D!Stop
<1>7. ASSUME StopTooLate(g, t)
      PROVE  D!Stop(t)
  <2>1. /\ ~Queued(t) /\ t \in created
        /\ answers' = [answers EXCEPT ![t] = @ \cup {FALSE}]
        /\ UNCHANGED created
    BY <1>7 DEF StopTooLate, Answer, Queued
  <2>2. \A u \in Tasks : TRUE \in answers'[u] <=> TRUE \in answers[u]
    BY <1>1, <2>1
  <2>3. \A u \in Tasks : Status(u)' = Status(u)
    BY <1>1, <1>3, <2>1, <2>2 DEF Status
  <2>4. Status(t) # "pending" /\ Status(t) # "unused"
    BY <1>4, <2>1
  <2>5. [u \in Tasks |-> Status(u)]' =
        [[u \in Tasks |-> Status(u)] EXCEPT ![t] = IF @ = "pending" THEN "stopped" ELSE @]
    BY <2>3, <2>4
  <2>6. (Status(t) = "pending") = FALSE
    BY <2>4
  <2> QED
    BY <1>2, <2>1, <2>4, <2>5, <2>6 DEF D!Stop
<1> QED
  BY <1>5, <1>6, <1>7

(* The initial state is one of the contract.                                *)
LEMMA RefinementInit == Init => D!Init
<1> SUFFICES ASSUME Init PROVE D!Init
  OBVIOUS
<1>1. \A t \in Tasks : Status(t) = "unused"
  BY DEF Init, Status, InCall
<1>2. Halted = FALSE
  BY DEF Init, Halted
<1> QED
  BY <1>1, <1>2 DEF D!Init, Init

(* Every step is a step of the contract, or invisible to it.                *)
LEMMA RefinementStep == IInv /\ [Next]_vars => [D!Next]_(D!vars)
<1> SUFFICES ASSUME IInv, [Next]_vars PROVE D!Next \/ UNCHANGED D!vars
  OBVIOUS
<1>1. IInv'
  BY IInvStep
<1>2. CASE UNCHANGED vars
  <2>1. UNCHANGED history /\ UNCHANGED <<pc, head, stopErr>>
    BY <1>2 DEF vars, shared, local
  <2>2. \A u \in Tasks : InCall(u)' <=> InCall(u)
    BY <2>1 DEF InCall
  <2>3. Halted' = Halted
    BY <2>1 DEF Halted
  <2> QED
    BY <2>1, <2>2, <2>3, StatusFrame DEF D!vars, history
<1>3. ASSUME NEW g \in Goroutines,
             \/ \E to \in Targets : FastForward(g, to)
             \/ ProceedStopped(g) \/ ProceedDone(g) \/ Shutdown(g) \/ Unwind(g)
      PROVE  UNCHANGED D!vars
  BY <1>3, StutteringSteps
<1>4. ASSUME NEW g \in Goroutines, ProceedRun(g)
      PROVE  D!Next
  BY <1>1, <1>4, ProceedIsStart DEF D!Next
<1>5. ASSUME NEW g \in Goroutines, Return(g) \/ Panic(g)
      PROVE  D!Next
  BY <1>5, EndIsEnd DEF D!Next
<1>6. ASSUME NEW g \in Goroutines, NEW t \in Tasks,
             \/ \E d \in Durations : AfterFunc(g, t, d)
             \/ StopPending(g, t)
             \/ StopTooLate(g, t)
      PROVE  D!Next
  BY <1>6, CallsAreCalls DEF D!Next
<1> QED
  BY <1>2, <1>3, <1>4, <1>5, <1>6 DEF Next, Advance, Proceed

(* virtualtime.Dispatcher keeps the contract of task.Dispatcher and         *)
(* task.Timer.                                                              *)
THEOREM Refinement == Spec => IsADispatcher
<1>1. Spec => D!Spec
  BY RefinementInit, RefinementStep, Invariance, PTL DEF Spec, D!Spec
<1> QED
  BY <1>1 DEF IsADispatcher

-----------------------------------------------------------------------------
(* The contract with time                                                  *)

(* A queue that holds a task once has one place of it.                      *)
LEMMA PlaceOfTask ==
    ASSUME NEW s, \A i, j \in 1..Len(s) : s[i].task = s[j].task => i = j,
           NEW k \in 1..Len(s), NEW t, s[k].task = t
    PROVE  (CHOOSE i \in 1..Len(s) : s[i].task = t) = k
OBVIOUS

(* A task in the queue is due when its entry is.                           *)
LEMMA DueMeaning ==
    ASSUME NoTaskQueuedTwice, NEW i \in 1..Len(tasks), NEW t, tasks[i].task = t
    PROVE  Queued(t) /\ Due(t) = tasks[i].at
<1>1. (CHOOSE j \in 1..Len(tasks) : tasks[j].task = t) = i
  BY PlaceOfTask DEF NoTaskQueuedTwice
<1> QED
  BY <1>1 DEF Due, Queued

(* The same of the queue after a step.                                      *)
LEMMA DueMeaningNext ==
    ASSUME NoTaskQueuedTwice', NEW i \in 1..Len(tasks'), NEW t, tasks'[i].task = t
    PROVE  Queued(t)' /\ Due(t)' = tasks'[i].at
<1>1. (CHOOSE j \in 1..Len(tasks') : tasks'[j].task = t) = i
  BY PlaceOfTask DEF NoTaskQueuedTwice
<1> QED
  BY <1>1 DEF Due, Queued

(* The target is the end of the FastForward in progress.                    *)
LEMMA TargetMeaning ==
    ASSUME IInv, NEW g \in Goroutines, pc[g] # "idle"
    PROVE  /\ Target = IF Advancing(g) THEN end[g] ELSE -1
           /\ \A h \in Goroutines \ {g} : pc[h] = "idle"
<1>1. \A h \in Goroutines : Advancing(h) => h = g
  BY DEF IInv, OneFastForward, Advancing
<1> QED
  BY <1>1 DEF IInv, OneFastForward, Target, Advancing

(* The same of the target after a step.                                     *)
LEMMA TargetMeaningNext ==
    ASSUME NEW g \in Goroutines, \A h \in Goroutines \ {g} : pc'[h] = "idle"
    PROVE  Target' = IF pc'[g] \in {"loop", "call", "failed"} THEN end'[g] ELSE -1
<1>1. \A h \in Goroutines : Advancing(h)' => h = g
  BY DEF Advancing
<1> QED
  BY <1>1 DEF Target, Advancing

(* A queue that stays as it is keeps when every task is due.                *)
LEMMA DueFrame ==
    ASSUME UNCHANGED tasks
    PROVE  [t \in Tasks |-> Due(t)]' = [t \in Tasks |-> Due(t)]
<1>1. \A t \in Tasks : Due(t)' = Due(t)
  BY DEF Due, Queued
<1> QED
  BY <1>1

(* The head of the queue is due first.                                      *)
LEMMA HeadIsFirst ==
    ASSUME IInv, tasks # <<>>, NEW u \in Tasks, Queued(u)
    PROVE  /\ 1 \in 1..Len(tasks) /\ Head(tasks) = tasks[1]
           /\ tasks[1].at \in Nat /\ Due(u) \in Nat
           /\ tasks[1].at <= Due(u)
<1>1. tasks \in Seq(ScheduledTasks) /\ 1 \in 1..Len(tasks) /\ Head(tasks) = tasks[1]
  BY TailFacts DEF IInv, TypeOK
<1>2. PICK i \in 1..Len(tasks) : tasks[i].task = u
  BY DEF Queued
<1>3. Due(u) = tasks[i].at
  BY <1>2, DueMeaning DEF IInv, EveryTaskIsAccountedFor
<1>4. tasks[1].at \in Nat /\ tasks[i].at \in Nat /\ 1 <= i
  <2>1. tasks[1] \in ScheduledTasks /\ tasks[i] \in ScheduledTasks
    BY <1>1, ElementOfSeq
  <2> QED
    BY <2>1 DEF ScheduledTasks
<1>5. tasks[1].at <= tasks[i].at
  BY <1>1, <1>4 DEF IInv, QueueIsSorted
<1> QED
  BY <1>1, <1>3, <1>4, <1>5

(* What a step does to when a task is due that is in the queue before and   *)
(* after it, at places of the same time.                                    *)
LEMMA DueKept ==
    ASSUME NoTaskQueuedTwice, NoTaskQueuedTwice', NEW u,
           NEW i \in 1..Len(tasks), NEW j \in 1..Len(tasks'),
           tasks[i].task = u, tasks'[j] = tasks[i]
    PROVE  Due(u)' = Due(u)
BY DueMeaning, DueMeaningNext

(* Calling the function of the head starts the task that is due first, at   *)
(* its time.                                                                *)
LEMMA TimedStart ==
    ASSUME IInv, IInv', NEW g \in Goroutines, ProceedRun(g)
    PROVE  tasks[1].task \in Tasks /\ T!Start(tasks[1].task)
<1> DEFINE t == tasks[1].task
<1>1. /\ TypeOK /\ TypeOK' /\ NoTaskQueuedTwice /\ NoTaskQueuedTwice'
      /\ tasks \in Seq(ScheduledTasks) /\ Len(tasks) \in Nat
      /\ pc[g] = "loop" /\ tasks # <<>> /\ Head(tasks).at <= end[g]
      /\ pc' = [pc EXCEPT ![g] = "call"] /\ UNCHANGED end
  BY QueueFacts DEF IInv, EveryTaskIsAccountedFor, ProceedRun, HeadIsDue, Goto
<1>2. t \in Tasks /\ D!Start(t)
  BY ProceedIsStart
<1>3. /\ 1 \in 1..Len(tasks) /\ Head(tasks) = tasks[1]
      /\ Len(tasks') = Len(tasks) - 1
      /\ \A m \in 1..(Len(tasks) - 1) : tasks'[m] = tasks[m + 1]
      /\ advancedTo' = tasks[1].at
  BY <1>1, ProceedTakesHead, TailFacts
<1>4. Due(t) = tasks[1].at
  BY <1>1, <1>3, DueMeaning
<1>5. Target = end[g] /\ Target' = end[g] /\ Target # -1
  <2>1. Target = end[g] /\ \A h \in Goroutines \ {g} : pc[h] = "idle"
    BY <1>1, TargetMeaning DEF Advancing
  <2>2. pc'[g] = "call" /\ \A h \in Goroutines \ {g} : pc'[h] = "idle"
    BY <1>1, <2>1 DEF TypeOK
  <2>3. end[g] \in Nat
    BY <1>1 DEF TypeOK
  <2> QED
    BY <1>1, <2>1, <2>2, <2>3, TargetMeaningNext
<1>6. \A u \in Tasks : Status(u) = "pending" => Due(t) <= Due(u)
  BY <1>1, <1>4, StatusMeaning, HeadIsFirst
<1>7. ASSUME NEW u \in Tasks
      PROVE  Due(u)' = IF u = t THEN 0 ELSE Due(u)
  <2>1. Queued(u)' <=> Queued(u) /\ u # t
    BY <1>1, QueuedAfterProceed
  <2>2. CASE u = t \/ ~Queued(u)
    BY <2>1, <2>2 DEF Due
  <2>3. CASE u # t /\ Queued(u)
    <3>1. PICK i \in 1..Len(tasks) : tasks[i].task = u
      BY <2>3 DEF Queued
    <3>2. i - 1 \in 1..Len(tasks') /\ tasks'[i - 1] = tasks[i]
      <4>1. i # 1
        BY <2>3, <3>1
      <4>2. i - 1 \in 1..(Len(tasks) - 1) /\ i - 1 + 1 = i
        BY <1>1, <4>1
      <4> QED
        BY <1>3, <4>2
    <3> QED
      BY <1>1, <2>3, <3>1, <3>2, DueKept
  <2> QED
    BY <2>2, <2>3
<1> HIDE DEF t
<1>8. [u \in Tasks |-> Due(u)]' = [[u \in Tasks |-> Due(u)] EXCEPT ![t] = 0]
  BY <1>7
<1>9. T!D!Start(t)
  BY <1>2 DEF D!Start, D!Running, T!D!Start, T!D!Running
<1>10. T!Start(t)
  BY <1>1, <1>2, <1>3, <1>4, <1>5, <1>6, <1>8, <1>9 DEF T!Start, T!Pending, T!NoTarget
<1> QED
  BY <1>2, <1>10 DEF t

(* The end of a function changes no times.                                  *)
LEMMA TimedEnd ==
    ASSUME IInv, NEW g \in Goroutines, Return(g) \/ Panic(g)
    PROVE  head[g].task \in Tasks /\ T!End(head[g].task)
<1>1. head[g].task \in Tasks /\ (D!Return(head[g].task) \/ D!Panic(head[g].task))
  BY EndIsEnd
<1>2. /\ pc[g] = "call" /\ UNCHANGED <<advancedTo, tasks, end>>
      /\ pc' = [pc EXCEPT ![g] = "loop"] \/ pc' = [pc EXCEPT ![g] = "failed"]
  BY DEF Return, Panic, shared, Goto
<1>3. pc \in [Goroutines -> Places]
  BY DEF IInv, TypeOK
<1>4. Target = end[g] /\ \A h \in Goroutines \ {g} : pc[h] = "idle"
  BY <1>2, TargetMeaning DEF Advancing
<1>5. pc'[g] \in {"loop", "failed"} /\ \A h \in Goroutines \ {g} : pc'[h] = "idle"
  BY <1>2, <1>3, <1>4
<1>6. Target' = Target
  BY <1>2, <1>4, <1>5, TargetMeaningNext
<1>7. [t \in Tasks |-> Due(t)]' = [t \in Tasks |-> Due(t)]
  BY <1>2, DueFrame
<1>8. T!D!Return(head[g].task) \/ T!D!Panic(head[g].task)
  BY <1>1 DEF D!Return, D!Panic, D!Running, T!D!Return, T!D!Panic, T!D!Running
<1> QED
  BY <1>1, <1>2, <1>6, <1>7, <1>8 DEF T!End

(* AfterFunc makes a task due after its delay, and Stop one never.          *)
LEMMA TimedCalls ==
    ASSUME IInv, IInv', NEW g \in Goroutines, NEW t \in Tasks
    PROVE  /\ \A d \in Durations : AfterFunc(g, t, d) => T!AfterFunc(t, d)
           /\ StopPending(g, t) \/ StopTooLate(g, t) => T!Stop(t)
<1>1. /\ TypeOK /\ TypeOK' /\ NoTaskQueuedTwice /\ NoTaskQueuedTwice'
      /\ tasks \in Seq(ScheduledTasks) /\ Len(tasks) \in Nat /\ Len(tasks') \in Nat
  BY QueueFacts DEF IInv, EveryTaskIsAccountedFor
<1>2. ASSUME UNCHANGED local PROVE Target' = Target
  BY <1>2 DEF Target, Advancing, local
<1>3. ASSUME NEW d \in Durations, AfterFunc(g, t, d)
      PROVE  T!AfterFunc(t, d)
  <2> DEFINE at == advancedTo + (IF d > 0 THEN d ELSE 0)
             e == [at |-> at, task |-> t]
  <2>1. PICK k \in 1..(Len(tasks) + 1) : tasks' = InsertAt(tasks, k, e)
    BY <1>3 DEF AfterFunc
  <2>2. at \in Nat
    BY <1>1, VirtualTimeAssumption DEF TypeOK
  <2>3. e \in ScheduledTasks /\ e.at = at /\ e.task = t
    BY <2>2 DEF ScheduledTasks
  <2> HIDE DEF at, e
  <2>4. /\ Len(tasks') = Len(tasks) + 1
        /\ \A m \in 1..(Len(tasks) + 1) :
             tasks'[m] = IF m < k THEN tasks[m] ELSE IF m = k THEN e ELSE tasks[m - 1]
    <3>1. /\ Len(InsertAt(tasks, k, e)) = Len(tasks) + 1
          /\ \A m \in 1..(Len(tasks) + 1) :
               InsertAt(tasks, k, e)[m] =
                  IF m < k THEN tasks[m] ELSE IF m = k THEN e ELSE tasks[m - 1]
      BY <1>1, <2>3, InsertAtFacts
    <3> QED
      BY <2>1, <3>1
  <2>5. ~Queued(t)
    BY <1>3 DEF AfterFunc, IInv, EveryTaskIsAccountedFor
  <2>6. \A u \in Tasks : Queued(u)' <=> Queued(u) \/ u = t
    BY <1>1, <1>3, <2>5, QueuedAfterAfterFunc
  <2>7. ASSUME NEW u \in Tasks
        PROVE  Due(u)' = IF u = t THEN at ELSE Due(u)
    <3>1. CASE u = t
      <4>1. k \in 1..Len(tasks') /\ tasks'[k] = e
        BY <1>1, <2>4
      <4> QED
        BY <1>1, <2>3, <3>1, <4>1, DueMeaningNext
    <3>2. CASE u # t /\ ~Queued(u)
      BY <2>6, <3>2 DEF Due
    <3>3. CASE u # t /\ Queued(u)
      <4>1. PICK i \in 1..Len(tasks) : tasks[i].task = u
        BY <3>3 DEF Queued
      <4>2. \E j \in 1..Len(tasks') : tasks'[j] = tasks[i]
        <5>1. CASE i < k
          <6>1. i \in 1..Len(tasks') /\ tasks'[i] = tasks[i]
            BY <1>1, <2>4, <5>1
          <6> QED
            BY <6>1
        <5>2. CASE ~(i < k)
          <6>1. i + 1 \in 1..(Len(tasks) + 1) /\ ~(i + 1 < k) /\ i + 1 # k /\ i + 1 - 1 = i
            BY <1>1, <5>2
          <6>2. i + 1 \in 1..Len(tasks') /\ tasks'[i + 1] = tasks[i]
            BY <2>4, <6>1
          <6> QED
            BY <6>2
        <5> QED
          BY <5>1, <5>2
      <4> QED
        BY <1>1, <3>3, <4>1, <4>2, DueKept
    <3> QED
      BY <3>1, <3>2, <3>3
  <2>8. [u \in Tasks |-> Due(u)]' = [[u \in Tasks |-> Due(u)] EXCEPT ![t] = at]
    BY <2>7
  <2>9. T!D!AfterFunc(t)
    <3>1. D!AfterFunc(t)
      BY <1>3, CallsAreCalls
    <3> QED
      BY <3>1 DEF D!AfterFunc, T!D!AfterFunc
  <2>10. UNCHANGED advancedTo /\ Target' = Target
    BY <1>2, <1>3 DEF AfterFunc
  <2> QED
    BY <2>8, <2>9, <2>10 DEF T!AfterFunc, at
<1>4. ASSUME StopPending(g, t) \/ StopTooLate(g, t)
      PROVE  T!Stop(t)
  <2>1. ASSUME NEW u \in Tasks
        PROVE  Due(u)' = IF u = t THEN 0 ELSE Due(u)
    <3>1. CASE StopTooLate(g, t)
      <4>1. UNCHANGED tasks /\ ~Queued(t)
        BY <3>1 DEF StopTooLate, shared, Queued
      <4> QED
        BY <4>1 DEF Due, Queued
    <3>2. CASE StopPending(g, t)
      <4>1. Queued(u)' <=> Queued(u) /\ u # t
        BY <1>1, <3>2, QueuedAfterStop
      <4>2. CASE u = t \/ ~Queued(u)
        BY <4>1, <4>2 DEF Due
      <4>3. CASE u # t /\ Queued(u)
        <5>1. PICK k \in 1..Len(tasks) :
                /\ tasks[k].task = t
                /\ Len(tasks') = Len(tasks) - 1
                /\ \A m \in 1..(Len(tasks) - 1) :
                     tasks'[m] = IF m < k THEN tasks[m] ELSE tasks[m + 1]
          BY <1>1, <3>2, StopRemoves
        <5>2. PICK i \in 1..Len(tasks) : tasks[i].task = u
          BY <4>3 DEF Queued
        <5>3. i # k
          BY <4>3, <5>1, <5>2
        <5>4. \E j \in 1..Len(tasks') : tasks'[j] = tasks[i]
          <6>1. CASE i < k
            <7>1. i \in 1..Len(tasks') /\ tasks'[i] = tasks[i]
              BY <1>1, <5>1, <6>1
            <7> QED
              BY <7>1
          <6>2. CASE ~(i < k)
            <7>1. i - 1 \in 1..(Len(tasks) - 1) /\ ~(i - 1 < k) /\ i - 1 + 1 = i
              BY <1>1, <5>3, <6>2
            <7>2. i - 1 \in 1..Len(tasks') /\ tasks'[i - 1] = tasks[i]
              BY <5>1, <7>1
            <7> QED
              BY <7>2
          <6> QED
            BY <6>1, <6>2
        <5> QED
          BY <1>1, <4>3, <5>2, <5>4, DueKept
      <4> QED
        BY <4>2, <4>3
    <3> QED
      BY <1>4, <3>1, <3>2
  <2>2. [u \in Tasks |-> Due(u)]' = [[u \in Tasks |-> Due(u)] EXCEPT ![t] = 0]
    BY <2>1
  <2>3. T!D!Stop(t)
    <3>1. D!Stop(t)
      BY <1>4, CallsAreCalls
    <3> QED
      BY <3>1 DEF D!Stop, T!D!Stop
  <2>4. UNCHANGED advancedTo /\ Target' = Target
    BY <1>2, <1>4 DEF StopPending, StopTooLate, shared
  <2> QED
    BY <2>2, <2>3, <2>4 DEF T!Stop
<1> QED
  BY <1>3, <1>4

(* A FastForward that is granted is an advance, and the way its result is   *)
(* decided is the way the advance ends; its return is invisible.            *)
LEMMA TimedAdvance ==
    ASSUME IInv, NEW g \in Goroutines,
           \/ \E to \in Targets : FastForward(g, to)
           \/ ProceedStopped(g) \/ ProceedDone(g) \/ Shutdown(g) \/ Unwind(g)
    PROVE  T!Next \/ UNCHANGED T!vars
<1>1. /\ pc \in [Goroutines -> Places] /\ end \in [Goroutines -> Nat]
      /\ tasks \in Seq(ScheduledTasks)
  BY DEF IInv, TypeOK
<1>2. /\ UNCHANGED tasks
      /\ [t \in Tasks |-> Due(t)]' = [t \in Tasks |-> Due(t)]
  BY DueFrame DEF FastForward, ProceedStopped, ProceedDone, Shutdown, Unwind, shared
<1>3. UNCHANGED <<[t \in Tasks |-> Status(t)], Halted, answers>>
  BY StutteringSteps DEF D!vars
<1>4. ASSUME NEW to \in Targets, FastForward(g, to)
      PROVE  T!AdvanceTo(to)
  <2>1. \A h \in Goroutines : pc[h] = "idle"
    BY <1>4 DEF FastForward, IInv, OneFastForward
  <2>2. pc'[g] = "loop" /\ end'[g] = to /\ UNCHANGED advancedTo
    BY <1>1, <1>4 DEF FastForward, Goto
  <2>3. \A h \in Goroutines \ {g} : pc'[h] = "idle"
    BY <1>1, <1>4, <2>1 DEF FastForward, Goto
  <2>4. Target = -1 /\ Target' = to
    BY <2>1, <2>2, <2>3, TargetMeaningNext DEF Target, Advancing
  <2> QED
    BY <1>2, <1>3, <2>2, <2>4 DEF T!AdvanceTo, T!NoTarget
<1>5. ASSUME pc[g] # "idle", pc' = [pc EXCEPT ![g] = "idle"] \/ pc' = [pc EXCEPT ![g] = "unwind"]
      PROVE  /\ Target' = -1
             /\ Target = IF Advancing(g) THEN end[g] ELSE -1
             /\ end[g] # -1
             /\ \A h \in Goroutines \ {g} : pc[h] = "idle"
  <2>1. /\ Target = IF Advancing(g) THEN end[g] ELSE -1
        /\ \A h \in Goroutines \ {g} : pc[h] = "idle"
    BY <1>5, TargetMeaning
  <2>2. /\ pc'[g] \in {"idle", "unwind"}
        /\ \A h \in Goroutines \ {g} : pc'[h] = "idle"
    BY <1>1, <1>5, <2>1
  <2> QED
    BY <1>1, <2>1, <2>2, TargetMeaningNext
<1>6. CASE Unwind(g)
  <2>1. /\ pc[g] = "unwind" /\ pc' = [pc EXCEPT ![g] = "idle"] /\ UNCHANGED advancedTo
    BY <1>6 DEF Unwind, Goto
  <2>2. Target' = Target
    BY <1>5, <2>1 DEF Advancing
  <2> QED
    BY <1>2, <1>3, <2>1, <2>2 DEF T!vars
<1>7. ASSUME pc[g] \in {"loop", "failed"}, \A h \in Goroutines \ {g} : pc[h] = "idle"
      PROVE  \A u \in Tasks : Status(u) # "running"
  <2>1. \A u \in Tasks : ~InCall(u)
    BY <1>7 DEF InCall
  <2> QED
    BY <2>1, StatusMeaning
<1>8. CASE ProceedStopped(g) \/ Shutdown(g)
  <2>1. /\ pc[g] \in {"loop", "failed"} /\ pc' = [pc EXCEPT ![g] = "unwind"]
        /\ UNCHANGED advancedTo
    BY <1>8 DEF ProceedStopped, Shutdown, Goto, shared
  <2>2. Halted
    BY <1>8 DEF ProceedStopped, Shutdown, Halted
  <2>3. Target = end[g] /\ Target # -1 /\ Target' = -1
    BY <1>5, <2>1 DEF Advancing
  <2>4. \A u \in Tasks : Status(u) # "running"
    BY <1>5, <1>7, <2>1
  <2>5. T!Failed
    BY <1>2, <1>3, <2>1, <2>2, <2>3, <2>4
       DEF T!Failed, T!NoTarget, T!NoneRuns, T!D!Running
  <2> QED
    BY <2>5 DEF T!Next
<1>9. CASE ProceedDone(g)
  <2>1. /\ pc[g] = "loop" /\ pc' = [pc EXCEPT ![g] = "unwind"] /\ stopErr = NoTask
        /\ ~HeadIsDue(end[g])
        /\ advancedTo' = IF end[g] > advancedTo THEN end[g] ELSE advancedTo
    BY <1>9 DEF ProceedDone, Goto
  <2>2. /\ Target = end[g] /\ Target # -1 /\ Target' = -1
        /\ \A h \in Goroutines \ {g} : pc[h] = "idle"
    BY <1>5, <2>1 DEF Advancing
  <2>3. ~Halted
    BY <2>1, <2>2 DEF Halted
  <2>4. \A u \in Tasks : Status(u) # "running"
    BY <1>7, <2>1, <2>2
  <2>5. ASSUME NEW u \in Tasks, Status(u) = "pending"
        PROVE  Due(u) > end[g]
    <3>1. Queued(u)
      BY <2>5, StatusMeaning
    <3>2. tasks # <<>>
      BY <3>1 DEF Queued
    <3>3. tasks[1].at > end[g]
      BY <1>1, <2>1, <3>1, <3>2, HeadIsFirst DEF HeadIsDue
    <3> QED
      BY <1>1, <3>1, <3>2, <3>3, HeadIsFirst
  <2>6. T!Advanced
    BY <1>2, <1>3, <2>1, <2>2, <2>3, <2>4, <2>5
       DEF T!Advanced, T!NoTarget, T!NoneRuns, T!Pending, T!D!Running
  <2> QED
    BY <2>6 DEF T!Next
<1> QED
  BY <1>4, <1>6, <1>8, <1>9 DEF T!Next

(* The initial state is one of the contract with time.                      *)
LEMMA TimedInit == Init => T!Init
<1> SUFFICES ASSUME Init PROVE T!Init
  OBVIOUS
<1>1. T!D!Init
  BY RefinementInit DEF D!Init, T!D!Init
<1>2. \A t \in Tasks : Due(t) = 0
  BY DEF Init, Due, Queued
<1>3. Target = -1
  BY DEF Init, Target, Advancing
<1> QED
  BY <1>1, <1>2, <1>3 DEF T!Init, T!NoTarget, Init

(* Every step is a step of the contract with time, or invisible to it.      *)
LEMMA TimedStep == IInv /\ [Next]_vars => [T!Next]_(T!vars)
<1> SUFFICES ASSUME IInv, [Next]_vars PROVE T!Next \/ UNCHANGED T!vars
  OBVIOUS
<1>1. IInv'
  BY IInvStep
<1>2. CASE UNCHANGED vars
  <2>1. UNCHANGED history /\ UNCHANGED <<pc, end, head, stopErr, tasks, advancedTo>>
    BY <1>2 DEF vars, shared, local
  <2>2. [t \in Tasks |-> Status(t)]' = [t \in Tasks |-> Status(t)]
    BY <2>1, StatusFrame DEF InCall
  <2>3. Halted' = Halted /\ Target' = Target
    BY <2>1 DEF Halted, Target, Advancing
  <2> QED
    BY <2>1, <2>2, <2>3, DueFrame DEF T!vars, history
<1>3. ASSUME NEW g \in Goroutines,
             \/ \E to \in Targets : FastForward(g, to)
             \/ ProceedStopped(g) \/ ProceedDone(g) \/ Shutdown(g) \/ Unwind(g)
      PROVE  T!Next \/ UNCHANGED T!vars
  BY <1>3, TimedAdvance
<1>4. ASSUME NEW g \in Goroutines, ProceedRun(g) \/ Return(g) \/ Panic(g)
      PROVE  T!Next
  BY <1>1, <1>4, TimedStart, TimedEnd DEF T!Next
<1>5. ASSUME NEW g \in Goroutines, NEW t \in Tasks,
             \/ \E d \in Durations : AfterFunc(g, t, d)
             \/ StopPending(g, t)
             \/ StopTooLate(g, t)
      PROVE  T!Next
  BY <1>1, <1>5, TimedCalls DEF T!Next
<1> QED
  BY <1>2, <1>3, <1>4, <1>5 DEF Next, Advance, Proceed

(* virtualtime.Dispatcher runs each function at its own time and in the     *)
(* order of these times, and ends an advance when nothing due is left.      *)
THEOREM TimedRefinement == Spec => IsATimedDispatcher
<1>1. Spec => T!Spec
  BY TimedInit, TimedStep, Invariance, PTL DEF Spec, T!Spec
<1> QED
  BY <1>1 DEF IsATimedDispatcher
=============================================================================
