--------------------------- MODULE PausableProofs ---------------------------
(***************************************************************************)
(* Proofs about Pausable, PausableVirtual and PausableBetween for any      *)
(* goroutines, entries, delays, width of durations and bounds.             *)
(***************************************************************************)
EXTENDS PausableBetween, TLAPS

Over(t) == status[t] \in {"running", "done"}

(* e has a timer of the base because it is tracked, or about to be.         *)
Held(e) == e \in tracked \/ \E g \in Goroutines : pc[g] = "track" /\ entry[g] = e

(* A goroutine is in a method exactly while it has the lock, and only the   *)
(* one that has it knows of an entry or has some left in its loop.          *)
LockOK ==
    \A g \in Goroutines :
        /\ pc[g] = "idle" <=> mu # g
        /\ entry[g] # None <=> pc[g] \in {"dispatch", "track"}
        /\ entry[g] \notin handles
        /\ left[g] \subseteq tracked
        /\ left[g] # {} => pc[g] \in {"pause", "resume"}
        /\ pc[g] = "pause" => paused
        /\ pc[g] \in {"dispatch", "resume"} => ~paused
        /\ pc[g] = "track" => (paused <=> baseTimer[entry[g]] = None)

(* What the status of a timer of the base says about its entry ...          *)
TimerOK(t) ==
    /\ status[t] # "unused" => t[1] \in handles \/ Held(t[1])
    /\ Live(t) => baseTimer[t[1]] = t
    /\ status[t] = "pending" => Held(t[1])
    /\ t \in entered => Over(t) /\ t[1] \in handles \ tracked

(* ... and an entry, by where it is and what Stop has answered, about the   *)
(* timer it refers to.                                                      *)
EntryOK(e) ==
    /\ e \in tracked => e \in handles
    /\ baseTimer[e] # None => status[baseTimer[e]] # "unused"
    /\ Held(e) /\ baseTimer[e] # None => Live(baseTimer[e])
    /\ e \in handles \ tracked =>
          TRUE \in answers[e] \/ (baseTimer[e] # None /\ Over(baseTimer[e]))
    /\ TRUE \in answers[e] =>
          /\ e \in handles \ tracked
          /\ baseTimer[e] # None => ~Live(baseTimer[e])

OneRuns == \A t, u \in BaseTimers : B!Running(t) /\ B!Running(u) => t = u

TimersOK ==
    /\ \A t \in BaseTimers : TimerOK(t)
    /\ \A e \in Entries : EntryOK(e)
    /\ OneRuns

(* The base is not ahead, and nothing is measured from a later time.        *)
ClocksOK ==
    /\ baseClock <= clock
    /\ \A e \in Entries :
        /\ dispatchedAt[e] <= clock
        /\ elapsed[e] <= clock
        /\ ~Created(e) => elapsed[e] = 0
    /\ \A g \in Goroutines : read[g] <= clock

(* A Pause in progress measures from earlier times to its own.              *)
PauseIsLast ==
    \A g \in Goroutines : pc[g] = "pause" => \A e \in left[g] : dispatchedAt[e] <= read[g]

IInv == TypeOK /\ LockOK /\ TimersOK /\ ClocksOK /\ PauseIsLast /\ BaseTimerMatchesPause

(* Steps of Pausable over a base that takes functions when it likes to and  *)
(* whose clock goes anywhere behind that of the caller.  Next and the steps *)
(* of VirtualNext are such steps.  What is proved of LooseNext so holds of  *)
(* both: all but what is about the time at which a function is taken.       *)
TimePasses ==
    /\ clock' \in clock..MaxTime
    /\ baseClock' \in 0..clock'
    /\ elapsed' = [e \in Entries |->
                     IF Waiting(e) /\ ~paused THEN elapsed[e] + (clock' - clock) ELSE elapsed[e]]
    /\ UNCHANGED <<paused, tracked, entries, threads, base, handles, answers, original>>

Taken(t) ==
    /\ baseClock' \in 0..clock
    /\ B!Start(t)
    /\ at' = [at EXCEPT ![t] = NoTime]
    /\ Forget(t[1])
    /\ UNCHANGED <<clock, paused, tracked, entries, threads, entered, handles, answers>>

LooseNext ==
    \/ TimePasses
    \/ \E t \in BaseTimers : Taken(t) \/ Callback(t) \/ CallbackEnds(t)
    \/ \E g \in Goroutines :
         \/ Continue(g)
         \/ Pause(g) \/ Resume(g)
         \/ \E e \in Entries :
              \/ \E d \in Delays : AfterFunc(g, e, d)
              \/ StopFound(g, e) \/ StopNotFound(g, e)

LooseSpec == Init /\ [][LooseNext]_vars

(* How much of the delay of e has passed outside of pauses since the delay  *)
(* was set, what of it remains, and what is still owed to the caller of     *)
(* AfterFunc.                                                               *)
Spent(e) ==
    IF mu # None /\ pc[mu] = "resume" /\ e \in left[mu] THEN clock - read[mu]
    ELSE IF mu # None /\ pc[mu] = "pause" /\ e \in left[mu] THEN read[mu] - dispatchedAt[e]
    ELSE IF paused THEN 0
    ELSE clock - dispatchedAt[e]

Remaining(e) == delay[e] - Spent(e)
Owed(e) == original[e] - elapsed[e]

(* What remains of an entry that waits is no less than what is owed ...     *)
NotTooShort == \A e \in Entries : Waiting(e) => NotNegative(Owed(e)) <= NotNegative(Remaining(e))

(* ... and no more.                                                         *)
NotTooLong == \A e \in Entries : Waiting(e) => NotNegative(Remaining(e)) <= NotNegative(Owed(e))

(* The base takes nothing before what remained at its dispatch has passed.  *)
DueInTime ==
    \A t \in BaseTimers :
        status[t] = "pending" => at[t] >= dispatchedAt[t[1]] + NotNegative(delay[t[1]])

(* The base of Pausable measures by the clock that now() reads.             *)
SameClock == baseClock = clock

(* No delay is so negative that a subtraction of Pause wraps.               *)
NoDelayWraps == \A d \in Delays \cup {0} : d - MaxTime >= MinDuration
NothingWraps == \A e \in Entries : delay[e] - MaxTime >= MinDuration

-----------------------------------------------------------------------------
(* Types                                                                   *)

(* What an int64 subtraction leaves is in the range of a Duration, and what *)
(* is in that range already stays what it is.                               *)
LEMMA WrappedFacts ==
    ASSUME NEW d \in Int
    PROVE  /\ Wrapped(d) \in MinDuration..MaxDuration
           /\ d \in MinDuration..MaxDuration => Wrapped(d) = d
<1> DEFINE n == MaxDuration - MinDuration + 1
           x == d - MinDuration
<1>1. n \in Nat \ {0} /\ x \in Int /\ MinDuration \in Int /\ MaxDuration \in Int
  BY PausableAssumption
<1>2. x % n \in 0..(n - 1)
  <2> HIDE DEF n, x
  <2> QED
    BY <1>1
<1>3. x \in 0..(n - 1) => x % n = x
  <2> HIDE DEF n, x
  <2> QED
    BY <1>1
<1> QED
  BY <1>1, <1>2, <1>3 DEF Wrapped

(* An entry that is forgotten has the types of one that was never made.     *)
LEMMA ForgetType ==
    ASSUME TypeOK, NEW e, Forget(e)
    PROVE  original' \in [Entries -> Delays \cup {NoTime}] /\ elapsed' \in [Entries -> Times]
<1>1. original \in [Entries -> Delays \cup {NoTime}] /\ elapsed \in [Entries -> Times]
  BY DEF TypeOK
<1>2. NoTime \in Times
  BY PausableAssumption DEF Times, NoTime
<1> QED
  BY <1>1, <1>2 DEF Forget

(* What dispatchEntry gives the base has the types of what was there.       *)
DispatchTypes ==
    /\ status' \in [BaseTimers -> B!Statuses]
    /\ at' \in [BaseTimers -> Nat]
    /\ halted' = halted /\ entered' = entered
    /\ baseTimer' \in [Entries -> BaseTimers \cup {None}]
    /\ \A x \in Entries : baseTimer'[x] # None => baseTimer'[x][1] = x

(* A dispatch keeps the types of what it changes.                           *)
LEMMA DispatchType ==
    ASSUME TypeOK, NEW e \in Entries, NEW t \in BaseTimers, Dispatch(e, t)
    PROVE  DispatchTypes
<1> USE DEF TypeOK
<1>1. status' \in [BaseTimers -> B!Statuses] /\ halted' = halted
  BY DEF Dispatch, B!AfterFunc, B!Statuses
<1>2. at' \in [BaseTimers -> Nat]
  <2>1. baseClock + NotNegative(delay[e]) \in Nat
    <3>1. delay[e] \in Int /\ baseClock \in Nat
      BY PausableAssumption DEF Times
    <3> QED
      BY <3>1 DEF NotNegative
  <2> QED
    BY <2>1 DEF Dispatch
<1>3. /\ baseTimer' \in [Entries -> BaseTimers \cup {None}]
      /\ \A x \in Entries : baseTimer'[x] # None => baseTimer'[x][1] = x
  BY DEF Dispatch
<1> QED
  BY <1>1, <1>2, <1>3 DEF Dispatch, DispatchTypes

(* The three ways in which Stop of a tracked entry can end.                 *)
LEMMA StopFoundFacts ==
    ASSUME TypeOK, NEW g \in Goroutines, NEW e \in Entries, StopFound(g, e)
    PROVE  \/ /\ baseTimer[e] = None
              /\ UNCHANGED base
              /\ answers' = [answers EXCEPT ![e] = @ \cup {TRUE}]
           \/ /\ baseTimer[e] \in BaseTimers /\ status[baseTimer[e]] = "pending"
              /\ status' = [status EXCEPT ![baseTimer[e]] = "stopped"]
              /\ at' = [at EXCEPT ![baseTimer[e]] = NoTime]
              /\ UNCHANGED <<halted, entered>>
              /\ answers' = [answers EXCEPT ![e] = @ \cup {TRUE}]
           \/ /\ baseTimer[e] \in BaseTimers /\ status[baseTimer[e]] # "pending"
              /\ UNCHANGED <<status, halted, entered>>
              /\ at' = [at EXCEPT ![baseTimer[e]] = NoTime]
              /\ answers' = [answers EXCEPT ![e] = @ \cup {FALSE}]
<1> DEFINE t == baseTimer[e]
<1>1. t \in BaseTimers \cup {None} /\ status \in [BaseTimers -> B!Statuses]
  BY DEF TypeOK
<1>2. CASE t = None
  BY <1>2 DEF StopFound, StopAnswers
<1>3. CASE t # None /\ status[t] = "pending"
  <2>1. BaseStop(t) /\ StopAnswers(e, status[t] = "pending")
    BY <1>3 DEF StopFound
  <2>2. (status[t] = "pending") = TRUE
    BY <1>3
  <2> HIDE DEF t
  <2>3. status' = [status EXCEPT ![t] = "stopped"]
    BY <1>3, <2>1 DEF BaseStop
  <2>4. at' = [at EXCEPT ![t] = NoTime] /\ UNCHANGED <<halted, entered>>
    BY <2>1 DEF BaseStop
  <2>5. answers' = [answers EXCEPT ![e] = @ \cup {TRUE}]
    BY <2>1, <2>2 DEF StopAnswers
  <2> QED
    BY <1>1, <1>3, <2>3, <2>4, <2>5 DEF t
<1>4. CASE t # None /\ status[t] # "pending"
  <2>1. BaseStop(t) /\ StopAnswers(e, status[t] = "pending")
    BY <1>4 DEF StopFound
  <2>2. (status[t] = "pending") = FALSE
    BY <1>4
  <2> HIDE DEF t
  <2>3. status' = status
    BY <1>1, <1>4, <2>1 DEF BaseStop
  <2>4. at' = [at EXCEPT ![t] = NoTime] /\ UNCHANGED <<halted, entered>>
    BY <2>1 DEF BaseStop
  <2>5. answers' = [answers EXCEPT ![e] = @ \cup {FALSE}]
    BY <2>1, <2>2 DEF StopAnswers
  <2> QED
    BY <1>1, <1>4, <2>3, <2>4, <2>5 DEF t
<1> QED
  BY <1>2, <1>3, <1>4

(* Every step keeps the types.                                              *)
LEMMA TypeStep == TypeOK /\ LockOK /\ ClocksOK /\ [LooseNext]_vars => TypeOK'
<1> SUFFICES ASSUME TypeOK, LockOK, ClocksOK, [LooseNext]_vars PROVE TypeOK'
  OBVIOUS
<1> USE PausableAssumption
<1> USE DEF TypeOK, B!Statuses, Times, NoTime, vars, entries, threads, base, history
<1>1. CASE UNCHANGED vars
  BY <1>1
<1>2. CASE TimePasses
  BY <1>2 DEF TimePasses, ClocksOK
<1>3. ASSUME NEW t \in BaseTimers, Taken(t)
      PROVE  TypeOK'
  <2>1. status' \in [BaseTimers -> B!Statuses]
    BY <1>3 DEF Taken, B!Start
  <2>2. at' \in [BaseTimers -> Nat]
    BY <1>3 DEF Taken
  <2>3. original' \in [Entries -> Delays \cup {NoTime}] /\ elapsed' \in [Entries -> Times]
    BY <1>3, ForgetType DEF Taken
  <2>4. halted' = halted
    BY <1>3 DEF Taken, B!Start
  <2>5. /\ UNCHANGED <<clock, paused, tracked, entries, threads, entered, handles, answers>>
        /\ baseClock' \in Times
    BY <1>3 DEF Taken
  <2> QED
    BY <2>1, <2>2, <2>3, <2>4, <2>5
<1>4. ASSUME NEW t \in BaseTimers, Callback(t)
      PROVE  TypeOK'
  BY <1>4 DEF Callback
<1>5. ASSUME NEW t \in BaseTimers, CallbackEnds(t)
      PROVE  TypeOK'
  <2>1. status' \in [BaseTimers -> B!Statuses]
    BY <1>5 DEF CallbackEnds, B!Return, B!Panic
  <2>2. halted' \in BOOLEAN
    BY <1>5 DEF CallbackEnds, B!Return, B!Panic
  <2> QED
    BY <1>5, <2>1, <2>2 DEF CallbackEnds
<1>6. ASSUME NEW g \in Goroutines, NEW e \in Entries, NEW d \in Delays, AfterFunc(g, e, d)
      PROVE  TypeOK'
  BY <1>6 DEF AfterFunc, Acquire
<1>7. ASSUME NEW g \in Goroutines, NEW e \in Entries, StopFound(g, e)
      PROVE  TypeOK'
  <2>1. original' \in [Entries -> Delays \cup {NoTime}] /\ elapsed' \in [Entries -> Times]
    BY <1>7, ForgetType DEF StopFound
  <2>2. /\ status' \in [BaseTimers -> B!Statuses]
        /\ at' \in [BaseTimers -> Nat]
        /\ halted' = halted /\ entered' = entered
    <3>1. /\ status \in [BaseTimers -> B!Statuses]
          /\ at \in [BaseTimers -> Nat]
      OBVIOUS
    <3> HIDE DEF TypeOK
    <3>2. /\ status' = status \/ status' = [status EXCEPT ![baseTimer[e]] = "stopped"]
          /\ at' = at \/ at' = [at EXCEPT ![baseTimer[e]] = NoTime]
          /\ halted' = halted /\ entered' = entered
      BY <1>7, StopFoundFacts
    <3> QED
      BY <3>1, <3>2
  <2>3. answers' \in [Entries -> SUBSET BOOLEAN]
    <3>1. answers \in [Entries -> SUBSET BOOLEAN]
      OBVIOUS
    <3>2. \E b \in BOOLEAN : answers' = [answers EXCEPT ![e] = @ \cup {b}]
      BY <1>7, StopFoundFacts
    <3> HIDE DEF TypeOK
    <3> QED
      BY <3>1, <3>2
  <2>4. /\ tracked' \in SUBSET Entries
        /\ UNCHANGED <<clock, baseClock, paused, entries, threads, handles>>
    BY <1>7 DEF StopFound
  <2> QED
    BY <2>1, <2>2, <2>3, <2>4
<1>8. ASSUME NEW g \in Goroutines, NEW e \in Entries, StopNotFound(g, e)
      PROVE  TypeOK'
  BY <1>8 DEF StopNotFound, StopAnswers
<1>9. ASSUME NEW g \in Goroutines, Pause(g) \/ Resume(g)
      PROVE  TypeOK'
  <2>1. /\ \E b \in BOOLEAN : paused' = b
        /\ mu' = g
        /\ \E p \in {"pause", "resume"} : pc' = [pc EXCEPT ![g] = p]
        /\ left' = [left EXCEPT ![g] = tracked]
        /\ read' = [read EXCEPT ![g] = clock]
    BY <1>9 DEF Pause, Resume, Acquire
  <2>2. UNCHANGED <<clock, baseClock, tracked, entries, entry, base, history>>
    BY <1>9 DEF Pause, Resume
  <2> QED
    BY <2>1, <2>2
<1>10. ASSUME NEW g \in Goroutines, AfterFuncDispatches(g)
       PROVE  TypeOK'
  <2>1. PICK t \in BaseTimers : Dispatch(entry[g], t)
    BY <1>10 DEF AfterFuncDispatches
  <2>2. DispatchTypes
    <3>1. entry[g] \in Entries
      BY <1>10 DEF AfterFuncDispatches, LockOK
    <3> QED
      BY <2>1, <3>1, DispatchType
  <2> QED
    BY <1>10, <2>2 DEF AfterFuncDispatches, DispatchTypes
<1>11. ASSUME NEW g \in Goroutines, AfterFuncTracks(g)
       PROVE  TypeOK'
  BY <1>11 DEF AfterFuncTracks, Release, LockOK
<1>12. ASSUME NEW g \in Goroutines, NEW e \in Entries, PauseEntry(g, e)
       PROVE  TypeOK'
  <2>1. NotNegative(Wrapped(delay[e] - (read[g] - dispatchedAt[e]))) \in MinDuration..MaxDuration
    BY WrappedFacts DEF NotNegative
  <2>2. /\ status' \in [BaseTimers -> B!Statuses]
        /\ at' \in [BaseTimers -> Nat]
        /\ halted' = halted /\ entered' = entered
    BY <1>12 DEF PauseEntry, BaseStop
  <2>3. /\ delay' \in [Entries -> MinDuration..MaxDuration]
        /\ tracked' \in SUBSET Entries
        /\ dispatchedAt' = dispatchedAt
    BY <1>12, <2>1 DEF PauseEntry
  <2>4. /\ baseTimer' \in [Entries -> BaseTimers \cup {None}]
        /\ \A x \in Entries : baseTimer'[x] # None => baseTimer'[x][1] = x
    BY <1>12 DEF PauseEntry
  <2>5. left' \in [Goroutines -> SUBSET Entries]
    BY <1>12 DEF PauseEntry
  <2>6. UNCHANGED <<clock, baseClock, paused, mu, pc, entry, read, history>>
    BY <1>12 DEF PauseEntry
  <2> QED
    BY <2>2, <2>3, <2>4, <2>5, <2>6
<1>13. ASSUME NEW g \in Goroutines, NEW e \in Entries, ResumeEntry(g, e)
       PROVE  TypeOK'
  <2>1. PICK t \in BaseTimers : Dispatch(e, t)
    BY <1>13 DEF ResumeEntry
  <2>2. DispatchTypes
    BY <2>1, DispatchType
  <2> QED
    BY <1>13, <2>2 DEF ResumeEntry, DispatchTypes
<1>14. ASSUME NEW g \in Goroutines, LoopEnds(g)
       PROVE  TypeOK'
  BY <1>14 DEF LoopEnds, Release
<1> QED
  BY <1>1, <1>2, <1>3, <1>4, <1>5, <1>6, <1>7, <1>8, <1>9, <1>10, <1>11, <1>12, <1>13, <1>14
     DEF LooseNext, Continue

-----------------------------------------------------------------------------
(* The lock                                                                *)

(* Whoever can take the lock finds every goroutine outside of a method.     *)
LEMMA LockFree ==
    ASSUME IInv, mu = None
    PROVE  \A g \in Goroutines : pc[g] = "idle" /\ left[g] = {} /\ entry[g] = None
BY PausableAssumption DEF IInv, TypeOK, LockOK

(* While one goroutine is in a method the others are not.                   *)
LEMMA LockTaken ==
    ASSUME IInv, NEW g \in Goroutines, pc[g] # "idle"
    PROVE  /\ mu = g
           /\ \A h \in Goroutines \ {g} : pc[h] = "idle" /\ left[h] = {} /\ entry[h] = None
BY DEF IInv, TypeOK, LockOK

(* Nothing is known of an entry before AfterFunc has made it.               *)
LEMMA NotCreated ==
    ASSUME IInv, NEW e \in Entries, ~Created(e)
    PROVE  /\ baseTimer[e] = None
           /\ e \notin handles /\ e \notin tracked /\ ~Held(e)
           /\ TRUE \notin answers[e]
           /\ \A t \in BaseTimers : t[1] = e => status[t] = "unused"
<1>1. e \notin handles /\ ~\E g \in Goroutines : pc[g] # "idle" /\ entry[g] = e
  BY DEF Created
<1>2. e \notin tracked /\ ~Held(e) /\ TRUE \notin answers[e]
  BY <1>1 DEF IInv, TimersOK, EntryOK, Held
<1>3. \A t \in BaseTimers : t[1] = e => status[t] = "unused"
  BY <1>1, <1>2 DEF IInv, TimersOK, TimerOK
<1>4. baseTimer[e] = None
  <2>1. baseTimer[e] # None => baseTimer[e] \in BaseTimers /\ baseTimer[e][1] = e
    BY DEF IInv, TypeOK
  <2>2. baseTimer[e] # None => status[baseTimer[e]] # "unused"
    BY DEF IInv, TimersOK, EntryOK
  <2> QED
    BY <1>3, <2>1, <2>2
<1> QED
  BY <1>1, <1>2, <1>3, <1>4

(* Every step keeps the lock exclusive.                                     *)
LEMMA LockStep == IInv /\ [LooseNext]_vars => LockOK'
<1> SUFFICES ASSUME IInv, [LooseNext]_vars PROVE LockOK'
  OBVIOUS
<1> USE PausableAssumption
<1>0. LockOK /\ TypeOK
  BY DEF IInv
<1>1. CASE UNCHANGED <<paused, tracked, baseTimer, threads, handles>>
  BY <1>0, <1>1 DEF LockOK, threads
<1>2. CASE UNCHANGED vars
  BY <1>1, <1>2 DEF vars, entries, threads, history
<1>3. CASE TimePasses
  BY <1>1, <1>3 DEF TimePasses, entries, threads
<1>4. ASSUME NEW t \in BaseTimers, Taken(t) \/ CallbackEnds(t)
      PROVE  LockOK'
  BY <1>1, <1>4 DEF Taken, CallbackEnds, entries, threads, history
<1>5. ASSUME NEW g \in Goroutines, NEW e \in Entries, StopNotFound(g, e)
      PROVE  LockOK'
  BY <1>1, <1>5 DEF StopNotFound, entries, threads
<1>6. ASSUME NEW x, mu = None, tracked' = tracked \ {x},
             UNCHANGED <<paused, entries, threads, handles>>
      PROVE  LockOK'
  BY <1>0, <1>6, LockFree DEF LockOK, entries, threads
<1>7. ASSUME NEW t \in BaseTimers, Callback(t)
      PROVE  LockOK'
  BY <1>6, <1>7 DEF Callback, history
<1>8. ASSUME NEW g \in Goroutines, NEW e \in Entries, StopFound(g, e)
      PROVE  LockOK'
  BY <1>6, <1>8 DEF StopFound
<1>9. ASSUME NEW g \in Goroutines, NEW e \in Entries, NEW d \in Delays, AfterFunc(g, e, d)
      PROVE  LockOK'
  <2>1. /\ mu = None /\ mu' = g
        /\ pc' = [pc EXCEPT ![g] = IF paused THEN "track" ELSE "dispatch"]
        /\ entry' = [entry EXCEPT ![g] = e]
        /\ UNCHANGED <<paused, tracked, baseTimer, left, handles>>
    BY <1>9 DEF AfterFunc, Acquire, history
  <2>2. e \notin handles /\ baseTimer[e] = None
    BY <1>9, NotCreated DEF AfterFunc
  <2> QED
    BY <1>0, <2>1, <2>2, LockFree DEF LockOK, TypeOK
<1>10. ASSUME NEW g \in Goroutines, Pause(g) \/ Resume(g)
       PROVE  LockOK'
  <2>1. /\ mu = None /\ mu' = g
        /\ \/ pc' = [pc EXCEPT ![g] = "pause"] /\ paused' = TRUE
           \/ pc' = [pc EXCEPT ![g] = "resume"] /\ paused' = FALSE
        /\ left' = [left EXCEPT ![g] = tracked]
        /\ UNCHANGED <<entry, tracked, baseTimer, handles>>
    BY <1>10 DEF Pause, Resume, Acquire, entries, history
  <2> QED
    BY <1>0, <2>1, LockFree DEF LockOK, TypeOK
<1>11. ASSUME NEW g \in Goroutines, AfterFuncDispatches(g)
       PROVE  LockOK'
  <2>1. PICK t \in BaseTimers : baseTimer' = [baseTimer EXCEPT ![entry[g]] = t]
    BY <1>11 DEF AfterFuncDispatches, Dispatch
  <2>2. /\ pc[g] = "dispatch"
        /\ pc' = [pc EXCEPT ![g] = "track"]
        /\ UNCHANGED <<paused, tracked, mu, entry, left, handles>>
    BY <1>11 DEF AfterFuncDispatches, history
  <2>3. entry[g] \in Entries /\ ~paused
    BY <1>0, <2>2 DEF LockOK, TypeOK
  <2> QED
    BY <1>0, <2>1, <2>2, <2>3, LockTaken DEF LockOK, TypeOK
<1>12. ASSUME NEW g \in Goroutines, AfterFuncTracks(g)
       PROVE  LockOK'
  <2>1. /\ pc[g] = "track" /\ mu' = None
        /\ pc' = [pc EXCEPT ![g] = "idle"]
        /\ entry' = [entry EXCEPT ![g] = None]
        /\ tracked' = tracked \cup {entry[g]}
        /\ handles' = handles \cup {entry[g]}
        /\ UNCHANGED <<paused, left, baseTimer>>
    BY <1>12 DEF AfterFuncTracks, Release, entries
  <2>2. entry[g] \in Entries /\ None \notin handles
    BY <1>0, <2>1 DEF LockOK, TypeOK
  <2> QED
    BY <1>0, <2>1, <2>2, LockTaken DEF LockOK, TypeOK
<1>13. ASSUME NEW g \in Goroutines, NEW e \in Entries, PauseEntry(g, e)
       PROVE  LockOK'
  <2>1. /\ pc[g] = "pause"
        /\ tracked' = tracked \/ tracked' = tracked \ {e}
        /\ left' = [left EXCEPT ![g] = @ \ {e}]
        /\ UNCHANGED <<paused, mu, pc, entry, handles>>
    BY <1>13 DEF PauseEntry, history
  <2>2. \A h \in Goroutines : pc[h] # "track"
    BY <2>1, LockTaken
  <2> QED
    BY <1>0, <2>1, <2>2, LockTaken DEF LockOK, TypeOK
<1>14. ASSUME NEW g \in Goroutines, NEW e \in Entries, ResumeEntry(g, e)
       PROVE  LockOK'
  <2>1. /\ pc[g] = "resume"
        /\ left' = [left EXCEPT ![g] = @ \ {e}]
        /\ UNCHANGED <<paused, tracked, mu, pc, entry, handles>>
    BY <1>14 DEF ResumeEntry, history
  <2>2. \A h \in Goroutines : pc[h] # "track"
    BY <2>1, LockTaken
  <2> QED
    BY <1>0, <2>1, <2>2, LockTaken DEF LockOK, TypeOK
<1>15. ASSUME NEW g \in Goroutines, LoopEnds(g)
       PROVE  LockOK'
  <2>1. /\ pc[g] \in {"pause", "resume"} /\ left[g] = {} /\ mu' = None
        /\ pc' = [pc EXCEPT ![g] = "idle"]
        /\ UNCHANGED <<paused, tracked, baseTimer, entry, left, handles>>
    BY <1>15 DEF LoopEnds, Release, entries, history
  <2> QED
    BY <1>0, <2>1, LockTaken DEF LockOK, TypeOK
<1> QED
  BY <1>2, <1>3, <1>4, <1>5, <1>7, <1>8, <1>9, <1>10, <1>11, <1>12, <1>13, <1>14, <1>15
     DEF LooseNext, Continue

-----------------------------------------------------------------------------
(* The timers of the base                                                  *)

(* What the invariant says of one timer and of one entry.                   *)
LEMMA TimerFacts ==
    ASSUME IInv
    PROVE  /\ \A t \in BaseTimers : t[1] \in Entries /\ TimerOK(t)
           /\ \A e \in Entries :
                EntryOK(e) /\ (baseTimer[e] # None => baseTimer[e] \in BaseTimers /\ baseTimer[e][1] = e)
           /\ OneRuns
           /\ None \notin BaseTimers /\ None \notin Entries
<1>1. \A t \in BaseTimers : t[1] \in Entries
  BY DEF BaseTimers
<1>2. \A e \in Entries : baseTimer[e] # None => baseTimer[e] \in BaseTimers /\ baseTimer[e][1] = e
  BY DEF IInv, TypeOK
<1> QED
  BY <1>1, <1>2, PausableAssumption DEF IInv, TimersOK

(* A step that changes nothing the timers depend on keeps what is known of  *)
(* them.                                                                    *)
LEMMA TimersFrame ==
    ASSUME IInv, UNCHANGED <<status, baseTimer, tracked, handles, answers, entered>>,
           \A e \in Entries : Held(e)' <=> Held(e)
    PROVE  TimersOK'
<1>1. ASSUME NEW t \in BaseTimers PROVE TimerOK(t)'
  BY <1>1, TimerFacts DEF TimerOK, Live, Over
<1>2. ASSUME NEW e \in Entries PROVE EntryOK(e)'
  BY <1>2, TimerFacts DEF EntryOK, Live, Over
<1>3. OneRuns'
  BY TimerFacts DEF OneRuns, B!Running
<1> QED
  BY <1>1, <1>2, <1>3 DEF TimersOK

(* The steps of the base itself: it takes a function, the callback of which *)
(* gets the lock and later ends.                                            *)
LEMMA TimersBaseSteps ==
    ASSUME IInv, NEW t \in BaseTimers, Taken(t) \/ Callback(t) \/ CallbackEnds(t)
    PROVE  TimersOK'
<1>1. status \in [BaseTimers -> B!Statuses] /\ entered \in SUBSET BaseTimers
  BY DEF IInv, TypeOK
<1>2. CASE Taken(t)
  <2>1. /\ status[t] = "pending"
        /\ \A u \in BaseTimers : status[u] # "running"
        /\ status' = [status EXCEPT ![t] = "running"]
        /\ UNCHANGED <<baseTimer, tracked, handles, answers, entered, pc, entry>>
    BY <1>2 DEF Taken, B!Start, B!Running, entries, threads
  <2>2. \A e \in Entries : Held(e)' <=> Held(e)
    BY <2>1 DEF Held
  <2>3. \A u \in BaseTimers : status'[u] = IF u = t THEN "running" ELSE status[u]
    BY <1>1, <2>1
  <2>4. ASSUME NEW u \in BaseTimers PROVE TimerOK(u)'
    BY <2>1, <2>2, <2>3, TimerFacts DEF TimerOK, Live, Over
  <2>5. ASSUME NEW e \in Entries PROVE EntryOK(e)'
    <3>1. EntryOK(e) /\ (baseTimer[e] # None => baseTimer[e] \in BaseTimers)
      BY TimerFacts
    <3>2. baseTimer[e] # None =>
            /\ status'[baseTimer[e]] # "unused"
            /\ Live(baseTimer[e])' <=> Live(baseTimer[e])
            /\ Over(baseTimer[e]) => Over(baseTimer[e])'
      BY <2>1, <2>3, <3>1 DEF EntryOK, Live, Over
    <3> QED
      BY <2>1, <2>2, <3>1, <3>2 DEF EntryOK
  <2>6. OneRuns'
    BY <2>1, <2>3 DEF OneRuns, B!Running
  <2> QED
    BY <2>4, <2>5, <2>6 DEF TimersOK
<1>3. CASE Callback(t)
  <2>1. /\ status[t] = "running" /\ mu = None
        /\ tracked' = tracked \ {t[1]}
        /\ entered' = entered \cup {t}
        /\ UNCHANGED <<status, baseTimer, handles, answers, pc, entry>>
    BY <1>3 DEF Callback, B!Running, entries, threads, history
  <2>2. /\ \A e \in Entries : Held(e) <=> e \in tracked
        /\ \A e \in Entries : Held(e)' <=> e \in tracked'
    BY <2>1, LockFree DEF Held
  <2>3. baseTimer[t[1]] = t /\ t[1] \in handles
    BY <2>1, <2>2, TimerFacts DEF TimerOK, EntryOK, Live
  <2>4. ASSUME NEW u \in BaseTimers PROVE TimerOK(u)'
    BY <2>1, <2>2, <2>3, TimerFacts DEF TimerOK, EntryOK, Live, Over
  <2>5. ASSUME NEW e \in Entries PROVE EntryOK(e)'
    <3>1. EntryOK(e) /\ None \notin BaseTimers
      BY TimerFacts
    <3> QED
      BY <2>1, <2>2, <2>3, <3>1 DEF EntryOK, Live, Over
  <2>6. OneRuns'
    BY <2>1, TimerFacts DEF OneRuns, B!Running
  <2> QED
    BY <2>4, <2>5, <2>6 DEF TimersOK
<1>4. CASE CallbackEnds(t)
  <2>1. /\ status[t] = "running"
        /\ status' = [status EXCEPT ![t] = "done"]
        /\ UNCHANGED <<baseTimer, tracked, handles, answers, entered, pc, entry>>
    BY <1>4 DEF CallbackEnds, B!Return, B!Panic, B!Running, entries, threads, history
  <2>2. \A e \in Entries : Held(e)' <=> Held(e)
    BY <2>1 DEF Held
  <2>3. \A u \in BaseTimers : status'[u] = IF u = t THEN "done" ELSE status[u]
    BY <1>1, <2>1
  <2>4. ASSUME NEW u \in BaseTimers PROVE TimerOK(u)'
    BY <2>1, <2>2, <2>3, TimerFacts DEF TimerOK, Live, Over
  <2>5. ASSUME NEW e \in Entries PROVE EntryOK(e)'
    <3>1. EntryOK(e) /\ (baseTimer[e] # None => baseTimer[e] \in BaseTimers)
      BY TimerFacts
    <3>2. baseTimer[e] # None =>
            /\ status'[baseTimer[e]] # "unused"
            /\ Live(baseTimer[e])' <=> Live(baseTimer[e])
            /\ Over(baseTimer[e]) => Over(baseTimer[e])'
      BY <2>1, <2>3, <3>1 DEF EntryOK, Live, Over
    <3> QED
      BY <2>1, <2>2, <3>1, <3>2 DEF EntryOK
  <2>6. OneRuns'
    BY <2>3, TimerFacts DEF OneRuns, B!Running
  <2> QED
    BY <2>4, <2>5, <2>6 DEF TimersOK
<1> QED
  BY <1>2, <1>3, <1>4

(* The steps that give the base a timer t for an entry that has none.       *)
LEMMA TimersDispatch ==
    ASSUME IInv, NEW e \in Entries, NEW t \in BaseTimers, Dispatch(e, t),
           baseTimer[e] = None, TRUE \notin answers[e],
           UNCHANGED <<tracked, handles, answers>>,
           \A x \in Entries : Held(x)' <=> Held(x) \/ x = e
    PROVE  TimersOK'
<1>1. /\ status \in [BaseTimers -> B!Statuses]
      /\ baseTimer \in [Entries -> BaseTimers \cup {None}]
  BY DEF IInv, TypeOK
<1>2. /\ t[1] = e /\ status[t] = "unused"
      /\ \A u \in BaseTimers : status'[u] = IF u = t THEN "pending" ELSE status[u]
      /\ \A x \in Entries : baseTimer'[x] = IF x = e THEN t ELSE baseTimer[x]
      /\ entered' = entered
  BY <1>1 DEF Dispatch, B!AfterFunc
<1>3. ASSUME NEW u \in BaseTimers PROVE TimerOK(u)'
  <2>1. TimerOK(u) /\ u[1] \in Entries /\ u # None
    BY TimerFacts
  <2>2. CASE u = t
    BY <1>2, <2>1, <2>2 DEF TimerOK, Live, Over
  <2>3. CASE u # t
    <3>1. Live(u) => u[1] # e
      BY <2>1 DEF TimerOK
    <3> QED
      BY <1>2, <2>1, <2>3, <3>1 DEF TimerOK, Live, Over
  <2> QED
    BY <2>2, <2>3
<1>4. ASSUME NEW x \in Entries PROVE EntryOK(x)'
  <2>1. EntryOK(x) /\ (baseTimer[x] # None => baseTimer[x] \in BaseTimers) /\ t # None
    BY TimerFacts
  <2>2. CASE x = e
    BY <1>2, <2>1, <2>2 DEF EntryOK, Live, Over
  <2>3. CASE x # e
    <3>1. baseTimer[x] # None =>
            /\ status[baseTimer[x]] # "unused"
            /\ status'[baseTimer[x]] = status[baseTimer[x]]
      BY <1>2, <2>1 DEF EntryOK
    <3> QED
      BY <1>2, <2>1, <2>3, <3>1 DEF EntryOK, Live, Over
  <2> QED
    BY <2>2, <2>3
<1>5. OneRuns'
  BY <1>2, TimerFacts DEF OneRuns, B!Running
<1> QED
  BY <1>3, <1>4, <1>5 DEF TimersOK

(* AfterFunc and its rest.                                                  *)
LEMMA TimersAfterFunc ==
    ASSUME IInv, NEW g \in Goroutines,
           \/ \E e \in Entries, d \in Delays : AfterFunc(g, e, d)
           \/ AfterFuncDispatches(g)
           \/ AfterFuncTracks(g)
    PROVE  TimersOK'
<1>1. /\ pc \in [Goroutines -> {"idle", "dispatch", "track", "pause", "resume"}]
      /\ entry \in [Goroutines -> Entries \cup {None}]
  BY DEF IInv, TypeOK
<1>2. ASSUME NEW e \in Entries, NEW d \in Delays, AfterFunc(g, e, d)
      PROVE  TimersOK'
  <2>1. /\ UNCHANGED <<status, baseTimer, tracked, handles, answers, entered>>
        /\ mu = None
        /\ pc' = [pc EXCEPT ![g] = IF paused THEN "track" ELSE "dispatch"]
        /\ entry' = [entry EXCEPT ![g] = e]
    BY <1>2 DEF AfterFunc, Acquire, base
  <2>2. \A x \in Entries : Held(x)' <=> Held(x) \/ (x = e /\ paused)
    BY <1>1, <2>1, LockFree DEF Held
  <2>3. baseTimer[e] = None /\ e \notin handles /\ TRUE \notin answers[e]
    BY <1>2, NotCreated DEF AfterFunc
  <2>4. ASSUME NEW u \in BaseTimers PROVE TimerOK(u)'
    BY <2>1, <2>2, TimerFacts DEF TimerOK, Live, Over
  <2>5. ASSUME NEW x \in Entries PROVE EntryOK(x)'
    <3>1. EntryOK(x)
      BY TimerFacts
    <3> QED
      BY <2>1, <2>2, <2>3, <3>1 DEF EntryOK, Live, Over
  <2>6. OneRuns'
    BY <2>1, TimerFacts DEF OneRuns, B!Running
  <2> QED
    BY <2>4, <2>5, <2>6 DEF TimersOK
<1>3. CASE AfterFuncDispatches(g)
  <2> DEFINE e == entry[g]
  <2>1. PICK t \in BaseTimers : Dispatch(e, t)
    BY <1>3 DEF AfterFuncDispatches
  <2>2. /\ pc[g] = "dispatch"
        /\ pc' = [pc EXCEPT ![g] = "track"]
        /\ UNCHANGED <<tracked, handles, answers, entry>>
    BY <1>3 DEF AfterFuncDispatches, history
  <2>3. e \in Entries /\ e \notin handles
    BY <1>1, <2>2 DEF IInv, LockOK
  <2>4. \A h \in Goroutines : pc[h] # "track"
    BY <2>2, LockTaken
  <2>5. \A x \in Entries : Held(x)' <=> Held(x) \/ x = e
    BY <1>1, <2>2, <2>4 DEF Held
  <2>6. ~Held(e) /\ TRUE \notin answers[e]
    BY <2>3, <2>4, TimerFacts DEF Held, EntryOK
  <2>7. baseTimer[e] = None
    <3>1. EntryOK(e) /\ (baseTimer[e] # None => baseTimer[e] \in BaseTimers /\ baseTimer[e][1] = e)
      BY <2>3, TimerFacts
    <3>2. \A u \in BaseTimers : u[1] = e => status[u] = "unused"
      BY <2>3, <2>6, TimerFacts DEF TimerOK
    <3> QED
      BY <3>1, <3>2 DEF EntryOK
  <2> HIDE DEF e
  <2> QED
    BY <2>1, <2>2, <2>3, <2>5, <2>6, <2>7, TimersDispatch
<1>4. CASE AfterFuncTracks(g)
  <2> DEFINE e == entry[g]
  <2>1. /\ pc[g] = "track"
        /\ tracked' = tracked \cup {e} /\ handles' = handles \cup {e}
        /\ entry' = [entry EXCEPT ![g] = None]
        /\ pc' = [pc EXCEPT ![g] = "idle"]
        /\ UNCHANGED <<status, baseTimer, answers, entered>>
    BY <1>4 DEF AfterFuncTracks, Release, entries, base
  <2>2. e \in Entries /\ e \notin handles
    BY <1>1, <2>1 DEF IInv, LockOK
  <2>3. \A h \in Goroutines \ {g} : pc[h] # "track"
    BY <2>1, LockTaken
  <2>4. \A x \in Entries : Held(x)' <=> Held(x)
    BY <1>1, <2>1, <2>3 DEF Held
  <2>5. TRUE \notin answers[e] /\ Held(e)
    BY <2>1, <2>2, TimerFacts DEF Held, EntryOK
  <2> HIDE DEF e
  <2>6. ASSUME NEW u \in BaseTimers PROVE TimerOK(u)'
    BY <2>1, <2>2, <2>4, TimerFacts DEF TimerOK, Live, Over
  <2>7. ASSUME NEW x \in Entries PROVE EntryOK(x)'
    <3>1. EntryOK(x)
      BY TimerFacts
    <3> QED
      BY <2>1, <2>4, <2>5, <3>1 DEF EntryOK, Live, Over
  <2>8. OneRuns'
    BY <2>1, TimerFacts DEF OneRuns, B!Running
  <2> QED
    BY <2>6, <2>7, <2>8 DEF TimersOK
<1> QED
  BY <1>2, <1>3, <1>4

(* A step that ends the wait of e: its timer was pending and is stopped, or *)
(* had been taken before, or there was none; e is tracked no more unless    *)
(* its timer is forgotten with the stop.                                    *)
LEMMA TimersStop ==
    ASSUME IInv, NEW e \in Entries, \A g \in Goroutines : pc[g] # "track",
           e \in tracked,
           UNCHANGED <<pc, entry, handles, entered>>,
           \A x \in Entries \ {e} :
              /\ baseTimer'[x] = baseTimer[x]
              /\ TRUE \in answers'[x] <=> TRUE \in answers[x],
           \A u \in BaseTimers :
              status'[u] = IF u = baseTimer[e] /\ status[u] = "pending" THEN "stopped" ELSE status[u],
           \/ /\ tracked' = tracked /\ baseTimer'[e] = None
              /\ baseTimer[e] # None => status[baseTimer[e]] = "pending"
              /\ TRUE \notin answers'[e]
           \/ /\ tracked' = tracked \ {e} /\ baseTimer'[e] = baseTimer[e]
              /\ TRUE \in answers'[e] <=> baseTimer[e] = None \/ status[baseTimer[e]] = "pending"
    PROVE  TimersOK'
<1>1. /\ \A x \in Entries : Held(x) <=> x \in tracked
      /\ \A x \in Entries : Held(x)' <=> x \in tracked'
  BY DEF Held
<1>2. /\ EntryOK(e) /\ Held(e) /\ TRUE \notin answers[e]
      /\ baseTimer[e] # None =>
            baseTimer[e] \in BaseTimers /\ baseTimer[e][1] = e /\ Live(baseTimer[e])
  BY <1>1, TimerFacts DEF EntryOK
<1>3. ASSUME NEW u \in BaseTimers PROVE TimerOK(u)'
  <2>1. TimerOK(u) /\ u[1] \in Entries /\ u # None
    BY TimerFacts
  <2>2. CASE u[1] = e
    <3>1. status[u] = "pending" => u = baseTimer[e]
      BY <2>1, <2>2 DEF TimerOK, Live
    <3>2. status'[u] # "pending"
      BY <3>1
    <3>3. u \notin entered
      BY <2>1, <2>2 DEF TimerOK
    <3>4. Live(u)' => status'[u] = status[u] /\ status[u] # "pending"
      BY <3>1 DEF Live
    <3>5. Live(u)' => baseTimer'[u[1]] = u
      BY <1>2, <2>1, <2>2, <3>4 DEF TimerOK, Live
    <3>6. e \in handles
      BY <1>2 DEF EntryOK
    <3> QED
      BY <2>2, <3>2, <3>3, <3>5, <3>6 DEF TimerOK
  <2>3. CASE u[1] # e
    <3>1. u # baseTimer[e]
      BY <1>2, <2>1, <2>3
    <3>2. status'[u] = status[u] /\ baseTimer'[u[1]] = baseTimer[u[1]]
      BY <2>1, <2>3, <3>1
    <3>3. Held(u[1])' <=> Held(u[1])
      BY <1>1, <2>1, <2>3
    <3>4. u[1] \in tracked' <=> u[1] \in tracked
      BY <2>3
    <3> QED
      BY <2>1, <3>2, <3>3, <3>4 DEF TimerOK, Live, Over
  <2> QED
    BY <2>2, <2>3
<1>4. ASSUME NEW x \in Entries PROVE EntryOK(x)'
  <2>1. EntryOK(x) /\ (baseTimer[x] # None => baseTimer[x] \in BaseTimers /\ baseTimer[x][1] = x)
    BY TimerFacts
  <2>2. CASE x = e /\ tracked' = tracked
    BY <1>1, <1>2, <2>1, <2>2 DEF EntryOK
  <2>3. CASE x = e /\ tracked' # tracked
    <3>1. /\ tracked' = tracked \ {e} /\ baseTimer'[e] = baseTimer[e]
          /\ TRUE \in answers'[e] <=> baseTimer[e] = None \/ status[baseTimer[e]] = "pending"
      BY <2>3
    <3>2. baseTimer[e] # None =>
            \/ status[baseTimer[e]] = "pending" /\ status'[baseTimer[e]] = "stopped"
            \/ Over(baseTimer[e]) /\ Over(baseTimer[e])'
      BY <1>2 DEF Live, Over
    <3> QED
      BY <1>1, <1>2, <2>1, <2>3, <3>1, <3>2 DEF EntryOK, Live, Over
  <2>4. CASE x # e
    <3>1. /\ baseTimer'[x] = baseTimer[x]
          /\ TRUE \in answers'[x] <=> TRUE \in answers[x]
          /\ x \in tracked' <=> x \in tracked
          /\ Held(x)' <=> Held(x)
      BY <1>1, <2>4
    <3>2. baseTimer[x] # None => baseTimer[x] # baseTimer[e]
      BY <1>2, <2>1, <2>4
    <3>3. baseTimer[x] # None => status'[baseTimer[x]] = status[baseTimer[x]]
      BY <2>1, <3>2
    <3> QED
      BY <2>1, <3>1, <3>3 DEF EntryOK, Live, Over
  <2> QED
    BY <2>2, <2>3, <2>4
<1>5. OneRuns'
  BY TimerFacts DEF OneRuns, B!Running
<1> QED
  BY <1>3, <1>4, <1>5 DEF TimersOK

(* Stop, whether or not it finds the entry.                                 *)
LEMMA TimersStopSteps ==
    ASSUME IInv, NEW g \in Goroutines, NEW e \in Entries,
           StopFound(g, e) \/ StopNotFound(g, e)
    PROVE  TimersOK'
<1>1. /\ status \in [BaseTimers -> B!Statuses]
      /\ answers \in [Entries -> SUBSET BOOLEAN]
      /\ TypeOK
  BY DEF IInv, TypeOK
<1>2. CASE StopFound(g, e)
  <2>1. /\ mu = None /\ e \in tracked
        /\ tracked' = tracked \ {e}
        /\ UNCHANGED <<pc, entry, handles, baseTimer>>
    BY <1>2 DEF StopFound, entries, threads
  <2>2. \A h \in Goroutines : pc[h] # "track"
    BY <2>1, LockFree
  <2>3. TRUE \notin answers[e]
    BY <2>1, TimerFacts DEF EntryOK
  <2>4. /\ \A u \in BaseTimers :
              status'[u] = IF u = baseTimer[e] /\ status[u] = "pending" THEN "stopped" ELSE status[u]
        /\ \E b \in BOOLEAN :
              /\ answers' = [answers EXCEPT ![e] = @ \cup {b}]
              /\ b = TRUE <=> baseTimer[e] = None \/ status[baseTimer[e]] = "pending"
        /\ entered' = entered
    <3>1. None \notin BaseTimers
      BY TimerFacts
    <3>2. CASE baseTimer[e] = None
      BY <1>1, <1>2, <3>1, <3>2, StopFoundFacts DEF base
    <3>3. CASE baseTimer[e] # None /\ status[baseTimer[e]] = "pending"
      BY <1>1, <1>2, <3>1, <3>3, StopFoundFacts
    <3>4. CASE baseTimer[e] # None /\ status[baseTimer[e]] # "pending"
      <4>1. UNCHANGED <<status, entered>> /\ answers' = [answers EXCEPT ![e] = @ \cup {FALSE}]
        BY <1>1, <1>2, <3>4, StopFoundFacts
      <4> QED
        BY <3>4, <4>1
    <3> QED
      BY <3>2, <3>3, <3>4
  <2>5. /\ TRUE \in answers'[e] <=> baseTimer[e] = None \/ status[baseTimer[e]] = "pending"
        /\ \A x \in Entries \ {e} : TRUE \in answers'[x] <=> TRUE \in answers[x]
    BY <1>1, <2>3, <2>4
  <2> QED
    BY <2>1, <2>2, <2>4, <2>5, TimersStop
<1>3. CASE StopNotFound(g, e)
  <2>1. /\ answers' = [answers EXCEPT ![e] = @ \cup {FALSE}]
        /\ UNCHANGED <<status, baseTimer, tracked, handles, entered, pc, entry>>
    BY <1>3 DEF StopNotFound, StopAnswers, entries, threads, base
  <2>2. \A x \in Entries : TRUE \in answers'[x] <=> TRUE \in answers[x]
    BY <1>1, <2>1
  <2>3. \A x \in Entries : Held(x)' <=> Held(x)
    BY <2>1 DEF Held
  <2>4. ASSUME NEW u \in BaseTimers PROVE TimerOK(u)'
    BY <2>1, <2>3, TimerFacts DEF TimerOK, Live, Over
  <2>5. ASSUME NEW x \in Entries PROVE EntryOK(x)'
    BY <2>1, <2>2, <2>3, TimerFacts DEF EntryOK, Live, Over
  <2>6. OneRuns'
    BY <2>1, TimerFacts DEF OneRuns, B!Running
  <2> QED
    BY <2>4, <2>5, <2>6 DEF TimersOK
<1> QED
  BY <1>2, <1>3

(* The loops of Pause and Resume.                                           *)
LEMMA TimersLoopSteps ==
    ASSUME IInv, NEW g \in Goroutines, NEW e \in Entries,
           PauseEntry(g, e) \/ ResumeEntry(g, e)
    PROVE  TimersOK'
<1>1. /\ status \in [BaseTimers -> B!Statuses]
      /\ baseTimer \in [Entries -> BaseTimers \cup {None}]
      /\ pc[g] # "idle" /\ e \in left[g] /\ e \in tracked
      /\ UNCHANGED <<pc, entry, handles, answers>>
  BY DEF PauseEntry, ResumeEntry, history, IInv, TypeOK, LockOK
<1>2. \A h \in Goroutines : pc[h] # "track"
  BY <1>1, LockTaken DEF PauseEntry, ResumeEntry
<1>3. TRUE \notin answers[e]
  BY <1>1, TimerFacts DEF EntryOK
<1>4. CASE PauseEntry(g, e)
  <2>1. baseTimer[e] \in BaseTimers
    <3>1. pc[g] = "pause" /\ paused
      BY <1>4 DEF PauseEntry, IInv, LockOK
    <3>2. ~Suspended(e)
      BY <1>1, <3>1, LockTaken DEF Suspended
    <3> QED
      BY <1>1, <3>2 DEF IInv, BaseTimerMatchesPause
  <2>2. /\ status' = [status EXCEPT ![baseTimer[e]] = IF @ = "pending" THEN "stopped" ELSE @]
        /\ entered' = entered
    BY <1>4 DEF PauseEntry, BaseStop
  <2>3. CASE status[baseTimer[e]] = "pending"
    <3>1. tracked' = tracked /\ baseTimer' = [baseTimer EXCEPT ![e] = None]
      BY <1>4, <2>3 DEF PauseEntry
    <3> QED
      BY <1>1, <1>2, <1>3, <2>1, <2>2, <2>3, <3>1, TimersStop
  <2>4. CASE status[baseTimer[e]] # "pending"
    <3>1. tracked' = tracked \ {e} /\ baseTimer' = baseTimer
      BY <1>4, <2>4 DEF PauseEntry, entries
    <3>2. baseTimer[e] # None
      BY <2>1, TimerFacts
    <3> QED
      BY <1>1, <1>2, <1>3, <2>1, <2>2, <2>4, <3>1, <3>2, TimersStop
  <2> QED
    BY <2>3, <2>4
<1>5. CASE ResumeEntry(g, e)
  <2>1. pc[g] = "resume"
    BY <1>5 DEF ResumeEntry
  <2>2. baseTimer[e] = None
    BY <1>1, <2>1 DEF IInv, BaseTimerMatchesPause, Suspended
  <2>3. PICK t \in BaseTimers : Dispatch(e, t)
    BY <1>5 DEF ResumeEntry
  <2>4. tracked' = tracked
    BY <1>5 DEF ResumeEntry
  <2>5. \A x \in Entries : Held(x)' <=> Held(x) \/ x = e
    BY <1>1, <1>2, <2>4 DEF Held
  <2> QED
    BY <1>1, <1>3, <2>2, <2>3, <2>4, <2>5, TimersDispatch
<1> QED
  BY <1>4, <1>5

(* Every step keeps what is known of the timers of the base.                *)
LEMMA TimersStep == IInv /\ [LooseNext]_vars => TimersOK'
<1> SUFFICES ASSUME IInv, [LooseNext]_vars PROVE TimersOK'
  OBVIOUS
<1>1. ASSUME UNCHANGED <<status, baseTimer, tracked, handles, answers, entered>>,
             \A g \in Goroutines : pc'[g] = "track" <=> pc[g] = "track",
             entry' = entry
      PROVE  TimersOK'
  BY <1>1, TimersFrame DEF Held
<1>2. CASE UNCHANGED vars
  BY <1>1, <1>2 DEF vars, entries, threads, base, history
<1>3. CASE TimePasses
  BY <1>1, <1>3 DEF TimePasses, entries, threads, base
<1>4. ASSUME NEW g \in Goroutines, Pause(g) \/ Resume(g) \/ LoopEnds(g)
      PROVE  TimersOK'
  <2>1. /\ UNCHANGED <<status, baseTimer, tracked, handles, answers, entered>>
        /\ entry' = entry
    BY <1>4 DEF Pause, Resume, LoopEnds, entries, base, history
  <2>2. /\ pc[g] # "track"
        /\ \E p \in {"idle", "pause", "resume"} : pc' = [pc EXCEPT ![g] = p]
    BY <1>4 DEF Pause, Resume, LoopEnds, Acquire, Release, CanCall
  <2>3. \A h \in Goroutines : pc'[h] = "track" <=> pc[h] = "track"
    BY <2>2 DEF IInv, TypeOK
  <2> QED
    BY <1>1, <2>1, <2>3
<1> QED
  BY <1>2, <1>3, <1>4, TimersBaseSteps, TimersAfterFunc, TimersStopSteps, TimersLoopSteps
     DEF LooseNext, Continue

-----------------------------------------------------------------------------
(* Pauses                                                                  *)

(* Every step keeps timers of the base exactly for the entries that are not *)
(* suspended.                                                               *)
LEMMA PauseStep == IInv /\ [LooseNext]_vars => BaseTimerMatchesPause'
<1> SUFFICES ASSUME IInv, [LooseNext]_vars PROVE BaseTimerMatchesPause'
  OBVIOUS
<1>1. /\ BaseTimerMatchesPause
      /\ pc \in [Goroutines -> {"idle", "dispatch", "track", "pause", "resume"}]
      /\ left \in [Goroutines -> SUBSET Entries]
      /\ baseTimer \in [Entries -> BaseTimers \cup {None}]
      /\ tracked \in SUBSET Entries
  BY DEF IInv, TypeOK
<1>2. ASSUME tracked' \subseteq tracked, UNCHANGED <<paused, baseTimer, pc, left>>
      PROVE  BaseTimerMatchesPause'
  BY <1>1, <1>2 DEF BaseTimerMatchesPause, Suspended
<1>3. CASE UNCHANGED vars
  BY <1>2, <1>3 DEF vars, entries, threads
<1>4. CASE TimePasses
  BY <1>2, <1>4 DEF TimePasses, entries, threads
<1>5. ASSUME NEW t \in BaseTimers, Taken(t) \/ Callback(t) \/ CallbackEnds(t)
      PROVE  BaseTimerMatchesPause'
  BY <1>2, <1>5 DEF Taken, Callback, CallbackEnds, entries, threads
<1>6. ASSUME NEW g \in Goroutines, NEW e \in Entries, StopFound(g, e) \/ StopNotFound(g, e)
      PROVE  BaseTimerMatchesPause'
  BY <1>2, <1>6 DEF StopFound, StopNotFound, entries, threads
<1>7. ASSUME NEW g \in Goroutines, NEW e \in Entries, NEW d \in Delays, AfterFunc(g, e, d)
      PROVE  BaseTimerMatchesPause'
  <2>1. /\ mu = None
        /\ \E p \in {"track", "dispatch"} : pc' = [pc EXCEPT ![g] = p]
        /\ UNCHANGED <<paused, tracked, baseTimer, left>>
    BY <1>7 DEF AfterFunc, Acquire
  <2>2. \A h \in Goroutines : pc[h] = "idle" /\ pc'[h] \notin {"pause", "resume"}
    BY <1>1, <2>1, LockFree
  <2> QED
    BY <1>1, <2>1, <2>2 DEF BaseTimerMatchesPause, Suspended
<1>8. ASSUME NEW g \in Goroutines, AfterFuncDispatches(g)
      PROVE  BaseTimerMatchesPause'
  <2>1. /\ pc[g] = "dispatch" /\ pc' = [pc EXCEPT ![g] = "track"]
        /\ UNCHANGED <<paused, tracked, left>>
        /\ \E t \in BaseTimers : baseTimer' = [baseTimer EXCEPT ![entry[g]] = t]
    BY <1>8 DEF AfterFuncDispatches, Dispatch
  <2>2. entry[g] \notin tracked
    BY <2>1, TimerFacts DEF IInv, LockOK, TypeOK, EntryOK
  <2>3. \A h \in Goroutines : pc[h] \notin {"pause", "resume"} /\ pc'[h] \notin {"pause", "resume"}
    BY <1>1, <2>1, LockTaken
  <2>4. \A e \in tracked : baseTimer'[e] = baseTimer[e]
    BY <1>1, <2>1, <2>2
  <2> QED
    BY <1>1, <2>1, <2>3, <2>4 DEF BaseTimerMatchesPause, Suspended
<1>9. ASSUME NEW g \in Goroutines, AfterFuncTracks(g)
      PROVE  BaseTimerMatchesPause'
  <2>1. /\ pc[g] = "track" /\ pc' = [pc EXCEPT ![g] = "idle"]
        /\ tracked' = tracked \cup {entry[g]}
        /\ UNCHANGED <<paused, baseTimer, left>>
    BY <1>9 DEF AfterFuncTracks, Release, entries
  <2>2. paused <=> baseTimer[entry[g]] = None
    BY <2>1 DEF IInv, LockOK
  <2>3. \A h \in Goroutines : pc[h] \notin {"pause", "resume"} /\ pc'[h] \notin {"pause", "resume"}
    BY <1>1, <2>1, LockTaken
  <2> QED
    BY <1>1, <2>1, <2>2, <2>3 DEF BaseTimerMatchesPause, Suspended
<1>10. ASSUME NEW g \in Goroutines, Pause(g)
       PROVE  BaseTimerMatchesPause'
  <2>1. /\ mu = None /\ ~paused /\ paused'
        /\ pc' = [pc EXCEPT ![g] = "pause"]
        /\ left' = [left EXCEPT ![g] = tracked]
        /\ UNCHANGED <<tracked, baseTimer>>
    BY <1>10 DEF Pause, Acquire, entries
  <2>2. \A e \in tracked : baseTimer[e] # None
    BY <1>1, <2>1, LockFree DEF BaseTimerMatchesPause, Suspended
  <2>3. \A h \in Goroutines : pc'[h] # "resume"
    BY <1>1, <2>1, LockFree
  <2>4. pc'[g] = "pause" /\ left'[g] = tracked
    BY <1>1, <2>1
  <2> QED
    BY <2>1, <2>2, <2>3, <2>4 DEF BaseTimerMatchesPause, Suspended
<1>11. ASSUME NEW g \in Goroutines, Resume(g)
       PROVE  BaseTimerMatchesPause'
  <2>1. /\ mu = None /\ paused /\ ~paused'
        /\ pc' = [pc EXCEPT ![g] = "resume"]
        /\ left' = [left EXCEPT ![g] = tracked]
        /\ UNCHANGED <<tracked, baseTimer>>
    BY <1>11 DEF Resume, Acquire, entries
  <2>2. \A e \in tracked : baseTimer[e] = None
    BY <1>1, <2>1, LockFree DEF BaseTimerMatchesPause, Suspended
  <2>3. pc'[g] = "resume" /\ left'[g] = tracked
    BY <1>1, <2>1
  <2> QED
    BY <2>1, <2>2, <2>3 DEF BaseTimerMatchesPause, Suspended
<1>12. ASSUME NEW g \in Goroutines, NEW e \in Entries, PauseEntry(g, e)
       PROVE  BaseTimerMatchesPause'
  <2>1. /\ pc[g] = "pause" /\ e \in left[g]
        /\ left' = [left EXCEPT ![g] = @ \ {e}]
        /\ \/ tracked' = tracked /\ baseTimer' = [baseTimer EXCEPT ![e] = None]
           \/ tracked' = tracked \ {e} /\ baseTimer' = baseTimer
        /\ UNCHANGED <<paused, pc>>
    BY <1>12 DEF PauseEntry, entries
  <2>2. paused /\ \A h \in Goroutines \ {g} : pc[h] = "idle"
    BY <2>1, LockTaken DEF IInv, LockOK
  <2>3. \A x \in Entries : Suspended(x) <=> x \in tracked /\ x \notin left[g]
    BY <2>1, <2>2 DEF Suspended
  <2>4. \A x \in Entries : Suspended(x)' <=> x \in tracked' /\ (x \notin left[g] \/ x = e)
    BY <1>1, <2>1, <2>2 DEF Suspended
  <2> QED
    BY <1>1, <2>1, <2>3, <2>4 DEF BaseTimerMatchesPause
<1>13. ASSUME NEW g \in Goroutines, NEW e \in Entries, ResumeEntry(g, e)
       PROVE  BaseTimerMatchesPause'
  <2>1. /\ pc[g] = "resume" /\ e \in left[g]
        /\ left' = [left EXCEPT ![g] = @ \ {e}]
        /\ \E t \in BaseTimers : baseTimer' = [baseTimer EXCEPT ![e] = t]
        /\ UNCHANGED <<tracked, paused, pc>>
    BY <1>13 DEF ResumeEntry, Dispatch
  <2>2. ~paused /\ \A h \in Goroutines \ {g} : pc[h] = "idle"
    BY <2>1, LockTaken DEF IInv, LockOK
  <2>3. \A x \in Entries : Suspended(x) <=> x \in tracked /\ x \in left[g]
    BY <2>1, <2>2 DEF Suspended
  <2>4. \A x \in Entries : Suspended(x)' <=> x \in tracked /\ x \in left[g] /\ x # e
    BY <1>1, <2>1, <2>2 DEF Suspended
  <2> QED
    BY <1>1, <2>1, <2>3, <2>4, TimerFacts DEF BaseTimerMatchesPause
<1>14. ASSUME NEW g \in Goroutines, LoopEnds(g)
       PROVE  BaseTimerMatchesPause'
  <2>1. /\ pc[g] \in {"pause", "resume"} /\ left[g] = {}
        /\ pc' = [pc EXCEPT ![g] = "idle"]
        /\ UNCHANGED <<paused, tracked, baseTimer, left>>
    BY <1>14 DEF LoopEnds, Release, entries
  <2>2. \A h \in Goroutines \ {g} : pc[h] = "idle"
    BY <2>1, LockTaken
  <2>3. \A x \in Entries : Suspended(x)' <=> Suspended(x)
    BY <1>1, <2>1, <2>2 DEF Suspended
  <2> QED
    BY <1>1, <2>1, <2>3 DEF BaseTimerMatchesPause
<1> QED
  BY <1>3, <1>4, <1>5, <1>6, <1>7, <1>8, <1>9, <1>10, <1>11, <1>12, <1>13, <1>14
     DEF LooseNext, Continue

(* An entry has been made exactly if a handle is returned or on its way.    *)
LEMMA CreatedMeaning ==
    ASSUME TypeOK, LockOK, NEW e \in Entries
    PROVE  Created(e) <=> e \in handles \/ \E g \in Goroutines : entry[g] = e
BY PausableAssumption DEF Created, TypeOK, LockOK

(* AfterFunc makes entries, and nothing unmakes them.                       *)
LEMMA CreatedStep ==
    ASSUME IInv, [LooseNext]_vars, NEW e \in Entries
    PROVE  /\ Created(e) => Created(e)'
           /\ Created(e)' => Created(e) \/ \E g \in Goroutines, d \in Delays : AfterFunc(g, e, d)
<1>1. /\ TypeOK /\ LockOK /\ TypeOK' /\ LockOK'
      /\ entry \in [Goroutines -> Entries \cup {None}]
  BY TypeStep, LockStep DEF IInv, TypeOK
<1>2. /\ Created(e) <=> e \in handles \/ \E g \in Goroutines : entry[g] = e
      /\ Created(e)' <=> e \in handles' \/ \E g \in Goroutines : entry'[g] = e
  <2>1. Created(e)' <=> e \in handles' \/ \E g \in Goroutines : entry'[g] = e
    BY <1>1, PausableAssumption DEF Created, TypeOK, LockOK
  <2> QED
    BY <1>1, <2>1, CreatedMeaning
<1>3. CASE UNCHANGED <<handles, entry>>
  BY <1>2, <1>3
<1>4. CASE UNCHANGED vars \/ TimePasses
  BY <1>3, <1>4 DEF TimePasses, vars, threads, history
<1>5. ASSUME NEW t \in BaseTimers, Taken(t) \/ Callback(t) \/ CallbackEnds(t)
      PROVE  UNCHANGED <<handles, entry>>
  BY <1>5 DEF Taken, Callback, CallbackEnds, threads, history
<1>6. ASSUME NEW g \in Goroutines, NEW x \in Entries,
             \/ StopFound(g, x) \/ StopNotFound(g, x)
             \/ PauseEntry(g, x) \/ ResumeEntry(g, x)
      PROVE  UNCHANGED <<handles, entry>>
  BY <1>6 DEF StopFound, StopNotFound, PauseEntry, ResumeEntry, threads, history
<1>7. ASSUME NEW g \in Goroutines, Pause(g) \/ Resume(g) \/ LoopEnds(g) \/ AfterFuncDispatches(g)
      PROVE  UNCHANGED <<handles, entry>>
  BY <1>7 DEF Pause, Resume, LoopEnds, AfterFuncDispatches, history
<1>8. ASSUME NEW g \in Goroutines, NEW x \in Entries, NEW d \in Delays, AfterFunc(g, x, d)
      PROVE  /\ Created(e) => Created(e)'
             /\ Created(e)' => Created(e) \/ x = e
  <2>1. mu = None /\ entry' = [entry EXCEPT ![g] = x] /\ handles' = handles
    BY <1>8 DEF AfterFunc, Acquire
  <2>2. \A h \in Goroutines : entry[h] = None
    BY <2>1, LockFree
  <2> QED
    BY <1>1, <1>2, <2>1, <2>2, PausableAssumption
<1>9. ASSUME NEW g \in Goroutines, AfterFuncTracks(g)
      PROVE  Created(e)' <=> Created(e)
  <2>1. /\ pc[g] = "track"
        /\ entry' = [entry EXCEPT ![g] = None]
        /\ handles' = handles \cup {entry[g]}
    BY <1>9 DEF AfterFuncTracks
  <2> QED
    BY <1>1, <1>2, <2>1, PausableAssumption
<1> QED
  BY <1>3, <1>4, <1>5, <1>6, <1>7, <1>8, <1>9 DEF LooseNext, Continue

(* Every step keeps the base behind the clock and reads of it in the past.  *)
LEMMA ClocksStep == IInv /\ [LooseNext]_vars => ClocksOK'
<1> SUFFICES ASSUME IInv, [LooseNext]_vars PROVE ClocksOK'
  OBVIOUS
<1>1. /\ ClocksOK
      /\ clock \in Nat /\ baseClock \in Nat
      /\ dispatchedAt \in [Entries -> Nat] /\ elapsed \in [Entries -> Nat]
      /\ read \in [Goroutines -> Nat]
  BY PausableAssumption DEF IInv, TypeOK, Times
<1>2. \A e \in Entries : Created(e) => Created(e)'
  BY CreatedStep
<1>3. CASE TimePasses
  <2> DEFINE n == clock' - clock
  <2>0. clock' \in clock..MaxTime /\ baseClock' \in 0..clock'
    BY <1>3 DEF TimePasses
  <2>1. /\ clock' = clock + n /\ n \in Nat /\ baseClock' <= clock'
        /\ \A e \in Entries : elapsed'[e] = IF Waiting(e) /\ ~paused THEN elapsed[e] + n ELSE elapsed[e]
        /\ UNCHANGED <<dispatchedAt, read>>
    <3>1. clock' = clock + n /\ n \in Nat /\ baseClock' <= clock'
      <4>1. clock' \in Nat /\ clock' >= clock /\ baseClock' <= clock'
        BY <1>1, <2>0, PausableAssumption
      <4>2. \A x, y \in Nat : x >= y => x = y + (x - y) /\ x - y \in Nat
        OBVIOUS
      <4> QED
        BY <1>1, <4>1, <4>2
    <3> HIDE DEF n
    <3>2. elapsed' = [e \in Entries |-> IF Waiting(e) /\ ~paused THEN elapsed[e] + n ELSE elapsed[e]]
      BY <1>3 DEF TimePasses, n
    <3> QED
      BY <1>3, <3>1, <3>2 DEF TimePasses, entries, threads
  <2>2. \A e \in Entries : Waiting(e) => Created(e)
    BY DEF Waiting
  <2> HIDE DEF n
  <2> QED
    BY <1>1, <1>2, <2>1, <2>2 DEF ClocksOK
<1>4. ASSUME clock' = clock, baseClock' <= clock,
             \A e \in Entries : dispatchedAt'[e] <= clock /\ elapsed'[e] \in {0, elapsed[e]},
             \A g \in Goroutines : read'[g] <= clock
      PROVE  ClocksOK'
  BY <1>1, <1>2, <1>4 DEF ClocksOK
<1>5. CASE UNCHANGED vars
  BY <1>1, <1>4, <1>5 DEF ClocksOK, vars, entries, threads, history
<1>6. ASSUME NEW t \in BaseTimers, Taken(t) \/ Callback(t) \/ CallbackEnds(t)
      PROVE  ClocksOK'
  <2>1. /\ UNCHANGED <<clock, dispatchedAt, read>>
        /\ elapsed' = elapsed \/ elapsed' = [elapsed EXCEPT ![t[1]] = 0]
        /\ baseClock' <= clock
    BY <1>1, <1>6 DEF Taken, Callback, CallbackEnds, Forget, NoTime, entries,
       threads, history, ClocksOK
  <2> QED
    BY <1>1, <1>4, <2>1 DEF ClocksOK
<1>7. ASSUME NEW g \in Goroutines, NEW e \in Entries, StopFound(g, e) \/ StopNotFound(g, e)
      PROVE  ClocksOK'
  <2>1. /\ UNCHANGED <<clock, baseClock, dispatchedAt, read>>
        /\ elapsed' = elapsed \/ elapsed' = [elapsed EXCEPT ![e] = 0]
    BY <1>7 DEF StopFound, StopNotFound, Forget, NoTime, entries, threads
  <2> QED
    BY <1>1, <1>4, <2>1 DEF ClocksOK
<1>8. ASSUME NEW g \in Goroutines,
             \/ \E e \in Entries, d \in Delays : AfterFunc(g, e, d)
             \/ AfterFuncDispatches(g) \/ AfterFuncTracks(g)
      PROVE  ClocksOK'
  <2>1. /\ UNCHANGED <<clock, baseClock, elapsed, read>>
        /\ \/ dispatchedAt' = dispatchedAt
           \/ \E e \in Entries : dispatchedAt' = [dispatchedAt EXCEPT ![e] = clock]
    BY <1>8 DEF AfterFunc, AfterFuncDispatches, AfterFuncTracks, entries, history
  <2> QED
    BY <1>1, <1>4, <2>1 DEF ClocksOK
<1>9. ASSUME NEW g \in Goroutines, Pause(g) \/ Resume(g) \/ LoopEnds(g)
      PROVE  ClocksOK'
  <2>1. /\ UNCHANGED <<clock, baseClock, dispatchedAt, elapsed>>
        /\ read' = [read EXCEPT ![g] = clock] \/ read' = [read EXCEPT ![g] = 0]
    BY <1>9 DEF Pause, Resume, LoopEnds, NoTime, entries, history
  <2> QED
    BY <1>1, <1>4, <2>1 DEF ClocksOK
<1>10. ASSUME NEW g \in Goroutines, NEW e \in Entries, PauseEntry(g, e) \/ ResumeEntry(g, e)
       PROVE  ClocksOK'
  <2>1. /\ UNCHANGED <<clock, baseClock, read, elapsed>>
        /\ dispatchedAt' = dispatchedAt \/ dispatchedAt' = [dispatchedAt EXCEPT ![e] = read[g]]
    BY <1>10 DEF PauseEntry, ResumeEntry, entries, history
  <2> QED
    BY <1>1, <1>4, <2>1 DEF ClocksOK
<1> QED
  BY <1>3, <1>5, <1>6, <1>7, <1>8, <1>9, <1>10 DEF LooseNext, Continue

(* Pause reads the clock after every time it measures from.                 *)
LEMMA PauseIsLastStep == IInv /\ [LooseNext]_vars => PauseIsLast'
<1> SUFFICES ASSUME IInv, [LooseNext]_vars, NEW g \in Goroutines, pc'[g] = "pause",
                    NEW e \in left'[g]
             PROVE  dispatchedAt'[e] <= read'[g]
  BY DEF PauseIsLast
<1>1. /\ pc \in [Goroutines -> {"idle", "dispatch", "track", "pause", "resume"}]
      /\ left \in [Goroutines -> SUBSET Entries]
      /\ read \in [Goroutines -> Times]
      /\ PauseIsLast
  BY DEF IInv, TypeOK
<1>2. ASSUME NEW h \in Goroutines, Pause(h)
      PROVE  dispatchedAt'[e] <= read'[g]
  <2>1. /\ mu = None
        /\ pc' = [pc EXCEPT ![h] = "pause"]
        /\ left' = [left EXCEPT ![h] = tracked]
        /\ read' = [read EXCEPT ![h] = clock]
        /\ dispatchedAt' = dispatchedAt
    BY <1>2 DEF Pause, Acquire, entries
  <2>2. g = h
    BY <1>1, <2>1, LockFree
  <2>3. e \in Entries
    BY <1>1, <2>1, <2>2 DEF IInv, TypeOK
  <2> QED
    BY <1>1, <2>1, <2>2, <2>3 DEF IInv, ClocksOK
<1>3. CASE pc[g] = "pause" /\ UNCHANGED <<dispatchedAt, read>> /\ left'[g] \subseteq left[g]
  BY <1>1, <1>3 DEF PauseIsLast
<1>4. CASE pc[g] = "pause"
  <2>1. mu = g /\ \A h \in Goroutines \ {g} : pc[h] = "idle"
    BY <1>4, LockTaken
  <2>2. mu # None
    BY <2>1, PausableAssumption
  <2>3. CASE UNCHANGED vars \/ TimePasses
    BY <1>3, <1>4, <2>3 DEF TimePasses, vars, entries, threads
  <2>4. ASSUME NEW t \in BaseTimers, Taken(t) \/ Callback(t) \/ CallbackEnds(t)
        PROVE  dispatchedAt'[e] <= read'[g]
    BY <1>3, <1>4, <2>4 DEF Taken, Callback, CallbackEnds, entries, threads
  <2>5. ASSUME NEW h \in Goroutines, NEW x \in Entries, PauseEntry(h, x)
        PROVE  dispatchedAt'[e] <= read'[g]
    <3>1. /\ UNCHANGED <<dispatchedAt, read>>
          /\ left' = [left EXCEPT ![h] = @ \ {x}]
      BY <2>5 DEF PauseEntry, entries
    <3> QED
      BY <1>1, <1>3, <1>4, <3>1
  <2>6. ASSUME NEW h \in Goroutines,
               \/ AfterFuncDispatches(h) \/ AfterFuncTracks(h)
               \/ \E x \in Entries : ResumeEntry(h, x)
        PROVE  FALSE
    <3>1. pc[h] \in {"dispatch", "track", "resume"}
      BY <2>6 DEF AfterFuncDispatches, AfterFuncTracks, ResumeEntry
    <3> QED
      BY <1>4, <2>1, <3>1
  <2>7. ASSUME NEW h \in Goroutines, LoopEnds(h)
        PROVE  FALSE
    <3>1. pc[h] # "idle" /\ pc' = [pc EXCEPT ![h] = "idle"]
      BY <2>7 DEF LoopEnds, Release
    <3> QED
      BY <1>1, <2>1, <3>1
  <2>8. ASSUME NEW h \in Goroutines, NEW x \in Entries,
               \/ Pause(h) \/ Resume(h) \/ \E d \in Delays : AfterFunc(h, x, d)
               \/ StopFound(h, x) \/ StopNotFound(h, x)
        PROVE  FALSE
    <3>1. mu = None
      BY <2>8 DEF Pause, Resume, AfterFunc, Acquire, StopFound, StopNotFound
    <3> QED
      BY <2>2, <3>1
  <2>9. ASSUME NEW h \in Goroutines, Pause(h) \/ Resume(h)
        PROVE  FALSE
    <3>1. mu = None
      BY <2>9 DEF Pause, Resume, Acquire
    <3> QED
      BY <2>2, <3>1
  <2> QED
    BY <2>3, <2>4, <2>5, <2>6, <2>7, <2>8, <2>9 DEF LooseNext, Continue
<1>5. CASE pc[g] # "pause" /\ \A h \in Goroutines : ~Pause(h)
  <2>1. pc'[g] # "pause"
    <3>1. CASE UNCHANGED pc
      BY <1>5, <3>1
    <3>2. \/ UNCHANGED pc
          \/ \E h \in Goroutines, p \in {"idle", "dispatch", "track", "resume"} :
               pc' = [pc EXCEPT ![h] = p]
      BY <1>5 DEF LooseNext, Continue, vars, threads, TimePasses, Taken, Callback, CallbackEnds,
         AfterFunc, AfterFuncDispatches, AfterFuncTracks, StopFound, StopNotFound, Resume,
         PauseEntry, ResumeEntry, LoopEnds, Acquire, Release
    <3> QED
      BY <1>1, <1>5, <3>1, <3>2
  <2> QED
    BY <2>1
<1> QED
  BY <1>2, <1>4, <1>5

-----------------------------------------------------------------------------
(* The invariants                                                          *)

(* The dispatcher starts in a state of the invariant.                       *)
LEMMA IInvInit == Init => IInv
<1> SUFFICES ASSUME Init PROVE IInv
  OBVIOUS
<1> USE PausableAssumption DEF Init, NoTime, Times
<1>1. TypeOK
  <2>0. paused \in BOOLEAN /\ halted \in BOOLEAN
    OBVIOUS
  <2>1. /\ clock \in Times /\ baseClock \in Times
        /\ tracked \in SUBSET Entries /\ handles \in SUBSET Entries /\ entered \in SUBSET BaseTimers
        /\ mu \in Goroutines \cup {None}
    OBVIOUS
  <2>2. /\ delay \in [Entries -> MinDuration..MaxDuration]
        /\ dispatchedAt \in [Entries -> Times]
        /\ original \in [Entries -> Delays \cup {NoTime}]
        /\ elapsed \in [Entries -> Times]
        /\ answers \in [Entries -> SUBSET BOOLEAN]
    OBVIOUS
  <2>3. /\ baseTimer \in [Entries -> BaseTimers \cup {None}]
        /\ \A e \in Entries : baseTimer[e] = None
    OBVIOUS
  <2>4. /\ pc \in [Goroutines -> {"idle", "dispatch", "track", "pause", "resume"}]
        /\ entry \in [Goroutines -> Entries \cup {None}]
        /\ left \in [Goroutines -> SUBSET Entries]
        /\ read \in [Goroutines -> Times]
    OBVIOUS
  <2>5. /\ status \in [BaseTimers -> B!Statuses]
        /\ at \in [BaseTimers -> Nat]
    BY DEF B!Statuses
  <2> QED
    BY <2>0, <2>1, <2>2, <2>3, <2>4, <2>5 DEF TypeOK
<1>2. LockOK
  BY DEF LockOK
<1>3. TimersOK
  <2>1. \A t \in BaseTimers : TimerOK(t)
    BY DEF TimerOK, Live, Over
  <2>2. \A e \in Entries : EntryOK(e)
    BY DEF EntryOK
  <2> QED
    BY <2>1, <2>2 DEF TimersOK, OneRuns, B!Running
<1>4. ClocksOK
  BY DEF ClocksOK
<1>5. BaseTimerMatchesPause
  BY DEF BaseTimerMatchesPause
<1>6. PauseIsLast
  BY DEF PauseIsLast
<1> QED
  BY <1>1, <1>2, <1>3, <1>4, <1>5, <1>6 DEF IInv

(* ... and every step keeps it.                                             *)
LEMMA IInvStep == IInv /\ [LooseNext]_vars => IInv'
<1> SUFFICES ASSUME IInv, [LooseNext]_vars PROVE IInv'
  OBVIOUS
<1>1. TypeOK'
  <2>1. TypeOK /\ LockOK /\ ClocksOK
    BY DEF IInv
  <2> QED
    BY <2>1, TypeStep
<1>2. LockOK' /\ TimersOK' /\ ClocksOK' /\ PauseIsLast' /\ BaseTimerMatchesPause'
  BY LockStep, TimersStep, ClocksStep, PauseIsLastStep, PauseStep
<1> QED
  BY <1>1, <1>2 DEF IInv

(* Every step keeps the two clocks together.                                *)
LEMMA SameClockStep == SameClock /\ [Next]_vars => SameClock'
<1> SUFFICES ASSUME SameClock, [Next]_vars PROVE SameClock'
  OBVIOUS
<1>1. CASE UNCHANGED <<clock, baseClock>>
  BY <1>1 DEF SameClock
<1>2. CASE Tick
  BY <1>2 DEF SameClock, Tick
<1>3. ASSUME NEW t \in BaseTimers, BaseStarts(t) \/ Callback(t) \/ CallbackEnds(t)
      PROVE  SameClock'
  BY <1>1, <1>3 DEF BaseStarts, Callback, CallbackEnds
<1>4. ASSUME NEW g \in Goroutines,
             \/ Pause(g) \/ Resume(g) \/ LoopEnds(g)
             \/ AfterFuncDispatches(g) \/ AfterFuncTracks(g)
      PROVE  SameClock'
  BY <1>1, <1>4 DEF Pause, Resume, LoopEnds, AfterFuncDispatches, AfterFuncTracks
<1>5. ASSUME NEW g \in Goroutines, NEW e \in Entries,
             \/ \E d \in Delays : AfterFunc(g, e, d)
             \/ StopFound(g, e) \/ StopNotFound(g, e)
             \/ PauseEntry(g, e) \/ ResumeEntry(g, e)
      PROVE  SameClock'
  BY <1>1, <1>5 DEF AfterFunc, StopFound, StopNotFound, PauseEntry, ResumeEntry
<1> QED
  BY <1>1, <1>2, <1>3, <1>4, <1>5 DEF Next, Continue, vars

(* A tick lets time pass, and a function the base takes is taken.           *)
LEMMA NextIsLoose == IInv /\ SameClock /\ [Next]_vars => [LooseNext]_vars
<1> SUFFICES ASSUME IInv, SameClock, [Next]_vars PROVE LooseNext \/ UNCHANGED vars
  OBVIOUS
<1>1. clock \in Nat /\ clock <= MaxTime /\ baseClock = clock /\ MaxTime \in Nat
  BY PausableAssumption DEF SameClock, IInv, TypeOK, Times
<1>2. CASE Tick
  <2>1. clock' \in clock..MaxTime /\ baseClock' \in 0..clock' /\ clock' - clock = 1
    BY <1>1, <1>2 DEF Tick
  <2> QED
    BY <1>2, <2>1 DEF Tick, TimePasses, LooseNext
<1>3. ASSUME NEW t \in BaseTimers, BaseStarts(t) PROVE Taken(t)
  BY <1>1, <1>3 DEF BaseStarts, Taken
<1> QED
  BY <1>2, <1>3 DEF Next, LooseNext

(* Spec is one of the ways to run.                                          *)
LEMMA SpecIsLoose == Spec => LooseSpec
<1>1. Init => IInv /\ SameClock
  BY IInvInit DEF Init, SameClock
<1>2. IInv /\ SameClock /\ [Next]_vars => IInv' /\ SameClock' /\ [LooseNext]_vars
  BY IInvStep, NextIsLoose, SameClockStep
<1> QED
  BY <1>1, <1>2, PTL DEF Spec, LooseSpec

(* The base starts by the clock of the caller, which a FastForward in       *)
(* progress has reached.                                                    *)
TargetOK == target = T!NoTarget \/ (target \in Nat /\ target <= clock)

(* Over a base with virtual time, an advance lets time pass for the caller  *)
(* and what the base does afterwards for the base.                          *)
LEMMA VirtualNextIsLoose ==
    IInv /\ TargetOK /\ [VirtualNext]_allVars => [LooseNext]_vars /\ TargetOK'
<1> SUFFICES ASSUME IInv, TargetOK, [VirtualNext]_allVars
             PROVE  (LooseNext \/ UNCHANGED vars) /\ TargetOK'
  OBVIOUS
<1>1. /\ clock \in Nat /\ clock <= MaxTime /\ MaxTime \in Nat
      /\ baseClock \in Nat /\ baseClock <= clock
      /\ elapsed \in [Entries -> Nat] /\ at \in [BaseTimers -> Nat]
  BY PausableAssumption DEF IInv, TypeOK, ClocksOK, Times
<1>2. CASE UNCHANGED allVars
  BY <1>2 DEF allVars, vars, TargetOK
<1>3. ASSUME NEW to \in Times, AdvanceTo(to)
      PROVE  LooseNext /\ TargetOK'
  <2>1. /\ to \in Nat /\ to <= MaxTime /\ to >= clock /\ clock' = to
        /\ target' = to /\ UNCHANGED <<status, halted, baseClock, at>>
    BY <1>3, PausableAssumption DEF AdvanceTo, T!AdvanceTo, Times
  <2>2. clock' \in clock..MaxTime /\ baseClock' \in 0..clock'
    BY <1>1, <2>1
  <2>3. TimePasses
    BY <1>3, <2>1, <2>2 DEF TimePasses, AdvanceTo, Pass, base
  <2> QED
    BY <2>1, <2>3 DEF LooseNext, TargetOK
<1>4. ASSUME NEW t \in BaseTimers, BaseRuns(t)
      PROVE  LooseNext /\ TargetOK'
  <2>1. /\ T!D!Start(t) /\ target # T!NoTarget /\ at[t] <= target
        /\ baseClock' = at[t] /\ at' = [at EXCEPT ![t] = 0]
        /\ UNCHANGED <<target, clock>>
    BY <1>4 DEF BaseRuns, T!Start
  <2>2. B!Start(t)
    BY <2>1 DEF T!D!Start, B!Start, T!D!Running, B!Running
  <2>3. baseClock' \in 0..clock
    BY <1>1, <2>1 DEF TargetOK
  <2>4. Taken(t)
    BY <1>4, <2>1, <2>2, <2>3 DEF BaseRuns, Taken, NoTime
  <2> QED
    BY <2>1, <2>4 DEF LooseNext, TargetOK
<1>5. CASE FastForwardReturns
  <2>1. /\ target' = T!NoTarget /\ target # T!NoTarget
        /\ baseClock' \in {baseClock, target}
        /\ UNCHANGED <<status, halted, at>>
        /\ UNCHANGED <<clock, paused, tracked, entries, threads, entered, history>>
    BY <1>5 DEF FastForwardReturns, T!Advanced, T!Failed
  <2>2. clock' \in clock..MaxTime /\ baseClock' \in 0..clock'
    BY <1>1, <2>1 DEF TargetOK
  <2>3. elapsed' = [e \in Entries |->
                      IF Waiting(e) /\ ~paused THEN elapsed[e] + (clock' - clock) ELSE elapsed[e]]
    BY <1>1, <2>1 DEF history
  <2>4. TimePasses
    BY <2>1, <2>2, <2>3 DEF TimePasses, base, history
  <2> QED
    BY <2>1, <2>4 DEF LooseNext, TargetOK
<1>6. CASE (WrapperActs \/ Toggles) /\ UNCHANGED <<target, baseElapsed>>
  <2>1. LooseNext
    BY <1>6 DEF WrapperActs, Toggles, LooseNext
  <2>2. clock' = clock
    BY <1>6 DEF WrapperActs, Toggles, Continue, Callback, CallbackEnds, AfterFunc,
       AfterFuncDispatches, AfterFuncTracks, StopFound, StopNotFound, PauseEntry, ResumeEntry,
       LoopEnds, Pause, Resume
  <2> QED
    BY <1>6, <2>1, <2>2 DEF TargetOK
<1> QED
  BY <1>2, <1>3, <1>4, <1>5, <1>6 DEF VirtualNext, BaseActs

(* Running over a base with virtual time is another.                        *)
LEMMA VirtualSpecIsLoose == VirtualSpec => LooseSpec
<1>1. VirtualInit => Init /\ IInv /\ TargetOK
  BY IInvInit DEF VirtualInit, TargetOK
<1>2. IInv /\ TargetOK /\ [VirtualNext]_allVars => IInv' /\ TargetOK' /\ [LooseNext]_vars
  BY IInvStep, VirtualNextIsLoose
<1> QED
  BY <1>1, <1>2, PTL DEF VirtualSpec, LooseSpec

(* The inductive invariant holds in every reachable state.                  *)
THEOREM Invariance == LooseSpec => []IInv
BY IInvInit, IInvStep, PTL DEF LooseSpec

(* Every variable keeps its type: delays stay in the range of a Duration,   *)
(* and a trackedEntry refers to timers of its own.                          *)
THEOREM TypeCorrect == (Spec => []TypeOK) /\ (VirtualSpec => []TypeOK)
<1>1. IInv => TypeOK
  BY DEF IInv
<1> QED
  BY <1>1, Invariance, SpecIsLoose, VirtualSpecIsLoose, PTL

(* The loops of Pause and Resume never meet the nil timer of a suspended    *)
(* entry, and no entry that is not suspended is without a timer.            *)
THEOREM NoNilTimer == (Spec => []BaseTimerMatchesPause) /\ (VirtualSpec => []BaseTimerMatchesPause)
<1>1. IInv => BaseTimerMatchesPause
  BY DEF IInv
<1> QED
  BY <1>1, Invariance, SpecIsLoose, VirtualSpecIsLoose, PTL

(* While nobody is in a method of a paused dispatcher, no entry has a timer *)
(* of the base that is pending.                                             *)
LEMMA PausedIsQuiet == IInv => NothingPendingWhilePaused
<1> SUFFICES ASSUME IInv, paused, mu = None, NEW t \in BaseTimers, status[t] = "pending"
             PROVE  FALSE
  BY DEF NothingPendingWhilePaused
<1>1. baseTimer[t[1]] = t /\ t[1] \in tracked
  BY LockFree, TimerFacts DEF TimerOK, Live, Held
<1>2. Suspended(t[1])
  BY <1>1, LockFree DEF Suspended
<1> QED
  BY <1>1, <1>2, TimerFacts DEF IInv, BaseTimerMatchesPause

(* Once Pause has returned, the base holds no timer that could fire.        *)
THEOREM PauseIsComplete == (Spec => []NothingPendingWhilePaused) /\ (VirtualSpec => []NothingPendingWhilePaused)
BY PausedIsQuiet, Invariance, SpecIsLoose, VirtualSpecIsLoose, PTL

(* However often an entry is suspended and dispatched again, one of its     *)
(* timers at most is alive in the base, and none once its function has been *)
(* called.                                                                  *)
THEOREM OnceOnly == (Spec => []RunsAtMostOnce) /\ (VirtualSpec => []RunsAtMostOnce)
<1>1. IInv => RunsAtMostOnce
  <2> SUFFICES ASSUME IInv PROVE RunsAtMostOnce
    OBVIOUS
  <2>1. \A t, u \in BaseTimers : Live(t) /\ Live(u) /\ t[1] = u[1] => t = u
    <3> SUFFICES ASSUME NEW t \in BaseTimers, NEW u \in BaseTimers, Live(t), Live(u), t[1] = u[1]
                 PROVE  t = u
      OBVIOUS
    <3>1. baseTimer[t[1]] = t /\ baseTimer[u[1]] = u
      BY TimerFacts DEF TimerOK
    <3> QED
      BY <3>1
  <2>2. \A t \in entered : t[1] \notin tracked
    BY TimerFacts DEF TimerOK, IInv, TypeOK
  <2> QED
    BY <2>1, <2>2 DEF RunsAtMostOnce
<1> QED
  BY <1>1, Invariance, SpecIsLoose, VirtualSpecIsLoose, PTL

-----------------------------------------------------------------------------
(* Time                                                                    *)

(* The times and delays of a state, as integers.                            *)
LEMMA TimeFacts ==
    ASSUME IInv
    PROVE  /\ clock \in Nat /\ baseClock \in Nat
           /\ delay \in [Entries -> Int]
           /\ dispatchedAt \in [Entries -> Nat]
           /\ elapsed \in [Entries -> Nat]
           /\ original \in [Entries -> Int]
           /\ read \in [Goroutines -> Nat]
           /\ at \in [BaseTimers -> Nat]
           /\ mu \in Goroutines \cup {None} /\ None \notin Goroutines
           /\ pc \in [Goroutines -> {"idle", "dispatch", "track", "pause", "resume"}]
           /\ left \in [Goroutines -> SUBSET Entries]
<1>1. /\ TypeOK
      /\ Times \subseteq Nat
      /\ MinDuration..MaxDuration \subseteq Int
      /\ Delays \cup {NoTime} \subseteq Int
      /\ None \notin Goroutines
  BY PausableAssumption DEF IInv, Times, NoTime
<1>2. /\ delay \in [Entries -> Int]
      /\ original \in [Entries -> Int]
  BY <1>1 DEF TypeOK
<1>3. /\ clock \in Nat /\ baseClock \in Nat
      /\ dispatchedAt \in [Entries -> Nat]
      /\ elapsed \in [Entries -> Nat]
      /\ read \in [Goroutines -> Nat]
  BY <1>1 DEF TypeOK
<1> QED
  BY <1>1, <1>2, <1>3 DEF TypeOK

(* What has passed of a delay is a time on the clock.                       *)
LEMMA SpentFacts ==
    ASSUME IInv, NEW e \in Entries
    PROVE  Spent(e) \in 0..MaxTime /\ Remaining(e) \in Int /\ Owed(e) \in Int
<1>1. /\ clock \in 0..MaxTime /\ dispatchedAt[e] \in Nat /\ dispatchedAt[e] <= clock
      /\ \A g \in Goroutines : read[g] \in 0..MaxTime /\ read[g] <= clock
  BY DEF IInv, TypeOK, ClocksOK, Times
<1>2. \A g \in Goroutines : pc[g] = "pause" /\ e \in left[g] => dispatchedAt[e] <= read[g]
  BY DEF IInv, PauseIsLast
<1>3. Spent(e) \in 0..MaxTime
  BY <1>1, <1>2, TimeFacts, PausableAssumption DEF Spent
<1>4. delay[e] \in Int /\ original[e] \in Int /\ elapsed[e] \in Int
  BY TimeFacts
<1> QED
  BY <1>3, <1>4 DEF Remaining, Owed

(* An entry that waits while nobody is in a method is tracked.              *)
LEMMA WaitingIsTracked ==
    ASSUME IInv, mu = None, NEW e \in Entries, Waiting(e)
    PROVE  e \in tracked
<1>1. e \in handles
  BY LockFree DEF Waiting, Created
<1>2. EntryOK(e) /\ (baseTimer[e] # None => baseTimer[e] \in BaseTimers /\ baseTimer[e][1] = e)
  BY TimerFacts
<1> QED
  BY <1>1, <1>2 DEF Waiting, EntryOK, Over

(* An entry that goes on to wait has waited before, or is new.              *)
LEMMA WaitingBefore ==
    ASSUME IInv, [LooseNext]_vars, NEW e \in Entries, Waiting(e)', Created(e)
    PROVE  Waiting(e)
<1>1. /\ status \in [BaseTimers -> B!Statuses]
      /\ answers \in [Entries -> SUBSET BOOLEAN]
      /\ TypeOK
  BY DEF IInv, TypeOK
<1>2. /\ \A t \in BaseTimers :
           status[t] \in {"running", "done"} => status'[t] \in {"running", "done"}
      /\ TRUE \in answers[e] => TRUE \in answers'[e]
  <2>1. CASE UNCHANGED <<status, answers>>
    BY <2>1
  <2>2. CASE UNCHANGED vars \/ TimePasses
    BY <2>1, <2>2 DEF TimePasses, vars, base, history
  <2>3. ASSUME NEW t \in BaseTimers, Taken(t) \/ Callback(t) \/ CallbackEnds(t)
        PROVE  <1>2!:
    <3>1. answers' = answers
      BY <2>3 DEF Taken, Callback, CallbackEnds, history
    <3>2. status' = status \/ \E s \in {"running", "done"} : status' = [status EXCEPT ![t] = s]
      BY <2>3 DEF Taken, Callback, CallbackEnds, B!Start, B!Return, B!Panic
    <3> QED
      BY <1>1, <3>1, <3>2
  <2>4. ASSUME NEW g \in Goroutines, NEW x \in Entries, StopFound(g, x)
        PROVE  <1>2!:
    <3>1. \/ status' = status
          \/ status[baseTimer[x]] = "pending" /\ status' = [status EXCEPT ![baseTimer[x]] = "stopped"]
      BY <1>1, <2>4, StopFoundFacts DEF base
    <3>2. \E b \in BOOLEAN : answers' = [answers EXCEPT ![x] = @ \cup {b}]
      BY <1>1, <2>4, StopFoundFacts
    <3> QED
      BY <1>1, <3>1, <3>2
  <2>5. ASSUME NEW g \in Goroutines, NEW x \in Entries, StopNotFound(g, x)
        PROVE  <1>2!:
    BY <1>1, <2>5 DEF StopNotFound, StopAnswers, base
  <2>6. ASSUME NEW g \in Goroutines,
               \/ Pause(g) \/ Resume(g) \/ LoopEnds(g) \/ AfterFuncTracks(g)
               \/ \E x \in Entries, d \in Delays : AfterFunc(g, x, d)
        PROVE  <1>2!:
    BY <2>1, <2>6 DEF Pause, Resume, LoopEnds, AfterFuncTracks, AfterFunc, base, history
  <2>7. ASSUME NEW x \in Entries, NEW t \in BaseTimers, Dispatch(x, t), answers' = answers
        PROVE  <1>2!:
    BY <1>1, <2>7 DEF Dispatch, B!AfterFunc
  <2>8. ASSUME NEW g \in Goroutines, AfterFuncDispatches(g)
        PROVE  <1>2!:
    <3>1. pc[g] = "dispatch" /\ answers' = answers
      BY <2>8 DEF AfterFuncDispatches, history
    <3>2. entry[g] \in Entries
      BY <3>1 DEF IInv, TypeOK, LockOK
    <3> QED
      BY <2>7, <2>8, <3>1, <3>2 DEF AfterFuncDispatches
  <2>9. ASSUME NEW g \in Goroutines, NEW x \in Entries, ResumeEntry(g, x)
        PROVE  <1>2!:
    BY <2>7, <2>9 DEF ResumeEntry, history
  <2>10. ASSUME NEW g \in Goroutines, NEW x \in Entries, PauseEntry(g, x)
         PROVE  <1>2!:
    <3>1. /\ status' = [status EXCEPT ![baseTimer[x]] = IF @ = "pending" THEN "stopped" ELSE @]
          /\ answers' = answers
      BY <2>10 DEF PauseEntry, BaseStop, history
    <3> QED
      BY <1>1, <3>1
  <2> QED
    BY <2>2, <2>3, <2>4, <2>5, <2>6, <2>8, <2>9, <2>10 DEF LooseNext, Continue
<1> QED
  BY <1>2 DEF Waiting

(* A step that changes neither what is known of e nor the lock.             *)
LEMMA RemainingFrame ==
    ASSUME NEW e \in Entries,
           UNCHANGED <<clock, paused, delay[e], dispatchedAt[e], original[e], elapsed[e]>>,
           UNCHANGED <<mu, pc, left, read>>
    PROVE  Remaining(e)' = Remaining(e) /\ Owed(e)' = Owed(e)
BY DEF Remaining, Owed, Spent

(* Time that passes outside of a pause is taken from what remains of an     *)
(* entry that waits and from what is owed, and in a pause from neither.     *)
LEMMA TimePassesStep ==
    ASSUME IInv, TimePasses, NEW e \in Entries, Waiting(e)
    PROVE  \E k \in Nat : Remaining(e)' = Remaining(e) - k /\ Owed(e)' = Owed(e) - k
<1> DEFINE n == clock' - clock
           k == IF paused THEN 0 ELSE n
<1>0. n \in Nat /\ k \in Nat /\ clock' = clock + n
  BY TimeFacts, PausableAssumption DEF TimePasses
<1>1. /\ elapsed'[e] = elapsed[e] + k
      /\ UNCHANGED <<paused, delay, dispatchedAt, original, mu, pc, left, read>>
  BY TimeFacts DEF TimePasses, entries, threads
<1> HIDE DEF n
<1>2. /\ mu # None /\ pc[mu] = "resume" => ~paused
      /\ mu # None /\ pc[mu] = "pause" => paused
  BY TimeFacts DEF IInv, LockOK
<1>3. Spent(e)' = Spent(e) + k
  BY <1>0, <1>1, <1>2, TimeFacts DEF Spent
<1>4. Remaining(e)' = Remaining(e) - k /\ Owed(e)' = Owed(e) - k
  BY <1>0, <1>1, <1>3, SpentFacts, TimeFacts DEF Remaining, Owed
<1> QED
  BY <1>0, <1>4

(* Pause and Resume start to measure from the time they read, and nothing   *)
(* has passed since.                                                        *)
LEMMA PauseOrResumeStep ==
    ASSUME IInv, NEW g \in Goroutines, Pause(g) \/ Resume(g), NEW e \in Entries, Waiting(e)
    PROVE  Remaining(e)' = Remaining(e) /\ Owed(e)' = Owed(e)
<1>1. /\ mu = None /\ mu' = g
      /\ read' = [read EXCEPT ![g] = clock]
      /\ left' = [left EXCEPT ![g] = tracked]
      /\ UNCHANGED <<clock, delay, dispatchedAt, original, elapsed>>
  BY DEF Pause, Resume, Acquire, entries, history
<1>2. e \in tracked
  BY <1>1, WaitingIsTracked
<1>3. mu' # None /\ left'[mu'] = tracked /\ read'[mu'] = clock
  BY <1>1, TimeFacts
<1>4. CASE Pause(g)
  <2>1. ~paused /\ pc'[mu'] = "pause"
    BY <1>1, <1>4, TimeFacts DEF Pause, Acquire
  <2>2. Spent(e)' = Spent(e)
    BY <1>1, <1>2, <1>3, <2>1 DEF Spent
  <2> QED
    BY <1>1, <2>2 DEF Remaining, Owed
<1>5. CASE Resume(g)
  <2>1. paused /\ pc'[mu'] = "resume"
    BY <1>1, <1>5, TimeFacts DEF Resume, Acquire
  <2>2. Spent(e)' = Spent(e)
    BY <1>1, <1>2, <1>3, <2>1, TimeFacts DEF Spent
  <2> QED
    BY <1>1, <2>2 DEF Remaining, Owed
<1> QED
  BY <1>4, <1>5

(* The loop of Pause makes what remains of an entry its delay.              *)
LEMMA PauseEntryStep ==
    ASSUME IInv, NEW g \in Goroutines, NEW x \in Entries, PauseEntry(g, x),
           NEW e \in Entries, Waiting(e)
    PROVE  /\ Owed(e)' = Owed(e)
           /\ Remaining(e)' \in {Remaining(e), NotNegative(Wrapped(Remaining(e)))}
<1>1. /\ pc[g] = "pause" /\ x \in left[g] /\ mu = g /\ paused
      /\ left' = [left EXCEPT ![g] = @ \ {x}]
      /\ UNCHANGED <<clock, paused, mu, pc, read, original, elapsed>>
      /\ dispatchedAt' = dispatchedAt
  BY LockTaken DEF PauseEntry, entries, history, IInv, LockOK
<1>2. Owed(e)' = Owed(e)
  BY <1>1 DEF Owed
<1>3. CASE e # x
  <2>1. e \in left'[g] <=> e \in left[g]
    BY <1>1, <1>3, TimeFacts
  <2>2. delay'[e] = delay[e]
    BY <1>3, TimeFacts DEF PauseEntry, entries
  <2> QED
    BY <1>1, <1>2, <2>1, <2>2 DEF Remaining, Spent
<1>4. CASE e = x
  <2>1. Spent(e) = read[g] - dispatchedAt[e] /\ Remaining(e) = delay[e] - (read[g] - dispatchedAt[e])
    BY <1>1, <1>4, TimeFacts DEF Spent, Remaining
  <2>2. Spent(e)' = 0
    BY <1>1, <1>4, TimeFacts DEF Spent
  <2>3. status[baseTimer[e]] = "pending"
    <3>1. e \in tracked /\ ~Suspended(e)
      BY <1>1, <1>4, LockTaken DEF IInv, LockOK, Suspended
    <3>2. baseTimer[e] # None
      BY <3>1 DEF IInv, BaseTimerMatchesPause
    <3>3. EntryOK(e) /\ baseTimer[e] \in BaseTimers /\ baseTimer[e][1] = e
      BY <3>2, TimerFacts
    <3> QED
      BY <3>1, <3>2, <3>3 DEF EntryOK, Held, Live, Waiting
  <2>4. delay'[e] = NotNegative(Wrapped(Remaining(e)))
    BY <1>4, <2>1, <2>3, TimeFacts DEF PauseEntry
  <2>5. NotNegative(Wrapped(Remaining(e))) \in Int
    BY SpentFacts, WrappedFacts, PausableAssumption DEF NotNegative
  <2> QED
    BY <1>2, <2>2, <2>4, <2>5 DEF Remaining
<1> QED
  BY <1>3, <1>4

(* The loop of Resume goes on to measure from the time Resume has read.     *)
LEMMA ResumeEntryStep ==
    ASSUME IInv, NEW g \in Goroutines, NEW x \in Entries, ResumeEntry(g, x), NEW e \in Entries
    PROVE  Remaining(e)' = Remaining(e) /\ Owed(e)' = Owed(e)
<1>1. /\ pc[g] = "resume" /\ x \in left[g] /\ mu = g /\ ~paused
      /\ left' = [left EXCEPT ![g] = @ \ {x}]
      /\ dispatchedAt' = [dispatchedAt EXCEPT ![x] = read[g]]
      /\ UNCHANGED <<clock, paused, mu, pc, read, delay, original, elapsed>>
  BY LockTaken DEF ResumeEntry, history, IInv, LockOK
<1>2. CASE e # x
  <2>1. (e \in left'[g] <=> e \in left[g]) /\ dispatchedAt'[e] = dispatchedAt[e]
    BY <1>1, <1>2, TimeFacts
  <2> QED
    BY <1>1, <2>1 DEF Remaining, Owed, Spent
<1>3. CASE e = x
  <2>1. e \notin left'[g] /\ dispatchedAt'[e] = read[g]
    BY <1>1, <1>3, TimeFacts
  <2> QED
    BY <1>1, <1>3, <2>1, TimeFacts DEF Remaining, Owed, Spent
<1> QED
  BY <1>2, <1>3

(* What a step does to an entry that waits after it.                        *)
LEMMA RemainingStep ==
    ASSUME IInv, [LooseNext]_vars, NEW e \in Entries, Waiting(e)'
    PROVE  \/ \E d \in Delays : Remaining(e)' = d /\ Owed(e)' = d
           \/ /\ Waiting(e)
              /\ \E k \in Nat : Remaining(e)' = Remaining(e) - k /\ Owed(e)' = Owed(e) - k
           \/ /\ Waiting(e)
              /\ Owed(e)' = Owed(e)
              /\ Remaining(e)' = NotNegative(Wrapped(Remaining(e)))
<1>1. Remaining(e) \in Int /\ Owed(e) \in Int
  BY SpentFacts
<1>2. \/ \E g \in Goroutines, d \in Delays : AfterFunc(g, e, d)
      \/ Waiting(e)
  <2>1. Created(e)'
    BY DEF Waiting
  <2> QED
    BY <2>1, CreatedStep, WaitingBefore
<1>3. ASSUME NEW g \in Goroutines, NEW d \in Delays, AfterFunc(g, e, d)
      PROVE  Remaining(e)' = d /\ Owed(e)' = d
  <2>1. elapsed[e] = 0 /\ d \in Int
    BY <1>3, PausableAssumption DEF IInv, ClocksOK, AfterFunc
  <2>2. /\ mu' = g /\ pc'[g] \notin {"pause", "resume"}
        /\ delay'[e] = d /\ original'[e] = d /\ elapsed'[e] = 0
        /\ dispatchedAt'[e] = clock /\ clock' = clock
    BY <1>3, <2>1, TimeFacts DEF AfterFunc, Acquire
  <2>3. Spent(e)' = 0
    BY <2>2, TimeFacts DEF Spent
  <2> QED
    BY <2>1, <2>2, <2>3 DEF Remaining, Owed
<1>4. CASE ~Waiting(e)
  BY <1>2, <1>3, <1>4
<1>5. CASE Waiting(e)
  <2>1. ASSUME Remaining(e)' = Remaining(e), Owed(e)' = Owed(e)
        PROVE  \E k \in Nat : Remaining(e)' = Remaining(e) - k /\ Owed(e)' = Owed(e) - k
    BY <1>1, <2>1
  <2>2. CASE UNCHANGED vars
    BY <1>5, <2>1, <2>2, RemainingFrame DEF vars, entries, threads, history
  <2>3. CASE TimePasses
    BY <1>5, <2>3, TimePassesStep
  <2>4. ASSUME NEW t \in BaseTimers, Taken(t) \/ Callback(t) \/ CallbackEnds(t)
        PROVE  Remaining(e)' = Remaining(e) /\ Owed(e)' = Owed(e)
    <3>1. UNCHANGED <<clock, paused, entries, threads>>
      BY <2>4 DEF Taken, Callback, CallbackEnds
    <3>2. original'[e] = original[e] /\ elapsed'[e] = elapsed[e]
      <4>1. CASE Taken(t)
        <5>1. status'[t] = "running"
          BY <4>1 DEF Taken, B!Start, IInv, TypeOK
        <5>2. t[1] # e
          BY <5>1 DEF Waiting
        <5> QED
          BY <4>1, <5>2, TimeFacts DEF Taken, Forget
      <4> QED
        BY <2>4, <4>1 DEF Callback, CallbackEnds, history
    <3> QED
      BY <3>1, <3>2, RemainingFrame DEF entries, threads
  <2>5. ASSUME NEW g \in Goroutines, NEW x \in Entries, NEW d \in Delays, AfterFunc(g, x, d)
        PROVE  \/ Remaining(e)' = Remaining(e) /\ Owed(e)' = Owed(e)
               \/ Remaining(e)' = d /\ Owed(e)' = d
    <3>1. CASE x = e
      BY <1>3, <2>5, <3>1
    <3>2. CASE x # e
      <4>1. /\ mu = None /\ mu' = g
            /\ pc'[g] \notin {"pause", "resume"}
            /\ delay'[e] = delay[e] /\ dispatchedAt'[e] = dispatchedAt[e]
            /\ original'[e] = original[e] /\ elapsed'[e] = elapsed[e]
            /\ UNCHANGED <<clock, paused>>
        BY <2>5, <3>2, TimeFacts DEF AfterFunc, Acquire
      <4>2. Spent(e)' = Spent(e)
        BY <4>1 DEF Spent
      <4> QED
        BY <4>1, <4>2 DEF Remaining, Owed
    <3> QED
      BY <3>1, <3>2
  <2>6. ASSUME NEW g \in Goroutines, NEW x \in Entries, StopFound(g, x)
        PROVE  Remaining(e)' = Remaining(e) /\ Owed(e)' = Owed(e)
    <3>1. x # e
      <4> SUFFICES ASSUME x = e PROVE FALSE
        OBVIOUS
      <4>1. TypeOK /\ answers \in [Entries -> SUBSET BOOLEAN] /\ e \in tracked
        BY <2>6 DEF IInv, TypeOK, StopFound
      <4>2. TRUE \notin answers'[e]
        BY DEF Waiting
      <4>3. /\ baseTimer[e] \in BaseTimers /\ status[baseTimer[e]] # "pending"
            /\ status' = status
        BY <2>6, <4>1, <4>2, StopFoundFacts
      <4>4. Over(baseTimer[e]) /\ baseTimer[e][1] = e
        <5>1. EntryOK(e) /\ baseTimer[e] # None /\ baseTimer[e][1] = e
          BY <4>3, TimerFacts
        <5> QED
          BY <4>1, <4>3, <5>1 DEF EntryOK, Held, Live, Over
      <4> QED
        BY <4>3, <4>4 DEF Waiting, Over
    <3>2. original'[e] = original[e] /\ elapsed'[e] = elapsed[e]
      BY <2>6, <3>1, TimeFacts DEF StopFound, Forget
    <3> QED
      BY <2>6, <3>2, RemainingFrame DEF StopFound, entries, threads
  <2>7. ASSUME NEW g \in Goroutines, NEW x \in Entries, StopNotFound(g, x)
        PROVE  Remaining(e)' = Remaining(e) /\ Owed(e)' = Owed(e)
    BY <2>7, RemainingFrame DEF StopNotFound, entries, threads
  <2>8. ASSUME NEW g \in Goroutines, Pause(g) \/ Resume(g)
        PROVE  Remaining(e)' = Remaining(e) /\ Owed(e)' = Owed(e)
    BY <1>5, <2>8, PauseOrResumeStep
  <2>9. ASSUME NEW g \in Goroutines, AfterFuncDispatches(g) \/ AfterFuncTracks(g) \/ LoopEnds(g)
        PROVE  Remaining(e)' = Remaining(e) /\ Owed(e)' = Owed(e)
    <3>1. /\ UNCHANGED <<clock, paused, delay, dispatchedAt, original, elapsed>>
          /\ left' = left /\ mu' \in {mu, None} /\ pc[g] # "idle"
      BY <2>9
         DEF AfterFuncDispatches, AfterFuncTracks, LoopEnds, Release, Dispatch, entries, history
    <3>2. mu = g /\ left[g] = {}
      <4>1. mu = g
        BY <3>1, LockTaken
      <4>2. pc[g] \in {"dispatch", "track"} \/ left[g] = {}
        BY <2>9 DEF AfterFuncDispatches, AfterFuncTracks, LoopEnds
      <4> QED
        BY <4>1, <4>2 DEF IInv, LockOK
    <3>3. Spent(e) = IF paused THEN 0 ELSE clock - dispatchedAt[e]
      BY <3>2 DEF Spent
    <3>4. Spent(e)' = IF paused THEN 0 ELSE clock - dispatchedAt[e]
      BY <3>1, <3>2 DEF Spent
    <3> QED
      BY <3>1, <3>3, <3>4 DEF Remaining, Owed
  <2>10. ASSUME NEW g \in Goroutines, NEW x \in Entries, PauseEntry(g, x)
         PROVE  /\ Owed(e)' = Owed(e)
                /\ Remaining(e)' \in {Remaining(e), NotNegative(Wrapped(Remaining(e)))}
    BY <1>5, <2>10, PauseEntryStep
  <2>11. ASSUME NEW g \in Goroutines, NEW x \in Entries, ResumeEntry(g, x)
         PROVE  Remaining(e)' = Remaining(e) /\ Owed(e)' = Owed(e)
    BY <2>11, ResumeEntryStep
  <2> QED
    BY <1>5, <2>1, <2>2, <2>3, <2>4, <2>5, <2>6, <2>7, <2>8, <2>9, <2>10, <2>11
       DEF LooseNext, Continue
<1> QED
  BY <1>4, <1>5

(* Every step keeps what remains of an entry at what is owed or more.       *)
LEMMA NotTooShortStep == IInv /\ NotTooShort /\ [LooseNext]_vars => NotTooShort'
<1> SUFFICES ASSUME IInv, NotTooShort, [LooseNext]_vars, NEW e \in Entries, Waiting(e)'
             PROVE  NotNegative(Owed(e)') <= NotNegative(Remaining(e)')
  BY DEF NotTooShort, NotNegative
<1>1. Spent(e) \in 0..MaxTime /\ Remaining(e) \in Int /\ Owed(e) \in Int
  BY SpentFacts
<1>2. Waiting(e) => NotNegative(Owed(e)) <= NotNegative(Remaining(e))
  BY DEF NotTooShort
<1>3. ASSUME NEW d \in Delays, Remaining(e)' = d, Owed(e)' = d
      PROVE  NotNegative(Owed(e)') <= NotNegative(Remaining(e)')
  BY <1>3, PausableAssumption DEF NotNegative
<1>4. ASSUME Waiting(e), NEW k \in Nat, Remaining(e)' = Remaining(e) - k, Owed(e)' = Owed(e) - k
      PROVE  NotNegative(Owed(e)') <= NotNegative(Remaining(e)')
  BY <1>1, <1>2, <1>4 DEF NotNegative
<1>5. ASSUME Waiting(e), Owed(e)' = Owed(e), Remaining(e)' = NotNegative(Wrapped(Remaining(e)))
      PROVE  NotNegative(Owed(e)') <= NotNegative(Remaining(e)')
  <2>1. Wrapped(Remaining(e)) \in Int
    BY <1>1, WrappedFacts, PausableAssumption
  <2>2. CASE Remaining(e) < MinDuration
    BY <1>1, <1>2, <1>5, <2>1, <2>2, PausableAssumption DEF NotNegative
  <2>3. CASE Remaining(e) >= MinDuration
    <3>1. Remaining(e) \in MinDuration..MaxDuration
      <4>1. delay[e] \in MinDuration..MaxDuration
        BY DEF IInv, TypeOK
      <4> QED
        BY <1>1, <2>3, <4>1, PausableAssumption DEF Remaining
    <3>2. Wrapped(Remaining(e)) = Remaining(e)
      BY <1>1, <3>1, WrappedFacts
    <3> QED
      BY <1>1, <1>2, <1>5, <3>2 DEF NotNegative
  <2> QED
    BY <1>1, <2>2, <2>3, PausableAssumption
<1> QED
  BY <1>3, <1>4, <1>5, RemainingStep

(* While no subtraction wraps, every step keeps it at no more than that.    *)
LEMMA NotTooLongStep ==
    IInv /\ NothingWraps /\ NotTooLong /\ [LooseNext]_vars => NotTooLong'
<1> SUFFICES ASSUME IInv, NothingWraps, NotTooLong, [LooseNext]_vars,
                    NEW e \in Entries, Waiting(e)'
             PROVE  NotNegative(Remaining(e)') <= NotNegative(Owed(e)')
  BY DEF NotTooLong, NotNegative
<1>1. Spent(e) \in 0..MaxTime /\ Remaining(e) \in Int /\ Owed(e) \in Int
  BY SpentFacts
<1>2. Waiting(e) => NotNegative(Remaining(e)) <= NotNegative(Owed(e))
  BY DEF NotTooLong
<1>3. ASSUME NEW d \in Delays, Remaining(e)' = d, Owed(e)' = d
      PROVE  NotNegative(Remaining(e)') <= NotNegative(Owed(e)')
  BY <1>3, PausableAssumption DEF NotNegative
<1>4. ASSUME Waiting(e), NEW k \in Nat, Remaining(e)' = Remaining(e) - k, Owed(e)' = Owed(e) - k
      PROVE  NotNegative(Remaining(e)') <= NotNegative(Owed(e)')
  BY <1>1, <1>2, <1>4 DEF NotNegative
<1>5. ASSUME Waiting(e), Owed(e)' = Owed(e), Remaining(e)' = NotNegative(Wrapped(Remaining(e)))
      PROVE  NotNegative(Remaining(e)') <= NotNegative(Owed(e)')
  <2>1. Remaining(e) \in MinDuration..MaxDuration
    <3>1. delay[e] \in MinDuration..MaxDuration /\ delay[e] - MaxTime >= MinDuration
      BY DEF IInv, TypeOK, NothingWraps
    <3> QED
      BY <1>1, <3>1, PausableAssumption DEF Remaining
  <2>2. Wrapped(Remaining(e)) = Remaining(e)
    BY <1>1, <2>1, WrappedFacts
  <2> QED
    BY <1>1, <1>2, <1>5, <2>2 DEF NotNegative
<1> QED
  BY <1>3, <1>4, <1>5, RemainingStep

(* Every step keeps the delays away from where a subtraction wraps.         *)
LEMMA NothingWrapsStep ==
    NoDelayWraps /\ IInv /\ NothingWraps /\ [LooseNext]_vars => NothingWraps'
<1> SUFFICES ASSUME NoDelayWraps, IInv, NothingWraps, [LooseNext]_vars, NEW e \in Entries
             PROVE  delay'[e] - MaxTime >= MinDuration
  BY DEF NothingWraps
<1>1. CASE UNCHANGED delay
  BY <1>1 DEF NothingWraps
<1>2. ASSUME NEW g \in Goroutines, NEW x \in Entries, NEW d \in Delays, AfterFunc(g, x, d)
      PROVE  delay'[e] - MaxTime >= MinDuration
  <2>1. delay'[e] \in {delay[e], d}
    BY <1>2, TimeFacts DEF AfterFunc
  <2> QED
    BY <2>1 DEF NothingWraps, NoDelayWraps
<1>3. ASSUME NEW g \in Goroutines, NEW x \in Entries, PauseEntry(g, x)
      PROVE  delay'[e] - MaxTime >= MinDuration
  <2> DEFINE r == NotNegative(Wrapped(delay[x] - (read[g] - dispatchedAt[x])))
  <2>1. delay' = delay \/ delay' = [delay EXCEPT ![x] = r]
    BY <1>3 DEF PauseEntry, entries
  <2>2. r \in Nat
    <3>1. delay[x] - (read[g] - dispatchedAt[x]) \in Int
      BY TimeFacts
    <3> QED
      BY <3>1, WrappedFacts, PausableAssumption DEF NotNegative
  <2> HIDE DEF r
  <2>3. delay'[e] = delay[e] \/ delay'[e] = r
    BY <2>1, TimeFacts
  <2>4. 0 - MaxTime >= MinDuration
    BY DEF NoDelayWraps
  <2> QED
    BY <2>2, <2>3, <2>4, PausableAssumption DEF NothingWraps
<1>4. ASSUME NEW g \in Goroutines, NEW x \in Entries,
             \/ ResumeEntry(g, x)
             \/ StopFound(g, x) \/ StopNotFound(g, x)
             \/ AfterFuncDispatches(g) \/ AfterFuncTracks(g)
             \/ Pause(g) \/ Resume(g) \/ LoopEnds(g)
      PROVE  UNCHANGED delay
  BY <1>4 DEF ResumeEntry, StopFound, StopNotFound, AfterFuncDispatches, AfterFuncTracks, Pause,
     Resume, LoopEnds, entries
<1>5. ASSUME NEW t \in BaseTimers, Taken(t) \/ Callback(t) \/ CallbackEnds(t)
      PROVE  UNCHANGED delay
  BY <1>5 DEF Taken, Callback, CallbackEnds, entries
<1>6. CASE UNCHANGED vars \/ TimePasses
  BY <1>1, <1>6 DEF TimePasses, vars, entries
<1> QED
  BY <1>1, <1>2, <1>3, <1>4, <1>5, <1>6 DEF LooseNext, Continue

(* Every step keeps the times the base is given late enough.                *)
LEMMA DueInTimeStep == IInv /\ SameClock /\ DueInTime /\ [Next]_vars => DueInTime'
<1> SUFFICES ASSUME IInv, SameClock, DueInTime, [Next]_vars, NEW u \in BaseTimers, status'[u] = "pending"
             PROVE  at'[u] >= dispatchedAt'[u[1]] + NotNegative(delay'[u[1]])
  BY DEF DueInTime, NotNegative
<1> DEFINE e == u[1]
           Late == at'[u] >= dispatchedAt'[e] + NotNegative(delay'[e])
<1>1. /\ e \in Entries /\ TimerOK(u) /\ u # None
      /\ status \in [BaseTimers -> B!Statuses]
      /\ TypeOK
  BY TimerFacts DEF IInv, TypeOK
<1>2. ASSUME status[u] = "pending", at'[u] = at[u], dispatchedAt'[e] = dispatchedAt[e],
             delay'[e] = delay[e]
      PROVE  Late
  BY <1>2 DEF DueInTime, NotNegative
<1>3. ASSUME status'[u] = status[u], UNCHANGED <<at, dispatchedAt, delay>>
      PROVE  Late
  BY <1>2, <1>3
<1>4. CASE UNCHANGED vars \/ Tick
  BY <1>3, <1>4 DEF Tick, vars, base, entries
<1>5. ASSUME NEW t \in BaseTimers, BaseStarts(t)
      PROVE  Late
  <2>1. u # t /\ status[u] = "pending"
    BY <1>1, <1>5 DEF BaseStarts, B!Start
  <2>2. at'[u] = at[u]
    BY <1>5, <2>1, TimeFacts DEF BaseStarts
  <2> QED
    BY <1>2, <1>5, <2>1, <2>2 DEF BaseStarts, entries
<1>6. ASSUME NEW t \in BaseTimers, Callback(t) \/ CallbackEnds(t)
      PROVE  Late
  <2>1. status[u] = "pending"
    BY <1>1, <1>6 DEF Callback, CallbackEnds, B!Return, B!Panic
  <2> QED
    BY <1>3, <1>6, <2>1 DEF Callback, CallbackEnds, entries
<1>7. ASSUME NEW g \in Goroutines, NEW x \in Entries, NEW d \in Delays, AfterFunc(g, x, d)
      PROVE  Late
  <2>1. status[u] = "pending" /\ at' = at
    BY <1>7 DEF AfterFunc, base
  <2>2. x # e
    BY <1>7, <2>1, NotCreated DEF AfterFunc
  <2>3. delay'[e] = delay[e] /\ dispatchedAt'[e] = dispatchedAt[e]
    BY <1>1, <1>7, <2>2, TimeFacts DEF AfterFunc
  <2> QED
    BY <1>2, <2>1, <2>3
<1>8. ASSUME NEW g \in Goroutines, NEW x \in Entries, StopFound(g, x)
      PROVE  Late
  <2> DEFINE t == baseTimer[x]
  <2>1. \/ UNCHANGED base
        \/ t \in BaseTimers /\ status' = [status EXCEPT ![t] = "stopped"]
           /\ at' = [at EXCEPT ![t] = NoTime]
        \/ t \in BaseTimers /\ status[t] # "pending" /\ status' = status
           /\ at' = [at EXCEPT ![t] = NoTime]
    BY <1>1, <1>8, StopFoundFacts
  <2>2. UNCHANGED <<delay, dispatchedAt>>
    BY <1>8 DEF StopFound, entries
  <2> HIDE DEF t
  <2>3. status[u] = "pending" /\ at'[u] = at[u]
    BY <1>1, <2>1, TimeFacts DEF base
  <2> QED
    BY <1>2, <2>2, <2>3
<1>9. ASSUME NEW g \in Goroutines, NEW x \in Entries,
             \/ StopNotFound(g, x)
             \/ Pause(g) \/ Resume(g) \/ LoopEnds(g) \/ AfterFuncTracks(g)
      PROVE  Late
  BY <1>3, <1>9 DEF StopNotFound, Pause, Resume, LoopEnds, AfterFuncTracks, base, entries
<1>10. ASSUME NEW g \in Goroutines, NEW x \in Entries, PauseEntry(g, x)
       PROVE  Late
  <2>1. /\ status' = [status EXCEPT ![baseTimer[x]] = IF @ = "pending" THEN "stopped" ELSE @]
        /\ at' = [at EXCEPT ![baseTimer[x]] = NoTime]
    BY <1>10 DEF PauseEntry, BaseStop
  <2>2. u # baseTimer[x] /\ status[u] = "pending"
    BY <1>1, <2>1
  <2>3. x # e
    BY <1>1, <2>2 DEF TimerOK, Live
  <2>4. delay'[e] = delay[e] /\ dispatchedAt' = dispatchedAt
    BY <1>1, <1>10, <2>3, TimeFacts DEF PauseEntry, entries
  <2>5. at'[u] = at[u]
    BY <2>1, <2>2, TimeFacts
  <2> QED
    BY <1>2, <2>2, <2>4, <2>5
<1>11. ASSUME NEW x \in Entries, NEW t \in BaseTimers, Dispatch(x, t), baseTimer[x] = None,
              delay' = delay,
              dispatchedAt'[x] \in Nat, dispatchedAt'[x] <= clock,
              \A y \in Entries \ {x} : dispatchedAt'[y] = dispatchedAt[y]
       PROVE  Late
  <2>1. /\ status' = [status EXCEPT ![t] = "pending"]
        /\ at' = [at EXCEPT ![t] = clock + NotNegative(delay[x])]
        /\ t[1] = x
    BY <1>11 DEF Dispatch, B!AfterFunc, SameClock
  <2>2. CASE u = t
    <3>1. at'[u] = clock + NotNegative(delay[x]) /\ delay[x] \in Int
      BY <2>1, <2>2, TimeFacts
    <3> QED
      BY <1>11, <2>1, <2>2, <3>1, TimeFacts DEF NotNegative
  <2>3. CASE u # t
    <3>1. status[u] = "pending" /\ at'[u] = at[u]
      BY <1>1, <2>1, <2>3, TimeFacts
    <3>2. e # x
      BY <1>1, <1>11, <3>1 DEF TimerOK, Live
    <3> QED
      BY <1>1, <1>2, <1>11, <3>1, <3>2
  <2> QED
    BY <2>2, <2>3
<1>12. ASSUME NEW g \in Goroutines, AfterFuncDispatches(g)
       PROVE  Late
  <2>1. /\ pc[g] = "dispatch" /\ entry[g] \in Entries /\ entry[g] \notin handles
        /\ UNCHANGED <<delay, dispatchedAt>>
    BY <1>1, <1>12 DEF AfterFuncDispatches, IInv, LockOK, TypeOK
  <2>2. dispatchedAt[entry[g]] \in Nat /\ dispatchedAt[entry[g]] <= clock
    BY <2>1, TimeFacts DEF IInv, ClocksOK
  <2>3. baseTimer[entry[g]] = None
    <3>1. ~Held(entry[g])
      BY <2>1, LockTaken, TimerFacts DEF Held, EntryOK
    <3>2. EntryOK(entry[g]) /\ (baseTimer[entry[g]] # None =>
              baseTimer[entry[g]] \in BaseTimers /\ baseTimer[entry[g]][1] = entry[g])
      BY <2>1, TimerFacts
    <3> QED
      BY <2>1, <3>1, <3>2, TimerFacts DEF EntryOK, TimerOK
  <2> QED
    BY <1>11, <1>12, <2>1, <2>2, <2>3 DEF AfterFuncDispatches
<1>13. ASSUME NEW g \in Goroutines, NEW x \in Entries, ResumeEntry(g, x)
       PROVE  Late
  <2>1. /\ pc[g] = "resume" /\ x \in left[g] /\ delay' = delay
        /\ dispatchedAt' = [dispatchedAt EXCEPT ![x] = read[g]]
    BY <1>13 DEF ResumeEntry
  <2>2. baseTimer[x] = None
    BY <2>1 DEF IInv, BaseTimerMatchesPause, LockOK, Suspended
  <2>3. /\ dispatchedAt'[x] = read[g] /\ read[g] \in Nat /\ read[g] <= clock
        /\ \A y \in Entries \ {x} : dispatchedAt'[y] = dispatchedAt[y]
    BY <2>1, TimeFacts DEF IInv, ClocksOK
  <2> QED
    BY <1>11, <1>13, <2>1, <2>2, <2>3 DEF ResumeEntry
<1> QED
  BY <1>1, <1>4, <1>5, <1>6, <1>7, <1>8, <1>9, <1>10, <1>12, <1>13 DEF Next, Continue

(* No step but one of the base itself makes a function begin to run.        *)
LEMMA NothingElseStarts ==
    ASSUME IInv, NEW t \in BaseTimers, B!Running(t)', ~B!Running(t),
           \/ \E u \in BaseTimers : Callback(u) \/ CallbackEnds(u)
           \/ \E g \in Goroutines :
                \/ Continue(g)
                \/ Pause(g) \/ Resume(g)
                \/ \E e \in Entries :
                     \/ \E d \in Delays : AfterFunc(g, e, d)
                     \/ StopFound(g, e) \/ StopNotFound(g, e)
    PROVE  FALSE
<1>1. status \in [BaseTimers -> B!Statuses] /\ TypeOK
  BY DEF IInv, TypeOK
<1>2. status'[t] = "running" /\ status[t] # "running"
  BY DEF B!Running
<1>3. ASSUME NEW u \in BaseTimers, Callback(u) \/ CallbackEnds(u)
      PROVE  FALSE
  BY <1>1, <1>2, <1>3 DEF Callback, CallbackEnds, B!Return, B!Panic
<1>4. ASSUME NEW g \in Goroutines, NEW x \in Entries,
             \/ \E d \in Delays : AfterFunc(g, x, d)
             \/ StopNotFound(g, x)
      PROVE  FALSE
  BY <1>2, <1>4 DEF AfterFunc, StopNotFound, base
<1>5. ASSUME NEW g \in Goroutines, NEW x \in Entries, StopFound(g, x)
      PROVE  FALSE
  <2>1. status' = status \/ status' = [status EXCEPT ![baseTimer[x]] = "stopped"]
    BY <1>1, <1>5, StopFoundFacts DEF base
  <2> QED
    BY <1>1, <1>2, <2>1
<1>6. ASSUME NEW g \in Goroutines,
             Pause(g) \/ Resume(g) \/ LoopEnds(g) \/ AfterFuncTracks(g)
      PROVE  FALSE
  BY <1>2, <1>6 DEF Pause, Resume, LoopEnds, AfterFuncTracks, base
<1>7. ASSUME NEW g \in Goroutines, NEW x \in Entries, PauseEntry(g, x)
      PROVE  FALSE
  BY <1>1, <1>2, <1>7 DEF PauseEntry, BaseStop
<1>8. ASSUME NEW g \in Goroutines,
              AfterFuncDispatches(g) \/ \E x \in Entries : ResumeEntry(g, x)
       PROVE  FALSE
  BY <1>1, <1>2, <1>8 DEF AfterFuncDispatches, ResumeEntry, Dispatch, B!AfterFunc
<1> QED
  BY <1>3, <1>4, <1>5, <1>6, <1>7, <1>8 DEF Continue

(* A function begins to run only when the base takes it.                    *)
LEMMA OnlyBaseStarts ==
    ASSUME IInv, [Next]_vars, NEW t \in BaseTimers, B!Running(t)', ~B!Running(t)
    PROVE  BaseStarts(t)
<1>1. status \in [BaseTimers -> B!Statuses]
  BY DEF IInv, TypeOK
<1>2. ASSUME UNCHANGED vars \/ Tick
      PROVE  FALSE
  BY <1>2 DEF Tick, vars, base, B!Running
<1>3. ASSUME NEW u \in BaseTimers, BaseStarts(u)
      PROVE  BaseStarts(t)
  BY <1>1, <1>3 DEF BaseStarts, B!Start, B!Running
<1> QED
  BY <1>2, <1>3, NothingElseStarts DEF Next

(* An entry with a live timer, or none, waits as long as that timer has not *)
(* been taken.                                                              *)
LEMMA HeldWaits ==
    ASSUME IInv, NEW e \in Entries, Held(e),
           baseTimer[e] = None \/ status[baseTimer[e]] = "pending"
    PROVE  Waiting(e)
<1>1. /\ EntryOK(e)
      /\ baseTimer[e] # None => baseTimer[e] \in BaseTimers
      /\ \A t \in BaseTimers : TimerOK(t) /\ t # None
  BY TimerFacts
<1>2. Created(e)
  BY <1>1 DEF Held, EntryOK, Created
<1>3. TRUE \notin answers[e]
  <2>1. CASE e \in tracked
    BY <1>1, <2>1 DEF EntryOK
  <2>2. ASSUME NEW g \in Goroutines, pc[g] = "track", entry[g] = e PROVE e \notin handles
    BY <2>2 DEF IInv, LockOK
  <2> QED
    BY <1>1, <2>1, <2>2 DEF Held, EntryOK
<1>4. ASSUME NEW t \in BaseTimers, t[1] = e, status[t] \in {"running", "done"} PROVE FALSE
  BY <1>1, <1>4 DEF TimerOK, Live
<1> QED
  BY <1>2, <1>3, <1>4 DEF Waiting

(* No step takes a function before its delay has elapsed.                   *)
LEMMA NeverEarlyStep ==
    ASSUME IInv, SameClock, NotTooShort, DueInTime, [Next]_vars,
           NEW t \in BaseTimers, B!Running(t)', ~B!Running(t)
    PROVE  elapsed[t[1]] + SincePause(t[1]) >= original[t[1]]
<1> DEFINE e == t[1]
<1>1. status[t] = "pending" /\ at[t] <= clock
  BY OnlyBaseStarts DEF BaseStarts, B!Start, SameClock
<1>2. e \in Entries /\ Held(e) /\ baseTimer[e] = t /\ t # None
  BY <1>1, TimerFacts DEF TimerOK, Live
<1>3. NotNegative(Owed(e)) <= NotNegative(Remaining(e))
  BY <1>1, <1>2, HeldWaits DEF NotTooShort
<1>4. /\ clock \in Nat /\ at[t] \in Nat /\ delay[e] \in Int /\ dispatchedAt[e] \in Nat
      /\ original[e] \in Int /\ elapsed[e] \in Nat
      /\ \A g \in Goroutines : read[g] \in Nat /\ read[g] <= clock
      /\ dispatchedAt[e] <= clock
  BY <1>2, TimeFacts DEF IInv, ClocksOK
<1>5. delay[e] <= clock - dispatchedAt[e]
  BY <1>1, <1>4 DEF DueInTime, NotNegative
<1>6. ~Suspended(e) /\ (e \in tracked \/ ~paused)
  <2>1. e \in tracked => ~Suspended(e)
    BY <1>2 DEF IInv, BaseTimerMatchesPause
  <2>2. e \notin tracked => ~paused
    BY <1>2 DEF Held, IInv, LockOK
  <2> QED
    BY <2>1, <2>2 DEF Suspended
<1>7. CASE \E g \in Goroutines : pc[g] = "pause" /\ e \in left[g]
  <2>1. PICK g \in Goroutines : pc[g] = "pause" /\ e \in left[g]
    BY <1>7
  <2>2. mu = g /\ g # None /\ (CHOOSE h \in Goroutines : pc[h] = "pause") = g
    BY <2>1, LockTaken, TimeFacts
  <2>3. SincePause(e) = clock - read[g]
    BY <2>1, <2>2 DEF SincePause
  <2>4. Spent(e) = read[g] - dispatchedAt[e]
    BY <2>1, <2>2 DEF Spent
  <2> QED
    BY <1>3, <1>4, <1>5, <2>3, <2>4 DEF Owed, Remaining, NotNegative
<1>8. CASE ~\E g \in Goroutines : pc[g] = "pause" /\ e \in left[g]
  <2>1. SincePause(e) = 0
    BY <1>8 DEF SincePause
  <2>2. ~paused /\ ~\E g \in Goroutines : pc[g] = "resume" /\ e \in left[g]
    BY <1>6, <1>8 DEF Suspended, IInv, LockOK
  <2>3. Spent(e) = clock - dispatchedAt[e]
    BY <1>8, <2>2, TimeFacts DEF Spent
  <2> QED
    BY <1>3, <1>4, <1>5, <2>1, <2>3 DEF Owed, Remaining, NotNegative
<1> QED
  BY <1>7, <1>8

(* Before any call nothing waits, and no delay is set.                      *)
LEMMA TimeInit ==
    ASSUME Init
    PROVE  SameClock /\ NotTooShort /\ NotTooLong /\ DueInTime /\ (NoDelayWraps => NothingWraps)
<1>1. \A e \in Entries : ~Waiting(e) /\ delay[e] = 0
  BY DEF Init, Waiting, Created, NoTime
<1>2. \A t \in BaseTimers : status[t] # "pending"
  BY DEF Init
<1> QED
  BY <1>1, <1>2 DEF NotTooShort, NotTooLong, DueInTime, NoDelayWraps, NothingWraps, SameClock, Init

(* No function is taken before its delay has elapsed outside of pauses,     *)
(* whatever the delays: one so negative that Pause wraps it round is due    *)
(* later, and never earlier.                                                *)
THEOREM NoneIsEarly == Spec => NeverEarly
<1> DEFINE Inv == IInv /\ SameClock /\ NotTooShort /\ DueInTime
<1>1. Init => Inv
  BY IInvInit, TimeInit
<1>2. Inv /\ [Next]_vars => Inv'
  BY NextIsLoose, IInvStep, SameClockStep, NotTooShortStep, DueInTimeStep
<1>3. Inv /\ [Next]_vars =>
        [\A t \in BaseTimers :
            B!Running(t)' /\ ~B!Running(t) =>
                elapsed[t[1]] + SincePause(t[1]) >= original[t[1]]]_vars
  BY NeverEarlyStep
<1> HIDE DEF Inv
<1> QED
  BY <1>1, <1>2, <1>3, PTL DEF Spec, NeverEarly

(* What remains of a suspended timer is the delay it is kept with.          *)
LEMMA RemainderFacts == IInv /\ NotTooShort /\ NotTooLong => RemainingIsExact
<1> SUFFICES ASSUME IInv, NotTooShort, NotTooLong, NEW e \in Entries, paused, Suspended(e)
             PROVE  NotNegative(delay[e]) = NotNegative(original[e] - elapsed[e])
  BY DEF RemainingIsExact
<1>1. e \in tracked /\ baseTimer[e] = None
  BY DEF IInv, BaseTimerMatchesPause, Suspended
<1>2. Waiting(e)
  BY <1>1, HeldWaits DEF Held
<1>3. ~\E g \in Goroutines : pc[g] \in {"pause", "resume"} /\ e \in left[g]
  BY DEF Suspended, IInv, LockOK
<1>4. Spent(e) = 0
  BY <1>3, TimeFacts DEF Spent
<1>5. Remaining(e) = delay[e] /\ Owed(e) = original[e] - elapsed[e]
  BY <1>4, TimeFacts DEF Remaining, Owed
<1> QED
  BY <1>2, <1>5, SpentFacts DEF NotTooShort, NotTooLong, NotNegative

(* While no delay is so negative that a subtraction wraps, a suspended      *)
(* timer has exactly what is owed to its caller left.  The extreme delays   *)
(* have to be excluded: with them it does not hold.                         *)
THEOREM RemainderIsExact ==
    NoDelayWraps => (Spec => []RemainingIsExact) /\ (VirtualSpec => []RemainingIsExact)
<1> SUFFICES ASSUME NoDelayWraps
             PROVE  (Spec => []RemainingIsExact) /\ (VirtualSpec => []RemainingIsExact)
  OBVIOUS
<1> DEFINE Inv == IInv /\ NotTooShort /\ NotTooLong /\ NothingWraps
<1>1. Init => Inv
  BY IInvInit, TimeInit
<1>2. Inv /\ [LooseNext]_vars => Inv'
  BY IInvStep, NotTooShortStep, NotTooLongStep, NothingWrapsStep
<1>3. Inv => RemainingIsExact
  BY RemainderFacts
<1> HIDE DEF Inv
<1> QED
  BY <1>1, <1>2, <1>3, SpecIsLoose, VirtualSpecIsLoose, PTL DEF LooseSpec

-----------------------------------------------------------------------------
(* pausable.Dispatcher keeps the contract of task.Dispatcher and task.Timer *)
(* over any base that keeps it, whatever the bounds.                        *)

(* The timer of the base that a Status speaks of.                           *)
Has(e, s) == \E t \in BaseTimers : t[1] = e /\ status[t] = s

StatusIs(e) ==
    IF Has(e, "running") THEN "running"
    ELSE IF Has(e, "done") THEN "done"
    ELSE IF TRUE \in answers[e] THEN "stopped"
    ELSE IF Created(e) THEN "pending"
    ELSE "unused"

(* StatusIs is the Status of the mapping, before and after a step.          *)
LEMMA StatusDef ==
    /\ \A e \in Entries : Status(e) = StatusIs(e)
    /\ \A e \in Entries : Status(e)' = StatusIs(e)'
BY DEF Status, StatusIs, Has

(* What the status of an entry says about its last timer of the base, about *)
(* the answers of Stop and about whether it waits.                          *)
LEMMA StatusMeaning ==
    ASSUME IInv, NEW e \in Entries
    PROVE  /\ Status(e) \in {"unused", "pending", "running", "done", "stopped"}
           /\ Has(e, "running") <=> baseTimer[e] # None /\ status[baseTimer[e]] = "running"
           /\ Has(e, "done") <=> baseTimer[e] # None /\ status[baseTimer[e]] = "done"
           /\ Status(e) = "running" <=> Has(e, "running")
           /\ Status(e) = "pending" <=> Waiting(e)
           /\ Status(e) = "unused" <=> ~Created(e)
<1>1. /\ EntryOK(e)
      /\ baseTimer[e] # None => baseTimer[e] \in BaseTimers /\ baseTimer[e][1] = e
      /\ \A t \in BaseTimers : TimerOK(t) /\ t # None
  BY TimerFacts
<1>2. ASSUME NEW s \in {"running", "done"}
      PROVE  Has(e, s) <=> baseTimer[e] # None /\ status[baseTimer[e]] = s
  BY <1>1 DEF Has, TimerOK, Live
<1>3. Has(e, "running") \/ Has(e, "done") \/ TRUE \in answers[e] => Created(e)
  <2>1. ASSUME ~Created(e) PROVE ~Has(e, "running") /\ ~Has(e, "done") /\ TRUE \notin answers[e]
    BY <2>1, NotCreated DEF Has
  <2> QED
    BY <2>1
<1>4. Waiting(e) <=> /\ Created(e) /\ TRUE \notin answers[e]
                     /\ ~Has(e, "running") /\ ~Has(e, "done")
  BY DEF Waiting, Has
<1> QED
  BY <1>2, <1>3, <1>4, StatusDef DEF StatusIs

(* A step after which every entry is created, has been told TRUE or has a   *)
(* taken timer exactly when it was before is invisible to the contract.     *)
LEMMA StatusFrame ==
    ASSUME UNCHANGED <<answers, halted>>,
           \A e \in Entries :
              /\ Created(e)' <=> Created(e)
              /\ Has(e, "running")' <=> Has(e, "running")
              /\ Has(e, "done")' <=> Has(e, "done")
    PROVE  UNCHANGED P!vars
<1>1. \A e \in Entries : Status(e)' = Status(e)
  BY StatusDef DEF StatusIs
<1> QED
  BY <1>1 DEF P!vars

(* Only AfterFunc makes entries; what that means for a step that is not one *)
(* of its first steps.                                                      *)
LEMMA NothingIsCreated ==
    ASSUME IInv, [LooseNext]_vars, UNCHANGED entry \/ \E g \in Goroutines : AfterFuncTracks(g)
    PROVE  \A x \in Entries : Created(x)' <=> Created(x)
<1> SUFFICES ASSUME NEW x \in Entries, Created(x)' PROVE Created(x)
  BY CreatedStep
<1> SUFFICES ASSUME NEW g \in Goroutines, NEW d \in Delays, AfterFunc(g, x, d) PROVE FALSE
  BY CreatedStep
<1>1. mu = None /\ entry' = [entry EXCEPT ![g] = x]
  BY DEF AfterFunc, Acquire
<1>2. entry[g] = None /\ x # None /\ \A h \in Goroutines : pc[h] = "idle"
  BY <1>1, LockFree, TimerFacts
<1>3. entry'[g] = x
  BY <1>1 DEF IInv, TypeOK
<1> QED
  BY <1>2, <1>3 DEF AfterFuncTracks

(* The steps the contract does not see.                                     *)
LEMMA StutteringSteps ==
    ASSUME IInv, [LooseNext]_vars,
           \/ UNCHANGED vars
           \/ TimePasses
           \/ \E t \in BaseTimers : Callback(t)
           \/ \E g \in Goroutines :
                \/ Pause(g) \/ Resume(g) \/ LoopEnds(g)
                \/ AfterFuncDispatches(g) \/ AfterFuncTracks(g)
                \/ \E e \in Entries : PauseEntry(g, e) \/ ResumeEntry(g, e)
    PROVE  UNCHANGED P!vars
<1>1. /\ UNCHANGED <<answers, halted>>
      /\ UNCHANGED entry \/ \E g \in Goroutines : AfterFuncTracks(g)
  <2>1. CASE UNCHANGED vars \/ TimePasses \/ \E t \in BaseTimers : Callback(t)
    BY <2>1 DEF vars, TimePasses, Callback, threads, base, history
  <2>2. ASSUME NEW g \in Goroutines,
               \/ Pause(g) \/ Resume(g) \/ LoopEnds(g)
               \/ AfterFuncDispatches(g) \/ AfterFuncTracks(g)
        PROVE  <1>1!:
    BY <2>2 DEF Pause, Resume, LoopEnds, AfterFuncDispatches, AfterFuncTracks, Dispatch,
       B!AfterFunc, base, history
  <2>3. ASSUME NEW g \in Goroutines, NEW e \in Entries, PauseEntry(g, e) \/ ResumeEntry(g, e)
        PROVE  <1>1!:
    BY <2>3 DEF PauseEntry, ResumeEntry, BaseStop, Dispatch, B!AfterFunc, history
  <2> QED
    BY <2>1, <2>2, <2>3
<1>2. \A e \in Entries : Created(e)' <=> Created(e)
  BY <1>1, NothingIsCreated
<1>3. ASSUME NEW t \in BaseTimers, NEW s \in {"running", "done"}
      PROVE  status'[t] = s <=> status[t] = s
  <2>1. status \in [BaseTimers -> B!Statuses]
    BY DEF IInv, TypeOK
  <2>2. CASE UNCHANGED vars \/ TimePasses \/ \E u \in BaseTimers : Callback(u)
    BY <2>2 DEF vars, TimePasses, Callback, base
  <2>3. ASSUME NEW g \in Goroutines,
               Pause(g) \/ Resume(g) \/ LoopEnds(g) \/ AfterFuncTracks(g)
        PROVE  status'[t] = s <=> status[t] = s
    BY <2>3 DEF Pause, Resume, LoopEnds, AfterFuncTracks, base
  <2>4. ASSUME NEW u \in BaseTimers, NEW e, Dispatch(e, u)
        PROVE  status'[t] = s <=> status[t] = s
    BY <2>1, <2>4 DEF Dispatch, B!AfterFunc
  <2>5. ASSUME NEW g \in Goroutines, NEW e \in Entries, PauseEntry(g, e)
        PROVE  status'[t] = s <=> status[t] = s
    BY <2>1, <2>5 DEF PauseEntry, BaseStop
  <2> QED
    BY <2>2, <2>3, <2>4, <2>5 DEF AfterFuncDispatches, ResumeEntry
<1>4. ASSUME NEW e \in Entries, NEW s \in {"running", "done"}
      PROVE  Has(e, s)' <=> Has(e, s)
  BY <1>3, <1>4 DEF Has
<1> QED
  BY <1>1, <1>2, <1>4, StatusFrame

(* The base takes a function: the contract's function starts.               *)
LEMMA TakenIsStart ==
    ASSUME IInv, [LooseNext]_vars, NEW t \in BaseTimers, Taken(t)
    PROVE  P!Start(t[1])
<1> DEFINE e == t[1]
<1>1. /\ status \in [BaseTimers -> B!Statuses]
      /\ e \in Entries /\ Held(e) /\ baseTimer[e] = t /\ status[t] = "pending"
      /\ status' = [status EXCEPT ![t] = "running"]
      /\ UNCHANGED <<answers, halted, entry>> /\ ~halted
      /\ \A u \in BaseTimers : status[u] # "running"
  BY TimerFacts
     DEF Taken, B!Start, B!Running, threads, history, TimerOK, Live, IInv, TypeOK
<1>2. \A x \in Entries : Created(x)' <=> Created(x)
  BY <1>1, NothingIsCreated
<1>3. Status(e) = "pending"
  BY <1>1, HeldWaits, StatusMeaning
<1>4. /\ Has(e, "running")'
      /\ \A x \in Entries \ {e} : Has(x, "running")' <=> Has(x, "running")
      /\ \A x \in Entries : Has(x, "done")' <=> Has(x, "done")
  BY <1>1 DEF Has
<1>5. \A x \in Entries : Status(x)' = IF x = e THEN "running" ELSE Status(x)
  BY <1>1, <1>2, <1>4, StatusDef DEF StatusIs
<1>6. \A x \in Entries : Status(x) # "running"
  BY <1>1, StatusMeaning DEF Has
<1> HIDE DEF e
<1>7. [x \in Entries |-> Status(x)]' = [[x \in Entries |-> Status(x)] EXCEPT ![e] = "running"]
  BY <1>5
<1>8. P!Start(e)
  BY <1>1, <1>3, <1>6, <1>7 DEF P!Start, P!Running
<1> QED
  BY <1>8 DEF e

(* A callback ends: the contract's function returns or panics.              *)
LEMMA CallbackEndsIsEnd ==
    ASSUME IInv, [LooseNext]_vars, NEW t \in BaseTimers, CallbackEnds(t)
    PROVE  P!Return(t[1]) \/ P!Panic(t[1])
<1> DEFINE e == t[1]
<1>1. /\ status \in [BaseTimers -> B!Statuses]
      /\ e \in Entries /\ status[t] = "running"
      /\ status' = [status EXCEPT ![t] = "done"]
      /\ UNCHANGED <<answers, entry>>
      /\ halted' = halted \/ halted' = TRUE
  BY TimerFacts
     DEF CallbackEnds, B!Return, B!Panic, B!Running, threads, history, IInv, TypeOK
<1>2. \A x \in Entries : Created(x)' <=> Created(x)
  BY <1>1, NothingIsCreated
<1>3. \A u \in BaseTimers : status[u] = "running" <=> u = t
  BY <1>1, TimerFacts DEF OneRuns, B!Running
<1>4. /\ Has(e, "running") /\ Has(e, "done")'
      /\ \A x \in Entries : ~Has(x, "running")'
      /\ \A x \in Entries \ {e} : ~Has(x, "running") /\ (Has(x, "done")' <=> Has(x, "done"))
  BY <1>1, <1>3 DEF Has
<1>5. \A x \in Entries : Status(x)' = IF x = e THEN "done" ELSE Status(x)
  BY <1>1, <1>2, <1>4, StatusDef DEF StatusIs
<1>6. Status(e) = "running"
  BY <1>1, <1>4, StatusMeaning
<1> HIDE DEF e
<1>7. [x \in Entries |-> Status(x)]' = [[x \in Entries |-> Status(x)] EXCEPT ![e] = "done"]
  BY <1>5
<1>8. P!Return(e) \/ P!Panic(e)
  BY <1>1, <1>6, <1>7 DEF P!Return, P!Panic, P!Running
<1> QED
  BY <1>8 DEF e

(* AfterFunc is AfterFunc as soon as it has the lock.                       *)
LEMMA AfterFuncIsAfterFunc ==
    ASSUME IInv, [LooseNext]_vars, NEW g \in Goroutines, NEW e \in Entries, NEW d \in Delays,
           AfterFunc(g, e, d)
    PROVE  P!AfterFunc(e)
<1>1. /\ ~Created(e)
      /\ UNCHANGED <<status, answers, halted, handles>>
      /\ entry' = [entry EXCEPT ![g] = e]
      /\ pc' = [pc EXCEPT ![g] = IF paused THEN "track" ELSE "dispatch"]
      /\ mu = None
  BY DEF AfterFunc, Acquire, base
<1>2. /\ entry \in [Goroutines -> Entries \cup {None}]
      /\ pc \in [Goroutines -> {"idle", "dispatch", "track", "pause", "resume"}]
      /\ \A h \in Goroutines : pc[h] = "idle" /\ entry[h] = None
      /\ None \notin Entries
  BY <1>1, LockFree, TimerFacts DEF IInv, TypeOK
<1>3. /\ Created(e)'
      /\ \A x \in Entries \ {e} : Created(x)' <=> Created(x)
  <2>1. /\ entry'[g] = e /\ pc'[g] # "idle"
        /\ \A h \in Goroutines \ {g} : pc'[h] = "idle"
    BY <1>1, <1>2
  <2> QED
    BY <1>1, <1>2, <2>1 DEF Created
<1>4. /\ TRUE \notin answers[e]
      /\ ~Has(e, "running") /\ ~Has(e, "done")
      /\ \A x \in Entries :
           (Has(x, "running")' <=> Has(x, "running")) /\ (Has(x, "done")' <=> Has(x, "done"))
  BY <1>1, NotCreated DEF Has
<1>5. \A x \in Entries : Status(x)' = IF x = e THEN "pending" ELSE Status(x)
  BY <1>1, <1>3, <1>4, StatusDef DEF StatusIs
<1>6. Status(e) = "unused"
  BY <1>1, StatusMeaning
<1>7. [x \in Entries |-> Status(x)]' = [[x \in Entries |-> Status(x)] EXCEPT ![e] = "pending"]
  BY <1>5
<1> QED
  BY <1>1, <1>6, <1>7 DEF P!AfterFunc

(* Stop is Stop, and answers as the contract says.                          *)
LEMMA StopIsStop ==
    ASSUME IInv, [LooseNext]_vars, NEW g \in Goroutines, NEW e \in Entries,
           StopFound(g, e) \/ StopNotFound(g, e)
    PROVE  P!Stop(e)
<1>1. /\ TypeOK
      /\ status \in [BaseTimers -> B!Statuses] /\ answers \in [Entries -> SUBSET BOOLEAN]
      /\ baseTimer[e] # None => baseTimer[e] \in BaseTimers /\ baseTimer[e][1] = e
      /\ EntryOK(e) /\ None \notin BaseTimers
  BY TimerFacts DEF IInv, TypeOK
<1>2. /\ \A x \in Entries : Created(x)' <=> Created(x)
      /\ Created(e)
  <2>1. UNCHANGED entry /\ e \in handles
    BY <1>1 DEF StopFound, StopNotFound, threads, EntryOK
  <2> QED
    BY <2>1, NothingIsCreated DEF Created
<1>3. ASSUME NEW b \in BOOLEAN, answers' = [answers EXCEPT ![e] = @ \cup {b}],
             b <=> Waiting(e),
             UNCHANGED halted,
             \A t \in BaseTimers, s \in {"running", "done"} : status'[t] = s <=> status[t] = s
      PROVE  P!Stop(e)
  <2>1. \A x \in Entries :
           (Has(x, "running")' <=> Has(x, "running")) /\ (Has(x, "done")' <=> Has(x, "done"))
    BY <1>3 DEF Has
  <2>2. \A x \in Entries \ {e} : TRUE \in answers'[x] <=> TRUE \in answers[x]
    BY <1>1, <1>3
  <2>3. \A x \in Entries \ {e} : Status(x)' = Status(x)
    BY <1>2, <2>1, <2>2, StatusDef DEF StatusIs
  <2>4. Status(e) # "unused" /\ (Status(e) = "pending") = b
    <3>1. Status(e) # "unused" /\ (Status(e) = "pending" <=> Waiting(e))
      BY <1>2, StatusMeaning
    <3> QED
      BY <1>3, <3>1
  <2>5. Status(e)' = IF Status(e) = "pending" THEN "stopped" ELSE Status(e)
    <3>1. CASE Waiting(e)
      <4>1. ~Has(e, "running") /\ ~Has(e, "done") /\ Status(e) = "pending"
        BY <3>1, StatusMeaning DEF Waiting, Has
      <4>2. TRUE \in answers'[e]
        BY <1>1, <1>3, <3>1
      <4> QED
        BY <2>1, <4>1, <4>2, StatusDef DEF StatusIs
    <3>2. CASE ~Waiting(e)
      <4>1. TRUE \in answers'[e] <=> TRUE \in answers[e]
        BY <1>1, <1>3, <3>2
      <4>2. Status(e) # "pending"
        BY <3>2, StatusMeaning
      <4> QED
        BY <1>2, <2>1, <4>1, <4>2, StatusDef DEF StatusIs
    <3> QED
      BY <3>1, <3>2
  <2>6. [x \in Entries |-> Status(x)]' =
        [[x \in Entries |-> Status(x)] EXCEPT ![e] = IF @ = "pending" THEN "stopped" ELSE @]
    BY <2>3, <2>5
  <2> QED
    BY <1>3, <2>4, <2>6 DEF P!Stop
<1>4. CASE StopNotFound(g, e)
  <2>1. /\ e \in handles \ tracked
        /\ answers' = [answers EXCEPT ![e] = @ \cup {FALSE}]
        /\ UNCHANGED <<status, halted>>
    BY <1>4 DEF StopNotFound, StopAnswers, base
  <2>2. ~Waiting(e)
    BY <1>1, <2>1 DEF EntryOK, Over, Waiting
  <2> QED
    BY <1>3, <2>1, <2>2
<1>5. CASE StopFound(g, e)
  <2> DEFINE t == baseTimer[e]
  <2>1. e \in tracked /\ Held(e)
    BY <1>5 DEF StopFound, Held
  <2>2. CASE /\ t = None \/ status[t] = "pending"
             /\ answers' = [answers EXCEPT ![e] = @ \cup {TRUE}]
             /\ UNCHANGED halted
             /\ status' = status
                  \/ (t \in BaseTimers /\ status' = [status EXCEPT ![t] = "stopped"])
    <3>1. Waiting(e)
      BY <2>1, <2>2, HeldWaits
    <3>2. \A u \in BaseTimers, s \in {"running", "done"} : status'[u] = s <=> status[u] = s
      <4> HIDE DEF t
      <4>1. t = None => status' = status
        BY <1>1, <2>2
      <4> QED
        BY <1>1, <2>2, <4>1
    <3> QED
      BY <1>3, <2>2, <3>1, <3>2
  <2>3. CASE /\ t \in BaseTimers /\ status[t] # "pending"
             /\ answers' = [answers EXCEPT ![e] = @ \cup {FALSE}]
             /\ UNCHANGED <<status, halted>>
    <3>1. t[1] = e /\ status[t] \in {"running", "done"}
      BY <1>1, <2>1, <2>3 DEF EntryOK, Live
    <3>2. ~Waiting(e)
      BY <2>3, <3>1 DEF Waiting
    <3> QED
      BY <1>3, <2>3, <3>2
  <2> QED
    BY <1>1, <1>5, <2>2, <2>3, StopFoundFacts DEF base
<1> QED
  BY <1>4, <1>5

(* The initial state is one of the contract.                                *)
LEMMA RefinementInit == Init => P!Init
<1> SUFFICES ASSUME Init PROVE P!Init
  OBVIOUS
<1>1. \A e \in Entries : Status(e) = "unused"
  BY StatusDef DEF Init, StatusIs, Has, Created
<1> QED
  BY <1>1 DEF P!Init, Init

(* Every step is a step of the contract, or invisible to it.                *)
LEMMA RefinementStep == IInv /\ [LooseNext]_vars => [P!Next]_(P!vars)
<1> SUFFICES ASSUME IInv, [LooseNext]_vars PROVE P!Next \/ UNCHANGED P!vars
  OBVIOUS
<1>1. \A t \in BaseTimers : t[1] \in Entries
  BY TimerFacts
<1>2. ASSUME NEW t \in BaseTimers, Taken(t) \/ CallbackEnds(t)
      PROVE  P!Next
  BY <1>1, <1>2, TakenIsStart, CallbackEndsIsEnd DEF P!Next
<1>3. ASSUME NEW g \in Goroutines, NEW e \in Entries,
             \/ \E d \in Delays : AfterFunc(g, e, d)
             \/ StopFound(g, e) \/ StopNotFound(g, e)
      PROVE  P!Next
  BY <1>3, AfterFuncIsAfterFunc, StopIsStop DEF P!Next
<1> QED
  BY <1>2, <1>3, StutteringSteps DEF LooseNext, Continue

(* pausable.Dispatcher keeps the contract of task.Dispatcher and task.Timer *)
(* over any base that keeps it, with any delays and any number of Pauses.   *)
THEOREM Refinement == (Spec => IsADispatcher) /\ (VirtualSpec => IsADispatcher)
<1>1. LooseSpec => P!Spec
  BY RefinementInit, RefinementStep, Invariance, PTL DEF LooseSpec, P!Spec
<1> QED
  BY <1>1, SpecIsLoose, VirtualSpecIsLoose DEF IsADispatcher
-----------------------------------------------------------------------------
(* A dispatcher that is never paused, over virtual time, is itself a        *)
(* dispatcher with time.                                                    *)

(* An entry has one timer of the base at most, its first, with the delay    *)
(* AfterFunc was given.                                                     *)
Unpaused ==
    /\ ~paused
    /\ \A g \in Goroutines :
        /\ pc[g] \notin {"pause", "resume"}
        /\ pc[g] = "dispatch" => delay[entry[g]] \in Delays
    /\ \A t \in BaseTimers :
        /\ status[t] # "unused" => t = First(t[1])
        /\ status[t] # "pending" => at[t] = 0

UInv == IInv /\ TargetOK /\ Unpaused

(* The status of an entry and when it is due, as the mapping has them.      *)
StatusC(e) == IF TRUE \in answers[e] THEN "stopped" ELSE status[First(e)]
statusC == [e \in Entries |-> StatusC(e)]
dueC == [e \in Entries |-> at[First(e)]]

(* What the invariant says of an entry and its only timer.                  *)
LEMMA UnpausedFacts ==
    ASSUME UInv, NEW e \in Entries
    PROVE  /\ First(e) \in BaseTimers /\ First(e)[1] = e
           /\ baseTimer[e] \in {None, First(e)}
           /\ e \in tracked => baseTimer[e] = First(e) /\ TRUE \notin answers[e]
           /\ Live(First(e)) => TRUE \notin answers[e]
           /\ e \in handles \ tracked =>
                TRUE \in answers[e] \/ status[First(e)] \in {"running", "done"}
<1>1. First(e) \in BaseTimers /\ First(e)[1] = e
  BY PausableAssumption DEF First, BaseTimers
<1>2. /\ EntryOK(e) /\ TimerOK(First(e))
      /\ baseTimer[e] # None => baseTimer[e] \in BaseTimers /\ baseTimer[e][1] = e
  BY <1>1, TimerFacts DEF UInv
<1>3. baseTimer[e] \in {None, First(e)}
  BY <1>2 DEF EntryOK, UInv, Unpaused
<1>4. e \in tracked => baseTimer[e] # None
  <2>1. ~Suspended(e)
    BY DEF UInv, Unpaused, Suspended
  <2> QED
    BY <2>1 DEF UInv, IInv, BaseTimerMatchesPause
<1>5. Live(First(e)) => TRUE \notin answers[e]
  <2>1. Live(First(e)) => baseTimer[e] = First(e)
    BY <1>1, <1>2 DEF TimerOK
  <2>2. First(e) # None
    BY <1>1, TimerFacts DEF UInv
  <2> QED
    BY <1>2, <2>1, <2>2 DEF EntryOK, Live
<1>6. e \in tracked => TRUE \notin answers[e]
  BY <1>2 DEF EntryOK
<1>7. e \in handles \ tracked => TRUE \in answers[e] \/ status[First(e)] \in {"running", "done"}
  BY <1>2, <1>3 DEF EntryOK, Over
<1> QED
  BY <1>1, <1>3, <1>4, <1>5, <1>6, <1>7

(* A step that changes the status and the time of one timer at most.        *)
LEMMA UnpausedFrame ==
    ASSUME UInv, UNCHANGED paused,
           \A g \in Goroutines :
              /\ pc'[g] \notin {"pause", "resume"}
              /\ pc'[g] = "dispatch" => delay'[entry'[g]] \in Delays,
           \A t \in BaseTimers :
              \/ status'[t] = status[t] /\ at'[t] = at[t]
              \/ t = First(t[1]) /\ (status'[t] # "pending" => at'[t] = 0)
    PROVE  Unpaused'
BY DEF UInv, Unpaused

(* Starting a function is what the contract with time says it is.           *)
LEMMA BaseRunsIsStart ==
    ASSUME UInv, NEW t \in BaseTimers, BaseRuns(t)
    PROVE  C!Start(t[1]) /\ Unpaused'
<1> DEFINE e == t[1]
<1>1. /\ status[t] = "pending" /\ ~halted
      /\ \A u \in BaseTimers : status[u] # "running"
      /\ status' = [status EXCEPT ![t] = "running"]
      /\ target # -1 /\ at[t] <= target
      /\ \A u \in BaseTimers : status[u] = "pending" => at[t] <= at[u]
      /\ baseClock' = at[t] /\ at' = [at EXCEPT ![t] = 0]
      /\ UNCHANGED <<halted, target, answers, paused, entries, threads>>
  BY DEF BaseRuns, T!Start, T!D!Start, T!D!Running, T!Pending, T!NoTarget
<1>2. /\ status \in [BaseTimers -> B!Statuses] /\ at \in [BaseTimers -> Nat]
      /\ e \in Entries /\ t = First(e)
  BY <1>1, TimerFacts DEF UInv, IInv, TypeOK, Unpaused
<1>3. \A x \in Entries : First(x) \in BaseTimers /\ First(x)[1] = x
  BY UnpausedFacts
<1>4. TRUE \notin answers[e]
  BY <1>1, <1>2, UnpausedFacts DEF Live
<1> HIDE DEF e
<1>5. statusC[e] = "pending" /\ statusC' = [statusC EXCEPT ![e] = "running"]
  <2>1. \A x \in Entries : StatusC(x)' = IF x = e THEN "running" ELSE StatusC(x)
    BY <1>1, <1>2, <1>3, <1>4 DEF StatusC
  <2>2. StatusC(e) = "pending"
    BY <1>1, <1>2, <1>4 DEF StatusC
  <2> QED
    BY <1>2, <2>1, <2>2 DEF statusC
<1>6. \A x \in Entries : statusC[x] # "running" /\ (statusC[x] = "pending" => dueC[e] <= dueC[x])
  BY <1>1, <1>2, <1>3 DEF statusC, StatusC, dueC
<1>7. dueC[e] = at[t] /\ dueC' = [dueC EXCEPT ![e] = 0]
  <2>1. \A x \in Entries : at'[First(x)] = IF x = e THEN 0 ELSE at[First(x)]
    BY <1>1, <1>2, <1>3
  <2> QED
    BY <1>2, <2>1 DEF dueC
<1>8. C!D!Start(e)
  BY <1>1, <1>5, <1>6 DEF C!D!Start, C!D!Running, statusC, StatusC
<1>9. C!Start(e)
  BY <1>1, <1>6, <1>7, <1>8 DEF C!Start, C!Pending, C!NoTarget, statusC, StatusC, dueC
<1>10. Unpaused'
  <2>1. \A u \in BaseTimers : u # t => status'[u] = status[u] /\ at'[u] = at[u]
    BY <1>1, <1>2
  <2>2. status'[t] # "pending" /\ at'[t] = 0
    BY <1>1, <1>2
  <2> QED
    BY <1>1, <1>2, <2>1, <2>2, UnpausedFrame DEF UInv, Unpaused, entries, threads, e
<1> QED
  BY <1>9, <1>10 DEF e

(* So is the end of a FastForward.                                          *)
LEMMA FastForwardReturnsIsIt ==
    ASSUME UInv, FastForwardReturns
    PROVE  (C!Advanced \/ C!Failed) /\ Unpaused'
<1>1. /\ UNCHANGED <<status, halted, at, answers, paused, entries, threads>>
      /\ \A u \in BaseTimers : status[u] # "running"
      /\ target # -1 /\ target' = -1
      /\ \/ /\ ~halted
            /\ \A u \in BaseTimers : status[u] = "pending" => at[u] > target
            /\ baseClock' = IF target > baseClock THEN target ELSE baseClock
         \/ halted /\ baseClock' = baseClock
  BY DEF FastForwardReturns, T!Advanced, T!Failed, T!NoneRuns, T!Pending, T!D!Running, T!NoTarget,
     history
<1>2. \A x \in Entries : First(x) \in BaseTimers
  BY UnpausedFacts
<1>3. /\ \A x \in Entries : statusC[x] # "running"
      /\ \A x \in Entries : statusC[x] = "pending" => dueC[x] = at[First(x)] /\ status[First(x)] = "pending"
      /\ statusC' = statusC /\ dueC' = dueC
  BY <1>1, <1>2 DEF statusC, StatusC, dueC
<1>4. C!Advanced \/ C!Failed
  BY <1>1, <1>2, <1>3
     DEF C!Advanced, C!Failed, C!NoneRuns, C!Pending, C!D!Running, C!NoTarget, statusC, StatusC, dueC
<1>5. Unpaused'
  BY <1>1 DEF UInv, Unpaused, entries, threads
<1> QED
  BY <1>4, <1>5

(* The end of a callback is the end of the function.                        *)
LEMMA CallbackEndsIsTheEnd ==
    ASSUME UInv, NEW t \in BaseTimers, CallbackEnds(t), UNCHANGED target
    PROVE  C!End(t[1]) /\ Unpaused'
<1> DEFINE e == t[1]
<1>1. /\ status[t] = "running"
      /\ status' = [status EXCEPT ![t] = "done"]
      /\ halted' = halted \/ halted' = TRUE
      /\ UNCHANGED <<baseClock, at, answers, paused, entries, threads>>
  BY DEF CallbackEnds, B!Return, B!Panic, B!Running, history
<1>2. /\ status \in [BaseTimers -> B!Statuses] /\ at \in [BaseTimers -> Nat]
      /\ e \in Entries /\ t = First(e) /\ at[t] = 0
  BY <1>1, TimerFacts DEF UInv, IInv, TypeOK, Unpaused
<1>3. \A x \in Entries : First(x) \in BaseTimers /\ First(x)[1] = x
  BY UnpausedFacts
<1>4. TRUE \notin answers[e]
  BY <1>1, <1>2, UnpausedFacts DEF Live
<1> HIDE DEF e
<1>5. statusC[e] = "running" /\ statusC' = [statusC EXCEPT ![e] = "done"] /\ dueC' = dueC
  <2>1. \A x \in Entries : StatusC(x)' = IF x = e THEN "done" ELSE StatusC(x)
    <3>1. \A x \in Entries : status'[First(x)] = IF x = e THEN "done" ELSE status[First(x)]
      BY <1>1, <1>2, <1>3
    <3> QED
      BY <1>1, <1>4, <3>1 DEF StatusC
  <2>2. StatusC(e) = "running"
    BY <1>1, <1>2, <1>4 DEF StatusC
  <2> QED
    BY <1>1, <1>2, <2>1, <2>2 DEF statusC, dueC
<1>6. C!D!Return(e) \/ C!D!Panic(e)
  BY <1>1, <1>5 DEF C!D!Return, C!D!Panic, C!D!Running, statusC, StatusC
<1>7. C!End(e)
  BY <1>1, <1>5, <1>6 DEF C!End, dueC
<1>8. Unpaused'
  <2>1. \A u \in BaseTimers : u # t => status'[u] = status[u]
    BY <1>1, <1>2
  <2> QED
    BY <1>1, <1>2, <2>1, UnpausedFrame DEF UInv, Unpaused, entries, threads, e
<1> QED
  BY <1>7, <1>8 DEF e

(* AfterFunc schedules when it gives the entry to the base.                 *)
LEMMA DispatchesIsAfterFunc ==
    ASSUME UInv, NEW g \in Goroutines, AfterFuncDispatches(g), UNCHANGED target
    PROVE  (\E e \in Entries, d \in Delays : C!AfterFunc(e, d)) /\ Unpaused'
<1>0. pc[g] = "dispatch" /\ entry[g] \in Entries
  BY DEF AfterFuncDispatches, UInv, IInv, LockOK, TypeOK
<1> PICK e \in Entries : e = entry[g]
  BY <1>0
<1> PICK d \in Delays : d = delay[e]
  BY <1>0 DEF UInv, Unpaused
<1>1. /\ pc[g] = "dispatch" /\ pc' = [pc EXCEPT ![g] = "track"]
      /\ UNCHANGED <<baseClock, paused, delay, entry, answers>>
  BY DEF AfterFuncDispatches, history
<1>2. PICK t \in BaseTimers : Dispatch(e, t)
  BY DEF AfterFuncDispatches
<1>3. /\ e \notin handles
      /\ status \in [BaseTimers -> B!Statuses] /\ at \in [BaseTimers -> Nat]
      /\ pc \in [Goroutines -> {"idle", "dispatch", "track", "pause", "resume"}]
  BY <1>1 DEF UInv, IInv, LockOK, TypeOK, Unpaused
<1>4. \A x \in Entries : First(x) \in BaseTimers /\ First(x)[1] = x
  BY UnpausedFacts
<1>5. /\ TRUE \notin answers[e]
      /\ \A u \in BaseTimers : u[1] = e => status[u] = "unused"
  <2>1. EntryOK(e) /\ \A u \in BaseTimers : TimerOK(u)
    BY <1>3, TimerFacts DEF UInv
  <2>2. \A h \in Goroutines : pc[h] # "track"
    BY <1>1, LockTaken DEF UInv
  <2> QED
    BY <1>3, <2>1, <2>2 DEF EntryOK, TimerOK, Held
<1>6. t = First(e)
  <2>1. t[1] = e /\ t[2] \in 1..MaxDispatches /\ t = <<t[1], t[2]>>
    BY <1>2 DEF Dispatch, BaseTimers
  <2>2. \A n \in 1..(t[2] - 1) : status[<<e, n>>] # "unused"
    BY <1>2 DEF Dispatch
  <2>3. ASSUME t[2] # 1 PROVE FALSE
    <3>1. 1 \in 1..(t[2] - 1)
      BY <2>1, <2>3, PausableAssumption
    <3>2. status[First(e)] # "unused"
      BY <2>2, <3>1 DEF First
    <3> QED
      BY <1>3, <1>4, <1>5, <3>2
  <2> QED
    BY <2>1, <2>3 DEF First
<1>7. /\ status' = [status EXCEPT ![t] = "pending"] /\ halted' = halted
      /\ at' = [at EXCEPT ![t] = baseClock + (IF d > 0 THEN d ELSE 0)]
  BY <1>2 DEF Dispatch, B!AfterFunc, NotNegative
<1>8. statusC[e] = "unused" /\ statusC' = [statusC EXCEPT ![e] = "pending"]
  <2>1. \A x \in Entries : StatusC(x)' = IF x = e THEN "pending" ELSE StatusC(x)
    <3>1. \A x \in Entries : status'[First(x)] = IF x = e THEN "pending" ELSE status[First(x)]
      BY <1>3, <1>4, <1>6, <1>7
    <3> QED
      BY <1>1, <1>5, <3>1 DEF StatusC
  <2>2. StatusC(e) = "unused"
    BY <1>3, <1>4, <1>5 DEF StatusC
  <2> QED
    BY <1>3, <2>1, <2>2 DEF statusC
<1>9. dueC' = [dueC EXCEPT ![e] = baseClock + (IF d > 0 THEN d ELSE 0)]
  <2> DEFINE n == baseClock + (IF d > 0 THEN d ELSE 0)
  <2>1. at' = [at EXCEPT ![t] = n]
    BY <1>7
  <2> HIDE DEF n
  <2>2. \A x \in Entries : at'[First(x)] = IF x = e THEN n ELSE at[First(x)]
    BY <1>3, <1>4, <1>6, <2>1
  <2>3. dueC' = [dueC EXCEPT ![e] = n]
    BY <1>3, <2>2 DEF dueC
  <2> QED
    BY <2>3 DEF n
<1>10. C!D!AfterFunc(e)
  BY <1>1, <1>7, <1>8 DEF C!D!AfterFunc, statusC, StatusC
<1>11. C!AfterFunc(e, d)
  BY <1>1, <1>9, <1>10 DEF C!AfterFunc, dueC
<1>12. Unpaused'
  <2>1. \A u \in BaseTimers : u # t => status'[u] = status[u] /\ at'[u] = at[u]
    BY <1>3, <1>7
  <2>2. status'[t] = "pending"
    BY <1>3, <1>7
  <2>3. \A h \in Goroutines :
          /\ pc'[h] \notin {"pause", "resume"}
          /\ pc'[h] = "dispatch" => delay'[entry'[h]] \in Delays
    BY <1>1, <1>3 DEF UInv, Unpaused
  <2> QED
    BY <1>1, <1>4, <1>3, <1>6, <2>1, <2>2, <2>3, UnpausedFrame
<1> QED
  BY <1>11, <1>12

(* Stop is the contract's, found or not.                                    *)
LEMMA StopIsStopInTime ==
    ASSUME UInv, NEW g \in Goroutines, NEW e \in Entries,
           StopFound(g, e) \/ StopNotFound(g, e), UNCHANGED target
    PROVE  C!Stop(e) /\ Unpaused'
<1> DEFINE t == First(e)
<1>1. /\ status \in [BaseTimers -> B!Statuses] /\ at \in [BaseTimers -> Nat]
      /\ answers \in [Entries -> SUBSET BOOLEAN]
      /\ TypeOK /\ None \notin BaseTimers
      /\ t \in BaseTimers
      /\ UNCHANGED <<baseClock, paused, delay, entry, pc>>
  BY TimerFacts, UnpausedFacts DEF UInv, IInv, TypeOK, StopFound, StopNotFound, entries, threads
<1>2. \A x \in Entries : First(x) \in BaseTimers /\ First(x)[1] = x
  BY UnpausedFacts
<1>3. ASSUME NEW b \in BOOLEAN, answers' = [answers EXCEPT ![e] = @ \cup {b}],
             b <=> statusC[e] = "pending", statusC[e] # "unused",
             halted' = halted,
             status' = [status EXCEPT ![t] = IF @ = "pending" THEN "stopped" ELSE @],
             at' = [at EXCEPT ![t] = 0],
             b <=> status[t] = "pending",
             b => TRUE \notin answers[e]
      PROVE  C!Stop(e) /\ Unpaused'
  <2> HIDE DEF t
  <2>1. \A x \in Entries : x # e => First(x) # t
    BY <1>2 DEF t
  <2>2. \A u \in BaseTimers : u # t => status'[u] = status[u] /\ at'[u] = at[u]
    BY <1>1, <1>3
  <2>3. /\ status'[t] = IF b THEN "stopped" ELSE status[t]
        /\ at'[t] = 0
        /\ TRUE \in answers'[e] <=> TRUE \in answers[e] \/ b
    BY <1>1, <1>3
  <2>4. \A x \in Entries : x # e => StatusC(x)' = StatusC(x) /\ at'[First(x)] = at[First(x)]
    BY <1>1, <1>2, <1>3, <2>1, <2>2 DEF StatusC
  <2>5. StatusC(e)' = IF statusC[e] = "pending" THEN "stopped" ELSE statusC[e]
    BY <1>3, <2>3 DEF StatusC, statusC, t
  <2>6. statusC' = [statusC EXCEPT ![e] = IF @ = "pending" THEN "stopped" ELSE @]
    BY <2>4, <2>5 DEF statusC
  <2>7. dueC' = [dueC EXCEPT ![e] = 0]
    BY <2>3, <2>4 DEF dueC, t
  <2>8. answers' = [answers EXCEPT ![e] = @ \cup {statusC[e] = "pending"}]
    <3>1. (statusC[e] = "pending") = b
      BY <1>3
    <3> QED
      BY <1>3, <3>1
  <2>9. C!D!Stop(e)
    BY <1>3, <2>6, <2>8 DEF C!D!Stop, statusC, StatusC
  <2>10. C!Stop(e)
    BY <1>1, <2>7, <2>9 DEF C!Stop, dueC
  <2>11. Unpaused'
    BY <1>1, <1>2, <2>2, <2>3, UnpausedFrame DEF UInv, Unpaused, t
  <2> QED
    BY <2>10, <2>11
<1>4. CASE StopFound(g, e)
  <2>1. /\ e \in tracked /\ baseTimer[e] = t /\ TRUE \notin answers[e] /\ t # None
    BY <1>1, <1>4, UnpausedFacts DEF StopFound
  <2>2. BaseStop(t) /\ StopAnswers(e, status[t] = "pending")
    BY <1>4, <2>1 DEF StopFound
  <2>3. Live(t)
    BY <2>1, TimerFacts DEF UInv, EntryOK, Held
  <2>4. statusC[e] = status[t] /\ statusC[e] # "unused"
    BY <2>1, <2>3 DEF statusC, StatusC, Live
  <2> DEFINE b == status[t] = "pending"
  <2>5. b \in BOOLEAN /\ answers' = [answers EXCEPT ![e] = @ \cup {b}]
    BY <2>2 DEF StopAnswers
  <2>6. /\ status' = [status EXCEPT ![t] = IF @ = "pending" THEN "stopped" ELSE @]
        /\ at' = [at EXCEPT ![t] = 0] /\ halted' = halted
    BY <2>2 DEF BaseStop, NoTime
  <2> QED
    BY <1>3, <2>1, <2>4, <2>5, <2>6
<1>5. CASE StopNotFound(g, e)
  <2>1. /\ e \in handles \ tracked
        /\ answers' = [answers EXCEPT ![e] = @ \cup {FALSE}]
        /\ UNCHANGED <<status, at, halted>>
    BY <1>5 DEF StopNotFound, StopAnswers, base
  <2>2. statusC[e] \in {"stopped", "running", "done"}
    BY <2>1, UnpausedFacts DEF statusC, StatusC
  <2>3. status[t] # "pending"
    BY <2>1, UnpausedFacts DEF Live
  <2>4. at[t] = 0
    BY <1>1, <2>3 DEF UInv, Unpaused
  <2> HIDE DEF t
  <2>5. /\ status' = [status EXCEPT ![t] = IF @ = "pending" THEN "stopped" ELSE @]
        /\ at' = [at EXCEPT ![t] = 0]
    BY <1>1, <2>1, <2>3, <2>4
  <2> QED
    BY <1>3, <2>1, <2>2, <2>3, <2>5
<1> QED
  BY <1>4, <1>5

(* The steps the contract with time does not see.                           *)
LEMMA UnseenSteps ==
    ASSUME UInv,
           \/ \E t \in BaseTimers : Callback(t)
           \/ \E g \in Goroutines :
                \/ AfterFuncTracks(g)
                \/ \E e \in Entries, d \in Delays : AfterFunc(g, e, d),
           UNCHANGED target
    PROVE  UNCHANGED C!vars /\ Unpaused'
<1>1. UNCHANGED <<status, halted, at, answers, baseClock, paused>>
  BY DEF Callback, AfterFuncTracks, AfterFunc, base, history
<1>2. UNCHANGED C!vars
  BY <1>1 DEF C!vars
<1>3. /\ pc \in [Goroutines -> {"idle", "dispatch", "track", "pause", "resume"}]
      /\ entry \in [Goroutines -> Entries \cup {None}]
      /\ delay \in [Entries -> MinDuration..MaxDuration]
  BY DEF UInv, IInv, TypeOK
<1>4. ASSUME NEW h \in Goroutines
      PROVE  /\ pc'[h] \notin {"pause", "resume"}
             /\ pc'[h] = "dispatch" => delay'[entry'[h]] \in Delays
  <2> DEFINE Fine == /\ pc'[h] \notin {"pause", "resume"}
                     /\ pc'[h] = "dispatch" => delay'[entry'[h]] \in Delays
  <2>1. pc[h] \notin {"pause", "resume"} /\ (pc[h] = "dispatch" => delay[entry[h]] \in Delays)
    BY DEF UInv, Unpaused
  <2>2. ASSUME NEW t \in BaseTimers, Callback(t)
        PROVE  Fine
    BY <2>1, <2>2 DEF Callback, entries, threads
  <2>3. ASSUME NEW g \in Goroutines, AfterFuncTracks(g)
        PROVE  Fine
    <3>1. /\ pc[g] = "track" /\ pc' = [pc EXCEPT ![g] = "idle"]
          /\ entry' = [entry EXCEPT ![g] = None] /\ delay' = delay
      BY <2>3 DEF AfterFuncTracks, Release, entries
    <3>2. h # g => pc'[h] = pc[h] /\ entry'[h] = entry[h]
      BY <1>3, <3>1
    <3>3. pc'[g] = "idle"
      BY <1>3, <3>1
    <3> QED
      BY <2>1, <3>1, <3>2, <3>3
  <2>4. ASSUME NEW g \in Goroutines, NEW e \in Entries, NEW d \in Delays, AfterFunc(g, e, d)
        PROVE  Fine
    <3>1. /\ mu = None
          /\ \E p \in {"track", "dispatch"} : pc' = [pc EXCEPT ![g] = p]
          /\ entry' = [entry EXCEPT ![g] = e] /\ delay' = [delay EXCEPT ![e] = d]
      BY <2>4 DEF AfterFunc, Acquire
    <3>2. h # g => pc'[h] = "idle"
      BY <1>3, <3>1, LockFree DEF UInv
    <3>3. pc'[g] \in {"track", "dispatch"} /\ entry'[g] = e /\ delay'[e] = d
      BY <1>3, <3>1
    <3> QED
      BY <3>2, <3>3
  <2> QED
    BY <2>1, <2>2, <2>3, <2>4
<1>5. Unpaused'
  BY <1>1, <1>4, UnpausedFrame
<1> QED
  BY <1>2, <1>5

(* Every step of a client that never pauses is one of the contract.         *)
LEMMA UnpausedStep ==
    UInv /\ [UnpausedNext]_allVars => Unpaused' /\ [C!Next]_(C!vars)
<1> SUFFICES ASSUME UInv, [UnpausedNext]_allVars
             PROVE  Unpaused' /\ (C!Next \/ UNCHANGED C!vars)
  OBVIOUS
<1>1. CASE UNCHANGED allVars
  BY <1>1 DEF allVars, vars, entries, threads, base, history, C!vars, UInv, Unpaused
<1>2. ASSUME NEW to \in Times, AdvanceTo(to)
      PROVE  Unpaused' /\ C!Next
  <2>1. /\ UNCHANGED <<status, halted, at, answers, baseClock, paused, entries, threads>>
        /\ target = T!NoTarget /\ target' = to
    BY <1>2 DEF AdvanceTo, T!AdvanceTo
  <2>2. C!AdvanceTo(to)
    BY <2>1 DEF C!AdvanceTo, C!NoTarget, T!NoTarget
  <2> QED
    BY <2>1, <2>2 DEF C!Next, UInv, Unpaused, entries, threads
<1>3. \A t \in BaseTimers : t[1] \in Entries
  BY DEF BaseTimers
<1>4. ASSUME NEW t \in BaseTimers, BaseRuns(t)
      PROVE  Unpaused' /\ C!Next
  BY <1>3, <1>4, BaseRunsIsStart DEF C!Next
<1>5. CASE FastForwardReturns
  BY <1>5, FastForwardReturnsIsIt DEF C!Next
<1>6. CASE WrapperActs /\ UNCHANGED <<target, baseElapsed>>
  <2>1. ASSUME NEW t \in BaseTimers, CallbackEnds(t) PROVE Unpaused' /\ C!Next
    BY <1>3, <1>6, <2>1, CallbackEndsIsTheEnd DEF C!Next
  <2>2. ASSUME NEW g \in Goroutines, AfterFuncDispatches(g) PROVE Unpaused' /\ C!Next
    BY <1>6, <2>2, DispatchesIsAfterFunc DEF C!Next
  <2>3. ASSUME NEW g \in Goroutines, NEW e \in Entries, StopFound(g, e) \/ StopNotFound(g, e)
        PROVE  Unpaused' /\ C!Next
    BY <1>6, <2>3, StopIsStopInTime DEF C!Next
  <2>4. ASSUME NEW g \in Goroutines, NEW e \in Entries,
               PauseEntry(g, e) \/ ResumeEntry(g, e) \/ LoopEnds(g)
        PROVE  FALSE
    BY <2>4 DEF PauseEntry, ResumeEntry, LoopEnds, UInv, Unpaused
  <2>5. ASSUME NEW g \in Goroutines, LoopEnds(g) PROVE FALSE
    BY <2>5 DEF LoopEnds, UInv, Unpaused
  <2> QED
    BY <1>6, <2>1, <2>2, <2>3, <2>4, <2>5, UnseenSteps DEF WrapperActs, Continue
<1> QED
  BY <1>1, <1>2, <1>4, <1>5, <1>6 DEF UnpausedNext, BaseActs

(* A client that never pauses starts in a state of its invariant ...        *)
LEMMA UnpausedInit == VirtualInit => UInv
<1> SUFFICES ASSUME VirtualInit PROVE UInv
  OBVIOUS
<1>1. IInv /\ TargetOK
  BY IInvInit DEF VirtualInit, TargetOK
<1>2. /\ \A t \in BaseTimers : status[t] = "unused" /\ at[t] = 0
      /\ \A g \in Goroutines : pc[g] = "idle"
      /\ ~paused
  BY DEF VirtualInit, Init, NoTime
<1> QED
  BY <1>1, <1>2 DEF UInv, Unpaused

(* ... and keeps it.                                                        *)
LEMMA UInvStep == UInv /\ [UnpausedNext]_allVars => UInv'
<1> SUFFICES ASSUME UInv, [UnpausedNext]_allVars PROVE UInv'
  OBVIOUS
<1>1. [VirtualNext]_allVars
  BY DEF UnpausedNext, VirtualNext
<1>2. IInv' /\ TargetOK'
  BY <1>1, VirtualNextIsLoose, IInvStep DEF UInv
<1> QED
  BY <1>2, UnpausedStep DEF UInv

(* A pausable.Dispatcher that is never paused does at every moment what a   *)
(* dispatcher with time does, for any delays, functions that call it and    *)
(* goroutines: what src/task/tasktest tests of both kinds of dispatcher.    *)
THEOREM Conformance == UnpausedSpec => IsATimedDispatcher
<1>1. VirtualInit => C!Init
  <2> SUFFICES ASSUME VirtualInit PROVE C!Init
    OBVIOUS
  <2>1. /\ \A t \in BaseTimers : status[t] = "unused" /\ at[t] = 0
        /\ halted = FALSE /\ answers = [e \in Entries |-> {}]
        /\ baseClock = 0 /\ target = -1
    BY DEF VirtualInit, Init, NoTime, T!NoTarget
  <2>2. \A e \in Entries : StatusC(e) = "unused" /\ at[First(e)] = 0
    BY <2>1, UnpausedInit, UnpausedFacts DEF StatusC
  <2> QED
    BY <2>1, <2>2 DEF C!Init, C!D!Init, C!NoTarget, StatusC
<1>2. UnpausedSpec => C!Spec
  BY <1>1, UnpausedInit, UInvStep, UnpausedStep, PTL DEF UnpausedSpec, C!Spec
<1> QED
  BY <1>2 DEF IsATimedDispatcher

(* Until it is dispatched an entry has the delay it was asked for, and from *)
(* then on what is missing of that delay on the base's clock is no more     *)
(* than what the base still waits.                                          *)
InTime ==
    /\ baseElapsed \in [Entries -> Nat]
    /\ \A g \in Goroutines : pc[g] = "dispatch" => original[entry[g]] = delay[entry[g]]
    /\ \A t \in BaseTimers :
          status[t] = "pending" =>
            at[t] >= baseClock /\ at[t] + baseElapsed[t[1]] >= baseClock + original[t[1]]

(* A step that adds no pending timer and moves no time on.                  *)
LEMMA InTimeFrame ==
    ASSUME InTime, UNCHANGED <<baseClock, baseElapsed>>,
           \A g \in Goroutines : pc'[g] = "dispatch" => original'[entry'[g]] = delay'[entry'[g]],
           \A t \in BaseTimers :
              status'[t] = "pending" =>
                status[t] = "pending" /\ at'[t] = at[t] /\ original'[t[1]] = original[t[1]]
    PROVE  InTime'
BY DEF InTime

(* A step in which the base's clock moves on to where no function is due.   *)
LEMMA InTimePasses ==
    ASSUME UInv, InTime, baseClock' \in Nat, baseClock' >= baseClock,
           UNCHANGED <<pc, entry, delay>>,
           \A t \in BaseTimers :
              status'[t] = "pending" =>
                /\ status[t] = "pending" /\ at'[t] = at[t] /\ at[t] >= baseClock'
                /\ original'[t[1]] = original[t[1]]
                /\ baseElapsed'[t[1]] = baseElapsed[t[1]] + (baseClock' - baseClock),
           baseElapsed' \in [Entries -> Nat],
           \A g \in Goroutines : pc[g] = "dispatch" => original'[entry[g]] = original[entry[g]]
    PROVE  InTime'
<1>1. /\ baseClock \in Nat /\ at \in [BaseTimers -> Nat]
      /\ original \in [Entries -> Int] /\ baseElapsed \in [Entries -> Nat]
      /\ \A t \in BaseTimers : t[1] \in Entries
  BY TimeFacts, TimerFacts DEF UInv, InTime
<1>2. ASSUME NEW t \in BaseTimers, status'[t] = "pending"
      PROVE  /\ at'[t] >= baseClock'
             /\ at'[t] + baseElapsed'[t[1]] >= baseClock' + original'[t[1]]
  <2>1. at[t] >= baseClock /\ at[t] + baseElapsed[t[1]] >= baseClock + original[t[1]]
    BY <1>2 DEF InTime
  <2>2. at[t] \in Nat /\ original[t[1]] \in Int /\ baseElapsed[t[1]] \in Nat
    BY <1>1
  <2> QED
    BY <1>1, <1>2, <2>1, <2>2
<1> QED
  BY <1>2 DEF InTime

(* The base's clock moves on when it starts a function and at the end of a  *)
(* FastForward.                                                             *)
LEMMA InTimeBaseActs ==
    ASSUME UInv, InTime, (\E t \in BaseTimers : BaseRuns(t)) \/ FastForwardReturns
    PROVE  InTime'
<1>1. /\ baseClock \in Nat /\ at \in [BaseTimers -> Nat] /\ status \in [BaseTimers -> B!Statuses]
      /\ original \in [Entries -> Int] /\ baseElapsed \in [Entries -> Nat]
      /\ elapsed \in [Entries -> Nat]
      /\ \A t \in BaseTimers : t[1] \in Entries
      /\ ~paused
  BY TimeFacts, TimerFacts DEF UInv, InTime, IInv, TypeOK, Unpaused
<1>2. ASSUME NEW t \in BaseTimers, status[t] = "pending"
      PROVE  /\ Waiting(t[1]) /\ at[t] >= baseClock
             /\ \A u \in BaseTimers : status[u] = "pending" /\ u[1] = t[1] => u = t
  <2>1. Held(t[1]) /\ baseTimer[t[1]] = t
    BY <1>2, TimerFacts DEF UInv, TimerOK, Live
  <2>2. Waiting(t[1])
    BY <1>1, <1>2, <2>1, HeldWaits DEF UInv
  <2>3. \A u \in BaseTimers : status[u] = "pending" /\ u[1] = t[1] => u = t
    BY <2>1, TimerFacts DEF UInv, TimerOK, Live
  <2> QED
    BY <1>2, <2>2, <2>3 DEF InTime
<1>3. ASSUME NEW t \in BaseTimers, BaseRuns(t)
      PROVE  InTime'
  <2>1. /\ status[t] = "pending" /\ status' = [status EXCEPT ![t] = "running"]
        /\ baseClock' = at[t] /\ at' = [at EXCEPT ![t] = 0]
        /\ \A u \in BaseTimers : status[u] = "pending" => at[t] <= at[u]
        /\ original' = [original EXCEPT ![t[1]] = 0]
        /\ baseElapsed' = [Pass(baseElapsed, at[t] - baseClock) EXCEPT ![t[1]] = 0]
        /\ UNCHANGED <<pc, entry, delay>>
    BY <1>3 DEF BaseRuns, T!Start, T!D!Start, T!Pending, Forget, NoTime, entries, threads
  <2> DEFINE n == at[t] - baseClock
  <2>2. n \in Nat /\ baseClock' \in Nat /\ baseClock' >= baseClock /\ n = baseClock' - baseClock
    BY <1>1, <1>2, <2>1
  <2> HIDE DEF n
  <2>3. \A x \in Entries :
          baseElapsed'[x] = IF x = t[1] THEN 0
                            ELSE IF Waiting(x) /\ ~paused THEN baseElapsed[x] + n ELSE baseElapsed[x]
    BY <1>1, <2>1 DEF Pass, n
  <2>4. baseElapsed' \in [Entries -> Nat]
    <3>1. baseElapsed' = [x \in Entries |-> baseElapsed'[x]]
      BY <2>1 DEF Pass
    <3>2. \A x \in Entries : baseElapsed'[x] \in Nat
      BY <1>1, <2>2, <2>3
    <3> QED
      BY <3>1, <3>2
  <2>5. ASSUME NEW u \in BaseTimers, status'[u] = "pending"
        PROVE  /\ status[u] = "pending" /\ at'[u] = at[u] /\ at[u] >= baseClock'
               /\ original'[u[1]] = original[u[1]]
               /\ baseElapsed'[u[1]] = baseElapsed[u[1]] + (baseClock' - baseClock)
    <3>1. u # t /\ status[u] = "pending"
      BY <1>1, <2>1, <2>5
    <3>2. u[1] # t[1] /\ Waiting(u[1])
      BY <1>2, <2>1, <3>1
    <3>3. at'[u] = at[u] /\ at[u] >= baseClock'
      BY <1>1, <2>1, <3>1
    <3>4. original'[u[1]] = original[u[1]]
      BY <1>1, <2>1, <3>2
    <3>5. baseElapsed'[u[1]] = baseElapsed[u[1]] + n
      BY <1>1, <2>3, <3>2
    <3> QED
      BY <2>2, <3>1, <3>3, <3>4, <3>5
  <2>6. ASSUME NEW g \in Goroutines, pc[g] = "dispatch"
        PROVE  original'[entry[g]] = original[entry[g]]
    <3>1. entry[g] \in Entries /\ entry[g] \notin handles
      BY <2>6 DEF UInv, IInv, LockOK, TypeOK
    <3>2. Held(t[1]) /\ TimerOK(t) /\ EntryOK(t[1]) /\ t[1] \in Entries
      BY <2>1, TimerFacts DEF UInv, TimerOK
    <3>3. \A h \in Goroutines : pc[h] # "track"
      BY <2>6, LockTaken DEF UInv
    <3>4. t[1] \in handles
      BY <3>2, <3>3 DEF Held, EntryOK
    <3> QED
      BY <1>1, <2>1, <3>1, <3>4
  <2> QED
    BY <2>1, <2>2, <2>4, <2>5, <2>6, InTimePasses
<1>4. CASE FastForwardReturns
  <2>1. /\ UNCHANGED <<status, at, pc, entry, delay, original>>
        /\ \/ /\ \A u \in BaseTimers : status[u] = "pending" => at[u] > target
              /\ baseClock' = IF target > baseClock THEN target ELSE baseClock
           \/ baseClock' = baseClock
        /\ target # -1
        /\ baseElapsed' = Pass(baseElapsed, baseClock' - baseClock)
    BY <1>4 DEF FastForwardReturns, T!Advanced, T!Failed, T!Pending, T!NoTarget, history, entries,
       threads
  <2>2. target \in Nat
    BY <2>1 DEF UInv, TargetOK, T!NoTarget
  <2>3. baseClock' \in Nat /\ baseClock' >= baseClock
    BY <1>1, <2>1, <2>2
  <2> DEFINE n == baseClock' - baseClock
  <2>4. n \in Nat
    <3>1. \A x, y \in Nat : x >= y => x - y \in Nat
      OBVIOUS
    <3> QED
      BY <1>1, <2>3, <3>1
  <2> HIDE DEF n
  <2>5. baseElapsed' = [x \in Entries |->
                          IF Waiting(x) /\ ~paused THEN baseElapsed[x] + n ELSE baseElapsed[x]]
    BY <2>1 DEF Pass, n
  <2>6. baseElapsed' \in [Entries -> Nat]
    BY <1>1, <2>4, <2>5
  <2>7. ASSUME NEW u \in BaseTimers, status'[u] = "pending"
        PROVE  /\ status[u] = "pending" /\ at'[u] = at[u] /\ at[u] >= baseClock'
               /\ original'[u[1]] = original[u[1]]
               /\ baseElapsed'[u[1]] = baseElapsed[u[1]] + (baseClock' - baseClock)
    <3>1. status[u] = "pending" /\ at'[u] = at[u] /\ original'[u[1]] = original[u[1]]
      BY <2>1, <2>7
    <3>2. Waiting(u[1]) /\ at[u] >= baseClock
      BY <1>2, <3>1
    <3>3. at[u] >= baseClock'
      BY <1>1, <2>1, <2>2, <3>1, <3>2
    <3>4. baseElapsed'[u[1]] = baseElapsed[u[1]] + n
      BY <1>1, <2>5, <3>2
    <3> QED
      BY <3>1, <3>3, <3>4 DEF n
  <2> QED
    BY <2>1, <2>3, <2>6, <2>7, InTimePasses
<1> QED
  BY <1>3, <1>4

(* The steps of the wrapper.                                                *)
LEMMA InTimeWrapperActs ==
    ASSUME UInv, InTime, WrapperActs, UNCHANGED baseElapsed
    PROVE  InTime'
<1>1. /\ status \in [BaseTimers -> B!Statuses] /\ at \in [BaseTimers -> Nat]
      /\ original \in [Entries -> Int] /\ delay \in [Entries -> Int]
      /\ baseElapsed \in [Entries -> Nat] /\ baseClock \in Nat
      /\ pc \in [Goroutines -> {"idle", "dispatch", "track", "pause", "resume"}]
      /\ entry \in [Goroutines -> Entries \cup {None}]
      /\ \A t \in BaseTimers : t[1] \in Entries
      /\ \A g \in Goroutines : pc[g] = "dispatch" => original[entry[g]] = delay[entry[g]]
  BY TimeFacts, TimerFacts DEF UInv, IInv, TypeOK, InTime
<1>2. ASSUME NEW t \in BaseTimers, Callback(t) \/ CallbackEnds(t)
      PROVE  InTime'
  <2>1. /\ UNCHANGED <<baseClock, at, pc, entry, delay, original>>
        /\ status' = status \/ status' = [status EXCEPT ![t] = "done"]
    BY <1>2 DEF Callback, CallbackEnds, B!Return, B!Panic, entries, threads, history
  <2>2. \A u \in BaseTimers : status'[u] = "pending" => status[u] = "pending"
    BY <1>1, <2>1
  <2> QED
    BY <1>1, <2>1, <2>2, InTimeFrame
<1>3. ASSUME NEW g \in Goroutines, NEW x \in Entries, NEW d \in Delays, AfterFunc(g, x, d)
      PROVE  InTime'
  <2>1. /\ mu = None /\ ~Created(x)
        /\ \E p \in {"track", "dispatch"} : pc' = [pc EXCEPT ![g] = p]
        /\ entry' = [entry EXCEPT ![g] = x]
        /\ delay' = [delay EXCEPT ![x] = d] /\ original' = [original EXCEPT ![x] = d]
        /\ UNCHANGED <<baseClock, status, at>>
    BY <1>3 DEF AfterFunc, Acquire, base
  <2>2. \A t \in BaseTimers : status[t] = "pending" => t[1] # x
    BY <2>1, NotCreated DEF UInv
  <2>3. \A t \in BaseTimers : status[t] = "pending" => original'[t[1]] = original[t[1]]
    BY <1>1, <2>1, <2>2
  <2>4. \A h \in Goroutines : h # g => pc'[h] = "idle"
    BY <1>1, <2>1, LockFree DEF UInv
  <2>5. entry'[g] = x /\ original'[x] = delay'[x]
    BY <1>1, <2>1
  <2>6. \A h \in Goroutines : pc'[h] = "dispatch" => original'[entry'[h]] = delay'[entry'[h]]
    BY <2>4, <2>5
  <2> QED
    BY <2>1, <2>3, <2>6, InTimeFrame
<1>4. ASSUME NEW g \in Goroutines, AfterFuncDispatches(g)
      PROVE  InTime'
  <2>1. /\ pc[g] = "dispatch" /\ pc' = [pc EXCEPT ![g] = "track"]
        /\ UNCHANGED <<baseClock, delay, entry, original>>
    BY <1>4 DEF AfterFuncDispatches, history
  <2>2. PICK t \in BaseTimers : Dispatch(entry[g], t)
    BY <1>4 DEF AfterFuncDispatches
  <2>3. /\ t[1] = entry[g]
        /\ status' = [status EXCEPT ![t] = "pending"]
        /\ at' = [at EXCEPT ![t] = baseClock + NotNegative(delay[entry[g]])]
    BY <2>2 DEF Dispatch, B!AfterFunc
  <2>4. original[t[1]] = delay[t[1]] /\ delay[t[1]] \in Int /\ baseElapsed[t[1]] \in Nat
    BY <1>1, <2>1, <2>3
  <2>5. at'[t] = baseClock + NotNegative(original[t[1]])
    BY <1>1, <2>3, <2>4
  <2>6. at'[t] >= baseClock /\ at'[t] + baseElapsed[t[1]] >= baseClock + original[t[1]]
    BY <1>1, <2>4, <2>5 DEF NotNegative
  <2>7. \A u \in BaseTimers : u # t => status'[u] = status[u] /\ at'[u] = at[u]
    BY <1>1, <2>3
  <2>8. \A h \in Goroutines : pc'[h] = "dispatch" => pc[h] = "dispatch"
    BY <1>1, <2>1
  <2> QED
    BY <1>1, <2>1, <2>6, <2>7, <2>8 DEF InTime
<1>5. ASSUME NEW g \in Goroutines, AfterFuncTracks(g)
      PROVE  InTime'
  <2>1. /\ pc[g] = "track" /\ pc' = [pc EXCEPT ![g] = "idle"]
        /\ entry' = [entry EXCEPT ![g] = None]
        /\ UNCHANGED <<baseClock, status, at, delay, original>>
    BY <1>5 DEF AfterFuncTracks, Release, entries, base
  <2>2. \A h \in Goroutines : pc'[h] = "dispatch" => pc[h] = "dispatch" /\ entry'[h] = entry[h]
    BY <1>1, <2>1
  <2> QED
    BY <1>1, <2>1, <2>2, InTimeFrame
<1>6. ASSUME NEW g \in Goroutines, NEW x \in Entries, StopFound(g, x)
      PROVE  InTime'
  <2> DEFINE t == First(x)
  <2>1. /\ baseTimer[x] = t /\ t \in BaseTimers /\ t # None /\ t[1] = x /\ mu = None
    BY <1>6, UnpausedFacts, TimerFacts DEF StopFound, UInv
  <2>2. /\ BaseStop(t)
        /\ original' = [original EXCEPT ![x] = 0]
        /\ UNCHANGED <<baseClock, pc, entry, delay>>
    BY <1>6, <2>1 DEF StopFound, Forget, NoTime, entries, threads
  <2> HIDE DEF t
  <2>3. /\ status' = [status EXCEPT ![t] = IF @ = "pending" THEN "stopped" ELSE @]
        /\ at' = [at EXCEPT ![t] = 0]
    BY <2>2 DEF BaseStop, NoTime
  <2>4. ASSUME NEW u \in BaseTimers, status'[u] = "pending"
        PROVE  status[u] = "pending" /\ at'[u] = at[u] /\ original'[u[1]] = original[u[1]]
    <3>1. u # t /\ status[u] = "pending" /\ at'[u] = at[u]
      BY <1>1, <2>1, <2>3, <2>4
    <3>2. u[1] # x
      BY <2>1, <3>1, TimerFacts DEF UInv, TimerOK, Live
    <3> QED
      BY <1>1, <2>2, <3>1, <3>2
  <2>5. \A h \in Goroutines : pc'[h] # "dispatch"
    BY <2>1, <2>2, LockFree DEF UInv
  <2> QED
    BY <2>2, <2>4, <2>5, InTimeFrame
<1>7. ASSUME NEW g \in Goroutines, NEW x \in Entries, StopNotFound(g, x)
      PROVE  InTime'
  BY <1>1, <1>7, InTimeFrame DEF StopNotFound, entries, threads, base
<1>8. ASSUME NEW g \in Goroutines, NEW x \in Entries, PauseEntry(g, x) \/ ResumeEntry(g, x)
      PROVE  FALSE
  BY <1>8 DEF PauseEntry, ResumeEntry, UInv, Unpaused
<1>9. ASSUME NEW g \in Goroutines, LoopEnds(g)
      PROVE  FALSE
  BY <1>9 DEF LoopEnds, UInv, Unpaused
<1> QED
  BY <1>2, <1>3, <1>4, <1>5, <1>6, <1>7, <1>8, <1>9 DEF WrapperActs, Continue

(* Without pauses no function runs before its delay has passed on the       *)
(* base's clock: it takes a Pause and a Resume inside of a function to run  *)
(* one early (src/task/tasktest/dispatcher.go:82).                          *)
THEOREM UnpausedInTime == UnpausedSpec => NotBeforeItsDelay
<1>1. VirtualInit => UInv /\ InTime
  <2> SUFFICES ASSUME VirtualInit PROVE InTime
    BY UnpausedInit
  <2>1. /\ \A t \in BaseTimers : status[t] # "pending"
        /\ \A g \in Goroutines : pc[g] # "dispatch"
        /\ baseElapsed \in [Entries -> Nat]
    BY DEF VirtualInit, Init, NoTime
  <2> QED
    BY <2>1 DEF InTime
<1>2. UInv /\ InTime /\ [UnpausedNext]_allVars => InTime'
  <2> SUFFICES ASSUME UInv, InTime, [UnpausedNext]_allVars PROVE InTime'
    OBVIOUS
  <2>1. CASE UNCHANGED allVars
    BY <2>1 DEF allVars, vars, entries, threads, base, history, InTime
  <2>2. ASSUME NEW to \in Times, AdvanceTo(to) PROVE InTime'
    <3>1. UNCHANGED <<status, at, baseClock, original, delay, pc, entry, baseElapsed>>
      BY <2>2 DEF AdvanceTo, T!AdvanceTo, entries, threads
    <3> QED
      BY <3>1 DEF InTime
  <2> QED
    BY <2>1, <2>2, InTimeBaseActs, InTimeWrapperActs DEF UnpausedNext, BaseActs
<1>3. UInv /\ InTime /\ [UnpausedNext]_allVars =>
        [\A t \in BaseTimers :
            B!Running(t)' /\ ~B!Running(t) =>
                \/ elapsed[t[1]] >= original[t[1]]
                \/ baseElapsed[t[1]] + (at[t] - baseClock) >= original[t[1]]]_allVars
  <2> SUFFICES ASSUME UInv, InTime, [UnpausedNext]_allVars, NEW t \in BaseTimers,
                      B!Running(t)', ~B!Running(t)
               PROVE  baseElapsed[t[1]] + (at[t] - baseClock) >= original[t[1]]
    OBVIOUS
  <2>1. status \in [BaseTimers -> B!Statuses] /\ TypeOK
    BY DEF UInv, IInv, TypeOK
  <2>2. status[t] = "pending"
    <3>1. status'[t] = "running" /\ status[t] # "running"
      BY DEF B!Running
    <3>2. ASSUME UNCHANGED status PROVE FALSE
      BY <3>1, <3>2
    <3>3. ASSUME UNCHANGED allVars \/ FastForwardReturns \/ \E to \in Times : AdvanceTo(to)
          PROVE  FALSE
      BY <3>2, <3>3 DEF allVars, vars, base, FastForwardReturns, T!Advanced, T!Failed, AdvanceTo,
         T!AdvanceTo
    <3>4. ASSUME NEW u \in BaseTimers, BaseRuns(u) PROVE status[t] = "pending"
      BY <2>1, <3>1, <3>4 DEF BaseRuns, T!Start, T!D!Start
    <3>5. ASSUME WrapperActs PROVE FALSE
      BY <3>5, NothingElseStarts DEF WrapperActs, UInv
    <3> QED
      BY <3>3, <3>4, <3>5 DEF UnpausedNext, BaseActs
  <2>3. at[t] + baseElapsed[t[1]] >= baseClock + original[t[1]]
    BY <2>2 DEF InTime
  <2>4. at[t] \in Nat /\ baseElapsed[t[1]] \in Nat /\ baseClock \in Nat /\ original[t[1]] \in Int
    BY TimeFacts, TimerFacts DEF UInv, InTime
  <2> QED
    BY <2>3, <2>4
<1> HIDE DEF InTime
<1> QED
  BY <1>1, <1>2, <1>3, UnpausedInit, UInvStep, PTL DEF UnpausedSpec, NotBeforeItsDelay
-----------------------------------------------------------------------------
(* A dispatcher that is paused and resumed between two advances is one with *)
(* time, on a clock that stands still in the pauses.                        *)

(* Who acts when: main only between two advances, functions only within one *)
(* that is not of a paused dispatcher.                                      *)
Turns ==
    /\ \A g \in Goroutines \ {Worker} : pc[g] # "idle" => target = T!NoTarget
    /\ \A t \in BaseTimers : B!Running(t) => target # T!NoTarget /\ ~paused
    /\ pc[Worker] \in {"idle", "dispatch", "track"}
    /\ pc[Worker] # "idle" => \E t \in BaseTimers : B!Running(t)

(* The clock that stands still is behind, and an advance never before it.   *)
SkippedOK ==
    /\ skipped \in Nat /\ skipped <= baseClock
    /\ target # T!NoTarget => skipped <= target

BaseElapsedOK ==
    /\ baseElapsed \in [Entries -> Nat]
    /\ \A e \in Entries : ~Created(e) => baseElapsed[e] = 0

(* How long an entry still has to wait, on the base's clock, if it is not   *)
(* suspended or not any more.                                               *)
Left(e) == IF baseTimer[e] = None THEN NotNegative(delay[e]) ELSE at[baseTimer[e]] - baseClock

LeftIsOwed ==
    ~halted =>
        \A e \in Entries :
            Waiting(e) => Left(e) >= 0 /\ Left(e) = NotNegative(original[e]) - baseElapsed[e]

PausedAlike == ~halted /\ paused => \A e \in Entries : Waiting(e) => elapsed[e] = baseElapsed[e]

BetweenInv ==
    /\ IInv /\ TargetOK /\ NotTooShort /\ NotTooLong /\ NothingWraps
    /\ Turns /\ SkippedOK /\ BaseElapsedOK /\ LeftIsOwed /\ PausedAlike

(* The times of a state, as integers.                                       *)
LEMMA BetweenFacts ==
    ASSUME BetweenInv
    PROVE  /\ IInv /\ clock \in Nat /\ baseClock \in Nat /\ baseClock <= clock /\ skipped \in Nat
           /\ delay \in [Entries -> Int] /\ original \in [Entries -> Int]
           /\ elapsed \in [Entries -> Nat] /\ baseElapsed \in [Entries -> Nat]
           /\ at \in [BaseTimers -> Nat]
           /\ status \in [BaseTimers -> B!Statuses]
           /\ pc \in [Goroutines -> {"idle", "dispatch", "track", "pause", "resume"}]
           /\ baseTimer \in [Entries -> BaseTimers \cup {None}]
           /\ \A t \in BaseTimers : t[1] \in Entries /\ t # None
           /\ target = -1 \/ (target \in Nat /\ target <= clock)
<1>1. IInv /\ TargetOK /\ SkippedOK /\ BaseElapsedOK
  BY DEF BetweenInv
<1>2. baseClock <= clock
  BY <1>1 DEF IInv, ClocksOK
<1>3. /\ status \in [BaseTimers -> B!Statuses]
      /\ baseTimer \in [Entries -> BaseTimers \cup {None}]
  BY <1>1 DEF IInv, TypeOK
<1>4. \A t \in BaseTimers : t[1] \in Entries /\ t # None
  BY <1>1, TimerFacts
<1> QED
  BY <1>1, <1>2, <1>3, <1>4, TimeFacts DEF TargetOK, SkippedOK, BaseElapsedOK, T!NoTarget

(* A step of this client is one of the client of PausableVirtual.           *)
LEMMA BetweenIsVirtual ==
    ASSUME BetweenInv, [BetweenNext]_betweenVars
    PROVE  [VirtualNext]_allVars /\ [LooseNext]_vars
<1>1. MainToggles => Toggles
  BY DEF MainToggles, Toggles
<1>2. [VirtualNext]_allVars
  BY <1>1 DEF BetweenNext, VirtualNext, betweenVars
<1> QED
  BY <1>2, VirtualNextIsLoose DEF BetweenInv

(* An entry that waits has no timer of the base yet, or has none while it   *)
(* is suspended, or has one that is pending.                                *)
LEMMA WaitingTimer ==
    ASSUME IInv, NEW e \in Entries, Waiting(e), baseTimer[e] # None
    PROVE  /\ baseTimer[e] \in BaseTimers /\ baseTimer[e][1] = e
           /\ status[baseTimer[e]] = "pending"
<1>1. /\ EntryOK(e) /\ baseTimer[e] \in BaseTimers /\ baseTimer[e][1] = e
      /\ \A t \in BaseTimers : TimerOK(t)
  BY TimerFacts
<1>2. e \in handles \/ \E g \in Goroutines : entry[g] = e
  BY CreatedMeaning DEF Waiting, IInv
<1>3. Over(baseTimer[e]) => FALSE
  BY <1>1 DEF Over, Waiting
<1>4. Held(e)
  <2>1. CASE e \in handles
    BY <1>1, <1>3, <2>1 DEF EntryOK, Waiting, Held
  <2>2. CASE e \notin handles
    BY <1>1, <2>2 DEF EntryOK, TimerOK
  <2> QED
    BY <2>1, <2>2
<1> QED
  BY <1>1, <1>3, <1>4 DEF EntryOK, Live, Over

(* A timer that is pending is the one of an entry that waits.               *)
LEMMA PendingWaits ==
    ASSUME IInv, NEW t \in BaseTimers, status[t] = "pending"
    PROVE  t[1] \in Entries /\ baseTimer[t[1]] = t /\ Waiting(t[1])
<1>1. t[1] \in Entries /\ Held(t[1]) /\ baseTimer[t[1]] = t
  BY TimerFacts DEF TimerOK, Live
<1> QED
  BY <1>1, HeldWaits

(* While nothing runs and an advance is in progress nobody is in a method.  *)
LEMMA BaseActsAlone ==
    ASSUME BetweenInv, target # T!NoTarget, \A t \in BaseTimers : ~B!Running(t)
    PROVE  mu = None
<1>1. \A g \in Goroutines : pc[g] = "idle"
  BY DEF BetweenInv, Turns
<1>2. mu \in Goroutines \cup {None} /\ LockOK
  BY DEF BetweenInv, IInv, TypeOK
<1> QED
  BY <1>1, <1>2 DEF LockOK

(* Then every entry that waits has a timer, pending in the base, unless the *)
(* dispatcher is paused, when none has.                                     *)
LEMMA AloneTimer ==
    ASSUME IInv, mu = None, NEW e \in Entries, Waiting(e)
    PROVE  /\ paused => baseTimer[e] = None
           /\ ~paused => /\ baseTimer[e] \in BaseTimers /\ baseTimer[e][1] = e
                         /\ status[baseTimer[e]] = "pending"
<1>1. e \in tracked
  BY WaitingIsTracked
<1>2. Suspended(e) <=> paused
  BY <1>1, LockFree DEF Suspended
<1>3. baseTimer[e] = None <=> paused
  BY <1>1, <1>2 DEF IInv, BaseTimerMatchesPause
<1> QED
  BY <1>3, WaitingTimer

(* What the steps of a goroutine outside of the base do to the functions    *)
(* that run, and to what the base knows.                                    *)
LEMMA MethodFrame ==
    ASSUME IInv, NEW g \in Goroutines,
           \/ Continue(g) \/ Pause(g) \/ Resume(g)
           \/ \E e \in Entries :
                \/ \E d \in Delays : AfterFunc(g, e, d)
                \/ StopFound(g, e) \/ StopNotFound(g, e)
    PROVE  /\ \A t \in BaseTimers : status'[t] = "running" <=> status[t] = "running"
           /\ UNCHANGED <<clock, baseClock, halted>>
<1> DEFINE Kept == /\ \A t \in BaseTimers : status'[t] = "running" <=> status[t] = "running"
                   /\ UNCHANGED <<clock, baseClock, halted>>
<1>1. status \in [BaseTimers -> B!Statuses] /\ TypeOK
  BY DEF IInv, TypeOK
<1>2. CASE \/ LoopEnds(g) \/ Pause(g) \/ Resume(g) \/ AfterFuncTracks(g)
           \/ \E e \in Entries : StopNotFound(g, e) \/ \E d \in Delays : AfterFunc(g, e, d)
  BY <1>2 DEF LoopEnds, Pause, Resume, AfterFuncTracks, StopNotFound, AfterFunc, base
<1>3. ASSUME NEW e \in Entries, StopFound(g, e)
      PROVE  Kept
  <2>1. \/ UNCHANGED status
        \/ /\ baseTimer[e] \in BaseTimers /\ status[baseTimer[e]] = "pending"
           /\ status' = [status EXCEPT ![baseTimer[e]] = "stopped"]
    BY <1>1, <1>3, StopFoundFacts DEF base
  <2>2. UNCHANGED <<clock, baseClock, halted>>
    BY <1>1, <1>3, StopFoundFacts DEF StopFound, base
  <2> QED
    BY <1>1, <2>1, <2>2
<1>4. ASSUME NEW e \in Entries, PauseEntry(g, e)
      PROVE  Kept
  BY <1>1, <1>4 DEF PauseEntry, BaseStop
<1>5. CASE AfterFuncDispatches(g) \/ \E e \in Entries : ResumeEntry(g, e)
  BY <1>1, <1>5 DEF AfterFuncDispatches, ResumeEntry, Dispatch, B!AfterFunc
<1> QED
  BY <1>2, <1>3, <1>4, <1>5 DEF Continue

(* How a goroutine gets from place to place in its methods.                 *)
LEMMA PlaceFrame ==
    ASSUME IInv, NEW g \in Goroutines,
           \/ Continue(g)
           \/ \E e \in Entries :
                \/ \E d \in Delays : AfterFunc(g, e, d)
                \/ StopFound(g, e) \/ StopNotFound(g, e)
    PROVE  /\ paused' = paused
           /\ \A h \in Goroutines \ {g} : pc'[h] = pc[h]
           /\ pc'[g] = "idle" \/ pc[g] # "idle" \/ CanCall(g)
           /\ pc[g] \in {"idle", "dispatch", "track"} => pc'[g] \in {"idle", "dispatch", "track"}
<1>1. pc \in [Goroutines -> {"idle", "dispatch", "track", "pause", "resume"}]
  BY DEF IInv, TypeOK
<1>2. paused' = paused
  BY DEF Continue, AfterFunc, AfterFuncDispatches, AfterFuncTracks, StopFound, StopNotFound,
     PauseEntry, ResumeEntry, LoopEnds
<1>3. \/ \E p \in {"idle", "track"} : pc[g] # "idle" /\ pc' = [pc EXCEPT ![g] = p]
      \/ \E p \in {"dispatch", "track"} : CanCall(g) /\ pc' = [pc EXCEPT ![g] = p]
      \/ pc' = pc
  BY DEF Continue, AfterFunc, AfterFuncDispatches, AfterFuncTracks, StopFound, StopNotFound,
     PauseEntry, ResumeEntry, LoopEnds, threads, Acquire, Release
<1> QED
  BY <1>1, <1>2, <1>3

(* A function of the base starts.                                           *)
LEMMA BaseRunsFacts ==
    ASSUME BetweenInv, NEW t \in BaseTimers, BaseRuns(t)
    PROVE  /\ mu = None /\ ~paused /\ ~halted
           /\ status[t] = "pending" /\ t[1] \in Entries /\ baseTimer[t[1]] = t /\ Waiting(t[1])
           /\ target \in Nat /\ baseClock' = at[t] /\ at[t] \in Nat
           /\ baseClock <= at[t] /\ at[t] <= target
           /\ \A e \in Entries : Waiting(e) => at[t] <= at[baseTimer[e]]
           /\ status' = [status EXCEPT ![t] = "running"]
           /\ at' = [at EXCEPT ![t] = 0]
           /\ original' = [original EXCEPT ![t[1]] = 0]
           /\ UNCHANGED <<target, halted, paused, pc, entry, mu, delay, baseTimer>>
           /\ baseElapsed' = [Pass(baseElapsed, at[t] - baseClock) EXCEPT ![t[1]] = 0]
<1>1. /\ target # T!NoTarget /\ at[t] <= target
      /\ \A u \in BaseTimers : status[u] = "pending" => at[t] <= at[u]
      /\ status[t] = "pending" /\ ~halted /\ \A u \in BaseTimers : ~B!Running(u)
      /\ status' = [status EXCEPT ![t] = "running"]
      /\ at' = [at EXCEPT ![t] = 0]
      /\ original' = [original EXCEPT ![t[1]] = 0]
      /\ UNCHANGED <<target, halted, paused, pc, entry, mu, delay, baseTimer>>
      /\ baseElapsed' = [Pass(baseElapsed, at[t] - baseClock) EXCEPT ![t[1]] = 0]
      /\ baseClock' = at[t]
  BY DEF BaseRuns, T!Start, T!D!Start, T!Pending, T!D!Running, B!Running, Forget, NoTime, entries,
     threads
<1>2. mu = None
  BY <1>1, BaseActsAlone
<1>3. IInv /\ target \in Nat /\ at[t] \in Nat /\ baseClock \in Nat /\ t[1] \in Entries
  BY <1>1, BetweenFacts DEF T!NoTarget
<1>4. baseTimer[t[1]] = t /\ Waiting(t[1])
  BY <1>1, <1>3, PendingWaits
<1>5. ~paused
  <2>1. t # None
    BY BetweenFacts
  <2> QED
    BY <1>2, <1>3, <1>4, <2>1, AloneTimer
<1>6. ASSUME NEW e \in Entries, Waiting(e) PROVE at[t] <= at[baseTimer[e]]
  BY <1>1, <1>2, <1>3, <1>5, <1>6, AloneTimer
<1>7. baseClock <= at[t]
  <2>1. Left(t[1]) >= 0
    BY <1>1, <1>3, <1>4 DEF BetweenInv, LeftIsOwed
  <2>2. Left(t[1]) = at[t] - baseClock
    BY <1>4, BetweenFacts DEF Left
  <2> QED
    BY <1>3, <2>1, <2>2
<1> QED
  BY <1>1, <1>2, <1>3, <1>4, <1>5, <1>6, <1>7

(* FastForward returns.                                                     *)
LEMMA ReturnFacts ==
    ASSUME BetweenInv, FastForwardReturns
    PROVE  /\ mu = None /\ target \in Nat /\ target' = T!NoTarget
           /\ \A t \in BaseTimers : ~B!Running(t)
           /\ baseClock' \in Nat /\ baseClock <= baseClock'
           /\ UNCHANGED <<status, at, halted, paused, pc, entry, mu, delay, original, elapsed,
                          baseTimer, clock>>
           /\ baseElapsed' = Pass(baseElapsed, baseClock' - baseClock)
           /\ halted => UNCHANGED baseClock
           /\ ~halted => baseClock' = IF target > baseClock THEN target ELSE baseClock
           /\ ~halted /\ ~paused => \A e \in Entries : Waiting(e) => at[baseTimer[e]] > target
<1>1. /\ target # T!NoTarget /\ target' = T!NoTarget
      /\ \A u \in BaseTimers : ~B!Running(u)
      /\ UNCHANGED <<status, at, halted, paused, pc, entry, mu, delay, original, elapsed, baseTimer,
                     clock>>
      /\ baseElapsed' = Pass(baseElapsed, baseClock' - baseClock)
      /\ halted => UNCHANGED baseClock
      /\ ~halted => /\ baseClock' = IF target > baseClock THEN target ELSE baseClock
                    /\ \A u \in BaseTimers : status[u] = "pending" => at[u] > target
  BY DEF FastForwardReturns, T!Advanced, T!Failed, T!NoneRuns, T!D!Running, T!Pending, B!Running,
     entries, threads, history
<1>2. mu = None
  BY <1>1, BaseActsAlone
<1>3. IInv /\ target \in Nat /\ baseClock \in Nat
  BY <1>1, BetweenFacts DEF T!NoTarget
<1>4. baseClock' \in Nat /\ baseClock <= baseClock'
  BY <1>1, <1>3
<1>5. ASSUME ~halted, ~paused, NEW e \in Entries, Waiting(e) PROVE at[baseTimer[e]] > target
  BY <1>1, <1>2, <1>3, <1>5, AloneTimer
<1> QED
  BY <1>1, <1>2, <1>3, <1>4, <1>5

(* What a goroutine does that is not one of the base.                       *)
Method(g) ==
    \/ Continue(g)
    \/ \E e \in Entries :
         \/ \E d \in Delays : AfterFunc(g, e, d)
         \/ StopFound(g, e) \/ StopNotFound(g, e)

(* The steps of this client.                                                *)
LEMMA BetweenSteps ==
    ASSUME BetweenInv, BetweenNext
    PROVE  \/ \E to \in Times : AdvanceTo(to) /\ UNCHANGED <<baseClock, skipped>>
           \/ \E t \in BaseTimers : BaseRuns(t) /\ UNCHANGED skipped
           \/ /\ FastForwardReturns
              /\ skipped' = skipped + (IF paused THEN baseClock' - baseClock ELSE 0)
           \/ /\ UNCHANGED <<target, baseElapsed, skipped>>
              /\ \/ \E t \in BaseTimers : Callback(t) \/ CallbackEnds(t)
                 \/ \E g \in Goroutines : Continue(g) \/ ((g = Worker \/ MainActs) /\ Method(g))
                 \/ \E g \in Goroutines \ {Worker} :
                        MainActs /\ ((Agreed /\ Pause(g)) \/ Resume(g))
<1>1. CASE (WrapperActs \/ MainToggles) /\ UNCHANGED <<target, baseElapsed, skipped>>
  BY <1>1 DEF WrapperActs, MainToggles, Method
<1>2. ASSUME NEW to \in Times, AdvanceTo(to),
             skipped' = skipped + (IF paused THEN baseClock' - baseClock ELSE 0)
      PROVE  UNCHANGED <<baseClock, skipped>>
  BY <1>2, BetweenFacts DEF AdvanceTo, T!AdvanceTo
<1>3. ASSUME NEW t \in BaseTimers, BaseRuns(t),
             skipped' = skipped + (IF paused THEN baseClock' - baseClock ELSE 0)
      PROVE  UNCHANGED skipped
  BY <1>3, BetweenFacts, BaseRunsFacts
<1> QED
  BY <1>1, <1>2, <1>3 DEF BetweenNext, BaseActs

LEMMA TurnsStep ==
    ASSUME BetweenInv, [BetweenNext]_betweenVars
    PROVE  Turns'
<1>1. /\ Turns /\ IInv /\ status \in [BaseTimers -> B!Statuses] /\ Worker \in Goroutines
      /\ pc \in [Goroutines -> {"idle", "dispatch", "track", "pause", "resume"}]
  BY BetweenFacts, PausableAssumption DEF BetweenInv
<1>2. CASE UNCHANGED betweenVars
  BY <1>1, <1>2 DEF betweenVars, allVars, vars, threads, base, Turns, B!Running
<1>3. ASSUME NEW to \in Times, AdvanceTo(to) PROVE Turns'
  <2>1. /\ UNCHANGED <<pc, status, paused>> /\ \A g \in Goroutines \ {Worker} : pc[g] = "idle"
        /\ target = T!NoTarget
    BY <1>3 DEF AdvanceTo, MainActs, T!AdvanceTo, threads
  <2>2. \A t \in BaseTimers : ~B!Running(t)
    BY <1>1, <2>1 DEF Turns
  <2> QED
    BY <1>1, <2>1, <2>2 DEF Turns, B!Running
<1>4. ASSUME NEW t \in BaseTimers, BaseRuns(t) PROVE Turns'
  <2>1. /\ ~paused /\ target # T!NoTarget /\ status' = [status EXCEPT ![t] = "running"]
        /\ UNCHANGED <<target, paused, pc>>
    BY <1>4, BaseRunsFacts DEF T!NoTarget
  <2>2. \A u \in BaseTimers : status[u] = "running" => status'[u] = "running"
    BY <1>1, <2>1
  <2> QED
    BY <1>1, <2>1, <2>2 DEF Turns, B!Running
<1>5. CASE FastForwardReturns
  <2>1. /\ UNCHANGED <<pc, status>> /\ \A u \in BaseTimers : ~B!Running(u)
        /\ target' = T!NoTarget
    BY <1>5, ReturnFacts
  <2> QED
    BY <1>1, <2>1 DEF Turns, B!Running
<1>6. ASSUME NEW t \in BaseTimers, Callback(t) \/ CallbackEnds(t), UNCHANGED target
      PROVE  Turns'
  <2>1. CASE Callback(t)
    BY <1>1, <1>6, <2>1 DEF Callback, threads, Turns, B!Running
  <2>2. CASE CallbackEnds(t)
    <3>1. /\ pc[Worker] = "idle" /\ UNCHANGED <<pc, paused>>
          /\ status' = [status EXCEPT ![t] = "done"]
      BY <2>2 DEF CallbackEnds, B!Return, B!Panic, threads
    <3>2. \A u \in BaseTimers : status'[u] = "running" => status[u] = "running"
      BY <1>1, <3>1
    <3> QED
      BY <1>1, <1>6, <3>1, <3>2 DEF Turns, B!Running
  <2> QED
    BY <1>6, <2>1, <2>2
<1>7. ASSUME NEW g \in Goroutines, Continue(g) \/ ((g = Worker \/ MainActs) /\ Method(g)),
             UNCHANGED target
      PROVE  Turns'
  <2>1. Method(g)
    BY <1>7 DEF Method
  <2>2. \A t \in BaseTimers : status'[t] = "running" <=> status[t] = "running"
    BY <1>1, <2>1, MethodFrame DEF Method
  <2>3. /\ paused' = paused /\ \A h \in Goroutines \ {g} : pc'[h] = pc[h]
        /\ pc'[g] = "idle" \/ pc[g] # "idle" \/ CanCall(g)
        /\ pc[g] \in {"idle", "dispatch", "track"} => pc'[g] \in {"idle", "dispatch", "track"}
    BY <1>1, <2>1, PlaceFrame DEF Method
  <2>4. CASE g = Worker
    <3>1. pc'[g] # "idle" => \E t \in BaseTimers : B!Running(t)
      BY <1>1, <2>3, <2>4 DEF Turns, CanCall, IInv, TypeOK
    <3> QED
      BY <1>1, <1>7, <2>2, <2>3, <2>4, <3>1 DEF Turns, B!Running
  <2>5. CASE g # Worker
    <3>1. ASSUME Continue(g) PROVE pc[g] # "idle"
      <4>1. pc[g] \in {"dispatch", "track", "pause", "resume"}
        BY <3>1 DEF Continue, AfterFuncDispatches, AfterFuncTracks, PauseEntry, ResumeEntry, LoopEnds
      <4> QED
        BY <4>1
    <3>2. target = T!NoTarget
      BY <1>1, <1>7, <2>5, <3>1 DEF MainActs, Turns
    <3> QED
      BY <1>1, <1>7, <2>2, <2>3, <2>5, <3>2 DEF Turns, B!Running
  <2> QED
    BY <2>4, <2>5
<1>8. ASSUME NEW g \in Goroutines \ {Worker}, MainActs, Pause(g) \/ Resume(g), UNCHANGED target
      PROVE  Turns'
  <2>1. \A t \in BaseTimers : status'[t] = "running" <=> status[t] = "running"
    BY <1>1, <1>8, MethodFrame
  <2>2. target = T!NoTarget /\ \A h \in Goroutines \ {g} : pc'[h] = pc[h]
    BY <1>1, <1>8 DEF Pause, Resume, Acquire, MainActs
  <2> QED
    BY <1>1, <1>8, <2>1, <2>2 DEF Turns, B!Running
<1> QED
  BY <1>2, <1>3, <1>4, <1>5, <1>6, <1>7, <1>8, BetweenSteps

LEMMA SkippedStep ==
    ASSUME BetweenInv, [BetweenNext]_betweenVars
    PROVE  SkippedOK'
<1>1. /\ SkippedOK /\ clock \in Nat /\ baseClock \in Nat /\ baseClock <= clock /\ skipped \in Nat
      /\ IInv
  BY BetweenFacts DEF BetweenInv
<1>2. ASSUME NEW to \in Times, AdvanceTo(to), UNCHANGED <<baseClock, skipped>>
      PROVE  SkippedOK'
  <2>1. to \in Nat /\ to >= clock /\ target' = to
    BY <1>2, PausableAssumption DEF AdvanceTo, T!AdvanceTo, Times
  <2> QED
    BY <1>1, <1>2, <2>1 DEF SkippedOK
<1>3. ASSUME NEW t \in BaseTimers, BaseRuns(t), UNCHANGED skipped
      PROVE  SkippedOK'
  <2>1. baseClock' \in Nat /\ baseClock <= baseClock' /\ target' = target
    BY <1>3, BaseRunsFacts
  <2> QED
    BY <1>1, <1>3, <2>1 DEF SkippedOK
<1>4. ASSUME FastForwardReturns,
             skipped' = skipped + (IF paused THEN baseClock' - baseClock ELSE 0)
      PROVE  SkippedOK'
  <2>1. baseClock' \in Nat /\ baseClock <= baseClock' /\ target' = T!NoTarget
    BY <1>4, ReturnFacts
  <2>2. skipped' \in Nat /\ skipped' <= baseClock'
    <3>1. skipped <= baseClock
      BY <1>1 DEF SkippedOK
    <3>2. CASE paused
      <4>1. skipped' = skipped + (baseClock' - baseClock)
        BY <1>4, <3>2
      <4>2. \A s, b, c \in Nat : s <= b /\ b <= c => s + (c - b) \in Nat /\ s + (c - b) <= c
        OBVIOUS
      <4> QED
        BY <1>1, <2>1, <3>1, <4>1, <4>2
    <3>3. CASE ~paused
      <4>1. skipped' = skipped + 0
        BY <1>4, <3>3
      <4> QED
        BY <1>1, <2>1, <3>1, <4>1
    <3> QED
      BY <3>2, <3>3
  <2> QED
    BY <2>1, <2>2 DEF SkippedOK, T!NoTarget
<1>5. ASSUME UNCHANGED <<target, skipped, baseClock>> PROVE SkippedOK'
  BY <1>1, <1>5 DEF SkippedOK
<1>6. ASSUME NEW t \in BaseTimers, Callback(t) \/ CallbackEnds(t) PROVE UNCHANGED baseClock
  BY <1>6 DEF Callback, CallbackEnds
<1>7. ASSUME NEW g \in Goroutines, Continue(g) \/ Method(g) \/ Pause(g) \/ Resume(g)
      PROVE  UNCHANGED baseClock
  BY <1>1, <1>7, MethodFrame DEF Method
<1> QED
  BY <1>2, <1>3, <1>4, <1>5, <1>6, <1>7, BetweenSteps DEF betweenVars, allVars, vars

LEMMA PassFacts ==
    ASSUME BetweenInv, NEW n \in Nat
    PROVE  /\ Pass(baseElapsed, n) \in [Entries -> Nat]
           /\ \A e \in Entries :
                Pass(baseElapsed, n)[e] = IF Waiting(e) /\ ~paused THEN baseElapsed[e] + n
                                          ELSE baseElapsed[e]
<1>1. baseElapsed \in [Entries -> Nat]
  BY BetweenFacts
<1> QED
  BY <1>1 DEF Pass

LEMMA BaseElapsedStep ==
    ASSUME BetweenInv, [BetweenNext]_betweenVars
    PROVE  BaseElapsedOK'
<1>1. /\ BaseElapsedOK /\ IInv /\ baseClock \in Nat /\ baseElapsed \in [Entries -> Nat]
      /\ [LooseNext]_vars
  BY BetweenFacts, BetweenIsVirtual DEF BetweenInv
<1>2. \A e \in Entries : ~Created(e)' => ~Created(e) /\ baseElapsed[e] = 0
  BY <1>1, CreatedStep DEF BaseElapsedOK
<1>3. ASSUME UNCHANGED baseElapsed PROVE BaseElapsedOK'
  BY <1>1, <1>2, <1>3 DEF BaseElapsedOK
<1>4. ASSUME NEW t \in BaseTimers, BaseRuns(t) PROVE BaseElapsedOK'
  <2> DEFINE n == at[t] - baseClock
  <2>1. /\ n \in Nat /\ t[1] \in Entries
        /\ baseElapsed' = [Pass(baseElapsed, n) EXCEPT ![t[1]] = 0]
    BY <1>1, <1>4, BaseRunsFacts
  <2> HIDE DEF n
  <2> QED
    BY <1>2, <2>1, PassFacts DEF BaseElapsedOK, Waiting
<1>5. CASE FastForwardReturns
  <2> DEFINE n == baseClock' - baseClock
  <2>1. n \in Nat /\ baseElapsed' = Pass(baseElapsed, n)
    BY <1>1, <1>5, ReturnFacts
  <2> HIDE DEF n
  <2> QED
    BY <1>2, <2>1, PassFacts DEF BaseElapsedOK, Waiting
<1>6. ASSUME NEW to \in Times, AdvanceTo(to) PROVE UNCHANGED baseElapsed
  BY <1>6 DEF AdvanceTo
<1> QED
  BY <1>3, <1>4, <1>5, <1>6, BetweenSteps DEF betweenVars, allVars

LEMMA RemainderFactsNext == IInv' /\ NotTooShort' /\ NotTooLong' => RemainingIsExact'
  BY RemainderFacts, PTL

(* What an entry still has to wait stays the same.                          *)
LEMMA LeftFrame ==
    ASSUME BetweenInv, ~halted, NEW e \in Entries, Waiting(e),
           baseTimer'[e] = baseTimer[e], delay'[e] = delay[e], original'[e] = original[e],
           baseElapsed'[e] = baseElapsed[e], UNCHANGED baseClock,
           baseTimer[e] # None => at'[baseTimer[e]] = at[baseTimer[e]]
    PROVE  Left(e)' >= 0 /\ Left(e)' = NotNegative(original'[e]) - baseElapsed'[e]
<1>1. Left(e) >= 0 /\ Left(e) = NotNegative(original[e]) - baseElapsed[e]
  BY DEF BetweenInv, LeftIsOwed
<1>2. Left(e)' = Left(e)
  BY DEF Left
<1> QED
  BY <1>1, <1>2

LEMMA DispatchLeft ==
    ASSUME BetweenInv, ~halted, NEW e \in Entries, Waiting(e), baseTimer[e] = None,
           NEW t \in BaseTimers, Dispatch(e, t),
           delay'[e] = delay[e], original'[e] = original[e],
           baseElapsed'[e] = baseElapsed[e], UNCHANGED baseClock
    PROVE  Left(e)' >= 0 /\ Left(e)' = NotNegative(original'[e]) - baseElapsed'[e]
<1>1. /\ Left(e) >= 0 /\ Left(e) = NotNegative(original[e]) - baseElapsed[e]
      /\ Left(e) = NotNegative(delay[e])
  BY DEF BetweenInv, LeftIsOwed, Left
<1>2. /\ baseClock \in Nat /\ delay[e] \in Int /\ at \in [BaseTimers -> Nat] /\ t # None
      /\ baseTimer \in [Entries -> BaseTimers \cup {None}]
  BY BetweenFacts
<1>3. baseTimer'[e] = t /\ at'[t] = baseClock + NotNegative(delay[e])
  BY <1>2 DEF Dispatch
<1>4. Left(e)' = at'[t] - baseClock
  BY <1>2, <1>3 DEF Left
<1>5. NotNegative(delay[e]) \in Int
  BY <1>2 DEF NotNegative
<1> QED
  BY <1>1, <1>2, <1>3, <1>4, <1>5

(* A Stop that prevents the function ends its waiting.                      *)
LEMMA StopEndsWaiting ==
    ASSUME IInv, NEW g \in Goroutines, NEW e \in Entries, StopFound(g, e), Waiting(e)
    PROVE  ~Waiting(e)'
<1>1. TypeOK /\ answers \in [Entries -> SUBSET BOOLEAN] /\ None \notin BaseTimers
  BY TimerFacts DEF IInv, TypeOK
<1>2. baseTimer[e] # None => status[baseTimer[e]] = "pending"
  BY WaitingTimer
<1>3. answers' = [answers EXCEPT ![e] = @ \cup {TRUE}]
  BY <1>1, <1>2, StopFoundFacts
<1> QED
  BY <1>1, <1>3 DEF Waiting

LEMMA LeftMethodStep ==
    ASSUME BetweenInv, RemainingIsExact', ~halted, NEW g \in Goroutines,
           Method(g) \/ Pause(g) \/ Resume(g),
           UNCHANGED baseElapsed, NEW e \in Entries, Waiting(e), Waiting(e)'
    PROVE  Left(e)' >= 0 /\ Left(e)' = NotNegative(original'[e]) - baseElapsed'[e]
<1> DEFINE Goal == Left(e)' >= 0 /\ Left(e)' = NotNegative(original'[e]) - baseElapsed'[e]
<1>1. /\ IInv /\ delay \in [Entries -> Int] /\ original \in [Entries -> Int]
      /\ elapsed \in [Entries -> Nat] /\ baseElapsed \in [Entries -> Nat]
      /\ at \in [BaseTimers -> Nat]
      /\ pc \in [Goroutines -> {"idle", "dispatch", "track", "pause", "resume"}]
      /\ baseTimer \in [Entries -> BaseTimers \cup {None}]
      /\ \A t \in BaseTimers : t[1] \in Entries /\ t # None
  BY BetweenFacts
<1>2. baseTimer[e] # None => baseTimer[e] \in BaseTimers /\ baseTimer[e][1] = e
  BY <1>1, WaitingTimer
<1>3. UNCHANGED baseClock
  BY <1>1, MethodFrame DEF Method
<1> HIDE DEF Goal
<1>4. ASSUME NEW x \in Entries, NEW d \in Delays, AfterFunc(g, x, d) PROVE Goal
  <2>1. x # e /\ delay' = [delay EXCEPT ![x] = d] /\ original' = [original EXCEPT ![x] = d]
        /\ UNCHANGED <<baseTimer, at>>
    BY <1>4 DEF AfterFunc, Waiting, base
  <2>2. delay'[e] = delay[e] /\ original'[e] = original[e]
    BY <1>1, <2>1
  <2> QED
    BY <1>3, <2>1, <2>2, LeftFrame DEF Goal
<1>5. CASE AfterFuncTracks(g) \/ LoopEnds(g) \/ Pause(g) \/ Resume(g)
  <2>1. UNCHANGED <<baseTimer, at, delay, original>>
    BY <1>5 DEF AfterFuncTracks, LoopEnds, Pause, Resume, base, entries, history
  <2> QED
    BY <1>3, <2>1, LeftFrame DEF Goal
<1>6. ASSUME NEW x \in Entries, NEW t \in BaseTimers, Dispatch(x, t), x = e => baseTimer[x] = None,
             UNCHANGED <<delay, original>>
      PROVE  Goal
  <2>1. t[1] = x /\ baseTimer' = [baseTimer EXCEPT ![x] = t]
        /\ at' = [at EXCEPT ![t] = baseClock + NotNegative(delay[x])]
    BY <1>6 DEF Dispatch
  <2>2. CASE x = e
    BY <1>3, <1>6, <2>2, DispatchLeft DEF Goal
  <2>3. CASE x # e
    <3>1. baseTimer'[e] = baseTimer[e] /\ (baseTimer[e] # None => at'[baseTimer[e]] = at[baseTimer[e]])
      BY <1>1, <1>2, <2>1, <2>3
    <3> QED
      BY <1>3, <1>6, <3>1, LeftFrame DEF Goal
  <2> QED
    BY <2>2, <2>3
<1>7. CASE AfterFuncDispatches(g)
  <2>1. pc[g] = "dispatch" /\ UNCHANGED <<delay, original>>
    BY <1>7 DEF AfterFuncDispatches, history
  <2>2. PICK x \in Entries : x = entry[g]
    BY <1>1, <2>1 DEF IInv, LockOK, TypeOK
  <2>3. PICK t \in BaseTimers : Dispatch(x, t)
    BY <1>7, <2>2 DEF AfterFuncDispatches, Dispatch
  <2>4. \A h \in Goroutines : pc[h] # "track"
    BY <1>1, <2>1, LockTaken
  <2>5. ~Held(x)
    BY <1>1, <2>2, <2>4, TimerFacts DEF Held, EntryOK, IInv, LockOK
  <2>6. ASSUME x = e PROVE baseTimer[x] = None
    <3>1. baseTimer[e] # None => status[baseTimer[e]] = "pending" /\ Held(e)
      BY <1>1, WaitingTimer, TimerFacts DEF TimerOK
    <3> QED
      BY <2>5, <2>6, <3>1
  <2> QED
    BY <1>6, <2>1, <2>3, <2>6 DEF Goal
<1>8. ASSUME NEW x \in Entries, ResumeEntry(g, x) PROVE Goal
  <2>1. PICK t \in BaseTimers : Dispatch(x, t)
    BY <1>8 DEF ResumeEntry
  <2>2. pc[g] = "resume" /\ x \in left[g] /\ UNCHANGED <<delay, original>>
    BY <1>8 DEF ResumeEntry, history
  <2>3. baseTimer[x] = None
    BY <1>1, <2>2 DEF IInv, LockOK, BaseTimerMatchesPause, Suspended
  <2> QED
    BY <1>6, <2>1, <2>2, <2>3
<1>9. ASSUME NEW x \in Entries, StopFound(g, x) PROVE Goal
  <2>1. x # e
    BY <1>1, <1>9, StopEndsWaiting
  <2>2. /\ original' = [original EXCEPT ![x] = 0] /\ UNCHANGED <<baseTimer, delay>>
        /\ at' = at \/ (baseTimer[x] # None /\ at' = [at EXCEPT ![baseTimer[x]] = 0])
    BY <1>9 DEF StopFound, Forget, NoTime, BaseStop, entries, base
  <2>3. baseTimer[x] # None => baseTimer[x] \in BaseTimers /\ baseTimer[x][1] = x
    BY <1>1, TimerFacts
  <2>4. baseTimer[e] # None => at'[baseTimer[e]] = at[baseTimer[e]]
    BY <1>1, <1>2, <2>1, <2>2, <2>3
  <2>5. original'[e] = original[e]
    BY <1>1, <2>1, <2>2
  <2> QED
    BY <1>3, <2>2, <2>4, <2>5, LeftFrame DEF Goal
<1>10. ASSUME NEW x \in Entries, StopNotFound(g, x) PROVE Goal
  BY <1>3, <1>10, LeftFrame DEF Goal, StopNotFound, base, entries
<1>11. ASSUME NEW x \in Entries, PauseEntry(g, x) PROVE Goal
  <2>1. /\ pc[g] = "pause" /\ x \in left[g] /\ x \in tracked /\ paused
        /\ UNCHANGED <<original, elapsed, paused, pc>>
        /\ left' = [left EXCEPT ![g] = @ \ {x}]
        /\ at' = [at EXCEPT ![baseTimer[x]] = 0]
    BY <1>1, <1>11 DEF PauseEntry, BaseStop, NoTime, history, IInv, LockOK
  <2>2. baseTimer[x] \in BaseTimers /\ baseTimer[x][1] = x
    <3>1. ~Suspended(x)
      BY <1>1, <2>1, LockTaken DEF Suspended
    <3> QED
      BY <1>1, <2>1, <3>1, TimerFacts DEF IInv, BaseTimerMatchesPause
  <2>3. CASE x # e
    <3>1. baseTimer'[e] = baseTimer[e] /\ delay'[e] = delay[e]
      BY <1>1, <1>11, <2>3 DEF PauseEntry, entries
    <3>2. baseTimer[e] # None => at'[baseTimer[e]] = at[baseTimer[e]]
      BY <1>1, <1>2, <2>1, <2>2, <2>3
    <3> QED
      BY <1>3, <2>1, <3>1, <3>2, LeftFrame DEF Goal
  <2>4. CASE x = e
    <3>1. baseTimer[e] # None /\ status[baseTimer[e]] = "pending"
      BY <1>1, <2>2, <2>4, WaitingTimer
    <3>2. baseTimer' = [baseTimer EXCEPT ![e] = None] /\ tracked' = tracked
      BY <1>11, <2>4, <3>1 DEF PauseEntry
    <3>3. baseTimer'[e] = None
      BY <1>1, <3>2
    <3>4. Suspended(e)'
      <4>1. left \in [Goroutines -> SUBSET Entries] /\ e \notin left'[g]
        BY <1>1, <2>1, <2>4, TimeFacts
      <4>2. \A h \in Goroutines : pc'[h] = "pause" => h = g
        BY <1>1, <2>1, LockTaken
      <4> QED
        BY <2>1, <2>4, <3>2, <4>1, <4>2 DEF Suspended
    <3>5. NotNegative(delay'[e]) = NotNegative(original'[e] - elapsed'[e])
      BY <2>1, <3>4 DEF RemainingIsExact
    <3>6. elapsed[e] = baseElapsed[e]
      BY <2>1 DEF BetweenInv, PausedAlike
    <3>7. /\ Left(e) >= 0 /\ Left(e) = NotNegative(original[e]) - baseElapsed[e]
          /\ Left(e)' = NotNegative(delay'[e])
      BY <3>3 DEF BetweenInv, LeftIsOwed, Left
    <3>8. Left(e)' = NotNegative(original[e] - baseElapsed[e])
      BY <2>1, <3>5, <3>6, <3>7
    <3>9. original[e] \in Int /\ baseElapsed[e] \in Nat
      BY <1>1
    <3> QED
      BY <2>1, <3>7, <3>8, <3>9 DEF NotNegative, Goal
  <2> QED
    BY <2>3, <2>4
<1> QED
  BY <1>4, <1>5, <1>7, <1>8, <1>9, <1>10, <1>11 DEF Method, Continue, Goal

(* The entry of an AfterFunc that begins.                                   *)
LEMMA NewEntry ==
    ASSUME BetweenInv, BetweenNext, NEW e \in Entries, ~Created(e), Created(e)'
    PROVE  /\ UNCHANGED <<baseElapsed, elapsed, baseTimer, paused, halted>>
           /\ delay'[e] = original'[e] /\ baseTimer'[e] = None
           /\ baseElapsed[e] = 0 /\ elapsed[e] = 0
<1>1. /\ [LooseNext]_vars /\ IInv /\ BaseElapsedOK
      /\ delay \in [Entries -> Int] /\ original \in [Entries -> Int]
  BY BetweenFacts, BetweenIsVirtual DEF BetweenInv
<1>2. PICK g \in Goroutines, d \in Delays : AfterFunc(g, e, d)
  BY <1>1, CreatedStep
<1>3. /\ mu' = g /\ mu = None /\ None \notin Goroutines
      /\ delay' = [delay EXCEPT ![e] = d] /\ original' = [original EXCEPT ![e] = d]
      /\ UNCHANGED <<elapsed, baseTimer, paused, halted>>
  BY <1>2, PausableAssumption DEF AfterFunc, Acquire, base
<1>4. baseTimer[e] = None /\ elapsed[e] = 0 /\ baseElapsed[e] = 0
  BY <1>1, NotCreated DEF IInv, ClocksOK, BaseElapsedOK
<1>5. ASSUME NEW to \in Times, AdvanceTo(to) PROVE UNCHANGED baseElapsed
  BY <1>5 DEF AdvanceTo
<1>6. ASSUME NEW t \in BaseTimers, BaseRuns(t) PROVE FALSE
  BY <1>3, <1>6, BaseRunsFacts
<1>7. ASSUME FastForwardReturns PROVE FALSE
  BY <1>3, <1>7, ReturnFacts
<1>8. UNCHANGED baseElapsed
  BY <1>5, <1>6, <1>7, BetweenSteps
<1> QED
  BY <1>1, <1>3, <1>4, <1>8

(* What makes an entry one that waits, but for the timers of the base.      *)
LEMMA CreatedFrame ==
    ASSUME UNCHANGED <<handles, pc, entry>>, NEW e \in Entries
    PROVE  Created(e)' <=> Created(e)
  BY DEF Created

LEMMA LeftStep ==
    ASSUME BetweenInv, RemainingIsExact', [BetweenNext]_betweenVars
    PROVE  LeftIsOwed'
<1>1. /\ IInv /\ [LooseNext]_vars /\ baseClock \in Nat
      /\ delay \in [Entries -> Int] /\ original \in [Entries -> Int]
      /\ baseElapsed \in [Entries -> Nat] /\ at \in [BaseTimers -> Nat]
      /\ baseTimer \in [Entries -> BaseTimers \cup {None}]
      /\ status \in [BaseTimers -> B!Statuses]
  BY BetweenFacts, BetweenIsVirtual
<1> SUFFICES ASSUME ~halted', NEW e \in Entries, Waiting(e)'
             PROVE  Left(e)' >= 0 /\ Left(e)' = NotNegative(original'[e]) - baseElapsed'[e]
  BY DEF LeftIsOwed
<1> DEFINE Goal == Left(e)' >= 0 /\ Left(e)' = NotNegative(original'[e]) - baseElapsed'[e]
<1>2. Created(e)'
  BY DEF Waiting
<1>3. CASE UNCHANGED betweenVars
  <2>1. UNCHANGED <<vars, baseElapsed>>
    BY <1>3 DEF betweenVars, allVars
  <2>2. Waiting(e)
    BY <2>1 DEF Waiting, Created, vars, threads, history, base
  <2> QED
    BY <2>1, <2>2, LeftFrame DEF vars, entries, base, history
<1>4. CASE BetweenNext /\ ~Created(e)
  <2>1. /\ UNCHANGED baseElapsed /\ delay'[e] = original'[e] /\ baseTimer'[e] = None
        /\ baseElapsed[e] = 0 /\ TypeOK'
    BY <1>1, <1>2, <1>4, NewEntry, IInvStep DEF IInv
  <2>2. Left(e)' = NotNegative(original'[e]) /\ original'[e] \in Int
    <3>1. original'[e] \in Int
      <4>1. original'[e] \in Delays \cup {0}
        BY <2>1 DEF TypeOK, NoTime
      <4>2. \A d \in Delays : d \in Int
        BY PausableAssumption
      <4> QED
        BY <4>1, <4>2
    <3>2. Left(e)' = NotNegative(delay'[e])
      BY <2>1 DEF Left
    <3> QED
      BY <2>1, <3>1, <3>2
  <2> QED
    BY <2>1, <2>2 DEF NotNegative
<1>5. CASE BetweenNext /\ Created(e)
  <2>1. Waiting(e)
    BY <1>1, <1>5, WaitingBefore
  <2>2. baseTimer[e] # None =>
          /\ baseTimer[e] \in BaseTimers /\ baseTimer[e][1] = e /\ status[baseTimer[e]] = "pending"
    BY <1>1, <2>1, WaitingTimer
  <2> HIDE DEF Goal
  <2>3. ASSUME NEW to \in Times, AdvanceTo(to) PROVE Goal
    <3>1. UNCHANGED <<halted, baseTimer, delay, original, at, baseElapsed, baseClock>>
      BY <2>3 DEF AdvanceTo, T!AdvanceTo, entries
    <3> QED
      BY <2>1, <3>1, LeftFrame DEF Goal
  <2>4. ASSUME NEW t \in BaseTimers, BaseRuns(t) PROVE Goal
    <3> DEFINE n == at[t] - baseClock
    <3>1. /\ mu = None /\ ~paused /\ ~halted /\ at[t] \in Nat /\ baseClock <= at[t] /\ n \in Nat
          /\ baseClock' = at[t] /\ t[1] \in Entries
          /\ at[t] <= at[baseTimer[e]]
          /\ status' = [status EXCEPT ![t] = "running"]
          /\ at' = [at EXCEPT ![t] = 0]
          /\ original' = [original EXCEPT ![t[1]] = 0]
          /\ UNCHANGED baseTimer
          /\ baseElapsed' = [Pass(baseElapsed, n) EXCEPT ![t[1]] = 0]
      BY <1>1, <2>1, <2>4, BaseRunsFacts
    <3> HIDE DEF n
    <3>2. t[1] # e
      BY <1>1, <3>1 DEF Waiting
    <3>3. baseTimer[e] # None
      BY <1>1, <2>1, <3>1, AloneTimer, BetweenFacts
    <3>4. at'[baseTimer[e]] = at[baseTimer[e]] /\ at[baseTimer[e]] \in Nat
      BY <1>1, <2>2, <3>1, <3>2, <3>3
    <3>5. original'[e] = original[e] /\ baseElapsed'[e] = baseElapsed[e] + n
      BY <1>1, <2>1, <3>1, <3>2, PassFacts
    <3>6. Left(e) = at[baseTimer[e]] - baseClock
      BY <3>3 DEF Left
    <3>7. Left(e)' = at[baseTimer[e]] - at[t]
      BY <3>1, <3>3, <3>4 DEF Left
    <3>8. Left(e) = NotNegative(original[e]) - baseElapsed[e]
      BY <2>1, <3>1 DEF BetweenInv, LeftIsOwed
    <3>9. NotNegative(original[e]) \in Int /\ baseElapsed[e] \in Nat
      BY <1>1 DEF NotNegative
    <3>10. /\ at[t] \in Nat /\ baseClock \in Nat /\ at[baseTimer[e]] \in Nat
           /\ at[t] <= at[baseTimer[e]]
      BY <1>1, <3>1, <3>4
    <3>11. Left(e)' >= 0 /\ Left(e)' = NotNegative(original[e]) - (baseElapsed[e] + (at[t] - baseClock))
      BY <3>6, <3>7, <3>8, <3>9, <3>10
    <3> QED
      BY <3>5, <3>11 DEF n, Goal
  <2>5. CASE FastForwardReturns
    <3> DEFINE n == baseClock' - baseClock
    <3>1. /\ mu = None /\ ~halted /\ baseClock' \in Nat /\ baseClock <= baseClock' /\ n \in Nat
          /\ UNCHANGED <<at, delay, original, baseTimer>>
          /\ baseElapsed' = Pass(baseElapsed, n)
          /\ target \in Nat
          /\ baseClock' = IF target > baseClock THEN target ELSE baseClock
          /\ ~paused => at[baseTimer[e]] > target
      BY <1>1, <2>1, <2>5, ReturnFacts
    <3> HIDE DEF n
    <3>2. /\ Left(e) >= 0 /\ Left(e) = NotNegative(original[e]) - baseElapsed[e]
          /\ NotNegative(original[e]) \in Int /\ baseElapsed[e] \in Nat
      BY <1>1, <2>1, <3>1 DEF BetweenInv, LeftIsOwed, NotNegative
    <3>3. CASE paused
      <4>1. baseTimer[e] = None /\ baseElapsed'[e] = baseElapsed[e]
        BY <1>1, <2>1, <3>1, <3>3, AloneTimer, PassFacts
      <4>2. Left(e)' = Left(e)
        BY <3>1, <4>1 DEF Left
      <4> QED
        BY <3>1, <3>2, <4>1, <4>2 DEF Goal
    <3>4. CASE ~paused
      <4>1. baseTimer[e] # None /\ baseElapsed'[e] = baseElapsed[e] + n
        BY <1>1, <2>1, <3>1, <3>4, AloneTimer, PassFacts, BetweenFacts
      <4>2. at[baseTimer[e]] \in Nat
        BY <1>1, <2>2, <4>1
      <4>3. Left(e) = at[baseTimer[e]] - baseClock /\ Left(e)' = at[baseTimer[e]] - baseClock'
        BY <3>1, <4>1 DEF Left
      <4>4. at[baseTimer[e]] >= baseClock'
        BY <1>1, <3>1, <3>2, <3>4, <4>2, <4>3
      <4> QED
        BY <1>1, <3>1, <3>2, <4>1, <4>2, <4>3, <4>4 DEF n, Goal
    <3> QED
      BY <3>3, <3>4
  <2>6. ASSUME NEW t \in BaseTimers, Callback(t) \/ CallbackEnds(t), UNCHANGED baseElapsed
        PROVE  Goal
    <3>1. ~halted /\ UNCHANGED <<baseTimer, delay, original, at, baseClock>>
      BY <2>6 DEF Callback, CallbackEnds, B!Return, B!Panic, entries, history
    <3> QED
      BY <2>1, <2>6, <3>1, LeftFrame DEF Goal
  <2>7. ASSUME NEW g \in Goroutines, Method(g) \/ Pause(g) \/ Resume(g), UNCHANGED baseElapsed
        PROVE  Goal
    <3>1. ~halted
      BY <1>1, <2>7, MethodFrame DEF Method
    <3> QED
      BY <2>1, <2>7, <3>1, LeftMethodStep DEF Goal
  <2> QED
    BY <1>5, <2>3, <2>4, <2>5, <2>6, <2>7, BetweenSteps DEF Goal, Method
<1> QED
  BY <1>3, <1>4, <1>5

LEMMA PausedAlikeStep ==
    ASSUME BetweenInv, [BetweenNext]_betweenVars
    PROVE  PausedAlike'
<1>1. /\ IInv /\ [LooseNext]_vars
      /\ elapsed \in [Entries -> Nat] /\ baseElapsed \in [Entries -> Nat]
  BY BetweenFacts, BetweenIsVirtual
<1> SUFFICES ASSUME ~halted', paused', NEW e \in Entries, Waiting(e)'
             PROVE  elapsed'[e] = baseElapsed'[e]
  BY DEF PausedAlike
<1>2. Created(e)'
  BY DEF Waiting
<1>3. ASSUME ~halted, paused, Waiting(e) PROVE elapsed[e] = baseElapsed[e]
  BY <1>3 DEF BetweenInv, PausedAlike
<1>4. CASE UNCHANGED betweenVars
  <2>1. /\ UNCHANGED <<baseElapsed, elapsed, halted, paused>>
        /\ UNCHANGED <<handles, pc, entry, answers, status>>
    BY <1>4 DEF betweenVars, allVars, vars, threads, history, base
  <2>2. Waiting(e)
    BY <2>1 DEF Waiting, Created
  <2> QED
    BY <1>3, <2>1, <2>2
<1>5. CASE BetweenNext /\ ~Created(e)
  BY <1>2, <1>5, NewEntry
<1>6. CASE BetweenNext /\ Created(e)
  <2>1. Waiting(e)
    BY <1>1, <1>6, WaitingBefore
  <2>2. ASSUME NEW to \in Times, AdvanceTo(to) PROVE elapsed'[e] = baseElapsed'[e]
    <3>1. UNCHANGED <<halted, paused, baseElapsed>> /\ elapsed' = Pass(elapsed, to - clock)
      BY <2>2 DEF AdvanceTo, T!AdvanceTo
    <3> QED
      BY <1>3, <2>1, <3>1 DEF Pass
  <2>3. ASSUME NEW t \in BaseTimers, BaseRuns(t) PROVE FALSE
    BY <2>3, BaseRunsFacts
  <2>4. CASE FastForwardReturns
    <3>1. UNCHANGED <<halted, paused, elapsed>> /\ baseElapsed' = Pass(baseElapsed, baseClock' - baseClock)
      BY <2>4, ReturnFacts
    <3> QED
      BY <1>3, <2>1, <3>1 DEF Pass
  <2>5. ASSUME NEW t \in BaseTimers, Callback(t) \/ CallbackEnds(t), UNCHANGED baseElapsed
        PROVE  elapsed'[e] = baseElapsed'[e]
    <3>1. ~halted
      BY <2>5 DEF Callback, CallbackEnds, B!Return, B!Panic
    <3>2. UNCHANGED <<paused, elapsed>>
      BY <2>5 DEF Callback, CallbackEnds, history
    <3> QED
      BY <1>3, <2>1, <2>5, <3>1, <3>2
  <2>6. ASSUME NEW g \in Goroutines, Method(g), UNCHANGED baseElapsed
        PROVE  elapsed'[e] = baseElapsed'[e]
    <3>1. ~halted /\ UNCHANGED paused
      BY <1>1, <2>6, MethodFrame, PlaceFrame DEF Method
    <3>2. ASSUME NEW x \in Entries, StopFound(g, x) PROVE elapsed'[e] = elapsed[e]
      <4>1. x # e /\ elapsed' = [elapsed EXCEPT ![x] = 0]
        BY <1>1, <2>1, <3>2, StopEndsWaiting DEF StopFound, Forget, NoTime
      <4> QED
        BY <1>1, <4>1
    <3>3. ASSUME UNCHANGED elapsed PROVE elapsed'[e] = elapsed[e]
      BY <3>3
    <3>4. elapsed'[e] = elapsed[e]
      BY <2>6, <3>2, <3>3 DEF Method, Continue, AfterFuncDispatches, AfterFuncTracks, PauseEntry,
         ResumeEntry, LoopEnds, AfterFunc, StopNotFound, history
    <3> QED
      BY <1>3, <2>1, <2>6, <3>1, <3>4
  <2>7. ASSUME NEW g \in Goroutines, Agreed, Pause(g), UNCHANGED baseElapsed
        PROVE  elapsed'[e] = baseElapsed'[e]
    <3>1. mu = None /\ UNCHANGED <<halted, elapsed>>
      BY <2>7 DEF Pause, Acquire, base, history
    <3>2. e \in tracked
      BY <1>1, <2>1, <3>1, WaitingIsTracked
    <3> QED
      BY <2>7, <3>1, <3>2 DEF Agreed
  <2>8. ASSUME NEW g \in Goroutines, Resume(g) PROVE FALSE
    BY <2>8 DEF Resume
  <2> QED
    BY <1>6, <2>2, <2>3, <2>4, <2>5, <2>6, <2>7, <2>8, BetweenSteps DEF Method
<1> QED
  BY <1>4, <1>5, <1>6

LEMMA BetweenInvStep == NoDelayWraps /\ BetweenInv /\ [BetweenNext]_betweenVars => BetweenInv'
<1> SUFFICES ASSUME NoDelayWraps, BetweenInv, [BetweenNext]_betweenVars
             PROVE  BetweenInv'
  OBVIOUS
<1>1. [VirtualNext]_allVars /\ [LooseNext]_vars
  BY BetweenIsVirtual
<1>2. IInv' /\ NotTooShort' /\ NotTooLong' /\ NothingWraps'
  BY <1>1, IInvStep, NotTooShortStep, NotTooLongStep, NothingWrapsStep DEF BetweenInv
<1>3. TargetOK'
  BY <1>1, VirtualNextIsLoose DEF BetweenInv
<1>4. RemainingIsExact'
  BY <1>2, RemainderFactsNext
<1> QED
  BY <1>2, <1>3, <1>4, TurnsStep, SkippedStep, BaseElapsedStep, LeftStep, PausedAlikeStep
  DEF BetweenInv

LEMMA BetweenInvInit == NoDelayWraps /\ BetweenInit => BetweenInv
<1> SUFFICES ASSUME NoDelayWraps, BetweenInit PROVE BetweenInv
  OBVIOUS
<1>1. Init /\ target = T!NoTarget /\ skipped = 0 /\ baseElapsed = [e \in Entries |-> 0]
  BY DEF BetweenInit, VirtualInit, NoTime
<1>2. IInv /\ NotTooShort /\ NotTooLong /\ NothingWraps
  BY <1>1, IInvInit, TimeInit
<1>3. /\ \A t \in BaseTimers : ~B!Running(t)
      /\ \A g \in Goroutines : pc[g] = "idle"
      /\ \A e \in Entries : ~Waiting(e)
      /\ baseClock = 0
  BY <1>1 DEF Init, B!Running, Waiting, Created
<1>4. Worker \in Goroutines
  BY PausableAssumption
<1> QED
  BY <1>1, <1>2, <1>3, <1>4 DEF BetweenInv, TargetOK, Turns, SkippedOK, BaseElapsedOK, LeftIsOwed,
     PausedAlike

(* The state of the dispatcher on the clock that stands still in pauses.    *)
statusU == [e \in Entries |-> Status(e)]
dueU == [e \in Entries |-> UnpausedDue(e)]

DueIs(e) ==
    IF Waiting(e) THEN (baseClock - skipped) + (NotNegative(original[e]) - baseElapsed[e]) ELSE 0

LEMMA StatusAndDue ==
    IInv => \A e \in Entries :
              (Status(e) = "pending" <=> Waiting(e)) /\ UnpausedDue(e) = DueIs(e)
  BY StatusMeaning DEF UnpausedDue, DueIs, unpausedClock, NoTime

LEMMA StatusAndDueNext ==
    IInv' => (\A e \in Entries :
                (Status(e) = "pending" <=> Waiting(e)) /\ UnpausedDue(e) = DueIs(e))'
  BY StatusAndDue, PTL

(* Due times stay when the clock that stands still does, ...                *)
LEMMA DueStays ==
    ASSUME IInv, UNCHANGED unpausedClock, NEW e \in Entries,
           Status(e)' = Status(e),
           Waiting(e) => original'[e] = original[e] /\ baseElapsed'[e] = baseElapsed[e]
    PROVE  UnpausedDue(e)' = UnpausedDue(e)
<1>1. CASE Status(e) = "pending"
  <2>1. original'[e] = original[e] /\ baseElapsed'[e] = baseElapsed[e]
    BY <1>1, StatusAndDue
  <2>2. /\ UnpausedDue(e) = unpausedClock + (NotNegative(original[e]) - baseElapsed[e])
        /\ UnpausedDue(e)' = unpausedClock' + (NotNegative(original'[e]) - baseElapsed'[e])
    BY <1>1 DEF UnpausedDue
  <2> QED
    BY <2>1, <2>2
<1>2. CASE Status(e) # "pending"
  BY <1>2 DEF UnpausedDue, NoTime
<1> QED
  BY <1>1, <1>2

(* ... and when it moves, and all that wait wait less.                      *)
LEMMA DueMoves ==
    ASSUME BetweenInv, IInv', baseClock' \in Nat, UNCHANGED skipped, NEW n \in Nat,
           baseClock' = baseClock + n, NEW e \in Entries,
           Status(e)' = Status(e),
           Waiting(e) => original'[e] = original[e] /\ baseElapsed'[e] = baseElapsed[e] + n
    PROVE  UnpausedDue(e)' = UnpausedDue(e)
<1>1. /\ IInv /\ baseClock \in Nat /\ skipped \in Nat
      /\ original[e] \in Int /\ baseElapsed[e] \in Nat
  BY BetweenFacts
<1>2. Waiting(e)' <=> Waiting(e)
  BY <1>1, StatusAndDue, StatusAndDueNext
<1>3. UnpausedDue(e) = DueIs(e) /\ UnpausedDue(e)' = DueIs(e)'
  BY <1>1, StatusAndDue, StatusAndDueNext
<1>4. CASE ~Waiting(e)
  BY <1>2, <1>3, <1>4 DEF DueIs
<1>5. CASE Waiting(e)
  <2>1. NotNegative(original[e]) \in Int
    BY <1>1 DEF NotNegative
  <2>2. /\ DueIs(e) = (baseClock - skipped) + (NotNegative(original[e]) - baseElapsed[e])
        /\ DueIs(e)' = ((baseClock + n) - skipped) + (NotNegative(original[e]) - (baseElapsed[e] + n))
    BY <1>2, <1>5 DEF DueIs
  <2> QED
    BY <1>1, <1>3, <2>1, <2>2
<1> QED
  BY <1>4, <1>5

(* When an entry that waits is due, if nobody is in a method.               *)
LEMMA DueWhileAlone ==
    ASSUME BetweenInv, ~halted, mu = None, ~paused, NEW e \in Entries, Waiting(e)
    PROVE  /\ baseTimer[e] \in BaseTimers /\ at[baseTimer[e]] \in Nat
           /\ UnpausedDue(e) = at[baseTimer[e]] - skipped
<1>1. /\ IInv /\ baseClock \in Nat /\ skipped \in Nat /\ at \in [BaseTimers -> Nat]
      /\ original[e] \in Int /\ baseElapsed[e] \in Nat /\ \A t \in BaseTimers : t # None
  BY BetweenFacts
<1>2. baseTimer[e] \in BaseTimers
  BY <1>1, AloneTimer
<1>3. Left(e) = NotNegative(original[e]) - baseElapsed[e] /\ Left(e) = at[baseTimer[e]] - baseClock
  BY <1>1, <1>2 DEF BetweenInv, LeftIsOwed, Left
<1>4. UnpausedDue(e) = (baseClock - skipped) + (NotNegative(original[e]) - baseElapsed[e])
  BY <1>1, StatusAndDue DEF DueIs
<1>5. at[baseTimer[e]] \in Nat
  BY <1>1, <1>2
<1>6. UnpausedDue(e) = (baseClock - skipped) + (at[baseTimer[e]] - baseClock)
  BY <1>3, <1>4
<1> QED
  BY <1>1, <1>2, <1>5, <1>6

LEMMA StatusesStay ==
    ASSUME UNCHANGED <<status, answers, halted, handles, pc, entry>>
    PROVE  UNCHANGED P!vars /\ \A e \in Entries : Status(e)' = Status(e)
<1>1. \A e \in Entries : Created(e)' <=> Created(e)
  BY DEF Created
<1>2. \A e \in Entries : (Has(e, "running")' <=> Has(e, "running")) /\ (Has(e, "done")' <=> Has(e, "done"))
  BY DEF Has
<1>3. UNCHANGED P!vars
  BY <1>1, <1>2, StatusFrame
<1>4. \A e \in Entries : Status(e)' = Status(e)
  BY <1>1, <1>2, StatusDef DEF StatusIs
<1> QED
  BY <1>3, <1>4

LEMMA SeenByNobody ==
    ASSUME IInv, UNCHANGED P!vars, UNCHANGED unpausedClock, UNCHANGED unpausedTarget,
           \A e \in Entries :
              Waiting(e) => original'[e] = original[e] /\ baseElapsed'[e] = baseElapsed[e]
    PROVE  UNCHANGED U!vars
<1>1. statusU' = statusU /\ UNCHANGED <<halted, answers>>
  BY DEF P!vars, statusU
<1>2. \A e \in Entries : statusU[e] = Status(e) /\ statusU'[e] = Status(e)'
  BY DEF statusU
<1>3. \A e \in Entries : UnpausedDue(e)' = UnpausedDue(e)
  BY <1>1, <1>2, DueStays
<1>4. dueU' = dueU
  BY <1>3 DEF dueU
<1> QED
  BY <1>1, <1>4 DEF U!vars, statusU, dueU

(* An advance of the clock is one of the clock that stands still, unless it *)
(* stands still.                                                            *)
LEMMA AdvanceToAdvances ==
    ASSUME BetweenInv, NEW to \in Times, AdvanceTo(to), UNCHANGED <<baseClock, skipped>>
    PROVE  [U!Next]_(U!vars)
<1>1. /\ IInv /\ clock \in Nat /\ baseClock \in Nat /\ skipped \in Nat /\ baseClock <= clock
      /\ skipped <= baseClock
  BY BetweenFacts DEF BetweenInv, SkippedOK
<1>2. /\ to \in Nat /\ to <= MaxTime /\ MaxTime \in Nat /\ to >= clock
      /\ target = -1 /\ target' = to
      /\ UNCHANGED <<status, answers, halted, handles, pc, entry, paused, original, baseElapsed>>
  BY PausableAssumption DEF AdvanceTo, T!AdvanceTo, T!NoTarget, Times, threads
<1>3. UNCHANGED P!vars /\ \A e \in Entries : Status(e)' = Status(e)
  BY <1>2, StatusesStay
<1>4. unpausedClock' = unpausedClock /\ unpausedTarget = -1
  BY <1>2 DEF unpausedClock, unpausedTarget, T!NoTarget
<1>5. CASE paused
  <2>1. unpausedTarget' = -1
    BY <1>2, <1>5 DEF unpausedTarget, T!NoTarget
  <2> QED
    BY <1>1, <1>2, <1>3, <1>4, <2>1, SeenByNobody
<1>6. CASE ~paused
  <2>1. unpausedTarget' = to - skipped
    BY <1>2, <1>6 DEF unpausedTarget, T!NoTarget
  <2>2. to - skipped \in Times
    BY <1>1, <1>2 DEF Times
  <2>3. statusU' = statusU
    BY <1>3 DEF statusU
  <2>4. dueU' = dueU
    <3>1. \A e \in Entries : UnpausedDue(e)' = UnpausedDue(e)
      BY <1>1, <1>2, <1>3, <1>4, DueStays
    <3> QED
      BY <3>1 DEF dueU
  <2>5. U!AdvanceTo(to - skipped)
    BY <1>2, <1>4, <2>1, <2>3, <2>4 DEF U!AdvanceTo, U!NoTarget, statusU, dueU
  <2> QED
    BY <2>2, <2>5 DEF U!Next
<1> QED
  BY <1>5, <1>6

(* The base runs a function at its time on both clocks.                     *)
LEMMA BaseRunsAtItsTime ==
    ASSUME BetweenInv, [LooseNext]_vars, NEW t \in BaseTimers, BaseRuns(t), UNCHANGED skipped
    PROVE  U!Start(t[1])
<1> DEFINE e == t[1]
           n == at[t] - baseClock
<1>1. /\ mu = None /\ ~paused /\ ~halted /\ e \in Entries /\ baseTimer[e] = t /\ Waiting(e)
      /\ target \in Nat /\ baseClock' = at[t] /\ at[t] \in Nat
      /\ baseClock <= at[t] /\ at[t] <= target
      /\ \A x \in Entries : Waiting(x) => at[t] <= at[baseTimer[x]]
      /\ original' = [original EXCEPT ![e] = 0]
      /\ UNCHANGED <<target, halted, paused>>
      /\ baseElapsed' = [Pass(baseElapsed, n) EXCEPT ![e] = 0]
  BY BaseRunsFacts
<1>2. /\ IInv /\ IInv' /\ baseClock \in Nat /\ skipped \in Nat /\ original \in [Entries -> Int]
      /\ baseElapsed \in [Entries -> Nat] /\ skipped <= baseClock /\ status \in [BaseTimers -> B!Statuses]
  BY BetweenFacts, IInvStep DEF BetweenInv, SkippedOK
<1>3. P!Start(e)
  <2>1. T!D!Start(t) /\ at' = [at EXCEPT ![t] = 0] /\ Forget(e)
        /\ UNCHANGED <<clock, paused, tracked, entries, threads, entered, handles, answers>>
    BY DEF BaseRuns, T!Start
  <2>2. B!Start(t)
    BY <2>1 DEF T!D!Start, B!Start, T!D!Running, B!Running
  <2>3. baseClock' \in 0..clock
    BY <1>1, BetweenFacts
  <2>4. Taken(t)
    BY <2>1, <2>2, <2>3 DEF Taken, NoTime
  <2> QED
    BY <1>2, <2>4, TakenIsStart
<1>4. n \in Nat
  BY <1>1, <1>2
<1> HIDE DEF e, n
<1>5. statusU' = [statusU EXCEPT ![e] = "running"]
  BY <1>3 DEF P!Start, statusU
<1>6. /\ Status(e)' = "running"
      /\ \A x \in Entries \ {e} : Status(x)' = Status(x)
  BY <1>1, <1>5 DEF statusU
<1>7. \A x \in Entries : Waiting(x) => at[baseTimer[x]] \in Nat /\ UnpausedDue(x) = at[baseTimer[x]] - skipped
  BY <1>1, DueWhileAlone
<1>8. UnpausedDue(e) = at[t] - skipped
  BY <1>1, <1>7
<1>9. UnpausedDue(e)' = 0
  BY <1>6 DEF UnpausedDue, NoTime
<1>10. ASSUME NEW x \in Entries \ {e} PROVE UnpausedDue(x)' = UnpausedDue(x)
  <2>1. Waiting(x) => original'[x] = original[x] /\ baseElapsed'[x] = baseElapsed[x] + n
    BY <1>1, <1>2, <1>4, PassFacts
  <2>2. baseClock' = baseClock + n
    BY <1>1, <1>2 DEF n
  <2> QED
    BY <1>1, <1>2, <1>4, <1>6, <2>1, <2>2, DueMoves
<1>11. dueU' = [dueU EXCEPT ![e] = 0]
  BY <1>9, <1>10 DEF dueU
<1>12. /\ unpausedTarget = target - skipped /\ unpausedTarget' = unpausedTarget
       /\ unpausedClock' = at[t] - skipped
  BY <1>1 DEF unpausedTarget, unpausedClock, T!NoTarget
<1>13. /\ unpausedTarget # U!NoTarget /\ UnpausedDue(e) <= unpausedTarget
       /\ \A x \in Entries : Status(x) = "pending" => UnpausedDue(e) <= UnpausedDue(x)
  <2>1. unpausedTarget # U!NoTarget /\ UnpausedDue(e) <= unpausedTarget
    BY <1>1, <1>2, <1>8, <1>12 DEF U!NoTarget
  <2>2. ASSUME NEW x \in Entries, Status(x) = "pending" PROVE UnpausedDue(e) <= UnpausedDue(x)
    <3>1. Waiting(x)
      BY <1>2, <2>2, StatusAndDue
    <3>2. at[t] <= at[baseTimer[x]] /\ at[baseTimer[x]] \in Nat /\ UnpausedDue(x) = at[baseTimer[x]] - skipped
      BY <1>1, <1>7, <3>1
    <3> QED
      BY <1>1, <1>2, <1>8, <3>2
  <2> QED
    BY <2>1, <2>2
<1>14. U!Start(e)
  <2>1. U!D!Start(e)
    BY <1>3 DEF P!Start, U!D!Start, P!Running, U!D!Running
  <2> QED
    BY <1>1, <1>8, <1>11, <1>12, <1>13, <2>1 DEF U!Start, U!Pending, statusU, dueU
<1> QED
  BY <1>14 DEF e

(* FastForward returns: what is due has run on both clocks.                 *)
LEMMA ReturnIsReturn ==
    ASSUME BetweenInv, [LooseNext]_vars, FastForwardReturns,
           skipped' = skipped + (IF paused THEN baseClock' - baseClock ELSE 0)
    PROVE  [U!Next]_(U!vars)
<1> DEFINE n == baseClock' - baseClock
<1>1. /\ mu = None /\ target \in Nat /\ target' = -1
      /\ \A t \in BaseTimers : ~B!Running(t)
      /\ baseClock' \in Nat /\ baseClock <= baseClock'
      /\ UNCHANGED <<status, halted, paused, pc, entry, original>>
      /\ baseElapsed' = Pass(baseElapsed, n)
      /\ halted => UNCHANGED baseClock
      /\ ~halted => baseClock' = IF target > baseClock THEN target ELSE baseClock
      /\ ~halted /\ ~paused => \A e \in Entries : Waiting(e) => at[baseTimer[e]] > target
      /\ UNCHANGED <<handles, answers>>
  BY ReturnFacts DEF T!NoTarget, FastForwardReturns, history
<1>2. /\ IInv /\ IInv' /\ baseClock \in Nat /\ skipped \in Nat /\ skipped <= target
      /\ original \in [Entries -> Int] /\ baseElapsed \in [Entries -> Nat]
  BY <1>1, BetweenFacts, IInvStep DEF BetweenInv, SkippedOK, T!NoTarget
<1>3. UNCHANGED P!vars /\ \A e \in Entries : Status(e)' = Status(e)
  BY <1>1, StatusesStay
<1>4. n \in Nat /\ baseClock' = baseClock + n
  <2>1. baseClock \in Nat /\ baseClock' \in Nat /\ baseClock <= baseClock'
    BY <1>1, <1>2
  <2>2. \A x, y \in Nat : x <= y => y - x \in Nat /\ y = x + (y - x)
    OBVIOUS
  <2> QED
    BY <2>1, <2>2
<1>5. unpausedTarget' = -1
  BY <1>1 DEF unpausedTarget, T!NoTarget
<1> HIDE DEF n
<1>6. CASE paused
  <2>1. \A e \in Entries : baseElapsed'[e] = baseElapsed[e]
    BY <1>1, <1>4, <1>6, PassFacts
  <2>2. skipped' = skipped + (baseClock' - baseClock)
    BY <1>6
  <2>3. unpausedClock' = unpausedClock
    BY <1>1, <1>2, <2>2 DEF unpausedClock
  <2>4. unpausedTarget = -1
    BY <1>6 DEF unpausedTarget, T!NoTarget
  <2> QED
    BY <1>1, <1>2, <1>3, <1>5, <2>1, <2>3, <2>4, SeenByNobody
<1>7. CASE ~paused
  <2>1. /\ skipped' = skipped + 0 /\ unpausedTarget = target - skipped
        /\ \A e \in Entries : Waiting(e) => baseElapsed'[e] = baseElapsed[e] + n
    BY <1>1, <1>4, <1>7, PassFacts DEF unpausedTarget, T!NoTarget
  <2>2. skipped' = skipped /\ unpausedTarget # U!NoTarget /\ unpausedTarget' = U!NoTarget
    <3>1. \A x, y \in Nat : y <= x => x - y # -1
      OBVIOUS
    <3>2. target - skipped # -1
      BY <1>1, <1>2, <3>1
    <3> QED
      BY <1>2, <1>5, <2>1, <3>2 DEF U!NoTarget
  <2>3. \A e \in Entries : UnpausedDue(e)' = UnpausedDue(e)
    BY <1>1, <1>2, <1>3, <1>4, <2>1, <2>2, DueMoves
  <2>4. dueU' = dueU /\ statusU' = statusU
    BY <1>3, <2>3 DEF dueU, statusU
  <2>5. \A e \in Entries : Status(e) # "running"
    BY <1>1, <1>2, StatusMeaning DEF Has, B!Running
  <2>6. CASE halted
    <3>1. unpausedClock' = unpausedClock
      BY <1>1, <2>2, <2>6 DEF unpausedClock
    <3> QED
      BY <1>1, <2>2, <2>4, <2>5, <2>6, <3>1
      DEF U!Next, U!Failed, U!NoneRuns, U!D!Running, statusU, dueU
  <2>7. CASE ~halted
    <3>1. unpausedClock' = IF unpausedTarget > unpausedClock THEN unpausedTarget ELSE unpausedClock
      <4>1. unpausedClock = baseClock - skipped /\ unpausedClock' = baseClock' - skipped
        BY <2>2 DEF unpausedClock
      <4>2. CASE target > baseClock
        <5>1. baseClock' = target /\ target - skipped > baseClock - skipped
          BY <1>1, <1>2, <2>7, <4>2
        <5> QED
          BY <2>1, <4>1, <5>1
      <4>3. CASE ~(target > baseClock)
        <5>1. baseClock' = baseClock /\ ~(target - skipped > baseClock - skipped)
          BY <1>1, <1>2, <2>7, <4>3
        <5> QED
          BY <2>1, <4>1, <5>1
      <4> QED
        BY <4>2, <4>3
    <3>2. ASSUME NEW e \in Entries, Status(e) = "pending" PROVE UnpausedDue(e) > unpausedTarget
      <4>1. Waiting(e)
        BY <1>2, <3>2, StatusAndDue
      <4>2. /\ at[baseTimer[e]] \in Nat /\ UnpausedDue(e) = at[baseTimer[e]] - skipped
            /\ at[baseTimer[e]] > target
        BY <1>1, <1>7, <2>7, <4>1, DueWhileAlone
      <4> QED
        BY <1>1, <1>2, <2>1, <4>2
    <3>3. U!Advanced
      BY <1>1, <2>2, <2>4, <2>5, <2>7, <3>1, <3>2
      DEF U!Advanced, U!NoneRuns, U!D!Running, U!Pending, statusU, dueU
    <3> QED
      BY <3>3 DEF U!Next
  <2> QED
    BY <2>6, <2>7
<1> QED
  BY <1>6, <1>7

(* A callback ends, and the function with it.                               *)
LEMMA EndIsEnd ==
    ASSUME BetweenInv, [LooseNext]_vars, NEW t \in BaseTimers, CallbackEnds(t),
           UNCHANGED <<target, baseElapsed, skipped>>
    PROVE  U!End(t[1])
<1>1. IInv /\ t[1] \in Entries
  BY BetweenFacts
<1>2. P!Return(t[1]) \/ P!Panic(t[1])
  BY <1>1, CallbackEndsIsEnd
<1> DEFINE e == t[1]
<1>3. /\ Status(e) = "running" /\ statusU' = [statusU EXCEPT ![e] = "done"]
  BY <1>1, <1>2 DEF P!Return, P!Panic, P!Running, statusU
<1>4. \A x \in Entries : Status(x) = "pending" => Status(x)' = Status(x)
  BY <1>1, <1>3 DEF statusU
<1>5. \A x \in Entries : Status(x)' = "pending" => Status(x) = "pending"
  BY <1>1, <1>3 DEF statusU
<1>6. UNCHANGED <<original, baseElapsed, unpausedClock, unpausedTarget>>
  BY DEF CallbackEnds, history, unpausedClock, unpausedTarget
<1>7. \A x \in Entries : UnpausedDue(x)' = UnpausedDue(x)
  BY <1>4, <1>5, <1>6 DEF UnpausedDue, NoTime
<1>8. dueU' = dueU
  BY <1>7 DEF dueU
<1>9. U!D!Return(e) \/ U!D!Panic(e)
  BY <1>2 DEF P!Return, P!Panic, P!Running, U!D!Return, U!D!Panic, U!D!Running
<1> HIDE DEF e
<1>10. U!End(e)
  BY <1>6, <1>8, <1>9 DEF U!End, statusU, dueU
<1> QED
  BY <1>10 DEF e

(* AfterFunc schedules after its delay on the clock that stands still.      *)
LEMMA AfterFuncSchedules ==
    ASSUME BetweenInv, BetweenNext, NEW g \in Goroutines, NEW e \in Entries, NEW d \in Delays,
           AfterFunc(g, e, d), UNCHANGED <<target, baseElapsed, skipped>>
    PROVE  U!AfterFunc(e, d)
<1>1. IInv /\ IInv' /\ [LooseNext]_vars /\ original \in [Entries -> Int] /\ BaseElapsedOK
  BY BetweenFacts, BetweenIsVirtual, IInvStep DEF BetweenInv
<1>2. P!AfterFunc(e)
  BY <1>1, AfterFuncIsAfterFunc
<1>3. /\ ~Created(e) /\ original' = [original EXCEPT ![e] = d]
      /\ UNCHANGED <<baseElapsed, unpausedClock, unpausedTarget>>
  BY DEF AfterFunc, unpausedClock, unpausedTarget
<1>4. statusU' = [statusU EXCEPT ![e] = "pending"]
  BY <1>2 DEF P!AfterFunc, statusU
<1>5. Status(e)' = "pending" /\ \A x \in Entries \ {e} : Status(x)' = Status(x)
  BY <1>4 DEF statusU
<1>6. baseElapsed'[e] = 0 /\ original'[e] = d
  BY <1>1, <1>3 DEF BaseElapsedOK
<1>7. UnpausedDue(e)' = unpausedClock + NotNegative(d)
  <2>1. NotNegative(d) \in Int /\ d \in Int
    BY PausableAssumption DEF NotNegative
  <2>2. UnpausedDue(e)' = unpausedClock' + (NotNegative(original'[e]) - baseElapsed'[e])
    BY <1>5 DEF UnpausedDue
  <2>3. NotNegative(d) - 0 = NotNegative(d)
    BY <2>1
  <2> QED
    BY <1>3, <1>6, <2>2, <2>3
<1>8. \A x \in Entries \ {e} : UnpausedDue(x)' = UnpausedDue(x)
  BY <1>1, <1>3, <1>5, DueStays
<1>9. dueU' = [dueU EXCEPT ![e] = unpausedClock + NotNegative(d)]
  BY <1>7, <1>8 DEF dueU
<1>10. U!D!AfterFunc(e)
  BY <1>2 DEF P!AfterFunc, U!D!AfterFunc
<1> QED
  BY <1>3, <1>9, <1>10 DEF U!AfterFunc, dueU, NotNegative

(* Stop takes the function out.                                             *)
LEMMA StopTakesOut ==
    ASSUME BetweenInv, [LooseNext]_vars, NEW g \in Goroutines, NEW e \in Entries,
           StopFound(g, e) \/ StopNotFound(g, e), UNCHANGED <<target, baseElapsed, skipped>>
    PROVE  U!Stop(e)
<1>1. IInv /\ original \in [Entries -> Int]
  BY BetweenFacts
<1>2. P!Stop(e)
  BY <1>1, StopIsStop
<1>3. UNCHANGED <<baseElapsed, unpausedClock, unpausedTarget>>
  <2>1. UNCHANGED <<baseClock, paused>>
    BY <1>1, MethodFrame, PlaceFrame
  <2> QED
    BY <2>1 DEF unpausedClock, unpausedTarget
<1>4. \A x \in Entries \ {e} : original'[x] = original[x]
  BY <1>1 DEF StopFound, StopNotFound, Forget
<1>5. statusU' = [statusU EXCEPT ![e] = IF @ = "pending" THEN "stopped" ELSE @]
  BY <1>2 DEF P!Stop, statusU
<1>6. Status(e)' # "pending" /\ \A x \in Entries \ {e} : Status(x)' = Status(x)
  BY <1>5 DEF statusU
<1>7. UnpausedDue(e)' = 0
  BY <1>6 DEF UnpausedDue, NoTime
<1>8. \A x \in Entries \ {e} : UnpausedDue(x)' = UnpausedDue(x)
  BY <1>1, <1>3, <1>4, <1>6, DueStays
<1>9. dueU' = [dueU EXCEPT ![e] = 0]
  BY <1>7, <1>8 DEF dueU
<1>10. U!D!Stop(e)
  BY <1>2 DEF P!Stop, U!D!Stop
<1> QED
  BY <1>3, <1>9, <1>10 DEF U!Stop, dueU

(* The rest is seen by nobody.                                              *)
LEMMA UnseenMethods ==
    ASSUME BetweenInv, [LooseNext]_vars, UNCHANGED <<target, baseElapsed, skipped>>,
           \/ \E t \in BaseTimers : Callback(t)
           \/ \E g \in Goroutines :
                \/ Continue(g)
                \/ target = T!NoTarget /\ (Pause(g) \/ Resume(g))
    PROVE  UNCHANGED U!vars
<1>1. IInv
  BY BetweenFacts
<1>2. UNCHANGED P!vars
  BY <1>1, StutteringSteps DEF Continue
<1>3. UNCHANGED original
  BY DEF Callback, Continue, Pause, Resume, LoopEnds, AfterFuncDispatches, AfterFuncTracks,
     PauseEntry, ResumeEntry, history
<1>4. UNCHANGED baseClock
  BY <1>1, MethodFrame DEF Callback
<1>5. UNCHANGED paused \/ target = T!NoTarget
  BY <1>1, PlaceFrame DEF Callback
<1>6. UNCHANGED unpausedClock /\ UNCHANGED unpausedTarget
  BY <1>4, <1>5 DEF unpausedClock, unpausedTarget, T!NoTarget
<1> QED
  BY <1>1, <1>2, <1>3, <1>6, SeenByNobody

LEMMA UnpausedTimeStep == BetweenInv /\ [BetweenNext]_betweenVars => [U!Next]_(U!vars)
<1> SUFFICES ASSUME BetweenInv, [BetweenNext]_betweenVars PROVE [U!Next]_(U!vars)
  OBVIOUS
<1>1. [LooseNext]_vars /\ IInv /\ \A t \in BaseTimers : t[1] \in Entries
  BY BetweenIsVirtual, BetweenFacts
<1>2. CASE UNCHANGED betweenVars
  <2>1. UNCHANGED <<baseElapsed, original, status, answers, halted, handles, pc, entry>>
    BY <1>2 DEF betweenVars, allVars, vars, threads, base, history
  <2>2. UNCHANGED unpausedClock /\ UNCHANGED unpausedTarget
    BY <1>2 DEF betweenVars, allVars, vars, unpausedClock, unpausedTarget
  <2> QED
    BY <1>1, <2>1, <2>2, StatusesStay, SeenByNobody
<1>3. CASE BetweenNext
  <2>1. ASSUME NEW to \in Times, AdvanceTo(to), UNCHANGED <<baseClock, skipped>>
        PROVE  [U!Next]_(U!vars)
    BY <2>1, AdvanceToAdvances
  <2>2. ASSUME NEW t \in BaseTimers, BaseRuns(t), UNCHANGED skipped
        PROVE  U!Next
    BY <1>1, <2>2, BaseRunsAtItsTime DEF U!Next
  <2>3. ASSUME FastForwardReturns,
               skipped' = skipped + (IF paused THEN baseClock' - baseClock ELSE 0)
        PROVE  [U!Next]_(U!vars)
    BY <1>1, <2>3, ReturnIsReturn
  <2>4. ASSUME NEW t \in BaseTimers, CallbackEnds(t), UNCHANGED <<target, baseElapsed, skipped>>
        PROVE  U!Next
    BY <1>1, <2>4, EndIsEnd DEF U!Next
  <2>5. ASSUME NEW g \in Goroutines, NEW e \in Entries,
               \/ \E d \in Delays : AfterFunc(g, e, d)
               \/ StopFound(g, e) \/ StopNotFound(g, e),
               UNCHANGED <<target, baseElapsed, skipped>>
        PROVE  U!Next
    BY <1>1, <1>3, <2>5, AfterFuncSchedules, StopTakesOut DEF U!Next
  <2>6. ASSUME UNCHANGED <<target, baseElapsed, skipped>>,
               \/ \E t \in BaseTimers : Callback(t)
               \/ \E g \in Goroutines :
                    \/ Continue(g)
                    \/ MainActs /\ (Pause(g) \/ Resume(g))
        PROVE  UNCHANGED U!vars
    BY <1>1, <2>6, UnseenMethods DEF MainActs
  <2> QED
    BY <1>3, <2>1, <2>2, <2>3, <2>4, <2>5, <2>6, BetweenSteps DEF Method
<1> QED
  BY <1>2, <1>3

LEMMA UnpausedTimeInit == BetweenInit => U!Init
<1> SUFFICES ASSUME BetweenInit PROVE U!Init
  OBVIOUS
<1>1. Init /\ target = T!NoTarget /\ skipped = 0
  BY DEF BetweenInit, VirtualInit
<1>2. \A e \in Entries : Status(e) = "unused"
  BY <1>1, StatusDef DEF Init, StatusIs, Has, Created
<1>3. /\ \A e \in Entries : UnpausedDue(e) = 0
      /\ unpausedClock = 0 /\ unpausedTarget = -1
      /\ ~halted /\ halted = FALSE /\ answers = [e \in Entries |-> {}]
  BY <1>1, <1>2 DEF Init, UnpausedDue, NoTime, unpausedClock, unpausedTarget, T!NoTarget
<1> QED
  BY <1>2, <1>3 DEF U!Init, U!D!Init, U!NoTarget

(* A dispatcher that main pauses and resumes between two advances runs each *)
(* function when its delay has elapsed outside of the pauses, in that order *)
(* of times, and leaves none behind that is due                             *)
(* (src/task/pausable/dispatcher.go:71-74, 98-99).                          *)
THEOREM UnpausedTime == NoDelayWraps => (BetweenSpec => KeepsUnpausedTime)
<1> SUFFICES ASSUME NoDelayWraps PROVE BetweenSpec => KeepsUnpausedTime
  OBVIOUS
<1>1. BetweenInit => BetweenInv
  BY BetweenInvInit
<1>2. BetweenInv /\ [BetweenNext]_betweenVars => BetweenInv'
  BY BetweenInvStep
<1> QED
  BY <1>1, <1>2, UnpausedTimeInit, UnpausedTimeStep, PTL DEF BetweenSpec, KeepsUnpausedTime, U!Spec
=============================================================================
