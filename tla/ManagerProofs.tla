---------------------------- MODULE ManagerProofs ----------------------------
(***************************************************************************)
(* Proofs about Manager for any dispatchers, timers and number of values.  *)
(***************************************************************************)
EXTENDS Manager, SequenceLemmas

TypeOK ==
    /\ current \in Nat
    /\ timers \in Seq(Timers)
    /\ status \in [Timers -> {"unused", "pending", "running", "done", "stopped"}]
    /\ halted \subseteq Dispatchers
    /\ stack \in Seq(Timers)
    /\ scheduledFor \in [Timers -> Nat]

NoneTwice(s) == \A i, j \in 1..Len(s) : s[i] = s[j] => i = j

(* The callbacks in progress are those of the timers that run, once each.   *)
StackIsRunning ==
    /\ NoneTwice(stack)
    /\ \A t \in Timers : status[t] = "running" <=> \E i \in 1..Len(stack) : stack[i] = t

(* No timer is pending for a value that has been replaced, and none was     *)
(* scheduled for one that is still to come.                                 *)
PendingIsCurrent ==
    \A t \in Timers :
        /\ scheduledFor[t] <= current
        /\ status[t] = "pending" => scheduledFor[t] = current

IInv == TypeOK /\ StackIsRunning /\ PendingIsCurrent /\ GroupIsTheLiveTimers

-----------------------------------------------------------------------------
(* The list of timers                                                      *)

(* A timer is in the set of a list when the list has it somewhere.          *)
LEMMA InList ==
    ASSUME NEW s \in Seq(Timers), NEW t
    PROVE  t \in ToSet(s) <=> \E i \in 1..Len(s) : s[i] = t
<1>1. DOMAIN s = 1..Len(s)
  BY LenProperties
<1> QED
  BY <1>1 DEF ToSet

(* The swap of removeTimer loses no other timer and keeps none twice        *)
(* (src/state/timers.go:26-35).                                             *)
LEMMA RemoveTimerFacts ==
    ASSUME timers \in Seq(Timers), NoneTwice(timers), NEW t \in Timers
    PROVE  /\ removeTimer(t) \in Seq(Timers)
           /\ NoneTwice(removeTimer(t))
           /\ ToSet(removeTimer(t)) = ToSet(timers) \ {t}
<1>1. CASE ~\E i \in 1..Len(timers) : timers[i] = t
  BY <1>1, InList DEF removeTimer
<1>2. CASE \E i \in 1..Len(timers) : timers[i] = t
  <2> DEFINE n == Len(timers)
             i == CHOOSE j \in 1..Len(timers) : timers[j] = t
             swapped == [timers EXCEPT ![i] = Last(timers)]
  <2>1. i \in 1..n /\ timers[i] = t /\ n \in Nat /\ n >= 1
    BY <1>2, LenProperties
  <2>2. removeTimer(t) = Front(swapped)
    BY <1>2 DEF removeTimer
  <2>3. Last(timers) = timers[n] /\ timers[n] \in Timers /\ n \in 1..n
    BY <2>1, ElementOfSeq DEF Last
  <2> HIDE DEF i
  <2>4. /\ swapped \in Seq(Timers) /\ Len(swapped) = n
        /\ \A j \in 1..n : swapped[j] = IF j = i THEN timers[n] ELSE timers[j]
    BY <2>1, <2>3, ExceptSeq
  <2> HIDE DEF swapped, n
  <2>5. swapped # <<>>
    BY <2>1, <2>4
  <2>6. /\ Front(swapped) \in Seq(Timers)
        /\ Len(Front(swapped)) = n - 1
        /\ \A j \in 1..(n - 1) : Front(swapped)[j] = IF j = i THEN timers[n] ELSE timers[j]
    BY <2>1, <2>4, <2>5, FrontFacts
  <2>7. \A j, k \in 1..n : timers[j] = timers[k] => j = k
    BY DEF NoneTwice, n
  <2>8. NoneTwice(Front(swapped))
    BY <2>1, <2>6, <2>7 DEF NoneTwice
  <2>9. ASSUME NEW x
        PROVE  x \in ToSet(Front(swapped)) <=> x \in ToSet(timers) /\ x # t
    <3>1. /\ x \in ToSet(timers) <=> \E k \in 1..n : timers[k] = x
          /\ x \in ToSet(Front(swapped)) <=> \E j \in 1..(n - 1) : Front(swapped)[j] = x
      BY <2>6, InList DEF n
    <3>2. ASSUME NEW j \in 1..(n - 1), Front(swapped)[j] = x
          PROVE  \E k \in 1..n : timers[k] = x /\ x # t
      BY <2>1, <2>3, <2>6, <2>7, <3>2
    <3>3. ASSUME NEW k \in 1..n, timers[k] = x, x # t
          PROVE  \E j \in 1..(n - 1) : Front(swapped)[j] = x
      <4>1. CASE k = n
        <5>1. i \in 1..(n - 1) /\ Front(swapped)[i] = x
          BY <2>1, <2>6, <3>3, <4>1
        <5> QED
          BY <5>1
      <4>2. CASE k # n
        <5>1. k \in 1..(n - 1) /\ Front(swapped)[k] = x
          BY <2>1, <2>6, <3>3, <4>2
        <5> QED
          BY <5>1
      <4> QED
        BY <4>1, <4>2
    <3> QED
      BY <3>1, <3>2, <3>3
  <2> QED
    BY <2>2, <2>6, <2>8, <2>9
<1> QED
  BY <1>1, <1>2
-----------------------------------------------------------------------------
(* The invariant                                                           *)

(* The group and the stack before and after a step, timer by timer.         *)
LEMMA GroupMeaning ==
    ASSUME TypeOK
    PROVE  GroupIsTheLiveTimers <=>
              /\ NoneTwice(timers)
              /\ \A t \in Timers : t \in ToSet(timers) <=>
                    scheduledFor[t] = current /\ status[t] \in {"pending", "running"}
<1>1. \A x : x \in ToSet(timers) => x \in Timers
  BY InList, ElementOfSeq DEF TypeOK
<1> QED
  BY <1>1 DEF GroupIsTheLiveTimers, NoneTwice

(* Set: nothing of the value that goes stays pending.                       *)
LEMMA SetStep == IInv /\ Set => IInv'
<1> SUFFICES ASSUME IInv, Set PROVE IInv'
  OBVIOUS
<1>1. /\ current \in Nat /\ scheduledFor \in [Timers -> Nat]
      /\ status \in [Timers -> {"unused", "pending", "running", "done", "stopped"}]
      /\ status' = [t \in Timers |-> IF t \in ToSet(timers) THEN Stopped(t) ELSE status[t]]
      /\ timers' = <<>> /\ current' = current + 1
      /\ UNCHANGED <<halted, stack, scheduledFor>>
  BY DEF IInv, TypeOK, Set
<1>2. TypeOK'
  BY <1>1 DEF IInv, TypeOK, Stopped
<1>3. \A t \in Timers :
        /\ status'[t] # "pending"
        /\ status'[t] = "running" <=> status[t] = "running"
  <2>1. ASSUME NEW t \in Timers, status[t] = "pending" PROVE t \in ToSet(timers)
    BY <2>1, GroupMeaning DEF IInv, PendingIsCurrent
  <2> QED
    BY <1>1, <2>1 DEF Stopped
<1>4. StackIsRunning'
  BY <1>1, <1>3 DEF IInv, StackIsRunning, NoneTwice
<1>5. PendingIsCurrent'
  BY <1>1, <1>3 DEF IInv, PendingIsCurrent
<1>6. GroupIsTheLiveTimers'
  <2>1. ToSet(timers') = {} /\ \A i, j \in 1..Len(timers') : timers'[i] = timers'[j] => i = j
    BY <1>1 DEF ToSet
  <2>2. \A t \in Timers : scheduledFor'[t] # current'
    BY <1>1 DEF IInv, PendingIsCurrent
  <2> QED
    BY <2>1, <2>2 DEF GroupIsTheLiveTimers
<1> QED
  BY <1>2, <1>4, <1>5, <1>6 DEF IInv

(* AfterFunc adds a timer that was in neither list.                         *)
LEMMA AfterFuncStep == ASSUME IInv, NEW t \in Timers, AfterFunc(t) PROVE IInv'
<1>1. /\ current \in Nat /\ scheduledFor \in [Timers -> Nat] /\ timers \in Seq(Timers)
      /\ status \in [Timers -> {"unused", "pending", "running", "done", "stopped"}]
      /\ status[t] = "unused"
      /\ status' = [status EXCEPT ![t] = "pending"]
      /\ timers' = Append(timers, t)
      /\ scheduledFor' = [scheduledFor EXCEPT ![t] = current]
      /\ UNCHANGED <<current, halted, stack>>
  BY DEF IInv, TypeOK, AfterFunc
<1>2. /\ timers' \in Seq(Timers) /\ Len(timers) \in Nat
      /\ Len(timers') = Len(timers) + 1
      /\ \A j \in 1..Len(timers) : timers'[j] = timers[j]
      /\ timers'[Len(timers) + 1] = t
  BY <1>1, AppendFacts, LenProperties
<1>3. TypeOK'
  BY <1>1, <1>2 DEF IInv, TypeOK
<1>4. StackIsRunning'
  BY <1>1 DEF IInv, StackIsRunning, NoneTwice
<1>5. PendingIsCurrent'
  BY <1>1 DEF IInv, PendingIsCurrent
<1>6. NoneTwice(timers) /\ \A u \in Timers : u \in ToSet(timers) <=>
         scheduledFor[u] = current /\ status[u] \in {"pending", "running"}
  BY GroupMeaning DEF IInv
<1>7. \A j \in 1..Len(timers) : timers[j] # t
  BY <1>1, <1>6, InList
<1>8. NoneTwice(timers')
  BY <1>2, <1>6, <1>7 DEF NoneTwice
<1>9. \A u : u \in ToSet(timers') <=> u \in ToSet(timers) \/ u = t
  <2>1. \A u : /\ u \in ToSet(timers) <=> \E i \in 1..Len(timers) : timers[i] = u
               /\ u \in ToSet(timers') <=> \E i \in 1..Len(timers') : timers'[i] = u
    BY <1>1, <1>2, InList
  <2> QED
    BY <1>2, <2>1
<1>10. GroupIsTheLiveTimers'
  <2>1. NoneTwice(timers)' /\ \A u \in Timers : u \in ToSet(timers)' <=>
         scheduledFor'[u] = current' /\ status'[u] \in {"pending", "running"}
    BY <1>1, <1>6, <1>8, <1>9 DEF NoneTwice
  <2>2. \A x : x \in ToSet(timers)' => x \in Timers
    BY <1>2, InList, ElementOfSeq
  <2> QED
    BY <2>1, <2>2 DEF GroupIsTheLiveTimers, NoneTwice
<1> QED
  BY <1>3, <1>4, <1>5, <1>10 DEF IInv

(* A timer that fires stays in the group and goes on the stack.             *)
LEMMA FiresStep == ASSUME IInv, NEW t \in Timers, Fires(t) PROVE IInv'
<1>1. /\ stack \in Seq(Timers)
      /\ status \in [Timers -> {"unused", "pending", "running", "done", "stopped"}]
      /\ status[t] = "pending"
      /\ status' = [status EXCEPT ![t] = "running"]
      /\ stack' = Append(stack, t)
      /\ UNCHANGED <<current, timers, halted, scheduledFor>>
  BY DEF IInv, TypeOK, Fires
<1>2. /\ stack' \in Seq(Timers) /\ Len(stack) \in Nat
      /\ Len(stack') = Len(stack) + 1
      /\ \A j \in 1..Len(stack) : stack'[j] = stack[j]
      /\ stack'[Len(stack) + 1] = t
  BY <1>1, AppendFacts, LenProperties
<1>3. TypeOK'
  BY <1>1, <1>2 DEF IInv, TypeOK
<1>4. StackIsRunning'
  <2>1. \A j \in 1..Len(stack) : stack[j] # t
    BY <1>1 DEF IInv, StackIsRunning
  <2>2. NoneTwice(stack')
    BY <1>2, <2>1 DEF IInv, StackIsRunning, NoneTwice
  <2>3. ASSUME NEW u \in Timers
        PROVE  status'[u] = "running" <=> \E i \in 1..Len(stack') : stack'[i] = u
    <3>1. status[u] = "running" <=> \E i \in 1..Len(stack) : stack[i] = u
      BY DEF IInv, StackIsRunning
    <3> QED
      BY <1>1, <1>2, <3>1
  <2> QED
    BY <2>2, <2>3 DEF StackIsRunning, NoneTwice
<1>5. PendingIsCurrent'
  BY <1>1 DEF IInv, PendingIsCurrent
<1>6. GroupIsTheLiveTimers'
  <2>1. \A u \in Timers :
          status'[u] \in {"pending", "running"} <=> status[u] \in {"pending", "running"}
    BY <1>1
  <2> QED
    BY <1>1, <2>1 DEF IInv, GroupIsTheLiveTimers
<1> QED
  BY <1>3, <1>4, <1>5, <1>6 DEF IInv

(* The callback that ends is the innermost one, and its timer leaves the    *)
(* group if a Set has not taken it out before.                              *)
LEMMA EndsStep == IInv /\ Ends /\ halted' \subseteq Dispatchers => IInv'
<1> SUFFICES ASSUME IInv, Ends, halted' \subseteq Dispatchers PROVE IInv'
  OBVIOUS
<1> DEFINE t == Last(stack)
<1>1. /\ stack \in Seq(Timers) /\ timers \in Seq(Timers)
      /\ status \in [Timers -> {"unused", "pending", "running", "done", "stopped"}]
      /\ stack # <<>>
      /\ status' = [status EXCEPT ![t] = "done"]
      /\ timers' = removeTimer(t)
      /\ stack' = Front(stack)
      /\ UNCHANGED <<current, scheduledFor>>
  BY DEF IInv, TypeOK, Ends
<1>2. /\ stack' \in Seq(Timers) /\ Len(stack) \in Nat /\ Len(stack) >= 1
      /\ Len(stack') = Len(stack) - 1
      /\ \A j \in 1..(Len(stack) - 1) : stack'[j] = stack[j]
      /\ t = stack[Len(stack)] /\ t \in Timers
  BY <1>1, FrontFacts
<1> HIDE DEF t
<1>3. /\ NoneTwice(timers)
      /\ \A u \in Timers : u \in ToSet(timers) <=>
            scheduledFor[u] = current /\ status[u] \in {"pending", "running"}
  BY GroupMeaning DEF IInv
<1>4. /\ timers' \in Seq(Timers)
      /\ NoneTwice(timers')
      /\ ToSet(timers') = ToSet(timers) \ {t}
  BY <1>1, <1>2, <1>3, RemoveTimerFacts
<1>5. TypeOK'
  BY <1>1, <1>2, <1>4 DEF IInv, TypeOK
<1>6. StackIsRunning'
  <2>1. \A i, j \in 1..Len(stack) : stack[i] = stack[j] => i = j
    BY DEF IInv, StackIsRunning, NoneTwice
  <2>2. NoneTwice(stack')
    BY <1>2, <2>1 DEF NoneTwice
  <2>3. ASSUME NEW u \in Timers
        PROVE  status'[u] = "running" <=> \E i \in 1..Len(stack') : stack'[i] = u
    <3>1. status[u] = "running" <=> \E i \in 1..Len(stack) : stack[i] = u
      BY DEF IInv, StackIsRunning
    <3>2. CASE u = t
      <4>1. \A i \in 1..Len(stack') : stack'[i] # u
        BY <1>2, <2>1, <3>2
      <4> QED
        BY <1>1, <3>2, <4>1
    <3>3. CASE u # t
      <4>1. ASSUME NEW i \in 1..Len(stack), stack[i] = u
            PROVE  i \in 1..Len(stack') /\ stack'[i] = u
        BY <1>2, <3>3, <4>1
      <4>2. \A i \in 1..Len(stack') : i \in 1..Len(stack) /\ stack'[i] = stack[i]
        BY <1>2
      <4> QED
        BY <1>1, <3>1, <3>3, <4>1, <4>2
    <3> QED
      BY <3>2, <3>3
  <2> QED
    BY <2>2, <2>3 DEF StackIsRunning, NoneTwice
<1>7. PendingIsCurrent'
  BY <1>1 DEF IInv, PendingIsCurrent
<1>8. GroupIsTheLiveTimers'
  <2>1. NoneTwice(timers)' /\ \A u \in Timers : u \in ToSet(timers)' <=>
         scheduledFor'[u] = current' /\ status'[u] \in {"pending", "running"}
    BY <1>1, <1>3, <1>4 DEF NoneTwice
  <2>2. \A x : x \in ToSet(timers)' => x \in Timers
    BY <1>4, InList, ElementOfSeq
  <2> QED
    BY <2>1, <2>2 DEF GroupIsTheLiveTimers, NoneTwice
<1> QED
  BY <1>5, <1>6, <1>7, <1>8 DEF IInv

(* The inductive invariant holds initially ...                              *)
LEMMA IInvInit == Init => IInv
<1> SUFFICES ASSUME Init PROVE IInv
  OBVIOUS
<1>1. TypeOK /\ StackIsRunning /\ PendingIsCurrent
  BY DEF Init, TypeOK, StackIsRunning, NoneTwice, PendingIsCurrent
<1>2. GroupIsTheLiveTimers
  <2>1. ToSet(timers) = {} /\ \A i, j \in 1..Len(timers) : timers[i] = timers[j] => i = j
    BY DEF Init, ToSet
  <2> QED
    BY <2>1 DEF Init, GroupIsTheLiveTimers
<1> QED
  BY <1>1, <1>2 DEF IInv

(* ... and every step keeps it.                                             *)
LEMMA IInvStep == IInv /\ [Next]_vars => IInv'
<1> SUFFICES ASSUME IInv, [Next]_vars PROVE IInv'
  OBVIOUS
<1>1. CASE UNCHANGED vars
  BY <1>1 DEF vars, IInv, TypeOK, StackIsRunning, NoneTwice, PendingIsCurrent,
     GroupIsTheLiveTimers
<1>2. CASE Returns \/ Panics
  <2>1. halted' \subseteq Dispatchers
    <3>1. stack # <<>> => Last(stack) \in Timers
      BY FrontFacts DEF IInv, TypeOK
    <3> QED
      BY <1>2, <3>1, ManagerAssumption DEF Returns, Panics, Ends, IInv, TypeOK
  <2> QED
    BY <1>2, <2>1, EndsStep DEF Returns, Panics
<1> QED
  BY <1>1, <1>2, SetStep, AfterFuncStep, FiresStep DEF Next

(* The inductive invariant holds in every reachable state.                  *)
THEOREM Invariance == Spec => []IInv
BY IInvInit, IInvStep, PTL DEF Spec

(* The group is exactly the live timers of the current value, each once:    *)
(* none is kept after it has fired and none is forgotten that a Set has to  *)
(* stop, however callbacks nest, panic and replace the value.               *)
THEOREM GroupIsExact == Spec => []GroupIsTheLiveTimers
<1>1. IInv => GroupIsTheLiveTimers
  BY DEF IInv
<1> QED
  BY <1>1, Invariance, PTL

(* No timer fires for a value that has been replaced.                       *)
THEOREM TimersDieWithTheirValue == Spec => NeverForAReplacedValue
<1>1. IInv /\ [Next]_vars =>
        [\A t \in Timers :
            status'[t] = "running" /\ status[t] = "pending" => scheduledFor[t] = current]_vars
  BY DEF IInv, PendingIsCurrent
<1> QED
  BY <1>1, Invariance, PTL DEF Spec, NeverForAReplacedValue
==============================================================================
