-------------------------- MODULE DispatcherProofs --------------------------
(* Proofs about Dispatcher for any set of timers.                           *)
EXTENDS Dispatcher, TLAPS

(* What makes the answers of Stop final: "stopped" has no successor.        *)
StopIsTruthful == \A t \in Timers : TRUE \in answers[t] <=> status[t] = "stopped"

(* A step changes the status of one timer at most, to one that its old      *)
(* status allows.                                                           *)
LEMMA TypeStep == TypeOK /\ [Next]_vars => TypeOK'
<1> SUFFICES ASSUME TypeOK, [Next]_vars PROVE TypeOK'
  OBVIOUS
<1> USE DEF TypeOK, Statuses
<1>1. ASSUME NEW t \in Timers, AfterFunc(t)
      PROVE  TypeOK'
  BY <1>1 DEF AfterFunc
<1>2. ASSUME NEW t \in Timers, Start(t) \/ Return(t) \/ Panic(t)
      PROVE  TypeOK'
  BY <1>2 DEF Start, Return, Panic
<1>3. ASSUME NEW t \in Timers, Stop(t)
      PROVE  TypeOK'
  <2>1. status' \in [Timers -> Statuses]
    BY <1>3 DEF Stop
  <2>2. answers' \in [Timers -> SUBSET BOOLEAN]
    BY <1>3 DEF Stop
  <2> QED
    BY <1>3, <2>1, <2>2 DEF Stop
<1>4. CASE UNCHANGED vars
  BY <1>4 DEF vars
<1> QED
  BY <1>1, <1>2, <1>3, <1>4 DEF Next

(* A function starts only while no other runs.                              *)
LEMMA SerialStep == TypeOK /\ Serial /\ [Next]_vars => Serial'
<1> SUFFICES ASSUME TypeOK, Serial, [Next]_vars PROVE Serial'
  OBVIOUS
<1> USE DEF TypeOK, Serial, Running
<1>1. ASSUME NEW t \in Timers, AfterFunc(t) \/ Return(t) \/ Panic(t) \/ Stop(t)
      PROVE  Serial'
  <2>1. \A u \in Timers : status'[u] = "running" => status[u] = "running"
    BY <1>1 DEF AfterFunc, Return, Panic, Stop
  <2> QED
    BY <2>1
<1>2. ASSUME NEW t \in Timers, Start(t)
      PROVE  Serial'
  BY <1>2 DEF Start
<1>3. CASE UNCHANGED vars
  BY <1>3 DEF vars
<1> QED
  BY <1>1, <1>2, <1>3 DEF Next

(* Stop answers true when it makes a pending function a stopped one, and    *)
(* nothing else makes one.                                                  *)
LEMMA TruthStep == TypeOK /\ StopIsTruthful /\ [Next]_vars => StopIsTruthful'
<1> SUFFICES ASSUME TypeOK, StopIsTruthful, [Next]_vars PROVE StopIsTruthful'
  OBVIOUS
<1> USE DEF TypeOK, StopIsTruthful
<1>1. ASSUME NEW t \in Timers, AfterFunc(t) \/ Start(t) \/ Return(t) \/ Panic(t)
      PROVE  StopIsTruthful'
  BY <1>1 DEF AfterFunc, Start, Return, Panic, Running
<1>2. ASSUME NEW t \in Timers, Stop(t)
      PROVE  StopIsTruthful'
  <2>1. CASE status[t] = "pending"
    <3>1. TRUE \in answers'[t] /\ status'[t] = "stopped"
      BY <1>2, <2>1 DEF Stop
    <3>2. \A u \in Timers \ {t} : answers'[u] = answers[u] /\ status'[u] = status[u]
      BY <1>2 DEF Stop
    <3> QED
      BY <3>1, <3>2
  <2>2. CASE status[t] # "pending"
    <3>1. status' = status
      BY <1>2, <2>2 DEF Stop
    <3>2. answers' = [answers EXCEPT ![t] = @ \cup {FALSE}]
      <4>1. (status[t] = "pending") = FALSE
        BY <2>2
      <4> QED
        BY <1>2, <4>1 DEF Stop
    <3>3. \A u \in Timers : TRUE \in answers'[u] <=> TRUE \in answers[u]
      BY <3>2
    <3> QED
      BY <3>1, <3>3
  <2> QED
    BY <2>1, <2>2
<1>3. CASE UNCHANGED vars
  BY <1>3 DEF vars
<1> QED
  BY <1>1, <1>2, <1>3 DEF Next

(* The invariant of the contract.                                           *)
THEOREM Invariance == Spec => [](TypeOK /\ Serial /\ StopIsTruthful)
<1>1. Init => TypeOK /\ Serial /\ StopIsTruthful
  BY DEF Init, TypeOK, Statuses, Serial, Running, StopIsTruthful
<1> QED
  BY <1>1, TypeStep, SerialStep, TruthStep, PTL DEF Spec

(* Functions run one at a time (src/task/dispatcher.go:15).                 *)
THEOREM Contract == Spec => []Serial
BY Invariance, PTL

(* A function that Stop has claimed to have prevented never runs, and Stop  *)
(* never claims that of one that runs or has run (src/task/timer.go:10-20). *)
THEOREM Prevention == Spec => StopIsFinal
<1>1. TypeOK /\ StopIsTruthful /\ TypeOK' /\ StopIsTruthful' /\ [Next]_vars =>
        [\A t \in Timers :
            /\ TRUE \in answers[t] => ~Running(t)'
            /\ Running(t) \/ status[t] = "done" => TRUE \notin answers'[t]]_vars
  <2> SUFFICES ASSUME TypeOK, StopIsTruthful, StopIsTruthful', Next, NEW t \in Timers
               PROVE  /\ status[t] = "stopped" => status'[t] # "running"
                      /\ status[t] \in {"running", "done"} => status'[t] # "stopped"
    BY DEF StopIsTruthful, Running
  <2> QED
    BY DEF TypeOK, Next, AfterFunc, Start, Return, Panic, Stop, Running
<1> QED
  BY <1>1, Invariance, PTL DEF Spec, StopIsFinal

(* Nothing starts once a function has panicked.                             *)
THEOREM Halting == Spec => NothingStartsOnceHalted
<1>1. TypeOK /\ [Next]_vars =>
        [halted => \A t \in Timers : Running(t)' => Running(t)]_vars
  <2> SUFFICES ASSUME TypeOK, Next, halted, NEW t \in Timers, status'[t] = "running"
               PROVE  status[t] = "running"
    BY DEF Running
  <2> QED
    BY DEF TypeOK, Next, AfterFunc, Start, Return, Panic, Stop, Running
<1>2. Spec => []TypeOK
  BY Invariance, PTL
<1> QED
  BY <1>1, <1>2, PTL DEF Spec, NothingStartsOnceHalted
=============================================================================
