------------------------------ MODULE Pausable ------------------------------
(***************************************************************************)
(* pausable.Dispatcher (src/task/pausable/dispatcher.go) over a            *)
(* task.Dispatcher, of which it knows the contract only.                   *)
(*                                                                         *)
(* Goroutines call AfterFunc, Timer.Stop, Pause and Resume concurrently;   *)
(* the worker of the base runs the timers, and their callbacks call these  *)
(* methods too.  A method holds mu throughout and calls the base several   *)
(* times in between: each call of the base is a step, as the base may take *)
(* a callback between any two of them, and so may the clock move.          *)
(***************************************************************************)
EXTENDS Integers, FiniteSets

CONSTANTS
    Goroutines,
    Worker,             \* the one the base runs functions on
    Entries,            \* the trackedEntries AfterFunc can create; its bound
    Delays,             \* arguments of AfterFunc
    MinDuration, MaxDuration,           \* of time.Duration, an int64
    MaxTime,            \* bound on the clock
    MaxDispatches,      \* bound on how often one entry is given to the base
    None                \* no goroutine, no entry, no base timer

BaseTimers == Entries \X (1..MaxDispatches)

ASSUME PausableAssumption ==
    /\ Worker \in Goroutines
    /\ MinDuration \in Int /\ MinDuration <= 0 /\ MaxDuration \in Nat
    /\ Delays \subseteq MinDuration..MaxDuration
    /\ MaxTime \in Nat
    /\ MaxDispatches \in Nat \ {0}
    /\ None \notin Goroutines \cup Entries \cup BaseTimers

VARIABLES
    clock,              \* what now() reads
    baseClock,          \* what the base measures delays by
    paused, tracked,    \* of the Dispatcher
    delay, dispatchedAt, baseTimer,     \* of each trackedEntry
    mu,                 \* the goroutine that holds the mutex
    pc, entry,          \* where each goroutine is in a method, and for which entry
    left, read,         \* entries its loop has not reached, what now() returned
    status, halted,     \* the base, see Dispatcher
    at,                 \* when the base's timers are due
    entered,            \* the base's timers whose callback the wrapper has called
    handles,            \* the entries whose AfterFunc has returned
    answers,            \* history: what Stop has answered for each entry
    original, elapsed   \* history of waiting entries: the delay asked for, the
                        \* unpaused time since

entries == <<delay, dispatchedAt, baseTimer>>
threads == <<mu, pc, entry, left, read>>
base == <<status, halted, at, entered>>
history == <<handles, answers, original, elapsed>>
vars == <<clock, baseClock, paused, tracked, entries, threads, base, history>>

B == INSTANCE Dispatcher WITH Timers <- BaseTimers, answers <- [t \in BaseTimers |-> {}]

NoTime == 0
Times == 0..MaxTime

TypeOK ==
    /\ clock \in Times
    /\ baseClock \in Times
    /\ paused \in BOOLEAN
    /\ tracked \in SUBSET Entries
    /\ delay \in [Entries -> MinDuration..MaxDuration]
    /\ dispatchedAt \in [Entries -> Times]
    /\ baseTimer \in [Entries -> BaseTimers \cup {None}]
    /\ \A e \in Entries : baseTimer[e] # None => baseTimer[e][1] = e
    /\ mu \in Goroutines \cup {None}
    /\ pc \in [Goroutines -> {"idle", "dispatch", "track", "pause", "resume"}]
    /\ entry \in [Goroutines -> Entries \cup {None}]
    /\ left \in [Goroutines -> SUBSET Entries]
    /\ read \in [Goroutines -> Times]
    /\ status \in [BaseTimers -> B!Statuses]
    /\ halted \in BOOLEAN
    /\ at \in [BaseTimers -> Nat]
    /\ entered \in SUBSET BaseTimers
    /\ handles \in SUBSET Entries
    /\ answers \in [Entries -> SUBSET BOOLEAN]
    /\ original \in [Entries -> Delays \cup {NoTime}]
    /\ elapsed \in [Entries -> Times]

Init ==
    /\ clock = 0
    /\ baseClock = 0
    /\ paused = FALSE
    /\ tracked = {}
    /\ delay = [e \in Entries |-> NoTime]
    /\ dispatchedAt = [e \in Entries |-> NoTime]
    /\ baseTimer = [e \in Entries |-> None]
    /\ mu = None
    /\ pc = [g \in Goroutines |-> "idle"]
    /\ entry = [g \in Goroutines |-> None]
    /\ left = [g \in Goroutines |-> {}]
    /\ read = [g \in Goroutines |-> NoTime]
    /\ status = [t \in BaseTimers |-> "unused"]
    /\ halted = FALSE
    /\ at = [t \in BaseTimers |-> NoTime]
    /\ entered = {}
    /\ handles = {}
    /\ answers = [e \in Entries |-> {}]
    /\ original = [e \in Entries |-> NoTime]
    /\ elapsed = [e \in Entries |-> NoTime]

NotNegative(d) == IF d > 0 THEN d ELSE 0

(* The result of an int64 subtraction. *)
Wrapped(d) == MinDuration + ((d - MinDuration) % (MaxDuration - MinDuration + 1))

(* Client code runs on g: on the worker, in a callback that has been called. *)
CanCall(g) ==
    /\ pc[g] = "idle"
    /\ g = Worker => \E t \in entered : B!Running(t)

Created(e) == e \in handles \/ \E g \in Goroutines : pc[g] # "idle" /\ entry[g] = e

Acquire(g, place) ==
    /\ CanCall(g)
    /\ mu = None
    /\ mu' = g
    /\ pc' = [pc EXCEPT ![g] = place]

Release(g) ==
    /\ mu' = None
    /\ pc' = [pc EXCEPT ![g] = "idle"]

-----------------------------------------------------------------------------
(* The base                                                                *)

(* dispatchEntry: the base schedules the wrapper of e as its timer t. *)
Dispatch(e, t) ==
    /\ t[1] = e
    /\ \A n \in 1..(t[2] - 1) : status[<<e, n>>] # "unused"
    /\ B!AfterFunc(t)
    /\ at' = [at EXCEPT ![t] = baseClock + NotNegative(delay[e])]
    /\ baseTimer' = [baseTimer EXCEPT ![e] = t]
    /\ UNCHANGED entered

(* e waits no more. *)
Forget(e) ==
    /\ original' = [original EXCEPT ![e] = NoTime]
    /\ elapsed' = [elapsed EXCEPT ![e] = NoTime]

(* The base takes a function that is due, maybe late, in the order of due   *)
(* times.                                                                   *)
BaseStarts(t) ==
    /\ at[t] <= baseClock
    /\ \A u \in BaseTimers : status[u] = "pending" => at[t] <= at[u]
    /\ B!Start(t)
    /\ at' = [at EXCEPT ![t] = NoTime]
    /\ Forget(t[1])
    /\ UNCHANGED <<clock, baseClock, paused, tracked, entries, threads, entered, handles, answers>>

(* Stop of the base: TRUE when t was pending. *)
BaseStop(t) ==
    /\ status' = [status EXCEPT ![t] = IF @ = "pending" THEN "stopped" ELSE @]
    /\ at' = [at EXCEPT ![t] = NoTime]
    /\ UNCHANGED <<halted, entered>>

(* The callback of a taken function gets the lock only when no method is in *)
(* progress; it releases it before it calls f.                              *)
CallbackHoldingLock(t) ==       \* wrong: the lock is held while f runs
    /\ B!Running(t) /\ t \notin entered
    /\ mu = None
    /\ mu' = Worker
    /\ tracked' = tracked \ {t[1]}
    /\ entered' = entered \cup {t}
    /\ UNCHANGED <<clock, baseClock, paused, entries, pc, entry, left, read, status, halted, at, history>>

Callback(t) ==
    /\ B!Running(t) /\ t \notin entered
    /\ mu = None
    /\ tracked' = tracked \ {t[1]}
    /\ entered' = entered \cup {t}
    /\ UNCHANGED <<clock, baseClock, paused, entries, threads, status, halted, at, history>>

CallbackEnds(t) ==
    /\ t \in entered
    /\ pc[Worker] = "idle"
    /\ B!Return(t) \/ B!Panic(t)
    /\ UNCHANGED <<clock, baseClock, paused, tracked, entries, threads, at, entered, history>>

(* elapsed is what the documentation promises to measure: time that passes  *)
(* while the dispatcher is not paused, until the function is taken.         *)
Waiting(e) ==
    /\ Created(e)
    /\ TRUE \notin answers[e]
    /\ \A t \in BaseTimers : t[1] = e => status[t] \notin {"running", "done"}

Tick ==
    /\ clock < MaxTime
    /\ clock' = clock + 1
    /\ baseClock' = baseClock + 1
    /\ elapsed' = [e \in Entries |->
                     IF Waiting(e) /\ ~paused THEN elapsed[e] + 1 ELSE elapsed[e]]
    /\ UNCHANGED <<paused, tracked, entries, threads, base, handles, answers, original>>

-----------------------------------------------------------------------------
(* AfterFunc                                                               *)

AfterFuncDispatching(g, e, d) ==        \* wrong: dispatches while paused, too
    /\ ~Created(e)
    /\ Acquire(g, "dispatch")
    /\ entry' = [entry EXCEPT ![g] = e]
    /\ delay' = [delay EXCEPT ![e] = d]
    /\ dispatchedAt' = [dispatchedAt EXCEPT ![e] = clock]
    /\ original' = [original EXCEPT ![e] = d]
    /\ UNCHANGED <<clock, baseClock, paused, tracked, baseTimer, left, read, base, handles, answers, elapsed>>

(* Reads now and, when paused, tracks the entry at once. *)
AfterFunc(g, e, d) ==
    /\ ~Created(e)
    /\ Acquire(g, IF paused THEN "track" ELSE "dispatch")
    /\ entry' = [entry EXCEPT ![g] = e]
    /\ delay' = [delay EXCEPT ![e] = d]
    /\ dispatchedAt' = [dispatchedAt EXCEPT ![e] = clock]
    /\ original' = [original EXCEPT ![e] = d]
    /\ UNCHANGED <<clock, baseClock, paused, tracked, baseTimer, left, read, base, handles, answers, elapsed>>

AfterFuncDispatches(g) ==
    /\ pc[g] = "dispatch"
    /\ \E t \in BaseTimers : Dispatch(entry[g], t)
    /\ pc' = [pc EXCEPT ![g] = "track"]
    /\ UNCHANGED <<clock, baseClock, paused, tracked, delay, dispatchedAt, mu, entry, left, read, history>>

AfterFuncTracks(g) ==
    /\ pc[g] = "track"
    /\ tracked' = tracked \cup {entry[g]}
    /\ handles' = handles \cup {entry[g]}
    /\ entry' = [entry EXCEPT ![g] = None]
    /\ Release(g)
    /\ UNCHANGED <<clock, baseClock, paused, entries, left, read, base, answers, original, elapsed>>

-----------------------------------------------------------------------------
(* Timer.Stop                                                              *)

StopAnswers(e, b) == answers' = [answers EXCEPT ![e] = @ \cup {b}]

StopOfFound(g, e) ==            \* wrong: does not ask the base
    /\ CanCall(g) /\ mu = None
    /\ e \in tracked
    /\ tracked' = tracked \ {e}
    /\ StopAnswers(e, TRUE)
    /\ IF baseTimer[e] # None THEN BaseStop(baseTimer[e]) ELSE UNCHANGED base
    /\ Forget(e)
    /\ UNCHANGED <<clock, baseClock, paused, entries, threads, handles>>

StopFoundForgetful(g, e) ==     \* wrong: leaves the base's timer pending
    /\ CanCall(g) /\ mu = None
    /\ e \in tracked
    /\ tracked' = tracked \ {e}
    /\ StopAnswers(e, baseTimer[e] = None \/ status[baseTimer[e]] = "pending")
    /\ UNCHANGED base
    /\ Forget(e)
    /\ UNCHANGED <<clock, baseClock, paused, entries, threads, handles>>

(* The one call of the base is the only step of it that others can see: no  *)
(* one else is in a method, and a callback of the base waits for mu.        *)
StopFound(g, e) ==
    /\ CanCall(g) /\ mu = None
    /\ e \in tracked
    /\ tracked' = tracked \ {e}
    /\ IF baseTimer[e] # None
       THEN BaseStop(baseTimer[e]) /\ StopAnswers(e, status[baseTimer[e]] = "pending")
       ELSE UNCHANGED base /\ StopAnswers(e, TRUE)
    /\ Forget(e)
    /\ UNCHANGED <<clock, baseClock, paused, entries, threads, handles>>

StopNotFound(g, e) ==
    /\ CanCall(g) /\ mu = None
    /\ e \in handles \ tracked
    /\ StopAnswers(e, FALSE)
    /\ UNCHANGED <<clock, baseClock, paused, tracked, entries, threads, base, handles, original, elapsed>>

-----------------------------------------------------------------------------
(* Pause and Resume.  ErrPaused and ErrNotPaused change nothing.           *)

Pause(g) ==
    /\ ~paused
    /\ Acquire(g, "pause")
    /\ paused' = TRUE
    /\ read' = [read EXCEPT ![g] = clock]
    /\ left' = [left EXCEPT ![g] = tracked]
    /\ UNCHANGED <<clock, baseClock, tracked, entries, entry, base, history>>

PauseEntryKeepingFired(g, e) ==     \* wrong: ignores what Stop answers
    /\ pc[g] = "pause" /\ e \in left[g]
    /\ BaseStop(baseTimer[e])
    /\ delay' = [delay EXCEPT ![e] = NotNegative(Wrapped(@ - (read[g] - dispatchedAt[e])))]
    /\ baseTimer' = [baseTimer EXCEPT ![e] = None]
    /\ UNCHANGED <<tracked, dispatchedAt>>
    /\ left' = [left EXCEPT ![g] = @ \ {e}]
    /\ UNCHANGED <<clock, baseClock, paused, mu, pc, entry, read, history>>

PauseEntryAt(g, e) ==               \* wrong: reads the clock of each entry anew
    /\ pc[g] = "pause" /\ e \in left[g]
    /\ BaseStop(baseTimer[e])
    /\ IF status[baseTimer[e]] = "pending"
       THEN /\ delay' = [delay EXCEPT ![e] = NotNegative(Wrapped(@ - (clock - dispatchedAt[e])))]
            /\ baseTimer' = [baseTimer EXCEPT ![e] = None]
            /\ UNCHANGED <<tracked, dispatchedAt>>
       ELSE /\ tracked' = tracked \ {e}
            /\ UNCHANGED entries
    /\ left' = [left EXCEPT ![g] = @ \ {e}]
    /\ UNCHANGED <<clock, baseClock, paused, mu, pc, entry, read, history>>

PauseEntryUnstopped(g, e) ==        \* wrong: leaves the base's timer pending
    /\ pc[g] = "pause" /\ e \in left[g]
    /\ UNCHANGED base
    /\ IF status[baseTimer[e]] = "pending"
       THEN /\ delay' = [delay EXCEPT ![e] = NotNegative(Wrapped(@ - (read[g] - dispatchedAt[e])))]
            /\ baseTimer' = [baseTimer EXCEPT ![e] = None]
            /\ UNCHANGED <<tracked, dispatchedAt>>
       ELSE /\ tracked' = tracked \ {e}
            /\ UNCHANGED entries
    /\ left' = [left EXCEPT ![g] = @ \ {e}]
    /\ UNCHANGED <<clock, baseClock, paused, mu, pc, entry, read, history>>

(* One iteration of the loop of Pause. *)
PauseEntry(g, e) ==
    /\ pc[g] = "pause" /\ e \in left[g]
    /\ BaseStop(baseTimer[e])
    /\ IF status[baseTimer[e]] = "pending"
       THEN /\ delay' = [delay EXCEPT ![e] = NotNegative(Wrapped(@ - (read[g] - dispatchedAt[e])))]
            /\ baseTimer' = [baseTimer EXCEPT ![e] = None]
            /\ UNCHANGED <<tracked, dispatchedAt>>
       ELSE /\ tracked' = tracked \ {e}
            /\ UNCHANGED entries
    /\ left' = [left EXCEPT ![g] = @ \ {e}]
    /\ UNCHANGED <<clock, baseClock, paused, mu, pc, entry, read, history>>

Resume(g) ==
    /\ paused
    /\ \A e \in tracked : status[<<e, MaxDispatches>>] = "unused"
    /\ Acquire(g, "resume")
    /\ paused' = FALSE
    /\ read' = [read EXCEPT ![g] = clock]
    /\ left' = [left EXCEPT ![g] = tracked]
    /\ UNCHANGED <<clock, baseClock, tracked, entries, entry, base, history>>

ResumeEntryStale(g, e) ==           \* wrong: dispatchedAt is not updated
    /\ pc[g] = "resume" /\ e \in left[g]
    /\ UNCHANGED dispatchedAt
    /\ \E t \in BaseTimers : Dispatch(e, t)
    /\ left' = [left EXCEPT ![g] = @ \ {e}]
    /\ UNCHANGED <<clock, baseClock, paused, tracked, delay, mu, pc, entry, read, history>>

(* One iteration of the loop of Resume. *)
ResumeEntry(g, e) ==
    /\ pc[g] = "resume" /\ e \in left[g]
    /\ dispatchedAt' = [dispatchedAt EXCEPT ![e] = read[g]]
    /\ \E t \in BaseTimers : Dispatch(e, t)
    /\ left' = [left EXCEPT ![g] = @ \ {e}]
    /\ UNCHANGED <<clock, baseClock, paused, tracked, delay, mu, pc, entry, read, history>>

LoopEndsWhenQuiet(g) ==         \* wrong: waits for the functions in progress
    /\ pc[g] \in {"pause", "resume"} /\ left[g] = {}
    /\ \A t \in BaseTimers : ~B!Running(t)
    /\ Release(g)
    /\ read' = [read EXCEPT ![g] = NoTime]
    /\ UNCHANGED <<clock, baseClock, paused, tracked, entries, entry, left, base, history>>

LoopEnds(g) ==
    /\ pc[g] \in {"pause", "resume"} /\ left[g] = {}
    /\ Release(g)
    /\ read' = [read EXCEPT ![g] = NoTime]
    /\ UNCHANGED <<clock, baseClock, paused, tracked, entries, entry, left, base, history>>

-----------------------------------------------------------------------------
(* The rest of a method once it has the lock. *)
Continue(g) ==
    \/ AfterFuncDispatches(g) \/ AfterFuncTracks(g)
    \/ \E e \in Entries : PauseEntry(g, e) \/ ResumeEntry(g, e)
    \/ LoopEnds(g)

Next ==
    \/ Tick
    \/ \E t \in BaseTimers : BaseStarts(t) \/ Callback(t) \/ CallbackEnds(t)
    \/ \E g \in Goroutines :
         \/ Continue(g)
         \/ Pause(g) \/ Resume(g)
         \/ \E e \in Entries :
              \/ \E d \in Delays : AfterFunc(g, e, d)
              \/ StopFound(g, e) \/ StopNotFound(g, e)

Spec == Init /\ [][Next]_vars

(* Methods go on, sync.Mutex is granted to a callback that waits for it and *)
(* callbacks end.                                                           *)
FairSpec ==
    /\ Spec
    /\ \A g \in Goroutines : WF_vars(Continue(g))
    /\ \A t \in BaseTimers : SF_vars(Callback(t)) /\ WF_vars(CallbackEnds(t))

-----------------------------------------------------------------------------
(* An entry has a timer of the base exactly while it is not suspended, so   *)
(* that no loop meets the nil timer it would dereference                    *)
(* (src/task/pausable/dispatcher.go:46-48, 87).                             *)
Suspended(e) ==
    /\ e \in tracked
    /\ \/ paused /\ \A g \in Goroutines : pc[g] = "pause" => e \notin left[g]
       \/ \E g \in Goroutines : pc[g] = "resume" /\ e \in left[g]

BaseTimerMatchesPause == \A e \in tracked : baseTimer[e] = None <=> Suspended(e)

(* Once Pause has gone through the entries nothing is pending in the base:  *)
(* no timer fires until Resume (src/task/pausable/dispatcher.go:71).        *)
NothingPendingWhilePaused ==
    paused /\ mu = None => \A t \in BaseTimers : status[t] # "pending"

(* The base has at most one live timer of an entry, so that its function    *)
(* runs at most once however often it is suspended, and an entry whose      *)
(* function has been called is tracked no more: Resume cannot dispatch it   *)
(* again (src/task/pausable/dispatcher.go:86-93, 117-122).                  *)
Live(t) == status[t] \in {"pending", "running", "done"}

RunsAtMostOnce ==
    /\ \A t, u \in BaseTimers : Live(t) /\ Live(u) /\ t[1] = u[1] => t = u
    /\ \A t \in entered : t[1] \notin tracked

(* A suspended timer has exactly the part of its delay left that has not    *)
(* elapsed outside of pauses (src/task/pausable/dispatcher.go:72-73).  A    *)
(* negative part is none: an entry created during a pause keeps a negative  *)
(* delay, which the base takes for 0.                                       *)
RemainingIsExact ==
    \A e \in Entries :
        paused /\ Suspended(e) =>
            NotNegative(delay[e]) = NotNegative(original[e] - elapsed[e])

(* A function is not taken before its delay has elapsed outside of pauses;  *)
(* for one that a Pause in progress has not reached yet, the time since     *)
(* that Pause began counts (src/task/pausable/dispatcher.go:71-73).         *)
SincePause(e) ==
    IF \E g \in Goroutines : pc[g] = "pause" /\ e \in left[g]
    THEN clock - read[CHOOSE g \in Goroutines : pc[g] = "pause"] ELSE 0

NeverEarly ==
    [][\A t \in BaseTimers :
        B!Running(t)' /\ ~B!Running(t) =>
            elapsed[t[1]] + SincePause(t[1]) >= original[t[1]]]_vars

(* pausable.Dispatcher is a task.Dispatcher over any base that is one.      *)
Status(e) ==
    LET Has(s) == \E t \in BaseTimers : t[1] = e /\ status[t] = s IN
    IF Has("running") THEN "running"
    ELSE IF Has("done") THEN "done"
    ELSE IF TRUE \in answers[e] THEN "stopped"
    ELSE IF Created(e) THEN "pending"
    ELSE "unused"

P == INSTANCE Dispatcher WITH
        Timers <- Entries,
        status <- [e \in Entries |-> Status(e)]

IsADispatcher == P!Spec

(* A method that has the lock returns, and a function the base has taken is *)
(* called: neither waits for the other forever.                             *)
MethodsReturn == \A g \in Goroutines : pc[g] # "idle" ~> pc[g] = "idle"
TakenIsCalled == \A t \in BaseTimers : B!Running(t) ~> t \in entered
=============================================================================
