---------------------------- MODULE AutoSyncProofs ----------------------------
(***************************************************************************)
(* Proofs about AutoSync for every value of its delays: type correctness,  *)
(* which changes can be stranded after a sync of any length, and the bound *)
(* on how long a change can wait.                                          *)
(***************************************************************************)
EXTENDS AutoSync, TLAPS

USE DEF Off, DelayAssumption, TimingAssumption

LEMMA InitTypeOK == Init => TypeOK
<1>1. Init => ClocksOK
  BY DelayAssumption, TimingAssumption DEF Init, NewScheduler, ClocksOK, TimersOK
<1>2. Init => FlagsOK /\ stopped \in BOOLEAN /\ failed \in BOOLEAN
  BY DEF Init, NewScheduler, FlagsOK
<1> QED
  BY <1>1, <1>2 DEF TypeOK

LEMMA NextClocksOK == TypeOK /\ [Next]_vars => ClocksOK'
<1> SUFFICES ASSUME TypeOK, [Next]_vars PROVE ClocksOK'
  OBVIOUS
<1> USE DelayAssumption, TimingAssumption DEF TypeOK, ClocksOK, TimersOK
<1>1. CASE Change
  BY <1>1 DEF Change, notifyDirty, scheduleSync, ThrottleDelay, Longer
<1>2. CASE DebounceFires
  BY <1>2 DEF DebounceFires, onDebounceTimer, AfterTimer, TakeOver, beginSync, changes
<1>3. CASE MaxDelayFires
  BY <1>3 DEF MaxDelayFires, onMaxDelayTimer, AfterTimer, TakeOver, beginSync, changes
<1>4. CASE SyncSucceeds
  BY <1>4 DEF SyncSucceeds, syncResolved
<1>5. CASE SyncFails
  BY <1>5 DEF SyncFails, syncRejected, scheduleSync, ThrottleDelay, Longer
<1>6. CASE Stop
  BY <1>6 DEF Stop, stop, changes
<1>7. CASE Tick
  BY <1>7 DEF Tick, CountDown, Older, UpTo
<1>8. CASE UNCHANGED vars
  BY <1>8 DEF vars, schedulerVars, changes
<1> QED
  BY <1>1, <1>2, <1>3, <1>4, <1>5, <1>6, <1>7, <1>8 DEF Next

LEMMA NextFlagsOK ==
  FlagsOK /\ stopped \in BOOLEAN /\ failed \in BOOLEAN /\ [Next]_vars
    => FlagsOK' /\ (stopped \in BOOLEAN)' /\ (failed \in BOOLEAN)'
  BY DEF FlagsOK, Next, Change, DebounceFires, MaxDelayFires, SyncSucceeds, SyncFails,
         Stop, Tick, notifyDirty, scheduleSync, onDebounceTimer, onMaxDelayTimer,
         AfterTimer, beginSync, syncResolved, syncRejected, stop, vars, schedulerVars

LEMMA NextTypeOK == TypeOK /\ [Next]_vars => TypeOK'
  BY NextClocksOK, NextFlagsOK DEF TypeOK

\* The variables always have their types.
THEOREM TypeCorrect == Spec => []TypeOK
  BY InitTypeOK, NextTypeOK, PTL DEF Spec
-------------------------------------------------------------------------------
\* InFlightArmed: the debounce timer of a change made while a sync runs does not
\* go off before the sync has taken the whole debounce delay.
InFlightArmed ==
  isSyncing /\ waiting # Off /\ ~stopped =>
     \/ elapsed >= DEBOUNCE_MS
     \/ debounceTimer # Off /\ debounceTimer + elapsed >= DEBOUNCE_MS

StrandInv == TypeOK /\ InFlightArmed /\ NeverStranded

LEMMA InitStrandInv == Init => StrandInv
  BY InitTypeOK DEF Init, NewScheduler, StrandInv, InFlightArmed, NeverStranded

LEMMA NextStrandInv == StrandInv /\ [Next]_vars => StrandInv'
<1> SUFFICES ASSUME StrandInv, [Next]_vars PROVE StrandInv'
  OBVIOUS
<1> USE TimingAssumption DEF InFlightArmed, NeverStranded, Missed
<1> USE DelayAssumption DEF TypeOK, ClocksOK, TimersOK
<1>0. TypeOK'
  BY NextTypeOK DEF StrandInv
<1>1. CASE Change
  BY <1>0, <1>1 DEF StrandInv, Change, notifyDirty, scheduleSync, ThrottleDelay, Longer
<1>2. CASE DebounceFires
  \* While a sync runs a timer that is due belongs to no change made during it.
  <2>1. CASE beginSync /\ TakeOver /\ UNCHANGED stopped
    BY <1>0, <2>1 DEF StrandInv, beginSync, TakeOver
  <2>2. CASE isSyncing /\ debounceTimer = 0 /\ debounceTimer' = Off
               /\ UNCHANGED <<isSyncing, stopped, failed, elapsed, took, changes>>
    BY <1>0, <2>2 DEF StrandInv, changes
  <2> QED
    BY <1>2, <2>1, <2>2 DEF DebounceFires, onDebounceTimer, AfterTimer, beginSync
<1>3. CASE MaxDelayFires
  <2>1. CASE beginSync /\ TakeOver /\ UNCHANGED <<debounceTimer, stopped>>
    BY <1>0, <2>1 DEF StrandInv, beginSync, TakeOver
  <2>2. CASE UNCHANGED <<debounceTimer, isSyncing, stopped, failed, elapsed, took, changes>>
    BY <1>0, <2>2 DEF StrandInv, changes
  <2> QED
    BY <1>3, <2>1, <2>2 DEF MaxDelayFires, onMaxDelayTimer, AfterTimer, beginSync
<1>4. CASE SyncSucceeds
  \* The sync ends, so InFlightArmed has nothing to say; a change made meanwhile
  \* has the timer InFlightArmed gave it, or the sync was a long one.
  <2>1. InFlightArmed'
    BY <1>4 DEF SyncSucceeds, syncResolved
  <2>2. waiting # Off /\ ~stopped => debounceTimer # Off \/ elapsed >= DEBOUNCE_MS
    BY <1>4 DEF StrandInv, SyncSucceeds, syncResolved
  <2>3. NeverStranded'
    BY <1>4, <2>2 DEF SyncSucceeds, syncResolved
  <2> QED
    BY <1>0, <2>1, <2>3 DEF StrandInv
<1>5. CASE SyncFails
  BY <1>0, <1>5 DEF StrandInv, SyncFails, syncRejected, scheduleSync, ThrottleDelay, Longer
<1>6. CASE Stop
  BY <1>0, <1>6 DEF StrandInv, Stop, stop
<1>7. CASE Tick
  BY <1>0, <1>7 DEF StrandInv, Tick, CountDown, Older, UpTo
<1>8. CASE UNCHANGED vars
  BY <1>0, <1>8 DEF StrandInv, vars, schedulerVars, changes
<1> QED
  BY <1>1, <1>2, <1>3, <1>4, <1>5, <1>6, <1>7, <1>8 DEF Next

\* Whatever the delays, however long syncs take and whether or not they fail: every
\* waiting change has its timer, but after a successful sync of DEBOUNCE_MS or more.
THEOREM ChangesNeverStranded == Spec => []NeverStranded
<1>1. StrandInv => NeverStranded
  BY DEF StrandInv
<1> QED
  BY <1>1, InitStrandInv, NextStrandInv, PTL DEF Spec
-------------------------------------------------------------------------------
(***************************************************************************)
(* The latency bound.  A waiting change is in one of two situations: the   *)
(* max-delay timer is off and its debounce timer, throttled once, goes off *)
(* within MIN_INTERVAL_MS of the change; or a later change started the     *)
(* max-delay timer when it had waited at most MIN_INTERVAL_MS.             *)
(***************************************************************************)
Flagged ==                \* pendingSync is set for all work that waits
  (waiting # Off => pendingSync) /\ (maxDelayTimer # Off => pendingSync)

DuringSync ==
  isSyncing =>
    /\ elapsed <= sinceLastSync
    /\ waiting # Off => waiting <= elapsed /\ firstDirty
    /\ maxDelayTimer # Off => maxDelayTimer + elapsed >= MAX_DELAY_MS

FirstDirtyTimed == ~isSyncing /\ firstDirty => maxDelayTimer # Off

DebounceDeadline ==
  waiting # Off /\ maxDelayTimer = Off => waiting + debounceTimer <= MIN_INTERVAL_MS

MaxDelayDeadline ==
  waiting # Off /\ maxDelayTimer # Off
    => waiting + maxDelayTimer <= MIN_INTERVAL_MS + MAX_DELAY_MS

Latency == Flagged /\ DuringSync /\ FirstDirtyTimed /\ DebounceDeadline /\ MaxDelayDeadline

\* The running sync, or the one that ended last, is shorter than the debounce delay.
Prompt == IF isSyncing THEN elapsed < DEBOUNCE_MS ELSE took < DEBOUNCE_MS

\* What was changed during a sync has not waited longer than it has run.
SinceItBegan == isSyncing => waiting <= elapsed

\* A sync that begins after a failed or a long one restores what that one disturbed.
LatencyInv ==
  /\ StrandInv /\ SinceItBegan
  /\ ~stopped /\ (~failed \/ isSyncing) /\ Prompt => Latency

LEMMA InitLatencyInv == Init => LatencyInv
<1> SUFFICES ASSUME Init PROVE Latency
  BY InitStrandInv DEF LatencyInv, SinceItBegan, Init, NewScheduler
<1> QED
  BY DEF Init, NewScheduler, Latency, Flagged, DuringSync, FirstDirtyTimed, DebounceDeadline,
         MaxDelayDeadline

LEMMA NextSinceItBegan == StrandInv /\ SinceItBegan /\ [Next]_vars => SinceItBegan'
<1> SUFFICES ASSUME StrandInv, SinceItBegan, [Next]_vars PROVE SinceItBegan'
  OBVIOUS
<1> USE TimingAssumption DEF StrandInv, TypeOK, ClocksOK, FlagsOK, SinceItBegan
<1>1. CASE Change
  BY <1>1 DEF Change, notifyDirty
<1>2. CASE DebounceFires
  <2>1. CASE TakeOver
    BY <2>1 DEF TakeOver
  <2>2. CASE UNCHANGED <<isSyncing, elapsed, changes>>
    BY <2>2 DEF changes
  <2> QED
    BY <1>2, <2>1, <2>2 DEF DebounceFires, onDebounceTimer, AfterTimer, beginSync
<1>3. CASE MaxDelayFires
  <2>1. CASE TakeOver
    BY <2>1 DEF TakeOver
  <2>2. CASE UNCHANGED <<isSyncing, elapsed, changes>>
    BY <2>2 DEF changes
  <2> QED
    BY <1>3, <2>1, <2>2 DEF MaxDelayFires, onMaxDelayTimer, AfterTimer, beginSync
<1>4. CASE SyncSucceeds \/ SyncFails
  BY <1>4 DEF SyncSucceeds, syncResolved, SyncFails, syncRejected
<1>5. CASE Stop
  BY <1>5 DEF Stop, stop, changes
<1>6. CASE Tick
  BY <1>6 DEF Tick, Older, UpTo
<1>7. CASE UNCHANGED vars
  BY <1>7 DEF vars, schedulerVars, changes
<1> QED
  BY <1>1, <1>2, <1>3, <1>4, <1>5, <1>6, <1>7 DEF Next

LEMMA NextLatencyInv == LatencyInv /\ [Next]_vars => LatencyInv'
<1> SUFFICES ASSUME LatencyInv, [Next]_vars PROVE LatencyInv'
  OBVIOUS
<1> USE DelayAssumption, TimingAssumption
<1>0. StrandInv /\ StrandInv' /\ SinceItBegan /\ SinceItBegan'
  BY NextStrandInv, NextSinceItBegan DEF LatencyInv
<1>1. stopped => stopped'
  BY DEF Next, Change, DebounceFires, MaxDelayFires, SyncSucceeds, SyncFails, Stop,
         Tick, AfterTimer, vars
<1>2. CASE beginSync /\ TakeOver
  <2>1. Latency'
    BY <1>0, <1>2 DEF beginSync, TakeOver, Latency, Flagged, DuringSync, FirstDirtyTimed,
       DebounceDeadline, MaxDelayDeadline, StrandInv, TypeOK, ClocksOK, TimersOK
  <2> QED
    BY <1>0, <2>1 DEF LatencyInv
<1>3. CASE SyncFails
  BY <1>0, <1>3 DEF SyncFails, syncRejected, LatencyInv
<1> SUFFICES ASSUME ~(beginSync /\ TakeOver), ~SyncFails,
                    ~stopped, ~stopped', Prompt, Latency
             PROVE  Latency'
  <2>1. ~(beginSync /\ TakeOver) /\ ~SyncFails =>
           (~failed' \/ isSyncing' => ~failed \/ isSyncing)
    BY DEF Next, Change, notifyDirty, DebounceFires, onDebounceTimer, MaxDelayFires,
           onMaxDelayTimer, AfterTimer, beginSync, SyncSucceeds, syncResolved, Stop, stop, Tick,
           vars, schedulerVars
  <2>2. CASE Tick
    <3>1. Prompt' => Prompt
      BY <1>0, <2>2 DEF Tick, Prompt, StrandInv, TypeOK, ClocksOK
    <3> QED
      BY <1>0, <1>1, <1>2, <1>3, <2>1, <3>1 DEF LatencyInv
  <2>3. CASE ~Tick
    <3>1. ~(beginSync /\ TakeOver) /\ ~SyncFails => (Prompt' => Prompt)
      BY <2>3 DEF Next, Change, notifyDirty, DebounceFires, onDebounceTimer, MaxDelayFires,
             onMaxDelayTimer, AfterTimer, beginSync, SyncSucceeds, syncResolved, Stop, stop,
             vars, schedulerVars, changes, Prompt
    <3> QED
      BY <1>0, <1>1, <1>2, <1>3, <2>1, <3>1 DEF LatencyInv
  <2> QED
    BY <2>2, <2>3
<1> USE <1>0 DEF Latency, Flagged, DuringSync, FirstDirtyTimed, DebounceDeadline,
                 MaxDelayDeadline, StrandInv, InFlightArmed, NeverStranded,
                 Prompt, Missed, TypeOK, ClocksOK, TimersOK
<1>4. CASE Change
  <2> USE <1>4 DEF Change, notifyDirty
  <2>1. debounceTimer' = Longer(DEBOUNCE_MS, ThrottleDelay) /\ pendingSync'
    BY DEF scheduleSync
  <2>2. CASE waiting = Off
    <3>1. Flagged' /\ FirstDirtyTimed'
      BY <2>1, <2>2
    <3>2. PICK d \in 0 .. MIN_INTERVAL_MS : debounceTimer' = d
      BY <2>1 DEF ThrottleDelay, Longer
    <3>3. DuringSync' /\ DebounceDeadline' /\ MaxDelayDeadline'
      BY <2>2, <3>2
    <3> QED
      BY <3>1, <3>3
  <2>3. CASE waiting # Off /\ maxDelayTimer # Off
    BY <2>1, <2>3 DEF ThrottleDelay, Longer
  <2>4. CASE waiting # Off /\ maxDelayTimer = Off /\ firstDirty
    \* firstDirtyTime set without a max-delay timer: a sync is running.
    <3>1. isSyncing
      BY <2>4
    <3> QED
      BY <2>1, <2>4, <3>1 DEF ThrottleDelay, Longer
  <2>5. CASE waiting # Off /\ maxDelayTimer = Off /\ ~firstDirty
    <3>1. ~isSyncing /\ waiting <= MIN_INTERVAL_MS
      BY <2>5
    <3> QED
      BY <2>1, <2>5, <3>1 DEF ThrottleDelay, Longer
  <2> QED
    BY <2>2, <2>3, <2>4, <2>5
<1>5. CASE DebounceFires
  <2>1. CASE isSyncing
    BY <1>5, <2>1 DEF DebounceFires, onDebounceTimer, AfterTimer, beginSync, changes
  <2> QED
    BY <1>5, <2>1 DEF DebounceFires, onDebounceTimer, AfterTimer, beginSync
<1>6. CASE MaxDelayFires
  \* The timer is not dropped: it cannot be due during a sync, and otherwise
  \* pendingSync is set.
  <2>1. pendingSync /\ ~isSyncing
    BY <1>6 DEF MaxDelayFires, onMaxDelayTimer
  <2> QED
    BY <1>6, <2>1 DEF MaxDelayFires, onMaxDelayTimer, AfterTimer, beginSync
<1>7. CASE SyncSucceeds
  BY <1>7 DEF SyncSucceeds, syncResolved
<1>8. CASE Stop
  BY <1>8 DEF Stop, stop
<1>9. CASE Tick
  BY <1>9 DEF Tick, CountDown, Older, UpTo
<1>10. CASE UNCHANGED vars
  BY <1>10 DEF vars, schedulerVars, changes
<1> QED
  BY <1>4, <1>5, <1>6, <1>7, <1>8, <1>9, <1>10 DEF Next

\* For all delays and syncs of any length: what changed during a sync waits as long as
\* the sync runs, and after a successful sync shorter than the debounce delay no change
\* has waited longer than the minimum interval and the maximum delay together.
THEOREM LatencyBounded == Spec => []LatencyBound
<1>1. LatencyInv => LatencyBound
  BY DelayAssumption, TimingAssumption
     DEF LatencyInv, SinceItBegan, Latency, DebounceDeadline, MaxDelayDeadline, LatencyBound,
         Prompt, Missed, StrandInv, TypeOK, ClocksOK, TimersOK, InFlightArmed, NeverStranded
<1> QED
  BY <1>1, InitLatencyInv, NextLatencyInv, PTL DEF Spec
===============================================================================
