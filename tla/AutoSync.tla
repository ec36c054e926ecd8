------------------------------- MODULE AutoSync -------------------------------
(***************************************************************************)
(* AutoSyncService in real time: changes come at any moment, a timer that  *)
(* has reached zero fires before time passes on, and sync() is one call    *)
(* that ends, with or without an error; the code puts no limit on how long *)
(* it takes (MaxSyncTime bounds the run, above the debounce delay).        *)
(***************************************************************************)
EXTENDS AutoSyncService

CONSTANTS
  MaxSyncTime,       \* bound: the longest a call of sync() takes
  MaxAge             \* bound: ages of changes are counted up to it

ASSUME TimingAssumption ==
  MaxSyncTime \in Nat /\ MaxAge \in Nat

VARIABLES
  stopped,           \* history: stop() was called
  failed,            \* history: the sync that ended last failed
  elapsed,           \* time the running sync() has taken
  took,              \* history: time the sync() that ended last has taken
  picked,            \* age of the oldest change the running sync() took over, or Off
  waiting            \* age of the oldest change no sync() has taken over, or Off

changes == <<picked, waiting>>
vars == <<schedulerVars, stopped, failed, elapsed, took, changes>>

UpTo(bound, n) == IF n <= bound THEN n ELSE bound
CountDown(timer) == IF timer = Off THEN Off ELSE timer - 1
Older(age) == IF age = Off THEN Off ELSE UpTo(MaxAge, age + 1)

ClocksOK ==
  /\ TimersOK
  /\ elapsed \in 0 .. MaxSyncTime /\ took \in 0 .. MaxSyncTime
  /\ picked \in Nat \cup {Off} /\ waiting \in Nat \cup {Off}

\* TypeOK: every variable has its type; timers and ages are Off or natural, and
\* the bounded clocks stay within their bounds.
TypeOK == ClocksOK /\ FlagsOK /\ stopped \in BOOLEAN /\ failed \in BOOLEAN

Init ==
  /\ NewScheduler
  /\ stopped = FALSE /\ failed = FALSE
  /\ elapsed = 0 /\ took = 0 /\ picked = Off /\ waiting = Off
-------------------------------------------------------------------------------
\* A conversation changes and the store calls its onDirty callback.
Change ==
  /\ notifyDirty
  /\ waiting' = IF waiting = Off THEN 0 ELSE waiting
  /\ UNCHANGED <<stopped, failed, elapsed, took, picked>>

\* sync() begins: it takes over every change made so far.
TakeOver == elapsed' = 0 /\ picked' = waiting /\ waiting' = Off

\* What a timer does to the rest, whether or not it begins a sync.
AfterTimer ==
  /\ IF isSyncing' = isSyncing THEN UNCHANGED <<elapsed, changes>> ELSE TakeOver
  /\ UNCHANGED <<stopped, failed, took>>

DebounceFires == onDebounceTimer /\ AfterTimer
MaxDelayFires == onMaxDelayTimer /\ AfterTimer

SyncSucceeds ==
  /\ syncResolved
  /\ failed' = FALSE
  /\ took' = elapsed /\ elapsed' = 0
  /\ picked' = Off
  /\ UNCHANGED <<stopped, waiting>>

\* The changes the failed sync had taken over wait again.
SyncFails ==
  /\ syncRejected
  /\ failed' = TRUE
  /\ took' = elapsed /\ elapsed' = 0
  /\ waiting' = Longer(picked, waiting) /\ picked' = Off
  /\ UNCHANGED stopped

Stop == stop /\ stopped' = TRUE /\ UNCHANGED <<failed, elapsed, took, changes>>

\* Time passes when no timer is due.
Tick ==
  /\ debounceTimer # 0 /\ maxDelayTimer # 0
  /\ isSyncing => elapsed < MaxSyncTime
  /\ debounceTimer' = CountDown(debounceTimer)
  /\ maxDelayTimer' = CountDown(maxDelayTimer)
  /\ sinceLastSync' = UpTo(MIN_INTERVAL_MS, sinceLastSync + 1)
  /\ elapsed' = IF isSyncing THEN elapsed + 1 ELSE elapsed
  /\ picked' = Older(picked) /\ waiting' = Older(waiting)
  /\ UNCHANGED <<pendingSync, isSyncing, firstDirty, stopped, failed, took>>

Next ==
  \/ Change
  \/ DebounceFires
  \/ MaxDelayFires
  \/ SyncSucceeds
  \/ SyncFails
  \/ Stop
  \/ Tick

Spec == Init /\ [][Next]_vars

\* Timers fire, time passes, a call of sync() ends; an API that answers again
\* and again does not fail every time.
FairSpec ==
  /\ Spec
  /\ WF_vars(Tick) /\ WF_vars(DebounceFires) /\ WF_vars(MaxDelayFires)
  /\ SF_vars(SyncSucceeds)
-------------------------------------------------------------------------------
(***************************************************************************)
(* Properties.                                                             *)
(***************************************************************************)

\* The sync that ended last succeeded and was long enough for the debounce timer
\* of a change made during it to run out: executeSync() drops that expiry
\* (auto-sync.ts:130) and only a failed sync reschedules (auto-sync.ts:175).
Missed == ~failed /\ took >= DEBOUNCE_MS

\* NeverStranded: while no sync runs, a change that no sync has taken over has
\* its debounce timer armed, so executeSync() is still going to be called for
\* it, but for one case: a change made during a sync of DEBOUNCE_MS or more, when
\* that sync succeeded, may have lost its timer and waits for the next change.
NeverStranded ==
  waiting # Off /\ ~isSyncing /\ ~stopped => debounceTimer # Off \/ Missed

\* LatencyBound: a change made while a sync runs waits for that sync, however long
\* it takes.  After a sync shorter than DEBOUNCE_MS that did not fail, no change has
\* waited longer than MIN_INTERVAL_MS + MAX_DELAY_MS for a sync to take it over
\* (auto-sync.ts:71, 92-93).
LatencyBound ==
  ~stopped /\ ~failed =>
     IF isSyncing THEN waiting <= elapsed
     ELSE took < DEBOUNCE_MS => waiting <= MIN_INTERVAL_MS + MAX_DELAY_MS

\* ForcedAfterMaxDelay: what auto-sync.ts:7 and 20 and docs/conversations.md:122
\* say: a sync is forced after MAX_DELAY_MS regardless of activity.  It is violated
\* even when every sync succeeds at once: a change made while a sync runs finds
\* firstDirtyTime set and starts no max-delay timer (auto-sync.ts:71); the timer
\* starts with the next change after the sync, MIN_INTERVAL_MS later at the latest.
ForcedAfterMaxDelay == ~stopped /\ ~failed => waiting <= MAX_DELAY_MS

\* RetriedWhenQuiet: when the conversations stop changing, no sync keeps failing:
\* what a sync has taken over is synced, and every change is taken over, whatever
\* syncs failed before (auto-sync.ts:174-175), but for what Missed leaves waiting.
RetriedWhenQuiet ==
  <>[][~Change]_vars => <>[](stopped \/ (picked = Off /\ (waiting = Off \/ Missed)))
===============================================================================
