--------------------------- MODULE AutoSyncService ---------------------------
(***************************************************************************)
(* AutoSyncService (src/conversations/fallback/sync/auto-sync.ts): when    *)
(* the FallbackStore reports a change, the service schedules a call of     *)
(* SyncService.sync() with a debounce timer, a minimum interval between    *)
(* syncs and a maximum delay.                                              *)
(*                                                                         *)
(* This module has the service's own state and one operation per method or *)
(* timer callback; what surrounds it (the passing of time, the call of     *)
(* sync(), the store) is in the modules that use it.  A timer is the time  *)
(* it has left, in abstract units.                                         *)
(***************************************************************************)
EXTENDS Integers

CONSTANTS
  DEBOUNCE_MS,       \* wait after the last change before syncing
  MIN_INTERVAL_MS,   \* minimum interval between syncs
  MAX_DELAY_MS       \* force a sync after this delay

ASSUME DelayAssumption ==
  /\ DEBOUNCE_MS \in Nat /\ MIN_INTERVAL_MS \in Nat /\ MAX_DELAY_MS \in Nat
  /\ 2 * DEBOUNCE_MS <= MIN_INTERVAL_MS /\ MIN_INTERVAL_MS <= MAX_DELAY_MS

VARIABLES
  debounceTimer,     \* remaining time, or Off
  maxDelayTimer,     \* remaining time, or Off
  sinceLastSync,     \* now - lastSyncTime, counted up to MIN_INTERVAL_MS
  pendingSync,
  isSyncing,
  firstDirty         \* firstDirtyTime # 0

schedulerVars ==
  <<debounceTimer, maxDelayTimer, sinceLastSync, pendingSync, isSyncing, firstDirty>>

Off == -1            \* a timer that is null

Longer(a, b) == IF a >= b THEN a ELSE b

TimersOK ==
  /\ debounceTimer \in 0 .. MIN_INTERVAL_MS \cup {Off}
  /\ maxDelayTimer \in 0 .. MAX_DELAY_MS \cup {Off}
  /\ sinceLastSync \in 0 .. MIN_INTERVAL_MS

FlagsOK == pendingSync \in BOOLEAN /\ isSyncing \in BOOLEAN /\ firstDirty \in BOOLEAN

\* A new service: lastSyncTime = 0 is the epoch, so the throttle is open.
NewScheduler ==
  /\ debounceTimer = Off /\ maxDelayTimer = Off
  /\ sinceLastSync = MIN_INTERVAL_MS
  /\ pendingSync = FALSE /\ isSyncing = FALSE /\ firstDirty = FALSE
-------------------------------------------------------------------------------
ThrottleDelay == Longer(0, MIN_INTERVAL_MS - sinceLastSync)

\* Faulty variant: the debounce delay is added to the throttle delay.
scheduleSync_Adding ==
  /\ pendingSync' = TRUE
  /\ debounceTimer' = DEBOUNCE_MS + ThrottleDelay

\* (Re)arm the debounce timer, no earlier than the throttle allows.
scheduleSync ==
  /\ pendingSync' = TRUE
  /\ debounceTimer' = Longer(DEBOUNCE_MS, ThrottleDelay)

\* Faulty variant: a change made while a sync runs is left to that sync.
notifyDirty_LeftToSync ==
  /\ firstDirty' = TRUE
  /\ maxDelayTimer' = IF ~firstDirty /\ maxDelayTimer = Off THEN MAX_DELAY_MS
                                                            ELSE maxDelayTimer
  /\ IF isSyncing THEN UNCHANGED <<pendingSync, debounceTimer>> ELSE scheduleSync
  /\ UNCHANGED <<sinceLastSync, isSyncing>>

\* The first change since the last success starts the max-delay timer, if it is
\* not running already.
notifyDirty ==
  /\ firstDirty' = TRUE
  /\ maxDelayTimer' = IF ~firstDirty /\ maxDelayTimer = Off THEN MAX_DELAY_MS
                                                            ELSE maxDelayTimer
  /\ scheduleSync
  /\ UNCHANGED <<sinceLastSync, isSyncing>>

\* executeSync() up to its await of sync().
beginSync ==
  /\ ~isSyncing
  /\ isSyncing' = TRUE
  /\ pendingSync' = FALSE
  /\ maxDelayTimer' = Off
  /\ UNCHANGED <<sinceLastSync, firstDirty>>

\* The debounce timer fires; executeSync() returns at once while a sync runs.
onDebounceTimer ==
  /\ debounceTimer = 0
  /\ debounceTimer' = Off
  /\ \/ beginSync
     \/ /\ isSyncing
        /\ UNCHANGED <<maxDelayTimer, sinceLastSync, pendingSync, isSyncing, firstDirty>>

\* The max-delay timer fires; the debounce timer is left as it is.
onMaxDelayTimer ==
  /\ maxDelayTimer = 0
  /\ UNCHANGED debounceTimer
  /\ \/ pendingSync /\ beginSync
     \/ /\ ~pendingSync \/ isSyncing
        /\ maxDelayTimer' = Off
        /\ UNCHANGED <<sinceLastSync, pendingSync, isSyncing, firstDirty>>

\* Faulty variant: the time of the first change is not reset.
syncResolved_NoReset ==
  /\ isSyncing
  /\ isSyncing' = FALSE
  /\ sinceLastSync' = 0
  /\ UNCHANGED <<debounceTimer, maxDelayTimer, pendingSync, firstDirty>>

\* sync() resolves.
syncResolved ==
  /\ isSyncing
  /\ isSyncing' = FALSE
  /\ sinceLastSync' = 0
  /\ firstDirty' = FALSE
  /\ UNCHANGED <<debounceTimer, maxDelayTimer, pendingSync>>

\* Faulty variant: a failed sync is not rescheduled.
syncRejected_Dropped ==
  /\ isSyncing
  /\ isSyncing' = FALSE
  /\ UNCHANGED <<debounceTimer, maxDelayTimer, sinceLastSync, pendingSync, firstDirty>>

\* sync() rejects: reschedule.
syncRejected ==
  /\ isSyncing
  /\ isSyncing' = FALSE
  /\ scheduleSync
  /\ UNCHANGED <<maxDelayTimer, sinceLastSync, firstDirty>>

\* stop(), called by the /logout command and the logout route.
stop ==
  /\ debounceTimer' = Off /\ maxDelayTimer' = Off
  /\ pendingSync' = FALSE
  /\ UNCHANGED <<sinceLastSync, isSyncing, firstDirty>>
===============================================================================
