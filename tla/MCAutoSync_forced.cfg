SPECIFICATION FairSpec
CONSTANTS
  DEBOUNCE_MS = 2
  MIN_INTERVAL_MS = 4
  MAX_DELAY_MS = 8
  MaxSyncTime = 1
  MaxAge = 14
INVARIANT ForcedAfterMaxDelay
