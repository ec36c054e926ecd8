SPECIFICATION FairSpec
CONSTANTS
  DEBOUNCE_MS = 2
  MIN_INTERVAL_MS = 4
  MAX_DELAY_MS = 8
  MaxSyncTime = 3
  MaxAge = 14
INVARIANT TypeOK
INVARIANT NeverStranded
INVARIANT LatencyBound
PROPERTY RetriedWhenQuiet
