SPECIFICATION FairSpec
CONSTANTS
  Debounce = 1
  MaxFlushDelay = 2
  MaxVersion = 4
  MaxTime = 5
INVARIANTS TypeOK FlushIsOwed SettledIsFresh
PROPERTIES FlushAfterPause KeepsPromise
CHECK_DEADLOCK FALSE
