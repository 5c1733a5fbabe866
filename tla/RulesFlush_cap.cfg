SPECIFICATION PromptSpec
CONSTANTS
  Debounce = 2
  MaxFlushDelay = 4
  MaxVersion = 8
  MaxTime = 9
INVARIANT FlushCap
CHECK_DEADLOCK FALSE
