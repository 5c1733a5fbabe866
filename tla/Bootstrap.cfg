SPECIFICATION FairSpec
CONSTANTS
  Public = {p1, p2}
  Network = {n1, lo}
  Loopback = {lo}
  Budget = 6
  Discovery = 1
  Deadlines = {0, 1, 2, 5, 8}
INVARIANTS AnswerCounts NobodyBlocks
PROPERTIES HalfIsReserved EverybodyEnds
CHECK_DEADLOCK FALSE
