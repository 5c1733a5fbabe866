SPECIFICATION FairSpec
CONSTANTS
  Callers = {c1, c2}
  Public = {p1}
  Local = {}
  None = None
  MaxRefresh = 1
INVARIANTS TypeOK OneRun SyncedAfterSuccess
PROPERTIES SelectionNeverRegresses TestReturns
