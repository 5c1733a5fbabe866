SPECIFICATION RSpec
CONSTANTS
  q1 = q1
  w = w
  n = n
  r = r
  Callers <- OneCallers
  Queries <- OneQuery
  Watcher = w
  NetWatcher = n
  Refresher = r
  Public = {p1}
  Local = {}
  None = None
  MaxRefresh = 1
PROPERTIES ReturnsToEncrypted QueriesRecover MovesAreFollowed
