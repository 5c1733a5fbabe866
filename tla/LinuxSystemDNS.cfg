SPECIFICATION Spec
CONSTANTS
  Procs = {daemon, cli}
  Files = {file1, file2}
  Scenarios <- WithResolvConf
INVARIANTS KeepsOwn 
PROPERTY ImplementsSetting
