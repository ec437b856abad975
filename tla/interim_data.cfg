SPECIFICATION Spec
CONSTANTS
  Models = {m1}
  NoModel = NoModel
  MaxRuns = 1
  MaxInsns = 2
  Scmds = {"attach", "run"}
  Results = {"data", "done"}
  Failures = {}
  Reentrant = {}
INVARIANTS
  CallbackAccepted
CHECK_DEADLOCK FALSE
