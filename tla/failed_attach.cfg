SPECIFICATION Spec
CONSTANTS
  Models = {m1, m2}
  NoModel = NoModel
  MaxRuns = 1
  MaxInsns = 2
  Scmds = {"attach", "run", "stop", "cont"}
  Results = {"done"}
  Failures = {"create"}
  Reentrant = {}
PROPERTIES
  ExecutedByOwner
CHECK_DEADLOCK FALSE
