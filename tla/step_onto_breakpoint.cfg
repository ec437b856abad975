SPECIFICATION FairSpec
CONSTANTS
  Models = {m1}
  NoModel = NoModel
  MaxRuns = 1
  MaxInsns = 2
  Scmds = {"attach", "run", "bp", "step", "stop", "cont"}
  Results = {"done"}
  Failures = {}
  Reentrant = {}
PROPERTIES
  CommandAnswered
CHECK_DEADLOCK FALSE
