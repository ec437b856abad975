SPECIFICATION FairSpec
CONSTANTS
  Models = {m1}
  NoModel = NoModel
  MaxRuns = 1
  MaxInsns = 2
  Scmds = {"attach", "run"}
  Results = {"done"}
  Failures = {}
  Reentrant = {}
PROPERTIES
  SimulationTerminates
CHECK_DEADLOCK FALSE
