SPECIFICATION FairSpec
CONSTANTS
  Models = {m1}
  NoModel = NoModel
  MaxRuns = 2
  MaxInsns = 3
  Scmds = {"attach", "cont", "run", "status", "step", "stop"}
  Results = {"done", "err"}
  Failures = {"create", "init"}
  Reentrant = {"set-next", "insn-done", "insn-error", "terminate"}
PROPERTIES
  CommandAnswered
  EndTerminates
CHECK_DEADLOCK FALSE
