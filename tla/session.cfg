SPECIFICATION SessionFairSpec
CONSTANTS
  Models = {m1}
  NoModel = NoModel
  MaxRuns = 2
  MaxInsns = 2
  Scmds = {"attach", "cont", "run", "step", "stop"}
  Results = {"done", "err", "trap"}
  Failures = {"create", "init"}
  Reentrant = {"insn-done", "insn-error", "insn-trap"}
  Lines = {"run", "cont", "step", "quit", "bad"}
  MaxLines = 4
  MaxBurst = 2
INVARIANTS
  SessionTypeOK
  PausedHasBacklog
  LinesConserved
  PromptWhenQuiet
PROPERTIES
  LinesServed
CHECK_DEADLOCK FALSE
