SPECIFICATION Spec
CONSTANTS
  Models = {m1, m2}
  NoModel = NoModel
  MaxRuns = 2
  MaxInsns = 3
  Scmds <- AllScmds
  Results = {"data", "done", "err", "trap"}
  Failures = {"create", "init", "input"}
  Reentrant <- AllFrames
INVARIANTS
  TypeOK
  SlotDiscipline
  SuspendedIsIdle
  NoLostInsn
  StepArmed
  FrameDiscipline
PROPERTIES
  BreakpointHonoured
  StopHonoured
CHECK_DEADLOCK FALSE
