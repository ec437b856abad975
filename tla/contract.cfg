SPECIFICATION Spec
CONSTANTS
  Models = {m1, m2}
  NoModel = NoModel
  MaxRuns = 3
  MaxInsns = 3
  Scmds <- AllScmds
  Results = {"done", "err", "trap"}
  Failures = {"init"}
  Reentrant = {"set-next", "insn-done", "insn-error", "insn-trap", "model-error"}
INVARIANTS
  CallsMatchSlot
  CallbackAccepted
  RunningHasEngine
PROPERTIES
  ExecutedByOwner
  RetiredInOrder
  StartedInsnReported
  StreamSpec
CHECK_DEADLOCK FALSE
