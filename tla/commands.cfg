SPECIFICATION Spec
CONSTANTS
  Lines <- MCLines
  Injected <- MCInjected
  ModelScmds <- MCModelScmds
  ModelAccepts <- MCModelAccepts
  MaxInstances = 2
CHECK_DEADLOCK FALSE
INVARIANTS ArgsAsReference AllOrNothing StdRegistered OperandsPresent FormsAgree
PROPERTIES NamesKept
