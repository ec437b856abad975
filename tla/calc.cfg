SPECIFICATION FairSpec
CONSTANTS
  Lines <- AllLines
  MaxLines = 4
INVARIANTS
  TypeOK
  OutputFollowsFile
  MalformedReported
  FlushNeverPushes
PROPERTIES
  FileExecuted
CHECK_DEADLOCK FALSE
