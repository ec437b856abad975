SPECIFICATION FairSpec
CONSTANTS
  Consumers = {c1, c2, c3}
  MaxResponses = 2
  MaxRuns = 2
INVARIANTS HandlersMatch NothingLost
PROPERTIES ResponsesHeard
