SPECIFICATION FairSpec
CONSTANTS
  Names = {a, b, c}
  FileIds = {f1, f2}
  Workers = {w1}
  NULL = NULL
  MaxFiles = 2
  MaxMemory = 4
  Policies = {"FIFO", "LRU"}
  Ops = {"CREATE", "OPEN", "READ", "WRITE", "READN", "REMOVE"}
  Sizes = {1, 3}
  Counts = {0, 1}
  MaxTracked = 100
VIEW WithoutPeaks
INVARIANTS
  ExactAccounts
  FreedOnce
  GracefulLeavesNothing
PROPERTIES
  ImplementsCache
  EndsOnHangUp
  JobsEnd
  StopEnds
