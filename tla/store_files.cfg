SPECIFICATION Spec
CONSTANTS
  Names = {a, b}
  FileIds = {f1, f2, f3}
  Workers = {w1, w2}
  NULL = NULL
  MaxFiles = 2
  MaxMemory = 2
  Policies = {"FIFO", "LRU"}
  Ops = {"CREATE", "OPEN", "CLOSE", "READ", "READN", "REMOVE"}
  Sizes = {}
  Counts = {0}
  MaxTracked = 0
SYMMETRY Symmetry
VIEW WithoutPeaks
INVARIANTS
  TypeOK
  OneOwner
  CountExact
  ScanReaches
PROPERTY
  StableWhileSent
