SPECIFICATION Spec
CONSTANTS
  Names = {a, b}
  FileIds = {f1, f2, f3}
  Workers = {w1, w2}
  NULL = NULL
  MaxFiles = 2
  MaxMemory = 2
  Policies = {"LRU"}
  Ops = {"CREATE", "READ", "WRITE", "APPEND"}
  Sizes = {1, 3}
  Counts = {0}
  MaxTracked = 3
SYMMETRY Symmetry
VIEW WithoutPeaks
INVARIANTS
  BytesCovered
  OneOwner
PROPERTY
  StableWhileSent
