SPECIFICATION Spec
CONSTANTS
  Names = {a, b, c}
  FileIds = {f1, f2, f3}
  Workers = {w1, w2}
  NULL = NULL
  MaxFiles = 2
  MaxMemory = 1
  Policies = {"FIFO"}
  Ops = {"CREATE"}
  Sizes = {}
  Counts = {0}
  MaxTracked = 0
INVARIANT WithinMaxFiles
