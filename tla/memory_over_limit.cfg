SPECIFICATION Spec
CONSTANTS
  Names = {a}
  FileIds = {f1}
  Workers = {w1}
  NULL = NULL
  MaxFiles = 2
  MaxMemory = 2
  Policies = {"FIFO"}
  Ops = {"CREATE", "WRITE"}
  Sizes = {1, 2}
  Counts = {0}
  MaxTracked = 4
INVARIANT WithinMaxMemory
