SPECIFICATION Spec
CONSTANTS
  Names = {a}
  FileIds = {f1}
  Workers = {w1, w2}
  NULL = NULL
  MaxFiles = 2
  MaxMemory = 2
  Policies = {"FIFO"}
  Ops = {"CREATE", "WRITE", "READN"}
  Sizes = {1}
  Counts = {0}
  MaxTracked = 4
PROPERTY SendExcludesWrite
