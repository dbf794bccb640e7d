SPECIFICATION Spec
CONSTANTS
  Names = {a}
  FileIds = {f1, f2}
  Workers = {w1, w2}
  NULL = NULL
  MaxFiles = 2
  MaxMemory = 1
  Policies = {"FIFO"}
  Ops = {"CREATE", "REMOVE"}
  Sizes = {}
  Counts = {0}
  MaxTracked = 0
PROPERTY RemoveCannotFail
