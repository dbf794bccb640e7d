SPECIFICATION FairSpec
CONSTANTS
  Programs <- ProgramsOfLines
  Sizes = {0, 2, 13}
  MaxMemory = 12
  MaxFiles = 2
  Counts = {0, 1}
  NameLengths = {3, 9}
  MaxName = 8
  Garbage = {0, 6, 291}
  HangsUp = TRUE
INVARIANTS
  TypeOK
  ReadAsSent
  CleanBetweenCalls
  WritesWhatCame
PROPERTIES
  OwnAnswer
  Returns
  HangUpFreesWorker
CHECK_DEADLOCK FALSE
