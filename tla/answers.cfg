SPECIFICATION FairSpec
CONSTANTS
  Workers = {w1, w2}
  Clients = {c1, c2}
  Signals = {}
  Asked = {"REQUEST", "CLOSE_FILE", "CLOSE_CONNECTION"}
  MaxRequests = 3
INVARIANT
  OneAnswer
PROPERTY
  Answered
CHECK_DEADLOCK FALSE
