SPECIFICATION FairSpec
CONSTANTS
  Workers = {w1, w2}
  Clients = {c1, c2}
  Signals = {"SIGHUP", "SIGINT"}
  Asked = {"REQUEST", "CLOSE_CONNECTION", "UNKNOWN"}
  MaxRequests = 2
INVARIANTS
  TypeOK
  CountsWorkers
  EndForEach
PROPERTIES
  GracefulEnds
  AcceptedIsServed
CHECK_DEADLOCK FALSE
