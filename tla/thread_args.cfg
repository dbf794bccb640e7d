SPECIFICATION Spec
CONSTANTS
  Workers = {w1}
  Clients = {c1, c2}
  Signals = {}
  Asked = {"REQUEST"}
  MaxRequests = 0
PROPERTY
  ThreadPerConnection
CHECK_DEADLOCK FALSE
