SPECIFICATION LinkSpec
CONSTANTS
  Nodes = {n1}
  RemoteServices = {s1}
  MaxConn = 2
  MaxChange = 1
  Absent = Absent
  Pending = Pending
  None = None
PROPERTY RetryPending
CHECK_DEADLOCK FALSE
