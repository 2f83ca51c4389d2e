\* use() of a device that is being locked
SPECIFICATION Spec
CONSTANTS
  Conns = {c1, c2}
  NoConn = NoConn
  Requests <- Sharing
  MaxLogSize = 1
  TestMode = FALSE
PROPERTIES NobodyJoinsLocked
