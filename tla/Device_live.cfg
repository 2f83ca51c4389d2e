\* progress, and asks that nobody interrupts with close, two connections
SPECIFICATION FairSpec
CONSTANTS
  Conns = {c1, c2}
  NoConn = NoConn
  Requests <- Sharing
  MaxLogSize = 2
  TestMode = FALSE
INVARIANTS DriverAlive
PROPERTIES LockTakenByOnlyUser Answered EndedReleased
