\* every request, two connections
SPECIFICATION Spec
CONSTANTS
  Conns = {c1, c2}
  NoConn = NoConn
  Requests <- AllRequests
  MaxLogSize = 3
  TestMode = FALSE
SYMMETRY Symmetry
INVARIANTS TypeOK MutexHeld NoGhosts InUseOpen LockHasUser LogBracketed OwnTrafficLogged
PROPERTIES Contract
