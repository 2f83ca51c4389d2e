\* ask() of a device that is being closed
SPECIFICATION Spec
CONSTANTS
  Conns = {c1, c2}
  NoConn = NoConn
  Requests <- SharingClose
  MaxLogSize = 1
  TestMode = FALSE
SYMMETRY Symmetry
INVARIANTS NoCrash
