\* SIGHUP after a mistake in the file
SPECIFICATION Spec
CONSTANTS
  Conns = {c1, c2}
  Main = main
  Names = {d1}
  Texts = {}
  Requests <- ReloadRequests
  MaxEdits = 1
INVARIANTS ServerStaysUp
