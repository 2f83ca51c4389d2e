\* every request, two connections, one device; progress of reloads and of
\* conn_close
SPECIFICATION FairSpec
CONSTANTS
  Conns = {c1, c2}
  Main = main
  Names = {d1}
  Texts = {"t1"}
  Requests <- AllRequests
  MaxEdits = 1
INVARIANTS TypeOK NoGhosts DefaultNamesOwned OpsOnCurrent UsersConfigured
PROPERTIES ReloadDone EndedClosed
