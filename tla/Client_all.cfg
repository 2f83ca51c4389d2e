\* two clients, the actions that differ in what they hold, one reconnection each
SPECIFICATION FairSpec
CONSTANTS
  Clients = {c1, c2}
  Acts <- SomeActs
  Lines <- SomeLines
  MaxConns = 2
INVARIANTS TypeOK LockKept NothingHeld
PROPERTIES LetGo MonitorStops
