\* servers and commands at any time, three processes of two users
SPECIFICATION FairSpec
CONSTANTS
  Procs = {p1, p2, p3}
  Outside = Outside
  Users = {root, u}
  Root = root
  NoFile = NoFile
  Empty = Empty
  Mixed = Mixed
  Nobody = Nobody
INVARIANTS TypeOK ServerFound CleanExit
PROPERTIES StopReturns
