\* every driver, two devices and a client
SPECIFICATION FairSpec
CONSTANTS
  d1 = d1
  d2 = d2
  Devs = {d1, d2}
  Clients = {c1}
  Nobody = Nobody
  MaxFds = 3
  MaxAddrs = 2
  Lists <- MixedLists
  UserOptions <- Chosen
INVARIANTS TypeOK DescriptorsOwned ReadTimesOut
PROPERTIES OpeningEnds
