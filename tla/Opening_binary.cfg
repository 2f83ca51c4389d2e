\* a binary protocol on a port with the settings of others
SPECIFICATION Spec
CONSTANTS
  d1 = d1
  d2 = d2
  Devs = {d1}
  Clients = {}
  Nobody = Nobody
  MaxFds = 2
  MaxAddrs = 1
  Lists <- OneHm310t
  UserOptions <- NoOptions
INVARIANTS BinarySafe
