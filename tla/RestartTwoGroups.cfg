SPECIFICATION RestartSpec
CONSTANTS
  Host = {h1, h2}
  NGroups = 2
  Addr = {1, 2, 3}
  Pool <- Pool2
  Draw <- Draw2
  INADDR_ANY = 0
  Faults = {}
  PROBE_WAIT = 1
  PROBE_NUM = 2
  PROBE_MIN = 1
  PROBE_MAX = 1
  ANNOUNCE_WAIT = 1
  ANNOUNCE_ALWAYS_WAIT = 4
  ANNOUNCE_ALWAYS_WAIT_SPREAD = 1
  MAX_CONFLICTS = 2
  RATE_LIMIT_INTERVAL = 3
  DEFEND_INTERVAL = 3
  ARP_ADDRS_MAX = 3
  MaxQueue = 2
PROPERTIES ClashResolved
