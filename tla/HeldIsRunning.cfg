SPECIFICATION Spec
CONSTANTS
  Host = {h1, h2}
  NGroups = 1
  Addr = {1, 2, 3}
  Pool <- Pool1
  Draw <- Draw1
  INADDR_ANY = 0
  Faults = {}
  PROBE_WAIT = 1
  PROBE_NUM = 2
  PROBE_MIN = 1
  PROBE_MAX = 1
  ANNOUNCE_WAIT = 1
  ANNOUNCE_ALWAYS_WAIT = 4
  ANNOUNCE_ALWAYS_WAIT_SPREAD = 1
  MAX_CONFLICTS = 2
  RATE_LIMIT_INTERVAL = 3
  DEFEND_INTERVAL = 3
  ARP_ADDRS_MAX = 3
  MaxQueue = 2
INVARIANTS HeldIsRunning
