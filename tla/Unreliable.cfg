SPECIFICATION Spec
CONSTANTS
  Host = {h1, h2}
  NGroups = 1
  Addr = {1, 2}
  Pool <- PoolU
  Draw <- PoolU
  INADDR_ANY = 0
  Faults = {"open", "send", "read"}
  PROBE_WAIT = 1
  PROBE_NUM = 2
  PROBE_MIN = 1
  PROBE_MAX = 1
  ANNOUNCE_WAIT = 1
  ANNOUNCE_ALWAYS_WAIT = 3
  ANNOUNCE_ALWAYS_WAIT_SPREAD = 1
  MAX_CONFLICTS = 1
  RATE_LIMIT_INTERVAL = 1
  DEFEND_INTERVAL = 2
  ARP_ADDRS_MAX = 3
  MaxQueue = 1
SYMMETRY Units
INVARIANTS   HeldIsWatched ListensToHeld ClaimsFileCurrent
