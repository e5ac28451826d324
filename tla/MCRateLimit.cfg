CONSTANTS
  ip1 = ip1
  ip2 = ip2
  ip3 = ip3
  NoIP = NoIP
  IPs <- ThreeIPs
  MAX_ENTRIES = 2
  WINDOW = 1
  MAX_REQUESTS = 2
  MaxTime = 4
  MaxCalls = 7
SPECIFICATION Spec
SYMMETRY IPSymmetry
CHECK_DEADLOCK FALSE
INVARIANTS
  TypeOK
  OneEntryPerIp
PROPERTIES
  SlidingWindow
