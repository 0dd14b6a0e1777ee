CONSTANTS
  Socks = {k1, k2, k3}
  NoSock = NoSock
  Lenient = TRUE
  MaxQ = 2
  MaxFaults = 1
SPECIFICATION Spec
INVARIANTS KeepsRunning
