CONSTANTS
  Socks = {k1, k2, k3}
  NoSock = NoSock
  Lenient = FALSE
  MaxQ = 2
  MaxFaults = 1
SPECIFICATION FairSpec
PROPERTIES Available StopExits OnlySignalsEnd
