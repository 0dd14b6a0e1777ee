CONSTANTS
  Socks = {k1, k2}
  NoSock = NoSock
  Lenient = TRUE
  MaxQ = 2
  MaxFaults = 3
SPECIFICATION Spec
SYMMETRY SockSymmetry
INVARIANTS TypeOK NoSocketLost BeliefSound AnswersOwnSession
CHECK_DEADLOCK TRUE
