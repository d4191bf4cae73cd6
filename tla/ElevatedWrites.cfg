\* The write loops, one after the other.
SPECIFICATION Spec
CONSTANTS
  Setups <- CommandLines
  KSYS_PERIOD = 2
  SC_PERIOD = 3
  INT_SIZE = 8
  NSEC = 4
  Durations = {0, 1, 3, 4, 5, 8}
INVARIANTS
  StackComesBack
  PrivilegeReturned
  SignalsAreSeen
  DoneMeansWritten
  NullDeviceStays
  LatenciesExact
CHECK_DEADLOCK FALSE
