SPECIFICATION FairSpec
CONSTANTS
  a = a  b = b  loop = loop
  Nobody = Nobody
  Row = {a, b}
  Blockers <- Waits
  Worker = {loop}
  MaxFaults = 1
INVARIANT NoSleepOverWork
PROPERTIES
  WaitersGetWork
  LeasesRecovered
