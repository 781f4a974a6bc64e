SPECIFICATION PartsSpec
CONSTANTS
  t1 = t1  t2 = t2  b1 = b1  b2 = b2
  parent = parent  child = child  other = other  lone = lone
  w1 = w1  w2 = w2  scope = scope
  NoSession = NoSession  NoTask = NoTask
  Task = {t1, t2, b1, b2}
  Session = {parent, child, other, lone}
  Worker = {w1, w2}
  KindOf <- Kinds
  SessionOf <- Sessions
  ScopeOf <- Scopes
  PriorityOf <- Priorities
  Descendants <- Tree
  RootScope <- Roots
  MaxRevision <- Toggles
  Talkers = {lone}
  MaxRetries = 2
  MaxClaims = 4
  MaxFaults = 1
SYMMETRY Workers
CHECK_DEADLOCK FALSE
INVARIANTS
  OptedOutHasNoLiveTask
  SingleOwner
  FenceVouchesForSources
  BootstrapOnce
PROPERTIES
  WritesInClaimOrder
  BootstrapYieldsToUser
  ImplementsLedger
