SPECIFICATION LiveParts
CONSTANTS
  r1 = r1  e1 = e1
  t1 = t1  t2 = t2  root = root  other = other  w1 = w1  scope = scope
  NoSession = NoSession  NoTask = NoTask
  Request = {r1}
  Evaluation = {e1}
  Generations = {TRUE, FALSE}
  MaxMessages = 2
  MaxOthers = 1
  MaxUpdates = 2
  MaxAttempts = 2
CHECK_DEADLOCK FALSE
INVARIANTS
  CurrentIsAwaited
  LatestReflected
PROPERTIES
  NewestWins
  UpdatesEnd
  EventuallySettled
