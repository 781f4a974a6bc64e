SPECIFICATION LiveSpec
CONSTANTS
  e1 = e1
  Evaluation = {e1}
  Policies = {"legacy", "hybrid", "autonomous", "bound"}
  MaxVersion = 2
  MaxParent = 2
  MaxChecks = 2
  MaxMoves = 1
CHECK_DEADLOCK FALSE
INVARIANTS
  CurrentCheckAwaited
  ReadyIsForThisIntention
PROPERTIES
  PassedIsCompatible
  ChecksEnd
