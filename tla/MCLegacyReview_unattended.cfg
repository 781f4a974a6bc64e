SPECIFICATION Spec
CONSTANTS
  None = None  NoCall = NoCall
  c1 = c1  c2 = c2  look = look
  Call = {c1, c2}
  Action = {look}
  KindOf <- Looks
  PlaceOf <- Outside
  Request <- Asks
  SessionPolicy <- Plain
  Mode = {"advisory"}
  MaxChanges = 0
CHECK_DEADLOCK FALSE
INVARIANT UnattendedReviewedAnew
