SPECIFICATION ServicesSpec
CONSTANTS
  None = None  NoCall = NoCall
  c1 = c1  c2 = c2  edit = edit
  Call = {c1, c2}
  Action = {edit}
  KindOf <- EditsBy
  PlaceOf <- EditAt
  Request <- Asks
  SessionPolicy <- Policies
  Mode = {"disabled", "auto", "advisory"}
  MaxChanges = 1
  callA = callA  callB = callB  srvA = srvA  srvB = srvB
  Nobody = Nobody
  ToolCall = {callA, callB}
  Server = {srvA, srvB}
  MaxPerUser = 1  MaxMade = 4
  MaxCancels = 1  MaxSweeps = 1  MaxDeaths = 1
SYMMETRY Alike
CHECK_DEADLOCK FALSE
INVARIANTS
  UnattendedSettledByJudge
  CappedDenialWaits
  FloorHeld
  DenialOutlivesScope
  RowTellsTruth
  NoStrays
PROPERTY FinalStateStays
