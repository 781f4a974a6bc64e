SPECIFICATION LiveParts
CONSTANTS
  p1 = p1  p2 = p2  post = post  None = None
  callA = callA  callB = callB  srvA = srvA  Nobody = Nobody
  Process = {p1}
  Request = {post}
  ServedBy <- Server
  Drifts = {p1}
  Doc = {1}
  Page = 1
  MaxAttempts = 2
  MaxRows = 2
  MaxFaults = 1
CHECK_DEADLOCK FALSE
INVARIANT NothingDropped
PROPERTIES
  EventuallyIndexed
  CallsEnd
