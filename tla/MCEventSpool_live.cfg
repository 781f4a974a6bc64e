SPECIFICATION LiveSpec
CONSTANTS
  x = x
  y = y
  p = p
  q = q
  None = None
  Session <- Two
  Batch = {x, y}
  SessionOf <- OwnSession
  SizeOf <- Ones
  Payload = {p}
  FlushSize = 2
  MaxFaults <- LiveFaults
PROPERTIES EventuallyArchived WritesReopen
