SPECIFICATION LiveSpec
CONSTANTS
  x = x
  y = y
  p = p
  q = q
  None = None
  Session <- One
  Batch = {x, y}
  SessionOf <- SameSession
  SizeOf <- Ones
  Payload = {p}
  FlushSize = 2
  MaxFaults <- ReadFault
PROPERTY WritesReopen
