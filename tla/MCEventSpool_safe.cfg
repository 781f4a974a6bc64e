SPECIFICATION Spec
CONSTANTS
  x = x  y = y
  p = p  q = q
  None = None
  Session <- One
  Batch = {x, y}
  SessionOf <- SameSession
  SizeOf <- Sizes
  Payload = {p, q}
  FlushSize = 2
  MaxFaults <- AnyFaults
INVARIANTS
  AckedNeverLost
  ArchiveMatchesReceipts
  DeletedStaysDeleted
