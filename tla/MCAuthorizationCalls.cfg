SPECIFICATION CallsSpec
CONSTANTS
  root = root  child = child
  pay = pay  look = look  wipe = wipe
  c1 = c1  c2 = c2  c3 = c3
  e1 = e1  e2 = e2  task = task
  NoSession = NoSession  NoLogical = NoLogical  NoCall = NoCall  None = None
  Session = {root, child}
  ParentOf <- Family
  Action = {pay, look, wipe}
  FloorOf <- Floors
  Logical = {task}
  Call = {c1, c2, c3}
  Evaluator = {e1, e2}
  MaxRevision <- Eventful
SYMMETRY Symmetric
CHECK_DEADLOCK FALSE
INVARIANTS
  FloorsHeld
  OneAdmission
  ReceiptsStayInPolicy
  VetoStands
PROPERTIES
  HumanFinal
  ChildGrantWithinParent
