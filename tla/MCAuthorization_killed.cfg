SPECIFICATION Spec
CONSTANTS
  root = root  look = look
  c1 = c1  e1 = e1  e2 = e2
  NoSession = NoSession  NoLogical = NoLogical  NoCall = NoCall  None = None
  Session = {root}
  ParentOf <- Alone
  Action = {look}
  FloorOf <- Free
  Logical = {}
  Call = {c1}
  Evaluator = {e1, e2}
  MaxRevision <- Once
SYMMETRY Symmetric
CHECK_DEADLOCK FALSE
PROPERTY NoGrantWhenKilled
