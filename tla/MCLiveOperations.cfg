SPECIFICATION Spec
CONSTANTS
  Requests = {r1, r2}
  Contents = {old, new}
  MaxPending = 1
  None = None
INVARIANTS
  TypeOK
  
PROPERTIES
  ViewCatchesUp
