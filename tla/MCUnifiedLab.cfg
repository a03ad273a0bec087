SPECIFICATION Spec
CHECK_DEADLOCK FALSE
CONSTANTS
  Requests = {r1, r2}
  Loops = {l1, l2, l3}
  Networks = {n1, n2}
  Stored = {None, n1}
  MaxRequests = 3
  MaxMishaps = 1
  ClearsAlone = TRUE
  None = None
INVARIANTS
  TypeOK
  
  ClearedIsNotPolled
PROPERTIES
  
  RequestsAreAnswered
