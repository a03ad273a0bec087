SPECIFICATION Spec
CONSTANTS
  Devices = {sw}
  Descriptions = {blank}
  NoDescription = blank
  SafeDescriptions = {}
  PoeSettings = {"auto", "never"}
  Meddled = {"admin"}
  None = None
  s1 = s1
  Sessions = {s1}
  Requests = {r1, r2}
  PlanOf <- Shut
INVARIANTS
  TypeOK
  InFlightIsRunning
  GatesHeld
PROPERTIES
  KeepsPromise
  FinishedUntilBlocked
  ExecutionConcludes
