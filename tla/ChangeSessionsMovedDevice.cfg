SPECIFICATION Spec
CONSTANTS
  Devices = {swA, swB}
  Descriptions = {blank}
  NoDescription = blank
  SafeDescriptions = {}
  PoeSettings = {"auto", "never"}
  Meddled = {}
  None = None
  s1 = s1
  Sessions = {s1}
  Requests = {r1}
  PlanOf <- Shut
INVARIANTS
  SentToPlannedDevice
