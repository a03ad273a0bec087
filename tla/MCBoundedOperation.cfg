SPECIFICATION OpSpec
CONSTANTS
  Devices = {sw}
  Descriptions = {blank, safe, odd}
  NoDescription = blank
  SafeDescriptions = {safe}
  PoeSettings = {"auto", "auto_max", "never", "static"}
  Meddled = {"admin", "poe", "description"}
  None = None
INVARIANTS
  OpTypeOK
  NothingLeftBehind
  SuccessIsReal
  RollbackLosesOnlyLimits
  SentOnlyWithWayBack
PROPERTIES
  OperationConcludes
