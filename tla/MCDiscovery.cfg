SPECIFICATION Spec
CHECK_DEADLOCK FALSE
CONSTANTS
  ap = ap
  laptop = laptop
  client = client
  pc = pc
  acme = acme
  Ports = {p1, p2}
  Names = {ap}
  Macs = {laptop, client, pc}
  VendorOf <- VendorOfMac
  MakerOf <- MakerOfName
  ThisPc = pc
  Randomised = {}
  Situations <- PortSituations
  AtFirst <- EmptyAtFirst
  MaxMoves = 2
  MaxFaults = 1
  Rejecting = {"neighbors"}
  None = None
INVARIANTS
  TypeOK
  ShownIsRemembered
PROPERTIES
  NeverForgotten
  Converges
