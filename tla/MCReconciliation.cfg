SPECIFICATION Spec
CHECK_DEADLOCK FALSE
CONSTANTS
  p1 = p1
  p2 = p2
  ap = ap
  gw = gw
  laptop = laptop
  acme = acme
  Ports = {p1, p2}
  Names = {ap, gw}
  Macs = {laptop}
  VendorOf <- VendorOfMac
  MakerOf <- MakerOfName
  ThisPc = None
  Randomised = {}
  Situations <- PortSituations
  Order <- PortOrder
  Documented <- DocumentedOn
  Labels <- Recordable
  Akin <- AkinNames
  MaxMoves = 2
  MaxWishes = 2
  MaxFaults = 1
  None = None
INVARIANTS
  TypeOK
  ToldIsTrue
PROPERTIES
  NeverTwice
