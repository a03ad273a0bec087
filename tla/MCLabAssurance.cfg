SPECIFICATION Spec
CHECK_DEADLOCK FALSE
CONSTANTS
  p1 = p1
  p2 = p2
  i1 = i1
  i2 = i2
  core = core
  edge = edge
  ap = ap
  nas = nas
  router = router
  ospf = ospf
  a1 = a1
  a2 = a2
  None = None
  Primary = Primary
  Ids = {i1, i2}
  Ports = {p1, p2}
  Names = {core, edge, ap}
  LabelOf <- LabelOfId
  RoleOf <- RoleOfName
  Hosts = {nas}
  Gateways = {router}
  Peers = {ospf}
  Addresses = {a1, a2}
  Machines = {core, edge}
  PrimaryMachine = core
  Situations <- Labs
  Workers = {w1, w2}
  Configured <- Registries
  Fragile = {"config", "cdp", "routing"}
  MaxRequests = 2
  MaxMoves = 1
  MaxFaults = 1
INVARIANTS
  TypeOK
  RegistryIsVault
PROPERTIES
  ConclusionsAgree
  FailureIsNotAbsence
