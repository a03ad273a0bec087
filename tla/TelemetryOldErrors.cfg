SPECIFICATION Spec
CHECK_DEADLOCK FALSE
CONSTANTS
  access = access
  uplink = uplink
  mac = mac
  Ports = {access, uplink}
  Uplinks = {uplink}
  Speeds = {100, 1000}
  Vlans = {"1", "2"}
  Macs = {mac}
  CounterMax = 20
  Active = {"align_err", "rcv_err"}
  AttentionDelta = 2
  CriticalDelta = 4
  Vitals = {"HEALTHY"}
  Bursts = {2, 4}
  Outages <- OneOrAll
  Starts <- FirstStates
  MaxMoves = 3
  MaxFailures = 1
  None = None

PROPERTIES
  OnlyNewErrors
