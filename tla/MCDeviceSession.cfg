SPECIFICATION Spec
CONSTANTS
  change = change
  save = save
  tick = tick
  Jobs = {change, save, tick}
  Ticks = {tick}
  Priority <- PriorityOf
  Pill = Pill
  Transports = {"netmiko"}
  None = None
INVARIANTS
  TypeOK
  HonestState
PROPERTIES
  SettledOnce
  WaitersReleased
  UrgentIsServed
  SessionRecovers
