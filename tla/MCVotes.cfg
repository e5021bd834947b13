CONSTANTS
  Slots <- MCSlots
  ip1 = ip1
  ip2 = ip2
  IPs = {ip1, ip2}
  NoPlayer = NoPlayer
  NoIP = NoIP
  MaxSessions = 3
  KickBantimes = {0, 1}
SPECIFICATION Spec
INVARIANTS
  TypeOK
  PlayerIffReady
  TargetKeepsSlot
PROPERTIES
  PassedByMajority
  DecisionIsNoticed
CONSTRAINT Bounded
