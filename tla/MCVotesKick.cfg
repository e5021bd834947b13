CONSTANTS
  ip1 = ip1
  ip2 = ip2
  Slots <- MCSlots
  IPs = {ip1, ip2}
  NoPlayer = NoPlayer
  NoIP = NoIP
  MaxSessions = 3
  KickBantimes = {1}
SPECIFICATION Spec
PROPERTIES
  KickNamesAnotherPlayer
CONSTRAINT Bounded
