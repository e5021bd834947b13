CONSTANTS
  Slots = {0, 1}
  ClientNames = {"a"}
  SizeOf <- MCSizeOf
  PrefixSize = 2
  Room = 5
  VanillaMax = 2
  LegacyChunk = 2
  PerSecond = 1
  MaxRequests = 1
  MaxClock = 1
SPECIFICATION ServerInfoSpec
INVARIANTS
  NamesAreUnique
CHECK_DEADLOCK FALSE
