CONSTANTS
  Server = Server
  Client = Client
  MaxSequence = 6
  BufferCap = 2
  MaxChunks = 1
  Lifetime = 2
  Senders <- MCSenders
  MaxSent = 6
  MaxNet = 2
  MaxFaults = 1
  a = a
  b = b
  c = c
  Clients = {a, b, c}
  IPs <- MCIPs
  IPOf <- MCIPOf
  IPv4 = {c}
  Vanilla = {b}
  MaxClients = 2
  MaxPerIP = 2
  AntiSpoof = TRUE
  Unknown = Unknown
  Unsupported = Unsupported
  NoAddr = NoAddr
  MaxSessions = 2
  MaxDisturbed = 1
SPECIFICATION ConnectionsSpec
INVARIANTS
  ConnectionsTypeOK
  BufferKeepsUndelivered
  OneSlotPerAddress
  ClientIffSlot
  TokenAgreementIPv6
PROPERTIES
  ImplementsChannel
CONSTRAINT Bounded
CHECK_DEADLOCK FALSE
