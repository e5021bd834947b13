CONSTANTS
  Server = Server
  Client = Client
  MaxSequence = 6
  BufferCap = 2
  MaxChunks = 1
  Lifetime = 2
  Senders = {}
  MaxSent = 0
  MaxNet = 1
  MaxFaults = 0
  a = a
  b = b
  c = c
  Clients = {c}
  IPs <- MCIPs
  IPOf <- MCIPOf
  IPv4 = {c}
  Vanilla = {}
  MaxClients = 1
  MaxPerIP = 1
  AntiSpoof = TRUE
  Unknown = Unknown
  Unsupported = Unsupported
  NoAddr = NoAddr
  MaxSessions = 2
  MaxDisturbed = 1
SPECIFICATION ConnectionsSpec
INVARIANTS
  TokenAgreement
CHECK_DEADLOCK FALSE
