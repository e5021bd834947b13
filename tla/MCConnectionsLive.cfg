CONSTANTS
  Server = Server
  Client = Client
  MaxSequence = 6
  BufferCap = 2
  MaxChunks = 2
  Lifetime = 1
  Senders <- MCSenders
  MaxSent = 3
  MaxNet = 1
  MaxFaults = 2
  a = a
  b = b
  c = c
  Clients = {a}
  IPs <- MCIPs
  IPOf <- MCIPOf
  IPv4 = {}
  Vanilla = {}
  MaxClients = 2
  MaxPerIP = 1
  AntiSpoof = TRUE
  Unknown = Unknown
  Unsupported = Unsupported
  NoAddr = NoAddr
  MaxSessions = 2
  MaxDisturbed = 2
SPECIFICATION ConnectionsFairSpec
PROPERTIES
  EventuallyDelivered
  ConnectSettles
CHECK_DEADLOCK FALSE
