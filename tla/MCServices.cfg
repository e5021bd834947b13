CONSTANTS
  x = x
  y = y
  s1 = s1
  s2 = s2
  d1 = d1
  d2 = d2
  a1 = a1
  a2 = a2
  p1 = p1
  ip1 = ip1
  Size = 10
  Wanted = {2, 3, 5, 11}
  Values = {x, y}
  Null = Null
  IDs = {1, 2}
  SnapKeep = 1
  IdTimeout = 1
  MaxTick = 2
  MaxLag = 1
  ItemKeys = {1, 2, 3}
  IntRange = 3
  KeyHash <- MCKeyHash
  BucketSize = 1
  MaxItems = 2
  Me = 0
  Others = {1, 2, 3}
  Vanilla = 3
  Bytes = {0, 1}
  AddrLength = 2
  HashSize = 2
  Targets <- MCTargets
  Localhost <- MCLocalhost
  MaxBans = 2
  BanSlots = {s1, s2}
  Minute = 1
  MaxNow = 2
  EconSlots = {s1}
  EconIPs = {ip1}
  EconBuffer = 4
  MaxAuthTries = 1
  EconBans = FALSE
  MaxTyped = 5
  NumWeapons = 2
  ItemTable <- MCItems
  FullAutos = {1}
  FireDelay = 1
  MaxFound = 2
  MaxInputs = 3
  ExType = 5
  UuidTypeFrom = 2
  PlainTypes = {0}
  UuidTypes = {10, 11}
  ItemIds = {0, 1}
  DataContents <- MCData
  MaxAdded = 3
  MaxDatas = 1
  RconCommands = {1, 2, 3}
  ModCommand = 2
  LogoutCommand = 1
  Clients = {0}
  MaxSend = 1
  RconTries = 2
  DemoSnaps = {d1, d2}
  KeyInterval = 2
  MaxDelta = 1
  SnapStep = 2
  MaxRecorded = 4
  NoSnap = NoSnap
  Wrong = Wrong
  Addrs = {a1, a2}
  PerPacket = 1
  MaxPackets = 2
  ExpireTime = 1
  MaxTries = 1
  BuildEvery = 0
  MaxChecks = 2
  MasterEnd = 3
  Slots = {0, 1, 2}
  ClientNames = {"a"}
  SizeOf <- MCSizeOf
  PrefixSize = 2
  Room = 5
  VanillaMax = 2
  LegacyChunk = 2
  PerSecond = 1
  MaxRequests = 2
  MaxClock = 4
  p2 = p2
  Viewers = {p1, p2}
  MakeItems <- MCMakeItems
  Rows = 3
  CloseTicks = 2
  MaxLine = 2
  NoOption = "?"
  GroupBits = 2
  Groups = 2
  LastBits = 1
  PackerSize = 6
  PackInts <- MCInts
  PackStrings <- MCStrings
  PackLimits = {0, 1, 2, 4}
  PackRaws <- MCRaws
  MaxAdds = 2
  ByteBits = 2
  LutBits = 2
  FillBits = 6
  Frequencies <- MCFrequencies
  CodedSize = 6
  PlainSize = 3
  MaxSymbols = 4
  BodyLengths = {0, 1, 3, 5}
  MaxResponse = 4
  MinBuffer = 1
  Width = 10
  Height = 19
  Border = 4
  DoodadWidth = 2
  NoiseTiles <- MCNoise
  NohookNoises <- MCNohook
  RuleFiles <- MCRuleFiles
SPECIFICATION ServicesSpec
INVARIANTS
  ServicesTypeOK
  RingHolds
  IdsHold
  MapIsPlayable
  ConsolesHold
  ArmsHold
  ListIsAlive
  InfoIsWhole
  UsesWhatIsShownUnlessFreed
  BansHold
  ReadsBack
PROPERTIES
  ImplementsFifo
  DeltaBaseIsKnown
CHECK_DEADLOCK FALSE
