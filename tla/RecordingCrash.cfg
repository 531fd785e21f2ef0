SPECIFICATION PartsSpec
CONSTANTS
  Parts = {"recording"}
  Clocks = {1, 3}
  Self = 2
  Qualities <- TwoFields
  Steps = {0, 1, 2}
  PortNumbers = {1, 2}
  MaxScanned = 3
  None = None
  Names = {n}
  Interfaces = {i1, i2}
  Hosts = {h1, h2}
  Subscribers = {s1, s2}
  NoHost = NoHost
  MaxAttempts = 1
  MaxChanges = 4
  Jobs <- AllJobs
  Channels = 2
  Capacity = 3
  Samples <- SomeSamples
  MaxFrames = 6
  MaxBatch = 2
  MaxHeaders = 2
  Foreign <- Others
  Observers = {o1, o2}
  PortsOf <- AllPorts
  NoInterfaces = "none"
  StreamsOf <- AllDescriptions
  NoDescription = "none"
  Parents = {9}
  Own = 2
  NoAddress = NoAddress
  Unknown = Unknown
  MaxNodeId = 4
  MaxOperations = 3
  SentPackets <- AllSent
  OtherPackets <- AllOther
  Compounds <- AllCompounds
  MaxSent = 4
INVARIANT FinalizedIsNotLost
CHECK_DEADLOCK FALSE
