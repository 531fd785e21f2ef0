SPECIFICATION EndpointsSpec
CONSTANTS
  Second = 1000
  FractionScale = 4
  Invalid = Invalid
  StatsWindow = 5
  LockThreshold = 2
  CalibratedThreshold = 20
  Masters <- TwoMasters
  Own <- ThisPort
  Domain = 0
  Phase <- Phases
  SyncsUntilFirst = 0
  SyncsKept = 2
  DelaysKept = 3
  FirstCount = 2
  DelayThreshold = 5
  Tick = 20
  SyncInterval = 100
  PathDelay = 20
  Scenarios <- AllScenarios
  Ids = {a, b, c}
  Slots = 2
  Sessions <- AllSessions
  Pairs <- AllPairs
  InterfacePairs <- AllInterfaces
  NoId = NoId
  NoSession = NoSession
  NoInterface = NoInterface
  NoPort = NoPort
  g1 = g1
  g2 = g2
  u = u
  p1 = p1
  p2 = p2
  red = red
  blue = blue
  MaxFaults = 1
  PtpPorts = {1, 2}
  Networks = {red, blue}
  NoNetwork = NoNetwork
  RoundSize = 2
  MaxEvents = 3
  WireLimit = 32767
  RtpModulus = 64
  TimesUsed = {0, 1, 400, 999, 1000, 2999}
  IntervalsUsed <- AllIntervals
  Factors <- AllFactors
  Rate = 48
  MaxSteps = 4
INVARIANTS ClockFollowsMaster DelaysAreMeasured JumpsAreFollowed GroupsFollowReaders SocketsServeTheirPorts TimesAreExact
SYMMETRY Symmetric
CHECK_DEADLOCK FALSE
