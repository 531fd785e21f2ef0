SPECIFICATION RunSpec
CONSTANTS
  a = a
  b = b
  n1 = n1
  n2 = n2
  i1 = i1
  i2 = i2
  f1 = f1
  f2 = f2
  g1 = g1
  g2 = g2
  d1 = d1
  d2 = d2
  Nodes = {a, b}
  Names = {n1, n2}
  Formats = {f1, f2}
  Interfaces = {i1, i2}
  Masters = {g1, g2}
  Destinations <- MCDestinations
  ManualSdps <- MCManualSdps
  Starts <- MCStarts
  WriterSlots = 4
  ReaderSlots = 4
  MaxId = 5
  NoName = NoName
  NoAddress = NoAddress
  NoInterface = NoInterface
  NoFormat = NoFormat
  NotShown = NotShown
  NoHandler = NoHandler
  NoHost = NoHost
  NoSdp = NoSdp
  NoParameters = NoParameters
  NoSave = NoSave
  Connections = {c1, c2}
  HttpRequests <- AllRequests
  MaxRequests = 2
  MaxStarts = 2
SYMMETRY Symmetric
INVARIANTS ReceiverFollowsSender SendersAreServed NodeDoesAsConfigured NmosShowsWhatIsConfigured ServerServesItsClients
CHECK_DEADLOCK FALSE
