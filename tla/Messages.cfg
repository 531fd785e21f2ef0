SPECIFICATION Spec
INVARIANT MessagesArriveAsSent
INVARIANT SessionsAreFound
INVARIANT ReceiversUnderstandSenders
INVARIANT LinksResolve
INVARIANT PatchTakesEffect
CHECK_DEADLOCK FALSE
CONSTANTS
  Failed = Failed
  None = None
  Device = Device
  DeviceRestored = DeviceRestored
  Sender = Sender
  Receiver = Receiver
  Numbers <- MCNumbers
  Decimals <- MCDecimals
  Lower <- MCLower
  Escapes <- MCEscapes
  Addresses = {"g1", "g2", "i1", "i2"}
  Names <- MCNames
  Served <- MCServed
  SenderOf <- MCSenderOf
  Conversation <- MCConversation
  MaxSent = 2
  Cuts <- MCCuts
  Devices <- MCDevices
  Senders <- MCSenders
  Receivers <- MCReceivers
  Id <- MCId
  DeviceOf <- MCDeviceOf
  Nil = "nil"
  Garbage = "garbage"
  Streams <- MCStreams
  Interfaces = 2
  Bodies <- MCBodies
  MaxMembers = 2
