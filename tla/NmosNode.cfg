SPECIFICATION FairSpec
CONSTANTS
  NoRequest = NoRequest
  device = device
  sender = sender
  Devices = {device}
  Parts = {sender}
  DeviceOf <- OneDevice
  MaxFailed = 2
  QueueBound = 1
  Limits <- FewEvents
INVARIANTS OneOperationAtATime RegisteredIsAlive InSync
PROPERTY Recovers
CHECK_DEADLOCK FALSE
