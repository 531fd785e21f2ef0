SPECIFICATION Spec
CONSTANTS
  Streams = {1, 2}
  TsMod = 32
  SeqNumMod = 16
  Bpf = 2
  PacketFrames = 2
  SendCapacity = 8
  OutgoingCapacity = 2
  FirstSeq = 14
  ReceiveCapacity = 7
  FifoCapacity = 2
  StartTs = 15
  Scenarios <- LateTimestamps
  NoTime = NoTime
  NoStream = NoStream
  NoSeq = NoSeq
  Ground = Ground
INVARIANT ReceivedFramesAreKept
CHECK_DEADLOCK FALSE
