SPECIFICATION Spec
CONSTANTS
  Streams = {1, 2}
  TsMod = 64
  SeqNumMod = 6
  Bpf = 2
  PacketFrames = 2
  SendCapacity = 8
  OutgoingCapacity = 2
  FirstSeq = 4
  ReceiveCapacity = 5
  FifoCapacity = 2
  StartTs = 28
  Scenarios <- AllScenarios
  NoTime = NoTime
  NoStream = NoStream
  NoSeq = NoSeq
  Ground = Ground
INVARIANTS PacketsCarryTheirFrames ReceiverKeepsWhatArrived
CHECK_DEADLOCK FALSE
