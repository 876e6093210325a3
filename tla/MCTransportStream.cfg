SPECIFICATION Spec
CONSTANTS
  PcrPerTick = 4
  PcrPerMicro = 2
  MaxPcr = 1025
  MaxPts = 256
  WrapBackoff = 1
  Tolerance = 50
  Jump = 300
  WrapReach = 100
  LatePts = 27
  EarlyPcr = 100
  CcModulus = 16
  FrameSize = 2
  FrameTime <- FrameTimes
  PtsModulus = 128
  JitterTolerance = 1
  InterleaveTarget = 15
  PacketSize = 10
  HeaderSize = 4
  PesHeaderSize = 2
  PmtPids = {16}
  Multiplexers <- Both
  Delay = 25
  Lag = 50
  Lead = 100
  UnitTime = 25
  MaxHead = 2
  MaxSplices = 1
INVARIANTS
  SamplesAreUnits
  RegularAudioKeepsTime
