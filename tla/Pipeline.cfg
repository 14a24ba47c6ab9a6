SPECIFICATION FairSpec
CONSTANTS
  w1 = w1
  w2 = w2
  b1 = b1
  b2 = b2
  NoBuffer = NoBuffer
  NoThread = NoThread
  Workers <- MCWorkers
  Buffers <- MCOneBuffer
  SlotCount = 2
  ReadyCap = 2
  Throttled = FALSE
  EmptyFrames = FALSE
  MaxFrames = 2
  DebugCap = 1
INVARIANT ConsumersSeeMatched
PROPERTIES ConsumersMoveForward EveryFrameSuperseded ShutdownCompletes
