SPECIFICATION RuntimeFairSpec
CONSTANTS
  w1 = w1
  w2 = w2
  b1 = b1
  b2 = b2
  NoBuffer = NoBuffer
  NoThread = NoThread
  Workers <- MCWorkers
  Buffers <- MCOneBuffer
  SlotCount = 2
  ReadyCap = 2
  Throttled = TRUE
  EmptyFrames = TRUE
  MaxFrames = 3
INVARIANTS OneHolder ResultsMatchFrames NoReadyDrops
PROPERTIES ImplementsLifecycle LeasesReturn BuffersReturn
