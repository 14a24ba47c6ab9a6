SPECIFICATION FairSpec
CONSTANTS
  o1 = o1
  o2 = o2
  NoPipeline = NoPipeline
  Offers <- MCOffers
  MaxConcurrent = 2
  MaxFrames = 4
INVARIANTS FramesAccounted OnePipelinePlays
PROPERTIES PushesInOrder NewestFrameTaken WaitsEnd
CHECK_DEADLOCK FALSE
