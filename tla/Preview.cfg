SPECIFICATION FairSpec
CONSTANTS
  SlotCount = 2
  MaxFrames = 5
  MaxRestarts = 2
INVARIANTS NoTornFrame LabelOffByAtMostOne
PROPERTIES NeverBackwards LastFrameShown
