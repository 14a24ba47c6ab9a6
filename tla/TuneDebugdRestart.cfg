SPECIFICATION FairSpec
CONSTANTS
  h1 = h1
  h2 = h2
  Mixed = Mixed
  NoHandler = NoHandler
  Handlers <- MCOneHandler
  MaxPosts = 2
  MaxDebugdStarts = 1
  MaxFlightStarts = 0
  Prompt = TRUE
CHECK_DEADLOCK FALSE
PROPERTY UpdatesTaken
