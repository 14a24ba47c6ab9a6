SPECIFICATION FairSpec
CONSTANTS
  h1 = h1
  h2 = h2
  Mixed = Mixed
  NoHandler = NoHandler
  Handlers <- MCTwoHandlers
  MaxPosts = 2
  MaxDebugdStarts = 1
  MaxFlightStarts = 1
  Prompt = FALSE
CHECK_DEADLOCK FALSE
INVARIANTS OrderlyPostsTakeEffect SnapshotIsCurrent
PROPERTIES UpdatesTakenInOneLife PostsAnswered
