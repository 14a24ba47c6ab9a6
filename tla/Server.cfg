SPECIFICATION FairSpec
CONSTANTS
  c1 = c1
  c2 = c2
  Clients <- MCClients
  MjpegTransport = FALSE
  MaxFrames = 2
INVARIANT ClientsCounted
PROPERTIES StreamsMoveForward NewestFrameShown ShutdownEnds
CHECK_DEADLOCK FALSE
