SPECIFICATION FairSpec
CONSTANTS
  GraceHold = TRUE
  TuneDryRun = TRUE
  MaxSwitches = 2
  MaxLine = 2
PROPERTIES ImplementsStickOwner LatchHeld WithdrawnWhenOff GraceEnds
