SPECIFICATION WatchdogFairSpec
CONSTANTS
  PollFresh = 2
  StatusFresh = 2
  Timeout = 3
  OverrunWarn = 2
  Enabled = TRUE
  Cap = 8
PROPERTIES CommandStatusAge SilenceWithdraws
