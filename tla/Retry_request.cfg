\* Three attempts of at most four ticks, a window of four ticks, one call.
SPECIFICATION RetrySpec
CONSTANTS
  Disabled = FALSE
  MaxRetries = 2
  MaxTimeoutRetries = 1
  BaseDelay = 1
  MaxDelay = 2
  JitterPercent = 50
  RecoveryWindow = 4
  MaxServerWait = 2
  FirstOutput = 2
  OutputIdle = 1
  HostedTool = 2
  MaxAttempt = 3
  ServerWaits = {2, 3}
  ParentDeadlines = {3, 99}
  Keys = {k1}
  HostedCalls = {h1}
  MaxLag = 1
  Never = 99
CHECK_DEADLOCK FALSE
INVARIANTS ReplayPermitted TerminalDecides
PROPERTY RequestEnds
