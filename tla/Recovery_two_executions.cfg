\* An instruction that meets a recovery pass.
SPECIFICATION RecoverySpec
CONSTANTS
  Turns = {t1}
  Runs = {r1, r2}
  Calls = {}
  Asks = {}
  Steers = {s1}
  Extra = {}
  NoRun = NoRun
  Turn = t1
  Approvals = {}
  MaxCrashes = 1
  MaxPasses = 1
CHECK_DEADLOCK FALSE
INVARIANT OneExecution
