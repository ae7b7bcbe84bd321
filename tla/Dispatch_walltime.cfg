\* The wall time expires while an approval is open.
SPECIFICATION DispatchSpec
CONSTANTS
  Turns = {t1}
  Runs = {r1}
  Calls = {c1, c2}
  Asks = {c1, c2}
  Steers = {}
  NoRun = NoRun
  Turn = t1
  Run = r1
  Automatic = {c2}
  WallTime = TRUE
  MaxCrashes = 0
CHECK_DEADLOCK FALSE
INVARIANT NoStrandedTurn
