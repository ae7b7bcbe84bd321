\* An approved and an automatic call, stops, a wall time and one process loss.
SPECIFICATION FairDispatchSpec
CONSTANTS
  Turns = {t1}
  Runs = {r1}
  Calls = {c1, c2}
  Asks = {c1, c2}
  Steers = {}
  NoRun = NoRun
  Turn = t1
  Run = r1
  Automatic = {c2}
  WallTime = TRUE
  MaxCrashes = 1
CHECK_DEADLOCK FALSE
INVARIANTS EffectsAccounted ConsentRequired NoHandlerBehindEnd OnlyWallTimeStrands
PROPERTIES ApprovalProceeds StopEndsTurn
