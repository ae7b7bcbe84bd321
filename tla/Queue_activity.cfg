\* Two turns and no process loss: an automatic promotion that comes too late.
SPECIFICATION QueueSpec
CONSTANTS
  Turns = {t1, t2}
  Runs = {r1, r2}
  Calls = {}
  Asks = {}
  Requests = {q1, q2, q3}
  Steers = {q1, q2, q3}
  NoRun = NoRun
  NoTurn = NoTurn
  MaxEdits = 0
  MaxOpen = 2
  MaxCrashes = 0
SYMMETRY Symmetry
CHECK_DEADLOCK FALSE
INVARIANT ActivityReportsTurn
