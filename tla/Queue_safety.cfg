\* Three turns, two requests more than a turn can take, one work, one process loss.
SPECIFICATION HostWorkSpec
CONSTANTS
  Turns = {t1, t2, t3}
  Runs = {r1, r2, r3}
  Calls = {}
  Asks = {}
  Requests = {q1, q2, q3}
  Steers = {q1, q2, q3}
  NoRun = NoRun
  NoTurn = NoTurn
  MaxEdits = 1
  MaxOpen = 2
  MaxCrashes = 1
  Works = {w1}
  NoWork = NoWork
SYMMETRY Symmetry
CONSTRAINT OneOrOther
CHECK_DEADLOCK FALSE
INVARIANTS RequestAccounted PromotedAsEdited WorkWakesThread EndReleasesThread
