\* Calls, a question, instructions, stops and two process losses.
SPECIFICATION FairRecovery
CONSTANTS
  Turns = {t1}
  Runs = {r1, r2, r3, r4}
  Calls = {c1, c2}
  Asks = {c1, c2, q1}
  Steers = {s1, s2}
  Extra = {c2, s2}
  NoRun = NoRun
  Turn = t1
  Approvals = {c1, c2}
  MaxCrashes = 2
  MaxPasses = 2
CONSTRAINT CoreAfterLoss
CHECK_DEADLOCK FALSE
INVARIANT ActorTracksJournal
INVARIANT SuccessAppliesInstructions
INVARIANT OnlyRecoveryOverlaps
PROPERTY InstructionSettled
PROPERTY RecoveryCompletes
