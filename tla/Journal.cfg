\* A turn with everything it can meet, two turns one after the other, and the
\* goal and the title beside them.
SPECIFICATION TitleSpec
CONSTANTS
  Turns = {t1, t2}
  Runs = {r1, r2}
  Calls = {c1}
  Asks = {a1}
  Steers = {s1}
  NoRun = NoRun
  NoTurn = NoTurn
  BeforeInput = BeforeInput
  MaxVersion = 3
  Keys = {k1, k2}
  NoKey = NoKey
  MaxGeneration = 4
CONSTRAINT Bounded
SYMMETRY Symmetry
CHECK_DEADLOCK FALSE
INVARIANTS TerminalSettled UncertaintyReported SideRecordsAgree
PROPERTIES TerminalFrozen ImplementsContract GoalsHonoured TitlesInOrder
