\* A root that executes two turns, a child with one, a deletion and a shutdown.
SPECIFICATION FairLifecycle
CONSTANTS
  root = root
  child = child
  Threads = {root, child}
  NoThread = NoThread
  Parent <- MCParent
  Turns <- MCTurns
  Deletions = {d1}
CONSTRAINT Focus
CHECK_DEADLOCK FALSE
INVARIANT QuietEnd
INVARIANT NoTurnAbandoned
PROPERTY LifecycleEnds
