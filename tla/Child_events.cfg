\* One or two children, a question or a call each, two requests of the parent.
SPECIFICATION WaitSpec
CONSTANTS
  c1 = c1
  c2 = c2
  Children <- MCChildren
  MaxTurns = 2
  MaxIds = 1
  MaxRuns = 2
  MaxStarts = 2
  MaxRequests = 2
  MaxQueued = 1
CONSTRAINT OneOrTwo
CHECK_DEADLOCK FALSE
INVARIANTS ReceiptsFaithful ToldOnce WaitReliable
PROPERTY WaiterReturns
