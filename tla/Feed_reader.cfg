\* One subscription and the one that replaces it, two window calls each, growth
\* and mutations of two items, of which a window selects one.
SPECIFICATION FeedSpec
CONSTANTS
  Subs = {s1}
  a = a
  b = b
  Items <- MCItems
  Changes <- MCChanges
  Windows <- MCWindows
  Capacity = 3
  MaxVersion = 3
  MaxWindows = 2
  MaxSubscribes = 2
CONSTRAINT Watched
CHECK_DEADLOCK FALSE
INVARIANTS UnbrokenFeed DetailApplies ClearedStaysCleared
PROPERTY ReaderCatchesUp
