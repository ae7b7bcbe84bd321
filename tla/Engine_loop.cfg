\* Every kind of answer, with an instruction or a stop at any moment.
SPECIFICATION FairEngine
CONSTANTS
  Replies <- MCReplies
  Local = {"read", "poll", "edit", "gone"}
  Control = {"ask", "note", "bad"}
  Hosted = "search"
  Refused = {"bad"}
  Unavailable = {"gone"}
  Questions = {"ask"}
  Moving = {"poll"}
  Continuation = TRUE
  EmptyLimit = 1
  SilenceLimit = 2
  LengthLimit = 2
  HookLimit = 2
  RepeatLimit = 3
  CorrectionLimit = 2
  MaxSteers = 2
CHECK_DEADLOCK FALSE
INVARIANTS CallsAnswered SuccessLeavesNothingPending
PROPERTIES RepetitionHandled StalledModelEnds
