CONSTANTS
  Show <- TwoShows
  Reason = {"lunch", "meeting"}
  Priority <- GoodPriorities
  PriorityAway <- ManyPrioritiesAway
  NULL = NULL
  GARBAGE = GARBAGE
SPECIFICATION RegistrationSpec
INVARIANTS
  ReasonKept
