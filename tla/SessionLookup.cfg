CONSTANTS
  Show <- TwoShows
  Reason = {"lunch", "meeting"}
  Priority <- DefaultPriority
  PriorityAway <- DefaultPriorityAway
  NULL = NULL
  GARBAGE = GARBAGE
SPECIFICATION RegistrationSpec
INVARIANTS
  LookupExists
