CONSTANTS
  COMPOSING_TIMEOUT = 3
  MaxTimers = 2
  MaxInFlight = 2
  NULL = NULL
SPECIFICATION ComposingSpec
INVARIANTS
  TypeOK
  TypingIsWatched
  ShowsLastEvent
PROPERTIES
  TypingEnds
