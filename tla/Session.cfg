CONSTANTS
  Show <- ThreeShows
  Reason = {"lunch", "meeting"}
  Priority <- ManyPriorities
  PriorityAway <- ManyPrioritiesAway
  NULL = NULL
  GARBAGE = GARBAGE
SPECIFICATION RegistrationSpec
INVARIANTS
  TypeOK
  PresenceKnown
  TimerWhileConnecting
  StatusSurvives
  IdentityKept
  NotAskedAgain
  CallbacksHaveRecord
  OneVerdict
PROPERTIES
  AttemptEnds
