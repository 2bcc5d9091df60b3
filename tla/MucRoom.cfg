CONSTANTS
  Nick <- ThreeNicks
  FirstNick = "al"
  AltNick = "alt"
  Underscored <- NextUnderscore
  Info = {"participant", "visitor"}
  Jid = {bob}
  Topic = {hello}
  Mode = {open, members}
  FirstMode = open
  FirstInfo = "participant"
  Code = {}
  Error = {}
  MaxChain = 4
  NULL = NULL
  Me = Me
  bob = bob
  Other = {bob}
  RemovalCode <- KnownCodes
  Kicks <- OnlyKick
  Forces = FALSE
  MaxMoves = 3
  MaxInFlight = 3
SPECIFICATION RoomSpec
INVARIANTS
  NamesAreOccupants
  OwnNickKnown
  JoinedOrGone
  TopicIsSubject
  ModeKnown
  MessagesAttributed
PROPERTIES
  JoinEnds
