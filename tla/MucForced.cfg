CONSTANTS
  Nick <- ThreeNicks
  FirstNick = "al"
  AltNick = "alt"
  Underscored <- NextUnderscore
  Info = {"participant"}
  Jid = {bob}
  Topic = {}
  Mode = {open}
  FirstMode = open
  FirstInfo = "participant"
  Code = {}
  Error = {}
  MaxChain = 4
  NULL = NULL
  Me = Me
  bob = bob
  Other = {bob}
  RemovalCode <- KnownCodes
  Kicks <- NoCodes
  Forces = TRUE
  MaxMoves = 3
  MaxInFlight = 2
SPECIFICATION RoomSpec
INVARIANTS
  NamesAreOccupants
