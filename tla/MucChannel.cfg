CONSTANTS
  Nick <- ThreeNicks
  FirstNick = "al"
  AltNick = "alt"
  Underscored <- NextUnderscore
  Info = {"participant"}
  Jid = {bob}
  Topic = {hello}
  Mode = {members}
  Code <- Codes
  Error <- Errors
  MaxChain = 2
  NULL = NULL
SPECIFICATION ChannelSpec
INVARIANTS
  TypeOK
  OwnRecord
