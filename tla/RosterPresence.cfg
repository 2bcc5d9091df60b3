CONSTANTS
  alice = alice
  icq = icq
  own = own
  work = work
  al = al
  Contact <- OneContact
  OwnJid = own
  OwnRes = 1
  Gateway = {}
  Res = {1, 2}
  Subscription = {"both", "remove"}
  Group = {work}
  Name = {al}
  Show <- OneShow
  Priority <- BothSigns
  Status = {}
  NULL = NULL
SPECIFICATION Spec
INVARIANTS
  TypeOK
  ResolvesToHighest
  OneRecordPerResource
PROPERTIES
  TracksPresence
  StanzasTellTable
