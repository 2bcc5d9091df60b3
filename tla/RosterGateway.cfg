CONSTANTS
  alice = alice
  icq = icq
  own = own
  work = work
  al = al
  Contact <- Transport
  OwnJid = own
  OwnRes = 1
  Gateway <- Transport
  Res = {1, 2, 3}
  Subscription = {"both", "remove"}
  Group = {}
  Name = {}
  Show <- OneShow
  Priority <- BothSigns
  Status = {}
  NULL = NULL
SPECIFICATION Spec
INVARIANTS
  OneRecordPerResource
