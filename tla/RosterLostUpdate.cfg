CONSTANTS
  alice = alice
  bob = bob
  own = own
  work = work
  al = al
  Contact <- OneContact
  OwnJid = own
  OwnRes = 1
  Gateway = {}
  Res = {1}
  Subscription = {"none", "from", "to", "both", "remove"}
  Group = {work}
  Name = {al}
  Show = {}
  Priority = {}
  Status = {}
  NULL = NULL
  ANY = ANY
  MaxInFlight = 2
  Managed <- OneContact
  HurryCounts = TRUE
SPECIFICATION SyncSpec
INVARIANTS
  RequestsHonoured
