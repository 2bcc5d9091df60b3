CONSTANTS
  alice = alice
  bob = bob
  own = own
  work = work
  al = al
  Contact <- TwoContacts
  OwnJid = own
  OwnRes = 1
  Gateway = {}
  Res = {1}
  Subscription = {"none", "from", "to", "both", "remove"}
  Group = {work}
  Name = {al}
  Show = {}
  Priority = {}
  Status = {}
  NULL = NULL
  ANY = ANY
  MaxInFlight = 2
  Managed <- OneContact
  HurryCounts = FALSE
SPECIFICATION SyncSpec
INVARIANTS
  OneEntryPerContact
  RecordsListed
  ClientShowsServer
  RequestsHonoured
  SubscriptionsHonoured
