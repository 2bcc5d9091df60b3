CONSTANTS
  home = home
  work = work
  bob = bob
  Server <- TwoServers
  Entity <- OneEntity
  Pinged <- FromHome
  LagCheck = 1
  MaxLag = 2
  MaxPings = 2
  NULL = NULL
SPECIFICATION PingSpec
INVARIANTS
  TypeOK
  NothingOfFreedServers
  ReportsItsPing
PROPERTIES
  OnlyLateServersDropped
  DeadLinkNoticed
