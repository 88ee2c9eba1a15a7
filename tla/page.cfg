\* A page that is loaded, reloaded, cut off and left alone.
SPECIFICATION FairSpec
CONSTANTS
  Counters <- MCCounters
  ClientNames = {"a", "b"}
  Times = {1, 2, 3, 4, 5}
  Worlds <- MCWorlds
  NoWorld = NoWorld
  dhcpPoolSize = 3
  WireSize = 2
INVARIANTS
  TypeOK
  ViewCoherent
  LiveIsEarned
  NumbersAnswered
PROPERTIES
  RowsStayOpen
  DeadPageMarked
  PageConverges
