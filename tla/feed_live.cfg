\* One connection slot, used again and again, next to browsers that stall
\* and a failing WatchLeases: what must eventually happen.
SPECIFICATION FairSpec
CONSTANTS
  l1 = l1
  l2 = l2
  l3 = l3
  Conns = {c1}
  Leases = {l1, l2, l3}
  Files <- MCFiles
  NoList = NoList
  RefreshEnabled = TRUE
  Faults = {"stalledPeer", "watchError"}
PROPERTIES
  FeedConverges
  DeadConnectionsForgotten
  ClientsLockReleased
  ConnectionServed
