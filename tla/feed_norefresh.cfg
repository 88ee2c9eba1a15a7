\* refresh_interval_sec: 0, no fault: an update between a handler
\* composing its first message and registering its connection.
SPECIFICATION FairSpec
CONSTANTS
  l1 = l1
  l2 = l2
  l3 = l3
  Conns = {c1}
  Leases = {l1, l2, l3}
  Files <- MCFiles
  NoList = NoList
  RefreshEnabled = FALSE
  Faults = {}
PROPERTIES
  FeedConverges
