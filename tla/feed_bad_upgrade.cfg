\* A request for /ws that cannot be upgraded, next to a browser.
SPECIFICATION FairSpec
CONSTANTS
  l1 = l1
  l2 = l2
  l3 = l3
  Conns = {c1, c2}
  Leases = {l1}
  Files <- MCSmallFiles
  NoList = NoList
  RefreshEnabled = TRUE
  Faults = {"badUpgrade"}
PROPERTIES
  FeedConverges
