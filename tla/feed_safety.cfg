\* Two connections, every fault of the environment: what the locks protect.
SPECIFICATION Spec
CONSTANTS
  l1 = l1
  l2 = l2
  l3 = l3
  Conns = {c1, c2}
  Leases = {l1, l2, l3}
  Files <- MCFiles
  NoList = NoList
  RefreshEnabled = TRUE
  Faults = {"readError", "badUpgrade", "stalledPeer", "watchError"}
INVARIANTS
  TypeOK
  SnapshotWhole
  OneWriter
  RegisteredWhileServed
  NoCircularWait
  NoChangeLost
PROPERTIES
  RangeUndisturbed
  FeedSpec
SYMMETRY Symmetric
