\* Script, readers and purge at the same time.
SPECIFICATION FairSpec
CONSTANTS
  Macs = {m1, m2}
  Unparsable = {m2}
  Readers = {r1, r2}
  PurgeAge = 2
  ZoneOffset = 0
  MaxTime = 4
  MaxStops = 1
INVARIANTS
  TypeOK
  ContactTracked
PROPERTIES
  PurgeSparesRecent
  PurgeReportFaithful
  OldRowsForgotten
  HistorySpec
