\* Two starts of the add-on and a restart of dnsmasq by s6.
SPECIFICATION FairSpec
CONSTANTS
  Macs = {m1}
  Grace = 2
  PurgeAge = 2
  ResetOnReboot = TRUE
  Prompt = TRUE
  MaxRespawns = 1
  MaxTime = 5
INVARIANTS
  TypeOK
  GhostsOnlyAfterRespawn
  NoWrongEpoch
PROPERTIES
  NotesTruthful
  ListedWhereItBelongs
  HistorySpec
