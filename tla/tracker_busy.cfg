\* A report while a message is composed.
SPECIFICATION Spec
CONSTANTS
  Macs = {m1, m2}
  Unparsable = {}
  Readers = {r1}
  PurgeAge = 2
  ZoneOffset = 0
  MaxTime = 4
  MaxStops = 0
INVARIANTS
  EveryContactStored
