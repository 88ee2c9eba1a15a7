\* A local time zone two ticks east of UTC.
SPECIFICATION Spec
CONSTANTS
  Macs = {m1, m2}
  Unparsable = {}
  Readers = {r1}
  PurgeAge = 2
  ZoneOffset = 2
  MaxTime = 4
  MaxStops = 0
PROPERTIES
  PurgeSparesRecent
