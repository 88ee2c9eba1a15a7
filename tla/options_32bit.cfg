\* The same on armv7 and i386.
SPECIFICATION Spec
CONSTANTS
  V6Size = 32
  V4Size = 8
  MappedBase = 8
  MaxInt64 = 6
  Private <- MCPrivate
  IntBits = 32
  PoolEntries <- MCPoolEntries
  ReservationEntries <- MCReservationEntries
  NameEntries <- MCNameEntries
  DurationOptions <- MCDurationOptions
  Ports = {0, 8976, 32769}
  Hostnames <- MCHostnames
  GoodLinks <- MCGoodLinks
  MaxEntries = 2
INVARIANTS
  PurgeAsConfigured
