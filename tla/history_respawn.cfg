\* s6 restarts dnsmasq alone: the start epoch stays.
SPECIFICATION Spec
CONSTANTS
  Macs = {m1}
  Grace = 2
  PurgeAge = 2
  ResetOnReboot = FALSE
  Prompt = TRUE
  MaxRespawns = 1
  MaxTime = 5
INVARIANTS
  StartupEventsIgnored
