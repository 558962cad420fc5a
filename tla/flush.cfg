SPECIFICATION FairSpec
CONSTANTS
  e1 = e1
  Fp = {e1}
  Rules <- TwoRules
  OnceTtl = 1
  MaxReports = 2
  MaxClock = 1
  MaxStops = 1
  Shutdown = TRUE
INVARIANTS NeverCountedTwice CleanIsStored AlertsAreSpaced
PROPERTY ChangesAreFlushed
CHECK_DEADLOCK FALSE
