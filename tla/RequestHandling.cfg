\* Two handlers, every way a request can go, requests delivered again, apps deleted and
\* created anew, requests removed from the table, a crash.
SPECIFICATION Spec
CONSTANTS
  Goroutines = {g1, g2}
  Requests = {"multi", "empty", "info", "cipher", "garbled", "nojson", "strange", "noparams"}
  Sender <- MCSender
  Method <- MCMethod
  MaxParts = 2
  PartsOf <- MCPartsOf
  Damage <- MCDamage
  AppId = {1, 2}
  PubKeys = {key}
  ScopeSets <- MCScopeSets
  Aging = {"multi"}
  Kept = 1
  Excess = 1
  Batch = 2
  MaxReceived = 2
  MaxRows = 2
  MaxCrashes = 1
SYMMETRY Symmetry
INVARIANTS
  TypeOK
  HandledOnceWhileRemembered
  LateRequestsHaveNoEffect
  StateTellsOutcome
  StuckIsExplained
CHECK_DEADLOCK FALSE
