\* A keysend is paid and forgotten, and delivered again within six hours.
SPECIFICATION Spec
CONSTANTS
  Goroutines = {g1}
  Requests = {"keysend", "info"}
  Sender <- MCSender
  Method <- MCMethod
  MaxParts = 1
  PartsOf <- MCPartsOf
  Damage <- MCDamage
  AppId = {1}
  PubKeys = {key}
  ScopeSets <- MCScopeSets
  Aging = {}
  Kept = 1
  Excess = 1
  Batch = 2
  MaxReceived = 3
  MaxRows = 3
  MaxCrashes = 0
SYMMETRY Symmetry
INVARIANTS
  AnsweredOnce
CHECK_DEADLOCK FALSE
