CONSTANTS
    Passwords = {"p1", "p2"}
    Callers = {"tab", "other"}
    Advanced = TRUE
    Errands = {"setup", "othernode", "restore", "cloud", "password", "migrate", "developer", "auto", "account", "preferences", "repair"}
    MaxSecrets = 2
    MaxFailures = 2
    MaxBoots = 1
SPECIFICATION Spec
INVARIANTS TypeOK  RedirectsSettle  HaltedMeansStopped
PROPERTIES KeepsLifecycle StartIsAnswered
CHECK_DEADLOCK FALSE
