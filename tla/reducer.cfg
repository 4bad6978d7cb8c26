SPECIFICATION Spec
CONSTANTS
    Service <- MCService
    PORT_SCAN_RANGE = 1
    HomeConfigs <- MCHomeConfigs
    AttemptSpace = 2
    MAX_RETRIES = 1
    HEALTH_FAIL_THRESHOLD = 2
    DocumentRoots = {root}
INVARIANTS
    TypeOK
    PortsDistinct
    ActiveIsDesired
    StartedAtTracksActive
    RetriesBounded
    StreakBelowThreshold
    LedgerHeld
CONSTRAINT Focus
VIEW app
PROPERTIES
    SpawnMatchesLedger
    GivingUpKills
    ErrorsAreReported
    StopsArePersisted
    ImplementsLifecycle
