SPECIFICATION LoopSpec
CONSTANTS
    Service <- MCTwo
    PORT_SCAN_RANGE = 1
    HomeConfigs <- AtTheTop
    AttemptSpace = 16
    MAX_RETRIES = 1
    HEALTH_FAIL_THRESHOLD = 1
    DocumentRoots = {"root1"}
    OwnedFiles <- AllFiles
    Faults = {"exit", "port busy"}
    MaxFaults = 1
    UserCommands = {"StartService", "StopService"}
    MaxCommands = 2
CHECK_DEADLOCK FALSE
CONSTRAINT AllWantedPlain
INVARIANTS
    LoopTypeOK
    ConfigsApplied
