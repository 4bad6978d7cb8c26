SPECIFICATION LoopSpec
CONSTANTS
    Service <- MCOne
    PORT_SCAN_RANGE = 1
    HomeConfigs <- AtTheTop
    AttemptSpace = 16
    MAX_RETRIES = 1
    HEALTH_FAIL_THRESHOLD = 1
    DocumentRoots = {"root1", "root2"}
    OwnedFiles <- AllFiles
    Faults = {"exit", "port busy", "directory"}
    MaxFaults = 1
    UserCommands = {"TogglePhpMyAdmin", "SetDocumentRoot", "StartService", "StopService"}
    MaxCommands = 2
CHECK_DEADLOCK FALSE
CONSTRAINT AllWanted
INVARIANTS
    SwitchIsHonest
PROPERTIES
    SpawnsFollowConfig
