SPECIFICATION LoopSpec
CONSTANTS
    Service <- MCOne
    PORT_SCAN_RANGE = 1
    HomeConfigs <- MCHome
    AttemptSpace = 16
    MAX_RETRIES = 1
    HEALTH_FAIL_THRESHOLD = 1
    DocumentRoots = {"root1", "root2"}
    OwnedFiles <- AllFiles
    Faults = {}
    MaxFaults = 0
    UserCommands = {"ConfigReloaded", "RestartService"}
    MaxCommands = 2
CONSTRAINT NoPhpMyAdmin
CHECK_DEADLOCK FALSE
PROPERTIES SpawnsFollowConfig
