SPECIFICATION LoopSpec
CONSTANTS
    Service <- MCOne
    PORT_SCAN_RANGE = 1
    HomeConfigs <- MCHome
    AttemptSpace = 16
    MAX_RETRIES = 1
    HEALTH_FAIL_THRESHOLD = 1
    DocumentRoots = {"root1"}
    OwnedFiles <- AllFiles
    Faults = {"slow"}
    MaxFaults = 1
    UserCommands = {"StopService", "StartService", "RestartService"}
    MaxCommands = 2
CONSTRAINT NoPhpMyAdmin
CHECK_DEADLOCK FALSE
PROPERTIES StaleExitsIgnored
