SPECIFICATION FairLoopSpec
CONSTANTS
    Service <- MCOne
    PORT_SCAN_RANGE = 1
    HomeConfigs <- MCHome
    AttemptSpace = 16
    MAX_RETRIES = 1
    HEALTH_FAIL_THRESHOLD = 1
    DocumentRoots = {root}
    OwnedFiles <- AllFiles
    Faults = {"port busy", "spawn fails", "write fails", "foreign", "exit"}
    MaxFaults = 2
    UserCommands = {"StartService", "StopService", "RestartService"}
    MaxCommands = 2
CONSTRAINT NoPhpMyAdmin
CHECK_DEADLOCK FALSE
INVARIANTS
    RunningHasHandle
    StartingResolves
    StoppingResolves
PROPERTIES
    WantedIsHonoured
