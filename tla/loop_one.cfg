SPECIFICATION LoopSpec
CONSTANTS
    Service <- MCMysql
    PORT_SCAN_RANGE = 1
    HomeConfigs <- MCHome
    AttemptSpace = 16
    MAX_RETRIES = 1
    HEALTH_FAIL_THRESHOLD = 1
    DocumentRoots = {root}
    OwnedFiles <- AllFiles
    Faults = {"exit", "slow", "unhealthy", "foreign"}
    MaxFaults = 2
    UserCommands = {"StartService", "StopService", "ShutdownAll"}
    MaxCommands = 2
CONSTRAINT OnlyMysql
CHECK_DEADLOCK FALSE
INVARIANTS
    DownMeansDead
    KillFindsPort
    CrashedIsRetried
    WishIsSaved
    ShutdownIsClean
