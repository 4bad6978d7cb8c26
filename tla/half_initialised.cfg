SPECIFICATION StartupSpec
CONSTANTS
    Service <- MCService
    Faults = {"mysqld"}
    Edits = {}
    MaxLaunches = 2
    MaxFaults = 1
    MaxEdits = 0
    MaxSecrets = 2
INVARIANT FailedInitIsRepeated
CHECK_DEADLOCK FALSE
