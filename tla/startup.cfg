SPECIFICATION StartupSpec
CONSTANTS
    Service <- MCService
    Faults = {"toml", "dirs", "state_read", "state_write", "backup", "remove", "conf_read", "conf_write", "clear", "mysqld"}
    Edits = {"take_over", "delete_conf", "edit_toml", "break_toml", "delete_toml", "delete_state", "delete_data", "phpmyadmin"}
    MaxLaunches = 3
    MaxFaults = 1
    MaxEdits = 2
    MaxSecrets = 3
INVARIANTS
    StartupTypeOK
    ForeignKept
    FreshIsAdopted
    EmptyIsReported
    WishKept
PROPERTIES
    UserFileStays
    DataKept
    SecretKept
CHECK_DEADLOCK FALSE
