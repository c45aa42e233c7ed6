SPECIFICATION SessionSpec
CONSTANTS
    Configs <- MCConfigs
    Worlds <- MCWorlds
    MaxUnread = 2
INVARIANTS
    SessionTypeOK
    ResponsiveKept
PROPERTIES
    SilentDropped
    TurnsGoOn
    AuthWaitEnds
CHECK_DEADLOCK FALSE
