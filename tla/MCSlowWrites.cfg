SPECIFICATION SessionSpec
CONSTANTS
    Configs <- SlowConfigs
    Worlds <- SlowWorlds
    MaxUnread = 2
INVARIANT ListenerKept
CHECK_DEADLOCK FALSE
