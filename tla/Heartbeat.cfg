CONSTANTS
    DisconnectAfter = 1
    Cooldown = 2
    PollInterval = 2
    Slow = 1
    Posts = {h1}
    Admins = {a1}
    AdminOps = {"rename", "rotate"}
    MaxAdmin = 1
SPECIFICATION HeartbeatSpec
PROPERTY OutageNoticed
PROPERTY OutageCleared
PROPERTY NotificationsSpaced
CHECK_DEADLOCK FALSE
