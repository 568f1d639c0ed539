SPECIFICATION MonitorSpec
CONSTANTS
    Troubles = {"search", "docker", "backup"}
    Cooldown = 2
    SearchStreak = 3
    LastTick = 4
INVARIANTS
    StaleBackupIsTold
CHECK_DEADLOCK FALSE
