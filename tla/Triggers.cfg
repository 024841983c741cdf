CONSTANTS
    N = 2
    Cooldowns = {1, 2}
    Window <- MCWindow
    PerSecond = 2
    MinuteTicks = 1
    DayMinutes = 3
    HistoryLimit = 1
    MaxTime = 4
    Edited = {2}
SPECIFICATION Spec
INVARIANTS FiringIsRemembered SwitchedOffStops FiresInWindow
PROPERTIES CooldownHolds
