CONSTANTS
    FilterScripts = {fs}
    GameMode = gm
    Intervals = {1}
    MaxElapsed = 2
    MaxTimers = 3
    NoTimer = NoTimer
    NoScript = NoScript
SPECIFICATION Spec
CHECK_DEADLOCK FALSE
INVARIANT
    IteratorsLive
