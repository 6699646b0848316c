SPECIFICATION Spec
CONSTANTS
    Players = {p1, p2}
    MaxVehicles = 2
    MaxMade = 1
    Delays <- ShortAndLong
    Longest = 3
    RespawnIn <- ButFirst
    DestroyIn <- LastOnly
    MaxDepth = 2
    NoPlayer = NoPlayer
    NoVehicle = NoVehicle
    Unset = Unset
INVARIANT TypeOK
INVARIANT SeenBeforeRead
INVARIANT NoDestroyedVehicleUsed
PROPERTY RespawnsApart
PROPERTY DeathsInTurn
PROPERTY NotIdleWhileDriven
PROPERTY DeadRespawns
CHECK_DEADLOCK FALSE
