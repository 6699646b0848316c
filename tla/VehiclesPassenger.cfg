SPECIFICATION Spec
CONSTANTS
    Players = {p1, p2}
    MaxVehicles = 1
    MaxMade = 1
    Delays <- ShortAndLong
    Longest = 3
    RespawnIn <- NoCallback
    DestroyIn <- NoCallback
    MaxDepth = 1
    NoPlayer = NoPlayer
    NoVehicle = NoVehicle
    Unset = Unset
PROPERTY PassengersOccupy
CHECK_DEADLOCK FALSE
