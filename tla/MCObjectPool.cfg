CONSTANTS
    NumPlayers = 2
    MaxObjects = 3
    NoObject = NoObject
    MaxDistance = 2
SPECIFICATION Spec
INVARIANTS
    TypeOK
    SlotsMatchPointers
    PersonalFlagExact
    OneUsePerId
    NothingLeftBehind
PROPERTIES
    MovesEnd
    ImplementsOwnership
