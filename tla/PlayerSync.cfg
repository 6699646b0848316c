CONSTANTS
    Seats = {"driver"}
    MaxLives = 2
    MaxFlight = 2
SPECIFICATION LiveSpec
INVARIANTS
    TypeOK
PROPERTIES
    NoResurrection
    SeenAsPlayed
CHECK_DEADLOCK FALSE
