CONSTANTS
    NumPlayers = 2
    Conns = {c1, c2}
    NoConn = NoConn
    Nicks = {n1}
    NoNick = NoNick
    KickIn = {"connect", "disconnect", "exit", "init"}
    RestartWait = 1
    MaxDepth = 2
    MaxRestarts = 1
    MaxSent = 1
SPECIFICATION Spec
CHECK_DEADLOCK FALSE
PROPERTIES
    SlotFreed
    RestartEnds
