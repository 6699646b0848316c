CONSTANTS
    NumPlayers = 1
    Conns = {c1}
    NoConn = NoConn
    Nicks = {n1}
    NoNick = NoNick
    KickIn = {}
    RestartWait = 1
    MaxDepth = 1
    MaxRestarts = 1
    MaxSent = 1
SPECIFICATION Spec
CHECK_DEADLOCK FALSE
PROPERTY
    RestartCompletes
