CONSTANTS
    NumPlayers = 2
    Conns = {c1, c2}
    NoConn = NoConn
    Nicks = {n1, n2}
    NoNick = NoNick
    KickIn = {"command", "connect", "disconnect", "exit", "init"}
    RestartWait = 1
    MaxDepth = 2
    MaxRestarts = 2
    MaxSent = 2
SPECIFICATION Spec
CHECK_DEADLOCK FALSE
SYMMETRY Interchangeable
VIEW WhatMatters
INVARIANTS
    TypeOK
    SlotBacked
    AdminIsPlayer
    NicknamesUnique
    GameModeToldInTurn
    GameModeKnowsPlayers
    FilterScriptsKnowPlayers
PROPERTY
    SlotNotTakenOver
