---------------------------- MODULE PlayerSessions ----------------------------
(***************************************************************************)
(* Who is on the server, and what its scripts have been told about it.     *)
(*                                                                         *)
(* RakNet's network thread gives a connection the lowest free index of its *)
(* remoteSystemList, and frees the index when the connection closes.  The  *)
(* server's thread learns of both from one queue, later, and keeps under   *)
(* the same index its own player slot (src/server/playerpool.cpp).  While  *)
(* it adds or removes a player it calls the filter scripts ("fs") and the  *)
(* game mode script ("gm"), which may kick players from inside the call,   *)
(* and the same slots outlive a restart of the game mode, which has three  *)
(* phases (src/server/netgame.cpp): every player is announced as gone, the *)
(* game mode and the pools are deleted, and some passes of the main loop   *)
(* later they are made again and every player is announced as new.         *)
(***************************************************************************)
EXTENDS Integers, Sequences, FiniteSets

CONSTANTS
    NumPlayers,   \* MAX_PLAYERS
    Conns,        \* the connections clients make, each once
    NoConn,       \* no connection
    Nicks,        \* the nicknames clients join with
    NoNick,       \* no nickname
    KickIn,       \* the callbacks in which scripts kick players
    RestartWait,  \* passes of the main loop before fRestartWaitTime is over
    MaxDepth,     \* bound on nested calls of CPlayerPool::New and Delete
    MaxRestarts,  \* bound on the requests to change the game mode
    MaxSent       \* bound on the messages of one connection

ASSUME NumPlayersAssumption == NumPlayers \in Nat \ {0}
ASSUME NoConnAssumption == NoConn \notin Conns
ASSUME KickInAssumption == KickIn \subseteq {"command", "connect", "disconnect", "exit", "init"}
ASSUME BoundsAssumption == {RestartWait, MaxRestarts, MaxSent} \subseteq Nat /\ MaxDepth \in Nat \ {0}

Players == 0 .. NumPlayers - 1
Scripts == {"fs", "gm"}

\* The callback a frame of the server's call stack is waiting for.
Frames == [op : {"new", "delete", "deactivate", "exit", "init", "rejoin"},
           player : Players, at : Scripts]

Messages ==
    [kind : {"join", "login", "gone"}, index : Players, conn : Conns, nick : Nicks \cup {NoNick}]
Message(kind, p, c, n) == [kind |-> kind, index |-> p, conn |-> c, nick |-> n]
Gone(p, c) == Message("gone", p, c, NoNick)

VARIABLES
    link,        \* per connection: new, up, kicked (not noticed yet), closing, down
    remote,      \* remoteSystemList: the active connection at each index
    sent,        \* how many messages have arrived from each connection
    queue,       \* what RakNet hands to Receive, in order
    slot,        \* m_bPlayerSlotState and m_pPlayers: who occupies each slot
    name,        \* m_szPlayerName, of the occupied slots: nobody asks for another
    admin,       \* m_bIsAnAdmin, and the connection that logged in
    gameState,   \* m_iGameState
    loaded,      \* m_pGameMode and the pools exist
    finished,    \* bGameModeFinished
    waited,      \* fRestartWaitTime, in passes of the main loop
    restarts,    \* requests to change the game mode so far
    phase,       \* of the main loop: emptying the queue, or testing finished
    stack,       \* the unfinished calls of the server's thread, innermost first
    told,        \* per script and player: calls of OnPlayerConnect less OnPlayerDisconnect
    crashed,     \* the process died of a NULL pointer
    meddled,     \* history: a script has kicked from inside a callback
    hushed,      \* history: a call has ended before it came to the filter script "fs"
    rejoined     \* history: the slots New has filled while they were occupied

network == <<link, remote, sent, queue>>
game == <<gameState, loaded, finished, waited, restarts, phase>>
slots == <<slot, name, admin>>
calls == <<told, hushed>>
vars == <<network, slots, game, stack, calls, crashed, meddled, rejoined>>

\* A restart never waits past its time, and every frame is of a player's slot.
TypeOK ==
    /\ link \in [Conns -> {"new", "up", "kicked", "closing", "down"}]
    /\ remote \in [Players -> Conns \cup {NoConn}]
    /\ sent \in [Conns -> 0 .. MaxSent]
    /\ queue \in Seq(Messages)
    /\ slot \in [Players -> Conns \cup {NoConn}]
    /\ name \in [Players -> Nicks \cup {NoNick}]
    /\ admin \in [Players -> Conns \cup {NoConn}]
    /\ gameState \in {"running", "restarting"}
    /\ loaded \in BOOLEAN
    /\ finished \in BOOLEAN
    /\ waited \in 0 .. RestartWait
    /\ restarts \in 0 .. MaxRestarts
    /\ phase \in {"receive", "check"}
    /\ stack \in Seq(Frames) /\ Len(stack) <= MaxDepth
    /\ told \in [Scripts -> [Players -> Int]]
    /\ crashed \in BOOLEAN
    /\ meddled \in BOOLEAN
    /\ hushed \in BOOLEAN
    /\ rejoined \subseteq Players

\* The server has started: CNetGame::Init has loaded the first game mode.
Init ==
    /\ link = [c \in Conns |-> "new"]
    /\ remote = [p \in Players |-> NoConn]
    /\ sent = [c \in Conns |-> 0]
    /\ queue = <<>>
    /\ slot = [p \in Players |-> NoConn]
    /\ name = [p \in Players |-> NoNick]
    /\ admin = [p \in Players |-> NoConn]
    /\ gameState = "running"
    /\ loaded = TRUE
    /\ finished = FALSE
    /\ waited = 0
    /\ restarts = 0
    /\ phase = "receive"
    /\ stack = <<>>
    /\ told = [s \in Scripts |-> [p \in Players |-> 0]]
    /\ crashed = FALSE
    /\ meddled = FALSE
    /\ hushed = FALSE
    /\ rejoined = {}

Alive == ~crashed
IsLowest(p, S) == p \in S /\ \A q \in S : p <= q

-----------------------------------------------------------------------------
(***************************************************************************)
(* The network thread.  A client may join again, under the same nickname   *)
(* or another, while it plays: nothing in ClientJoin forbids that.  The    *)
(* messages of a connection arrive only while its index is active; when it *)
(* closes it gives its index back and announces that last.                 *)
(***************************************************************************)
serverThread == <<slots, game, stack, calls, crashed, meddled, rejoined>>

Connect(c, p) ==
    /\ Alive
    /\ link[c] = "new"
    /\ IsLowest(p, {q \in Players : remote[q] = NoConn})
    /\ remote' = [remote EXCEPT ![p] = c]
    /\ link' = [link EXCEPT ![c] = "up"]
    /\ UNCHANGED <<sent, queue, serverThread>>

Arrive(c, p, kind, n) ==
    /\ Alive
    /\ remote[p] = c
    /\ sent[c] < MaxSent
    /\ sent' = [sent EXCEPT ![c] = @ + 1]
    /\ queue' = Append(queue, Message(kind, p, c, n))
    /\ UNCHANGED <<link, remote, serverThread>>

\* The client says goodbye.
Goodbye(c) ==
    /\ Alive
    /\ link[c] \in {"up", "kicked"}
    /\ link' = [link EXCEPT ![c] = "closing"]
    /\ UNCHANGED <<remote, sent, queue, serverThread>>

\* The buffered command of a Kick is executed.
NoticeKick(c) ==
    /\ Alive
    /\ link[c] = "kicked"
    /\ link' = [link EXCEPT ![c] = "closing"]
    /\ UNCHANGED <<remote, sent, queue, serverThread>>

\* The end of a closing connection, or the loss of one that was not.
Close(c, p) ==
    /\ Alive
    /\ remote[p] = c
    /\ remote' = [remote EXCEPT ![p] = NoConn]
    /\ link' = [link EXCEPT ![c] = "down"]
    /\ queue' = Append(queue, Gone(p, c))
    /\ UNCHANGED <<sent, serverThread>>

NetworkThread ==
    \E c \in Conns :
        \/ \E p \in Players : Connect(c, p) \/ Close(c, p)
        \/ \E p \in Players, n \in Nicks : Arrive(c, p, "join", n)
        \/ \E p \in Players : Arrive(c, p, "login", NoNick)
        \/ Goodbye(c)
        \/ NoticeKick(c)

-----------------------------------------------------------------------------
(* The server's call stack. *)
Idle == stack = <<>>
Top == Head(stack)
Below == Tail(stack)
Returns(op) == Alive /\ ~Idle /\ Top.op = op   \* the callback of such a call is over
Frame(op, p, s) == [op |-> op, player |-> p, at |-> s]
Occupied == {p \in Players : slot[p] # NoConn}

\* Call a script's OnPlayerConnect (+1) or OnPlayerDisconnect (-1).
Tell(s, p, change) == told' = [told EXCEPT ![s][p] = @ + change]

TellGameMode(p, change) == Tell("gm", p, change) /\ UNCHANGED hushed

(***************************************************************************)
(* CFilterScripts::OnPlayerConnect and OnPlayerDisconnect call one script  *)
(* after the other and end at the first that returns 0.  "fs" is any one   *)
(* of them: it is told, or one before it ends the call.  The frame of the  *)
(* call stands for whichever of them is running.                           *)
(***************************************************************************)
TellFilterScripts(p, change) ==
    \/ Tell("fs", p, change) /\ UNCHANGED hushed
    \/ hushed' = TRUE /\ UNCHANGED told

\* Kick on an index: RakNet closes whatever fully connected peer is there now.
KickIndex(p) ==
    link' = [c \in Conns |-> IF remote[p] = c /\ link[c] = "up" THEN "kicked" ELSE link[c]]

\* CPlayerPool::New, up to the first callback.  Whether the slot is free is not asked.
BeginNew(p, c, n) ==
    /\ slot' = [slot EXCEPT ![p] = c]
    /\ name' = [name EXCEPT ![p] = n]
    /\ admin' = [admin EXCEPT ![p] = NoConn]
    /\ rejoined' = rejoined \cup ({p} \cap Occupied)
    /\ stack' = <<Frame("new", p, "fs")>> \o stack
    /\ TellFilterScripts(p, 1)

\* Mutant: the game mode is called whether it is loaded or not.
NewReturnsCallingNobody ==
    /\ Returns("new")
    /\ IF Top.at = "fs"
       THEN /\ stack' = <<Frame("new", Top.player, "gm")>> \o Below
            /\ TellGameMode(Top.player, 1)
       ELSE /\ stack' = Below
            /\ UNCHANGED calls
    /\ UNCHANGED <<network, slots, game, crashed>>

NewReturns ==
    /\ Returns("new")
    /\ IF Top.at = "fs" /\ loaded
       THEN /\ stack' = <<Frame("new", Top.player, "gm")>> \o Below
            /\ TellGameMode(Top.player, 1)
       ELSE /\ stack' = Below
            /\ UNCHANGED calls
    /\ UNCHANGED <<network, slots, game, crashed>>

\* CPlayerPool::Delete, up to the first callback.
BeginDelete(p) ==
    /\ p \in Occupied
    /\ stack' = <<Frame("delete", p, "fs")>> \o stack
    /\ TellFilterScripts(p, -1)
    /\ UNCHANGED <<slots, game, crashed>>

\* Mutant: the flag is left to the next New.
FinishDeleteKeepingAdmin(p) ==
    /\ slot' = [slot EXCEPT ![p] = NoConn]
    /\ name' = [name EXCEPT ![p] = NoNick]
    /\ UNCHANGED admin
    /\ crashed' = ~loaded

(***************************************************************************)
(* The rest of Delete.  After the callbacks the slot is cleared whatever   *)
(* they did; then the player's objects are deleted from the object pool,   *)
(* which is a NULL pointer between the two halves of a restart.            *)
(***************************************************************************)
FinishDelete(p) ==
    /\ slot' = [slot EXCEPT ![p] = NoConn]
    /\ name' = [name EXCEPT ![p] = NoNick]
    /\ admin' = [admin EXCEPT ![p] = NoConn]
    /\ crashed' = ~loaded

DeleteReturns ==
    /\ Returns("delete")
    /\ IF Top.at = "fs" /\ loaded
       THEN /\ stack' = <<Frame("delete", Top.player, "gm")>> \o Below
            /\ TellGameMode(Top.player, -1)
            /\ UNCHANGED <<slots, crashed>>
       ELSE /\ stack' = Below
            /\ FinishDelete(Top.player)
            /\ UNCHANGED calls
    /\ UNCHANGED <<network, game>>

-----------------------------------------------------------------------------
(* CNetGame::UpdateNetwork: one message after the other. *)
Receiving == Alive /\ Idle /\ phase = "receive" /\ queue # <<>>

\* ClientJoin, for a sender that still is a connected peer at some index.
Joinable(c, p) == remote[p] = c /\ link[c] \in {"up", "kicked"}

\* Mutant: a slot whose connection has ended does not count.
NickInUseByOwner(n) == \E p \in Occupied : remote[p] = slot[p] /\ name[p] = n

\* CPlayerPool::IsNickInUse, in which the sender's own slot counts too.
NickInUse(n) == \E p \in Occupied : name[p] = n

HandleJoin ==
    LET c == Head(queue).conn
        n == Head(queue).nick
    IN
    /\ Receiving
    /\ Head(queue).kind = "join"
    /\ queue' = Tail(queue)
    /\ \/ /\ \E p \in Players : Joinable(c, p) /\ BeginNew(p, c, n)
          /\ ~NickInUse(n)
          /\ UNCHANGED link
       \/ /\ \E p \in Players : Joinable(c, p) /\ KickIndex(p)
          /\ NickInUse(n)
          /\ UNCHANGED <<slots, stack, calls, rejoined>>
       \/ /\ ~\E p \in Players : Joinable(c, p)
          /\ UNCHANGED <<link, slots, stack, calls, rejoined>>
    /\ UNCHANGED <<remote, sent, game, crashed>>

\* Mutant: disconnections are dropped while the game mode restarts.
HandleGoneIfRunning ==
    /\ Receiving
    /\ Head(queue).kind = "gone"
    /\ queue' = Tail(queue)
    /\ \/ gameState = "running" /\ BeginDelete(Head(queue).index)
       \/ /\ gameState = "restarting" \/ Head(queue).index \notin Occupied
          /\ UNCHANGED <<slots, game, stack, calls, crashed>>
    /\ UNCHANGED <<link, remote, sent>>

\* Packet_DisconnectionNotification and Packet_ConnectionLost.
HandleGone ==
    /\ Receiving
    /\ Head(queue).kind = "gone"
    /\ queue' = Tail(queue)
    /\ \/ BeginDelete(Head(queue).index)
       \/ /\ Head(queue).index \notin Occupied
          /\ UNCHANGED <<slots, game, stack, calls, crashed>>
    /\ UNCHANGED <<link, remote, sent>>

\* Packet_InGameRcon with "login" and the right password.
HandleLogin ==
    LET m == Head(queue) IN
    /\ Receiving
    /\ m.kind = "login"
    /\ queue' = Tail(queue)
    /\ admin' = IF m.index \in Occupied
                THEN [admin EXCEPT ![m.index] = m.conn] ELSE admin
    /\ UNCHANGED <<link, remote, sent, slot, name, game, stack, calls, crashed>>

-----------------------------------------------------------------------------
(* Scripts: a kick, from a command or inside a callback, and a restart. *)
MayKick ==
    \/ Idle /\ "command" \in KickIn
    \/ /\ ~Idle
       /\ \/ Top.op \in {"new", "rejoin"} /\ "connect" \in KickIn
          \/ Top.op \in {"delete", "deactivate"} /\ "disconnect" \in KickIn
          \/ Top.op \in KickIn

\* CNetGame::KickPlayer
KickPlayer(p) ==
    /\ Alive
    /\ MayKick
    /\ Len(stack) < MaxDepth
    /\ KickIndex(p)
    /\ BeginDelete(p)
    /\ meddled' = (meddled \/ ~Idle)
    /\ UNCHANGED <<remote, sent, queue, rejoined>>

\* GameModeExit, gmx and changemode.
RequestRestart ==
    /\ Alive
    /\ ~finished
    /\ restarts < MaxRestarts
    /\ finished' = TRUE
    /\ restarts' = restarts + 1
    /\ UNCHANGED <<network, slots, gameState, loaded, waited, phase, stack, calls, crashed,
                   meddled, rejoined>>

-----------------------------------------------------------------------------
\* Mutant: waits one pass more than it counts.
WorldWaitsOnce ==
    /\ Alive /\ Idle /\ phase = "receive" /\ queue = <<>>
    /\ phase' = "check"
    /\ \/ /\ gameState = "running"
          /\ UNCHANGED <<loaded, waited, stack>>
       \/ /\ gameState = "restarting" /\ waited <= RestartWait
          /\ waited' = waited + 1
          /\ UNCHANGED <<loaded, stack>>
       \/ /\ gameState = "restarting" /\ waited = RestartWait
          /\ loaded' = TRUE
          /\ stack' = <<Frame("init", 0, "gm")>>
          /\ UNCHANGED waited
    /\ UNCHANGED <<network, slots, gameState, finished, restarts, calls, crashed>>

(***************************************************************************)
(* CNetGame::Process after the queue is empty: nothing to do here while    *)
(* the game runs; while it restarts, wait, then ReInitWhenRestarting.      *)
(***************************************************************************)
World ==
    /\ Alive /\ Idle /\ phase = "receive" /\ queue = <<>>
    /\ phase' = "check"
    /\ \/ /\ gameState = "running"
          /\ UNCHANGED <<loaded, waited, stack>>
       \/ /\ gameState = "restarting" /\ waited < RestartWait
          /\ waited' = waited + 1
          /\ UNCHANGED <<loaded, stack>>
       \/ /\ gameState = "restarting" /\ waited = RestartWait
          /\ loaded' = TRUE
          /\ stack' = <<Frame("init", 0, "gm")>>
          /\ UNCHANGED waited
    /\ UNCHANGED <<network, slots, gameState, finished, restarts, calls, crashed>>

\* The next player a loop over the slots calls a script for, from index p on.
NextOccupied(q, p) == IsLowest(q, {r \in Occupied : r >= p})

\* ReInitWhenRestarting: OnPlayerConnect again for everybody.
RejoinFrom(p) ==
    \/ \E q \in Players :
        /\ NextOccupied(q, p)
        /\ stack' = <<Frame("rejoin", q, "fs")>> \o Below
        /\ TellFilterScripts(q, 1)
    \/ /\ \A q \in Occupied : q < p
       /\ stack' = Below
       /\ UNCHANGED calls

\* Mutant: the players are announced from player 1 on.
InitReturnsFromOne ==
    /\ Returns("init")
    /\ gameState' = "running"
    /\ RejoinFrom(1)
    /\ UNCHANGED <<network, slots, loaded, finished, waited, restarts, phase, crashed>>

InitReturns ==
    /\ Returns("init")
    /\ gameState' = "running"
    /\ RejoinFrom(0)
    /\ UNCHANGED <<network, slots, loaded, finished, waited, restarts, phase, crashed>>

RejoinReturns ==
    /\ Returns("rejoin")
    /\ IF Top.at = "fs"
       THEN /\ stack' = <<Frame("rejoin", Top.player, "gm")>> \o Below
            /\ TellGameMode(Top.player, 1)
       ELSE RejoinFrom(Top.player + 1)
    /\ UNCHANGED <<network, slots, game, crashed>>

\* Mutant: bGameModeFinished is not reset.
ShutdownDoneKeepingFinished ==
    /\ gameState' = "restarting"
    /\ loaded' = FALSE
    /\ waited' = 0
    /\ phase' = "receive"
    /\ UNCHANGED <<finished, restarts>>

(***************************************************************************)
(* The main loop tests bGameModeFinished: ShutdownForGameModeRestart calls *)
(* DeactivateAll, which tells the game mode before the filter scripts and  *)
(* does not ask whether there is a game mode, and then OnGameModeExit.     *)
(***************************************************************************)
ShutdownDone ==
    /\ gameState' = "restarting"
    /\ loaded' = FALSE
    /\ waited' = 0
    /\ finished' = FALSE
    /\ phase' = "receive"
    /\ UNCHANGED restarts

DeactivateFrom(p) ==
    \/ \E q \in Players :
        /\ NextOccupied(q, p)
        /\ IF loaded
           THEN /\ stack' = <<Frame("deactivate", q, "gm")>>
                /\ TellGameMode(q, -1)
                /\ UNCHANGED crashed
           ELSE crashed' = TRUE /\ UNCHANGED <<stack, calls>>
        /\ UNCHANGED game
    \/ /\ \A q \in Occupied : q < p
       /\ IF loaded
          THEN stack' = <<Frame("exit", 0, "gm")>> /\ UNCHANGED game
          ELSE ShutdownDone /\ UNCHANGED stack
       /\ UNCHANGED <<calls, crashed>>

\* Mutant: DeactivateAll begins with player 1.
CheckFromOne ==
    /\ Alive /\ Idle /\ phase = "check"
    /\ \/ finished /\ DeactivateFrom(1)
       \/ /\ ~finished
          /\ phase' = "receive"
          /\ UNCHANGED <<gameState, loaded, finished, waited, restarts, stack, calls, crashed>>
    /\ UNCHANGED <<network, slots>>

Check ==
    /\ Alive /\ Idle /\ phase = "check"
    /\ \/ finished /\ DeactivateFrom(0)
       \/ /\ ~finished
          /\ phase' = "receive"
          /\ UNCHANGED <<gameState, loaded, finished, waited, restarts, stack, calls, crashed>>
    /\ UNCHANGED <<network, slots>>

DeactivateReturns ==
    /\ Returns("deactivate")
    /\ IF Top.at = "gm"
       THEN /\ stack' = <<Frame("deactivate", Top.player, "fs")>>
            /\ TellFilterScripts(Top.player, -1)
            /\ UNCHANGED <<game, crashed>>
       ELSE DeactivateFrom(Top.player + 1)
    /\ UNCHANGED <<network, slots>>

ExitReturns ==
    /\ Returns("exit")
    /\ stack' = Below
    /\ ShutdownDone
    /\ UNCHANGED <<network, slots, calls, crashed>>

-----------------------------------------------------------------------------
CallbackReturns ==
    /\ \/ NewReturns \/ DeleteReturns
       \/ InitReturns \/ RejoinReturns
       \/ DeactivateReturns \/ ExitReturns
    /\ UNCHANGED <<meddled, rejoined>>

MainLoop ==
    /\ \/ HandleJoin
       \/ (HandleGone \/ HandleLogin \/ World \/ Check) /\ UNCHANGED rejoined
    /\ UNCHANGED meddled

Next ==
    \/ NetworkThread
    \/ MainLoop
    \/ CallbackReturns
    \/ \E p \in Players : KickPlayer(p)
    \/ RequestRestart

(***************************************************************************)
(* The main loop keeps running and callbacks return; the network thread    *)
(* executes the commands it is given and ends the connections it closes.   *)
(* Nothing makes a client connect, speak or leave, or a script kick.       *)
(***************************************************************************)
Fairness ==
    /\ WF_vars(MainLoop \/ CallbackReturns)
    /\ \A c \in Conns :
        /\ WF_vars(NoticeKick(c))
        /\ WF_vars(link[c] = "closing" /\ \E p \in Players : Close(c, p))

Spec == Init /\ [][Next]_vars /\ Fairness

-----------------------------------------------------------------------------
(***************************************************************************)
(* Every player slot is accounted for: its connection still holds the      *)
(* index of that number, or the news of its end is in the queue or being   *)
(* handled.  A slot that is not would stay on the server for ever, and a   *)
(* later connection on the index would play in somebody else's name.       *)
(***************************************************************************)
SlotBacked ==
    \A p \in Occupied :
        \/ remote[p] = slot[p]
        \/ \E i \in DOMAIN queue : queue[i] = Gone(p, slot[p])
        \/ \E i \in DOMAIN stack : stack[i].op = "delete" /\ stack[i].player = p

(***************************************************************************)
(* CPlayerPool::New does not look whether the slot it fills is free.  A    *)
(* player who joins again under another nickname has his own slot filled   *)
(* anew, but nobody ever gets a slot that is another's: an index is reused *)
(* at once, its slot only after the server's thread has read that the      *)
(* previous connection ended, and has emptied it.                          *)
(***************************************************************************)
SlotNotTakenOver ==
    [][\A p \in Players : NoConn \in {slot[p], slot'[p]} \/ slot'[p] = slot[p]]_vars

(***************************************************************************)
(* An administrator is the connection that gave the password.  The flag is *)
(* kept per slot and the login packet names an index, both of which are    *)
(* reused; still nobody inherits another client's rights.                  *)
(***************************************************************************)
AdminIsPlayer == \A p \in Players : admin[p] \in {NoConn, slot[p]}

(***************************************************************************)
(* No two players have the same nickname, although ClientJoin looks for it *)
(* among the slots only, a slot may outlive its connection, and players    *)
(* may take another nickname by joining again.                             *)
(***************************************************************************)
NicknamesUnique == \A p, q \in Occupied : name[p] = name[q] => p = q

(***************************************************************************)
(* When a connection has ended its slot is freed, whatever callbacks and   *)
(* restarts are under way, unless the process died.                        *)
(***************************************************************************)
SlotFreed ==
    \A p \in Players, c \in Conns :
        slot[p] = c /\ link[c] = "down" ~> crashed \/ slot[p] # c

\* A game mode that is being replaced is replaced, unless the process died.
RestartEnds == gameState = "restarting" ~> crashed \/ gameState = "running"

(***************************************************************************)
(* The game mode's calls of OnPlayerConnect and OnPlayerDisconnect for a   *)
(* player alternate, beginning with a connect, over joins, leaves, kicks   *)
(* and restarts, if scripts do not kick from inside these calls.  Excepted *)
(* are the ids somebody has joined again with: he is announced once more,  *)
(* and gone only once.                                                     *)
(***************************************************************************)
GameModeToldInTurn == ~meddled => \A p \in Players \ rejoined : told["gm"][p] \in {0, 1}

(***************************************************************************)
(* Between two calls the running game mode has been told of exactly the    *)
(* players that are on the server; and it is unloaded believing that       *)
(* nobody is left, so the next one starts with a clean slate; if scripts   *)
(* do not kick from inside callbacks, and with the same ids excepted.      *)
(***************************************************************************)
GameModeKnowsPlayers ==
    ~meddled =>
    /\ Idle /\ gameState = "running" =>
        \A p \in Players \ rejoined : told["gm"][p] = IF p \in Occupied THEN 1 ELSE 0
    /\ (~Idle /\ Top.op = "exit") \/ ~loaded =>
        \A p \in Players \ rejoined : told["gm"][p] = 0

(***************************************************************************)
(* The filter scripts outlive the game mode.  Between two calls, while the *)
(* game runs, a filter script has been told of every player that is on the *)
(* server, and never of more departures than arrivals, if no script before *)
(* it ends such a call by returning 0: the first one always has, the later *)
(* ones depend on the earlier.  It may have been told of an arrival twice: *)
(* a player who joins during a restart is announced when he joins and      *)
(* again when the next game mode starts, and one who joins again is too.   *)
(* All that if scripts do not kick from inside callbacks.                  *)
(***************************************************************************)
FilterScriptsKnowPlayers ==
    Idle /\ ~crashed /\ ~meddled /\ ~hushed => \A p \in Players :
        /\ told["fs"][p] >= 0
        /\ p \in Occupied /\ gameState = "running" => told["fs"][p] >= 1

(***************************************************************************)
(* What netgame.cpp says of the restarting state, "wait 12 seconds, then   *)
(* restart", with nothing about a process that does not get there.         *)
(***************************************************************************)
RestartCompletes == gameState = "restarting" ~> gameState = "running"
=============================================================================
