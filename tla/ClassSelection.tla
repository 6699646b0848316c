--------------------------- MODULE ClassSelection ---------------------------
(***************************************************************************)
(* How a player gets into the game: the client's class selection, death    *)
(* and spectating (src/saco/net/localplayer.cpp and netrpc.cpp), the       *)
(* server's handlers (src/server/netrpc.cpp and player.cpp), the scripts   *)
(* they ask, and the restarts of the game mode on both sides.              *)
(*                                                                         *)
(* The two sides each keep a spawn info of the player and each believe     *)
(* what they keep.  Their messages are RELIABLE and not ordered: they      *)
(* arrive in any order.  A message of one kind and class is sent again     *)
(* only when the last one has arrived, a bound on what is in flight.       *)
(* Two classes with the same skin count as one: a spawn info is its skin.  *)
(***************************************************************************)
EXTENDS Integers, Sequences, FiniteSets

CONSTANTS
    Skins,   \* what tells one spawn info from another
    Offers,  \* the lists of classes of the server's game modes, m_AvailableSpawns
    NoClass, \* m_bHasSpawnInfo is FALSE
    Garbage, \* a spawn info that was never set
    Nothing, \* no message is being handled
    MaxSent, \* bound: the messages on their way to the server when the player does more
    MaxOrders \* bound: the messages on their way when scripts order more of the client

ClassRequest(i) == [kind |-> "class", number |-> i]
SpawnRequest == [kind |-> "request"]
Spawned(c) == [kind |-> "spawn", skin |-> c]
ClassReply(b, c) == [kind |-> "classReply", ok |-> b, skin |-> c]
SpawnReply(b) == [kind |-> "spawnReply", ok |-> b]
SpawnOrder == [kind |-> "order"]
SpawnInfo(c) == [kind |-> "info", skin |-> c]
Spectate(b) == [kind |-> "spectate", on |-> b]
Restarting == [kind |-> "restart"]
InitGame(n) == [kind |-> "init", classes |-> n]

ToServer ==
    [kind : {"class"}, number : Int]
    \cup [kind : {"spawn"}, skin : Skins]
    \cup [kind : {"request"}]
ToClient ==
    [kind : {"classReply"}, ok : BOOLEAN, skin : Skins]
    \cup [kind : {"spawnReply"}, ok : BOOLEAN]
    \cup [kind : {"info"}, skin : Skins]
    \cup [kind : {"spectate"}, on : BOOLEAN]
    \cup [kind : {"init"}, classes : Nat]
    \cup [kind : {"order", "restart"}]

ASSUME ClassesAssumption ==
    /\ Offers \subseteq Seq(Skins)
    /\ {NoClass, Garbage} \cap Skins = {}
    /\ NoClass # Garbage
    /\ Nothing \notin ToServer

VARIABLES
    \* the client
    life,       \* m_bIsActive and m_bIsWasted
    spectating, \* m_bIsSpectating
    info,       \* m_SpawnInfo
    cleared,    \* m_bClearedToSpawn
    waiting,    \* m_bWaitingForSpawnRequestReply
    connected,  \* its game state is GAMESTATE_CONNECTED
    selected,   \* m_iSelectedClass, counted from 0
    classes,    \* m_iSpawnsAvailable of the client
    \* the network
    toServer,
    toClient,
    due,        \* the messages that were under way when the restart began, and are still
    \* the server
    running,    \* its game state is GAMESTATE_RUNNING
    offer,      \* m_AvailableSpawns, m_iSpawnsAvailable
    spawnInfo,  \* m_SpawnInfo of the CPlayer
    handling,   \* the message whose callbacks are under way
    \* history
    refused,    \* the last answer about a class was that he cannot have it
    lost,       \* a request to spawn came during a restart
    orderly,    \* no class was asked for while another request or a spawn was under way, and
                \* no script gave spawn info or a skin, spawned the player or made him spectate
    misled      \* InitGame came after the end of the game mode it speaks of

choice == <<selected, classes>>
client == <<life, spectating, info, cleared, waiting, connected, choice>>
server == <<running, offer, spawnInfo, handling>>
history == <<refused, lost, orderly, misled>>
vars == <<client, toServer, toClient, due, server, history>>

\* No class is ever none or garbage in a message or in what the client keeps.
TypeOK ==
    /\ life \in {"choosing", "active", "wasted"}
    /\ info \in Skins \cup {NoClass}
    /\ selected \in Int /\ classes \in Nat
    /\ offer \in Seq(Skins)
    /\ spawnInfo \in Skins \cup {NoClass, Garbage}
    /\ toServer \subseteq ToServer
    /\ toClient \subseteq ToClient
    /\ due \subseteq toServer \cup toClient
    /\ handling \in ToServer \cup {Nothing}
    /\ {spectating, cleared, waiting, connected, running} \subseteq BOOLEAN
    /\ {refused, lost, orderly, misled} \subseteq BOOLEAN

\* The client has joined.  The constructor of CPlayer sets no spawn info and
\* does not say so either.
Init ==
    /\ life = "choosing" /\ spectating = FALSE
    /\ info = NoClass
    /\ cleared = FALSE /\ waiting = FALSE /\ connected = FALSE
    /\ selected = 0 /\ classes = 0
    /\ running = TRUE /\ offer \in Offers
    /\ toServer = {} /\ toClient = {InitGame(Len(offer))} /\ due = {}
    /\ spawnInfo \in {NoClass, Garbage}
    /\ handling = Nothing
    /\ refused = FALSE /\ lost = FALSE /\ orderly = TRUE /\ misled = FALSE

-----------------------------------------------------------------------------
(***************************************************************************)
(* The client.  CLocalPlayer::Spawn does nothing without spawn info.       *)
(***************************************************************************)
Idle == handling = Nothing

Calm == Cardinality(toServer) < MaxSent

Quiet == Cardinality(toServer \cup toClient) < MaxOrders

ClassUnderWay ==
    \/ \E m \in toServer : m.kind = "class"
    \/ \E m \in toClient : m.kind = "classReply"
    \/ ~Idle /\ handling.kind = "class"

SpawnUnderWay == waiting \/ \E m \in toServer : m.kind = "spawn"

\* Mutant: he may go on with the last class until the answer comes.
AskForClassCleared(i) ==
    /\ ClassRequest(i) \notin toServer
    /\ selected' = i
    /\ toServer' = toServer \cup {ClassRequest(i)}
    /\ orderly' = (orderly /\ ~ClassUnderWay /\ ~SpawnUnderWay)
    /\ refused' = FALSE
    /\ UNCHANGED <<cleared, info, lost>>

\* RequestClass and m_bClearedToSpawn
AskForClass(i) ==
    /\ ClassRequest(i) \notin toServer
    /\ selected' = i
    /\ toServer' = toServer \cup {ClassRequest(i)}
    /\ cleared' = FALSE
    /\ orderly' = (orderly /\ ~ClassUnderWay /\ ~SpawnUnderWay)
    /\ refused' = FALSE
    /\ UNCHANGED <<info, lost>>

Spawning == IF info = NoClass THEN {} ELSE {Spawned(info)}

Spawn ==
    /\ toServer' = toServer \cup Spawning
    /\ IF info = NoClass
       THEN UNCHANGED <<life, waiting>>
       ELSE life' = "active" /\ waiting' = FALSE

\* ProcessClassSelection, the arrow keys: m_iSelectedClass goes round what the
\* client takes for the number of classes.
LeftOf == IF selected = 0 THEN classes - 1 ELSE selected - 1
RightOf == IF selected = classes - 1 THEN 0 ELSE selected + 1

ChooseClass ==
    /\ Calm
    /\ life = "choosing" /\ ~spectating /\ connected /\ cleared
    /\ AskForClass(LeftOf) \/ AskForClass(RightOf)
    /\ UNCHANGED <<life, spectating, waiting, connected, classes, toClient, due, server, misled>>

\* ProcessClassSelection, SHIFT
PressShift ==
    /\ Calm
    /\ life = "choosing" /\ ~spectating /\ connected /\ cleared /\ ~waiting
    /\ SpawnRequest \notin toServer
    /\ waiting' = TRUE
    /\ toServer' = toServer \cup {SpawnRequest}
    /\ UNCHANGED <<life, spectating, info, cleared, connected, choice, toClient, due, server,
                   history>>

\* Process, HANDLE I'M A DEAD LOCAL PLAYER PED: a player who dies while he
\* spectates spawns first.
Die ==
    /\ life = "active"
    /\ life' = "wasted"
    /\ IF spectating
       THEN toServer' = toServer \cup Spawning /\ waiting' = FALSE
       ELSE UNCHANGED <<toServer, waiting>>
    /\ spectating' = FALSE
    /\ UNCHANGED <<info, cleared, connected, choice, toClient, due, server, history>>

\* Process, HANDLE NEEDS TO RESPAWN
Respawn ==
    /\ life = "wasted" /\ ~spectating
    /\ cleared /\ connected
    /\ Spawn
    /\ UNCHANGED <<spectating, info, cleared, connected, choice, toClient, due, server, history>>

\* ... or he has pressed F4, or may not respawn
ReturnToSelection ==
    /\ Calm
    /\ life = "wasted" /\ ~spectating
    /\ life' = "choosing"
    /\ AskForClass(selected)
    /\ UNCHANGED <<spectating, waiting, connected, classes, toClient, due, server, misled>>

Hear(m) == m \in toClient /\ toClient' = toClient \ {m} /\ due' = due \ {m}

HearClassReply(b, c) ==
    /\ Hear(ClassReply(b, c))
    /\ IF b
       THEN info' = c /\ cleared' = TRUE
       ELSE UNCHANGED <<info, cleared>>
    /\ refused' = ~b
    /\ UNCHANGED <<life, spectating, waiting, connected, choice, toServer, server, lost, orderly,
                   misled>>

HearSpawnReply(b) ==
    /\ Hear(SpawnReply(b))
    /\ IF b /\ waiting
       THEN Spawn
       ELSE waiting' = FALSE /\ UNCHANGED <<life, toServer>>
    /\ UNCHANGED <<spectating, info, cleared, connected, choice, server, history>>

HearSpawnOrder ==
    /\ Hear(SpawnOrder)
    /\ Spawn
    /\ UNCHANGED <<spectating, info, cleared, connected, choice, server, history>>

HearSpawnInfo(c) ==
    /\ Hear(SpawnInfo(c))
    /\ info' = c
    /\ UNCHANGED <<life, spectating, cleared, waiting, connected, choice, toServer, server, history>>

\* ToggleSpectating
HearSpectate(b) ==
    /\ Hear(Spectate(b))
    /\ spectating' = b
    /\ IF spectating /\ ~b THEN Spawn ELSE UNCHANGED <<life, waiting, toServer>>
    /\ UNCHANGED <<info, cleared, connected, choice, server, history>>

\* Mutant: the class selected last stays.
HearRestartingSelected ==
    /\ Hear(Restarting)
    /\ connected' = FALSE
    /\ spectating' = FALSE
    /\ IF spectating /\ info # NoClass
       THEN life' = "choosing" /\ waiting' = FALSE /\ toServer' = toServer \cup Spawning
       ELSE /\ life' = IF life = "active" THEN "choosing" ELSE life
            /\ UNCHANGED <<waiting, toServer>>
    /\ misled' = FALSE
    /\ UNCHANGED <<info, cleared, choice, server, refused, lost, orderly>>

\* ShutdownForGameModeRestart of the client: one who spectates spawns and is
\* deactivated with the others.  DeactivateAll selects the first class.
HearRestarting ==
    /\ Hear(Restarting)
    /\ connected' = FALSE
    /\ spectating' = FALSE
    /\ selected' = 0
    /\ IF spectating /\ info # NoClass
       THEN life' = "choosing" /\ waiting' = FALSE /\ toServer' = toServer \cup Spawning
       ELSE /\ life' = IF life = "active" THEN "choosing" ELSE life
            /\ UNCHANGED <<waiting, toServer>>
    /\ misled' = FALSE
    /\ UNCHANGED <<info, cleared, classes, server, refused, lost, orderly>>

HearInitGame(n) ==
    /\ Hear(InitGame(n))
    /\ connected' = TRUE
    /\ classes' = n
    /\ AskForClass(selected)
    /\ misled' = (misled \/ (~running /\ Restarting \notin toClient))
    /\ UNCHANGED <<life, spectating, waiting, server>>

-----------------------------------------------------------------------------
(***************************************************************************)
(* The server.  A handler sends its answer when the scripts have returned. *)
(* Whatever comes during a restart is ignored.                             *)
(***************************************************************************)
Leaves(m) == m \in toServer /\ toServer' = toServer \ {m} /\ due' = due \ {m}

Arrives(m) == Idle /\ Leaves(m)

Ignore(m) ==
    /\ Arrives(m)
    /\ ~running
    /\ lost' = (lost \/ m = SpawnRequest)
    /\ UNCHANGED <<client, toClient, server, refused, orderly, misled>>

Numbers == 0 .. Len(offer) - 1

\* Mutant: the class is not taken over.
BeginClassLate(i) ==
    /\ Arrives(ClassRequest(i))
    /\ running /\ i \in Numbers
    /\ handling' = ClassRequest(i)
    /\ UNCHANGED <<client, toClient, running, offer, spawnInfo, history>>

\* RequestClass
BeginClass(i) ==
    /\ Arrives(ClassRequest(i))
    /\ running /\ i \in Numbers
    /\ spawnInfo' = offer[i + 1]
    /\ handling' = ClassRequest(i)
    /\ UNCHANGED <<client, toClient, running, offer, history>>

\* ... of a class the game mode does not have: there is no answer.
IgnoreClass(i) ==
    /\ Arrives(ClassRequest(i))
    /\ running /\ i \notin Numbers
    /\ UNCHANGED <<client, toClient, server, history>>

AnswerClass(b) ==
    /\ ~Idle /\ handling.kind = "class"
    /\ ClassReply(b, spawnInfo) \notin toClient
    /\ toClient' = toClient \cup {ClassReply(b, spawnInfo)}
    /\ handling' = Nothing
    /\ UNCHANGED <<client, toServer, due, running, offer, spawnInfo, history>>

\* RequestSpawn
BeginRequest ==
    /\ Arrives(SpawnRequest)
    /\ running
    /\ handling' = SpawnRequest
    /\ UNCHANGED <<client, toClient, running, offer, spawnInfo, history>>

AnswerRequest(b) ==
    /\ handling = SpawnRequest
    /\ SpawnReply(b) \notin toClient
    /\ toClient' = toClient \cup {SpawnReply(b)}
    /\ handling' = Nothing
    /\ UNCHANGED <<client, toServer, due, running, offer, spawnInfo, history>>

\* Spawn, up to OnPlayerSpawn.  A spawn info that was never set counts if its
\* skin happens to be a number of one.
BeginSpawn(c) ==
    /\ Arrives(Spawned(c))
    /\ running /\ spawnInfo # NoClass
    /\ handling' = Spawned(c)
    /\ UNCHANGED <<client, toClient, running, offer, spawnInfo, history>>

IgnoreSpawn(c) ==
    /\ Arrives(Spawned(c))
    /\ running /\ spawnInfo \in {NoClass, Garbage}
    /\ UNCHANGED <<client, toClient, server, history>>

\* CPlayer::Spawn after OnPlayerSpawn tells everybody of the class.
EndSpawn ==
    /\ ~Idle /\ handling.kind = "spawn"
    /\ handling' = Nothing
    /\ UNCHANGED <<client, toServer, toClient, due, running, offer, spawnInfo, history>>

\* The news of a spawn, RELIABLE_SEQUENCED, is discarded if a later packet
\* of the client overtakes it.
Discard(c) ==
    /\ Leaves(Spawned(c))
    /\ UNCHANGED <<client, toClient, server, history>>

(***************************************************************************)
(* Natives, from callbacks of these handlers or of anything else.          *)
(***************************************************************************)
Order(m) ==
    /\ Quiet /\ m \notin toClient
    /\ toClient' = toClient \cup {m}
    /\ orderly' = FALSE
    /\ UNCHANGED <<client, toServer, due, running, offer, handling, refused, lost, misled>>

SetSpawnInfo(c) == Order(SpawnInfo(c)) /\ spawnInfo' = c

SpawnPlayer == Order(SpawnOrder) /\ UNCHANGED spawnInfo

TogglePlayerSpectating(b) == Order(Spectate(b)) /\ UNCHANGED spawnInfo

\* The skin alone, in the server's copy of the spawn info: the client changes
\* its ped and keeps the spawn info it has.
SetPlayerSkin(c) ==
    /\ Quiet /\ spawnInfo # NoClass
    /\ spawnInfo' = c
    /\ orderly' = FALSE
    /\ UNCHANGED <<client, toServer, toClient, due, running, offer, handling, refused, lost,
                   misled>>

(***************************************************************************)
(* A restart.  The next game mode starts after twelve seconds, in which    *)
(* everything arrives that was under way: RakNet gives a connection up     *)
(* that has not acknowledged a reliable message for ten.  What is sent     *)
(* meanwhile may arrive later.                                             *)
(***************************************************************************)
Shutdown ==
    /\ Idle /\ running
    /\ Restarting \notin toClient
    /\ running' = FALSE
    /\ spawnInfo' = NoClass
    /\ toClient' = toClient \cup {Restarting}
    /\ due' = toServer \cup toClient'
    /\ UNCHANGED <<client, toServer, offer, handling, history>>

ReInit ==
    /\ ~running
    /\ due = {}
    /\ running' = TRUE
    /\ offer' \in Offers
    /\ toClient' = toClient \cup {InitGame(Len(offer'))}
    /\ UNCHANGED <<client, toServer, due, spawnInfo, handling, history>>

-----------------------------------------------------------------------------
Player == PressShift \/ Die \/ Respawn \/ ChooseClass \/ ReturnToSelection

Hearing ==
    \/ HearSpawnOrder \/ HearRestarting
    \/ \E n \in {Len(o) : o \in Offers} : HearInitGame(n)
    \/ \E b \in BOOLEAN : HearSpawnReply(b) \/ HearSpectate(b)
    \/ \E c \in Skins : HearSpawnInfo(c)
    \/ \E b \in BOOLEAN, c \in Skins : HearClassReply(b, c)

Handling ==
    \/ \E m \in toServer : Ignore(m)
    \/ \E m \in toServer : m.kind = "class" /\ (BeginClass(m.number) \/ IgnoreClass(m.number))
    \/ \E c \in Skins : BeginSpawn(c) \/ IgnoreSpawn(c) \/ Discard(c)
    \/ \E b \in BOOLEAN : AnswerClass(b) \/ AnswerRequest(b)
    \/ BeginRequest \/ EndSpawn

Scripts ==
    \/ SpawnPlayer
    \/ \E c \in Skins : SetSpawnInfo(c) \/ SetPlayerSkin(c)
    \/ \E b \in BOOLEAN : TogglePlayerSpectating(b)

Next == Player \/ Hearing \/ Handling \/ Scripts \/ Shutdown \/ ReInit

Spec == Init /\ [][Next]_vars

-----------------------------------------------------------------------------
(***************************************************************************)
(* When the server tells everybody with which skin a player has spawned,   *)
(* it is the one the player has spawned with himself, although the server  *)
(* takes over a class before the scripts are asked and the client only     *)
(* when they have agreed.  That needs scripts that leave the spawning and  *)
(* the skin to the player, and a player who asks for no class while        *)
(* another request or his spawning is under way.                           *)
(***************************************************************************)
AnnouncesSpawn == ~Idle /\ handling.kind = "spawn"

ClassAgrees == AnnouncesSpawn /\ orderly => spawnInfo = handling.skin

(***************************************************************************)
(* Nobody is stuck in the class selection.  While a client must not select *)
(* an answer about a class is on its way, or a restart is, unless scripts  *)
(* have refused the last class, or the game mode has none.  The class      *)
(* selected in one game mode is not asked for in the next that may have    *)
(* fewer, unless InitGame was overtaken by the next restart: then he may   *)
(* ask for a class that is not there, and nobody answers.  While a client  *)
(* waits for the answer to SHIFT that is on its way, unless the request    *)
(* came in the middle of a restart: then the client waits for ever.        *)
(***************************************************************************)
Starting == \E m \in toClient : m.kind = "init"

RestartUnderWay == ~running \/ Restarting \in toClient \/ Starting

AnswerUnderWay ==
    \/ SpawnRequest \in toServer
    \/ \E b \in BOOLEAN : SpawnReply(b) \in toClient
    \/ handling = SpawnRequest

NobodyStuck ==
    /\ ~cleared /\ ~refused => ClassUnderWay \/ RestartUnderWay \/ offer = <<>> \/ misled
    /\ waiting => AnswerUnderWay \/ lost

=============================================================================
