# A verification project for the SA:MP server

This directory models the core of the San Andreas multiplayer server in
`src/server`, with the part of RakNet it depends on (`src/raknet`), in TLA+. The
models are checked with TLC on small instances, and their safety properties are
proved with TLAPS for every value of the constants.

## 1. The system

The server runs two threads that matter here. RakNet's **network thread** accepts
connections, runs the reliability layer and answers queries. The **server's
thread** runs the loop of `main` (`main.cpp:395`): `CNetGame::Process` empties the
queue of messages RakNet has received, calls the handler of each, then processes
players, vehicles, objects and timers, and every one of these may call scripts.
Scripts are AMX programs: one **game mode** and up to sixteen **filter scripts**;
they call back into the server through natives, from inside the callbacks. The
call stack of the server's thread is therefore a source of interleavings as real
as the second thread: whatever a function has read before a callback may have
changed after it.

| component | state | operations | talks to |
|---|---|---|---|
| player pool (`playerpool.cpp`) | slot states, players, names, admin flags, counters | New, Delete, DeactivateAll, Process, InitPlayersForPlayer | RakNet indices, filter scripts, game mode, object pool |
| RPC handlers (`netrpc.cpp`) | none of their own | ClientJoin, Spawn, Death, EnterVehicle, Chat, ... | all pools, both kinds of script |
| net game (`netgame.cpp`, `main.cpp`) | game state, restart clock, pools, current mode | Init, Process, UpdateNetwork, ShutdownForGameModeRestart, ReInitWhenRestarting, KickPlayer | everything |
| object pool (`objectpool.cpp`, `object.cpp`) | global slots, personal slots, personal flag, movement | New, New for a player, Delete, DeleteForPlayer, MoveTo, Stop, Process | scripts, player pool |
| script timers (`scrtimers.cpp`) | map from timer id to timer | New, NewEx, Kill, Delete, DeleteForMode, Process | the AMXs |
| filter scripts (`filterscripts.cpp`) | sixteen AMX slots, names, a count | Load, Unload, Remove, the callbacks | timers, players, console |
| game mode (`gamemodes.cpp`, `netgame.cpp:245-326`) | one AMX, its sleep; the next file, the place in the configured list, a repeat count | Load, Unload, Frame, the callbacks, SetNextScriptFile | filter scripts, timers, console |
| natives (`scrcustom.cpp`) | none of their own | some 300 natives | all pools |
| player (`player.cpp`) | state, vehicle, checkpoints, sync data, weapons | SetState, HandleDeath, Spawn, UpdatePosition, EnterVehicle, ... | scripts, vehicle pool |
| vehicle pool (`vehicle.cpp`, `vehiclepool.cpp`) | slots, driver, health, trailer, respawn clocks | New, Delete, Update, Process, Respawn | players, scripts |
| pickups, menus, text draws, gang zones | slots, and what each player is shown | New, Delete, show, hide, InitForPlayer | players |
| console, rcon, query (`console.cpp`, `query.cpp`) | variables, the rcon user, flood control | Execute, ProcessQuery | net game, from both threads |
| plugins, announcing, anti-cheat, signer | libraries, HTTP requests | ticks, requests | outside world |
| RakNet (`src/raknet`, vendored) | remoteSystemList, packet queue, commands | connect, receive, close, Kick, RPC | the network |
| client: local player (`localplayer.cpp`) | active, wasted, spectating, its spawn info, whether it may spawn and waits for an answer | select a class, spawn, die, spectate, send syncs | the server's handlers, the game |
| client: remote players (`remoteplayer.cpp`) | the state and the ped of each other player | apply the calls and syncs about them | the server, the game |
| client: the rest (`src/saco`) | connection state, its other pools, what is drawn | connect, join, apply the server's RPCs | the server, the game |

### What is hard in it

* **Two lifetimes under one number.** RakNet reuses the index of a connection as
  soon as it has closed; the server's player slot of the same number lives until
  the server's thread reads of it. Names, administrator rights, objects and the
  scripts' own tables are all kept under that number.
* **Scripts run in the middle.** New, Delete, Process and Unload call scripts
  half-way through, and a script may kick, destroy, unload, restart.
* **A restart has three phases**, with passes of the main loop between the second
  and the third in which most pools are NULL pointers and players come and go.
* **Tables that must agree**: slot states and pointers, the personal flag of an
  object id and the slots of all players, iterators and the map under them.
* **Clocks**: respawn delays, timers, restart wait; late and early events.
* **Ordering on the wire**: RELIABLE messages may overtake each other and the
  ordered ones, and a RELIABLE_SEQUENCED one that is overtaken is discarded.
* **State kept twice**: a player's class, life and place are kept by his client, by
  the server and by every other client, each of which believes what it keeps.
* **One `strtok` for all**: the configuration line, console commands and the list of
  game modes are cut up with the same hidden state, from inside each other.

`PROJECT.json` lists the hazards at their lines, with the properties that cover it or
the reason why none does yet.

## 2. The modules

| module | models | kind |
|---|---|---|
| `ObjectOwnership` | what the object pool promises to scripts: who holds each id | abstract specification |
| `ObjectPool` | `objectpool.cpp`, the movement in `object.cpp`, the natives on objects | component |
| `ObjectPoolProofs` | the invariants and the refinement, for every number of players and ids | proofs |
| `PlayerSessions` | connections, the packet queue, player slots, the callbacks of joins and leaves, kicks, and the restart of the game mode | composition of RakNet's indices, player pool, net game and scripts |
| `PlayerSessionsProofs` | its safety properties, for every number of slots, connections, nicknames, nested kicks and restarts | proofs |
| `ScriptTimers` | `scrtimers.cpp`, with the unloading of scripts | component |
| `ScriptTimersProofs` | its safety properties, for every number of timers, any filter scripts, intervals and length of a pass | proofs |
| `Vehicles` | `vehicle.cpp`, `vehiclepool.cpp`, the packets and natives that reach them | component |
| `VehiclesProofs` | its safety properties, for every number of players and vehicles | proofs |
| `FilterScripts` | `filterscripts.cpp` and the console commands on filter scripts | component |
| `GameModes` | `gamemodes.cpp`, the choice of the next mode, the main loop's start and end of a mode, around `FilterScripts`, which it EXTENDS | composition of game mode, filter scripts, console and main loop |
| `GameModesProofs` | the safety properties of both, for any scripts, modes, configuration and number of slots | proofs |
| `ClassSelection` | class selection, spawn, death and spectating: a client, the server's handlers, scripts and restarts, with messages between | composition of client and server |
| `ClassSelectionProofs` | its two properties, for any skins and any game modes' lists of them | proofs |
| `PlayerSync` | a player's life: his client, RakNet's sequencing, the server's `CPlayer`, another client's `CRemotePlayer` | composition of two clients and the server |
| `PlayerSyncProofs` | that the dead stay dead, for every number of lives and packets | proofs |
| `ProofLemmas` | what several proofs need: the least of a set of natural numbers, and call stacks pushed and popped | lemmas |
| `MCObjectPool`, `MCPlayerSessions`, `MCScriptTimers`, `MCVehicles`, `MCGameModes`, `MCClassSelection` | the instances TLC checks | |

### ObjectPool

The variables are the five arrays of `CObjectPool`, the occupied slots of the
player pool, and the pass of `Process` under way: the set of (player, id) entries
its two loops have still to visit. An object is abstracted to the number of passes
after which it reaches its target, 0 when it is at rest; a speed of zero or below,
with which it never would, is left out. Each native is one action, with the
function of the pool it calls: `CreateObject` is `n_CreateObject` and `New`, and so
on; `DeleteForPlayer` is written for a set of ids, because `CPlayerPool::Delete`
calls it for all 255 in a loop no callback interrupts. `ProcessEntry` visits the next
entry that is live *now*, as the loops do, and when an object arrives the callback
starts: `inCallback` is then TRUE, and every native and `Leave` (a `Kick`) may
happen before `CallbackReturns`. Actions of the network (`Join`) and
`GameModeRestart` happen between passes only. Creating an object in a full pool
changes nothing and is therefore no step. Scripts name players by ids in range:
`n_CreatePlayerObject` tests `(BYTE)params[1]` (`scrcustom.cpp:3358`) and then uses
`(int)params[1]` (3370), so that a number above 255 would be tested as one player and
used as another; below it the conversion changes nothing, and is the identity here.

### PlayerSessions

Two processes. The **network thread** is `Connect`, `Arrive`, `Goodbye`,
`NoticeKick` and `Close`, over `remote` (the active connection at each index of
remoteSystemList), `link` (the connect mode) and `queue`. A closing connection
gives back its index and queues the news of its end; the messages of one
connection arrive in any order, and only while it is active. A client may join as often
as it likes, under any nickname: `ClientJoin` (`netrpc.cpp:38-120`) does not ask whether
the sender plays already, so that a second join under a free nickname runs
`CPlayerPool::New` over his own occupied slot, and one under a nickname in use, his own
included, has him kicked.

The **server's thread** is a call stack. A frame names the call (`new`, `delete`,
`deactivate`, `exit`, `init`, `rejoin`), the player, and the script whose callback
it waits for: "gm" is the game mode, and "fs" any one of the filter scripts. An action
runs from one callback to the next: `BeginNew` is `CPlayerPool::New` up to
`OnPlayerConnect` of the filter scripts, `NewReturns` continues with the game mode
or returns. While a frame waits, `KickPlayer` may push a `delete`, and
`RequestRestart` may set bGameModeFinished. `HandleJoin`, `HandleGone` and
`HandleLogin` are the handlers `UpdateNetwork` calls; `World` is the rest of
`CNetGame::Process`, `Check` the test of bGameModeFinished in `main`. A restart is
`DeactivateFrom` (all players are told to the scripts as gone), `ShutdownDone` (the
pools are deleted), some passes of `World`, then `InitReturns` and `RejoinFrom`.
`crashed` is TRUE when the code follows a NULL pointer: `Delete` between the halves
of a restart (playerpool.cpp:132), `DeactivateAll` without a game mode
(playerpool.cpp:324); nothing happens afterwards.

`told` is history: for each script and player the calls of OnPlayerConnect less
those of OnPlayerDisconnect. The filter scripts are called one after the other until one
returns 0 (`filterscripts.cpp:313`, `337`); "fs" is any one of them, and each call comes to
it or ends before it (`TellFilterScripts`). Three more history variables name what the
properties except: `meddled`, a script has kicked from inside a callback; `hushed`, a call
has ended before it came to "fs"; `rejoined`, the ids somebody joined again with.
Nicknames change by joining again only: `n_SetPlayerName` (`scrcustom.cpp:672`), which
looks for the name among the slots likewise, is left out.

### ScriptTimers

The map of timers is a function on ids, `itor` and `itorTmp` are the two iterators
of `Process`, and an action is one turn of its loop up to the callback (`NotDue`,
`Reap`, `Fire`) or from the callback on (`CallbackReturns`). Between, scripts set
and kill timers and unload and load filter scripts; the game mode is only unloaded
between passes. `corrupt` is TRUE after an iterator to an erased node has been
used, and nothing is claimed then. `since` is history, for `NeverEarly`. A map
iterator is the id it points to, and incrementing it finds the next id then in the
map, as std::map does. The overflow of the 32-bit times and of the timer ids is
left out: the ids are bounded by `MaxTimers`.

### Vehicles

A vehicle is the record of the members of `CVehicle` that decide its life: the last
driver, whether it is dead, whether the death was announced, whether it was ever
driven, its respawn delay and the ages of two time stamps. Ages count in units of
five seconds, the shortest limit in the code, and stop at `Longest`. A limit tested with
">=" is reached with the unit it names (ten seconds at age 2), one tested with ">" with
the unit after it (more than ten seconds at age 3), as if all packets and passes came on
the unit; the respawn delay -1, which as a DWORD of milliseconds is "never", is any delay above
`Longest`. `m_dwLastSeenOccupiedTick` is not set by the constructor: it starts as
`Unset`, which a comparison may take for any age. `quiet` and `mourned` are history,
for the properties.

`Tick` lets a unit pass, between two passes of the main loop. The handlers of a
player's packets are `StoreInCarFullSyncData` (with the `CVehicle::Update` it makes,
and which is ignored for five seconds after a respawn), `StoreTrailerFullSyncData`,
`StorePassengerFullSyncData`, `OnFoot`, `ChangeState` and `VehicleDestroyed`. Their
own script callbacks come after the vehicle has been updated, so that what a script
does there is taken to follow the packet. The kick of a player who names the vehicle
0xFFFF and the restart of the game mode add nothing to `Disconnect` and
`DestroyVehicle`.

`StartPass` and `ProcessVehicle` are `CVehiclePool::Process`, one vehicle at a time:
`IdleRespawn` and `LeaveAlone` on the idle test (which one pass in twenty makes
instead of the test for death), `NotifyDeath`, and `DeadRespawn` (one in twenty
again). The functions run from one callback to the next, as in PlayerSessions: a
frame of `calls` names the callback under way and the vehicle whose member function
waits for it: `None` once a script has destroyed that in this very callback, `Lost` once
one has in a callback nested inside this one. Natives run between passes and in the callbacks the constants
`RespawnIn` and `DestroyIn` allow; `DestroyVehicle` takes the vehicle from under the
waiting frames, and `corrupt` becomes TRUE when one goes on with it. Positions,
parts, number plates and virtual worlds, and the record of which trailer is behind
which cab, which only natives read, are left out.

### FilterScripts

`prog`, `name` and `count` are the three members of `CFilterScripts`; an empty slot
is `Nobody` in both arrays, and `Blank` is the zeroed AMX a failed load leaves
behind. `m_szFilterScriptName` is not set by the constructor: it is taken to match no
name. Everything nests, so `stack` holds the unfinished calls, innermost first, and an
action again runs from one callback to the next. `LoadNext` is a turn of
`LoadAllFilterscripts`; `LoadFs`, `UnloadFs` and `ReloadFs` are the console commands,
from the operator between the passes or from any script that is being called;
`StartEvent` and `EventReturns` are the loops that call a function of every script,
reading each slot when they get there; `LastReturns` is a turn of
`UnloadFilterScripts`. `pending` is what `strtok` still remembers of the configured
line, and every command empties it, because the console cuts its own line with
`strtok`. `fate` says how the process ended: stopped or exited in order, through a
NULL pointer (`"null"`: a function is looked for in a blank AMX), or in freed memory
(`"freed"`: a script unloads itself or one that is still being called).

`LoadFilterScriptFromMemory`, which only plugins reach, is left out. So is the loop
over the players in `RemoveFilterScript` (filterscripts.cpp:213): it runs up to
`m_iPlayerPoolCount`, which nothing raises from -1.

### GameModes

Around the filter scripts, the game mode: `amx` is `m_pGameMode` and the state of its
AMX (`"raw"` as the constructor of CGameMode leaves it, `"zero"` after a failed load),
`file`, `index` and `repeat` are what `SetNextScriptFile` keeps, `finished` is
bGameModeFinished, `gameState` the phase of the server. `GameModeExit`, `Gmx` and
`ChangeMode` only order; `MainCheck` sees the flag, `UnloadMode` calls OnGameModeExit
in the mode and then in the filter scripts, `ShutdownDone` leaves the server without
a mode, `LoadMode` starts the next one. What is undefined in the code, looking for a
function in an AMX that was never set, is either outcome (`UnloadMode`).

The parts of a restart that concern players are in `PlayerSessions`, which does not
model which file is played; `MainCheck` stands for them with one outcome in which a
restart during a restart calls through the NULL game mode, which it does when a player
is there (`netgame.cpp`, `playerpool.cpp:322`).

What reading and checking showed of the code:

* The repeat counts of `gamemode0 = name count` are never heeded. `strtok` cuts the
  count off with the name, the counter starts at 0, is decremented to -1 and is from
  then on "not 0": a mode that ends itself with GameModeExit is played again for ever.
  `gmx` and `changemode` set the counter to 0, so that the next GameModeExit, once,
  goes on to the next mode of the list. The comments promise otherwise: `game_modes_rotation`
  refutes `RotatesAsConfigured`, and `ModeFollowsItself` is proved (below).
* `changemode` copies the name before it tests whether the file is there
  (`console.cpp:202`, `netgame.cpp:316`), and `gmx` advances the index too. A refused
  order changes nothing at once, but its file is what the next restart loads, unless
  the mode ends itself before.
* A command or GameModeExit in OnFilterScriptInit during `LoadAllFilterscripts` takes
  the rest of the configured line away.
* An order given inside OnGameModeExit keeps its file and loses its flag.

### ClassSelection

The client's part is `localplayer.cpp` with the RPCs of `netrpc.cpp` and
`scriptrpc.cpp` that reach it; the server's is `RequestClass`, `RequestSpawn` and
`Spawn` of `netrpc.cpp`, `CPlayer::Spawn`, and what a restart does to `m_SpawnInfo`.
A spawn info is its skin (`Skins`), and a game mode has a list of them (`Offers`), of
which a player asks for one by its number. Messages between the two are sets, `toServer`
and `toClient`, because they are RELIABLE and not ordered. A handler is two actions, up to
the script callback and from it on, with the natives `SetSpawnInfo`, `SetPlayerSkin`,
`SpawnPlayer` and `TogglePlayerSpectating` between. `SetPlayerSkin` (`scrcustom.cpp:717`)
changes the server's spawn info only: the client changes its ped and spawns next time with
what it had (`scriptrpc.cpp:134`). `Spawn` of the client is RELIABLE_SEQUENCED on the
channel of the syncs, so that it may be discarded (`Discard`). `m_bHasSpawnInfo` is not
set by the constructor of CPlayer: a new player has no spawn info or `Garbage`, and a
Spawn with `Garbage` may go either way.

The client goes round its classes with the arrow keys (`LeftOf`, `RightOf`), between 0 and
the number InitGame told it, and asks again for the one it selected last when it comes
back. The server ignores, without an answer, a class the game mode does not have
(`netrpc.cpp:337-338`, `IgnoreClass`). A restart can bring a mode with fewer classes, or
with none; what keeps clients from waiting for ever is that the client forgets its
selection when it hears of the restart (`DeactivateAll`, `src/saco/net/playerpool.cpp:180-183`).
The mutant of `NobodyStuck` leaves that out. With a mode that has no classes the client does
wait, and the property excepts it.

A restart ends when everything that was under way at its beginning has arrived (`due`):
RakNet gives a connection up that has not acknowledged a reliable message for ten seconds,
and the wait is twelve. What is sent during the wait may cross the start of the next mode.

The history variables name the conditions under which the properties hold, and each
is there because TLC showed what happens without it:

* `refused`: a script that answers 0 in OnPlayerRequestClass leaves the client unable
  to select any class, since `m_bClearedToSpawn` stays FALSE until another answer.
* `lost`: a request to spawn that comes during a restart is ignored
  (`netrpc.cpp:373`) and the client waits for ever; SHIFT does nothing any more.
* `misled`: InitGame is overtaken by the news of the restart after it. The client then takes
  the old mode's number of classes for that of the next, may ask for one that is not there,
  and nobody answers.
* `orderly` is TRUE as long as no class is asked for while another request or a spawn is
  under way, and no script uses one of the natives above. The server takes a class over
  before it asks the scripts, the client after the answer; the natives' messages are not
  ordered with the answers, and `SetPlayerSkin` tells the client's spawn info nothing.

### PlayerSync

`up` is the sequence of the packets of one player on channel 1, in the order they
were sent; what arrives makes the older ones worthless (`Arrives`), what is not
reliable may be lost (`Lose`), and the reliable ones may not. The spectator's sync is
not sequenced and is `watchUp`. `state` and `update` are `m_byteState` and
`m_byteUpdateFromNetwork` of the server's `CPlayer`. What goes on to the other client
is `told`, the calls about spawns, deaths and spectating, a bag from which any may come
next (they are RELIABLE, and overtake each other); `doors`, enter and exit, which are ordered
among each other; and `syncDown`, the newest sync, of which older ones are discarded when they
come after it. `seen`, `ped` and `anims` are its `CRemotePlayer`.
Every packet carries the number of the life it was sent in, which the code's do not:
it is history. So are `announced`, the life the server announced last, and `spoilt`: after
the last spawn the other client heard of came a Death of a player who lives or a
WatchUpdate of one who does not watch, or that spawn failed. `HearSpawn` has the two failing
paths of `CRemotePlayer::Spawn` (`remoteplayer.cpp:930`, `954`); in the second the old ped
has been deleted and its pointer stays (`"freed"`).

`SeenAsPlayed` says where the player ends up on the server and at the other client in all
cases, and that a living ped is there in all but three: RakNet discarded the news of his
spawn because a later sync overtook it (`announced < lives`), a Death or WatchUpdate of an
earlier life came after the spawn of the present one, or the spawn failed there. Nothing in
the code repairs these before the next spawn (`PROJECT.json` lists the lines): the other
client then gets syncs of a player without a living ped. The exceptions are exact: the run is
violated when either of the first two is struck out of the property.

Trailer updates, which are never relayed, aiming and weapon updates, checkpoints, restarts
and scripts that kick in a callback are left out.

## 3. The runs

| run | instance | shows |
|---|---|---|
| `object_pool` | 2 players, ids 0..2 of which 1 and 2 are handed out, moves of up to 2 passes | the tables agree, ids have one use, moves end, ObjectOwnership is implemented |
| `sessions_full` | 2 slots, 2 connections with 2 messages each, 2 nicknames, kicks in every callback and from commands, nesting 2, 2 restarts | slots and connections, administrators, nicknames, nobody's slot taken over, and what the scripts are told |
| `sessions_live` | 2 slots, 2 connections with 1 message each and one nickname, kicks in every callback, 1 restart | slots are freed, restarts end |
| `sessions_restart` | 1 slot, 1 connection, no kick | **violation**: leaving during a restart ends the server |
| `timers` | game mode and a filter script, 3 timers, intervals 1 and 3, passes of 1 or 2 | timers go with their scripts, none fires early, every timer fires and every killed one goes |
| `timers_unload` | the same with interval 1 | **violation**: unloading from a callback erases the node under the iterator |
| `vehicles` | 2 players, 1 vehicle and the id of another that only packets name, delays of 2 and 3 units, respawns in every callback but the filter scripts' OnVehicleDeath, destruction in the game mode's OnVehicleSpawn, nesting 2 | clocks are set before they are read, respawns are ten seconds apart, deaths are told in turn, no vehicle driven or towed is put back as idle, none is used after its destruction but in nested callbacks, the dead are put back |
| `vehicles_passenger` | 2 players, 1 vehicle, no natives in callbacks | **violation**: a passenger does not keep a vehicle |
| `game_modes` | 2 filter scripts and a broken one, 3 slots, one script configured twice; 2 configured modes, a broken and a missing one; nesting 3 | names go with programs, no script is there twice, the configured ones are there, what is played next is what was ordered |
| `game_modes_rotation` | 1 filter script, 1 slot, 2 configured modes, a broken and a missing one; nesting 2 | **violation**: a mode that ends itself is followed by itself for ever |
| `class_selection` | 2 skins, game modes with two classes, one or none, one message to the server when the player does more, one altogether when scripts order more, any number of restarts | client and server spawn the same skin, nobody waits for an answer that is not coming, with the exceptions above |
| `player_sync` | 2 lives, 2 packets and calls on their way, on foot and driving | no packet of an old life brings a player back; in the end the other client shows what he plays, with the exceptions above |

Why the bounds are enough. Two object ids and two players give every relation an id
can have to a player and to the server (free, global, mine, his, shared), and full
tables for each. Two connections on one slot are a slot and its successor, which is
what index reuse is about; two messages of each are two joins, under one nickname or two, or
a join and a login, in either order; two slots let a kick in one player's callback concern
another or himself; nesting two deep lets a callback interrupt a callback. Two
restarts let one follow another without and with players between. Three timers are
one before and one after the one that fires. Ages up to three units tell apart all
limits the code has (5, 10 and 15 seconds and the respawn delay). Two players on one
vehicle are a driver and his successor, and a vehicle that is only an id in packets
gives them something to enter and tow besides.

The runs of the sessions have 3.7 million states because `MCPlayerSessions` lets TLC
identify some. `SYMMETRY` (`sessions_full`, which has no liveness) does so with those that
differ in the names of connections and nicknames. `VIEW` does so with those that differ only
in history the properties no longer speak of: no guard reads `told`, `hushed`, `rejoined` or
`meddled`, the last three only grow, and what they except is forgotten.

Three slots for filter scripts are two scripts and a hole between or before them, or a
full table; a nesting of three is a command in a callback of a script that a command
loads. The list of modes has a next and a last; it has fewer than sixteen entries
(`ModeLineAssumption`), because with sixteen `GetNextScriptFile` has no unset variable
to end at. Two skins are the one a player
asked for and another, and a list of two, of one and none is what can go wrong between one
game mode and the next. Two lives are an old and a new one. `MaxFlight` bounds packets and
calls together: two of them are one that overtakes and one that is overtaken, on the way to
the server or from there to the other client, or one on each way. Only what the player's
client sends is held back by it, never the server. `Quiet` and `Through` let the client send
a sync or a door only when the one before has come through, since an overtaken sync and a
lost one are the same to the server.

`GameModeToldInTurn` holds as long as no script has kicked from inside the callbacks
about arrivals, departures and restarts: a filter script that kicks in OnPlayerConnect
makes the game mode hear of the departure first. It says nothing of an id somebody joined
again with: OnPlayerConnect is called twice for him, OnPlayerDisconnect once. `OneCopy` holds until a script is
unloaded or loads another in its OnFilterScriptInit: the search for a slot stops at
the first hole, and the name is set only when OnFilterScriptInit has returned.

In `vehicles`, a filter script does not put the vehicle back in its own
OnVehicleDeath: the game mode would then be told of a death after the spawn that
followed it, and `DeathsInTurn` says so. Scripts destroy vehicles in the last callback of
`Respawn` only: elsewhere the functions go on with the vehicle afterwards, as they do when a
vehicle put back inside OnVehicleDeath is destroyed in the OnVehicleSpawn nested in it. That
happens in the run, and `NoDestroyedVehicleUsed` says that nothing else does.

`CHECK_DEADLOCK` is FALSE where the model may stop: after a crash or the end of the
process (`GameModes`), when all connections of a session run are used up or all timer
ids given out, when a player waits for ever for an answer that does not come
(`ClassSelection`), and when the lives of `PlayerSync` are over.

**Fairness.** `ObjectPool`: weak fairness of `Process`, since the main loop makes a
pass every 10 ms (`main.cpp:413`) and callbacks return. `PlayerSessions`: weak
fairness of the server's thread (it handles what is queued, and callbacks return),
of the network thread executing the commands a kick leaves it and of its ending the
connections that are closing, since the reliability layer gives up on a peer that
does not answer. Nothing makes a client connect, speak or leave. `ScriptTimers`:
the passes, the end of an unloading, and the loading of a game mode after one has
ended, are strongly fair because a script may unload and load scripts for ever
between them, but the loop comes back each time. `GameModes`, for
`RotatesAsConfigured` only: something happens as long as something can, and nothing makes a
script end a mode.

`Vehicles`: time and passes are strongly fair, for packets and
natives come between; callbacks return. The two tests on `rand() % 20` are strongly
fair too: if a vehicle waits for one in infinitely many passes, one pass makes it.

`PlayerSync`: a client that plays sends a sync several times a second (weak fairness of
`SendSync`; nothing forces a player to spawn, move or spectate), calls are RELIABLE
and are heard, what is RELIABLE and newest arrives, and animations end. Syncs may be
lost, overtaken, refused by scripts and left out by the server's choice of when to
relay, each without a limit but not for ever: strong fairness of the arrival of the
newest with the scripts' consent, of the relaying and of the hearing. `SeenAsPlayed`
is only about a player who in the end stays at one place and no longer uses a door.

`TimersProgress` excepts behaviours in which some timer with an interval no longer
than a pass lives for ever: the loop's habit of stepping over the timer after one
that was due lets it starve its successor. That is what the code does.

## 4. The disagreements found

* `sessions_restart`: `netgame.cpp:588` says "wait 12 seconds, then restart"; a
  player who leaves during the wait makes `CPlayerPool::Delete` follow the NULL
  object pool (`playerpool.cpp:128-132`, `netgame.cpp:427`).
* `timers_unload`: `scrtimers.cpp:69` knows that an iteration cannot continue over
  a deleted node; `Process` (227-287) continues over the callback, in which
  `SendRconCommand("unloadfs ...")` runs `DeleteForMode`.
* `vehicles_passenger`: `vehicle.cpp:144` loops over all players "to find drivers or
  passengers of this vehicle", but looks at the last driver's record in every turn
  (`vehicle.cpp:148`): when the driver has left, the vehicle is put back with a
  passenger in it.
* `game_modes_rotation`: `netgame.cpp:237` says that `SetNextScriptFile` "will attempt to
  rotate scripts as per configuration", and line 278 speaks of "repeats of this script". The
  count is cut off before it is read (248, 289), and what is counted down (304) starts at 0
  and never is 0 again: a mode that ends itself is played again for ever.

## 5. The proofs

Every safety invariant and action property a passing run checks is proved, for every
value of the constants that meets the assumptions the modules name; where a theorem
needs a hypothesis on what scripts or the configuration do, it says so. Each argument is
an inductive invariant, `Inv` of the proof module, which was checked with TLC on the
instances of the runs before it was proved. Liveness is out of the prover's reach and
is only model-checked (below).

`ObjectPoolProofs` proves, for every number of players and of object ids,

* `TablesAgree`: `Spec => [](TypeOK /\ SlotsMatchPointers /\ PersonalFlagExact /\
  OneUsePerId /\ NothingLeftBehind)`;
* `TypeCorrect`, `PointersMatch`, `FlagExact` and `NothingLeft`: these invariants by
  themselves, which follow from it;
* `PoolImplementsOwnership`: `Spec => ImplementsOwnership`, the refinement.

The assumptions are those `ObjectPool` names for its constants: at least one player
and one id, a NULL pointer that is no object state, a positive distance. None of
the four invariants is inductive alone; the head of the module says how they lean on
each other, and their conjunction with the type invariant, `Inv`, is the inductive
invariant. `DeleteForPlayerEffect` is the central lemma: the set form of
`DeleteForPlayer` clears exactly the slots it should and leaves the flag exact. The
refinement follows step by step: each creation is a `Take` or `TakeForAll`, each
destruction a `GiveUp`, a departure a `Go`, a restart a `Reset`, and moves and passes
stutter.

`PlayerSessionsProofs` proves, for every number of slots, connections and nicknames and
any bounds on nested kicks and restarts (at least one call must fit on the stack),

* `TypeCorrect`: `Spec => []TypeOK`;
* `NoSlotForgotten`: `Spec => []SlotBacked`;
* `NoPlayerReplaced`: `Spec => SlotNotTakenOver`;
* `NoRightsInherited`: `Spec => []AdminIsPlayer`;
* `NoNicknameTwice`: `Spec => []NicknamesUnique`;
* `ArrivalsAndDeparturesInTurn`: `Spec => []GameModeToldInTurn`;
* `GameModeUpToDate`: `Spec => []GameModeKnowsPlayers`;
* `FilterScriptsUpToDate`: `Spec => []FilterScriptsKnowPlayers`.

The first five hold whatever scripts do, kicks from inside every callback included, and
however often clients join.
Their argument is about the queue (`Sessions`). RakNet's index is given to the next
connection while the slot still belongs to the last one, but whatever the next one
sends lies in the queue behind the news that the last one is gone, or the last one is
being deleted already (`EndFirst`). `SlotBacked` alone is not inductive, because
closing a connection is harmless only if nothing of its successor has overtaken the
news, and `SlotNotTakenOver` is where it matters: `CPlayerPool::New` does not look
whether the slot is free, and the one slot it does fill anew is that of the connection
that joins again. The other three are about callbacks and hold until a script kicks from
inside one (`meddled`); of the game mode they say nothing about ids somebody joined again with, of a
filter script nothing after a call that did not come to it. Then at most one call is under way, and its kind and how far
it has come say in which phase the restart is (`Phases`) and which players each script
has heard of (`GmHeard`, `FsHeard`): for the game mode `told` is exactly that, for the
filter scripts, which may hear of an arrival twice around a restart, at least that.

`ScriptTimersProofs` proves, for any filter scripts, any intervals, any length of a
pass and any number of timers,

* `TypeCorrect`: `Spec => []TypeOK`;
* `NoTimerOutlivesItsScript`: `Spec => []TimersOfLoadedScripts`;
* `NoTimerEarly`: `Spec => NeverEarly`.

`NeverEarly` is a promise every timer keeps: what remains of its interval is never
less than what has not gone by of it (`Promise`). While a pass is under way its
milliseconds have gone by for all timers but are taken only from those the iterator
has passed, so the promise has another form for those `Ahead` of it, and the
invariant has to know where the iterators are (`Iterators`). Nothing of this is claimed
once an iterator has been used after its node was erased (`corrupt`), which does
happen (`timers_unload`).

`VehiclesProofs` proves, for every set of players, every number of vehicles, all
delays, and whatever callbacks scripts use natives in,

* `TypeCorrect`: `Spec => []TypeOK`;
* `ClockSet`: `Spec => []SeenBeforeRead`;
* `DrivenStays`: `Spec => NotIdleWhileDriven`;
* `TenSecondsApart`: `Spec => RespawnsApart`;

and with a hypothesis on the callbacks

* `OneDeathALife`: `Spec => DeathsInTurn`, if no filter script puts a vehicle back in
  its OnVehicleDeath;
* `NobodyOutlivesItsVehicle`: `Spec => []NoDestroyedVehicleUsed`, if scripts destroy
  vehicles in no callback but the game mode's OnVehicleSpawn, wherever they put them back.

Without its hypothesis neither is true (section 3). The run `vehicles` takes an instance
that meets both.

The inductive invariant `Inv` says of every vehicle how its clocks lie (`VehicleInv`)
and of every callback under way that its vehicle, if not destroyed, is there
(`FramesLive`). A vehicle that counts as driven is `Steady`: the time it was last
seen is set, is no older than the last packet about it, and its last respawn is at
least five seconds ago. The last part is what makes the rest inductive, because a
packet is ignored only within these five seconds, and then the vehicle does not
count as driven. A vehicle whose death was announced is `Timed`, unless the callback
that announces it is still under way: the time it was last seen was set after it was
last put back, so that the fifteen seconds a dead vehicle waits are fifteen seconds
since its last respawn too. `TurnInv` adds, for `DeathsInTurn`, that a vehicle whose
death the game mode knows of is noted as announced until it is put back, and then the
news of its spawn is on the stack (`Mourned`); the filter scripts' OnVehicleDeath has
nothing above it (`DeathAlone`), which is where the hypothesis is used. `NeededLives`
says of the stack that the only callback at which the vehicle itself was destroyed is the
last of `Respawn`, after which nothing uses it; what a function nested in another's callback
destroyed is `Lost`, and the property excepts it.

`GameModesProofs` proves, for any scripts, modes and configuration, any number of slots
and of nested calls,

* `TypeCorrect`: `Spec => []TypeOK`;
* `NamesAreOfPrograms`: `Spec => []NamesMatch`;
* `LoadedOnce`: `Spec => []OneCopy`;
* `WholeLineLoaded`: `Spec => [](Len(Configured) <= MaxSlots => ConfiguredLoaded)`;
* `ModeFollowsItself`: `Spec => [][file' # file => ordered \/ ordered']_vars`, that a mode
  which ends itself is followed by itself until an operator orders another;
* `RunsWithMode`: `Spec => RunsMode`.

The hypothesis of `WholeLineLoaded` is the table's size: of a line with more than
sixteen scripts the last are refused, and the server says so. A script has its slot
before its OnFilterScriptInit and its name after it, so what the tables say depends on
the calls under way: each of them owes a name to a slot that nothing else may touch
meanwhile (`Begun`, `BegunOf`). As long as nothing was unloaded the slots are filled
from the first on, and every script whose OnFilterScriptInit is over has its name
(`TidyOf`), which is why the search for a script of that name finds it. `Line` says how
much of the configured line `strtok` has handed out and that those scripts are there.
For the game mode, `PlayedNext` says who spoke last: unless an operator did, the file
to come is the one at the place in the list that is being repeated.

`ClassSelectionProofs` proves, for any skins, any game modes and any number of messages,

* `TypeCorrect`: `Spec => []TypeOK`;
* `AnswersCome`: `Spec => []NobodyStuck`;
* `SpawnsAgree`: `Spec => []ClassAgrees`.

It assumes only that game modes offer skins of the set and that the values for "no skin",
garbage and "no message" are not themselves skins or messages. `NobodyStuck` needs to know
that what a client asks for is there: `Selecting` says that one who is in a game mode has
selected one of its classes, that one who is not has the first selected and InitGame coming,
and `Owed` that all answers of the last mode arrive before the next begins, so that no
InitGame of it is left (`due`). `ClassAgrees` needs the order of things, which is the reason
the code works when it does: as long as everything is orderly, there is one question at a
time (`OneClass`, `OneAnswer`), at most one message about a class or one about spawning is
anywhere, and what both sides keep is what that message says (`Agreed`). The restart is the
difficult step, because it leaves answers under way that belong to the last game mode: the
last conjunct of `Agreed` says that a client that has heard of the restart is not cleared by
any of them.

`PlayerSyncProofs` proves, for every number of lives, packets and calls and any seats,

* `TypeCorrect`: `Spec => []TypeOK`;
* `DeadStayDead`: `Spec => NoResurrection`.

The argument is about the sequence of packets on their way: the client never speaks of
an older life after a newer one, nor of a life after its death (`InOrder`), all of them
are of lives the server has not buried (`Between`), and nobody has spoken of the death
of the life that is played (`NotOver`). Discarding what was overtaken keeps all of it
(`LaterInOrder`, `OthersInOrder`); without the discarding the theorem fails, which
the mutant of the property shows.

`ProofLemmas` holds what several of these proofs need: that every non-empty set of
natural numbers has a least element, so that the `CHOOSE` of "the next node, slot or
vehicle" finds one, and what is at each place of a call stack when a call is made or
returns.

Only model-checked: all liveness (`MovesEnd`, `SlotFreed`, `RestartEnds`,
`TimersProgress`, `DeadRespawns`, `SeenAsPlayed`), since TLAPS 1.4.5 reasons about
neither fairness nor ENABLED. And the four properties of the runs that expect a violation
are false.

## 6. What is not modelled, and the plan

Still planned, in this order:

1. `ClientView`: a client's copies of the object, player, text draw and pickup pools
   under RakNet's delivery rules, and what it shows after a join, a leave, a reused id
   and a restart (`src/saco/net`); an abstract roster it should implement. The hazard at
   `object.cpp:54` waits for it, and so does what scripts show in their exit callbacks,
   after the GameModeRestart call (`netgame.cpp:409`).
2. Checkpoints and callbacks that kick in `PlayerSync`.
3. `QueryThread`: what the query thread reads while the server's thread writes. It
   writes nothing itself but its flood counters, and no document promises that its
   answers are consistent.
4. Menus, pickups, gang zones: tables of slots without callbacks.

Seen in the code, allowed by the models, and covered by no property because nothing
promises otherwise: a filter script that puts a vehicle back in OnVehicleDeath makes the
game mode hear of the spawn before the death (`vehicle.cpp:221`); a late VehicleDestroyed
kills a vehicle that was just put back (`netrpc.cpp:810`); the idle test may put a dead
vehicle back before its death was told (`vehicle.cpp:207`); unloading a game mode whose
file was broken looks for functions in an AMX that was never set (`gamemodes.cpp:131`);
the counters of `CPlayerPool` are wrong after the first join (`playerpool.cpp:91`), and
are read only by loops that then never run.

Theorems planned: that the server does not go down (`crashed`) if nobody leaves during a
restart and scripts do not meddle, from `Phases` of `PlayerSessionsProofs`; that
iterators stay valid (`IteratorsLive`) if scripts do not unload in a timer's callback,
with a constant that says whether they do; abstract specifications of the sessions and of
the filter scripts' table, and that the modules implement them.

Most lines of the repository are none of the system's logic: three quarters of them are
vendored or generated (`sqlite3.c`, `saco/d3d9`, `amx`, `raknet`, zlib), and much of
the rest is formats, drawing and natives that read one value or send one message. The
modules cover the control of the parts above, which is a small share of the lines.

Left out for good: vendored code (the AMX machine, SQLite, zlib, DirectX), the
client's hooks into the game and its drawing, plugins, the master server's announcer,
the browser, the test bot and the archive tools; formats of messages and files.
