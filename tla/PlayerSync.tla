----------------------------- MODULE PlayerSync -----------------------------
(***************************************************************************)
(* What becomes of a player's life on its way to the others: the client    *)
(* that plays it (src/saco/net/localplayer.cpp), the state machine the     *)
(* server keeps of it (src/server/player.cpp), and the remote player of    *)
(* another client that sees it (src/saco/net/remoteplayer.cpp).            *)
(*                                                                         *)
(* Everything the client says of itself is sequenced on one channel of     *)
(* RakNet: what is overtaken is discarded, RELIABLE or not.  Only the      *)
(* sync of a spectator is not sequenced.  What the server tells the others *)
(* is RELIABLE and comes in any order, except enter and exit among each    *)
(* other and the syncs among each other.                                   *)
(*                                                                         *)
(* The game mode runs all the time, the server has spawn info of the       *)
(* player (ClassSelection shows both), and the other client is near enough *)
(* and in the same virtual world.                                          *)
(***************************************************************************)
EXTENDS Naturals, Sequences, FiniteSets

CONSTANTS
    Seats,     \* the seats in use, of "driver" and "passenger"
    MaxLives,  \* bound: how often the player spawns
    MaxFlight  \* bound: the packets on their way to the server and the calls on their
               \* way to the other client, together

ASSUME SeatsAssumption == Seats \subseteq {"driver", "passenger"}
ASSUME BoundsAssumption == {MaxLives, MaxFlight} \subseteq Nat

VARIABLES
    \* the client of the player
    alive,    \* m_bIsActive
    watching, \* m_bIsSpectating
    place,    \* where its ped is: on foot or in a seat
    lives,    \* how often it has spawned
    \* the network to the server
    up,       \* sequenced packets in the order they were sent
    watchUp,  \* a spectator sync is on its way
    \* the CPlayer of the server
    state,    \* m_byteState
    update,   \* m_byteUpdateFromNetwork
    buried,   \* history: the life whose end it has heard of last
    announced, \* history: the life whose spawn it has told the others of last
    \* the network to the other client
    told,     \* how many calls of each kind are on their way, in any order
    doors,    \* enter and exit calls, in the order they were made
    syncDown, \* the newest sync relayed
    \* the CRemotePlayer of the other client
    seen,     \* m_byteState
    ped,      \* m_pPlayerPed: NULL, alive, set dead, or deleted and not NULL
    anims,    \* m_dwWaitForEntryExitAnims is in the future
    spoilt    \* history: since he was last spawned there, a spawn failed or news of a
              \* death or of spectating came late

client == <<alive, watching, place, lives>>
server == <<state, update, buried, announced>>
down == <<told, doors>>
remote == <<seen, ped, anims>>
vars == <<client, up, watchUp, server, down, syncDown, remote, spoilt>>

Places == {"foot"} \cup Seats
Doors == {"enter", "exit"}
Calls == {"spawn", "death", "watch"}
States == Places \cup {"none", "spawned", "wasted", "spectating"} \cup Doors

Packet == [kind : {"spawn", "death"} \cup Doors \cup Places, life : 0..MaxLives]

\* Whatever is said is within the bounds, and the server has buried no life
\* that has not begun.
TypeOK ==
    /\ {alive, watching, watchUp, anims, spoilt} \subseteq BOOLEAN
    /\ place \in Places
    /\ lives \in 0..MaxLives /\ buried \in 0..lives
    /\ up \in Seq(Packet) /\ Len(up) <= MaxFlight
    /\ state \in States /\ seen \in States
    /\ update \in Places \cup {"none"} /\ syncDown \in Places \cup {"none"}
    /\ announced \in 0..MaxLives
    /\ told \in [Calls -> Nat] /\ doors \in Seq(Doors)
    /\ ped \in {"none", "alive", "dead", "freed"}

Init ==
    /\ alive = FALSE /\ watching = FALSE /\ place = "foot" /\ lives = 0
    /\ up = <<>> /\ watchUp = FALSE
    /\ state = "none" /\ update = "none" /\ buried = 0 /\ announced = 0
    /\ told = [call \in Calls |-> 0] /\ doors = <<>> /\ syncDown = "none"
    /\ seen = "none" /\ ped = "none" /\ anims = FALSE /\ spoilt = FALSE

-----------------------------------------------------------------------------
(***************************************************************************)
(* The client of the player.                                               *)
(***************************************************************************)
\* The server makes at most one call for what arrives.
InFlight ==
    Len(up) + (IF watchUp THEN 1 ELSE 0)
    + told["spawn"] + told["death"] + told["watch"] + Len(doors)

Send(packets) ==
    /\ InFlight + Len(packets) <= MaxFlight
    /\ up' = up \o packets
    /\ UNCHANGED <<watchUp, server, down, syncDown, remote, spoilt>>

Say(kind, life) == <<[kind |-> kind, life |-> life]>>

\* CLocalPlayer::Spawn, with packets after its own
SpawnAnd(packets) ==
    /\ lives < MaxLives
    /\ lives' = lives + 1
    /\ place' = "foot"
    /\ Send(Say("spawn", lives + 1) \o packets)

Spawn ==
    /\ SpawnAnd(<<>>)
    /\ alive' = TRUE
    /\ UNCHANGED watching

\* ToggleSpectating
StartWatching ==
    /\ ~watching
    /\ watching' = TRUE
    /\ UNCHANGED <<alive, place, lives, up, watchUp, server, down, syncDown, remote, spoilt>>

StopWatching ==
    /\ watching
    /\ SpawnAnd(<<>>)
    /\ alive' = TRUE
    /\ watching' = FALSE

\* Process, HANDLE I'M A DEAD LOCAL PLAYER PED
Die ==
    /\ alive
    /\ alive' = FALSE
    /\ watching' = FALSE
    /\ IF watching
       THEN SpawnAnd(Say("death", lives + 1))
       ELSE /\ Send((IF place = "driver" THEN Say("driver", lives) ELSE <<>>)
                    \o Say("death", lives))
            /\ UNCHANGED <<place, lives>>

Plays == alive /\ ~watching

\* bound: a sync or a door is sent only when no other is on its way
Quiet == \A i \in DOMAIN up : up[i].kind \notin Places \cup Doors

\* SendEnterVehicleNotification and SendExitVehicleNotification
UseDoor(door) ==
    /\ Plays /\ Quiet
    /\ (door = "enter") = (place = "foot")
    /\ Send(Say(door, lives))
    /\ UNCHANGED client

\* The game moves the ped, or a script does.
ChangePlace(p) ==
    /\ Plays /\ place # p
    /\ place' = p
    /\ UNCHANGED <<alive, watching, lives, up, watchUp, server, down, syncDown, remote, spoilt>>

\* CPlayer::Process does something for a player in this state.
Active(s) == s \notin {"none", "spectating"}

\* bound: and a sync is sent only when the one before has come through
Through == syncDown = "none" /\ (Active(state) => update = "none")

\* SendOnFootFullSyncData, SendInCarFullSyncData and SendPassengerFullSyncData
SendSync ==
    /\ Plays /\ Quiet /\ Through
    /\ Send(Say(place, lives))
    /\ UNCHANGED client

\* ProcessSpectating
SendWatchSync ==
    /\ watching /\ ~watchUp /\ InFlight < MaxFlight
    /\ watchUp' = TRUE
    /\ UNCHANGED <<client, up, server, down, syncDown, remote, spoilt>>

-----------------------------------------------------------------------------
(***************************************************************************)
(* The network to the server.  A packet that arrives makes the older ones  *)
(* worthless.  Those that are not reliable may be lost.                    *)
(***************************************************************************)
\* Mutant: older packets are not discarded.
ArrivesAnyhow(i) ==
    /\ i \in DOMAIN up
    /\ up' = SubSeq(up, 1, i - 1) \o SubSeq(up, i + 1, Len(up))
    /\ UNCHANGED <<client, watchUp, remote, spoilt>>

Arrives(i) ==
    /\ i \in DOMAIN up
    /\ up' = SubSeq(up, i + 1, Len(up))
    /\ UNCHANGED <<client, watchUp, remote, spoilt>>

Lose(i) ==
    /\ i \in DOMAIN up /\ up[i].kind \in Places
    /\ up' = SubSeq(up, 1, i - 1) \o SubSeq(up, i + 1, Len(up))
    /\ UNCHANGED <<client, watchUp, server, down, syncDown, remote, spoilt>>

LoseWatchSync ==
    /\ watchUp
    /\ watchUp' = FALSE
    /\ UNCHANGED <<client, up, server, down, syncDown, remote, spoilt>>

-----------------------------------------------------------------------------
(***************************************************************************)
(* The server.                                                             *)
(***************************************************************************)
\* RELIABLE
Tell(call) ==
    /\ told' = [told EXCEPT ![call] = @ + 1]
    /\ UNCHANGED doors

\* RELIABLE_ORDERED
TellDoor(door) ==
    /\ doors' = Append(doors, door)
    /\ UNCHANGED told

\* CPlayer::Spawn
HandleSpawn(i) ==
    /\ Arrives(i) /\ up[i].kind = "spawn"
    /\ state' = "spawned" /\ announced' = up[i].life
    /\ Tell("spawn")
    /\ UNCHANGED <<update, buried, syncDown>>

HandleDeath(i) ==
    /\ Arrives(i) /\ up[i].kind = "death"
    /\ state' = "wasted" /\ buried' = up[i].life
    /\ Tell("death")
    /\ UNCHANGED <<update, announced, syncDown>>

\* EnterVehicle and ExitVehicle, if there is such a vehicle
HandleDoor(i) ==
    /\ Arrives(i) /\ up[i].kind \in Doors
    /\ \/ state' = up[i].kind /\ TellDoor(up[i].kind)
       \/ UNCHANGED <<state, down>>
    /\ UNCHANGED <<update, buried, announced, syncDown>>

\* Mutant: who is entering a vehicle is not put on foot again.
StoreSyncHeld(i, accepted) ==
    /\ Arrives(i) /\ up[i].kind \in Places
    /\ state' = IF state = "enter" /\ up[i].kind = "foot" THEN state ELSE up[i].kind
    /\ update' = IF accepted THEN up[i].kind ELSE "none"
    /\ UNCHANGED <<buried, announced, down, syncDown>>

\* Store...FullSyncData; the scripts may refuse the update.
StoreSync(i, accepted) ==
    /\ Arrives(i) /\ up[i].kind \in Places
    /\ state' = up[i].kind
    /\ update' = IF accepted THEN up[i].kind ELSE "none"
    /\ UNCHANGED <<buried, announced, down, syncDown>>

StoreWatchSync ==
    /\ watchUp
    /\ watchUp' = FALSE
    /\ state' = "spectating"
    /\ IF state = "spectating" THEN UNCHANGED down ELSE Tell("watch")
    /\ UNCHANGED <<client, up, update, buried, announced, syncDown, remote, spoilt>>

\* Mutant: the state is relayed, whatever the update is of.
RelayState(sent) ==
    /\ Active(state) /\ update # "none"
    /\ update' = "none"
    /\ syncDown' = IF sent THEN state ELSE syncDown
    /\ UNCHANGED <<client, up, watchUp, state, buried, announced, down, remote, spoilt>>

\* Process, BroadcastSyncData and BroadcastData, which sends now and then
Relay(sent) ==
    /\ Active(state) /\ update # "none"
    /\ update' = "none"
    /\ syncDown' = IF sent /\ state = update THEN update ELSE syncDown
    /\ UNCHANGED <<client, up, watchUp, state, buried, announced, down, remote, spoilt>>

-----------------------------------------------------------------------------
(***************************************************************************)
(* The other client.                                                       *)
(***************************************************************************)
Hear(call) ==
    /\ told[call] > 0
    /\ told' = [told EXCEPT ![call] = @ - 1]
    /\ UNCHANGED <<client, up, watchUp, server, doors, syncDown>>

(***************************************************************************)
(* CRemotePlayer::Spawn.  It does nothing while the game is not loaded,    *)
(* and without memory for the new ped it has deleted the old one already.  *)
(***************************************************************************)
HearSpawn ==
    /\ Hear("spawn")
    /\ \/ seen' = "spawned" /\ ped' = "alive" /\ anims' = FALSE /\ spoilt' = FALSE
       \/ UNCHANGED remote /\ spoilt' = TRUE
       \/ /\ seen' = "none" /\ spoilt' = TRUE
          /\ ped' = IF ped = "none" THEN "none" ELSE "freed"
          /\ UNCHANGED anims

HearDeath ==
    /\ Hear("death")
    /\ seen' = "wasted" /\ anims' = FALSE
    /\ ped' = IF ped = "alive" THEN "dead" ELSE ped
    /\ spoilt' = (spoilt \/ alive)

HearWatch ==
    /\ Hear("watch")
    /\ seen' = "spectating"
    /\ spoilt' = (spoilt \/ ~watching)
    /\ UNCHANGED <<ped, anims>>

\* Its own game decides whether the ped can.
HearDoor ==
    /\ doors # <<>>
    /\ doors' = Tail(doors)
    /\ anims' = TRUE
    /\ \/ ped # "none" /\ seen' = Head(doors)
       \/ UNCHANGED seen
    /\ UNCHANGED <<client, up, watchUp, server, told, syncDown, ped, spoilt>>

HearSync ==
    /\ syncDown # "none"
    /\ syncDown' = "none"
    /\ seen' = IF anims THEN seen ELSE syncDown
    /\ UNCHANGED <<client, up, watchUp, server, down, ped, anims, spoilt>>

AnimsEnd ==
    /\ anims
    /\ anims' = FALSE
    /\ UNCHANGED <<client, up, watchUp, server, down, syncDown, seen, ped, spoilt>>

\* Process, NOT ACTIVE
RemovePed ==
    /\ ~Active(seen) /\ ped # "none"
    /\ ped' = "none" /\ anims' = FALSE
    /\ UNCHANGED <<client, up, watchUp, server, down, syncDown, seen, spoilt>>

-----------------------------------------------------------------------------
Playing ==
    \/ Spawn \/ StartWatching \/ StopWatching \/ Die \/ SendSync \/ SendWatchSync
    \/ \E door \in Doors : UseDoor(door)
    \/ \E p \in Places : ChangePlace(p)

Serving ==
    \/ \E i \in DOMAIN up : HandleSpawn(i) \/ HandleDeath(i) \/ HandleDoor(i)
    \/ \E i \in DOMAIN up, accepted \in BOOLEAN : StoreSync(i, accepted)
    \/ StoreWatchSync
    \/ \E sent \in BOOLEAN : Relay(sent)

Seeing ==
    \/ HearSpawn \/ HearDeath \/ HearWatch \/ HearDoor \/ HearSync \/ AnimsEnd \/ RemovePed

Losing == LoseWatchSync \/ \E i \in DOMAIN up : Lose(i)

Next == Playing \/ Serving \/ Seeing \/ Losing

Spec == Init /\ [][Next]_vars

(***************************************************************************)
(* A client that plays sends syncs several times a second, and nobody says *)
(* that the newest packet never arrives, the scripts never accept one, or  *)
(* the server never passes one on.                                         *)
(***************************************************************************)
Newest == Len(up)

Fairness ==
    /\ WF_vars(SendSync)
    /\ SF_vars(StoreSync(Newest, TRUE))
    /\ WF_vars(HandleSpawn(Newest) \/ HandleDeath(Newest) \/ HandleDoor(Newest) \/ StoreWatchSync)
    /\ SF_vars(Relay(TRUE))
    /\ WF_vars(HearSpawn \/ HearDeath \/ HearWatch \/ HearDoor)
    /\ SF_vars(HearSync) /\ WF_vars(AnimsEnd)

LiveSpec == Spec /\ Fairness

-----------------------------------------------------------------------------
(***************************************************************************)
(* The server does not bring a player back to life for a packet from       *)
(* before his death: once it has heard of the death, only a packet of      *)
(* another life makes him walk or drive.                                   *)
(***************************************************************************)
NoResurrection ==
    [][state = "wasted" /\ state' \in Places \cup Doors
       => \E i \in DOMAIN up : up[i].kind = state' /\ up[i].life > buried]_vars

(***************************************************************************)
(* Whatever was lost, overtaken, late or refused before: if a player goes  *)
(* on playing at one place, the server and the other client in the end     *)
(* have him there and leave him there.  And the other client shows a       *)
(* living ped, unless the news of the player's last spawn was discarded on *)
(* its way to the server, a late death or spectating came after it on its  *)
(* way to the other client, or it could make no ped: nothing repairs these.*)
(***************************************************************************)
Settled ==
    /\ state = place
    /\ seen = place
    /\ announced < lives \/ spoilt \/ ped = "alive"

UsesNoDoor == \A i \in DOMAIN up : up[i].kind \notin Doors

StaysThere == <>[](Plays /\ UsesNoDoor) /\ <>[][place' = place]_place

SeenAsPlayed == StaysThere => <>[]Settled
=============================================================================
