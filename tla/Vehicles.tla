------------------------------- MODULE Vehicles -------------------------------
(***************************************************************************)
(* The life of a vehicle: CVehicle (src/server/vehicle.cpp), its pool      *)
(* (vehiclepool.cpp) and what the packets of players and the natives of    *)
(* scripts do to it.                                                       *)
(*                                                                         *)
(* Once per pass of the main loop every vehicle is processed: one that     *)
(* nobody has driven for a while is put back where it was created, one     *)
(* that is dead is first announced and later put back.  Both call scripts, *)
(* which put back and destroy vehicles themselves while a member function  *)
(* of the vehicle is still running.                                        *)
(*                                                                         *)
(* Times are ages in units of five seconds, the shortest of the code's     *)
(* limits, and stop counting at Longest.                                   *)
(***************************************************************************)
EXTENDS Integers, Sequences

CONSTANTS
    Players,        \* player slots
    MaxVehicles,    \* the ids are 1 .. MaxVehicles
    MaxMade,        \* bound on the vehicles there are; clients may name others
    Delays,         \* respawn delays scripts ask for; above Longest is never
    Longest,        \* where ages stop
    RespawnIn,      \* callbacks in which scripts use SetVehicleToRespawn
    DestroyIn,      \* callbacks in which scripts use DestroyVehicle and CreateVehicle
    MaxDepth,       \* bound on callbacks inside callbacks
    NoPlayer,       \* INVALID_ID
    NoVehicle,      \* NULL
    Unset           \* the garbage of a member the constructor does not set

Callbacks == {"OnVehicleDeath", "OnVehicleSpawn"} \X {"FilterScripts", "GameMode"}

ASSUME PlayersAssumption == NoPlayer \notin Players
ASSUME BoundsAssumption ==
    /\ MaxVehicles \in Nat \ {0} /\ MaxMade \in 0 .. MaxVehicles
    /\ Longest \in Nat /\ Longest >= 3
    /\ MaxDepth \in Nat
    /\ Delays \subseteq Nat
ASSUME CallbacksAssumption == RespawnIn \subseteq Callbacks /\ DestroyIn \subseteq Callbacks

VehicleIds == 1 .. MaxVehicles
Makeable == 1 .. MaxMade
None == 0            \* no vehicle: id 0 is never handed out
Ages == 0 .. Longest

(***************************************************************************)
(* lastRespawned and lastSeen are the ages of m_dwLastRespawnedTick and    *)
(* m_dwLastSeenOccupiedTick.  Two members are history: quiet, the age of   *)
(* the last packet of a driver or a tower of the vehicle, heeded or not;   *)
(* and mourned, whether the game mode was told of a death and not since of *)
(* a spawn.                                                                *)
(***************************************************************************)
Vehicles == [driver : Players \cup {NoPlayer}, dead : BOOLEAN, notified : BOOLEAN,
             hasBeenOccupied : BOOLEAN, respawnDelay : Delays,
             lastRespawned : Ages, lastSeen : Ages \cup {Unset},
             quiet : Ages, mourned : BOOLEAN]

(* A player out of vehicles is "Other", whatever his state is then. *)
PlayerRecords == [state : {"Other", "Driver", "Passenger"},
                  vehicle : VehicleIds \cup {None}, trailer : VehicleIds \cup {None}]

(* A callback under way, and the vehicle whose member function made it:    *)
(* None once a script has destroyed that in this callback, and Lost once   *)
(* one has in another callback that was made inside this one.              *)
Lost == -1
Frames == [callback : Callbacks, this : VehicleIds \cup {None, Lost}]

ASSUME NullAssumption == Unset \notin Nat /\ NoVehicle \notin Vehicles

VARIABLES
    vehicle,   \* m_pVehicles
    player,    \* the players, NoPlayer for a free slot
    at,        \* CVehiclePool::Process: i, None between passes
    calls,     \* the callbacks under way, the innermost first
    corrupt    \* a destroyed vehicle was used

vars == <<vehicle, player, at, calls, corrupt>>

Live == {v \in VehicleIds : vehicle[v] # NoVehicle}

\* No pass looks at a vehicle past the last one.
TypeOK ==
    /\ DOMAIN vehicle = VehicleIds
    /\ \A v \in Live : vehicle[v] \in Vehicles
    /\ player \in [Players -> PlayerRecords \cup {NoPlayer}]
    /\ at \in VehicleIds \cup {None}
    /\ calls \in Seq(Frames)
    /\ corrupt \in BOOLEAN

Init ==
    /\ vehicle = [v \in VehicleIds |-> NoVehicle]
    /\ player = [p \in Players |-> NoPlayer]
    /\ at = None
    /\ calls = <<>>
    /\ corrupt = FALSE

BetweenPasses == ~corrupt /\ at = None /\ calls = <<>>

-----------------------------------------------------------------------------
(* Time.  A pass, with its callbacks, takes much less than a unit. *)
Older(age) == IF age < Longest THEN age + 1 ELSE age

Tick ==
    /\ BetweenPasses
    /\ vehicle' = [v \in VehicleIds |->
                     IF v \in Live
                     THEN [vehicle[v] EXCEPT !.lastRespawned = Older(@),
                                             !.lastSeen = IF @ = Unset THEN Unset ELSE Older(@),
                                             !.quiet = Older(@)]
                     ELSE NoVehicle]
    /\ UNCHANGED <<player, at, calls, corrupt>>

-----------------------------------------------------------------------------
(***************************************************************************)
(* Players.  The callbacks of a packet run scripts too, after the vehicle  *)
(* has been updated; what they do to vehicles does not depend on what is   *)
(* left to do for the packet, so it is taken to follow.                    *)
(***************************************************************************)
Connect(p) ==
    /\ BetweenPasses
    /\ player[p] = NoPlayer
    /\ player' = [player EXCEPT ![p] = [state |-> "Other", vehicle |-> None, trailer |-> None]]
    /\ UNCHANGED <<vehicle, at, calls, corrupt>>

Disconnect(p) ==
    /\ BetweenPasses
    /\ player[p] # NoPlayer
    /\ player' = [player EXCEPT ![p] = NoPlayer]
    /\ UNCHANGED <<vehicle, at, calls, corrupt>>

\* Mutant: an update is heeded without the time being noted.
UpdatedNoTime(v, p, health) ==
    LET c == vehicle[v] IN
    IF c.lastRespawned < 1
    THEN [c EXCEPT !.quiet = 0]
    ELSE [c EXCEPT !.driver = p, !.hasBeenOccupied = TRUE,
                   !.dead = @ \/ health <= 0, !.quiet = 0]

\* CVehicle::Update, which ignores what comes within 5 seconds of a respawn.
Updated(v, p, health) ==
    LET c == vehicle[v] IN
    IF c.lastRespawned < 1
    THEN [c EXCEPT !.quiet = 0]
    ELSE [c EXCEPT !.driver = p, !.hasBeenOccupied = TRUE, !.lastSeen = 0,
                   !.dead = @ \/ health <= 0, !.quiet = 0]

Update(v, p, health) ==
    vehicle' = IF v \in Live THEN [vehicle EXCEPT ![v] = Updated(v, p, health)] ELSE vehicle

\* A packet from the driver's seat, of a vehicle the server may not have.
StoreInCarFullSyncData(p, v, health, t) ==
    /\ BetweenPasses
    /\ player[p] # NoPlayer
    /\ player' = [player EXCEPT ![p] = [state |-> "Driver", vehicle |-> v, trailer |-> t]]
    /\ Update(v, p, health)
    /\ UNCHANGED <<at, calls, corrupt>>

\* A packet about the trailer that the last of these named, at full health.
StoreTrailerFullSyncData(p) ==
    /\ BetweenPasses
    /\ player[p] # NoPlayer
    /\ player[p].trailer # None
    /\ Update(player[p].trailer, p, 1000)
    /\ UNCHANGED <<player, at, calls, corrupt>>

StorePassengerFullSyncData(p, v) ==
    /\ BetweenPasses
    /\ player[p] # NoPlayer
    /\ player' = [player EXCEPT ![p].state = "Passenger", ![p].vehicle = v]
    /\ UNCHANGED <<vehicle, at, calls, corrupt>>

\* A packet on foot, or a spawn.
OnFoot(p) ==
    /\ BetweenPasses
    /\ player[p] # NoPlayer
    /\ player' = [player EXCEPT ![p].state = "Other", ![p].vehicle = None]
    /\ UNCHANGED <<vehicle, at, calls, corrupt>>

\* Entering, leaving, dying or watching: the vehicle stays noted.
ChangeState(p) ==
    /\ BetweenPasses
    /\ player[p] # NoPlayer
    /\ player' = [player EXCEPT ![p].state = "Other"]
    /\ UNCHANGED <<vehicle, at, calls, corrupt>>

\* A client saw the vehicle die.
VehicleDestroyed(v) ==
    /\ BetweenPasses
    /\ \E p \in Players : player[p] # NoPlayer
    /\ v \in Live
    /\ vehicle' = [vehicle EXCEPT ![v].dead = TRUE]
    /\ UNCHANGED <<player, at, calls, corrupt>>

-----------------------------------------------------------------------------
(* Scripts run between passes and in the callbacks. *)
ScriptMay(callbacks) ==
    /\ ~corrupt
    /\ \/ at = None /\ calls = <<>>
       \/ /\ calls # <<>>
          /\ Len(calls) < MaxDepth
          /\ Head(calls).callback \in callbacks

\* CVehiclePool::New takes the first free slot.
FirstFree(v) == v \notin Live /\ v \in Makeable /\ \A u \in 1 .. v - 1 : u \in Live

CreateVehicle(v, delay) ==
    /\ ScriptMay(DestroyIn)
    /\ FirstFree(v)
    /\ vehicle' = [vehicle EXCEPT ![v] =
                     [driver |-> NoPlayer, dead |-> FALSE, notified |-> FALSE,
                      hasBeenOccupied |-> FALSE, respawnDelay |-> delay,
                      lastRespawned |-> 0, lastSeen |-> Unset,
                      quiet |-> Longest, mourned |-> FALSE]]
    /\ UNCHANGED <<player, at, calls, corrupt>>

\* The functions under way keep a pointer to what is deleted.
DestroyVehicle(v) ==
    /\ ScriptMay(DestroyIn)
    /\ v \in Live
    /\ vehicle' = [vehicle EXCEPT ![v] = NoVehicle]
    /\ calls' = [i \in DOMAIN calls |->
                   IF calls[i].this = v
                   THEN [calls[i] EXCEPT !.this = IF i = 1 THEN None ELSE Lost]
                   ELSE calls[i]]
    /\ UNCHANGED <<player, at, corrupt>>

PutPlayerInVehicle(p, v) ==
    /\ ScriptMay(Callbacks)
    /\ player[p] # NoPlayer
    /\ v \in Live
    /\ vehicle' = [vehicle EXCEPT ![v].driver = p]
    /\ UNCHANGED <<player, at, calls, corrupt>>

\* Mutant: the new life counts as driven.
FreshStillOccupied(c) == [c EXCEPT !.dead = FALSE, !.notified = FALSE, !.lastRespawned = 0]

\* Mutant: the new life is dead.
FreshStillDead(c) == [c EXCEPT !.notified = FALSE, !.hasBeenOccupied = FALSE, !.lastRespawned = 0]

Fresh(c) == [c EXCEPT !.dead = FALSE, !.notified = FALSE, !.hasBeenOccupied = FALSE,
                      !.lastRespawned = 0]

Call(f, v) == [callback |-> f, this |-> v]

\* CVehicle::Respawn, as far as its first callback.
Respawn(v) ==
    /\ vehicle' = [vehicle EXCEPT ![v] = Fresh(vehicle[v])]
    /\ calls' = <<Call(<<"OnVehicleSpawn", "FilterScripts">>, v)>> \o calls

SetVehicleToRespawn(v) ==
    /\ ScriptMay(RespawnIn)
    /\ v \in Live
    /\ Respawn(v)
    /\ UNCHANGED <<player, at, corrupt>>

-----------------------------------------------------------------------------
(***************************************************************************)
(* A pass.  CVehiclePool::Process goes through the slots; scripts change   *)
(* them only inside the callbacks, so what follows i is looked for when    *)
(* the function called for i has returned.                                 *)
(***************************************************************************)
\* Mutant: the pass does not stop at the last slot.
NextAtPastEnd(i) ==
    IF \E v \in Live : v > i
    THEN CHOOSE v \in Live : v > i /\ \A u \in Live : u > i => v <= u
    ELSE MaxVehicles + 1

NextAt(i) ==
    IF \E v \in Live : v > i
    THEN CHOOSE v \in Live : v > i /\ \A u \in Live : u > i => v <= u
    ELSE None

StartPass ==
    /\ BetweenPasses
    /\ Live # {}
    /\ at' = NextAt(0)
    /\ UNCHANGED <<vehicle, player, calls, corrupt>>

Processing(v) == ~corrupt /\ calls = <<>> /\ at = v /\ v \in Live

\* Only the driver is looked for, however many players there are.
IsOccupied(v) ==
    LET p == vehicle[v].driver IN
    /\ p # NoPlayer
    /\ player[p] # NoPlayer
    /\ player[p].vehicle = v
    /\ player[p].state \in {"Driver", "Passenger"}

\* Garbage in place of a time may be of any age.
Reaches(age, limit) == age = Unset \/ age >= limit

IdleTooLong(v) ==
    /\ vehicle[v].lastRespawned >= 2
    /\ ~IsOccupied(v)
    /\ vehicle[v].hasBeenOccupied
    /\ Reaches(vehicle[v].lastSeen, vehicle[v].respawnDelay)

\* One pass in twenty, instead of the test for death.
IdleRespawn(v) ==
    /\ Processing(v)
    /\ ~vehicle[v].notified
    /\ IdleTooLong(v)
    /\ Respawn(v)
    /\ UNCHANGED <<player, at, corrupt>>

\* Nothing comes of this pass: the idle test fails, or the vehicle is alive,
\* or it is dead and the other test that is one in twenty fails.
LeaveAlone(v) ==
    /\ Processing(v)
    /\ ~vehicle[v].dead \/ vehicle[v].notified \/ ~IdleTooLong(v)
    /\ at' = NextAt(v)
    /\ UNCHANGED <<vehicle, player, calls, corrupt>>

\* Mutant: nobody remembers that the death was announced.
NotifyDeathForgotten(v) ==
    /\ Processing(v)
    /\ vehicle[v].dead
    /\ ~vehicle[v].notified
    /\ calls' = <<Call(<<"OnVehicleDeath", "FilterScripts">>, v)>>
    /\ UNCHANGED <<vehicle, player, at, corrupt>>

NotifyDeath(v) ==
    /\ Processing(v)
    /\ vehicle[v].dead
    /\ ~vehicle[v].notified
    /\ vehicle' = [vehicle EXCEPT ![v].notified = TRUE]
    /\ calls' = <<Call(<<"OnVehicleDeath", "FilterScripts">>, v)>>
    /\ UNCHANGED <<player, at, corrupt>>

DeadRespawn(v) ==
    /\ Processing(v)
    /\ vehicle[v].dead
    /\ vehicle[v].notified
    /\ Reaches(vehicle[v].lastSeen, 3)
    /\ Respawn(v)
    /\ UNCHANGED <<player, at, corrupt>>

\* Mutant: Respawn tells the scripts first and clears its members then.
UsesThisAlways(f) == TRUE

\* Whether the function goes on with its vehicle after the callback.
UsesThis(f) == f # <<"OnVehicleSpawn", "GameMode">>

\* Mutant: the time of death is not noted.
AfterNoTime(f, c) ==
    CASE f = <<"OnVehicleDeath", "FilterScripts">> -> [c EXCEPT !.mourned = TRUE]
      [] f = <<"OnVehicleSpawn", "FilterScripts">> -> [c EXCEPT !.mourned = FALSE]
      [] OTHER -> c

\* The vehicle when callback f has returned, and the next has been entered.
After(f, c) ==
    CASE f = <<"OnVehicleDeath", "FilterScripts">> -> [c EXCEPT !.mourned = TRUE]
      [] f = <<"OnVehicleDeath", "GameMode">>      -> [c EXCEPT !.lastSeen = 0]
      [] f = <<"OnVehicleSpawn", "FilterScripts">> -> [c EXCEPT !.mourned = FALSE]
      [] f = <<"OnVehicleSpawn", "GameMode">>      -> c

CallbackReturns ==
    /\ ~corrupt
    /\ calls # <<>>
    /\ LET f == Head(calls).callback
           v == Head(calls).this
           told == f[2] = "FilterScripts"
       IN IF v \notin Live /\ UsesThis(f)
          THEN corrupt' = TRUE /\ UNCHANGED <<vehicle, at, calls>>
          ELSE /\ vehicle' = IF v \in Live THEN [vehicle EXCEPT ![v] = After(f, vehicle[v])]
                             ELSE vehicle
               /\ calls' = IF told
                           THEN <<Call(<<f[1], "GameMode">>, v)>> \o Tail(calls)
                           ELSE Tail(calls)
               /\ at' = IF Len(calls) = 1 /\ ~told /\ at # None THEN NextAt(at) ELSE at
               /\ UNCHANGED corrupt
    /\ UNCHANGED player

ProcessVehicle(v) == IdleRespawn(v) \/ LeaveAlone(v) \/ NotifyDeath(v) \/ DeadRespawn(v)

Process == StartPass \/ CallbackReturns \/ \E v \in VehicleIds : ProcessVehicle(v)

Packet(p) ==
    \/ \E v \in VehicleIds, h \in {0, 1000}, t \in Makeable \cup {None} :
         t # v /\ StoreInCarFullSyncData(p, v, h, t)
    \/ StoreTrailerFullSyncData(p)
    \/ \E v \in VehicleIds : StorePassengerFullSyncData(p, v)
    \/ OnFoot(p)
    \/ ChangeState(p)

Native ==
    \/ \E v \in VehicleIds, d \in Delays : CreateVehicle(v, d)
    \/ \E v \in VehicleIds : DestroyVehicle(v) \/ SetVehicleToRespawn(v)
    \/ \E p \in Players, v \in VehicleIds : PutPlayerInVehicle(p, v)

Next ==
    \/ Tick
    \/ \E p \in Players : Connect(p) \/ Disconnect(p) \/ Packet(p)
    \/ \E v \in VehicleIds : VehicleDestroyed(v)
    \/ Native
    \/ Process

(***************************************************************************)
(* Time goes on, passes are made again and again and callbacks return.     *)
(* The two random tests come out true in some pass if there are enough of  *)
(* them.                                                                   *)
(***************************************************************************)
Spec ==
    /\ Init /\ [][Next]_vars
    /\ SF_vars(Tick) /\ SF_vars(StartPass)
    /\ WF_vars(CallbackReturns)
    /\ \A v \in Makeable :
         /\ WF_vars(ProcessVehicle(v))
         /\ SF_vars(NotifyDeath(v))
         /\ SF_vars(DeadRespawn(v))

-----------------------------------------------------------------------------
(***************************************************************************)
(* The server puts no vehicle back that a driver or a tower has sent a     *)
(* packet about less than the respawn delay ago: not even one about which  *)
(* packets were ignored because it was put back just before, or whose      *)
(* driver is no longer the last who drove it.                              *)
(***************************************************************************)
NotIdleWhileDriven ==
    [][\A v \in VehicleIds : IdleRespawn(v) => vehicle[v].quiet >= vehicle[v].respawnDelay]_vars

(***************************************************************************)
(* The server itself never puts a vehicle back twice within ten seconds,   *)
(* although a dead vehicle is timed by when it was last seen and not by    *)
(* when it was last put back.                                              *)
(***************************************************************************)
RespawnsApart ==
    [][\A v \in VehicleIds : IdleRespawn(v) \/ DeadRespawn(v) => vehicle[v].lastRespawned >= 2]_vars

(***************************************************************************)
(* The constructor leaves m_dwLastSeenOccupiedTick unset; it is set before *)
(* either test can read it, whichever of the two ways a vehicle dies.      *)
(***************************************************************************)
SeenBeforeRead ==
    \A v \in Live :
        /\ vehicle[v].hasBeenOccupied => vehicle[v].lastSeen # Unset
        /\ vehicle[v].notified /\ calls = <<>> => vehicle[v].lastSeen # Unset

(***************************************************************************)
(* The game mode is told of one death of a vehicle at most before it is    *)
(* told of its next spawn: if no filter script puts the vehicle back       *)
(* before the game mode hears of its death.                                *)
(***************************************************************************)
DeathsInTurn ==
    [][\A v \in Live : ~(vehicle[v].mourned /\ NotifyDeath(v))]_vars

(***************************************************************************)
(* Scripts may destroy a vehicle in the game mode's OnVehicleSpawn: no     *)
(* function goes on with the vehicle it was called for, unless a script    *)
(* has put a vehicle back inside a callback of this function, and one      *)
(* destroyed this vehicle when it heard of that.                           *)
(***************************************************************************)
NoDestroyedVehicleUsed == corrupt => Head(calls).this = Lost

(***************************************************************************)
(* A vehicle stays dead for ever only if packets about it keep coming.     *)
(***************************************************************************)
DeadRespawns ==
    \A v \in Makeable :
        <>[](v \in Live /\ vehicle[v].dead) => []<>(v \in Live /\ vehicle[v].quiet = 0)

(***************************************************************************)
(* IsOccupied is to find drivers or passengers of this vehicle             *)
(* (vehicle.cpp:144), so that no vehicle in which a passenger sits is put  *)
(* back as idle.                                                           *)
(***************************************************************************)
PassengersOccupy ==
    [][\A v \in VehicleIds, p \in Players :
         IdleRespawn(v) /\ player[p] # NoPlayer /\ player[p].vehicle = v
           => player[p].state # "Passenger"]_vars
=============================================================================
