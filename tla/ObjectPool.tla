------------------------------ MODULE ObjectPool ------------------------------
(***************************************************************************)
(* The server's map objects: CObjectPool (src/server/objectpool.cpp), the  *)
(* movement of a CObject (src/server/object.cpp) and the natives through   *)
(* which scripts use them (src/server/scrcustom.cpp).                      *)
(*                                                                         *)
(* An object id names either one global object, which every player sees,   *)
(* or any number of personal objects, one per player that owns one.  The   *)
(* two uses share the id space, and three tables must agree about it: the  *)
(* global slots, the personal slots of each player, and m_bPlayersObject,  *)
(* the flag that says an id is in personal use.                            *)
(*                                                                         *)
(* The server runs scripts on one thread.  A script runs either between    *)
(* two passes of Process, or inside the On(Player)ObjectMoved callback in  *)
(* the middle of a pass, where it may create, move, stop and destroy any   *)
(* object and may kick a player.                                           *)
(***************************************************************************)
EXTENDS Naturals, FiniteSets

CONSTANTS
    NumPlayers,   \* MAX_PLAYERS
    MaxObjects,   \* MAX_OBJECTS; id 0 exists but New never hands it out
    NoObject,     \* a NULL CObject pointer
    MaxDistance   \* bound on the distance of a MoveTo, in passes of Process

ASSUME NumPlayersAssumption  == NumPlayers \in Nat \ {0}
ASSUME MaxObjectsAssumption  == MaxObjects \in Nat \ {0}
ASSUME NoObjectAssumption    == NoObject \notin Nat
ASSUME MaxDistanceAssumption == MaxDistance \in Nat \ {0}

Players == 0 .. NumPlayers - 1
ObjectIds == 0 .. MaxObjects - 1
FreshIds == 1 .. MaxObjects - 1

\* A CObject is what a pass can tell apart: at rest (0), or the number of
\* passes after which Process finds the target reached.
AtRest == 0
Objects == 0 .. MaxDistance

\* The entries of a pass: every (player, id) pair, then every global id.
Global == NumPlayers
Entries == (Players \cup {Global}) \X ObjectIds

VARIABLES
    connected,          \* the player pool's occupied slots
    objectSlotState,    \* m_bObjectSlotState
    objects,            \* m_pObjects
    playerSlotState,    \* m_bPlayerObjectSlotState
    playerObjects,      \* m_pPlayerObjects
    playersObject,      \* m_bPlayersObject
    pending,            \* what the running pass of Process has not visited
    inCallback          \* a script is running inside the pass

tables == <<objectSlotState, objects, playerSlotState, playerObjects, playersObject>>
vars == <<connected, tables, pending, inCallback>>

\* No object moves past its target, and a pass visits only ids of a table.
TypeOK ==
    /\ connected \in SUBSET Players
    /\ objectSlotState \in [ObjectIds -> BOOLEAN]
    /\ objects \in [ObjectIds -> Objects \cup {NoObject}]
    /\ playerSlotState \in [Players -> [ObjectIds -> BOOLEAN]]
    /\ playerObjects \in [Players -> [ObjectIds -> Objects \cup {NoObject}]]
    /\ playersObject \in [ObjectIds -> BOOLEAN]
    /\ pending \in SUBSET Entries
    /\ inCallback \in BOOLEAN

\* CObjectPool::CObjectPool
EmptyTables ==
    /\ objectSlotState = [o \in ObjectIds |-> FALSE]
    /\ objects = [o \in ObjectIds |-> NoObject]
    /\ playerSlotState = [p \in Players |-> [o \in ObjectIds |-> FALSE]]
    /\ playerObjects = [p \in Players |-> [o \in ObjectIds |-> NoObject]]
    /\ playersObject = [o \in ObjectIds |-> FALSE]

Init ==
    /\ connected = {}
    /\ EmptyTables
    /\ pending = {}
    /\ inCallback = FALSE

-----------------------------------------------------------------------------
(***************************************************************************)
(* Scripts and the network run when no pass is under way; only the script  *)
(* whose callback is being executed runs inside one.                       *)
(***************************************************************************)
ScriptRuns == pending = {} \/ inCallback
BetweenPasses == pending = {} /\ ~inCallback

IsLowest(o, S) == o \in S /\ \A q \in S : o <= q

\* Mutant: m_bPlayersObject is not tested.
FreeGlobalUnflagged == {o \in FreshIds : ~objectSlotState[o]}

FreeGlobal == {o \in FreshIds : ~objectSlotState[o] /\ ~playersObject[o]}

\* Mutant: m_bObjectSlotState is not tested.
FreeForUnshared(p) == {o \in FreshIds : ~playerSlotState[p][o]}

FreeFor(p) == {o \in FreshIds : ~objectSlotState[o] /\ ~playerSlotState[p][o]}

\* CreateObject: the first id that nobody uses; 0xFF and no change when full.
CreateObject(o) ==
    /\ ScriptRuns
    /\ IsLowest(o, FreeGlobal)
    /\ objects' = [objects EXCEPT ![o] = AtRest]
    /\ objectSlotState' = [objectSlotState EXCEPT ![o] = TRUE]
    /\ playersObject' = [playersObject EXCEPT ![o] = FALSE]
    /\ UNCHANGED <<connected, playerSlotState, playerObjects, pending, inCallback>>

\* CreatePlayerObject: an id may be shared with the objects of other players.
\* Whether the player is there is asked of params[1] cut to a BYTE, which changes no
\* player's id.
CreatePlayerObject(p, o) ==
    /\ ScriptRuns
    /\ p \in connected
    /\ IsLowest(o, FreeFor(p))
    /\ playerSlotState' = [playerSlotState EXCEPT ![p][o] = TRUE]
    /\ playerObjects' = [playerObjects EXCEPT ![p][o] = AtRest]
    /\ playersObject' = [playersObject EXCEPT ![o] = TRUE]
    /\ UNCHANGED <<connected, objectSlotState, objects, pending, inCallback>>

\* Mutant: the slot is not cleared.
DestroyObjectKeepingSlot(o) ==
    /\ ScriptRuns
    /\ objects[o] # NoObject
    /\ objectSlotState[o]
    /\ objects' = [objects EXCEPT ![o] = NoObject]
    /\ UNCHANGED <<connected, objectSlotState, playerSlotState, playerObjects, playersObject,
                   pending, inCallback>>

\* DestroyObject, and CObjectPool::Delete which it calls.
DestroyObject(o) ==
    /\ ScriptRuns
    /\ objects[o] # NoObject
    /\ objectSlotState[o]
    /\ objectSlotState' = [objectSlotState EXCEPT ![o] = FALSE]
    /\ objects' = [objects EXCEPT ![o] = NoObject]
    /\ UNCHANGED <<connected, playerSlotState, playerObjects, playersObject,
                   pending, inCallback>>

(***************************************************************************)
(* DeleteForPlayer for player p and every id of a set at once: the ids it  *)
(* refuses keep their state, and an id whose last owner goes stops being a *)
(* personal one.                                                           *)
(***************************************************************************)
Deletable(p, ids) == {o \in ids : playersObject[o] /\ playerObjects[p][o] # NoObject}

\* Mutant: the other players are not looked at.
DeleteForPlayerClearingFlag(p, ids) ==
    LET gone == Deletable(p, ids) IN
    /\ playerSlotState' =
        [playerSlotState EXCEPT ![p] = [o \in ObjectIds |-> @[o] /\ o \notin gone]]
    /\ playerObjects' =
        [playerObjects EXCEPT ![p] = [o \in ObjectIds |-> IF o \in gone THEN NoObject ELSE @[o]]]
    /\ playersObject' =
        [o \in ObjectIds |-> playersObject[o] /\ o \notin gone]

DeleteForPlayer(p, ids) ==
    LET gone == Deletable(p, ids) IN
    /\ playerSlotState' =
        [playerSlotState EXCEPT ![p] = [o \in ObjectIds |-> @[o] /\ o \notin gone]]
    /\ playerObjects' =
        [playerObjects EXCEPT ![p] = [o \in ObjectIds |-> IF o \in gone THEN NoObject ELSE @[o]]]
    /\ playersObject' =
        [o \in ObjectIds |-> IF o \in gone
                             THEN \E q \in Players \ {p} : playerSlotState[q][o]
                             ELSE playersObject[o]]

DestroyPlayerObject(p, o) ==
    /\ ScriptRuns
    /\ p \in connected
    /\ o \in Deletable(p, {o})
    /\ DeleteForPlayer(p, {o})
    /\ UNCHANGED <<connected, objectSlotState, objects, pending, inCallback>>

\* MoveObject and CObject::MoveTo: a later order replaces the earlier one.
MoveObject(o, d) ==
    /\ ScriptRuns
    /\ objects[o] # NoObject
    /\ objects' = [objects EXCEPT ![o] = d]
    /\ UNCHANGED <<connected, objectSlotState, playerSlotState, playerObjects,
                   playersObject, pending, inCallback>>

MovePlayerObject(p, o, d) ==
    /\ ScriptRuns
    /\ p \in connected
    /\ playerObjects[p][o] # NoObject
    /\ playerObjects' = [playerObjects EXCEPT ![p][o] = d]
    /\ UNCHANGED <<connected, objectSlotState, objects, playerSlotState,
                   playersObject, pending, inCallback>>

Stop(p, o) == IF p = Global THEN MoveObject(o, AtRest) ELSE MovePlayerObject(p, o, AtRest)

-----------------------------------------------------------------------------
\* CPlayerPool::New, as far as the object pool is concerned.
Join(p) ==
    /\ BetweenPasses
    /\ p \notin connected
    /\ connected' = connected \cup {p}
    /\ UNCHANGED <<tables, pending, inCallback>>

\* Mutant: the loop over the ids ends one too early.
LeaveButLast(p) ==
    /\ ScriptRuns
    /\ p \in connected
    /\ connected' = connected \ {p}
    /\ DeleteForPlayer(p, ObjectIds \ {MaxObjects - 1})
    /\ UNCHANGED <<objectSlotState, objects, pending, inCallback>>

\* CPlayerPool::Delete, on a disconnection or on a Kick from a script.
Leave(p) ==
    /\ ScriptRuns
    /\ p \in connected
    /\ connected' = connected \ {p}
    /\ DeleteForPlayer(p, ObjectIds)
    /\ UNCHANGED <<objectSlotState, objects, pending, inCallback>>

\* ShutdownForGameModeRestart deletes the pool and Init makes a new one.
GameModeRestart ==
    /\ BetweenPasses
    /\ objectSlotState' = [o \in ObjectIds |-> FALSE]
    /\ objects' = [o \in ObjectIds |-> NoObject]
    /\ playerSlotState' = [p \in Players |-> [o \in ObjectIds |-> FALSE]]
    /\ playerObjects' = [p \in Players |-> [o \in ObjectIds |-> NoObject]]
    /\ playersObject' = [o \in ObjectIds |-> FALSE]
    /\ UNCHANGED <<connected, pending, inCallback>>

-----------------------------------------------------------------------------
(***************************************************************************)
(* One pass of CObjectPool::Process: personal objects by player and id,    *)
(* then global objects by id.  Whether an entry is processed is decided    *)
(* when the loop comes to it, after the callbacks of the earlier ones.     *)
(***************************************************************************)
Before(e, f) == e[1] < f[1] \/ (e[1] = f[1] /\ e[2] < f[2])

Live(e) ==
    LET p == e[1]
        o == e[2]
    IN  IF p = Global
        THEN ~playersObject[o] /\ objectSlotState[o]
        ELSE p \in connected /\ playersObject[o] /\ playerSlotState[p][o]

ObjectAt(e) == IF e[1] = Global THEN objects[e[2]] ELSE playerObjects[e[1]][e[2]]

SetObject(e, obj) ==
    IF e[1] = Global
    THEN objects' = [objects EXCEPT ![e[2]] = obj] /\ UNCHANGED playerObjects
    ELSE playerObjects' = [playerObjects EXCEPT ![e[1]][e[2]] = obj] /\ UNCHANGED objects

StartPass ==
    /\ BetweenPasses
    /\ pending' = Entries
    /\ UNCHANGED <<connected, tables, inCallback>>

\* e is the next entry the loop acts on.
Visits(e) ==
    /\ ~inCallback
    /\ e \in pending
    /\ Live(e)
    /\ \A f \in pending : Live(f) /\ f # e => Before(e, f)

\* Mutant: an object at rest is moved on.
ProcessEntryPastTarget(e) ==
    /\ Visits(e)
    /\ SetObject(e, ObjectAt(e) - 1)
    /\ inCallback' = (ObjectAt(e) = 1)
    /\ pending' = {f \in pending : Before(e, f)}
    /\ UNCHANGED <<connected, objectSlotState, playerSlotState, playersObject>>

\* CObject::Process on the next entry; on arrival the callback starts.
ProcessEntry(e) ==
    /\ Visits(e)
    /\ SetObject(e, IF ObjectAt(e) = AtRest THEN AtRest ELSE ObjectAt(e) - 1)
    /\ inCallback' = (ObjectAt(e) = 1)
    /\ pending' = {f \in pending : Before(e, f)}
    /\ UNCHANGED <<connected, objectSlotState, playerSlotState, playersObject>>

\* Mutant: the pass ends with the first callback.
CallbackReturnsLast ==
    /\ inCallback
    /\ inCallback' = FALSE
    /\ pending' = {}
    /\ UNCHANGED <<connected, tables>>

CallbackReturns ==
    /\ inCallback
    /\ inCallback' = FALSE
    /\ UNCHANGED <<connected, tables, pending>>

EndPass ==
    /\ ~inCallback
    /\ pending # {}
    /\ \A e \in pending : ~Live(e)
    /\ pending' = {}
    /\ UNCHANGED <<connected, tables, inCallback>>

Process == StartPass \/ (\E e \in Entries : ProcessEntry(e)) \/ CallbackReturns \/ EndPass

Natives ==
    \/ \E o \in ObjectIds : CreateObject(o)
    \/ \E p \in Players, o \in ObjectIds : CreatePlayerObject(p, o)
    \/ \E o \in ObjectIds : DestroyObject(o)
    \/ \E p \in Players, o \in ObjectIds : DestroyPlayerObject(p, o)
    \/ \E o \in ObjectIds, d \in Objects \ {AtRest} : MoveObject(o, d)
    \/ \E p \in Players, o \in ObjectIds, d \in Objects \ {AtRest} : MovePlayerObject(p, o, d)
    \/ \E p \in Players \cup {Global}, o \in ObjectIds : Stop(p, o)

Next ==
    \/ Natives
    \/ \E p \in Players : Join(p) \/ Leave(p)
    \/ GameModeRestart
    \/ Process

\* The main loop runs a pass every 10 ms and callbacks return.
Spec == Init /\ [][Next]_vars /\ WF_vars(Process)

-----------------------------------------------------------------------------
(***************************************************************************)
(* Slots and pointers agree.  Process, SpawnForPlayer and the natives      *)
(* follow a pointer after testing the slot, or the slot after the pointer; *)
(* a disagreement is a NULL dereference or an object no pass ever moves.   *)
(***************************************************************************)
SlotsMatchPointers ==
    /\ \A o \in ObjectIds : objectSlotState[o] <=> objects[o] # NoObject
    /\ \A p \in Players, o \in ObjectIds :
        playerSlotState[p][o] <=> playerObjects[p][o] # NoObject

(***************************************************************************)
(* m_bPlayersObject, kept by three operations that never look at the whole *)
(* table, is TRUE exactly for the ids some player owns an object on: a     *)
(* stale TRUE loses the id for global objects, a stale FALSE makes the     *)
(* personal objects unreachable for DeleteForPlayer and Process.           *)
(***************************************************************************)
PersonalFlagExact ==
    \A o \in ObjectIds : playersObject[o] <=> \E p \in Players : playerSlotState[p][o]

(***************************************************************************)
(* An id never names a global and a personal object together: the client   *)
(* has one object per id and the second creation would replace the first.  *)
(***************************************************************************)
OneUsePerId ==
    \A o \in ObjectIds : ~(objectSlotState[o] /\ \E p \in Players : playerSlotState[p][o])

(***************************************************************************)
(* A player who has left owns nothing, whether he disconnected, was kicked *)
(* by a script in the middle of a pass, or left after a restart; so the    *)
(* next player on the slot does not inherit the objects.                   *)
(***************************************************************************)
NothingLeftBehind ==
    \A p \in Players \ connected, o \in ObjectIds : ~playerSlotState[p][o]

(***************************************************************************)
(* Every order to move is carried out: a moving object comes to rest, is   *)
(* destroyed, or is given another order, whatever the callbacks of other   *)
(* objects do to the tables while a pass is going through them.            *)
(***************************************************************************)
Moving(e, d) == ObjectAt(e) = d
MovesEnd == \A e \in Entries : \A d \in 1 .. MaxDistance : Moving(e, d) ~> ~Moving(e, d)

(***************************************************************************)
(* The refinement: an id is held by the server when its global slot is     *)
(* taken, and by the players whose personal slot is.  Whatever the three   *)
(* tables and the passes over them do, to a script the pool looks like     *)
(* ObjectOwnership: no id is taken from its holder or given away twice.    *)
(***************************************************************************)
Holders ==
    [o \in ObjectIds |->
        {h \in Players \cup {Global} :
            IF h = Global THEN objectSlotState[o] ELSE playerSlotState[h][o]}]

Ownership == INSTANCE ObjectOwnership WITH
    Server <- Global, Ids <- ObjectIds, present <- connected, holders <- Holders

ImplementsOwnership == Ownership!Spec
=============================================================================
