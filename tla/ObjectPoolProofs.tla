--------------------------- MODULE ObjectPoolProofs ---------------------------
(***************************************************************************)
(* The object pool's tables agree, and the pool implements ObjectOwnership,*)
(* for every number of players and of object ids.                          *)
(*                                                                         *)
(* None of the invariants is inductive alone.  That an id has one use only *)
(* is kept by CreateObject because m_bPlayersObject says whether somebody  *)
(* owns the id, so it needs PersonalFlagExact; that flag is cleared by     *)
(* DeleteForPlayer, which looks at pointers while the flag speaks of slots,*)
(* so it needs SlotsMatchPointers; a player who leaves loses everything    *)
(* only because no slot of his is hidden behind a cleared flag or a NULL   *)
(* pointer.  Their conjunction is inductive.                               *)
(***************************************************************************)
EXTENDS ObjectPool, TLAPS

Tables == SlotsMatchPointers /\ PersonalFlagExact /\ OneUsePerId /\ NothingLeftBehind
Inv == TypeOK /\ Tables

-----------------------------------------------------------------------------
(* What DeleteForPlayer does to the tables, for any set of ids. *)
LEMMA DeleteForPlayerEffect ==
    ASSUME Inv, NEW p \in Players, NEW ids \in SUBSET ObjectIds,
           DeleteForPlayer(p, ids)
    PROVE  /\ playerSlotState' \in [Players -> [ObjectIds -> BOOLEAN]]
           /\ playerObjects' \in [Players -> [ObjectIds -> Objects \cup {NoObject}]]
           /\ playersObject' \in [ObjectIds -> BOOLEAN]
           /\ \A q \in Players, o \in ObjectIds :
                /\ playerSlotState'[q][o] <=> playerSlotState[q][o] /\ ~(q = p /\ o \in ids)
                /\ playerObjects'[q][o] = IF q = p /\ o \in ids THEN NoObject
                                          ELSE playerObjects[q][o]
           /\ \A o \in ObjectIds :
                playersObject'[o] <=> \E q \in Players : playerSlotState'[q][o]
<1> DEFINE gone == Deletable(p, ids)
<1>1. gone = {o \in ids : playerSlotState[p][o]}
  BY DEF Inv, Tables, TypeOK, SlotsMatchPointers, PersonalFlagExact, Deletable
<1>2. /\ playerSlotState' \in [Players -> [ObjectIds -> BOOLEAN]]
      /\ playerObjects' \in [Players -> [ObjectIds -> Objects \cup {NoObject}]]
      /\ playersObject' \in [ObjectIds -> BOOLEAN]
  BY DEF Inv, TypeOK, DeleteForPlayer, Deletable
<1>3. ASSUME NEW q \in Players, NEW o \in ObjectIds
      PROVE  playerSlotState'[q][o] <=> playerSlotState[q][o] /\ ~(q = p /\ o \in ids)
  BY <1>1, <1>3 DEF Inv, TypeOK, DeleteForPlayer
<1>4. ASSUME NEW q \in Players, NEW o \in ObjectIds
      PROVE  playerObjects'[q][o] = IF q = p /\ o \in ids THEN NoObject
                                    ELSE playerObjects[q][o]
  BY <1>1, <1>4 DEF Inv, TypeOK, Tables, SlotsMatchPointers, DeleteForPlayer
<1>5. ASSUME NEW o \in ObjectIds
      PROVE  playersObject'[o] <=> \E q \in Players : playerSlotState'[q][o]
  <2>1. playersObject'[o] = IF o \in gone THEN \E q \in Players \ {p} : playerSlotState[q][o]
                            ELSE playersObject[o]
    BY <1>5 DEF DeleteForPlayer
  <2>2. CASE o \in gone
    BY <2>1, <2>2, <1>1, <1>3, <1>5
  <2>3. CASE o \notin gone
    BY <2>1, <2>3, <1>1, <1>3, <1>5 DEF Inv, Tables, PersonalFlagExact
  <2> QED BY <2>2, <2>3
<1> QED BY <1>2, <1>3, <1>4, <1>5

-----------------------------------------------------------------------------
(* The inductive invariant holds initially. *)
LEMMA InvInit == Init => Inv
<1> SUFFICES ASSUME Init PROVE Inv
  OBVIOUS
<1>1. TypeOK
  BY DEF Init, EmptyTables, TypeOK
<1>2. Tables
  BY NoObjectAssumption DEF Init, EmptyTables, Tables, SlotsMatchPointers,
     PersonalFlagExact, OneUsePerId, NothingLeftBehind
<1> QED BY <1>1, <1>2 DEF Inv

(* A state of an object is never the NULL pointer. *)
LEMMA ObjectsAreObjects == NoObject \notin Objects /\ AtRest \in Objects
BY NoObjectAssumption, MaxDistanceAssumption DEF Objects, AtRest

(* The holder of global objects is not a player. *)
LEMMA PlayersAreNotGlobal == Global \notin Players
BY NumPlayersAssumption DEF Global, Players

(* The steps that only change the pass leave the tables alone. *)
LEMMA SameTables ==
    ASSUME Inv, UNCHANGED <<connected, tables>>, pending' \in SUBSET Entries,
           inCallback' \in BOOLEAN
    PROVE  Inv'
BY DEF Inv, TypeOK, Tables, tables, SlotsMatchPointers, PersonalFlagExact,
   OneUsePerId, NothingLeftBehind

(* Creating a global object: its id was in nobody's personal use. *)
LEMMA CreateObjectKeeps ==
    ASSUME Inv, NEW o \in ObjectIds, CreateObject(o) PROVE Inv'
<1>1. o \in FreshIds /\ ~objectSlotState[o] /\ ~playersObject[o]
  BY DEF CreateObject, IsLowest, FreeGlobal
<1>2. TypeOK'
  BY ObjectsAreObjects DEF Inv, TypeOK, CreateObject
<1>3. /\ objectSlotState'[o] /\ objects'[o] = AtRest /\ ~playersObject'[o]
      /\ \A q \in ObjectIds \ {o} : /\ objectSlotState'[q] = objectSlotState[q]
                                    /\ objects'[q] = objects[q]
                                    /\ playersObject'[q] = playersObject[q]
      /\ UNCHANGED <<connected, playerSlotState, playerObjects>>
  BY DEF Inv, TypeOK, CreateObject
<1>4. SlotsMatchPointers'
  BY <1>3, ObjectsAreObjects DEF Inv, Tables, SlotsMatchPointers
<1>5. PersonalFlagExact'
  BY <1>1, <1>3 DEF Inv, Tables, PersonalFlagExact
<1>6. OneUsePerId'
  BY <1>1, <1>3 DEF Inv, Tables, PersonalFlagExact, OneUsePerId
<1>7. NothingLeftBehind'
  BY <1>3 DEF Inv, Tables, NothingLeftBehind
<1> QED BY <1>2, <1>4, <1>5, <1>6, <1>7 DEF Inv, Tables

(* Creating a personal object: the id was not global. *)
LEMMA CreatePlayerObjectKeeps ==
    ASSUME Inv, NEW p \in Players, NEW o \in ObjectIds, CreatePlayerObject(p, o)
    PROVE  Inv'
<1>1. p \in connected /\ o \in FreshIds /\ ~objectSlotState[o]
  BY DEF CreatePlayerObject, IsLowest, FreeFor
<1>2. TypeOK'
  BY ObjectsAreObjects DEF Inv, TypeOK, CreatePlayerObject
<1>3. /\ \A q \in Players, i \in ObjectIds :
            /\ playerSlotState'[q][i] <=> playerSlotState[q][i] \/ (q = p /\ i = o)
            /\ playerObjects'[q][i] = IF q = p /\ i = o THEN AtRest ELSE playerObjects[q][i]
      /\ \A i \in ObjectIds : playersObject'[i] <=> playersObject[i] \/ i = o
      /\ UNCHANGED <<connected, objectSlotState, objects>>
  BY DEF Inv, TypeOK, CreatePlayerObject
<1>4. SlotsMatchPointers'
  <2>1. ASSUME NEW q \in Players, NEW i \in ObjectIds
        PROVE  playerSlotState'[q][i] <=> playerObjects'[q][i] # NoObject
    BY <1>3, <2>1, ObjectsAreObjects DEF Inv, Tables, SlotsMatchPointers
  <2> QED BY <1>3, <2>1 DEF Inv, Tables, SlotsMatchPointers
<1>5. PersonalFlagExact'
  BY <1>3 DEF Inv, Tables, PersonalFlagExact
<1>6. OneUsePerId'
  BY <1>1, <1>3 DEF Inv, Tables, OneUsePerId
<1>7. NothingLeftBehind'
  BY <1>1, <1>3 DEF Inv, Tables, NothingLeftBehind
<1> QED BY <1>2, <1>4, <1>5, <1>6, <1>7 DEF Inv, Tables

(* Destroying a global object. *)
LEMMA DestroyObjectKeeps ==
    ASSUME Inv, NEW o \in ObjectIds, DestroyObject(o) PROVE Inv'
<1>1. TypeOK'
  BY DEF Inv, TypeOK, DestroyObject
<1>2. /\ \A q \in ObjectIds :
            /\ objectSlotState'[q] = IF q = o THEN FALSE ELSE objectSlotState[q]
            /\ objects'[q] = IF q = o THEN NoObject ELSE objects[q]
      /\ UNCHANGED <<connected, playerSlotState, playerObjects, playersObject>>
  BY DEF Inv, TypeOK, DestroyObject
<1>3. SlotsMatchPointers'
  <2>1. ASSUME NEW q \in ObjectIds PROVE objectSlotState'[q] <=> objects'[q] # NoObject
    BY <1>2, <2>1 DEF Inv, TypeOK, Tables, SlotsMatchPointers
  <2>2. ASSUME NEW r \in Players, NEW q \in ObjectIds
        PROVE  playerSlotState'[r][q] <=> playerObjects'[r][q] # NoObject
    BY <1>2, <2>2 DEF Inv, Tables, SlotsMatchPointers
  <2> QED BY <2>1, <2>2 DEF SlotsMatchPointers
<1>4. PersonalFlagExact' /\ OneUsePerId' /\ NothingLeftBehind'
  BY <1>2 DEF Inv, Tables, PersonalFlagExact, OneUsePerId, NothingLeftBehind
<1> QED BY <1>1, <1>3, <1>4 DEF Inv, Tables

(* A player loses a set of objects, and may leave with all of them. *)
LEMMA DeleteForPlayerKeeps ==
    ASSUME Inv, NEW p \in Players, NEW ids \in SUBSET ObjectIds,
           DeleteForPlayer(p, ids),
           UNCHANGED <<objectSlotState, objects, pending, inCallback>>,
           \/ connected' = connected
           \/ connected' = connected \ {p} /\ ids = ObjectIds
    PROVE  Inv'
<1>1. TypeOK'
  BY DeleteForPlayerEffect DEF Inv, TypeOK
<1>2. SlotsMatchPointers'
  BY DeleteForPlayerEffect DEF Inv, Tables, SlotsMatchPointers
<1>3. PersonalFlagExact'
  BY DeleteForPlayerEffect DEF PersonalFlagExact
<1>4. OneUsePerId'
  BY DeleteForPlayerEffect DEF Inv, Tables, OneUsePerId
<1>5. NothingLeftBehind'
  BY DeleteForPlayerEffect DEF Inv, Tables, NothingLeftBehind
<1> QED BY <1>1, <1>2, <1>3, <1>4, <1>5 DEF Inv, Tables

(* Giving a live object another state, as the moving natives and Process do. *)
LEMMA SetObjectKeeps ==
    ASSUME Inv, NEW p \in Players \cup {Global}, NEW o \in ObjectIds, NEW obj \in Objects,
           ObjectAt(<<p, o>>) # NoObject, SetObject(<<p, o>>, obj),
           UNCHANGED <<connected, objectSlotState, playerSlotState, playersObject>>,
           pending' \in SUBSET Entries, inCallback' \in BOOLEAN
    PROVE  Inv'
<1>1. TypeOK'
  <2>1. CASE p = Global
    BY <2>1 DEF Inv, TypeOK, SetObject
  <2>2. CASE p \in Players
    <3>1. p # Global
      BY <2>2, PlayersAreNotGlobal
    <3>2. playerObjects' = [playerObjects EXCEPT ![p][o] = obj] /\ objects' = objects
      BY <3>1 DEF SetObject
    <3>3. playerObjects' \in [Players -> [ObjectIds -> Objects \cup {NoObject}]]
      BY <3>2, <2>2 DEF Inv, TypeOK
    <3> QED BY <3>2, <3>3 DEF Inv, TypeOK
  <2> QED BY <2>1, <2>2
<1>2. SlotsMatchPointers'
  <2>1. CASE p = Global
    BY <2>1, ObjectsAreObjects DEF Inv, TypeOK, Tables, SlotsMatchPointers, SetObject, ObjectAt
  <2>2. CASE p \in Players
    <3>1. p # Global
      BY <2>2, PlayersAreNotGlobal
    <3> QED BY <2>2, <3>1, ObjectsAreObjects
            DEF Inv, TypeOK, Tables, SlotsMatchPointers, SetObject, ObjectAt
  <2> QED BY <2>1, <2>2
<1>3. PersonalFlagExact' /\ OneUsePerId' /\ NothingLeftBehind'
  BY DEF Inv, Tables, PersonalFlagExact, OneUsePerId, NothingLeftBehind
<1> QED BY <1>1, <1>2, <1>3 DEF Inv, Tables

(* A script destroys a player's object, or a player leaves. *)
LEMMA LosingKeeps ==
    ASSUME Inv, NEW p \in Players,
           Leave(p) \/ \E o \in ObjectIds : DestroyPlayerObject(p, o)
    PROVE  Inv'
<1>1. CASE Leave(p)
  BY <1>1, DeleteForPlayerKeeps DEF Leave
<1>2. ASSUME NEW o \in ObjectIds, DestroyPlayerObject(p, o) PROVE Inv'
  <2>1. {o} \in SUBSET ObjectIds
    BY <1>2
  <2>2. /\ DeleteForPlayer(p, {o})
        /\ UNCHANGED <<objectSlotState, objects, pending, inCallback>>
        /\ connected' = connected
    BY <1>2 DEF DestroyPlayerObject
  <2> QED BY <2>1, <2>2, DeleteForPlayerKeeps
<1> QED BY <1>1, <1>2

(* Orders to move and to stop, for a global or a personal object. *)
LEMMA MoveKeeps ==
    ASSUME Inv, NEW o \in ObjectIds, NEW d \in Objects,
           MoveObject(o, d) \/ \E p \in Players : MovePlayerObject(p, o, d)
    PROVE  Inv'
<1> SUFFICES ASSUME NEW p \in Players \cup {Global},
                    ObjectAt(<<p, o>>) # NoObject, SetObject(<<p, o>>, d),
                    UNCHANGED <<connected, objectSlotState, playerSlotState, playersObject,
                                pending, inCallback>>
             PROVE  Inv'
  <2>1. CASE MoveObject(o, d)
    BY <2>1 DEF MoveObject, ObjectAt, SetObject
  <2>2. ASSUME NEW p \in Players, MovePlayerObject(p, o, d) PROVE Inv'
    BY <2>2, PlayersAreNotGlobal DEF MovePlayerObject, ObjectAt, SetObject
  <2> QED BY <2>1, <2>2
<1> QED BY SetObjectKeeps DEF Inv, TypeOK

(* What Process acts on is an object: its slot is taken, so its pointer is not NULL. *)
LEMMA LiveObjects ==
    ASSUME Inv, NEW e \in Entries, Live(e)
    PROVE  ObjectAt(e) \in Objects
<1>1. CASE e[1] = Global
  BY <1>1 DEF Entries, Live, ObjectAt, Inv, TypeOK, Tables, SlotsMatchPointers
<1>2. CASE e[1] # Global
  BY <1>2 DEF Entries, Live, ObjectAt, Inv, TypeOK, Tables, SlotsMatchPointers
<1> QED BY <1>1, <1>2

(* A pass moves live objects and runs callbacks; its step keeps the tables. *)
LEMMA ProcessKeeps == ASSUME Inv, Process PROVE Inv'
<1>1. CASE StartPass
  BY <1>1, SameTables DEF StartPass, Inv, TypeOK
<1>2. ASSUME NEW e \in Entries, ProcessEntry(e) PROVE Inv'
  <2> DEFINE obj == IF ObjectAt(e) = AtRest THEN AtRest ELSE ObjectAt(e) - 1
  <2>1. ObjectAt(e) \in Objects
    BY <1>2, LiveObjects DEF ProcessEntry, Visits
  <2>2. obj \in Objects /\ ObjectAt(e) # NoObject
    BY <2>1, ObjectsAreObjects, MaxDistanceAssumption DEF Objects, AtRest
  <2>3. PICK p \in Players \cup {Global}, o \in ObjectIds : e = <<p, o>>
    BY DEF Entries
  <2>4. /\ SetObject(e, obj)
        /\ pending' \in SUBSET Entries
        /\ inCallback' \in BOOLEAN
        /\ UNCHANGED <<connected, objectSlotState, playerSlotState, playersObject>>
    BY <1>2 DEF ProcessEntry, Inv, TypeOK
  <2> HIDE DEF obj
  <2> QED BY <2>2, <2>3, <2>4, SetObjectKeeps
<1>3. CASE CallbackReturns
  BY <1>3, SameTables DEF CallbackReturns, Inv, TypeOK
<1>4. CASE EndPass
  BY <1>4, SameTables DEF EndPass, Inv, TypeOK
<1> QED BY <1>1, <1>2, <1>3, <1>4 DEF Process

(* Every native keeps the tables. *)
LEMMA NativesKeep == ASSUME Inv, Natives PROVE Inv'
<1>1. ASSUME NEW o \in ObjectIds, CreateObject(o) \/ DestroyObject(o) PROVE Inv'
  BY <1>1, CreateObjectKeeps, DestroyObjectKeeps
<1>2. ASSUME NEW p \in Players, NEW o \in ObjectIds,
             CreatePlayerObject(p, o) \/ DestroyPlayerObject(p, o)
      PROVE  Inv'
  BY <1>2, CreatePlayerObjectKeeps, LosingKeeps
<1>3. ASSUME NEW o \in ObjectIds, NEW d \in Objects,
             MoveObject(o, d) \/ \E p \in Players : MovePlayerObject(p, o, d)
      PROVE  Inv'
  BY <1>3, MoveKeeps
<1>4. ASSUME NEW p \in Players \cup {Global}, NEW o \in ObjectIds, Stop(p, o) PROVE Inv'
  <2>1. \/ MoveObject(o, AtRest)
        \/ \E q \in Players : MovePlayerObject(q, o, AtRest)
    BY <1>4 DEF Stop
  <2> QED BY <2>1, <1>3, ObjectsAreObjects
<1> QED BY <1>1, <1>2, <1>3, <1>4 DEF Natives

(* A player joins: his slot was empty and owned nothing. *)
LEMMA JoinKeeps == ASSUME Inv, NEW p \in Players, Join(p) PROVE Inv'
BY DEF Join, Inv, TypeOK, Tables, tables, SlotsMatchPointers, PersonalFlagExact,
   OneUsePerId, NothingLeftBehind

(* The tables of a new pool. *)
LEMMA RestartKeeps == ASSUME Inv, GameModeRestart PROVE Inv'
<1>1. TypeOK'
  BY DEF GameModeRestart, Inv, TypeOK
<1>2. Tables'
  BY NoObjectAssumption DEF GameModeRestart, Tables, SlotsMatchPointers,
     PersonalFlagExact, OneUsePerId, NothingLeftBehind
<1> QED BY <1>1, <1>2 DEF Inv

(* The inductive step. *)
LEMMA InvStep == Inv /\ [Next]_vars => Inv'
<1> SUFFICES ASSUME Inv, [Next]_vars PROVE Inv'
  OBVIOUS
<1>1. CASE Natives
  BY <1>1, NativesKeep
<1>2. ASSUME NEW p \in Players, Join(p) \/ Leave(p) PROVE Inv'
  BY <1>2, JoinKeeps, LosingKeeps
<1>3. CASE GameModeRestart
  BY <1>3, RestartKeeps
<1>4. CASE Process
  BY <1>4, ProcessKeeps
<1>5. CASE UNCHANGED vars
  BY <1>5, SameTables DEF vars, Inv, TypeOK
<1> QED BY <1>1, <1>2, <1>3, <1>4, <1>5 DEF Next

-----------------------------------------------------------------------------
(***************************************************************************)
(* The tables of the object pool agree in every state of every execution:  *)
(* slots and pointers, the personal flag and the slots, one use of an id,  *)
(* and nothing on an empty player slot.                                    *)
(***************************************************************************)
THEOREM TablesAgree ==
    Spec => [](TypeOK /\ SlotsMatchPointers /\ PersonalFlagExact /\ OneUsePerId
               /\ NothingLeftBehind)
<1>1. Inv => TypeOK /\ SlotsMatchPointers /\ PersonalFlagExact /\ OneUsePerId
             /\ NothingLeftBehind
  BY DEF Inv, Tables
<1> QED BY <1>1, InvInit, InvStep, PTL DEF Spec

(* Each of them by itself.  No move goes on past its target, and the pass  *)
(* over the objects visits only entries there are.                         *)
THEOREM TypeCorrect == Spec => []TypeOK
BY TablesAgree, PTL

(* A slot that counts as taken has an object behind it, and only such.     *)
THEOREM PointersMatch == Spec => []SlotsMatchPointers
BY TablesAgree, PTL

(* m_bPlayersObject is set exactly for the ids some player has.            *)
THEOREM FlagExact == Spec => []PersonalFlagExact
BY TablesAgree, PTL

(* No personal object is left on the slot of a player who has gone.        *)
THEOREM NothingLeft == Spec => []NothingLeftBehind
BY TablesAgree, PTL

-----------------------------------------------------------------------------
(* Who holds an id is read off the two slot tables. *)
LEMMA HoldersRead ==
    /\ Holders = [o \in ObjectIds |-> Holders[o]]
    /\ \A o \in ObjectIds :
        /\ Holders[o] \subseteq Players \cup {Global}
        /\ Global \in Holders[o] <=> objectSlotState[o]
        /\ \A p \in Players : p \in Holders[o] <=> playerSlotState[p][o]
BY PlayersAreNotGlobal DEF Holders

(* The same for the next state. *)
LEMMA HoldersReadNext ==
    /\ Holders' = [o \in ObjectIds |-> Holders'[o]]
    /\ \A o \in ObjectIds :
        /\ Holders'[o] \subseteq Players \cup {Global}
        /\ Global \in Holders'[o] <=> objectSlotState'[o]
        /\ \A p \in Players : p \in Holders'[o] <=> playerSlotState'[p][o]
BY PlayersAreNotGlobal DEF Holders

(* The holders of an id after a step, given one by one. *)
LEMMA HoldersAfter ==
    ASSUME NEW q \in ObjectIds, NEW S \in SUBSET (Players \cup {Global}),
           objectSlotState'[q] <=> Global \in S,
           \A h \in Players : playerSlotState'[h][q] <=> h \in S
    PROVE  Holders'[q] = S
<1>1. \A h \in Players \cup {Global} : h \in Holders'[q] <=> h \in S
  BY HoldersReadNext
<1> QED BY <1>1, HoldersReadNext

(* A new pool holds nothing for anybody. *)
LEMMA OwnershipInit == Init => Ownership!Init
BY DEF Init, EmptyTables, Ownership!Init, Holders

(* CreateObject: the server takes an id nobody holds. *)
LEMMA CreateObjectTakes ==
    ASSUME Inv, NEW o \in ObjectIds, CreateObject(o) PROVE Ownership!TakeForAll(o)
<1>1. /\ ~objectSlotState[o]
      /\ \A p \in Players : ~playerSlotState[p][o]
  BY DEF CreateObject, IsLowest, FreeGlobal, Inv, Tables, PersonalFlagExact
<1>2. /\ \A q \in ObjectIds : objectSlotState'[q] <=> objectSlotState[q] \/ q = o
      /\ UNCHANGED <<connected, playerSlotState>>
  BY DEF CreateObject, Inv, TypeOK
<1>3. Holders[o] = {}
  BY <1>1, HoldersRead
<1>4. Holders' = [Holders EXCEPT ![o] = {Global}]
  <2>1. ASSUME NEW q \in ObjectIds
        PROVE  Holders'[q] = IF q = o THEN {Global} ELSE Holders[q]
    BY <1>1, <1>2, <2>1, HoldersRead, HoldersReadNext
  <2> QED BY <2>1, HoldersRead, HoldersReadNext
<1> QED BY <1>2, <1>3, <1>4 DEF Ownership!TakeForAll

(* CreatePlayerObject: a player takes an id that others may hold too. *)
LEMMA CreatePlayerObjectTakes ==
    ASSUME Inv, NEW p \in Players, NEW o \in ObjectIds, CreatePlayerObject(p, o)
    PROVE  Ownership!Take(p, o)
<1>1. p \in connected /\ ~objectSlotState[o] /\ ~playerSlotState[p][o]
  BY DEF CreatePlayerObject, IsLowest, FreeFor
<1>2. /\ \A q \in Players, i \in ObjectIds :
            playerSlotState'[q][i] <=> playerSlotState[q][i] \/ (q = p /\ i = o)
      /\ UNCHANGED <<connected, objectSlotState>>
  BY DEF CreatePlayerObject, Inv, TypeOK
<1>3. Holders[o] \cap {p, Global} = {}
  BY <1>1, HoldersRead
<1>4. Holders' = [Holders EXCEPT ![o] = @ \cup {p}]
  <2>1. ASSUME NEW q \in ObjectIds
        PROVE  Holders'[q] = IF q = o THEN Holders[o] \cup {p} ELSE Holders[q]
    <3> DEFINE S == IF q = o THEN Holders[o] \cup {p} ELSE Holders[q]
    <3>1. S \in SUBSET (Players \cup {Global})
      BY <2>1, HoldersRead
    <3>2. objectSlotState'[q] <=> Global \in S
      BY <1>2, <2>1, PlayersAreNotGlobal, HoldersRead
    <3>3. ASSUME NEW h \in Players PROVE playerSlotState'[h][q] <=> h \in S
      BY <1>2, <2>1, <3>3, PlayersAreNotGlobal, HoldersRead
    <3> HIDE DEF S
    <3>4. Holders'[q] = S
      BY <3>1, <3>2, <3>3, HoldersAfter
    <3> QED BY <3>4 DEF S
  <2> QED BY <2>1, HoldersRead, HoldersReadNext
<1> QED BY <1>1, <1>2, <1>3, <1>4 DEF Ownership!Take

(* DestroyObject: the server gives up its id. *)
LEMMA DestroyObjectGivesUp ==
    ASSUME Inv, NEW o \in ObjectIds, DestroyObject(o)
    PROVE  Ownership!GiveUp(Global, o)
<1>1. /\ objectSlotState[o]
      /\ \A q \in ObjectIds : objectSlotState'[q] <=> objectSlotState[q] /\ q # o
      /\ UNCHANGED <<connected, playerSlotState>>
  BY DEF DestroyObject, Inv, TypeOK
<1>2. Holders' = [Holders EXCEPT ![o] = @ \ {Global}]
  <2>1. ASSUME NEW q \in ObjectIds
        PROVE  Holders'[q] = IF q = o THEN Holders[o] \ {Global} ELSE Holders[q]
    <3> DEFINE S == IF q = o THEN Holders[o] \ {Global} ELSE Holders[q]
    <3>1. S \in SUBSET (Players \cup {Global})
      BY <2>1, HoldersRead
    <3>2. objectSlotState'[q] <=> Global \in S
      BY <1>1, <2>1, PlayersAreNotGlobal, HoldersRead
    <3>3. ASSUME NEW h \in Players PROVE playerSlotState'[h][q] <=> h \in S
      BY <1>1, <2>1, <3>3, PlayersAreNotGlobal, HoldersRead
    <3> HIDE DEF S
    <3>4. Holders'[q] = S
      BY <3>1, <3>2, <3>3, HoldersAfter
    <3> QED BY <3>4 DEF S
  <2> QED BY <2>1, HoldersRead, HoldersReadNext
<1> QED BY <1>1, <1>2, HoldersRead DEF Ownership!GiveUp

(* DestroyPlayerObject: the player gives up the id, others keep theirs. *)
LEMMA DestroyPlayerObjectGivesUp ==
    ASSUME Inv, NEW p \in Players, NEW o \in ObjectIds, DestroyPlayerObject(p, o)
    PROVE  Ownership!GiveUp(p, o)
<1>1. playerSlotState[p][o]
  BY DEF DestroyPlayerObject, Deletable, Inv, Tables, SlotsMatchPointers
<1>2. /\ \A q \in Players, i \in ObjectIds :
            playerSlotState'[q][i] <=> playerSlotState[q][i] /\ ~(q = p /\ i \in {o})
      /\ UNCHANGED <<connected, objectSlotState>>
  <2>1. {o} \in SUBSET ObjectIds /\ DeleteForPlayer(p, {o})
    BY DEF DestroyPlayerObject
  <2> QED BY <2>1, DeleteForPlayerEffect DEF DestroyPlayerObject
<1>3. Holders' = [Holders EXCEPT ![o] = @ \ {p}]
  <2>1. ASSUME NEW q \in ObjectIds
        PROVE  Holders'[q] = IF q = o THEN Holders[o] \ {p} ELSE Holders[q]
    <3> DEFINE S == IF q = o THEN Holders[o] \ {p} ELSE Holders[q]
    <3>1. S \in SUBSET (Players \cup {Global})
      BY <2>1, HoldersRead
    <3>2. objectSlotState'[q] <=> Global \in S
      BY <1>2, <2>1, PlayersAreNotGlobal, HoldersRead
    <3>3. ASSUME NEW h \in Players PROVE playerSlotState'[h][q] <=> h \in S
      BY <1>2, <2>1, <3>3, PlayersAreNotGlobal, HoldersRead
    <3> HIDE DEF S
    <3>4. Holders'[q] = S
      BY <3>1, <3>2, <3>3, HoldersAfter
    <3> QED BY <3>4 DEF S
  <2> QED BY <2>1, HoldersRead, HoldersReadNext
<1> QED BY <1>1, <1>2, <1>3, HoldersRead DEF Ownership!GiveUp

(* CPlayerPool::Delete: the player gives up all he holds, and nobody else does. *)
LEMMA LeaveGoes ==
    ASSUME Inv, NEW p \in Players, Leave(p) PROVE Ownership!Go(p)
<1>1. /\ \A q \in Players, i \in ObjectIds :
            playerSlotState'[q][i] <=> playerSlotState[q][i] /\ q # p
      /\ connected' = connected \ {p}
      /\ UNCHANGED objectSlotState
  BY DeleteForPlayerEffect DEF Leave
<1>2. Holders' = [o \in ObjectIds |-> Holders[o] \ {p}]
  <2>1. ASSUME NEW q \in ObjectIds PROVE Holders'[q] = Holders[q] \ {p}
    BY <1>1, <2>1, PlayersAreNotGlobal, HoldersRead, HoldersReadNext
  <2> QED BY <2>1, HoldersReadNext
<1> QED BY <1>1, <1>2 DEF Ownership!Go

(* Moves and passes change no holder. *)
LEMMA SameHolders ==
    ASSUME UNCHANGED <<connected, objectSlotState, playerSlotState>>
    PROVE  UNCHANGED <<connected, Holders>>
BY DEF Holders

(* Every step of the pool is a step of ObjectOwnership or changes nothing in it. *)
LEMMA OwnershipStep ==
    Inv /\ [Next]_vars => [Ownership!Next]_<<connected, Holders>>
<1> SUFFICES ASSUME Inv, [Next]_vars
             PROVE  [Ownership!Next]_<<connected, Holders>>
  OBVIOUS
<1> USE DEF Ownership!Next
<1>1. CASE Natives
  <2>1. ASSUME NEW o \in ObjectIds, CreateObject(o) PROVE Ownership!Next
    BY <2>1, CreateObjectTakes
  <2>2. ASSUME NEW p \in Players, NEW o \in ObjectIds, CreatePlayerObject(p, o)
        PROVE  Ownership!Next
    BY <2>2, CreatePlayerObjectTakes
  <2>3. ASSUME NEW o \in ObjectIds, DestroyObject(o) PROVE Ownership!Next
    BY <2>3, DestroyObjectGivesUp
  <2>4. ASSUME NEW p \in Players, NEW o \in ObjectIds, DestroyPlayerObject(p, o)
        PROVE  Ownership!Next
    BY <2>4, DestroyPlayerObjectGivesUp
  <2>5. ASSUME NEW p \in Players \cup {Global}, NEW o \in ObjectIds, NEW d \in Objects,
               MoveObject(o, d) \/ MovePlayerObject(p, o, d) \/ Stop(p, o)
        PROVE  UNCHANGED <<connected, Holders>>
    BY <2>5, SameHolders DEF Stop, MoveObject, MovePlayerObject
  <2> QED BY <1>1, <2>1, <2>2, <2>3, <2>4, <2>5, ObjectsAreObjects DEF Natives
<1>2. ASSUME NEW p \in Players, Join(p) PROVE Ownership!Next
  <2>1. connected' = connected \cup {p} /\ UNCHANGED <<objectSlotState, playerSlotState>>
    BY <1>2 DEF Join, tables
  <2>2. Ownership!Come(p)
    BY <2>1 DEF Ownership!Come, Holders
  <2> QED BY <2>2
<1>3. ASSUME NEW p \in Players, Leave(p) PROVE Ownership!Next
  BY <1>3, LeaveGoes
<1>4. CASE GameModeRestart
  BY <1>4 DEF GameModeRestart, Ownership!Reset, Holders
<1>5. CASE Process
  <2>1. UNCHANGED <<connected, objectSlotState, playerSlotState>>
    BY <1>5 DEF Process, StartPass, ProcessEntry, CallbackReturns, EndPass, tables
  <2> QED BY <2>1, SameHolders
<1>6. CASE UNCHANGED vars
  BY <1>6, SameHolders DEF vars, tables
<1> QED BY <1>1, <1>2, <1>3, <1>4, <1>5, <1>6 DEF Next

(***************************************************************************)
(* The pool implements ObjectOwnership: whatever the tables and the passes *)
(* do, no id is handed out while somebody else has the use of it, none is  *)
(* taken from its holder but by him, and a leaving player loses only his.  *)
(***************************************************************************)
THEOREM PoolImplementsOwnership == Spec => ImplementsOwnership
<1> QED BY InvInit, InvStep, OwnershipInit, OwnershipStep, PTL
        DEF Spec, ImplementsOwnership, Ownership!Spec

=============================================================================
