-------------------------- MODULE ClassSelectionProofs --------------------------
(***************************************************************************)
(* Proofs about ClassSelection, for any skins, any game modes and any      *)
(* number of messages.                                                     *)
(*                                                                         *)
(* That client and server agree on the skin rests on there being one       *)
(* question at a time: while the player does not ask for a class with      *)
(* another question under way, at most one message about a class and one   *)
(* about spawning exists anywhere, not both, and what each side keeps is   *)
(* what that message says.  That everybody gets an answer rests on the     *)
(* class selected being one of the game mode's whenever he may ask.        *)
(***************************************************************************)
EXTENDS ClassSelection, TLAPS

Asked == \E m \in toServer : m.kind = "class"
BeingAsked == ~Idle /\ handling.kind = "class"
Answered == \E m \in toClient : m.kind = "classReply"

(* What is kept and sent, and the flags. *)
Messages ==
    /\ life \in {"choosing", "active", "wasted"}
    /\ info \in Skins \cup {NoClass}
    /\ selected \in Int /\ classes \in Nat
    /\ offer \in Seq(Skins)
    /\ spawnInfo \in Skins \cup {NoClass, Garbage}
    /\ toServer \subseteq ToServer
    /\ toClient \subseteq ToClient
    /\ due \subseteq toServer \cup toClient
    /\ handling \in ToServer \cup {Nothing}

Flags ==
    /\ {spectating, cleared, waiting, connected, running} \subseteq BOOLEAN
    /\ {refused, lost, orderly, misled} \subseteq BOOLEAN

(* What a restart leaves and what waiting means, whatever scripts do. *)
Phases ==
    /\ Restarting \in toClient => ~running
    /\ ~running => Idle
    /\ cleared \/ waiting => info # NoClass
    /\ waiting => life = "choosing"
    /\ BeingAsked => spawnInfo \in Skins

(* During a restart all but what scripts order was sent before it. *)
Owed ==
    ~running => \A m \in toClient :
                  m.kind \in {"classReply", "spawnReply", "init", "restart"} => m \in due

(* Who is not in a game mode has its InitGame coming, and the first class  *)
(* selected; who is in it has selected one of its classes.                 *)
Selecting ==
    /\ running /\ ~connected => Starting
    /\ running => \A n \in Nat : InitGame(n) \in toClient => n = Len(offer)
    /\ ~misled =>
         /\ ~connected => selected = 0
         /\ running /\ Starting => ~connected
         /\ ~running /\ Restarting \notin toClient => ~connected
         /\ running /\ ~Starting /\ offer # <<>> => classes = Len(offer) /\ selected \in Numbers

(* A request the server will not ignore is under way, or the answer. *)
ToBeAnswered ==
    \/ BeingAsked \/ Answered
    \/ \E m \in toServer : m.kind = "class" /\ m.number \in Numbers

Answering ==
    /\ running /\ ~misled /\ ~Starting /\ offer # <<>> /\ ~cleared /\ ~refused => ToBeAnswered
    /\ waiting => AnswerUnderWay \/ lost

(* Scripts that leave the spawning to the player. *)
Unscripted ==
    /\ ~spectating
    /\ SpawnOrder \notin toClient
    /\ \A b \in BOOLEAN : Spectate(b) \notin toClient
    /\ \A c \in Skins : SpawnInfo(c) \notin toClient
    /\ ~running => spawnInfo = NoClass

(* There is one message about a class at most. *)
OneClass ==
    /\ ~(Asked /\ BeingAsked) /\ ~(Asked /\ Answered) /\ ~(BeingAsked /\ Answered)
    /\ \A m, p \in toServer : m.kind = "class" /\ p.kind = "class" => m = p
    /\ \A m, p \in toClient : m.kind = "classReply" /\ p.kind = "classReply" => m = p

(* There is one request to spawn, or answer to it, at most. *)
OneAnswer ==
    /\ SpawnRequest \in toServer =>
         handling # SpawnRequest /\ \A b \in BOOLEAN : SpawnReply(b) \notin toClient
    /\ handling = SpawnRequest => \A b \in BOOLEAN : SpawnReply(b) \notin toClient
    /\ ~(SpawnReply(TRUE) \in toClient /\ SpawnReply(FALSE) \in toClient)

(* While the player may go on, is waiting or has spawned, no class is      *)
(* under way, and the server keeps the skin the messages speak of, or has  *)
(* forgotten it in a restart.                                              *)
Agreed ==
    /\ cleared \/ SpawnUnderWay => ~Asked /\ ~BeingAsked /\ ~Answered
    /\ AnswerUnderWay => waiting
    /\ \A c \in Skins : handling = Spawned(c) => spawnInfo = c
    /\ running =>
         /\ \A b \in BOOLEAN, c \in Skins : ClassReply(b, c) \in toClient => spawnInfo = c
         /\ \A c \in Skins : Spawned(c) \in toServer => spawnInfo \in {c, NoClass}
         /\ AnswerUnderWay \/ (cleared /\ connected) => spawnInfo \in {info, NoClass}
    /\ ~running /\ connected /\ Restarting \notin toClient => ~cleared /\ ~Answered

Inv ==
    /\ Messages
    /\ Flags
    /\ Phases
    /\ Owed
    /\ Selecting
    /\ Answering
    /\ orderly => Unscripted /\ OneClass /\ OneAnswer /\ Agreed

-----------------------------------------------------------------------------
(* Messages of different kinds are different, and so are those of          *)
(* different classes, skins or answers.                                    *)
LEMMA ToServerKinds ==
    /\ SpawnRequest \in ToServer /\ SpawnRequest.kind = "request"
    /\ \A i \in Int : /\ ClassRequest(i) \in ToServer
                      /\ ClassRequest(i).kind = "class" /\ ClassRequest(i).number = i
    /\ \A c \in Skins : /\ Spawned(c) \in ToServer
                        /\ Spawned(c).kind = "spawn" /\ Spawned(c).skin = c
    /\ Nothing \notin ToServer
    /\ \A m \in ToServer :
         /\ m.kind = "class" => m.number \in Int /\ m = ClassRequest(m.number)
         /\ m.kind = "spawn" => m.skin \in Skins /\ m = Spawned(m.skin)
         /\ m.kind = "request" => m = SpawnRequest
         /\ m.kind \in {"class", "spawn", "request"}
BY ClassesAssumption DEF ToServer, ClassRequest, SpawnRequest, Spawned

LEMMA ToClientKinds ==
    /\ {SpawnOrder, Restarting} \subseteq ToClient
    /\ SpawnOrder.kind = "order" /\ Restarting.kind = "restart"
    /\ \A n \in Nat : InitGame(n) \in ToClient /\ InitGame(n).kind = "init" /\ InitGame(n).classes = n
    /\ \A c \in Skins : SpawnInfo(c) \in ToClient /\ SpawnInfo(c).kind = "info" /\ SpawnInfo(c).skin = c
    /\ \A b \in BOOLEAN : /\ SpawnReply(b) \in ToClient /\ SpawnReply(b).kind = "spawnReply"
                          /\ SpawnReply(b).ok = b
                          /\ Spectate(b) \in ToClient /\ Spectate(b).kind = "spectate"
                          /\ Spectate(b).on = b
    /\ \A b \in BOOLEAN, c \in Skins : /\ ClassReply(b, c) \in ToClient
                                       /\ ClassReply(b, c).kind = "classReply"
                                       /\ ClassReply(b, c).ok = b
                                       /\ ClassReply(b, c).skin = c
BY DEF ToClient, SpawnOrder, Restarting, InitGame, SpawnInfo, SpawnReply, Spectate, ClassReply

(* ... and there are no others. *)
LEMMA ToClientOnly ==
    \A m \in ToClient :
      /\ m.kind = "classReply" => m.ok \in BOOLEAN /\ m.skin \in Skins /\ m = ClassReply(m.ok, m.skin)
      /\ m.kind = "init" => m.classes \in Nat /\ m = InitGame(m.classes)
      /\ m.kind = "restart" => m = Restarting
BY DEF ToClient, Restarting, InitGame, ClassReply

Operation ==
    \/ PressShift \/ Die \/ Respawn \/ ChooseClass \/ ReturnToSelection
    \/ HearSpawnOrder \/ HearRestarting \/ BeginRequest \/ EndSpawn \/ SpawnPlayer
    \/ Shutdown \/ ReInit
    \/ \E n \in Nat : HearInitGame(n)
    \/ \E i \in Int : BeginClass(i) \/ IgnoreClass(i)
    \/ \E m \in toServer : Ignore(m)
    \/ \E b \in BOOLEAN : \/ HearSpawnReply(b) \/ HearSpectate(b) \/ AnswerClass(b)
                          \/ AnswerRequest(b) \/ TogglePlayerSpectating(b)
    \/ \E c \in Skins : \/ HearSpawnInfo(c) \/ BeginSpawn(c) \/ IgnoreSpawn(c) \/ Discard(c)
                        \/ SetSpawnInfo(c) \/ SetPlayerSkin(c)
    \/ \E b \in BOOLEAN, c \in Skins : HearClassReply(b, c)

Step == Operation \/ UNCHANGED vars

LEMMA Steps == ASSUME Inv, [Next]_vars PROVE Step
<1>1. ASSUME Player \/ Scripts \/ Shutdown \/ ReInit PROVE Operation
  BY <1>1, Zenon DEF Player, Scripts, Operation
<1>2. ASSUME Hearing PROVE Operation
  <2>1. \A o \in Offers : Len(o) \in Nat
    BY ClassesAssumption
  <2>2. (\E n \in {Len(o) : o \in Offers} : HearInitGame(n)) => \E n \in Nat : HearInitGame(n)
    BY <2>1
  <2>3. QED
    BY <1>2, <2>2, Zenon DEF Hearing, Operation
<1>3. ASSUME Handling PROVE Operation
  <2>1. \A m \in toServer : m.kind = "class" => m.number \in Int
    BY ToServerKinds DEF Inv, Messages
  <2>2. QED
    BY <1>3, <2>1, Zenon DEF Handling, Operation
<1>4. QED
  BY <1>1, <1>2, <1>3, Zenon DEF Next, Step

(* The arrow keys ask for a number, and for one of a class if they went     *)
(* round from one.                                                          *)
LEMMA Chosen ==
    ASSUME Inv, ChooseClass
    PROVE  \E i \in Int : /\ AskForClass(i)
                          /\ selected \in 0 .. classes - 1 => i \in 0 .. classes - 1
<1>1. LeftOf \in Int /\ RightOf \in Int
  BY DEF Inv, Messages, LeftOf, RightOf
<1>2. selected \in 0 .. classes - 1 => LeftOf \in 0 .. classes - 1 /\ RightOf \in 0 .. classes - 1
  BY DEF Inv, Messages, LeftOf, RightOf
<1>3. QED
  BY <1>1, <1>2, Zenon DEF ChooseClass

(* A class of the game mode has a spawn info. *)
LEMMA HasSkin ==
    ASSUME Inv, NEW i \in Numbers
    PROVE  offer[i + 1] \in Skins
BY DEF Inv, Messages, Numbers

(* Who asks for a class in good order asks when nothing else is under way. *)
LEMMA AskedInOrder ==
    ASSUME Inv, NEW i \in Int, AskForClass(i), orderly'
    PROVE  orderly /\ ~Asked /\ ~BeingAsked /\ ~Answered /\ ~SpawnUnderWay
BY Zenon DEF AskForClass, ClassUnderWay, Asked, BeingAsked, Answered

LEMMA AskedIsOne ==
    ASSUME Inv, NEW i \in Int, AskForClass(i), toClient' \subseteq toClient, handling' = handling
    PROVE  (orderly => OneClass)'
<1> SUFFICES ASSUME orderly' PROVE OneClass'
  OBVIOUS
<1>1. ~Asked /\ ~BeingAsked /\ ~Answered
  BY AskedInOrder
<1>2. toServer' = toServer \cup {ClassRequest(i)}
  BY DEF AskForClass
<1>3. ~BeingAsked' /\ ~Answered'
  BY <1>1 DEF BeingAsked, Answered, Idle
<1>4. \A m \in toServer' : m.kind = "class" => m = ClassRequest(i)
  BY <1>1, <1>2 DEF Asked
<1>5. QED
  BY <1>3, <1>4 DEF OneClass, Answered

LEMMA InvInit == Init => Inv
<1> SUFFICES ASSUME Init PROVE Inv
  OBVIOUS
<1>1. Flags
  BY Zenon DEF Init, Flags
<1>2. offer \in Seq(Skins) /\ Len(offer) \in Nat
  BY ClassesAssumption DEF Init
<1>3. toClient = {InitGame(Len(offer))} /\ InitGame(Len(offer)).kind = "init" /\ InitGame(Len(offer)) \in ToClient
  BY <1>2, ToClientKinds DEF Init
<1>4. Messages
  BY <1>2, <1>3 DEF Init, Messages
<1>5. Phases /\ Owed
  BY <1>3, ToClientKinds DEF Init, Phases, Owed, Idle, BeingAsked
<1>6. Selecting
  <2>1. Starting
    BY <1>3 DEF Starting
  <2>2. \A n \in Nat : InitGame(n) \in toClient => n = Len(offer)
    BY <1>2, <1>3, ToClientKinds
  <2>3. QED
    BY <2>1, <2>2 DEF Init, Selecting
<1>7. Answering
  BY <1>3 DEF Init, Answering, Starting
<1>8. Unscripted
  BY <1>3, ToClientKinds DEF Init, Unscripted
<1>9. OneClass /\ OneAnswer
  BY <1>3, ToServerKinds, ToClientKinds
     DEF Init, OneClass, OneAnswer, Asked, BeingAsked, Answered, Idle
<1>10. Agreed
  BY <1>3, ToServerKinds, ToClientKinds
     DEF Init, Agreed, SpawnUnderWay, AnswerUnderWay, Asked, BeingAsked, Answered, Idle
<1>11. QED
  BY <1>1, <1>4, <1>5, <1>6, <1>7, <1>8, <1>9, <1>10, Zenon DEF Inv

-----------------------------------------------------------------------------
(***************************************************************************)
(* The steps, for one part of the invariant after the other.               *)
(***************************************************************************)
(* The flags are Booleans; none of the rest depends on how they are typed. *)
LEMMA FlagsKept == ASSUME Inv, Step PROVE Flags'
<1> USE DEF Inv, Flags, history, client, server
<1>1. ASSUME ChooseClass PROVE Flags'
  BY <1>1, Zenon DEF ChooseClass, AskForClass
<1>2. ASSUME PressShift PROVE Flags'
  BY <1>2, Zenon DEF PressShift
<1>3. ASSUME Die PROVE Flags'
  BY <1>3, Zenon DEF Die, Spawning
<1>4. ASSUME Respawn PROVE Flags'
  BY <1>4, Zenon DEF Respawn, Spawn, Spawning
<1>5. ASSUME ReturnToSelection PROVE Flags'
  BY <1>5, Zenon DEF ReturnToSelection, AskForClass
<1>6. ASSUME NEW b \in BOOLEAN, NEW c \in Skins, HearClassReply(b, c) PROVE Flags'
  BY <1>6, Zenon DEF HearClassReply, Hear
<1>7. ASSUME NEW b \in BOOLEAN, HearSpawnReply(b) PROVE Flags'
  BY <1>7, Zenon DEF HearSpawnReply, Hear, Spawn, Spawning
<1>8. ASSUME HearSpawnOrder PROVE Flags'
  BY <1>8, Zenon DEF HearSpawnOrder, Hear, Spawn, Spawning
<1>9. ASSUME NEW c \in Skins, HearSpawnInfo(c) PROVE Flags'
  BY <1>9, Zenon DEF HearSpawnInfo, Hear
<1>10. ASSUME NEW b \in BOOLEAN, HearSpectate(b) PROVE Flags'
  BY <1>10, Zenon DEF HearSpectate, Hear, Spawn, Spawning
<1>11. ASSUME HearRestarting PROVE Flags'
  BY <1>11, Zenon DEF HearRestarting, Hear, Spawning
<1>12. ASSUME NEW n \in Nat, HearInitGame(n) PROVE Flags'
  BY <1>12, Zenon DEF HearInitGame, Hear, AskForClass
<1>13. ASSUME NEW m \in toServer, Ignore(m) PROVE Flags'
  BY <1>13, Zenon DEF Ignore, Arrives, Leaves
<1>14. ASSUME NEW i \in Int, BeginClass(i) PROVE Flags'
  BY <1>14, Zenon DEF BeginClass, Arrives, Leaves
<1>15. ASSUME NEW i \in Int, IgnoreClass(i) PROVE Flags'
  BY <1>15, Zenon DEF IgnoreClass, Arrives, Leaves
<1>16. ASSUME NEW b \in BOOLEAN, AnswerClass(b) PROVE Flags'
  BY <1>16, Zenon DEF AnswerClass
<1>17. ASSUME BeginRequest PROVE Flags'
  BY <1>17, Zenon DEF BeginRequest, Arrives, Leaves
<1>18. ASSUME NEW b \in BOOLEAN, AnswerRequest(b) PROVE Flags'
  BY <1>18, Zenon DEF AnswerRequest
<1>19. ASSUME NEW c \in Skins, BeginSpawn(c) PROVE Flags'
  BY <1>19, Zenon DEF BeginSpawn, Arrives, Leaves
<1>20. ASSUME NEW c \in Skins, IgnoreSpawn(c) PROVE Flags'
  BY <1>20, Zenon DEF IgnoreSpawn, Arrives, Leaves
<1>21. ASSUME EndSpawn PROVE Flags'
  BY <1>21, Zenon DEF EndSpawn
<1>22. ASSUME NEW c \in Skins, Discard(c) PROVE Flags'
  BY <1>22, Zenon DEF Discard, Leaves
<1>23. ASSUME NEW c \in Skins, SetSpawnInfo(c) PROVE Flags'
  BY <1>23, Zenon DEF SetSpawnInfo, Order
<1>24. ASSUME SpawnPlayer PROVE Flags'
  BY <1>24, Zenon DEF SpawnPlayer, Order
<1>25. ASSUME NEW b \in BOOLEAN, TogglePlayerSpectating(b) PROVE Flags'
  BY <1>25, Zenon DEF TogglePlayerSpectating, Order
<1>26. ASSUME NEW c \in Skins, SetPlayerSkin(c) PROVE Flags'
  BY <1>26, Zenon DEF SetPlayerSkin
<1>27. ASSUME Shutdown PROVE Flags'
  BY <1>27, Zenon DEF Shutdown
<1>28. ASSUME ReInit PROVE Flags'
  BY <1>28, Zenon DEF ReInit
<1>29. CASE UNCHANGED vars
  BY <1>29, Zenon DEF vars
<1>30. QED
  BY <1>1, <1>2, <1>3, <1>4, <1>5, <1>6, <1>7, <1>8, <1>9, <1>10, <1>11, <1>12, <1>13,
     <1>14, <1>15, <1>16, <1>17, <1>18, <1>19, <1>20, <1>21, <1>22, <1>23, <1>24, <1>25,
     <1>26, <1>27, <1>28, <1>29 DEF Step, Operation

(* No class comes from nowhere: what is sent is what one side keeps. *)
LEMMA MessagesKept == ASSUME Inv, Step PROVE Messages'
<1> USE ToServerKinds, ToClientKinds, ClassesAssumption
    DEF Inv, Messages, Phases, BeingAsked, Idle, choice, history, client, server
<1>1. ASSUME ChooseClass PROVE Messages'
  <2>1. PICK i \in Int : AskForClass(i)
    BY <1>1, Chosen
  <2>2. QED
    BY <1>1, <2>1 DEF ChooseClass, AskForClass
<1>2. ASSUME PressShift PROVE Messages'
  BY <1>2 DEF PressShift
<1>3. ASSUME Die PROVE Messages'
  BY <1>3 DEF Die, Spawning
<1>4. ASSUME Respawn PROVE Messages'
  BY <1>4 DEF Respawn, Spawn, Spawning
<1>5. ASSUME ReturnToSelection PROVE Messages'
  BY <1>5 DEF ReturnToSelection, AskForClass
<1>6. ASSUME NEW b \in BOOLEAN, NEW c \in Skins, HearClassReply(b, c) PROVE Messages'
  BY <1>6 DEF HearClassReply, Hear
<1>7. ASSUME NEW b \in BOOLEAN, HearSpawnReply(b) PROVE Messages'
  BY <1>7 DEF HearSpawnReply, Hear, Spawn, Spawning
<1>8. ASSUME HearSpawnOrder PROVE Messages'
  BY <1>8 DEF HearSpawnOrder, Hear, Spawn, Spawning
<1>9. ASSUME NEW c \in Skins, HearSpawnInfo(c) PROVE Messages'
  BY <1>9 DEF HearSpawnInfo, Hear
<1>10. ASSUME NEW b \in BOOLEAN, HearSpectate(b) PROVE Messages'
  BY <1>10 DEF HearSpectate, Hear, Spawn, Spawning
<1>11. ASSUME HearRestarting PROVE Messages'
  BY <1>11 DEF HearRestarting, Hear, Spawning
<1>12. ASSUME NEW n \in Nat, HearInitGame(n) PROVE Messages'
  BY <1>12 DEF HearInitGame, Hear, AskForClass
<1>13. ASSUME NEW m \in toServer, Ignore(m) PROVE Messages'
  BY <1>13 DEF Ignore, Arrives, Leaves
<1>14. ASSUME NEW i \in Int, BeginClass(i) PROVE Messages'
  <2>1. i \in Numbers /\ offer[i + 1] \in Skins
    BY <1>14, HasSkin DEF BeginClass
  <2>2. QED
    BY <1>14, <2>1 DEF BeginClass, Arrives, Leaves
<1>15. ASSUME NEW i \in Int, IgnoreClass(i) PROVE Messages'
  BY <1>15 DEF IgnoreClass, Arrives, Leaves
<1>16. ASSUME NEW b \in BOOLEAN, AnswerClass(b) PROVE Messages'
  BY <1>16 DEF AnswerClass
<1>17. ASSUME BeginRequest PROVE Messages'
  BY <1>17 DEF BeginRequest, Arrives, Leaves
<1>18. ASSUME NEW b \in BOOLEAN, AnswerRequest(b) PROVE Messages'
  BY <1>18 DEF AnswerRequest
<1>19. ASSUME NEW c \in Skins, BeginSpawn(c) PROVE Messages'
  BY <1>19 DEF BeginSpawn, Arrives, Leaves
<1>20. ASSUME NEW c \in Skins, IgnoreSpawn(c) PROVE Messages'
  BY <1>20 DEF IgnoreSpawn, Arrives, Leaves
<1>21. ASSUME EndSpawn PROVE Messages'
  BY <1>21 DEF EndSpawn
<1>22. ASSUME NEW c \in Skins, Discard(c) PROVE Messages'
  BY <1>22 DEF Discard, Leaves
<1>23. ASSUME NEW c \in Skins, SetSpawnInfo(c) PROVE Messages'
  BY <1>23 DEF SetSpawnInfo, Order
<1>24. ASSUME SpawnPlayer PROVE Messages'
  BY <1>24 DEF SpawnPlayer, Order
<1>25. ASSUME NEW b \in BOOLEAN, TogglePlayerSpectating(b) PROVE Messages'
  BY <1>25 DEF TogglePlayerSpectating, Order
<1>26. ASSUME NEW c \in Skins, SetPlayerSkin(c) PROVE Messages'
  BY <1>26 DEF SetPlayerSkin
<1>27. ASSUME Shutdown PROVE Messages'
  BY <1>27 DEF Shutdown
<1>28. ASSUME ReInit PROVE Messages'
  BY <1>28 DEF ReInit
<1>29. CASE UNCHANGED vars
  BY <1>29 DEF vars
<1>30. QED
  BY <1>1, <1>2, <1>3, <1>4, <1>5, <1>6, <1>7, <1>8, <1>9, <1>10, <1>11, <1>12, <1>13,
     <1>14, <1>15, <1>16, <1>17, <1>18, <1>19, <1>20, <1>21, <1>22, <1>23, <1>24, <1>25,
     <1>26, <1>27, <1>28, <1>29 DEF Step, Operation

(* The server handles nothing during a restart, and nobody waits in the game. *)
LEMMA PhasesKept == ASSUME Inv, Step PROVE Phases'
<1> USE ToServerKinds, ToClientKinds, ClassesAssumption
    DEF Inv, Messages, Phases, BeingAsked, Idle, choice, history, client, server
<1>1. ASSUME ChooseClass PROVE Phases'
  BY <1>1 DEF ChooseClass, AskForClass
<1>2. ASSUME PressShift PROVE Phases'
  BY <1>2 DEF PressShift
<1>3. ASSUME Die PROVE Phases'
  BY <1>3 DEF Die, Spawning
<1>4. ASSUME Respawn PROVE Phases'
  BY <1>4 DEF Respawn, Spawn, Spawning
<1>5. ASSUME ReturnToSelection PROVE Phases'
  BY <1>5 DEF ReturnToSelection, AskForClass
<1>6. ASSUME NEW b \in BOOLEAN, NEW c \in Skins, HearClassReply(b, c) PROVE Phases'
  BY <1>6 DEF HearClassReply, Hear
<1>7. ASSUME NEW b \in BOOLEAN, HearSpawnReply(b) PROVE Phases'
  BY <1>7 DEF HearSpawnReply, Hear, Spawn, Spawning
<1>8. ASSUME HearSpawnOrder PROVE Phases'
  BY <1>8 DEF HearSpawnOrder, Hear, Spawn, Spawning
<1>9. ASSUME NEW c \in Skins, HearSpawnInfo(c) PROVE Phases'
  BY <1>9 DEF HearSpawnInfo, Hear
<1>10. ASSUME NEW b \in BOOLEAN, HearSpectate(b) PROVE Phases'
  BY <1>10 DEF HearSpectate, Hear, Spawn, Spawning
<1>11. ASSUME HearRestarting PROVE Phases'
  BY <1>11 DEF HearRestarting, Hear, Spawning
<1>12. ASSUME NEW n \in Nat, HearInitGame(n) PROVE Phases'
  BY <1>12 DEF HearInitGame, Hear, AskForClass
<1>13. ASSUME NEW m \in toServer, Ignore(m) PROVE Phases'
  BY <1>13 DEF Ignore, Arrives, Leaves
<1>14. ASSUME NEW i \in Int, BeginClass(i) PROVE Phases'
  <2>1. i \in Numbers /\ offer[i + 1] \in Skins
    BY <1>14, HasSkin DEF BeginClass
  <2>2. QED
    BY <1>14, <2>1 DEF BeginClass, Arrives, Leaves
<1>15. ASSUME NEW i \in Int, IgnoreClass(i) PROVE Phases'
  BY <1>15 DEF IgnoreClass, Arrives, Leaves
<1>16. ASSUME NEW b \in BOOLEAN, AnswerClass(b) PROVE Phases'
  BY <1>16 DEF AnswerClass
<1>17. ASSUME BeginRequest PROVE Phases'
  BY <1>17 DEF BeginRequest, Arrives, Leaves
<1>18. ASSUME NEW b \in BOOLEAN, AnswerRequest(b) PROVE Phases'
  BY <1>18 DEF AnswerRequest
<1>19. ASSUME NEW c \in Skins, BeginSpawn(c) PROVE Phases'
  BY <1>19 DEF BeginSpawn, Arrives, Leaves
<1>20. ASSUME NEW c \in Skins, IgnoreSpawn(c) PROVE Phases'
  BY <1>20 DEF IgnoreSpawn, Arrives, Leaves
<1>21. ASSUME EndSpawn PROVE Phases'
  BY <1>21 DEF EndSpawn
<1>22. ASSUME NEW c \in Skins, Discard(c) PROVE Phases'
  BY <1>22 DEF Discard, Leaves
<1>23. ASSUME NEW c \in Skins, SetSpawnInfo(c) PROVE Phases'
  BY <1>23 DEF SetSpawnInfo, Order
<1>24. ASSUME SpawnPlayer PROVE Phases'
  BY <1>24 DEF SpawnPlayer, Order
<1>25. ASSUME NEW b \in BOOLEAN, TogglePlayerSpectating(b) PROVE Phases'
  BY <1>25 DEF TogglePlayerSpectating, Order
<1>26. ASSUME NEW c \in Skins, SetPlayerSkin(c) PROVE Phases'
  BY <1>26 DEF SetPlayerSkin
<1>27. ASSUME Shutdown PROVE Phases'
  BY <1>27 DEF Shutdown
<1>28. ASSUME ReInit PROVE Phases'
  <2>1. Restarting \notin toClient /\ Idle
    BY <1>28 DEF ReInit, Owed
  <2>2. toClient' = toClient \cup {InitGame(Len(offer'))} /\ Len(offer') \in Nat
    BY <1>28 DEF ReInit
  <2>3. Restarting \notin toClient'
    BY <2>1, <2>2
  <2>4. QED
    BY <1>28, <2>1, <2>3 DEF ReInit
<1>29. CASE UNCHANGED vars
  BY <1>29 DEF vars
<1>30. QED
  BY <1>1, <1>2, <1>3, <1>4, <1>5, <1>6, <1>7, <1>8, <1>9, <1>10, <1>11, <1>12, <1>13,
     <1>14, <1>15, <1>16, <1>17, <1>18, <1>19, <1>20, <1>21, <1>22, <1>23, <1>24, <1>25,
     <1>26, <1>27, <1>28, <1>29 DEF Step, Operation

(* Handlers answer only while the game mode runs. *)
LEMMA OwedKept == ASSUME Inv, Step PROVE Owed'
<1> USE ToServerKinds, ToClientKinds, ClassesAssumption
    DEF Owed, Inv, Messages, Phases, BeingAsked, Idle, choice, history, client, server
<1>1. ASSUME ChooseClass PROVE Owed'
  BY <1>1 DEF ChooseClass, AskForClass
<1>2. ASSUME PressShift PROVE Owed'
  BY <1>2 DEF PressShift
<1>3. ASSUME Die PROVE Owed'
  BY <1>3 DEF Die, Spawning
<1>4. ASSUME Respawn PROVE Owed'
  BY <1>4 DEF Respawn, Spawn, Spawning
<1>5. ASSUME ReturnToSelection PROVE Owed'
  BY <1>5 DEF ReturnToSelection, AskForClass
<1>6. ASSUME NEW b \in BOOLEAN, NEW c \in Skins, HearClassReply(b, c) PROVE Owed'
  BY <1>6 DEF HearClassReply, Hear
<1>7. ASSUME NEW b \in BOOLEAN, HearSpawnReply(b) PROVE Owed'
  BY <1>7 DEF HearSpawnReply, Hear, Spawn, Spawning
<1>8. ASSUME HearSpawnOrder PROVE Owed'
  BY <1>8 DEF HearSpawnOrder, Hear, Spawn, Spawning
<1>9. ASSUME NEW c \in Skins, HearSpawnInfo(c) PROVE Owed'
  BY <1>9 DEF HearSpawnInfo, Hear
<1>10. ASSUME NEW b \in BOOLEAN, HearSpectate(b) PROVE Owed'
  BY <1>10 DEF HearSpectate, Hear, Spawn, Spawning
<1>11. ASSUME HearRestarting PROVE Owed'
  BY <1>11 DEF HearRestarting, Hear, Spawning
<1>12. ASSUME NEW n \in Nat, HearInitGame(n) PROVE Owed'
  BY <1>12 DEF HearInitGame, Hear, AskForClass
<1>13. ASSUME NEW m \in toServer, Ignore(m) PROVE Owed'
  BY <1>13 DEF Ignore, Arrives, Leaves
<1>14. ASSUME NEW i \in Int, BeginClass(i) PROVE Owed'
  BY <1>14 DEF BeginClass, Arrives, Leaves
<1>15. ASSUME NEW i \in Int, IgnoreClass(i) PROVE Owed'
  BY <1>15 DEF IgnoreClass, Arrives, Leaves
<1>16. ASSUME NEW b \in BOOLEAN, AnswerClass(b) PROVE Owed'
  BY <1>16 DEF AnswerClass
<1>17. ASSUME BeginRequest PROVE Owed'
  BY <1>17 DEF BeginRequest, Arrives, Leaves
<1>18. ASSUME NEW b \in BOOLEAN, AnswerRequest(b) PROVE Owed'
  BY <1>18 DEF AnswerRequest
<1>19. ASSUME NEW c \in Skins, BeginSpawn(c) PROVE Owed'
  BY <1>19 DEF BeginSpawn, Arrives, Leaves
<1>20. ASSUME NEW c \in Skins, IgnoreSpawn(c) PROVE Owed'
  BY <1>20 DEF IgnoreSpawn, Arrives, Leaves
<1>21. ASSUME EndSpawn PROVE Owed'
  BY <1>21 DEF EndSpawn
<1>22. ASSUME NEW c \in Skins, Discard(c) PROVE Owed'
  BY <1>22 DEF Discard, Leaves
<1>23. ASSUME NEW c \in Skins, SetSpawnInfo(c) PROVE Owed'
  BY <1>23 DEF SetSpawnInfo, Order
<1>24. ASSUME SpawnPlayer PROVE Owed'
  BY <1>24 DEF SpawnPlayer, Order
<1>25. ASSUME NEW b \in BOOLEAN, TogglePlayerSpectating(b) PROVE Owed'
  BY <1>25 DEF TogglePlayerSpectating, Order
<1>26. ASSUME NEW c \in Skins, SetPlayerSkin(c) PROVE Owed'
  BY <1>26 DEF SetPlayerSkin
<1>27. ASSUME Shutdown PROVE Owed'
  BY <1>27 DEF Shutdown
<1>28. ASSUME ReInit PROVE Owed'
  BY <1>28 DEF ReInit
<1>29. CASE UNCHANGED vars
  BY <1>29 DEF vars
<1>30. QED
  BY <1>1, <1>2, <1>3, <1>4, <1>5, <1>6, <1>7, <1>8, <1>9, <1>10, <1>11, <1>12, <1>13,
     <1>14, <1>15, <1>16, <1>17, <1>18, <1>19, <1>20, <1>21, <1>22, <1>23, <1>24, <1>25,
     <1>26, <1>27, <1>28, <1>29 DEF Step, Operation

(* A client is brought into the game mode with the first class, and goes round its classes. *)
LEMMA SelectingKept == ASSUME Inv, Step PROVE Selecting'
<1> USE ToServerKinds, ToClientKinds, ClassesAssumption
    DEF Selecting, Starting, Owed, Numbers, Inv, Messages, Phases, BeingAsked, Idle, choice, history, client, server
<1>1. ASSUME ChooseClass PROVE Selecting'
  <2>1. PICK i \in Int : AskForClass(i) /\ (selected \in 0 .. classes - 1 => i \in 0 .. classes - 1)
    BY <1>1, Chosen
  <2>2. connected /\ selected' = i /\ UNCHANGED <<connected, classes, toClient, running, offer, misled>>
    BY <1>1, <2>1 DEF ChooseClass, AskForClass
  <2>3. QED
    BY <2>1, <2>2
<1>2. ASSUME PressShift PROVE Selecting'
  BY <1>2 DEF PressShift
<1>3. ASSUME Die PROVE Selecting'
  BY <1>3 DEF Die, Spawning
<1>4. ASSUME Respawn PROVE Selecting'
  BY <1>4 DEF Respawn, Spawn, Spawning
<1>5. ASSUME ReturnToSelection PROVE Selecting'
  BY <1>5 DEF ReturnToSelection, AskForClass
<1>6. ASSUME NEW b \in BOOLEAN, NEW c \in Skins, HearClassReply(b, c) PROVE Selecting'
  BY <1>6 DEF HearClassReply, Hear
<1>7. ASSUME NEW b \in BOOLEAN, HearSpawnReply(b) PROVE Selecting'
  BY <1>7 DEF HearSpawnReply, Hear, Spawn, Spawning
<1>8. ASSUME HearSpawnOrder PROVE Selecting'
  BY <1>8 DEF HearSpawnOrder, Hear, Spawn, Spawning
<1>9. ASSUME NEW c \in Skins, HearSpawnInfo(c) PROVE Selecting'
  BY <1>9 DEF HearSpawnInfo, Hear
<1>10. ASSUME NEW b \in BOOLEAN, HearSpectate(b) PROVE Selecting'
  BY <1>10 DEF HearSpectate, Hear, Spawn, Spawning
<1>11. ASSUME HearRestarting PROVE Selecting'
  BY <1>11 DEF HearRestarting, Hear, Spawning
<1>12. ASSUME NEW n \in Nat, HearInitGame(n) PROVE Selecting'
  <2>1. /\ InitGame(n) \in toClient /\ toClient' = toClient \ {InitGame(n)}
        /\ connected' = TRUE /\ classes' = n /\ selected' = selected
        /\ UNCHANGED <<running, offer>>
    BY <1>12 DEF HearInitGame, Hear, AskForClass
  <2>2. Starting
    BY <2>1
  <2>3. running => n = Len(offer)
    BY <2>1
  <2>4. running => ~Starting'
    <3>1. \A m \in toClient : m.kind = "init" => m.classes \in Nat /\ m = InitGame(m.classes)
      BY ToClientOnly
    <3>2. \A m \in toClient : running /\ m.kind = "init" => m = InitGame(Len(offer))
      BY <3>1
    <3>3. QED
      BY <2>1, <2>3, <3>2
  <2>5. misled' = (misled \/ (~running /\ Restarting \notin toClient))
    BY <1>12 DEF HearInitGame
  <2>6. Restarting \notin toClient' => Restarting \notin toClient
    BY <2>1
  <2>7. ~misled' /\ running /\ offer # <<>> => selected \in Numbers
    <3>1. ~misled' /\ running => selected = 0
      BY <2>2, <2>5
    <3>2. offer # <<>> => 0 \in Numbers
      OBVIOUS
    <3>3. QED
      BY <3>1, <3>2
  <2>8. QED
    BY <2>1, <2>3, <2>4, <2>5, <2>6, <2>7
<1>13. ASSUME NEW m \in toServer, Ignore(m) PROVE Selecting'
  BY <1>13 DEF Ignore, Arrives, Leaves
<1>14. ASSUME NEW i \in Int, BeginClass(i) PROVE Selecting'
  BY <1>14 DEF BeginClass, Arrives, Leaves
<1>15. ASSUME NEW i \in Int, IgnoreClass(i) PROVE Selecting'
  BY <1>15 DEF IgnoreClass, Arrives, Leaves
<1>16. ASSUME NEW b \in BOOLEAN, AnswerClass(b) PROVE Selecting'
  BY <1>16 DEF AnswerClass
<1>17. ASSUME BeginRequest PROVE Selecting'
  BY <1>17 DEF BeginRequest, Arrives, Leaves
<1>18. ASSUME NEW b \in BOOLEAN, AnswerRequest(b) PROVE Selecting'
  BY <1>18 DEF AnswerRequest
<1>19. ASSUME NEW c \in Skins, BeginSpawn(c) PROVE Selecting'
  BY <1>19 DEF BeginSpawn, Arrives, Leaves
<1>20. ASSUME NEW c \in Skins, IgnoreSpawn(c) PROVE Selecting'
  BY <1>20 DEF IgnoreSpawn, Arrives, Leaves
<1>21. ASSUME EndSpawn PROVE Selecting'
  BY <1>21 DEF EndSpawn
<1>22. ASSUME NEW c \in Skins, Discard(c) PROVE Selecting'
  BY <1>22 DEF Discard, Leaves
<1>23. ASSUME NEW c \in Skins, SetSpawnInfo(c) PROVE Selecting'
  BY <1>23 DEF SetSpawnInfo, Order
<1>24. ASSUME SpawnPlayer PROVE Selecting'
  BY <1>24 DEF SpawnPlayer, Order
<1>25. ASSUME NEW b \in BOOLEAN, TogglePlayerSpectating(b) PROVE Selecting'
  BY <1>25 DEF TogglePlayerSpectating, Order
<1>26. ASSUME NEW c \in Skins, SetPlayerSkin(c) PROVE Selecting'
  BY <1>26 DEF SetPlayerSkin
<1>27. ASSUME Shutdown PROVE Selecting'
  BY <1>27 DEF Shutdown
<1>28. ASSUME ReInit PROVE Selecting'
  BY <1>28 DEF ReInit
<1>29. CASE UNCHANGED vars
  BY <1>29 DEF vars
<1>30. QED
  BY <1>1, <1>2, <1>3, <1>4, <1>5, <1>6, <1>7, <1>8, <1>9, <1>10, <1>11, <1>12, <1>13,
     <1>14, <1>15, <1>16, <1>17, <1>18, <1>19, <1>20, <1>21, <1>22, <1>23, <1>24, <1>25,
     <1>26, <1>27, <1>28, <1>29 DEF Step, Operation

(* Whoever may not go on has an answer coming. *)
LEMMA AnsweringKept == ASSUME Inv, Step PROVE Answering'
<1> USE ToServerKinds, ToClientKinds, ClassesAssumption
    DEF Answering, ToBeAnswered, Answered, Selecting, Starting, AnswerUnderWay, Numbers, Inv, Messages, Phases, BeingAsked, Idle, choice, history, client, server
<1>1. ASSUME ChooseClass PROVE Answering'
  <2>1. PICK i \in Int : AskForClass(i) /\ (selected \in 0 .. classes - 1 => i \in 0 .. classes - 1)
    BY <1>1, Chosen
  <2>2. /\ toServer' = toServer \cup {ClassRequest(i)} /\ ClassRequest(i).kind = "class"
        /\ ClassRequest(i).number = i
        /\ UNCHANGED <<waiting, handling, offer, running, toClient, lost, misled>>
    BY <1>1, <2>1 DEF ChooseClass, AskForClass
  <2>3. running /\ ~misled /\ ~Starting /\ offer # <<>> => i \in Numbers
    BY <2>1
  <2>4. waiting' => AnswerUnderWay' \/ lost'
    BY <2>2
  <2>5. ClassRequest(i) \in toServer'
    BY <2>2
  <2>6. QED
    BY <2>2, <2>3, <2>4, <2>5
<1>2. ASSUME PressShift PROVE Answering'
  BY <1>2 DEF PressShift
<1>3. ASSUME Die PROVE Answering'
  BY <1>3 DEF Die, Spawning
<1>4. ASSUME Respawn PROVE Answering'
  BY <1>4 DEF Respawn, Spawn, Spawning
<1>5. ASSUME ReturnToSelection PROVE Answering'
  BY <1>5 DEF ReturnToSelection, AskForClass
<1>6. ASSUME NEW b \in BOOLEAN, NEW c \in Skins, HearClassReply(b, c) PROVE Answering'
  <2>1. cleared' \/ refused'
    BY <1>6, Zenon DEF HearClassReply
  <2>2. toClient' = toClient \ {ClassReply(b, c)} /\ UNCHANGED <<toServer, handling, waiting, lost>>
    BY <1>6 DEF HearClassReply, Hear
  <2>3. waiting' => AnswerUnderWay' \/ lost'
    BY <2>2
  <2>4. QED
    BY <2>1, <2>3
<1>7. ASSUME NEW b \in BOOLEAN, HearSpawnReply(b) PROVE Answering'
  BY <1>7 DEF HearSpawnReply, Hear, Spawn, Spawning
<1>8. ASSUME HearSpawnOrder PROVE Answering'
  BY <1>8 DEF HearSpawnOrder, Hear, Spawn, Spawning
<1>9. ASSUME NEW c \in Skins, HearSpawnInfo(c) PROVE Answering'
  BY <1>9 DEF HearSpawnInfo, Hear
<1>10. ASSUME NEW b \in BOOLEAN, HearSpectate(b) PROVE Answering'
  BY <1>10 DEF HearSpectate, Hear, Spawn, Spawning
<1>11. ASSUME HearRestarting PROVE Answering'
  BY <1>11 DEF HearRestarting, Hear, Spawning
<1>12. ASSUME NEW n \in Nat, HearInitGame(n) PROVE Answering'
  <2>1. /\ toServer' = toServer \cup {ClassRequest(selected)} /\ selected' = selected
        /\ toClient' = toClient \ {InitGame(n)} /\ selected \in Int
        /\ UNCHANGED <<waiting, handling, offer, running>>
    BY <1>12 DEF HearInitGame, Hear, AskForClass
  <2>2. Selecting'
    BY SelectingKept
  <2>3. connected' = TRUE /\ UNCHANGED lost
    BY <1>12 DEF HearInitGame, AskForClass
  <2>4. ClassRequest(selected) \in toServer' /\ ClassRequest(selected).kind = "class"
        /\ ClassRequest(selected).number = selected'
    BY <2>1
  <2>5. waiting' => AnswerUnderWay' \/ lost'
    BY <2>1, <2>3
  <2>6. running' /\ ~misled' /\ ~Starting' /\ offer' # <<>> => selected' \in Numbers'
    BY <2>2 DEF Selecting
  <2>7. QED
    BY <2>4, <2>5, <2>6
<1>13. ASSUME NEW m \in toServer, Ignore(m) PROVE Answering'
  BY <1>13 DEF Ignore, Arrives, Leaves
<1>14. ASSUME NEW i \in Int, BeginClass(i) PROVE Answering'
  BY <1>14 DEF BeginClass, Arrives, Leaves
<1>15. ASSUME NEW i \in Int, IgnoreClass(i) PROVE Answering'
  BY <1>15 DEF IgnoreClass, Arrives, Leaves
<1>16. ASSUME NEW b \in BOOLEAN, AnswerClass(b) PROVE Answering'
  BY <1>16 DEF AnswerClass
<1>17. ASSUME BeginRequest PROVE Answering'
  BY <1>17 DEF BeginRequest, Arrives, Leaves
<1>18. ASSUME NEW b \in BOOLEAN, AnswerRequest(b) PROVE Answering'
  BY <1>18 DEF AnswerRequest
<1>19. ASSUME NEW c \in Skins, BeginSpawn(c) PROVE Answering'
  BY <1>19 DEF BeginSpawn, Arrives, Leaves
<1>20. ASSUME NEW c \in Skins, IgnoreSpawn(c) PROVE Answering'
  BY <1>20 DEF IgnoreSpawn, Arrives, Leaves
<1>21. ASSUME EndSpawn PROVE Answering'
  BY <1>21 DEF EndSpawn
<1>22. ASSUME NEW c \in Skins, Discard(c) PROVE Answering'
  BY <1>22 DEF Discard, Leaves
<1>23. ASSUME NEW c \in Skins, SetSpawnInfo(c) PROVE Answering'
  BY <1>23 DEF SetSpawnInfo, Order
<1>24. ASSUME SpawnPlayer PROVE Answering'
  BY <1>24 DEF SpawnPlayer, Order
<1>25. ASSUME NEW b \in BOOLEAN, TogglePlayerSpectating(b) PROVE Answering'
  BY <1>25 DEF TogglePlayerSpectating, Order
<1>26. ASSUME NEW c \in Skins, SetPlayerSkin(c) PROVE Answering'
  BY <1>26 DEF SetPlayerSkin
<1>27. ASSUME Shutdown PROVE Answering'
  BY <1>27 DEF Shutdown
<1>28. ASSUME ReInit PROVE Answering'
  BY <1>28 DEF ReInit
<1>29. CASE UNCHANGED vars
  BY <1>29 DEF vars
<1>30. QED
  BY <1>1, <1>2, <1>3, <1>4, <1>5, <1>6, <1>7, <1>8, <1>9, <1>10, <1>11, <1>12, <1>13,
     <1>14, <1>15, <1>16, <1>17, <1>18, <1>19, <1>20, <1>21, <1>22, <1>23, <1>24, <1>25,
     <1>26, <1>27, <1>28, <1>29 DEF Step, Operation

(* Only natives send what Unscripted excludes. *)
LEMMA UnscriptedKept == ASSUME Inv, Step PROVE (orderly => Unscripted)'
<1> USE ToServerKinds, ToClientKinds, ClassesAssumption
    DEF Unscripted, Inv, Messages, Phases, BeingAsked, Idle, choice, history, client, server
<1>1. ASSUME ChooseClass PROVE (orderly => Unscripted)'
  BY <1>1 DEF ChooseClass, AskForClass
<1>2. ASSUME PressShift PROVE (orderly => Unscripted)'
  BY <1>2 DEF PressShift
<1>3. ASSUME Die PROVE (orderly => Unscripted)'
  BY <1>3 DEF Die, Spawning
<1>4. ASSUME Respawn PROVE (orderly => Unscripted)'
  BY <1>4 DEF Respawn, Spawn, Spawning
<1>5. ASSUME ReturnToSelection PROVE (orderly => Unscripted)'
  BY <1>5 DEF ReturnToSelection, AskForClass
<1>6. ASSUME NEW b \in BOOLEAN, NEW c \in Skins, HearClassReply(b, c) PROVE (orderly => Unscripted)'
  BY <1>6 DEF HearClassReply, Hear
<1>7. ASSUME NEW b \in BOOLEAN, HearSpawnReply(b) PROVE (orderly => Unscripted)'
  BY <1>7 DEF HearSpawnReply, Hear, Spawn, Spawning
<1>8. ASSUME HearSpawnOrder PROVE (orderly => Unscripted)'
  BY <1>8 DEF HearSpawnOrder, Hear, Spawn, Spawning
<1>9. ASSUME NEW c \in Skins, HearSpawnInfo(c) PROVE (orderly => Unscripted)'
  BY <1>9 DEF HearSpawnInfo, Hear
<1>10. ASSUME NEW b \in BOOLEAN, HearSpectate(b) PROVE (orderly => Unscripted)'
  BY <1>10 DEF HearSpectate, Hear, Spawn, Spawning
<1>11. ASSUME HearRestarting PROVE (orderly => Unscripted)'
  BY <1>11 DEF HearRestarting, Hear, Spawning
<1>12. ASSUME NEW n \in Nat, HearInitGame(n) PROVE (orderly => Unscripted)'
  BY <1>12 DEF HearInitGame, Hear, AskForClass
<1>13. ASSUME NEW m \in toServer, Ignore(m) PROVE (orderly => Unscripted)'
  BY <1>13 DEF Ignore, Arrives, Leaves
<1>14. ASSUME NEW i \in Int, BeginClass(i) PROVE (orderly => Unscripted)'
  BY <1>14 DEF BeginClass, Arrives, Leaves
<1>15. ASSUME NEW i \in Int, IgnoreClass(i) PROVE (orderly => Unscripted)'
  BY <1>15 DEF IgnoreClass, Arrives, Leaves
<1>16. ASSUME NEW b \in BOOLEAN, AnswerClass(b) PROVE (orderly => Unscripted)'
  BY <1>16 DEF AnswerClass
<1>17. ASSUME BeginRequest PROVE (orderly => Unscripted)'
  BY <1>17 DEF BeginRequest, Arrives, Leaves
<1>18. ASSUME NEW b \in BOOLEAN, AnswerRequest(b) PROVE (orderly => Unscripted)'
  BY <1>18 DEF AnswerRequest
<1>19. ASSUME NEW c \in Skins, BeginSpawn(c) PROVE (orderly => Unscripted)'
  BY <1>19 DEF BeginSpawn, Arrives, Leaves
<1>20. ASSUME NEW c \in Skins, IgnoreSpawn(c) PROVE (orderly => Unscripted)'
  BY <1>20 DEF IgnoreSpawn, Arrives, Leaves
<1>21. ASSUME EndSpawn PROVE (orderly => Unscripted)'
  BY <1>21 DEF EndSpawn
<1>22. ASSUME NEW c \in Skins, Discard(c) PROVE (orderly => Unscripted)'
  BY <1>22 DEF Discard, Leaves
<1>23. ASSUME NEW c \in Skins, SetSpawnInfo(c) PROVE (orderly => Unscripted)'
  BY <1>23 DEF SetSpawnInfo, Order
<1>24. ASSUME SpawnPlayer PROVE (orderly => Unscripted)'
  BY <1>24 DEF SpawnPlayer, Order
<1>25. ASSUME NEW b \in BOOLEAN, TogglePlayerSpectating(b) PROVE (orderly => Unscripted)'
  BY <1>25 DEF TogglePlayerSpectating, Order
<1>26. ASSUME NEW c \in Skins, SetPlayerSkin(c) PROVE (orderly => Unscripted)'
  BY <1>26 DEF SetPlayerSkin
<1>27. ASSUME Shutdown PROVE (orderly => Unscripted)'
  BY <1>27 DEF Shutdown
<1>28. ASSUME ReInit PROVE (orderly => Unscripted)'
  BY <1>28 DEF ReInit
<1>29. CASE UNCHANGED vars
  BY <1>29 DEF vars
<1>30. QED
  BY <1>1, <1>2, <1>3, <1>4, <1>5, <1>6, <1>7, <1>8, <1>9, <1>10, <1>11, <1>12, <1>13,
     <1>14, <1>15, <1>16, <1>17, <1>18, <1>19, <1>20, <1>21, <1>22, <1>23, <1>24, <1>25,
     <1>26, <1>27, <1>28, <1>29 DEF Step, Operation

(* A class is asked for only when none is under way. *)
LEMMA OneClassKept == ASSUME Inv, Step PROVE (orderly => OneClass)'
<1> USE ToServerKinds, ToClientKinds, ClassesAssumption
    DEF OneClass, Agreed, Unscripted, Asked, Answered, Inv, Messages, Phases, BeingAsked, Idle, choice, history, client, server
<1>1. ASSUME ChooseClass PROVE (orderly => OneClass)'
  <2>1. PICK i \in Int : AskForClass(i)
    BY <1>1 DEF ChooseClass, LeftOf, RightOf
  <2>2. toClient' \subseteq toClient /\ handling' = handling
    BY <1>1 DEF ChooseClass, Hear
  <2>3. QED
    BY <2>1, <2>2, AskedIsOne
<1>2. ASSUME PressShift PROVE (orderly => OneClass)'
  BY <1>2 DEF PressShift
<1>3. ASSUME Die PROVE (orderly => OneClass)'
  BY <1>3 DEF Die, Spawning
<1>4. ASSUME Respawn PROVE (orderly => OneClass)'
  BY <1>4 DEF Respawn, Spawn, Spawning
<1>5. ASSUME ReturnToSelection PROVE (orderly => OneClass)'
  <2>1. PICK i \in Int : AskForClass(i)
    BY <1>5 DEF ReturnToSelection
  <2>2. toClient' \subseteq toClient /\ handling' = handling
    BY <1>5 DEF ReturnToSelection, Hear
  <2>3. QED
    BY <2>1, <2>2, AskedIsOne
<1>6. ASSUME NEW b \in BOOLEAN, NEW c \in Skins, HearClassReply(b, c) PROVE (orderly => OneClass)'
  BY <1>6 DEF HearClassReply, Hear
<1>7. ASSUME NEW b \in BOOLEAN, HearSpawnReply(b) PROVE (orderly => OneClass)'
  BY <1>7 DEF HearSpawnReply, Hear, Spawn, Spawning
<1>8. ASSUME HearSpawnOrder PROVE (orderly => OneClass)'
  BY <1>8 DEF HearSpawnOrder, Hear, Spawn, Spawning
<1>9. ASSUME NEW c \in Skins, HearSpawnInfo(c) PROVE (orderly => OneClass)'
  BY <1>9 DEF HearSpawnInfo, Hear
<1>10. ASSUME NEW b \in BOOLEAN, HearSpectate(b) PROVE (orderly => OneClass)'
  BY <1>10 DEF HearSpectate, Hear, Spawn, Spawning
<1>11. ASSUME HearRestarting PROVE (orderly => OneClass)'
  BY <1>11 DEF HearRestarting, Hear, Spawning
<1>12. ASSUME NEW n \in Nat, HearInitGame(n) PROVE (orderly => OneClass)'
  <2>1. PICK i \in Int : AskForClass(i)
    BY <1>12 DEF HearInitGame
  <2>2. toClient' \subseteq toClient /\ handling' = handling
    BY <1>12 DEF HearInitGame, Hear
  <2>3. QED
    BY <2>1, <2>2, AskedIsOne
<1>13. ASSUME NEW m \in toServer, Ignore(m) PROVE (orderly => OneClass)'
  BY <1>13 DEF Ignore, Arrives, Leaves
<1>14. ASSUME NEW i \in Int, BeginClass(i) PROVE (orderly => OneClass)'
  BY <1>14 DEF BeginClass, Arrives, Leaves
<1>15. ASSUME NEW i \in Int, IgnoreClass(i) PROVE (orderly => OneClass)'
  BY <1>15 DEF IgnoreClass, Arrives, Leaves
<1>16. ASSUME NEW b \in BOOLEAN, AnswerClass(b) PROVE (orderly => OneClass)'
  BY <1>16 DEF AnswerClass
<1>17. ASSUME BeginRequest PROVE (orderly => OneClass)'
  BY <1>17 DEF BeginRequest, Arrives, Leaves
<1>18. ASSUME NEW b \in BOOLEAN, AnswerRequest(b) PROVE (orderly => OneClass)'
  BY <1>18 DEF AnswerRequest
<1>19. ASSUME NEW c \in Skins, BeginSpawn(c) PROVE (orderly => OneClass)'
  BY <1>19 DEF BeginSpawn, Arrives, Leaves
<1>20. ASSUME NEW c \in Skins, IgnoreSpawn(c) PROVE (orderly => OneClass)'
  BY <1>20 DEF IgnoreSpawn, Arrives, Leaves
<1>21. ASSUME EndSpawn PROVE (orderly => OneClass)'
  BY <1>21 DEF EndSpawn
<1>22. ASSUME NEW c \in Skins, Discard(c) PROVE (orderly => OneClass)'
  BY <1>22 DEF Discard, Leaves
<1>23. ASSUME NEW c \in Skins, SetSpawnInfo(c) PROVE (orderly => OneClass)'
  BY <1>23 DEF SetSpawnInfo, Order
<1>24. ASSUME SpawnPlayer PROVE (orderly => OneClass)'
  BY <1>24 DEF SpawnPlayer, Order
<1>25. ASSUME NEW b \in BOOLEAN, TogglePlayerSpectating(b) PROVE (orderly => OneClass)'
  BY <1>25 DEF TogglePlayerSpectating, Order
<1>26. ASSUME NEW c \in Skins, SetPlayerSkin(c) PROVE (orderly => OneClass)'
  BY <1>26 DEF SetPlayerSkin
<1>27. ASSUME Shutdown PROVE (orderly => OneClass)'
  BY <1>27 DEF Shutdown
<1>28. ASSUME ReInit PROVE (orderly => OneClass)'
  BY <1>28 DEF ReInit
<1>29. CASE UNCHANGED vars
  BY <1>29 DEF vars
<1>30. QED
  BY <1>1, <1>2, <1>3, <1>4, <1>5, <1>6, <1>7, <1>8, <1>9, <1>10, <1>11, <1>12, <1>13,
     <1>14, <1>15, <1>16, <1>17, <1>18, <1>19, <1>20, <1>21, <1>22, <1>23, <1>24, <1>25,
     <1>26, <1>27, <1>28, <1>29 DEF Step, Operation

(* A player who waits does not ask again. *)
LEMMA OneAnswerKept == ASSUME Inv, Step PROVE (orderly => OneAnswer)'
<1> USE ToServerKinds, ToClientKinds, ClassesAssumption
    DEF OneAnswer, Agreed, Unscripted, AnswerUnderWay, Inv, Messages, Phases, BeingAsked, Idle, choice, history, client, server
<1>1. ASSUME ChooseClass PROVE (orderly => OneAnswer)'
  <2>1. PICK i \in Int : AskForClass(i)
    BY <1>1, Chosen
  <2>2. /\ toServer' = toServer \cup {ClassRequest(i)} /\ (orderly' => orderly)
        /\ UNCHANGED <<toClient, handling>>
    BY <1>1, <2>1 DEF ChooseClass, AskForClass
  <2>3. ClassRequest(i) # SpawnRequest
    BY <2>1
  <2>4. SpawnRequest \in toServer' => SpawnRequest \in toServer
    BY <2>2, <2>3
  <2>5. orderly' => orderly /\ OneAnswer
    BY <2>2
  <2>6. QED
    BY <2>2, <2>4, <2>5
<1>2. ASSUME PressShift PROVE (orderly => OneAnswer)'
  BY <1>2 DEF PressShift
<1>3. ASSUME Die PROVE (orderly => OneAnswer)'
  BY <1>3 DEF Die, Spawning
<1>4. ASSUME Respawn PROVE (orderly => OneAnswer)'
  BY <1>4 DEF Respawn, Spawn, Spawning
<1>5. ASSUME ReturnToSelection PROVE (orderly => OneAnswer)'
  BY <1>5 DEF ReturnToSelection, AskForClass
<1>6. ASSUME NEW b \in BOOLEAN, NEW c \in Skins, HearClassReply(b, c) PROVE (orderly => OneAnswer)'
  BY <1>6 DEF HearClassReply, Hear
<1>7. ASSUME NEW b \in BOOLEAN, HearSpawnReply(b) PROVE (orderly => OneAnswer)'
  BY <1>7 DEF HearSpawnReply, Hear, Spawn, Spawning
<1>8. ASSUME HearSpawnOrder PROVE (orderly => OneAnswer)'
  BY <1>8 DEF HearSpawnOrder, Hear, Spawn, Spawning
<1>9. ASSUME NEW c \in Skins, HearSpawnInfo(c) PROVE (orderly => OneAnswer)'
  BY <1>9 DEF HearSpawnInfo, Hear
<1>10. ASSUME NEW b \in BOOLEAN, HearSpectate(b) PROVE (orderly => OneAnswer)'
  BY <1>10 DEF HearSpectate, Hear, Spawn, Spawning
<1>11. ASSUME HearRestarting PROVE (orderly => OneAnswer)'
  <2>1. toClient' = toClient \ {Restarting} /\ UNCHANGED <<handling, orderly>>
    BY <1>11 DEF HearRestarting, Hear
  <2>2. SpawnRequest \in toServer' => SpawnRequest \in toServer
    BY <1>11 DEF HearRestarting, Spawning
  <2>3. QED
    BY <2>1, <2>2
<1>12. ASSUME NEW n \in Nat, HearInitGame(n) PROVE (orderly => OneAnswer)'
  BY <1>12 DEF HearInitGame, Hear, AskForClass
<1>13. ASSUME NEW m \in toServer, Ignore(m) PROVE (orderly => OneAnswer)'
  BY <1>13 DEF Ignore, Arrives, Leaves
<1>14. ASSUME NEW i \in Int, BeginClass(i) PROVE (orderly => OneAnswer)'
  BY <1>14 DEF BeginClass, Arrives, Leaves
<1>15. ASSUME NEW i \in Int, IgnoreClass(i) PROVE (orderly => OneAnswer)'
  BY <1>15 DEF IgnoreClass, Arrives, Leaves
<1>16. ASSUME NEW b \in BOOLEAN, AnswerClass(b) PROVE (orderly => OneAnswer)'
  <2>1. spawnInfo \in Skins
    BY <1>16 DEF AnswerClass
  <2>2. \A e \in BOOLEAN : SpawnReply(e) # ClassReply(b, spawnInfo)
    BY <2>1
  <2>3. /\ toClient' = toClient \cup {ClassReply(b, spawnInfo)}
        /\ handling' = Nothing /\ UNCHANGED <<toServer, orderly>>
    BY <1>16 DEF AnswerClass
  <2>4. QED
    BY <2>2, <2>3
<1>17. ASSUME BeginRequest PROVE (orderly => OneAnswer)'
  BY <1>17 DEF BeginRequest, Arrives, Leaves
<1>18. ASSUME NEW b \in BOOLEAN, AnswerRequest(b) PROVE (orderly => OneAnswer)'
  <2>1. CASE b = TRUE
    BY <1>18, <2>1 DEF AnswerRequest
  <2>2. CASE b = FALSE
    BY <1>18, <2>2 DEF AnswerRequest
  <2>3. QED
    BY <2>1, <2>2
<1>19. ASSUME NEW c \in Skins, BeginSpawn(c) PROVE (orderly => OneAnswer)'
  BY <1>19 DEF BeginSpawn, Arrives, Leaves
<1>20. ASSUME NEW c \in Skins, IgnoreSpawn(c) PROVE (orderly => OneAnswer)'
  BY <1>20 DEF IgnoreSpawn, Arrives, Leaves
<1>21. ASSUME EndSpawn PROVE (orderly => OneAnswer)'
  BY <1>21 DEF EndSpawn
<1>22. ASSUME NEW c \in Skins, Discard(c) PROVE (orderly => OneAnswer)'
  BY <1>22 DEF Discard, Leaves
<1>23. ASSUME NEW c \in Skins, SetSpawnInfo(c) PROVE (orderly => OneAnswer)'
  BY <1>23 DEF SetSpawnInfo, Order
<1>24. ASSUME SpawnPlayer PROVE (orderly => OneAnswer)'
  BY <1>24 DEF SpawnPlayer, Order
<1>25. ASSUME NEW b \in BOOLEAN, TogglePlayerSpectating(b) PROVE (orderly => OneAnswer)'
  BY <1>25 DEF TogglePlayerSpectating, Order
<1>26. ASSUME NEW c \in Skins, SetPlayerSkin(c) PROVE (orderly => OneAnswer)'
  BY <1>26 DEF SetPlayerSkin
<1>27. ASSUME Shutdown PROVE (orderly => OneAnswer)'
  BY <1>27 DEF Shutdown
<1>28. ASSUME ReInit PROVE (orderly => OneAnswer)'
  <2>1. /\ toClient' = toClient \cup {InitGame(Len(offer'))} /\ Len(offer') \in Nat
        /\ UNCHANGED <<toServer, handling, orderly>>
    BY <1>28 DEF ReInit
  <2>2. \A b \in BOOLEAN : SpawnReply(b) # InitGame(Len(offer'))
    BY <2>1
  <2>3. \A b \in BOOLEAN : SpawnReply(b) \in toClient' => SpawnReply(b) \in toClient
    BY <2>1, <2>2
  <2>4. QED
    BY <2>1, <2>3
<1>29. CASE UNCHANGED vars
  BY <1>29 DEF vars
<1>30. QED
  BY <1>1, <1>2, <1>3, <1>4, <1>5, <1>6, <1>7, <1>8, <1>9, <1>10, <1>11, <1>12, <1>13,
     <1>14, <1>15, <1>16, <1>17, <1>18, <1>19, <1>20, <1>21, <1>22, <1>23, <1>24, <1>25,
     <1>26, <1>27, <1>28, <1>29 DEF Step, Operation

(* The two sides keep agreeing. *)
LEMMA AgreedKept == ASSUME Inv, Step PROVE (orderly => Agreed)'
<1> USE ToServerKinds, ToClientKinds, ClassesAssumption
    DEF Agreed, OneClass, OneAnswer, Unscripted, Owed, Asked, Answered, SpawnUnderWay, AnswerUnderWay, Inv, Messages, Phases, BeingAsked, Idle, choice, history, client, server
<1>1. ASSUME ChooseClass PROVE (orderly => Agreed)'
  <2> SUFFICES ASSUME orderly' PROVE Agreed'
    OBVIOUS
  <2>1. PICK i \in Int : AskForClass(i)
    BY <1>1, Chosen
  <2>2. orderly /\ ~Asked /\ ~BeingAsked /\ ~Answered /\ ~SpawnUnderWay
    BY <2>1, AskedInOrder
  <2>3. /\ toServer' = toServer \cup {ClassRequest(i)} /\ toClient' \subseteq toClient
        /\ cleared' = FALSE /\ UNCHANGED <<info, waiting, running, spawnInfo, handling>>
    BY <1>1, <2>1 DEF ChooseClass, AskForClass
  <2>4. ~SpawnUnderWay' /\ ~Answered' /\ (AnswerUnderWay' => AnswerUnderWay)
    BY <2>2, <2>3
  <2>5. QED
    BY <2>2, <2>3, <2>4
<1>2. ASSUME PressShift PROVE (orderly => Agreed)'
  BY <1>2 DEF PressShift
<1>3. ASSUME Die PROVE (orderly => Agreed)'
  BY <1>3 DEF Die, Spawning
<1>4. ASSUME Respawn PROVE (orderly => Agreed)'
  BY <1>4 DEF Respawn, Spawn, Spawning
<1>5. ASSUME ReturnToSelection PROVE (orderly => Agreed)'
  BY <1>5 DEF ReturnToSelection, AskForClass
<1>6. ASSUME NEW b \in BOOLEAN, NEW c \in Skins, HearClassReply(b, c) PROVE (orderly => Agreed)'
  BY <1>6 DEF HearClassReply, Hear
<1>7. ASSUME NEW b \in BOOLEAN, HearSpawnReply(b) PROVE (orderly => Agreed)'
  <2> SUFFICES ASSUME orderly' PROVE Agreed'
    OBVIOUS
  <2>1. orderly /\ OneAnswer /\ Agreed
    BY <1>7 DEF HearSpawnReply
  <2>2. /\ SpawnReply(b) \in toClient /\ toClient' = toClient \ {SpawnReply(b)}
        /\ UNCHANGED <<info, cleared, connected, running, spawnInfo, handling>>
    BY <1>7 DEF HearSpawnReply, Hear
  <2>3. AnswerUnderWay /\ waiting /\ info \in Skins /\ ~Asked /\ ~BeingAsked /\ ~Answered
    BY <2>1, <2>2
  <2>4. /\ toServer' \in {toServer, toServer \cup {Spawned(info)}}
        /\ waiting' = FALSE
    BY <1>7, <2>3 DEF HearSpawnReply, Spawn, Spawning
  <2>5. ~AnswerUnderWay'
    <3>1. SpawnRequest \notin toServer /\ handling # SpawnRequest
      BY <2>1, <2>2
    <3>2. \A e \in BOOLEAN : SpawnReply(e) \in toClient => e = b
      <4>1. CASE b = TRUE
        BY <2>1, <2>2, <4>1
      <4>2. CASE b = FALSE
        BY <2>1, <2>2, <4>2
      <4>3. QED
        BY <4>1, <4>2
    <3>3. SpawnRequest \notin toServer'
      BY <2>3, <2>4, <3>1
    <3>4. QED
      BY <2>2, <3>1, <3>2, <3>3
  <2>6. ~Asked' /\ ~BeingAsked' /\ ~Answered'
    BY <2>2, <2>3, <2>4
  <2>7. running => \A c \in Skins : Spawned(c) \in toServer' => spawnInfo \in {c, NoClass}
    BY <2>1, <2>3, <2>4
  <2>8. QED
    BY <2>1, <2>2, <2>4, <2>5, <2>6, <2>7
<1>8. ASSUME HearSpawnOrder PROVE (orderly => Agreed)'
  BY <1>8 DEF HearSpawnOrder, Hear, Spawn, Spawning
<1>9. ASSUME NEW c \in Skins, HearSpawnInfo(c) PROVE (orderly => Agreed)'
  BY <1>9 DEF HearSpawnInfo, Hear
<1>10. ASSUME NEW b \in BOOLEAN, HearSpectate(b) PROVE (orderly => Agreed)'
  BY <1>10 DEF HearSpectate, Hear, Spawn, Spawning
<1>11. ASSUME HearRestarting PROVE (orderly => Agreed)'
  BY <1>11 DEF HearRestarting, Hear, Spawning
<1>12. ASSUME NEW n \in Nat, HearInitGame(n) PROVE (orderly => Agreed)'
  <2> SUFFICES ASSUME orderly' PROVE Agreed'
    OBVIOUS
  <2>1. PICK i \in Int : AskForClass(i)
    BY <1>12 DEF HearInitGame
  <2>2. orderly /\ ~Asked /\ ~BeingAsked /\ ~Answered /\ ~SpawnUnderWay
    BY <2>1, AskedInOrder
  <2>3. /\ toServer' = toServer \cup {ClassRequest(i)} /\ toClient' \subseteq toClient
        /\ cleared' = FALSE /\ UNCHANGED <<info, waiting, running, spawnInfo, handling>>
    BY <1>12, <2>1 DEF HearInitGame, Hear, AskForClass
  <2>4. ~SpawnUnderWay' /\ ~Answered' /\ (AnswerUnderWay' => AnswerUnderWay)
    BY <2>2, <2>3
  <2>5. QED
    BY <2>2, <2>3, <2>4
<1>13. ASSUME NEW m \in toServer, Ignore(m) PROVE (orderly => Agreed)'
  BY <1>13 DEF Ignore, Arrives, Leaves
<1>14. ASSUME NEW i \in Int, BeginClass(i) PROVE (orderly => Agreed)'
  BY <1>14 DEF BeginClass, Arrives, Leaves
<1>15. ASSUME NEW i \in Int, IgnoreClass(i) PROVE (orderly => Agreed)'
  BY <1>15 DEF IgnoreClass, Arrives, Leaves
<1>16. ASSUME NEW b \in BOOLEAN, AnswerClass(b) PROVE (orderly => Agreed)'
  BY <1>16 DEF AnswerClass
<1>17. ASSUME BeginRequest PROVE (orderly => Agreed)'
  BY <1>17 DEF BeginRequest, Arrives, Leaves
<1>18. ASSUME NEW b \in BOOLEAN, AnswerRequest(b) PROVE (orderly => Agreed)'
  BY <1>18 DEF AnswerRequest
<1>19. ASSUME NEW c \in Skins, BeginSpawn(c) PROVE (orderly => Agreed)'
  BY <1>19 DEF BeginSpawn, Arrives, Leaves
<1>20. ASSUME NEW c \in Skins, IgnoreSpawn(c) PROVE (orderly => Agreed)'
  BY <1>20 DEF IgnoreSpawn, Arrives, Leaves
<1>21. ASSUME EndSpawn PROVE (orderly => Agreed)'
  BY <1>21 DEF EndSpawn
<1>22. ASSUME NEW c \in Skins, Discard(c) PROVE (orderly => Agreed)'
  BY <1>22 DEF Discard, Leaves
<1>23. ASSUME NEW c \in Skins, SetSpawnInfo(c) PROVE (orderly => Agreed)'
  BY <1>23 DEF SetSpawnInfo, Order
<1>24. ASSUME SpawnPlayer PROVE (orderly => Agreed)'
  BY <1>24 DEF SpawnPlayer, Order
<1>25. ASSUME NEW b \in BOOLEAN, TogglePlayerSpectating(b) PROVE (orderly => Agreed)'
  BY <1>25 DEF TogglePlayerSpectating, Order
<1>26. ASSUME NEW c \in Skins, SetPlayerSkin(c) PROVE (orderly => Agreed)'
  BY <1>26 DEF SetPlayerSkin
<1>27. ASSUME Shutdown PROVE (orderly => Agreed)'
  BY <1>27 DEF Shutdown
<1>28. ASSUME ReInit PROVE (orderly => Agreed)'
  <2> SUFFICES ASSUME orderly' PROVE Agreed'
    OBVIOUS
  <2>1. orderly /\ Unscripted /\ Agreed /\ ~running /\ due = {} /\ spawnInfo = NoClass /\ Idle
    BY <1>28 DEF ReInit
  <2>2. ~Answered /\ Restarting \notin toClient
    BY <2>1
  <2>3. /\ toClient' = toClient \cup {InitGame(Len(offer'))} /\ Len(offer') \in Nat
        /\ UNCHANGED <<info, cleared, waiting, connected, toServer, spawnInfo, handling>>
    BY <1>28 DEF ReInit
  <2>4. ~Answered' /\ (AnswerUnderWay' => AnswerUnderWay)
    BY <2>2, <2>3
  <2>5. Asked' = Asked /\ BeingAsked' = BeingAsked /\ SpawnUnderWay' = SpawnUnderWay
    BY <2>3
  <2>6. \A b \in BOOLEAN, c \in Skins : ClassReply(b, c) \notin toClient'
    BY <2>4
  <2>7. QED
    BY <2>1, <2>3, <2>4, <2>5, <2>6
<1>29. CASE UNCHANGED vars
  BY <1>29 DEF vars
<1>30. QED
  BY <1>1, <1>2, <1>3, <1>4, <1>5, <1>6, <1>7, <1>8, <1>9, <1>10, <1>11, <1>12, <1>13,
     <1>14, <1>15, <1>16, <1>17, <1>18, <1>19, <1>20, <1>21, <1>22, <1>23, <1>24, <1>25,
     <1>26, <1>27, <1>28, <1>29 DEF Step, Operation

THEOREM Invariance == Spec => []Inv
<1>1. Inv /\ [Next]_vars => Inv'
  BY Steps, FlagsKept, MessagesKept, PhasesKept, OwedKept, SelectingKept, AnsweringKept,
     UnscriptedKept, OneClassKept, OneAnswerKept, AgreedKept, Zenon DEF Inv
<1>2. QED
  BY <1>1, InvInit, PTL DEF Spec

-----------------------------------------------------------------------------
(* No class is ever none or garbage in a message or in what the client keeps. *)
THEOREM TypeCorrect == Spec => []TypeOK
<1>1. Inv => TypeOK
  BY Zenon DEF Inv, Messages, Flags, TypeOK
<1>2. QED
  BY <1>1, Invariance, PTL

(***************************************************************************)
(* A client that may not select has an answer about a class, or a restart, *)
(* coming, in a game mode with classes and as long as InitGame was not     *)
(* overtaken by the restart after it; one that waits after SHIFT has the   *)
(* answer to it coming, unless a restart has swallowed the request.        *)
(***************************************************************************)
THEOREM AnswersCome == Spec => []NobodyStuck
<1>1. Inv => NobodyStuck
  BY DEF Inv, Answering, ToBeAnswered, NobodyStuck, ClassUnderWay, RestartUnderWay, BeingAsked,
         Answered
<1>2. QED
  BY <1>1, Invariance, PTL

(***************************************************************************)
(* CPlayer::Spawn tells everybody of the skin with which the player has    *)
(* spawned himself, as long as scripts leave spawning and skin to him and  *)
(* he asks for no class while another question is under way.               *)
(***************************************************************************)
THEOREM SpawnsAgree == Spec => []ClassAgrees
<1>1. Inv => ClassAgrees
  <2> SUFFICES ASSUME Inv, AnnouncesSpawn, orderly PROVE spawnInfo = handling.skin
    BY DEF ClassAgrees
  <2>1. handling \in ToServer /\ handling.kind = "spawn"
    BY DEF Inv, Messages, AnnouncesSpawn, Idle
  <2>2. PICK c \in Skins : handling = Spawned(c)
    BY <2>1, ToServerKinds
  <2>3. spawnInfo = c
    BY <2>2 DEF Inv, Agreed
  <2>4. QED
    BY <2>2, <2>3, ToServerKinds
<1>2. QED
  BY <1>1, Invariance, PTL
=============================================================================
