------------------------------ MODULE GameModes ------------------------------
(***************************************************************************)
(* The life of game modes (src/server/gamemodes.cpp, netgame.cpp, main.cpp *)
(* and console.cpp) around the filter scripts: which file is played, how   *)
(* it is loaded and unloaded, and who may change it when.                  *)
(*                                                                         *)
(* The game mode ends itself with GameModeExit, which follows the          *)
(* configured modes; an operator names another with gmx and changemode.    *)
(* Each only sets szGameModeFile and bGameModeFinished; the main loop then *)
(* shuts the game mode down and starts the file twelve seconds later.      *)
(***************************************************************************)
EXTENDS FilterScripts

CONSTANTS
    Modes,      \* files that are a game mode
    BadModes,   \* files that can be read and not loaded
    NoModes,    \* names of no file
    ModeLine    \* gamemode0, gamemode1, ... of server.cfg

Readable == Modes \cup BadModes
ModeFiles == Readable \cup NoModes

ASSUME ModesAssumption ==
    /\ Modes \cap BadModes = {}
    /\ NoModes \cap Readable = {}
ASSUME ModeLineAssumption ==
    \* of the sixteen variables the last is unset, and the server has started
    ModeLine \in Seq(ModeFiles) /\ ModeLine # <<>> /\ Len(ModeLine) < 16
    /\ ModeLine[1] \in Readable

VARIABLES
    amx,       \* m_pGameMode and its m_amx: no object, never set, all zeros, loaded
    file,      \* szGameModeFile
    index,     \* m_iCurrentGameModeIndex
    repeat,    \* m_iCurrentGameModeRepeat is not 0
    gameState, \* m_iGameState, and whether the server is being deleted
    finished,  \* bGameModeFinished
    ordered,   \* history: an operator named a mode since the last one ended itself
    refused    \* history: the last order of an operator was refused

modeVars == <<amx, file, index, repeat, gameState, finished, ordered, refused>>
orders == <<file, index, repeat, finished, ordered, refused>>
vars == <<fsVars, modeVars>>

\* The list of modes is never gone through past its end, and there is always a
\* file to be played next.
TypeOK ==
    /\ FsTypeOK
    /\ amx \in {"none", "raw", "zero", "loaded"}
    /\ file \in ModeFiles
    /\ index \in 0 .. Len(ModeLine) - 1
    /\ repeat \in BOOLEAN
    /\ gameState \in {"starting", "running", "restarting", "quitting"}
    /\ finished \in BOOLEAN
    /\ ordered \in BOOLEAN
    /\ refused \in BOOLEAN

\* The constructor of CNetGame has chosen the first file: its repeat count,
\* which strtok has cut off, is 0 and is counted down to -1.
Init ==
    /\ FsInit
    /\ amx = "raw"
    /\ file = ModeLine[1]
    /\ index = 0
    /\ repeat = TRUE
    /\ gameState = "starting"
    /\ finished = FALSE
    /\ ordered = FALSE
    /\ refused = FALSE

AtMainLoop == Idle /\ gameState \in {"running", "restarting"}

-----------------------------------------------------------------------------
\* GetNextScriptFile: the next configured mode, or the first again.
NextIndex(i) == IF i + 1 < Len(ModeLine) THEN i + 1 ELSE 0

\* Mutant: the index goes back for a repeat and the file stays as it is.
GameModeExitRewinds ==
    /\ ScriptsMayCall /\ ~Idle
    /\ index' = IF repeat THEN index - 1 ELSE NextIndex(index)
    /\ finished' = TRUE
    /\ pending' = <<>>
    /\ UNCHANGED <<prog, name, count, stack, fate, history, amx, file, repeat, gameState,
                   ordered, refused>>

(***************************************************************************)
(* The native GameModeExit, from any script that is being called.  The     *)
(* repeat count is only ever tested for 0, which it is only after an order *)
(* of the operator: a mode that ends itself is played again.               *)
(***************************************************************************)
GameModeExit ==
    /\ ScriptsMayCall /\ ~Idle
    /\ index' = IF repeat THEN index ELSE NextIndex(index)
    /\ file' = ModeLine[index' + 1]
    /\ IF file' \in Readable
       THEN repeat' = TRUE /\ finished' = TRUE /\ UNCHANGED fate
       ELSE fate' = "exited" /\ UNCHANGED <<repeat, finished>>
    /\ ordered' = FALSE
    /\ refused' = FALSE
    /\ pending' = <<>>
    /\ diverted' = (diverted \/ pending # <<>>)
    /\ UNCHANGED <<prog, name, count, stack, untidy, amx, gameState>>

(***************************************************************************)
(* SetNextScriptFile with a name: the file is set before it is tested, and *)
(* stays set if the test fails.                                            *)
(***************************************************************************)
\* Mutant: nobody tests the file.
SetScriptFileUntested(f) ==
    /\ file' = f
    /\ repeat' = FALSE
    /\ finished' = TRUE
    /\ ordered' = TRUE
    /\ refused' = FALSE

SetScriptFile(f) ==
    /\ file' = f
    /\ IF f \in Readable
       THEN repeat' = FALSE /\ finished' = TRUE
       ELSE UNCHANGED <<repeat, finished>>
    /\ ordered' = TRUE
    /\ refused' = (f \notin Readable)

\* con_gmx
Gmx ==
    /\ Command
    /\ index' = NextIndex(index)
    /\ SetScriptFile(ModeLine[index' + 1])
    /\ UNCHANGED <<prog, name, count, stack, untidy, fate, amx, gameState>>

\* con_changemode
ChangeMode(f) ==
    /\ Command
    /\ SetScriptFile(f)
    /\ UNCHANGED <<prog, name, count, stack, untidy, fate, amx, index, gameState>>

-----------------------------------------------------------------------------
\* The game mode is called, by anything but its start and its end.
CallMode ==
    /\ ScriptsMayCall /\ Len(stack) < MaxDepth
    /\ amx = "loaded"
    /\ stack' = <<Frame("mode", GameMode, Nobody)>> \o stack
    /\ UNCHANGED <<prog, name, count, pending, fate, history, modeVars>>

ModeReturns ==
    /\ Returns("mode")
    /\ stack' = Below
    /\ UNCHANGED <<prog, name, count, pending, fate, history, modeVars>>

(***************************************************************************)
(* CGameMode::Load, from CNetGame::Init: a file that cannot be opened      *)
(* leaves the new object as it is, one that cannot be loaded leaves it     *)
(* zeroed, and the server runs without a game mode in either case.  Then   *)
(* OnGameModeInit is called in the game mode and in the filter scripts,    *)
(* and main in the game mode.                                              *)
(***************************************************************************)
Starting == Frame("startMode", GameMode, Nobody)
Stopping == Frame("stopMode", GameMode, Nobody)

LoadMode ==
    /\ Alive /\ Idle /\ pending = <<>>
    /\ gameState \in {"starting", "restarting"}
    /\ IF file \in Modes
       THEN /\ amx' = "loaded"
            /\ stack' = <<Frame("modeInit", GameMode, Nobody), Starting>>
            /\ UNCHANGED gameState
       ELSE /\ amx' = IF file \in BadModes THEN "zero" ELSE "raw"
            /\ gameState' = "running"
            /\ UNCHANGED stack
    /\ UNCHANGED <<prog, name, count, pending, fate, history, orders>>

ModeInitReturns ==
    /\ Returns("modeInit")
    /\ Deliver(0, Below)
    /\ UNCHANGED <<prog, name, count, pending, history, modeVars>>

RunMain ==
    /\ Returns("startMode")
    /\ stack' = <<Frame("main", GameMode, Nobody)>> \o Below
    /\ UNCHANGED <<prog, name, count, pending, fate, history, modeVars>>

MainReturns ==
    /\ Returns("main")
    /\ stack' = Below
    /\ gameState' = "running"
    /\ UNCHANGED <<prog, name, count, pending, fate, history, amx, orders>>

-----------------------------------------------------------------------------
(***************************************************************************)
(* The game mode is deleted, and Unload calls OnGameModeExit whether it    *)
(* was loaded or not: to look for it in an AMX that was never set is       *)
(* undefined, in one of zeros it ends the process.                         *)
(***************************************************************************)
UnloadMode ==
    \/ /\ amx = "loaded"
       /\ stack' = <<Frame("modeExit", GameMode, Nobody), Stopping>>
       /\ UNCHANGED fate
    \/ /\ amx = "raw"
       /\ Deliver(0, <<Stopping>>)
    \/ /\ amx \in {"raw", "zero"}
       /\ fate' = "null"
       /\ UNCHANGED stack

ModeExitReturns ==
    /\ Returns("modeExit")
    /\ Deliver(0, Below)
    /\ UNCHANGED <<prog, name, count, pending, history, modeVars>>

(***************************************************************************)
(* The main loop sees that the game mode has finished.  During a restart   *)
(* there is none: the shutdown starts the wait again, or it calls the game *)
(* mode through its NULL pointer if there are players to say good-bye to.  *)
(***************************************************************************)
MainCheck ==
    /\ Alive /\ AtMainLoop /\ finished
    /\ \/ /\ amx # "none"
          /\ UnloadMode
          /\ UNCHANGED finished
       \/ /\ amx = "none"
          /\ finished' = FALSE
          /\ UNCHANGED <<stack, fate>>
       \/ /\ amx = "none"
          /\ fate' = "null"
          /\ UNCHANGED <<stack, finished>>
    /\ UNCHANGED <<prog, name, count, pending, history, amx, file, index, repeat, gameState,
                   ordered, refused>>

\* What was ordered during the shutdown is played, but the flag is reset.
ShutdownDone ==
    /\ Returns("stopMode") /\ gameState # "quitting"
    /\ stack' = Below
    /\ amx' = "none"
    /\ gameState' = "restarting"
    /\ finished' = FALSE
    /\ UNCHANGED <<prog, name, count, pending, fate, history, file, index, repeat, ordered, refused>>

\* con_exit, and CNetGame's destructor after the last turn of the main loop.
Quit ==
    /\ Alive /\ AtMainLoop /\ ~finished
    /\ gameState' = "quitting"
    /\ \/ amx # "none" /\ UnloadMode /\ UNCHANGED count
       \/ amx = "none" /\ UnloadFrom(0)
    /\ UNCHANGED <<prog, name, pending, history, amx, orders>>

ModeDeleted ==
    /\ Returns("stopMode") /\ gameState = "quitting"
    /\ amx' = "none"
    /\ UnloadFrom(0)
    /\ UNCHANGED <<prog, name, pending, history, gameState, orders>>

-----------------------------------------------------------------------------
Returning == ModeReturns \/ ModeInitReturns \/ MainReturns \/ ModeExitReturns

Ordering == GameModeExit \/ Gmx \/ \E f \in ModeFiles : ChangeMode(f)

MainLoop == LoadMode \/ RunMain \/ MainCheck \/ ShutdownDone \/ Quit \/ ModeDeleted

\* A script that is being called makes the call, or the main loop does.
Called == (Idle => AtMainLoop) /\ (FsCommand \/ StartEvent)

FilterScriptStep == (LoadNext \/ FsReturns \/ Called) /\ UNCHANGED modeVars

ModeStep == (Idle => AtMainLoop) /\ (CallMode \/ Ordering)

Next == FilterScriptStep \/ ModeStep \/ Returning \/ MainLoop

Spec == Init /\ [][Next]_vars

\* The main loop and the scripts it calls go on.  A script need not end a mode.
FairSpec == Spec /\ WF_vars(Next)

-----------------------------------------------------------------------------
(***************************************************************************)
(* "If szFile is NULL, it will attempt to rotate scripts as per            *)
(* configuration", of which "repeats of this script, cycle to the current" *)
(* is a part (netgame.cpp:237, 278): whatever finite counts of repeats are *)
(* configured, if modes end themselves and are loaded again and again and  *)
(* no operator orders another, the mode that is played changes again and   *)
(* again.  It is refuted for two modes, by one that is played for ever.    *)
(***************************************************************************)
LeftToItself == <>[]~ordered /\ []<><<GameModeExit>>_vars /\ []<><<LoadMode>>_vars

RotatesAsConfigured == LeftToItself => []<><<file' # file>>_vars

(***************************************************************************)
(* The server starts to run without a game mode only if its file is broken *)
(* or if the last order of an operator named a file that is not there: the *)
(* order is refused, but its file is the next one to be played.            *)
(***************************************************************************)
Started == gameState # "running" /\ gameState' = "running"

RunsMode == [][Started => amx' = "loaded" \/ refused \/ file \in BadModes]_vars

=============================================================================
