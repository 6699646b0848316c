---------------------------- MODULE FilterScripts ----------------------------
(***************************************************************************)
(* The filter scripts of the server (src/server/filterscripts.cpp): the    *)
(* slots they are loaded into, the names they are unloaded by, and the     *)
(* loops that call a function of every loaded script.                      *)
(*                                                                         *)
(* Everything here runs on one thread and everything may nest: a script    *)
(* that is being called may execute console commands, which load, unload   *)
(* and reload scripts, whose own functions are called on the way.  The     *)
(* unfinished calls are kept in stack, innermost first.                    *)
(***************************************************************************)
EXTENDS Integers, Sequences, FiniteSets

CONSTANTS
    Scripts,    \* names of the files that are a script
    BadScripts, \* names of files that are there and cannot be loaded
    Configured, \* the filterscripts line of server.cfg, in order
    MaxSlots,   \* MAX_FILTER_SCRIPTS
    MaxDepth,   \* bound on nested calls
    Nobody,     \* a NULL pointer, an empty name, no file
    Blank       \* an AMX that is all zeros

Files == Scripts \cup BadScripts

ASSUME FilesAssumption ==
    /\ Scripts \cap BadScripts = {}
    /\ Nobody # Blank
    /\ {Nobody, Blank} \cap Files = {}
ASSUME BoundsAssumption == MaxSlots \in Nat \ {0} /\ MaxDepth \in Nat \ {0}
ASSUME ConfiguredAssumption == Configured \in Seq(Files)

Slots == 0 .. MaxSlots - 1
GameMode == -1 \* where a call of the game mode stands in the place of a slot

(***************************************************************************)
(* A call that waits for a script to return: OnFilterScriptInit of a slot; *)
(* OnFilterScriptExit of a slot, then loading the file "next" if there is  *)
(* one; the same in UnloadFilterScripts, which goes on to the next slot    *)
(* ("last"); or a loop over the slots that has reached one ("event").  The *)
(* game mode's calls are GameModes's.                                      *)
(***************************************************************************)
OfFilterScripts == {"init", "exit", "last", "event"}
OfGameMode == {"modeInit", "main", "modeExit", "mode"}
Executed == OfFilterScripts \cup OfGameMode
Frames ==
    [op : OfFilterScripts, slot : Slots, next : Files \cup {Nobody}]
    \cup [op : OfGameMode \cup {"startMode", "stopMode"}, slot : {GameMode}, next : {Nobody}]

VARIABLES
    prog,      \* m_pFilterScripts: the program in each slot
    name,      \* m_szFilterScriptName
    count,     \* m_iFilterScriptCount
    pending,   \* the configured scripts strtok has not handed out yet
    stack,     \* the unfinished calls
    fate,      \* what became of the process
    untidy,    \* history: a script was unloaded, or loaded by another's OnFilterScriptInit
    diverted   \* history: a console command came between two of the configured scripts

history == <<untidy, diverted>>
fsVars == <<prog, name, count, pending, stack, fate, history>>

FsTypeOK ==
    /\ prog \in [Slots -> Scripts \cup {Nobody, Blank}]
    /\ name \in [Slots -> Scripts \cup {Nobody}]
    /\ count \in Nat
    /\ pending \in Seq(Files)
    /\ stack \in Seq(Frames)
    /\ fate \in {"alive", "stopped", "exited", "null", "freed"}
    /\ untidy \in BOOLEAN
    /\ diverted \in BOOLEAN

\* CNetGame::Init(TRUE) is about to call LoadAllFilterscripts.
FsInit ==
    /\ prog = [s \in Slots |-> Nobody]
    /\ name = [s \in Slots |-> Nobody]
    /\ count = 0
    /\ pending = Configured
    /\ stack = <<>>
    /\ fate = "alive"
    /\ untidy = FALSE
    /\ diverted = FALSE

Alive == fate = "alive"
Idle == stack = <<>>
Top == Head(stack)
Below == Tail(stack)
Returns(op) == Alive /\ ~Idle /\ Top.op = op
Frame(op, s, f) == [op |-> op, slot |-> s, next |-> f]

\* The slots whose program some of these calls is executing.
Executing(calls) == {calls[k].slot : k \in DOMAIN calls}
Initialising == {k \in DOMAIN stack : stack[k].op = "init"}

LowestOf(s, S) == s \in S /\ \A t \in S : s <= t

-----------------------------------------------------------------------------
\* Mutant: the search for a slot does not look at the names.
SearchStopsAtHoles(f, programs, names) == {s \in Slots : programs[s] = Nobody}

(***************************************************************************)
(* LoadFilterScript, for given contents of the slots: the search ends at   *)
(* the first empty slot or at one that has the name.  The program is in    *)
(* its slot before it runs, its name only after OnFilterScriptInit has     *)
(* returned.  A file that cannot be loaded leaves its blank AMX behind.    *)
(***************************************************************************)
SearchStops(f, programs, names) == {s \in Slots : programs[s] = Nobody \/ names[s] = f}

SlotFor(f, programs, names) ==
    {s \in Slots :
        /\ count < MaxSlots
        /\ LowestOf(s, SearchStops(f, programs, names))
        /\ programs[s] = Nobody}

LoadInto(f, programs, names, calls) ==
    IF SlotFor(f, programs, names) = {}
    THEN prog' = programs /\ stack' = calls
    ELSE \E s \in SlotFor(f, programs, names) :
        IF f \in Scripts
        THEN /\ prog' = [programs EXCEPT ![s] = f]
             /\ stack' = <<Frame("init", s, f)>> \o calls
        ELSE /\ prog' = [programs EXCEPT ![s] = Blank]
             /\ stack' = calls

InitReturns ==
    /\ Returns("init")
    /\ name' = [name EXCEPT ![Top.slot] = Top.next]
    /\ count' = count + 1
    /\ stack' = Below
    /\ UNCHANGED <<prog, pending, fate, history>>

\* Mutant: the first name that is not loaded is the last.
LoadNextUntilFailure ==
    /\ Alive /\ Idle /\ pending # <<>>
    /\ pending' = IF SlotFor(Head(pending), prog, name) = {} THEN <<>> ELSE Tail(pending)
    /\ LoadInto(Head(pending), prog, name, <<>>)
    /\ UNCHANGED <<name, count, fate, history>>

\* LoadAllFilterscripts, one name of the line after the other.
LoadNext ==
    /\ Alive /\ Idle /\ pending # <<>>
    /\ pending' = Tail(pending)
    /\ LoadInto(Head(pending), prog, name, <<>>)
    /\ UNCHANGED <<name, count, fate, history>>

-----------------------------------------------------------------------------
\* UnloadOneFilterScript's search, by name.
Named(f) == {s \in Slots : LowestOf(s, {t \in Slots : name[t] = f})}

\* Mutant: the name stays.
NamesWithoutKept(s) == name

NamesWithout(s) == [name EXCEPT ![s] = Nobody]

(***************************************************************************)
(* RemoveFilterScript after OnFilterScriptExit frees the program.  If      *)
(* another unfinished call still executes it, the process goes on in freed *)
(* memory.  The count of scripts stays.  con_reloadfs then loads the       *)
(* script again.                                                           *)
(***************************************************************************)
FateAfterFreeing(s) == IF s \in Executing(Below) THEN "freed" ELSE fate

ExitReturns ==
    LET programs == [prog EXCEPT ![Top.slot] = Nobody]
        names == NamesWithout(Top.slot) IN
    /\ Returns("exit")
    /\ name' = names
    /\ IF Top.next = Nobody
       THEN prog' = programs /\ stack' = Below
       ELSE LoadInto(Top.next, programs, names, Below)
    /\ fate' = FateAfterFreeing(Top.slot)
    /\ untidy' = TRUE
    /\ UNCHANGED <<count, pending, diverted>>

-----------------------------------------------------------------------------
(***************************************************************************)
(* Console commands, from a script that is being called or, when nothing   *)
(* is, from the operator.  Each takes strtok's one memory of a string, the *)
(* rest of the configured line, away.                                      *)
(***************************************************************************)
\* A script is being executed, or nothing is.
ScriptsMayCall == Alive /\ (Idle => pending = <<>>) /\ (~Idle => Top.op \in Executed)

Command ==
    /\ ScriptsMayCall /\ Len(stack) < MaxDepth
    /\ pending' = <<>>
    /\ diverted' = (diverted \/ pending # <<>>)

\* con_loadfs
LoadFs(f) ==
    /\ Command
    /\ LoadInto(f, prog, name, stack)
    /\ untidy' = (untidy \/ Initialising # {})
    /\ UNCHANGED <<name, count, fate>>

(***************************************************************************)
(* A function of the script in slot s is called, if there is one: looking  *)
(* for it in a blank AMX ends the process.                                 *)
(***************************************************************************)
Call(op, s, next, calls) ==
    IF prog[s] \in Scripts
    THEN stack' = <<Frame(op, s, next)>> \o calls /\ UNCHANGED fate
    ELSE fate' = "null" /\ stack' = calls

InUse(f) == {s \in Named(f) : prog[s] # Nobody}

\* con_unloadfs
UnloadFs(f) ==
    /\ Command
    /\ \E s \in InUse(f) : Call("exit", s, Nobody, stack)
    /\ UNCHANGED <<prog, name, count, untidy>>

\* con_reloadfs
ReloadFs(f) ==
    /\ Command
    /\ \/ /\ \E s \in InUse(f) : Call("exit", s, f, stack)
          /\ UNCHANGED <<prog, untidy>>
       \/ /\ InUse(f) = {}
          /\ LoadInto(f, prog, name, stack)
          /\ untidy' = (untidy \/ Initialising # {})
          /\ UNCHANGED fate
    /\ UNCHANGED <<name, count>>

-----------------------------------------------------------------------------
(***************************************************************************)
(* A function of every script is called, slot by slot, reading each slot   *)
(* when the loop gets there.  Most of the loops end at a script that       *)
(* answers 0, and then the scripts after it hear nothing.                  *)
(***************************************************************************)
LoadedFrom(from) == {s \in Slots : s >= from /\ prog[s] # Nobody}

Deliver(from, calls) ==
    \/ \E s \in LoadedFrom(from) :
        /\ LowestOf(s, LoadedFrom(from))
        /\ Call("event", s, Nobody, calls)
    \/ /\ LoadedFrom(from) = {}
       /\ stack' = calls
       /\ UNCHANGED fate

StartEvent ==
    /\ ScriptsMayCall /\ Len(stack) < MaxDepth
    /\ Deliver(0, stack)
    /\ UNCHANGED <<prog, name, count, pending, history>>

EventReturns ==
    /\ Returns("event")
    /\ \/ Deliver(Top.slot + 1, Below)
       \/ stack' = Below /\ UNCHANGED fate
    /\ UNCHANGED <<prog, name, count, pending, history>>

(***************************************************************************)
(* UnloadFilterScripts, when the server stops: the slots from one on.      *)
(***************************************************************************)
UnloadFrom(from) ==
    \/ /\ \E s \in LoadedFrom(from) :
            LowestOf(s, LoadedFrom(from)) /\ Call("last", s, Nobody, <<>>)
       /\ UNCHANGED count
    \/ /\ LoadedFrom(from) = {}
       /\ count' = 0
       /\ fate' = "stopped"
       /\ stack' = <<>>

LastReturns ==
    /\ Returns("last")
    /\ prog' = [prog EXCEPT ![Top.slot] = Nobody]
    /\ name' = NamesWithout(Top.slot)
    /\ untidy' = TRUE
    /\ UnloadFrom(Top.slot + 1)
    /\ UNCHANGED <<pending, diverted>>

FsReturns == InitReturns \/ ExitReturns \/ EventReturns \/ LastReturns

FsCommand == \E f \in Files : LoadFs(f) \/ UnloadFs(f) \/ ReloadFs(f)

-----------------------------------------------------------------------------
(***************************************************************************)
(* A loaded script has its own program's name, and no empty slot has one:  *)
(* the name is set after OnFilterScriptInit, which may load and unload     *)
(* others, and is cleared after OnFilterScriptExit, which may do the same. *)
(***************************************************************************)
NamesMatch ==
    Alive => \A s \in Slots : name[s] \in {Nobody, prog[s]}

(***************************************************************************)
(* No script is loaded twice.  That takes scripts that stay in the slots   *)
(* where they were loaded and know each other's names: after an unload the *)
(* search ends at the hole, and before OnFilterScriptInit has returned a   *)
(* script has no name yet.                                                 *)
(***************************************************************************)
OneCopy ==
    Alive /\ ~untidy =>
        \A s, t \in Slots : prog[s] = prog[t] /\ prog[s] \in Scripts => s = t

(***************************************************************************)
(* Every script of the configured line that can be loaded is loaded once   *)
(* the server runs, unless a script unloads it or takes strtok's memory of *)
(* the line away by a console command of its own.                          *)
(***************************************************************************)
Elements(seq) == {seq[k] : k \in DOMAIN seq}

ConfiguredLoaded ==
    Alive /\ Idle /\ pending = <<>> /\ ~untidy /\ ~diverted =>
        \A f \in Elements(Configured) \cap Scripts : \E s \in Slots : prog[s] = f

=============================================================================
