----------------------------- MODULE ScriptTimers -----------------------------
(***************************************************************************)
(* The timers of the scripts: CScriptTimers (src/server/scrtimers.cpp) and *)
(* what loading and unloading a script does to them.                       *)
(*                                                                         *)
(* Once per pass of the main loop Process goes through a map from timer    *)
(* ids to timers with an iterator.  The callbacks it makes run scripts,    *)
(* which set and kill timers and, with SendRconCommand, unload and load    *)
(* filter scripts at once; unloading a script deletes its timers.          *)
(***************************************************************************)
EXTENDS Integers, FiniteSets

CONSTANTS
    FilterScripts,   \* AMXs of filter scripts
    GameMode,        \* the AMX of the game mode
    Intervals,       \* the intervals scripts ask for
    MaxElapsed,      \* the longest pass of the main loop
    MaxTimers,       \* bound on the timers ever set
    NoTimer, NoScript

ASSUME IntervalsAssumption == Intervals \subseteq Nat \ {0}
ASSUME BoundsAssumption == MaxElapsed \in Nat \ {0} /\ MaxTimers \in Nat
ASSUME ScriptsAssumption == GameMode \notin FilterScripts /\ NoScript \notin FilterScripts \cup {GameMode}

Scripts == FilterScripts \cup {GameMode}
Ids == 1 .. MaxTimers
End == 0             \* m_Timers.end()

(***************************************************************************)
(* since is history: the time since the timer last fired, or since the     *)
(* start of the pass in which it was set, up to the timer's interval.      *)
(***************************************************************************)
Timers == [script : Scripts, interval : Intervals, remaining : Int, since : Nat,
           repeating : BOOLEAN, killed : BOOLEAN]

ASSUME NoTimerAssumption == NoTimer \notin Timers

VARIABLES
    timers,      \* m_Timers
    timerCount,  \* m_dwTimerCount
    loaded,      \* the scripts whose AMX exists
    exiting,     \* the script whose OnGameModeExit or OnFilterScriptExit runs
    elapsed,     \* iElapsedTime of the pass under way, 0 between passes
    itor,        \* Process: the iterator
    itorTmp,     \* Process: the iterator saved before a callback
    calling,     \* a timer callback is running
    corrupt      \* an iterator to an erased node was used

vars == <<timers, timerCount, loaded, exiting, elapsed, itor, itorTmp, calling, corrupt>>

Least(m, n) == IF m < n THEN m ELSE n
Live == {i \in Ids : timers[i] # NoTimer}

\* The first node of the map from id k on.
FirstFrom(k) ==
    IF \E i \in Live : i >= k
    THEN CHOOSE i \in Live : i >= k /\ \A j \in Live : j >= k => i <= j
    ELSE End

\* A timer keeps an interval it was set with, and the iterators of a pass stay
\* in the map.
TypeOK ==
    /\ \A i \in Live : timers[i] \in Timers
    /\ DOMAIN timers = Ids
    /\ timerCount \in 0 .. MaxTimers
    /\ loaded \subseteq Scripts
    /\ exiting \in Scripts \cup {NoScript}
    /\ elapsed \in 0 .. MaxElapsed
    /\ {itor, itorTmp} \subseteq Ids \cup {End}
    /\ {calling, corrupt} \subseteq BOOLEAN

Init ==
    /\ timers = [i \in Ids |-> NoTimer]
    /\ timerCount = 0
    /\ loaded = Scripts
    /\ exiting = NoScript
    /\ elapsed = 0
    /\ itor = End
    /\ itorTmp = End
    /\ calling = FALSE
    /\ corrupt = FALSE

-----------------------------------------------------------------------------
(* Scripts run between two passes and inside a timer callback. *)
ScriptRuns == ~corrupt /\ (elapsed = 0 \/ calling)

\* SetTimer and SetTimerEx
New(s, interval, repeating) ==
    /\ ScriptRuns
    /\ s \in loaded
    /\ timerCount < MaxTimers
    /\ timerCount' = timerCount + 1
    /\ timers' = [timers EXCEPT ![timerCount + 1] =
                    [script |-> s, interval |-> interval, remaining |-> interval,
                     since |-> Least(elapsed, interval), repeating |-> repeating, killed |-> FALSE]]
    /\ UNCHANGED <<loaded, exiting, elapsed, itor, itorTmp, calling, corrupt>>

\* KillTimer: the timer is only marked, and deleted by the next pass.
Kill(i) ==
    /\ ScriptRuns
    /\ i \in Live
    /\ timers' = [timers EXCEPT ![i].remaining = 0, ![i].killed = TRUE, ![i].repeating = FALSE]
    /\ UNCHANGED <<timerCount, loaded, exiting, elapsed, itor, itorTmp, calling, corrupt>>

(***************************************************************************)
(* CGameMode::Unload between two passes, or RemoveFilterScript at any      *)
(* time: the script's exit callback runs, where it may still set timers,   *)
(* and then DeleteForMode deletes every timer that is the script's.        *)
(***************************************************************************)
BeginUnload(s) ==
    /\ ScriptRuns
    /\ exiting = NoScript
    /\ s \in loaded
    /\ s = GameMode => ~calling
    /\ exiting' = s
    /\ UNCHANGED <<timers, timerCount, loaded, elapsed, itor, itorTmp, calling, corrupt>>

\* Mutant: deletes the first timer of the script only.
DeleteForModeOnce(s) ==
    timers' = [i \in Ids |-> IF i \in Live /\ i = FirstFrom(1) /\ timers[i].script = s THEN NoTimer ELSE timers[i]]

DeleteForMode(s) ==
    timers' = [i \in Ids |-> IF i \in Live /\ timers[i].script = s THEN NoTimer ELSE timers[i]]

EndUnload ==
    /\ ScriptRuns
    /\ exiting # NoScript
    /\ DeleteForMode(exiting)
    /\ loaded' = loaded \ {exiting}
    /\ exiting' = NoScript
    /\ UNCHANGED <<timerCount, elapsed, itor, itorTmp, calling, corrupt>>

Load(s) ==
    /\ ScriptRuns
    /\ exiting = NoScript
    /\ s \notin loaded
    /\ s = GameMode => ~calling
    /\ loaded' = loaded \cup {s}
    /\ UNCHANGED <<timers, timerCount, exiting, elapsed, itor, itorTmp, calling, corrupt>>

-----------------------------------------------------------------------------
(***************************************************************************)
(* Process, one timer a step.  The iterator goes through the ids that are  *)
(* in the map when it gets there.                                          *)
(***************************************************************************)
Aged(t, e) == [t EXCEPT !.since = Least(@ + e, t.interval)]

\* A pass, e milliseconds after the last, while there is a game mode.
StartPass(e) ==
    /\ ~corrupt /\ elapsed = 0 /\ exiting = NoScript
    /\ GameMode \in loaded
    /\ Live # {}
    /\ elapsed' = e
    /\ itor' = FirstFrom(1)
    /\ timers' = [i \in Ids |-> IF i \in Live THEN Aged(timers[i], e) ELSE NoTimer]
    /\ UNCHANGED <<timerCount, loaded, exiting, itorTmp, calling, corrupt>>

Visiting == ~corrupt /\ elapsed > 0 /\ ~calling
Due(i) == timers[i].remaining <= elapsed

\* itor++ unless the loop has reached the end, where the pass is over.
MoveTo(i) ==
    /\ itor' = i
    /\ elapsed' = IF i = End THEN 0 ELSE elapsed

\* Mutant: the loop ends at the first timer that is not due.
NotDueEndsPass ==
    /\ Visiting
    /\ ~Due(itor)
    /\ timers' = [timers EXCEPT ![itor].remaining = @ - elapsed]
    /\ MoveTo(End)
    /\ UNCHANGED <<timerCount, loaded, exiting, itorTmp, calling, corrupt>>

NotDue ==
    /\ Visiting
    /\ ~Due(itor)
    /\ timers' = [timers EXCEPT ![itor].remaining = @ - elapsed]
    /\ MoveTo(FirstFrom(itor + 1))
    /\ UNCHANGED <<timerCount, loaded, exiting, itorTmp, calling, corrupt>>

\* After a timer that was due, itor = itor_tmp and then itor++.
StepPast(i) == MoveTo(IF i = End THEN End ELSE FirstFrom(i + 1))

Reap ==
    /\ Visiting
    /\ Due(itor)
    /\ timers[itor].killed
    /\ timers' = [timers EXCEPT ![itor] = NoTimer]
    /\ StepPast(FirstFrom(itor + 1))
    /\ UNCHANGED <<timerCount, loaded, exiting, itorTmp, calling, corrupt>>

Fire ==
    /\ Visiting
    /\ Due(itor)
    /\ ~timers[itor].killed
    /\ timers' = [timers EXCEPT ![itor].remaining = @ - elapsed]
    /\ itorTmp' = FirstFrom(itor + 1)
    /\ calling' = TRUE
    /\ UNCHANGED <<timerCount, loaded, exiting, elapsed, itor, corrupt>>

\* Both iterators must still point into the map.
IteratorsLive == calling => itor \in Live /\ itorTmp \in Live \cup {End}

\* Mutant: the two times are swapped.
RewoundSwapped(t) == [t EXCEPT !.interval = t.remaining, !.since = 0]

\* Mutant: what a late call lost is taken from the next interval.
RewoundCatchingUp(t) == [t EXCEPT !.remaining = @ + t.interval, !.since = 0]

Rewound(t) == [t EXCEPT !.remaining = t.interval, !.since = 0]

CallbackReturns ==
    /\ ~corrupt /\ calling /\ exiting = NoScript
    /\ calling' = FALSE
    /\ IF IteratorsLive
       THEN /\ timers' = [timers EXCEPT ![itor] =
                            IF timers[itor].repeating THEN Rewound(timers[itor]) ELSE NoTimer]
            /\ StepPast(itorTmp)
            /\ UNCHANGED corrupt
       ELSE /\ corrupt' = TRUE
            /\ UNCHANGED <<timers, itor, elapsed>>
    /\ itorTmp' = End
    /\ UNCHANGED <<timerCount, loaded, exiting>>

Process ==
    (\E e \in 1 .. MaxElapsed : StartPass(e)) \/ NotDue \/ Reap \/ Fire \/ CallbackReturns

Next ==
    \/ Process
    \/ \E s \in Scripts, t \in Intervals, r \in BOOLEAN : New(s, t, r)
    \/ \E i \in Ids : Kill(i)
    \/ \E s \in Scripts : BeginUnload(s) \/ Load(s)
    \/ EndUnload

(***************************************************************************)
(* The main loop makes passes and a game mode that has ended is followed   *)
(* by another, however often scripts are unloaded and loaded in between;   *)
(* callbacks return.                                                       *)
(***************************************************************************)
Spec ==
    /\ Init /\ [][Next]_vars
    /\ SF_vars(Process)
    /\ SF_vars(Load(GameMode))
    /\ WF_vars(EndUnload)

-----------------------------------------------------------------------------
(***************************************************************************)
(* A timer is never left without its script: Process would look for the    *)
(* function in an AMX that has been freed.  Scripts may set timers in      *)
(* their exit callback, kill timers and be loaded again, during a pass too.*)
(***************************************************************************)
TimersOfLoadedScripts == \A i \in Live : timers[i].script \in loaded

(***************************************************************************)
(* Two calls of a repeating timer, or its setting and its first call, are  *)
(* never closer than the interval, however long passes take and however    *)
(* often the timer was skipped; a timer set by a callback counts the pass  *)
(* that is under way as gone by.                                           *)
(***************************************************************************)
NeverEarly == [][~calling /\ calling' => timers[itor].since >= timers[itor].interval]_vars

\* A timer that can be due in every pass.
EveryPass == \E i \in Live : timers[i].interval <= MaxElapsed

(***************************************************************************)
(* Every timer fires, unless it is killed or its script goes, and a killed *)
(* one is deleted.  Process passes over the timer that follows one it has  *)
(* called, so a timer that is due in every pass starves the next one; but  *)
(* no longer than there are such timers.                                   *)
(***************************************************************************)
TimersProgress ==
    \A i \in Ids :
        \/ []<>EveryPass
        \/ /\ i \in Live ~> corrupt \/ i \notin Live \/ timers[i].killed \/ (calling /\ itor = i)
           /\ i \in Live /\ timers[i].killed ~> corrupt \/ i \notin Live
=============================================================================
