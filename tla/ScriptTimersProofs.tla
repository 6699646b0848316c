-------------------------- MODULE ScriptTimersProofs --------------------------
(***************************************************************************)
(* Proofs about ScriptTimers, for any filter scripts, intervals, length of *)
(* a pass and number of timers.                                            *)
(*                                                                         *)
(* That no timer is called early is a promise each timer keeps: what       *)
(* remains of its interval is never less than what has not yet gone by.    *)
(* While a pass is under way its milliseconds have gone by for every timer *)
(* but are taken from what remains only where the iterator has been, so    *)
(* the promise differs for the timers ahead of the iterator.               *)
(***************************************************************************)
EXTENDS ScriptTimers, ProofLemmas, FiniteSetTheorems, TLAPS

(* e milliseconds of the pass under way are still to be taken from t. *)
Keeps(t, e) == t.since >= t.interval \/ t.since + t.remaining >= t.interval + e

Ahead(i) == elapsed > 0 /\ (i > itor \/ (i = itor /\ ~calling))

Promise ==
    \A i \in Live : ~timers[i].killed =>
        Keeps(timers[i], IF Ahead(i) THEN elapsed ELSE 0)

(* Where the iterators of a pass are. *)
Iterators ==
    /\ elapsed > 0 /\ ~calling /\ ~corrupt => itor \in Live
    /\ calling => elapsed > 0 /\ itor # End /\ (itorTmp = End \/ itorTmp > itor)

(* Ids are given in order, and a script that exits is still loaded. *)
Bookkeeping ==
    /\ \A i \in Live : i <= timerCount
    /\ exiting \in loaded \cup {NoScript}

Inv ==
    /\ TypeOK
    /\ Bookkeeping
    /\ TimersOfLoadedScripts
    /\ Iterators
    /\ ~corrupt => Promise

-----------------------------------------------------------------------------
(***************************************************************************)
(* The node of the map an iterator goes to.                                *)
(***************************************************************************)
\* FirstFrom finds a node from k on where there is one.
LEMMA FirstFromFinds ==
    ASSUME NEW k \in Nat
    PROVE  /\ FirstFrom(k) \in Ids \cup {End}
           /\ FirstFrom(k) # End => FirstFrom(k) \in Live /\ FirstFrom(k) >= k
           /\ (\E i \in Live : i >= k) => FirstFrom(k) # End
<1> Live \subseteq Ids /\ Ids \subseteq Nat \ {End}
  BY BoundsAssumption DEF Live, Ids, End
<1> DEFINE S == {i \in Live : i >= k}
<1>1. CASE S = {}
  BY <1>1 DEF FirstFrom
<1>2. CASE S # {}
  <2>1. \E x \in S : \A y \in S : x <= y
    BY <1>2, LeastNatural
  <2>2. \E i \in Live : i >= k /\ \A j \in Live : j >= k => i <= j
    BY <2>1
  <2>3. FirstFrom(k) \in Live /\ FirstFrom(k) >= k
    BY <2>2 DEF FirstFrom
  <2>4. QED
    BY <2>3
<1>3. QED
  BY <1>1, <1>2

-----------------------------------------------------------------------------
(***************************************************************************)
(* The steps.                                                              *)
(***************************************************************************)
\* Where the iterator is once it has moved to the node j, from k on.
LEMMA Moved ==
    ASSUME Inv, NEW k \in Nat, NEW j, j = End \/ (j \in Live /\ j >= k),
           MoveTo(j), DOMAIN timers' = Ids,
           \A i \in Ids : i >= k => timers'[i] = timers[i]
    PROVE  /\ itor' \in Ids \cup {End}
           /\ elapsed' \in 0 .. MaxElapsed
           /\ elapsed' > 0 => elapsed' = elapsed /\ itor' \in Live' /\ itor' >= k
BY BoundsAssumption DEF Inv, TypeOK, MoveTo, Live, Ids, End

\* The node before the next one, taken twice, is still ahead.
LEMMA TwoOn ==
    ASSUME Inv, NEW k \in Nat, NEW i, i = End \/ (i \in Live /\ i >= k)
    PROVE  \/ i = End
           \/ FirstFrom(i + 1) = End
           \/ FirstFrom(i + 1) \in Live /\ FirstFrom(i + 1) >= k
<1>1. CASE i = End
  BY <1>1
<1>2. CASE i # End
  <2>1. i \in Nat /\ i + 1 \in Nat /\ Live \subseteq Nat
    BY <1>2, BoundsAssumption DEF Live, Ids
  <2>2. FirstFrom(i + 1) # End => FirstFrom(i + 1) \in Live /\ FirstFrom(i + 1) >= i + 1
    BY <2>1, FirstFromFinds
  <2>3. ASSUME FirstFrom(i + 1) # End PROVE FirstFrom(i + 1) >= k
    <3> DEFINE n == FirstFrom(i + 1)
    <3>1. n \in Nat /\ n >= i + 1
      BY <2>1, <2>2, <2>3
    <3> HIDE DEF n
    <3>2. n >= k
      BY <1>2, <2>1, <3>1
    <3>3. QED
      BY <3>2 DEF n
  <2>4. QED
    BY <1>2, <2>1, <2>2, <2>3
<1>3. QED
  BY <1>1, <1>2

LEMMA TimerFields ==
    ASSUME NEW t \in Timers
    PROVE  t.interval \in Nat /\ t.interval > 0 /\ t.remaining \in Int /\ t.since \in Nat /\ t.script \in Scripts
<1>1. t.interval \in Intervals /\ t.remaining \in Int /\ t.since \in Nat /\ t.script \in Scripts
  BY DEF Timers
<1>2. \A n \in Intervals : n \in Nat /\ n > 0
  BY IntervalsAssumption
<1>3. QED
  BY <1>1, <1>2

\* Timers with fields set are timers.
LEMMA MarkedTimer ==
    ASSUME NEW t \in Timers
    PROVE  LET u == [t EXCEPT !.remaining = 0, !.killed = TRUE, !.repeating = FALSE]
           IN  u \in Timers /\ u.killed = TRUE /\ u.script = t.script
<1>1. \A r \in Int, k, p \in BOOLEAN :
        LET u == [t EXCEPT !.remaining = r, !.killed = k, !.repeating = p]
        IN  u \in Timers /\ u.killed = k /\ u.script = t.script
  BY DEF Timers
<1>2. 0 \in Int /\ TRUE \in BOOLEAN /\ FALSE \in BOOLEAN
  OBVIOUS
<1>3. QED
  BY <1>1, <1>2, Zenon

LEMMA AgedTimer ==
    ASSUME NEW t \in Timers, NEW e \in Nat
    PROVE  /\ Aged(t, e) \in Timers
           /\ Aged(t, e).since = Least(t.since + e, t.interval)
           /\ \A f \in {"script", "interval", "remaining", "killed"} : Aged(t, e)[f] = t[f]
<1>1. Least(t.since + e, t.interval) \in Nat
  BY TimerFields DEF Least
<1>2. QED
  BY <1>1 DEF Timers, Aged

LEMMA RewoundTimer ==
    ASSUME NEW t \in Timers
    PROVE  /\ Rewound(t) \in Timers
           /\ Rewound(t).since = 0 /\ Rewound(t).remaining = t.interval
           /\ \A f \in {"script", "interval", "killed"} : Rewound(t)[f] = t[f]
<1>1. \A r \in Int, n \in Nat :
        LET u == [t EXCEPT !.remaining = r, !.since = n]
        IN  /\ u \in Timers /\ u.since = n /\ u.remaining = r
            /\ \A f \in {"script", "interval", "killed"} : u[f] = t[f]
  BY DEF Timers
<1>2. t.interval \in Int /\ 0 \in Nat
  BY TimerFields
<1>3. QED
  BY <1>1, <1>2 DEF Rewound

\* The milliseconds of the pass are taken from what remains.
LEMMA TakenTimer ==
    ASSUME NEW t \in Timers, NEW e \in Nat
    PROVE  LET u == [t EXCEPT !.remaining = @ - e]
           IN  /\ u \in Timers
               /\ u.script = t.script /\ u.killed = t.killed
               /\ Keeps(t, e) => Keeps(u, 0)
<1>1. \A r \in Int :
        LET u == [t EXCEPT !.remaining = r]
        IN  /\ u \in Timers /\ u.remaining = r
            /\ \A f \in {"script", "interval", "killed", "since"} : u[f] = t[f]
  BY DEF Timers
<1>2. t.remaining - e \in Int /\ t.interval \in Int /\ t.since \in Int
  BY TimerFields
<1> DEFINE u == [t EXCEPT !.remaining = t.remaining - e]
<1>3. u \in Timers /\ u.remaining = t.remaining - e /\ u.script = t.script
      /\ u.interval = t.interval /\ u.killed = t.killed /\ u.since = t.since
  BY <1>1, <1>2
<1>4. [t EXCEPT !.remaining = @ - e] = u
  OBVIOUS
<1> HIDE DEF u
<1>5. Keeps(t, e) => Keeps(u, 0)
  BY <1>2, <1>3, TimerFields DEF Keeps
<1>6. QED
  BY <1>3, <1>4, <1>5

LEMMA InvInit == Init => Inv
<1> SUFFICES ASSUME Init PROVE Inv
  OBVIOUS
<1>1. Live = {}
  BY DEF Init, Live
<1>2. TypeOK
  <2>1. {calling, corrupt} \subseteq BOOLEAN
    BY Zenon DEF Init
  <2>2. QED
    BY <1>1, <2>1, BoundsAssumption DEF Init, TypeOK, End
<1>3. QED
  BY <1>1, <1>2 DEF Init, Inv, Bookkeeping, TimersOfLoadedScripts, Iterators, Promise

\* A script sets a timer.
LEMMA NewKeeps ==
    ASSUME Inv, NEW s \in Scripts, NEW t \in Intervals, NEW r \in BOOLEAN, New(s, t, r)
    PROVE  Inv'
<1> DEFINE n == timerCount + 1
           T == [script |-> s, interval |-> t, remaining |-> t,
                 since |-> Least(elapsed, t), repeating |-> r, killed |-> FALSE]
<1>1. n \in Ids /\ timerCount' = n /\ timers' = [timers EXCEPT ![n] = T]
  BY BoundsAssumption DEF New, Inv, TypeOK, Ids
<1>2. T \in Timers /\ Keeps(T, elapsed) /\ Keeps(T, 0)
  BY IntervalsAssumption, BoundsAssumption DEF Inv, TypeOK, Timers, Keeps, Least
<1>3. Live \subseteq Live' /\ Live' \subseteq Live \cup {n}
  BY <1>1, <1>2, NoTimerAssumption DEF Inv, TypeOK, Live
<1>4. \A i \in Live' : i # n => timers'[i] = timers[i]
  BY <1>1 DEF Inv, TypeOK, Live
<1>5. timers'[n] = T
  BY <1>1 DEF Inv, TypeOK
<1> HIDE DEF n, T
<1>6. UNCHANGED <<loaded, exiting, elapsed, itor, itorTmp, calling, corrupt>>
  BY DEF New
<1>7. TypeOK'
  BY <1>1, <1>2, <1>3, <1>4, <1>5, <1>6, BoundsAssumption DEF Inv, TypeOK, Ids
<1>8. Bookkeeping'
  BY <1>1, <1>3, <1>4, <1>6, BoundsAssumption DEF Inv, TypeOK, Bookkeeping, Ids, Live, n
<1>9. TimersOfLoadedScripts'
  <2>1. s \in loaded
    BY DEF New
  <2>2. QED
    BY <2>1, <1>3, <1>4, <1>5, <1>6 DEF Inv, TimersOfLoadedScripts, T
<1>10. Iterators'
  BY <1>3, <1>6 DEF Inv, Iterators
<1>11. (~corrupt => Promise)'
  BY <1>2, <1>3, <1>4, <1>5, <1>6 DEF Inv, Promise, Ahead
<1>12. QED
  BY <1>7, <1>8, <1>9, <1>10, <1>11 DEF Inv

\* A timer is marked as killed; it has no promise to keep any more.
LEMMA KillKeeps == ASSUME Inv, NEW i \in Ids, Kill(i) PROVE Inv'
<1> DEFINE T == [timers[i] EXCEPT !.remaining = 0, !.killed = TRUE, !.repeating = FALSE]
<1>1. i \in Live /\ timers' = [timers EXCEPT ![i] = T]
  BY DEF Kill
<1>2. T \in Timers /\ T.killed /\ T.script = timers[i].script
  BY <1>1, MarkedTimer DEF Inv, TypeOK
<1>3. Live' = Live
  BY <1>1, <1>2, NoTimerAssumption DEF Inv, TypeOK, Live
<1>4. timers'[i] = T /\ \A j \in Live : j # i => timers'[j] = timers[j]
  BY <1>1 DEF Inv, TypeOK, Live
<1> HIDE DEF T
<1>5. UNCHANGED <<timerCount, loaded, exiting, elapsed, itor, itorTmp, calling, corrupt>>
  BY DEF Kill
<1>6. TypeOK'
  BY <1>1, <1>2, <1>3, <1>4, <1>5 DEF Inv, TypeOK
<1>7. Bookkeeping' /\ Iterators'
  BY <1>3, <1>5 DEF Inv, Bookkeeping, Iterators
<1>8. TimersOfLoadedScripts'
  BY <1>1, <1>2, <1>3, <1>4, <1>5 DEF Inv, TimersOfLoadedScripts
<1>9. (~corrupt => Promise)'
  BY <1>2, <1>3, <1>4, <1>5 DEF Inv, Promise, Ahead
<1>10. QED
  BY <1>6, <1>7, <1>8, <1>9 DEF Inv

\* Scripts come and go.
LEMMA BeginUnloadKeeps == ASSUME Inv, NEW s \in Scripts, BeginUnload(s) PROVE Inv'
<1>1. TypeOK' /\ Bookkeeping' /\ TimersOfLoadedScripts'
  BY DEF Inv, BeginUnload, TypeOK, Bookkeeping, TimersOfLoadedScripts, Live
<1>2. Iterators' /\ (~corrupt => Promise)'
  BY DEF Inv, BeginUnload, Iterators, Promise, Ahead, Live
<1>3. QED
  BY <1>1, <1>2 DEF Inv

LEMMA LoadKeeps == ASSUME Inv, NEW s \in Scripts, Load(s) PROVE Inv'
<1>1. TypeOK' /\ Bookkeeping' /\ TimersOfLoadedScripts'
  BY DEF Inv, Load, TypeOK, Bookkeeping, TimersOfLoadedScripts, Live
<1>2. Iterators' /\ (~corrupt => Promise)'
  BY DEF Inv, Load, Iterators, Promise, Ahead, Live
<1>3. QED
  BY <1>1, <1>2 DEF Inv

\* Every timer of the script goes with it, on both sides of the iterator.
LEMMA EndUnloadKeeps == ASSUME Inv, EndUnload PROVE Inv'
<1>1. /\ DOMAIN timers' = Ids
      /\ Live' = {i \in Live : timers[i].script # exiting}
      /\ \A i \in Live' : timers'[i] = timers[i]
  BY DEF EndUnload, DeleteForMode, Inv, TypeOK, Live
<1>2. /\ loaded' = loaded \ {exiting} /\ exiting' = NoScript
      /\ UNCHANGED <<timerCount, elapsed, itor, itorTmp, calling, corrupt>>
      /\ elapsed = 0 \/ calling
  BY DEF EndUnload, ScriptRuns
<1>3. TypeOK'
  BY <1>1, <1>2 DEF Inv, TypeOK
<1>4. Bookkeeping' /\ TimersOfLoadedScripts'
  BY <1>1, <1>2 DEF Inv, Bookkeeping, TimersOfLoadedScripts
<1>5. Iterators' /\ (~corrupt => Promise)'
  BY <1>1, <1>2 DEF Inv, TypeOK, Iterators, Promise, Ahead
<1>6. QED
  BY <1>3, <1>4, <1>5 DEF Inv

\* A pass begins: its milliseconds have gone by, and are taken from no timer yet.
LEMMA StartPassKeeps == ASSUME Inv, NEW e \in 1 .. MaxElapsed, StartPass(e) PROVE Inv'
<1>1. /\ ~corrupt /\ elapsed = 0 /\ elapsed' = e /\ itor' = FirstFrom(1)
      /\ UNCHANGED <<timerCount, loaded, exiting, itorTmp, calling, corrupt>>
  BY DEF StartPass
<1>2. e \in Nat /\ e > 0 /\ ~calling
  BY <1>1, BoundsAssumption DEF Inv, Iterators
<1>3. /\ DOMAIN timers' = Ids
      /\ \A i \in Live : timers'[i] = Aged(timers[i], e)
      /\ \A i \in Ids \ Live : timers'[i] = NoTimer
  BY DEF StartPass, Live
<1>4. \A i \in Live : /\ timers[i] \in Timers /\ timers'[i] \in Timers
                     /\ timers'[i].since = Least(timers[i].since + e, timers[i].interval)
                     /\ timers'[i].script = timers[i].script
                     /\ timers'[i].interval = timers[i].interval
                     /\ timers'[i].remaining = timers[i].remaining
                     /\ timers'[i].killed = timers[i].killed
  BY <1>2, <1>3, AgedTimer DEF Inv, TypeOK
<1>5. Live' = Live
  BY <1>3, <1>4, NoTimerAssumption DEF Live
<1>6. itor' \in Live
  <2>1. PICK i \in Live : i >= 1
    BY BoundsAssumption DEF StartPass, Live, Ids
  <2>2. QED
    BY <1>1, <2>1, FirstFromFinds
<1>7. TypeOK'
  BY <1>1, <1>3, <1>4, <1>5, <1>6 DEF Inv, TypeOK, Live
<1>8. Bookkeeping' /\ TimersOfLoadedScripts'
  BY <1>1, <1>4, <1>5 DEF Inv, Bookkeeping, TimersOfLoadedScripts
<1>9. Iterators'
  BY <1>1, <1>2, <1>5, <1>6 DEF Inv, Iterators
<1>10. Promise'
  <2> SUFFICES ASSUME NEW i \in Live, ~timers[i].killed PROVE Keeps(timers'[i], e) /\ Keeps(timers'[i], 0)
    BY <1>1, <1>4, <1>5 DEF Promise
  <2>1. Keeps(timers[i], 0)
    BY <1>1 DEF Inv, Promise, Ahead
  <2>2. timers[i].since \in Nat /\ timers[i].interval \in Nat /\ timers[i].remaining \in Int
    BY <1>4, TimerFields
  <2>3. QED
    BY <2>1, <2>2, <1>2, <1>4 DEF Keeps, Least
<1>11. QED
  BY <1>7, <1>8, <1>9, <1>10 DEF Inv

(***************************************************************************)
(* The iterator leaves a timer for one further on.  The timer it leaves is *)
(* deleted, or has the milliseconds of the pass taken from what remains.   *)
(***************************************************************************)
LEMMA StepOn ==
    ASSUME Inv, ~corrupt, elapsed > 0, itor \in Live,
           NEW u, \/ u = NoTimer
                  \/ u \in Timers /\ u.script = timers[itor].script /\ (~u.killed => Keeps(u, 0)),
           timers' = [timers EXCEPT ![itor] = u],
           NEW j, j = End \/ (j \in Live /\ j >= itor + 1), MoveTo(j),
           calling' = FALSE, itorTmp' \in Ids \cup {End},
           UNCHANGED <<timerCount, loaded, exiting, corrupt>>
    PROVE  Inv'
<1>1. timers[itor] \in Timers /\ itor + 1 \in Nat /\ elapsed \in Nat
  BY BoundsAssumption DEF Inv, TypeOK, Live, Ids
<1>2. /\ DOMAIN timers' = Ids /\ timers'[itor] = u
      /\ \A i \in Ids : i # itor => timers'[i] = timers[i]
      /\ Live' \subseteq Live /\ Live \ {itor} \subseteq Live'
      /\ itor \in Live' => u \in Timers
  BY NoTimerAssumption DEF Inv, TypeOK, Live
<1>3. /\ itor' \in Ids \cup {End} /\ elapsed' \in 0 .. MaxElapsed
      /\ elapsed' > 0 => elapsed' = elapsed /\ itor' \in Live' /\ itor' >= itor + 1
  <2>1. \A i \in Ids : i >= itor + 1 => timers'[i] = timers[i]
    BY <1>2, BoundsAssumption DEF Live, Ids
  <2>2. QED
    BY <1>1, <1>2, <2>1, Moved
<1>4. TypeOK'
  <2>1. {calling, corrupt}' \subseteq BOOLEAN
    BY Zenon DEF Inv, TypeOK
  <2>2. QED
    BY <1>2, <1>3, <2>1 DEF Inv, TypeOK, Live
<1>5. Bookkeeping' /\ TimersOfLoadedScripts'
  BY <1>2 DEF Inv, Bookkeeping, TimersOfLoadedScripts, Live
<1>6. Iterators'
  BY <1>2, <1>3 DEF Inv, Iterators
<1>7. Promise'
  <2> SUFFICES ASSUME NEW i \in Live', ~timers'[i].killed
               PROVE  Keeps(timers'[i], IF Ahead(i)' THEN elapsed' ELSE 0)
    BY DEF Promise
  <2>1. i \in Nat /\ itor \in Nat /\ elapsed \in Nat /\ i \in Live
    BY <1>2, BoundsAssumption DEF Inv, TypeOK, Live, Ids
  <2>2. CASE i = itor
    <3>1. Keeps(u, 0)
      BY <1>2, <2>2, NoTimerAssumption DEF Live
    <3>2. ~Ahead(i)'
      BY <1>2, <1>3, <2>1, <2>2, BoundsAssumption DEF Ahead, Live, Ids
    <3>3. QED
      BY <1>2, <2>2, <3>1, <3>2
  <2>3. CASE i # itor
    <3>1. timers'[i] = timers[i]
      BY <1>2, <2>1, <2>3 DEF Live
    <3>2. Keeps(timers[i], IF i > itor THEN elapsed ELSE 0)
      BY <2>1, <2>3, <3>1 DEF Inv, Promise, Ahead
    <3>3. Ahead(i)' => i > itor /\ elapsed' = elapsed
      BY <1>2, <1>3, <2>1, <2>3, BoundsAssumption DEF Ahead, Live, Ids
    <3>4. i > itor /\ Keeps(timers[i], elapsed) => Keeps(timers[i], 0)
      <4>1. timers[i] \in Timers
        BY <2>1 DEF Inv, TypeOK
      <4>2. QED
        BY <4>1, <2>1, TimerFields DEF Keeps
    <3>5. QED
      BY <3>1, <3>2, <3>3, <3>4
  <2>4. QED
    BY <2>2, <2>3
<1>8. QED
  BY <1>4, <1>5, <1>6, <1>7 DEF Inv

\* A timer that is not due.
LEMMA NotDueKeeps == ASSUME Inv, NotDue PROVE Inv'
<1> DEFINE u == [timers[itor] EXCEPT !.remaining = @ - elapsed]
<1>1. /\ ~corrupt /\ elapsed > 0 /\ ~calling /\ itor \in Live /\ MoveTo(FirstFrom(itor + 1))
      /\ timers' = [timers EXCEPT ![itor] = u]
      /\ UNCHANGED <<timerCount, loaded, exiting, itorTmp, calling, corrupt>>
  BY DEF NotDue, Visiting, Inv, Iterators
<1>2. timers[itor] \in Timers /\ itor + 1 \in Nat /\ elapsed \in Nat /\ itorTmp \in Ids \cup {End}
  BY <1>1, BoundsAssumption DEF Inv, TypeOK, Live, Ids
<1>3. u \in Timers /\ u.script = timers[itor].script /\ (~u.killed => Keeps(u, 0))
  <2>1. ~timers[itor].killed => Keeps(timers[itor], elapsed)
    BY <1>1 DEF Inv, Promise, Ahead
  <2>2. QED
    BY <1>2, <2>1, TakenTimer
<1>4. FirstFrom(itor + 1) = End \/ (FirstFrom(itor + 1) \in Live /\ FirstFrom(itor + 1) >= itor + 1)
  BY <1>2, FirstFromFinds
<1> HIDE DEF u
<1>5. QED
  <2>1. calling' = FALSE
    BY <1>1, Zenon DEF Inv, TypeOK
  <2>2. QED
    BY <1>1, <1>2, <1>3, <1>4, <2>1, StepOn

\* A timer that was killed: the one after it is passed over, too.
LEMMA ReapKeeps == ASSUME Inv, Reap PROVE Inv'
<1> DEFINE n == FirstFrom(itor + 1)
           j == IF n = End THEN End ELSE FirstFrom(n + 1)
<1>1. /\ ~corrupt /\ elapsed > 0 /\ ~calling /\ itor \in Live /\ MoveTo(j)
      /\ timers' = [timers EXCEPT ![itor] = NoTimer]
      /\ UNCHANGED <<timerCount, loaded, exiting, itorTmp, calling, corrupt>>
  BY DEF Reap, StepPast, Visiting, Inv, Iterators
<1>2. itor + 1 \in Nat /\ itorTmp \in Ids \cup {End}
  BY <1>1, BoundsAssumption DEF Inv, TypeOK, Live, Ids
<1>3. n = End \/ (n \in Live /\ n >= itor + 1)
  BY <1>2, FirstFromFinds
<1>4. j = End \/ (j \in Live /\ j >= itor + 1)
  BY <1>2, <1>3, TwoOn
<1> HIDE DEF j
<1>5. QED
  <2>1. calling' = FALSE
    BY <1>1, Zenon DEF Inv, TypeOK
  <2>2. QED
    BY <1>1, <1>2, <1>4, <2>1, StepOn

\* The callback of a timer is called: the promise of that timer is kept.
LEMMA FireKeeps == ASSUME Inv, Fire PROVE Inv' /\ timers[itor].since >= timers[itor].interval
<1> DEFINE u == [timers[itor] EXCEPT !.remaining = @ - elapsed]
<1>1. /\ ~corrupt /\ elapsed > 0 /\ ~calling /\ itor \in Live
      /\ timers' = [timers EXCEPT ![itor] = u] /\ itorTmp' = FirstFrom(itor + 1) /\ calling' = TRUE
      /\ UNCHANGED <<timerCount, loaded, exiting, elapsed, itor, corrupt>>
  BY DEF Fire, Visiting, Inv, Iterators
<1>2. timers[itor] \in Timers /\ itor \in Nat /\ itor # End /\ itor + 1 \in Nat /\ elapsed \in Nat
  BY <1>1, BoundsAssumption DEF Inv, TypeOK, Live, Ids, End
<1>3. Keeps(timers[itor], elapsed) /\ timers[itor].remaining <= elapsed
  BY <1>1 DEF Fire, Due, Inv, Promise, Ahead
<1>4. timers[itor].since >= timers[itor].interval
  BY <1>2, <1>3, TimerFields DEF Keeps
<1>5. u \in Timers /\ u.script = timers[itor].script /\ Keeps(u, 0)
  BY <1>2, <1>3, TakenTimer
<1> HIDE DEF u
<1>6. /\ DOMAIN timers' = Ids /\ timers'[itor] = u
      /\ \A i \in Ids : i # itor => timers'[i] = timers[i]
      /\ Live' = Live
  BY <1>1, <1>5, NoTimerAssumption DEF Inv, TypeOK, Live
<1>7. itorTmp' \in Ids \cup {End} /\ (itorTmp' = End \/ itorTmp' > itor)
  <2>1. itorTmp' \in Live \/ itorTmp' = End
    BY <1>1, <1>2, FirstFromFinds
  <2>2. itorTmp' = End \/ itorTmp' >= itor + 1
    BY <1>1, <1>2, FirstFromFinds
  <2>3. QED
    BY <2>1, <2>2, <1>2, BoundsAssumption DEF Live, Ids
<1>8. TypeOK'
  <2>1. {calling, corrupt}' \subseteq BOOLEAN
    BY <1>1, Zenon DEF Inv, TypeOK
  <2>2. QED
    BY <1>1, <1>5, <1>6, <1>7, <2>1 DEF Inv, TypeOK, Live
<1>9. Bookkeeping' /\ TimersOfLoadedScripts'
  BY <1>1, <1>5, <1>6 DEF Inv, Bookkeeping, TimersOfLoadedScripts, Live
<1>10. Iterators'
  BY <1>1, <1>2, <1>7 DEF Inv, Iterators
<1>11. Promise'
  <2>1. \A i \in Live : Ahead(i)' = (i > itor)
    BY <1>1, <1>2, BoundsAssumption DEF Ahead, Live, Ids
  <2>2. \A i \in Live : i # itor => Ahead(i) = (i > itor) /\ timers'[i] = timers[i]
    BY <1>1, <1>2, <1>6, BoundsAssumption DEF Ahead, Live, Ids
  <2>3. ASSUME NEW i \in Live', ~timers'[i].killed
        PROVE  Keeps(timers'[i], IF Ahead(i)' THEN elapsed' ELSE 0)
    <3>1. CASE i = itor
      <4>1. timers'[i] = u
        BY <1>6, <3>1
      <4>2. ~Ahead(i)'
        BY <1>1, <1>2, <3>1 DEF Ahead
      <4>3. QED
        BY <1>5, <4>1, <4>2
    <3>2. CASE i # itor
      BY <1>1, <1>6, <2>1, <2>2, <2>3, <3>2 DEF Inv, Promise
    <3>3. QED
      BY <3>1, <3>2
  <2>4. QED
    BY <2>3 DEF Promise
<1>12. QED
  BY <1>4, <1>8, <1>9, <1>10, <1>11 DEF Inv

\* The callback returns, and the iterator goes on from the node saved before it.
LEMMA CallbackReturnsKeeps == ASSUME Inv, CallbackReturns PROVE Inv'
<1>1. /\ ~corrupt /\ calling /\ calling' = FALSE /\ itorTmp' = End
      /\ UNCHANGED <<timerCount, loaded, exiting>>
      /\ elapsed > 0 /\ (itorTmp = End \/ itorTmp > itor)
  BY DEF CallbackReturns, Inv, Iterators
<1>2. CASE IteratorsLive
  <2> DEFINE u == IF timers[itor].repeating THEN Rewound(timers[itor]) ELSE NoTimer
             j == IF itorTmp = End THEN End ELSE FirstFrom(itorTmp + 1)
  <2>1. /\ itor \in Live /\ itorTmp \in Live \cup {End}
        /\ timers' = [timers EXCEPT ![itor] = u] /\ MoveTo(j) /\ UNCHANGED corrupt
    BY <1>1, <1>2 DEF CallbackReturns, IteratorsLive, StepPast
  <2>2. timers[itor] \in Timers /\ itor + 1 \in Nat
    BY <2>1, BoundsAssumption DEF Inv, TypeOK, Live, Ids
  <2>3. u = NoTimer \/ (u \in Timers /\ u.script = timers[itor].script /\ Keeps(u, 0))
    BY <2>2, RewoundTimer, TimerFields DEF Keeps
  <2>4. itorTmp = End \/ (itorTmp \in Live /\ itorTmp >= itor + 1)
    BY <1>1, <2>1, BoundsAssumption DEF Live, Ids
  <2>5. j = End \/ (j \in Live /\ j >= itor + 1)
    BY <2>2, <2>4, TwoOn
  <2> HIDE DEF u, j
  <2>6. QED
    BY <1>1, <2>1, <2>3, <2>5, StepOn
<1>3. CASE ~IteratorsLive
  <2>1. corrupt' = TRUE /\ UNCHANGED <<timers, itor, elapsed>>
    BY <1>3 DEF CallbackReturns
  <2>2. {calling, corrupt}' \subseteq BOOLEAN
    BY <1>1, <2>1, Zenon
  <2>3. TypeOK' /\ Bookkeeping' /\ TimersOfLoadedScripts' /\ Iterators'
    BY <1>1, <2>1, <2>2 DEF Inv, TypeOK, Bookkeeping, TimersOfLoadedScripts, Iterators, Live
  <2>4. QED
    BY <2>1, <2>3 DEF Inv
<1>4. QED
  BY <1>2, <1>3

-----------------------------------------------------------------------------
LEMMA InvNext == Inv /\ [Next]_vars => Inv'
<1> SUFFICES ASSUME Inv, [Next]_vars PROVE Inv'
  OBVIOUS
<1>1. CASE Process
  BY <1>1, StartPassKeeps, NotDueKeeps, ReapKeeps, FireKeeps, CallbackReturnsKeeps DEF Process
<1>2. CASE \E s \in Scripts, t \in Intervals, r \in BOOLEAN : New(s, t, r)
  BY <1>2, NewKeeps
<1>3. CASE \E i \in Ids : Kill(i)
  BY <1>3, KillKeeps
<1>4. CASE \E s \in Scripts : BeginUnload(s) \/ Load(s)
  BY <1>4, BeginUnloadKeeps, LoadKeeps
<1>5. CASE EndUnload
  BY <1>5, EndUnloadKeeps
<1>6. CASE UNCHANGED vars
  BY <1>6 DEF vars, Inv, TypeOK, Bookkeeping, TimersOfLoadedScripts, Iterators, Promise, Ahead, Live
<1>7. QED
  BY <1>1, <1>2, <1>3, <1>4, <1>5, <1>6 DEF Next

THEOREM Invariance == Spec => []Inv
BY InvInit, InvNext, PTL DEF Spec

\* A timer keeps an interval it was set with, and iterators stay in the map.
THEOREM TypeCorrect == Spec => []TypeOK
<1>1. Inv => TypeOK
  BY DEF Inv
<1>2. QED
  BY <1>1, Invariance, PTL

(* No timer outlives its script: Process never looks for a function in an  *)
(* AMX that is gone, whatever is set in exit callbacks and during a pass.  *)
THEOREM NoTimerOutlivesItsScript == Spec => []TimersOfLoadedScripts
<1>1. Inv => TimersOfLoadedScripts
  BY DEF Inv
<1>2. QED
  BY <1>1, Invariance, PTL

(* No callback comes before the timer's interval has gone by since the     *)
(* last, or since the timer was set, however long the passes are.          *)
THEOREM NoTimerEarly == Spec => NeverEarly
<1> DEFINE Early == ~(~calling /\ calling' => timers[itor].since >= timers[itor].interval)
<1>1. Inv /\ [Next]_vars => [~Early]_vars
  <2> SUFFICES ASSUME Inv, Next, ~calling, calling'
               PROVE  timers[itor].since >= timers[itor].interval
    BY Zenon
  <2>1. Fire
    BY DEF Next, Process, StartPass, NotDue, Reap, CallbackReturns, New, Kill, BeginUnload, Load, EndUnload
  <2>2. QED
    BY <2>1, FireKeeps
<1>2. QED
  BY <1>1, Invariance, PTL DEF Spec, NeverEarly
=============================================================================
