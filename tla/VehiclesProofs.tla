---------------------------- MODULE VehiclesProofs ----------------------------
(***************************************************************************)
(* Proofs about Vehicles, for any number of players and vehicles, any      *)
(* respawn delays and, where a theorem does not say otherwise, whatever    *)
(* scripts do in callbacks.                                                *)
(*                                                                         *)
(* Most of the argument is about one vehicle.  Steady is what every        *)
(* vehicle keeps: while it counts as driven, the time it was last seen is  *)
(* set and no older than the last packet.  It leans on the five seconds in *)
(* which packets are ignored: a vehicle just put back does not count as    *)
(* driven, so an ignored packet cannot make quiet smaller than lastSeen.   *)
(***************************************************************************)
EXTENDS Vehicles, ProofLemmas

Steady(c) ==
    /\ c \in Vehicles
    /\ c.hasBeenOccupied => /\ c.lastSeen # Unset
                            /\ c.lastSeen <= c.quiet
                            /\ c.lastRespawned >= 1

(* The clock a dead vehicle waits for started after it was last put back. *)
Timed(c) == c.notified => c.lastSeen # Unset /\ c.lastSeen <= c.lastRespawned

(* OnVehicleDeath of v is under way: its time of death is not noted yet. *)
Elements(s) == {s[i] : i \in DOMAIN s}
Dying(v) == \E f \in Elements(calls) : f.this = v /\ f.callback[1] = "OnVehicleDeath"

VehicleInv ==
    /\ DOMAIN vehicle = VehicleIds
    /\ \A v \in Live : Steady(vehicle[v]) /\ (Dying(v) \/ Timed(vehicle[v]))

(* A callback is under way for a vehicle that exists or is known to be gone. *)
Gone == {None, Lost}

FramesLive == calls \in Seq(Frames) /\ \A f \in Elements(calls) : f.this \in Live \cup Gone

Inv == VehicleInv /\ FramesLive

Aged(c) == [c EXCEPT !.lastRespawned = Older(@),
                     !.lastSeen = IF @ = Unset THEN Unset ELSE Older(@),
                     !.quiet = Older(@)]

Created(d) == [driver |-> NoPlayer, dead |-> FALSE, notified |-> FALSE,
               hasBeenOccupied |-> FALSE, respawnDelay |-> d,
               lastRespawned |-> 0, lastSeen |-> Unset,
               quiet |-> Longest, mourned |-> FALSE]

-----------------------------------------------------------------------------
(* What one step does to one vehicle. *)

\* Growing older keeps ages in range and in order.
LEMMA OlderInOrder ==
    \A a, b \in Ages : Older(a) \in Ages /\ (a <= b => Older(a) <= Older(b)) /\ (a >= 1 => Older(a) >= 1)
BY BoundsAssumption DEF Ages, Older

LEMMA AgedSteady == ASSUME NEW c, Steady(c) PROVE Steady(Aged(c)) /\ (Timed(c) => Timed(Aged(c)))
<1>1. c \in Vehicles
  BY DEF Steady
<1>2. /\ c.lastRespawned \in Ages
      /\ c.quiet \in Ages
      /\ c.lastSeen \in Ages \cup {Unset}
  BY <1>1 DEF Vehicles
<1>3. Aged(c) \in Vehicles
  BY <1>1, <1>2, OlderInOrder DEF Aged, Vehicles
<1>4. ASSUME Aged(c).hasBeenOccupied
      PROVE /\ Aged(c).lastSeen # Unset
            /\ Aged(c).lastSeen <= Aged(c).quiet
            /\ Aged(c).lastRespawned >= 1
  <2>1. c.hasBeenOccupied
    BY <1>1, <1>4 DEF Aged, Vehicles
  <2>2. c.lastSeen \in Ages /\ c.lastSeen # Unset /\ c.lastSeen <= c.quiet /\ c.lastRespawned >= 1
    BY <1>2, <2>1 DEF Steady
  <2>3. /\ Aged(c).lastSeen = Older(c.lastSeen)
        /\ Aged(c).quiet = Older(c.quiet)
        /\ Aged(c).lastRespawned = Older(c.lastRespawned)
    BY <1>1, <2>2 DEF Aged, Vehicles
  <2>4. Older(c.lastSeen) \in Nat
    BY <2>2, OlderInOrder, BoundsAssumption DEF Ages
  <2>5. QED
    BY <1>2, <2>2, <2>3, <2>4, OlderInOrder, NullAssumption
<1>5. Timed(c) => Timed(Aged(c))
  <2>1. Aged(c).notified = c.notified /\ Aged(c).lastRespawned = Older(c.lastRespawned)
    BY <1>1 DEF Aged, Vehicles
  <2>2. c.lastSeen # Unset => Aged(c).lastSeen = Older(c.lastSeen) /\ Older(c.lastSeen) \in Nat
    BY <1>1, <1>2, OlderInOrder, BoundsAssumption DEF Aged, Vehicles, Ages
  <2>3. QED
    BY <1>2, <2>1, <2>2, OlderInOrder, NullAssumption DEF Timed
<1>6. QED
  BY <1>3, <1>4, <1>5 DEF Steady

LEMMA CreatedSteady == ASSUME NEW d \in Delays PROVE Steady(Created(d)) /\ Timed(Created(d))
BY BoundsAssumption DEF Steady, Timed, Created, Vehicles, Ages

LEMMA UpdatedSteady ==
    ASSUME NEW v, NEW p \in Players, NEW h \in Int, Steady(vehicle[v])
    PROVE  Steady(Updated(v, p, h)) /\ (Timed(vehicle[v]) => Timed(Updated(v, p, h)))
<1> DEFINE c == vehicle[v]
<1>1. c \in Vehicles /\ c.lastRespawned \in Ages
  BY DEF Steady, Vehicles
<1>2. 0 \in Ages /\ 0 # Unset
  BY BoundsAssumption, NullAssumption DEF Ages
<1>3. CASE c.lastRespawned < 1
  <2>1. Updated(v, p, h) = [c EXCEPT !.quiet = 0]
    BY <1>3 DEF Updated
  <2>2. ~c.hasBeenOccupied
    BY <1>1, <1>3 DEF Steady, Ages
  <2>3. QED
    BY <1>1, <1>2, <2>1, <2>2 DEF Steady, Timed, Vehicles
<1>4. CASE ~(c.lastRespawned < 1)
  <2> DEFINE u == Updated(v, p, h)
  <2>1. u = [c EXCEPT !.driver = p, !.hasBeenOccupied = TRUE, !.lastSeen = 0,
                      !.dead = @ \/ h <= 0, !.quiet = 0]
    BY <1>4 DEF Updated
  <2>2. c.lastRespawned >= 1
    BY <1>1, <1>4 DEF Ages
  <2>3. u \in Vehicles
    BY <1>1, <1>2, <2>1 DEF Vehicles
  <2>4. u.lastSeen = 0 /\ u.quiet = 0 /\ u.lastRespawned = c.lastRespawned
    BY <1>1, <2>1 DEF Vehicles
  <2>5. u.lastSeen # Unset /\ u.lastSeen <= u.quiet /\ u.lastRespawned >= 1
    BY <1>2, <2>2, <2>4
  <2>6. Timed(u)
    BY <1>1, <2>4, <2>5 DEF Timed, Ages
  <2>7. QED
    BY <2>3, <2>5, <2>6 DEF Steady
<1>5. QED
  BY <1>3, <1>4

LEMMA FreshSteady == ASSUME NEW c, Steady(c) PROVE Steady(Fresh(c)) /\ Timed(Fresh(c))
<1>1. c \in Vehicles /\ 0 \in Ages
  BY BoundsAssumption DEF Steady, Ages
<1>2. Fresh(c) \in Vehicles
  BY <1>1 DEF Fresh, Vehicles
<1>3. ~Fresh(c).hasBeenOccupied /\ ~Fresh(c).notified
  BY <1>1 DEF Fresh, Vehicles
<1>4. QED
  BY <1>2, <1>3 DEF Steady, Timed

LEMMA AfterSteady ==
    ASSUME NEW c, NEW f \in Callbacks, Steady(c)
    PROVE  /\ Steady(After(f, c))
           /\ Timed(c) => Timed(After(f, c))
           /\ f = <<"OnVehicleDeath", "GameMode">> => Timed(After(f, c))
<1>1. c \in Vehicles /\ c.quiet \in Ages /\ c.lastRespawned \in Ages
  BY DEF Steady, Vehicles
<1>2. \A m \in BOOLEAN : LET d == [c EXCEPT !.mourned = m] IN Steady(d) /\ (Timed(c) => Timed(d))
  BY <1>1 DEF Steady, Timed, Vehicles
<1>3. LET d == [c EXCEPT !.lastSeen = 0] IN Steady(d) /\ Timed(d)
  BY <1>1, BoundsAssumption, NullAssumption DEF Steady, Timed, Vehicles, Ages
<1>4. f \in {<<"OnVehicleDeath", "FilterScripts">>, <<"OnVehicleDeath", "GameMode">>,
             <<"OnVehicleSpawn", "FilterScripts">>, <<"OnVehicleSpawn", "GameMode">>}
  BY DEF Callbacks
<1>5. CASE f = <<"OnVehicleDeath", "FilterScripts">>
  <2>1. After(f, c) = [c EXCEPT !.mourned = TRUE]
    BY <1>5 DEF After
  <2>2. QED
    BY <1>2, <1>5, <2>1
<1>6. CASE f = <<"OnVehicleDeath", "GameMode">>
  <2>1. After(f, c) = [c EXCEPT !.lastSeen = 0]
    BY <1>6 DEF After
  <2>2. QED
    BY <1>3, <2>1
<1>7. CASE f = <<"OnVehicleSpawn", "FilterScripts">>
  <2>1. After(f, c) = [c EXCEPT !.mourned = FALSE]
    BY <1>7 DEF After
  <2>2. QED
    BY <1>2, <1>7, <2>1
<1>8. CASE f = <<"OnVehicleSpawn", "GameMode">>
  <2>1. After(f, c) = c
    BY <1>8 DEF After
  <2>2. QED
    BY <1>8, <2>1
<1>9. QED
  BY <1>4, <1>5, <1>6, <1>7, <1>8

LEMMA MarkedSteady ==
    ASSUME NEW c, Steady(c)
    PROVE  /\ Steady([c EXCEPT !.dead = TRUE]) /\ (Timed(c) => Timed([c EXCEPT !.dead = TRUE]))
           /\ Steady([c EXCEPT !.notified = TRUE])
           /\ \A p \in Players : /\ Steady([c EXCEPT !.driver = p])
                                 /\ Timed(c) => Timed([c EXCEPT !.driver = p])
BY DEF Steady, Timed, Vehicles

LEMMA GoneIsNotLive == Gone \cap VehicleIds = {} /\ Live \subseteq VehicleIds /\ None # Lost
BY BoundsAssumption DEF Gone, None, Lost, VehicleIds, Live

-----------------------------------------------------------------------------
(* The stack of callbacks. *)

LEMMA Push ==
    ASSUME NEW s \in Seq(Frames), NEW f \in Frames
    PROVE  /\ <<f>> \o s \in Seq(Frames)
           /\ <<f>> \o s # <<>>
           /\ Elements(<<f>> \o s) = {f} \cup Elements(s)
<1> DEFINE t == <<f>> \o s
<1>1. /\ t \in Seq(Frames) /\ t # <<>> /\ t[1] = f /\ 1 \in DOMAIN t
      /\ \A i \in DOMAIN s : i + 1 \in DOMAIN t /\ t[i + 1] = s[i]
      /\ \A i \in DOMAIN t : i # 1 => i - 1 \in DOMAIN s /\ t[i] = s[i - 1]
  BY Pushed
<1> HIDE DEF t
<1>2. Elements(t) \subseteq {f} \cup Elements(s)
  <2>1. \A i \in DOMAIN t : t[i] \in {f} \cup Elements(s)
    BY <1>1 DEF Elements
  <2>2. QED
    BY <2>1 DEF Elements
<1>3. {f} \cup Elements(s) \subseteq Elements(t)
  BY <1>1 DEF Elements
<1>4. QED
  BY <1>1, <1>2, <1>3 DEF t

LEMMA Pop ==
    ASSUME NEW s \in Seq(Frames), s # <<>>
    PROVE  /\ Head(s) \in Frames
           /\ Tail(s) \in Seq(Frames)
           /\ Elements(s) = {Head(s)} \cup Elements(Tail(s))
<1> DEFINE t == Tail(s)
<1>1. /\ t \in Seq(Frames) /\ Head(s) \in Frames /\ Head(s) = s[1] /\ 1 \in DOMAIN s
      /\ \A i \in DOMAIN t : i + 1 \in DOMAIN s /\ t[i] = s[i + 1]
      /\ \A i \in DOMAIN s : i # 1 => i - 1 \in DOMAIN t /\ s[i] = t[i - 1]
  BY Popped
<1> HIDE DEF t
<1>2. Elements(s) \subseteq {Head(s)} \cup Elements(t)
  BY <1>1 DEF Elements
<1>3. {Head(s)} \cup Elements(t) \subseteq Elements(s)
  BY <1>1 DEF Elements
<1>4. QED
  BY <1>1, <1>2, <1>3 DEF t

-----------------------------------------------------------------------------
(* Every step keeps the invariant. *)

LEMMA InvInit == Init => Inv
<1> SUFFICES ASSUME Init PROVE Inv
  OBVIOUS
<1>1. calls \in Seq(Frames) /\ Elements(calls) = {}
  BY DEF Init, Elements
<1>2. Live = {} /\ DOMAIN vehicle = VehicleIds
  BY DEF Init, Live
<1>3. QED
  BY <1>1, <1>2 DEF Inv, VehicleInv, FramesLive

LEMMA SteadyIsVehicle == \A c : Steady(c) => c # NoVehicle
BY NullAssumption DEF Steady

\* A step that leaves the vehicles and the callbacks alone.
LEMMA NothingKeeps == Inv /\ UNCHANGED <<vehicle, calls>> => Inv'
BY DEF Inv, VehicleInv, FramesLive, Dying, Live

\* A step that changes one vehicle, and no callback.
LEMMA OneVehicle ==
    ASSUME Inv, UNCHANGED calls, NEW v \in VehicleIds, NEW c,
           vehicle' = [vehicle EXCEPT ![v] = c],
           Steady(c), v \in Live /\ Timed(vehicle[v]) => Timed(c), v \notin Live => Timed(c)
    PROVE  Inv'
<1>1. Live' = Live \cup {v} /\ DOMAIN vehicle' = VehicleIds
  BY SteadyIsVehicle DEF Inv, VehicleInv, Live
<1>2. FramesLive'
  BY <1>1 DEF Inv, FramesLive
<1>3. \A u \in Live' : Steady(vehicle'[u]) /\ (Dying(u)' \/ Timed(vehicle'[u]))
  BY <1>1 DEF Inv, VehicleInv, Dying
<1>4. QED
  BY <1>1, <1>2, <1>3 DEF Inv, VehicleInv

\* A step that changes one vehicle and makes a callback for it.
LEMMA OneCall ==
    ASSUME Inv, NEW v \in Live, NEW c, NEW f \in Callbacks,
           vehicle' = [vehicle EXCEPT ![v] = c],
           calls' = <<Call(f, v)>> \o calls,
           Steady(c), Timed(c) \/ f[1] = "OnVehicleDeath"
    PROVE  Inv'
<1>1. Live' = Live /\ DOMAIN vehicle' = VehicleIds
  BY SteadyIsVehicle DEF Inv, VehicleInv, Live
<1>2. Call(f, v) \in Frames
  BY DEF Call, Frames, Live
<1>3. calls' \in Seq(Frames) /\ Elements(calls') = {Call(f, v)} \cup Elements(calls)
  BY <1>2, Push DEF Inv, FramesLive
<1>4. FramesLive'
  BY <1>1, <1>3 DEF Inv, FramesLive, Call
<1>5. \A u : Dying(u) => Dying(u)'
  BY <1>3 DEF Dying
<1>6. f[1] = "OnVehicleDeath" => Dying(v)'
  BY <1>3 DEF Dying, Call
<1>7. \A u \in Live' : Steady(vehicle'[u]) /\ (Dying(u)' \/ Timed(vehicle'[u]))
  BY <1>1, <1>5, <1>6 DEF Inv, VehicleInv
<1>8. QED
  BY <1>1, <1>4, <1>7 DEF Inv, VehicleInv

LEMMA TickKeeps == Inv /\ Tick => Inv'
<1> SUFFICES ASSUME Inv, Tick PROVE Inv'
  OBVIOUS
<1>1. /\ DOMAIN vehicle' = VehicleIds
      /\ \A v \in Live : vehicle'[v] = Aged(vehicle[v])
      /\ \A v \in VehicleIds \ Live : vehicle'[v] = NoVehicle
  BY DEF Tick, Aged, Live
<1>2. \A v \in Live : Steady(vehicle'[v]) /\ (Timed(vehicle[v]) => Timed(vehicle'[v]))
  BY <1>1, AgedSteady DEF Inv, VehicleInv
<1>3. Live' = Live
  BY <1>1, <1>2, SteadyIsVehicle DEF Live
<1>4. UNCHANGED calls
  BY DEF Tick
<1>5. QED
  BY <1>1, <1>2, <1>3, <1>4 DEF Inv, VehicleInv, FramesLive, Dying

LEMMA DestroyKeeps == ASSUME Inv, NEW v \in VehicleIds, DestroyVehicle(v) PROVE Inv'
<1> DEFINE Orphaned(i) == IF calls[i].this = v
                          THEN [calls[i] EXCEPT !.this = IF i = 1 THEN None ELSE Lost]
                          ELSE calls[i]
<1>1. Live' = Live \ {v} /\ DOMAIN vehicle' = VehicleIds /\ v \in Live
  BY DEF DestroyVehicle, Inv, VehicleInv, Live
<1>2. calls \in Seq(Frames) /\ calls' = [i \in DOMAIN calls |-> Orphaned(i)]
  BY DEF DestroyVehicle, Inv, FramesLive
<1>3. \A i \in DOMAIN calls :
        /\ Orphaned(i) \in Frames /\ Orphaned(i).callback = calls[i].callback
        /\ Orphaned(i).this = calls[i].this \/ (calls[i].this = v /\ Orphaned(i).this \in Gone)
        /\ calls[i].this # v => Orphaned(i).this = calls[i].this
        /\ calls[i].this = v => Orphaned(i).this \in Gone
  <2>1. \A i \in DOMAIN calls : calls[i] \in Frames
    BY <1>2
  <2>2. QED
    BY <2>1 DEF Frames, Gone
<1> HIDE DEF Orphaned
<1>4. calls' \in Seq(Frames) /\ DOMAIN calls' = DOMAIN calls
  BY <1>2, <1>3
<1>5. \A i \in DOMAIN calls : calls'[i].this \in Live' \cup Gone
  <2>1. \A i \in DOMAIN calls : calls[i].this \in Live \cup Gone
    BY DEF Inv, FramesLive, Elements
  <2>2. QED
    BY <1>1, <1>2, <1>3, <2>1
<1>6. FramesLive'
  <2>1. \A f \in Elements(calls') : f.this \in Live' \cup Gone
    BY <1>4, <1>5 DEF Elements
  <2>2. QED
    BY <1>4, <2>1 DEF FramesLive
<1>7. ASSUME NEW u \in Live', Dying(u) PROVE Dying(u)'
  <2>1. PICK i \in DOMAIN calls : calls[i].this = u /\ calls[i].callback[1] = "OnVehicleDeath"
    BY <1>7 DEF Dying, Elements
  <2>2. calls'[i].this = u /\ calls'[i].callback[1] = "OnVehicleDeath"
    BY <1>1, <1>2, <1>3, <2>1
  <2>3. QED
    BY <1>4, <2>1, <2>2 DEF Dying, Elements
<1>8. \A u \in Live' : vehicle'[u] = vehicle[u]
  BY <1>1 DEF DestroyVehicle, Inv, VehicleInv, Live
<1>9. QED
  BY <1>1, <1>6, <1>7, <1>8 DEF Inv, VehicleInv

\* A spawn frame or nothing is taken off, or one callback follows another.
LEMMA ReturnKeeps == Inv /\ CallbackReturns => Inv'
<1> SUFFICES ASSUME Inv, CallbackReturns PROVE Inv'
  OBVIOUS
<1> DEFINE f == Head(calls).callback
           v == Head(calls).this
           g == Call(<<f[1], "GameMode">>, v)
           rest == Tail(calls)
           told == f[2] = "FilterScripts"
<1>1. /\ calls \in Seq(Frames)
      /\ calls # <<>>
      /\ Head(calls) \in Frames
      /\ rest \in Seq(Frames)
      /\ Elements(calls) = {Head(calls)} \cup Elements(rest)
  BY Pop DEF CallbackReturns, Inv, FramesLive
<1>2. f \in Callbacks /\ v \in Live \cup Gone /\ g \in Frames
  BY <1>1 DEF Frames, Callbacks, Call, Inv, FramesLive, Live, Gone
<1>3. CASE UNCHANGED <<vehicle, calls>>
  BY <1>3, NothingKeeps
<1>4. CASE /\ vehicle' = IF v \in Live THEN [vehicle EXCEPT ![v] = After(f, vehicle[v])] ELSE vehicle
           /\ calls' = IF told THEN <<g>> \o rest ELSE rest
  <2>1. calls' \in Seq(Frames) /\ Elements(calls') = IF told THEN {g} \cup Elements(rest) ELSE Elements(rest)
    BY <1>1, <1>2, <1>4, Push
  <2>2. \A u \in Live : vehicle'[u] = IF u = v THEN After(f, vehicle[u]) ELSE vehicle[u]
    BY <1>2, <1>4 DEF Live, None, VehicleIds, Inv, VehicleInv
  <2>3. \A u \in VehicleIds \ Live : vehicle'[u] = NoVehicle
    BY <1>2, <1>4 DEF Live, None, VehicleIds, Inv, VehicleInv
  <2>4. DOMAIN vehicle' = VehicleIds
    BY <1>4 DEF Inv, VehicleInv
  <2>5. ASSUME NEW u \in Live
        PROVE  /\ Steady(vehicle'[u]) /\ vehicle'[u] # NoVehicle
               /\ Timed(vehicle[u]) => Timed(vehicle'[u])
               /\ u = v /\ f = <<"OnVehicleDeath", "GameMode">> => Timed(vehicle'[u])
    <3>1. Steady(vehicle[u])
      BY DEF Inv, VehicleInv
    <3>2. CASE u = v
      BY <1>2, <2>2, <3>1, <3>2, AfterSteady, SteadyIsVehicle
    <3>3. CASE u # v
      BY <2>2, <3>1, <3>3, SteadyIsVehicle
    <3>4. QED
      BY <3>2, <3>3
  <2>6. Live' = Live
    BY <2>3, <2>5 DEF Live
  <2>7. FramesLive'
    BY <1>1, <1>2, <2>1, <2>6 DEF FramesLive, Inv, Call
  <2>8. ASSUME NEW u \in Live, Dying(u), ~Dying(u)'
        PROVE  u = v /\ f = <<"OnVehicleDeath", "GameMode">>
    <3>1. Head(calls).this = u /\ f[1] = "OnVehicleDeath"
      BY <1>1, <2>1, <2>8 DEF Dying
    <3>2. ~told
      BY <2>1, <2>8, <3>1 DEF Dying, Call
    <3>3. QED
      BY <1>2, <3>1, <3>2 DEF Callbacks
  <2>9. ASSUME NEW u \in Live
        PROVE  Steady(vehicle'[u]) /\ (Dying(u)' \/ Timed(vehicle'[u]))
    <3>1. CASE Timed(vehicle[u])
      BY <2>5, <3>1
    <3>2. CASE Dying(u) /\ ~Dying(u)'
      BY <2>5, <2>8, <3>2
    <3>3. CASE Dying(u)'
      BY <2>5, <3>3
    <3>4. QED
      BY <3>1, <3>2, <3>3 DEF Inv, VehicleInv
  <2>10. QED
    BY <2>4, <2>6, <2>7, <2>9 DEF Inv, VehicleInv
<1>5. QED
  BY <1>3, <1>4 DEF CallbackReturns

LEMMA StepKeeps == Inv /\ [Next]_vars => Inv'
<1> SUFFICES ASSUME Inv, [Next]_vars PROVE Inv'
  OBVIOUS
<1>1. ASSUME NEW v \in Live PROVE Steady(vehicle[v]) /\ v \in VehicleIds
  BY DEF Inv, VehicleInv, Live
<1>2. ASSUME UNCHANGED <<vehicle, calls>> PROVE Inv'
  BY <1>2, NothingKeeps
<1>3. ASSUME NEW v \in VehicleIds, NEW p \in Players, NEW h \in Int, Update(v, p, h), UNCHANGED calls
      PROVE  Inv'
  <2>1. CASE v \in Live
    BY <1>1, <1>3, <2>1, UpdatedSteady, OneVehicle DEF Update
  <2>2. CASE v \notin Live
    BY <1>2, <1>3, <2>2 DEF Update
  <2>3. QED
    BY <2>1, <2>2
<1>4. ASSUME NEW v \in Live, Respawn(v) PROVE Inv'
  BY <1>1, <1>4, FreshSteady, OneCall DEF Respawn, Callbacks
<1>5. CASE Tick
  BY <1>5, TickKeeps
<1>6. CASE \E p \in Players : Connect(p) \/ Disconnect(p) \/ OnFoot(p) \/ ChangeState(p)
  BY <1>2, <1>6 DEF Connect, Disconnect, OnFoot, ChangeState
<1>7. ASSUME NEW p \in Players, NEW v \in VehicleIds, NEW h \in {0, 1000}, NEW t,
             StoreInCarFullSyncData(p, v, h, t)
      PROVE  Inv'
  BY <1>3, <1>7 DEF StoreInCarFullSyncData
<1>8. ASSUME NEW p \in Players, StoreTrailerFullSyncData(p) PROVE Inv'
  <2>1. CASE player[p].trailer \in VehicleIds
    BY <1>3, <1>8, <2>1 DEF StoreTrailerFullSyncData
  <2>2. CASE player[p].trailer \notin VehicleIds
    BY <1>2, <1>8, <2>2 DEF StoreTrailerFullSyncData, Update, Live
  <2>3. QED
    BY <2>1, <2>2
<1>9. ASSUME NEW p \in Players, NEW v \in VehicleIds, StorePassengerFullSyncData(p, v) PROVE Inv'
  BY <1>2, <1>9 DEF StorePassengerFullSyncData
<1>10. CASE \E p \in Players : Packet(p)
  BY <1>6, <1>7, <1>8, <1>9, <1>10 DEF Packet
<1>11. ASSUME NEW v \in VehicleIds, VehicleDestroyed(v) PROVE Inv'
  <2>1. vehicle' = [vehicle EXCEPT ![v] = [vehicle[v] EXCEPT !.dead = TRUE]] /\ v \in Live /\ UNCHANGED calls
    BY <1>11 DEF VehicleDestroyed
  <2>2. QED
    BY <1>1, <2>1, MarkedSteady, OneVehicle
<1>12. ASSUME NEW v \in VehicleIds, NEW d \in Delays, CreateVehicle(v, d) PROVE Inv'
  BY <1>12, CreatedSteady, OneVehicle DEF CreateVehicle, Created
<1>13. ASSUME NEW v \in VehicleIds, SetVehicleToRespawn(v) PROVE Inv'
  BY <1>4, <1>13 DEF SetVehicleToRespawn
<1>14. ASSUME NEW p \in Players, NEW v \in VehicleIds, PutPlayerInVehicle(p, v) PROVE Inv'
  <2>1. vehicle' = [vehicle EXCEPT ![v] = [vehicle[v] EXCEPT !.driver = p]] /\ v \in Live /\ UNCHANGED calls
    BY <1>14 DEF PutPlayerInVehicle
  <2>2. QED
    BY <1>1, <2>1, MarkedSteady, OneVehicle
<1>15. CASE Native
  BY <1>12, <1>13, <1>14, <1>15, DestroyKeeps DEF Native
<1>16. ASSUME NEW v \in VehicleIds, ProcessVehicle(v) PROVE Inv'
  <2>1. CASE IdleRespawn(v) \/ DeadRespawn(v)
    BY <1>4, <2>1 DEF IdleRespawn, DeadRespawn, Processing
  <2>2. CASE LeaveAlone(v)
    BY <1>2, <2>2 DEF LeaveAlone
  <2>3. CASE NotifyDeath(v)
    <3> DEFINE f == <<"OnVehicleDeath", "FilterScripts">>
    <3>1. /\ vehicle' = [vehicle EXCEPT ![v] = [vehicle[v] EXCEPT !.notified = TRUE]]
          /\ v \in Live /\ calls = <<>> /\ calls' = <<Call(f, v)>>
      BY <2>3 DEF NotifyDeath, Processing
    <3>2. calls' = <<Call(f, v)>> \o calls
      BY <3>1
    <3>3. f \in Callbacks /\ f[1] = "OnVehicleDeath"
      BY DEF Callbacks
    <3>4. QED
      BY <1>1, <3>1, <3>2, <3>3, MarkedSteady, OneCall
  <2>4. QED
    BY <1>16, <2>1, <2>2, <2>3 DEF ProcessVehicle
<1>17. CASE Process
  BY <1>2, <1>16, <1>17, ReturnKeeps DEF Process, StartPass
<1>18. QED
  BY <1>2, <1>5, <1>6, <1>10, <1>11, <1>15, <1>17 DEF Next, vars

THEOREM Invariance == Spec => []Inv
<1>1. QED
  BY InvInit, StepKeeps, PTL DEF Spec

-----------------------------------------------------------------------------
(***************************************************************************)
(* The clock of m_dwLastSeenOccupiedTick, which the constructor leaves     *)
(* unset, is set before CheckForIdleRespawn or Process can read it.        *)
(***************************************************************************)
THEOREM ClockSet == Spec => []SeenBeforeRead
<1>1. Inv => SeenBeforeRead
  BY DEF Inv, VehicleInv, Steady, Timed, Dying, Elements, SeenBeforeRead
<1>2. QED
  BY <1>1, Invariance, PTL

(***************************************************************************)
(* CheckForIdleRespawn puts back no vehicle about which a packet came less *)
(* than its respawn delay ago.                                             *)
(***************************************************************************)
THEOREM DrivenStays == Spec => NotIdleWhileDriven
<1>1. ASSUME Inv, NEW v \in VehicleIds, IdleRespawn(v)
      PROVE  vehicle[v].quiet >= vehicle[v].respawnDelay
  <2>1. Steady(vehicle[v]) /\ vehicle[v].hasBeenOccupied
    BY <1>1 DEF Inv, VehicleInv, IdleRespawn, Processing, IdleTooLong
  <2>2. /\ vehicle[v].lastSeen \in Ages /\ vehicle[v].quiet \in Ages
        /\ vehicle[v].respawnDelay \in Nat
        /\ vehicle[v].lastSeen <= vehicle[v].quiet /\ vehicle[v].lastSeen # Unset
    BY <2>1, BoundsAssumption DEF Steady, Vehicles
  <2>3. vehicle[v].lastSeen >= vehicle[v].respawnDelay
    BY <1>1, <2>2 DEF IdleRespawn, IdleTooLong, Reaches
  <2>4. QED
    BY <2>2, <2>3, BoundsAssumption DEF Ages
<1>2. Inv => [\A v \in VehicleIds : IdleRespawn(v) => vehicle[v].quiet >= vehicle[v].respawnDelay]_vars
  BY <1>1
<1>3. QED
  BY <1>2, Invariance, PTL DEF NotIdleWhileDriven

(***************************************************************************)
(* Process puts no vehicle back twice within ten seconds.                  *)
(***************************************************************************)
THEOREM TenSecondsApart == Spec => RespawnsApart
<1>1. ASSUME Inv, NEW v \in VehicleIds, IdleRespawn(v) \/ DeadRespawn(v)
      PROVE  vehicle[v].lastRespawned >= 2
  <2>1. CASE IdleRespawn(v)
    BY <2>1 DEF IdleRespawn, IdleTooLong
  <2>2. CASE DeadRespawn(v)
    <3>1. v \in Live /\ ~Dying(v) /\ vehicle[v].notified /\ Reaches(vehicle[v].lastSeen, 3)
      BY <2>2 DEF DeadRespawn, Processing, Dying, Elements
    <3>2. Steady(vehicle[v]) /\ Timed(vehicle[v])
      BY <1>1, <3>1 DEF Inv, VehicleInv
    <3>3. QED
      BY <3>1, <3>2, BoundsAssumption DEF Steady, Timed, Vehicles, Reaches, Ages
  <2>3. QED
    BY <1>1, <2>1, <2>2
<1>2. Inv => [\A v \in VehicleIds :
                IdleRespawn(v) \/ DeadRespawn(v) => vehicle[v].lastRespawned >= 2]_vars
  BY <1>1
<1>3. QED
  BY <1>2, Invariance, PTL DEF RespawnsApart

-----------------------------------------------------------------------------
(* The types of the rest of the state. *)

RestTyped ==
    /\ player \in [Players -> PlayerRecords \cup {NoPlayer}]
    /\ at \in VehicleIds \cup {None}
    /\ corrupt \in BOOLEAN

\* There is a first vehicle after i, or there is none.
LEMMA NextAtTyped == \A i : NextAt(i) \in VehicleIds \cup {None}
<1> SUFFICES ASSUME NEW i PROVE NextAt(i) \in VehicleIds \cup {None}
  OBVIOUS
<1> DEFINE S == {v \in Live : v > i}
<1>1. S \in SUBSET Nat
  BY DEF Live, VehicleIds
<1>2. CASE S # {}
  <2>1. PICK v \in S : \A u \in S : v <= u
    BY <1>1, <1>2, LeastNatural
  <2>2. \E w \in Live : w > i /\ \A u \in Live : u > i => w <= u
    BY <2>1
  <2>3. (CHOOSE w \in Live : w > i /\ \A u \in Live : u > i => w <= u) \in Live
    BY <2>2
  <2>4. QED
    BY <2>1, <2>3 DEF NextAt, Live
<1>3. CASE S = {}
  BY <1>3 DEF NextAt
<1>4. QED
  BY <1>2, <1>3

LEMMA RestInit == Init => RestTyped
BY DEF Init, RestTyped

LEMMA RestStep == RestTyped /\ [Next]_vars => RestTyped'
<1> SUFFICES ASSUME RestTyped, [Next]_vars PROVE RestTyped'
  OBVIOUS
<1> USE DEF RestTyped
<1>1. ASSUME UNCHANGED <<player, at, corrupt>> PROVE RestTyped'
  BY <1>1
<1>2. ASSUME UNCHANGED <<at, corrupt>>, NEW p \in Players,
             NEW r \in PlayerRecords \cup {NoPlayer}, player' = [player EXCEPT ![p] = r]
      PROVE  RestTyped'
  BY <1>2
<1>3. ASSUME NEW p \in Players, player[p] # NoPlayer PROVE player[p] \in PlayerRecords
  BY <1>3
<1>4. ASSUME NEW p \in Players, Connect(p) \/ Disconnect(p) PROVE RestTyped'
  <2>1. [state |-> "Other", vehicle |-> None, trailer |-> None] \in PlayerRecords
    BY DEF PlayerRecords
  <2>2. QED
    BY <1>2, <1>4, <2>1 DEF Connect, Disconnect
<1>5. ASSUME NEW p \in Players, NEW v \in VehicleIds, NEW h, NEW t \in VehicleIds \cup {None},
             StoreInCarFullSyncData(p, v, h, t)
      PROVE  RestTyped'
  <2>1. [state |-> "Driver", vehicle |-> v, trailer |-> t] \in PlayerRecords
    BY DEF PlayerRecords
  <2>2. QED
    BY <1>2, <1>5, <2>1 DEF StoreInCarFullSyncData
<1>6. ASSUME NEW p \in Players, NEW v \in VehicleIds, StorePassengerFullSyncData(p, v) PROVE RestTyped'
  <2>1. [[player[p] EXCEPT !.state = "Passenger"] EXCEPT !.vehicle = v] \in PlayerRecords
    BY <1>3, <1>6 DEF StorePassengerFullSyncData, PlayerRecords
  <2>2. player' = [player EXCEPT ![p] = [[player[p] EXCEPT !.state = "Passenger"] EXCEPT !.vehicle = v]]
    BY <1>6 DEF StorePassengerFullSyncData
  <2>3. QED
    BY <1>2, <1>6, <2>1, <2>2 DEF StorePassengerFullSyncData
<1>7. ASSUME NEW p \in Players, OnFoot(p) PROVE RestTyped'
  <2>1. [[player[p] EXCEPT !.state = "Other"] EXCEPT !.vehicle = None] \in PlayerRecords
    BY <1>3, <1>7 DEF OnFoot, PlayerRecords
  <2>2. player' = [player EXCEPT ![p] = [[player[p] EXCEPT !.state = "Other"] EXCEPT !.vehicle = None]]
    BY <1>7 DEF OnFoot
  <2>3. QED
    BY <1>2, <1>7, <2>1, <2>2 DEF OnFoot
<1>8. ASSUME NEW p \in Players, ChangeState(p) PROVE RestTyped'
  <2>1. [player[p] EXCEPT !.state = "Other"] \in PlayerRecords
    BY <1>3, <1>8 DEF ChangeState, PlayerRecords
  <2>2. QED
    BY <1>2, <1>8, <2>1 DEF ChangeState
<1>9. CASE \E p \in Players : Packet(p)
  <2>1. Makeable \subseteq VehicleIds
    BY BoundsAssumption DEF Makeable, VehicleIds
  <2>2. QED
    BY <1>1, <1>5, <1>6, <1>7, <1>8, <1>9, <2>1 DEF Packet, StoreTrailerFullSyncData
<1>10. CASE Tick \/ \E v \in VehicleIds : VehicleDestroyed(v)
  BY <1>1, <1>10 DEF Tick, VehicleDestroyed
<1>11. CASE Native
  BY <1>1, <1>11 DEF Native, CreateVehicle, DestroyVehicle, PutPlayerInVehicle, SetVehicleToRespawn
<1>12. CASE Process
  <2>1. CASE \E v \in VehicleIds : ProcessVehicle(v)
    BY <1>1, <2>1, NextAtTyped DEF ProcessVehicle, IdleRespawn, LeaveAlone, NotifyDeath, DeadRespawn
  <2>2. CASE StartPass
    BY <2>2, NextAtTyped DEF StartPass
  <2>3. CASE CallbackReturns
    BY <2>3, NextAtTyped DEF CallbackReturns
  <2>4. QED
    BY <1>12, <2>1, <2>2, <2>3 DEF Process
<1>13. QED
  BY <1>1, <1>4, <1>9, <1>10, <1>11, <1>12 DEF Next, vars

(***************************************************************************)
(* Every reachable state has its types; the pass of CVehiclePool::Process  *)
(* never looks at a slot past the last.                                    *)
(***************************************************************************)
THEOREM TypeCorrect == Spec => []TypeOK
<1>1. Inv /\ RestTyped => TypeOK
  BY DEF Inv, VehicleInv, FramesLive, Steady, RestTyped, TypeOK
<1>2. Spec => []RestTyped
  BY RestInit, RestStep, PTL DEF Spec
<1>3. QED
  BY <1>1, <1>2, Invariance, PTL

-----------------------------------------------------------------------------
(***************************************************************************)
(* Deaths and spawns in turn.  A vehicle whose death the game mode was     *)
(* told of is noted as announced until it is put back, and then the        *)
(* callback that tells of the spawn is under way.  While filter scripts    *)
(* hear of a death nothing else is: that is where the hypothesis on        *)
(* scripts is needed, for a spawn told inside it would be told before the  *)
(* death.                                                                  *)
(***************************************************************************)
DeathFirst == <<"OnVehicleDeath", "FilterScripts">>
SpawnFirst == <<"OnVehicleSpawn", "FilterScripts">>
SpawnLast == <<"OnVehicleSpawn", "GameMode">>

Spawning(v) == \E f \in Elements(calls) : f.this = v /\ f.callback = SpawnFirst

Mourned == \A v \in Live : vehicle[v].mourned => vehicle[v].notified \/ Spawning(v)

DeathAlone ==
    \A i \in DOMAIN calls :
        calls[i].callback = DeathFirst =>
            /\ i = 1
            /\ calls[i].this \notin Gone => vehicle[calls[i].this].notified

TurnInv == Mourned /\ DeathAlone

LEMMA CallbackNames ==
    /\ {DeathFirst, SpawnFirst, SpawnLast} \subseteq Callbacks
    /\ DeathFirst # SpawnFirst /\ DeathFirst # SpawnLast /\ SpawnFirst # SpawnLast
BY DEF Callbacks, DeathFirst, SpawnFirst, SpawnLast

LEMMA TurnNothing == TurnInv /\ UNCHANGED <<vehicle, calls>> => TurnInv'
BY DEF TurnInv, Mourned, DeathAlone, Spawning, Live

\* A step that changes nothing of what is remembered of deaths.
LEMMA TurnSame ==
    ASSUME Inv, TurnInv, UNCHANGED calls, Live \subseteq Live',
           \A u \in Live : /\ vehicle'[u].mourned = vehicle[u].mourned
                           /\ vehicle'[u].notified = vehicle[u].notified,
           \A u \in Live' \ Live : ~vehicle'[u].mourned
    PROVE  TurnInv'
<1>1. Mourned'
  BY DEF TurnInv, Mourned, Spawning
<1>2. \A i \in DOMAIN calls : calls[i].this \notin Gone => calls[i].this \in Live
  BY DEF Inv, FramesLive, Elements
<1>3. DeathAlone'
  BY <1>2 DEF TurnInv, DeathAlone
<1>4. QED
  BY <1>1, <1>3 DEF TurnInv

LEMMA TurnOne ==
    ASSUME Inv, TurnInv, UNCHANGED calls, NEW v \in VehicleIds, NEW c \in Vehicles,
           vehicle' = [vehicle EXCEPT ![v] = c],
           v \in Live => c.mourned = vehicle[v].mourned /\ c.notified = vehicle[v].notified,
           v \notin Live => ~c.mourned
    PROVE  TurnInv'
<1>1. c # NoVehicle /\ DOMAIN vehicle = VehicleIds
  BY NullAssumption DEF Inv, VehicleInv
<1>2. Live' = Live \cup {v}
  BY <1>1 DEF Live
<1>3. \A u \in Live : /\ vehicle'[u].mourned = vehicle[u].mourned
                      /\ vehicle'[u].notified = vehicle[u].notified
  BY <1>1 DEF Live
<1>4. \A u \in Live' \ Live : ~vehicle'[u].mourned
  BY <1>1, <1>2
<1>5. QED
  BY <1>2, <1>3, <1>4, TurnSame

LEMMA TurnRespawn ==
    ASSUME Inv, TurnInv, NEW v \in Live, Respawn(v),
           calls # <<>> => Head(calls).callback # DeathFirst
    PROVE  TurnInv'
<1> DEFINE g == Call(SpawnFirst, v)
<1>1. /\ vehicle' = [vehicle EXCEPT ![v] = Fresh(vehicle[v])]
      /\ calls' = <<g>> \o calls
      /\ DOMAIN vehicle = VehicleIds /\ calls \in Seq(Frames)
  BY DEF Respawn, SpawnFirst, Inv, VehicleInv, FramesLive
<1>2. g \in Frames /\ g.this = v /\ g.callback = SpawnFirst
  BY CallbackNames DEF Call, Frames, Live
<1>3. Elements(calls') = {g} \cup Elements(calls)
  BY <1>1, <1>2, Push
<1>4. Live' = Live
  BY <1>1, FreshSteady, SteadyIsVehicle DEF Live, Inv, VehicleInv
<1>5. Mourned'
  <2>1. Spawning(v)' /\ \A u : Spawning(u) => Spawning(u)'
    BY <1>2, <1>3 DEF Spawning
  <2>2. \A u \in Live : u # v => vehicle'[u] = vehicle[u]
    BY <1>1 DEF Live
  <2>3. QED
    BY <1>4, <2>1, <2>2 DEF TurnInv, Mourned
<1>6. \A i \in DOMAIN calls : calls[i].callback # DeathFirst
  BY <1>1, Popped DEF TurnInv, DeathAlone
<1>7. \A i \in DOMAIN calls' : calls'[i].callback # DeathFirst
  <2>1. \A i \in DOMAIN calls' : i = 1 \/ (i - 1 \in DOMAIN calls /\ calls'[i] = calls[i - 1])
    BY <1>1, <1>2, Pushed
  <2>2. calls'[1] = g
    BY <1>1, <1>2, Pushed
  <2> HIDE DEF g
  <2>3. QED
    BY <1>2, <1>6, <2>1, <2>2, CallbackNames
<1>8. QED
  BY <1>5, <1>7 DEF TurnInv, DeathAlone

LEMMA TurnTick == Inv /\ TurnInv /\ Tick => TurnInv'
<1> SUFFICES ASSUME Inv, TurnInv, Tick PROVE TurnInv'
  OBVIOUS
<1>1. UNCHANGED calls /\ \A v \in Live : vehicle'[v] = Aged(vehicle[v])
  BY DEF Tick, Aged, Live
<1>2. \A v \in VehicleIds \ Live : vehicle'[v] = NoVehicle
  BY DEF Tick
<1>3. \A v \in Live : Steady(Aged(vehicle[v])) /\ vehicle[v] \in Vehicles
  BY AgedSteady DEF Inv, VehicleInv, Steady
<1>4. Live' = Live
  BY <1>1, <1>2, <1>3, SteadyIsVehicle DEF Live
<1>5. \A v \in Live : Aged(vehicle[v]).mourned = vehicle[v].mourned
                        /\ Aged(vehicle[v]).notified = vehicle[v].notified
  BY <1>3 DEF Aged, Vehicles
<1>6. QED
  BY <1>1, <1>4, <1>5, TurnSame

LEMMA TurnDestroy ==
    ASSUME Inv, TurnInv, NEW v \in VehicleIds, DestroyVehicle(v) PROVE TurnInv'
<1>1. Live' = Live \ {v} /\ DOMAIN vehicle = VehicleIds /\ calls \in Seq(Frames)
  BY DEF DestroyVehicle, Inv, VehicleInv, FramesLive, Live
<1>2. \A u \in Live' : vehicle'[u] = vehicle[u]
  BY <1>1 DEF DestroyVehicle, Live
<1>3. /\ DOMAIN calls' = DOMAIN calls
      /\ \A i \in DOMAIN calls :
            /\ calls'[i].callback = calls[i].callback
            /\ calls[i].this # v => calls'[i].this = calls[i].this
            /\ calls[i].this = v => calls'[i].this \in Gone
  <2>1. \A i \in DOMAIN calls : calls[i] \in Frames
    BY <1>1
  <2>2. QED
    BY <2>1 DEF DestroyVehicle, Frames, Gone
<1>4. ASSUME NEW u \in Live', Spawning(u) PROVE Spawning(u)'
  <2>1. PICK i \in DOMAIN calls : calls[i].this = u /\ calls[i].callback = SpawnFirst
    BY <1>4 DEF Spawning, Elements
  <2>2. calls'[i].this = u /\ calls'[i].callback = SpawnFirst /\ i \in DOMAIN calls'
    BY <1>1, <1>3, <2>1
  <2>3. QED
    BY <2>2 DEF Spawning, Elements
<1>5. Mourned'
  BY <1>1, <1>2, <1>4 DEF TurnInv, Mourned
<1>6. ASSUME NEW i \in DOMAIN calls', calls'[i].callback = DeathFirst
      PROVE  i = 1 /\ (calls'[i].this \notin Gone => vehicle'[calls'[i].this].notified)
  <2>1. calls[i].callback = DeathFirst /\ i \in DOMAIN calls
    BY <1>3, <1>6
  <2>2. i = 1 /\ (calls[i].this \notin Gone => vehicle[calls[i].this].notified)
    BY <2>1 DEF TurnInv, DeathAlone
  <2>3. calls[i].this \in Live \cup Gone
    BY <2>1 DEF Inv, FramesLive, Elements
  <2>4. QED
    BY <1>1, <1>2, <1>3, <2>1, <2>2, <2>3
<1>7. QED
  BY <1>5, <1>6 DEF TurnInv, DeathAlone

LEMMA AfterTold ==
    ASSUME NEW c \in Vehicles, NEW f \in Callbacks
    PROVE  /\ After(f, c).notified = c.notified
           /\ f = DeathFirst \/ f = SpawnFirst \/ After(f, c).mourned = c.mourned
           /\ f = SpawnFirst => ~After(f, c).mourned
<1>1. f \in {DeathFirst, <<"OnVehicleDeath", "GameMode">>, SpawnFirst, SpawnLast}
  BY DEF Callbacks, DeathFirst, SpawnFirst, SpawnLast
<1>2. CASE f = DeathFirst
  <2>1. After(f, c) = [c EXCEPT !.mourned = TRUE]
    BY <1>2 DEF After, DeathFirst
  <2>2. QED
    BY <1>2, <2>1, CallbackNames DEF Vehicles
<1>3. CASE f = <<"OnVehicleDeath", "GameMode">>
  <2>1. After(f, c) = [c EXCEPT !.lastSeen = 0] /\ f # SpawnFirst
    BY <1>3 DEF After, SpawnFirst
  <2>2. QED
    BY <2>1 DEF Vehicles
<1>4. CASE f = SpawnFirst
  <2>1. After(f, c) = [c EXCEPT !.mourned = FALSE]
    BY <1>4 DEF After, SpawnFirst
  <2>2. QED
    BY <1>4, <2>1 DEF Vehicles
<1>5. CASE f = SpawnLast
  <2>1. After(f, c) = c
    BY <1>5 DEF After, SpawnLast
  <2>2. QED
    BY <1>5, <2>1, CallbackNames
<1>6. QED
  BY <1>1, <1>2, <1>3, <1>4, <1>5

LEMMA TurnReturn == Inv /\ TurnInv /\ CallbackReturns => TurnInv'
<1> SUFFICES ASSUME Inv, TurnInv, CallbackReturns PROVE TurnInv'
  OBVIOUS
<1> DEFINE f == Head(calls).callback
           v == Head(calls).this
           g == Call(<<f[1], "GameMode">>, v)
           rest == Tail(calls)
           told == f[2] = "FilterScripts"
<1>1. /\ calls \in Seq(Frames) /\ calls # <<>>
      /\ Head(calls) \in Frames /\ rest \in Seq(Frames)
      /\ Elements(calls) = {Head(calls)} \cup Elements(rest)
      /\ DOMAIN vehicle = VehicleIds
  BY Pop DEF CallbackReturns, Inv, VehicleInv, FramesLive
<1>2. f \in Callbacks /\ v \in Live \cup Gone /\ g \in Frames
  BY <1>1 DEF Frames, Callbacks, Call, Inv, FramesLive, Live, Gone
<1>3. CASE UNCHANGED <<vehicle, calls>>
  BY <1>3, TurnNothing
<1>4. CASE /\ ~(v \notin Live /\ UsesThis(f))
           /\ vehicle' = IF v \in Live THEN [vehicle EXCEPT ![v] = After(f, vehicle[v])] ELSE vehicle
           /\ calls' = IF told THEN <<g>> \o rest ELSE rest
  <2>1. Elements(calls') = IF told THEN {g} \cup Elements(rest) ELSE Elements(rest)
    BY <1>1, <1>2, <1>4, Push
  <2>2. /\ \A u \in Live : vehicle'[u] = IF u = v THEN After(f, vehicle[u]) ELSE vehicle[u]
        /\ \A u \in VehicleIds \ Live : vehicle'[u] = NoVehicle
    BY <1>1, <1>2, <1>4 DEF Live, None, VehicleIds
  <2>3. \A u \in Live : Steady(vehicle[u]) /\ vehicle[u] \in Vehicles
    BY DEF Inv, VehicleInv, Steady
  <2>4. Live' = Live
    BY <1>2, <2>2, <2>3, AfterSteady, SteadyIsVehicle DEF Live
  <2>5. f = DeathFirst => v \in Live /\ vehicle[v].notified
    <3>1. f = DeathFirst => UsesThis(f) /\ v \in Live /\ v \notin Gone
      BY <1>4, GoneIsNotLive DEF UsesThis, DeathFirst
    <3>2. 1 \in DOMAIN calls /\ Head(calls) = calls[1]
      BY <1>1, Popped
    <3>3. QED
      BY <1>4, <3>1, <3>2 DEF TurnInv, DeathAlone
  <2>6. ASSUME NEW u \in Live, vehicle'[u].mourned
        PROVE  vehicle'[u].notified \/ Spawning(u)'
    <3>1. vehicle'[u].notified = vehicle[u].notified
      BY <1>2, <2>2, <2>3, AfterTold
    <3>2. CASE u = v /\ f = DeathFirst
      BY <2>5, <3>1, <3>2
    <3>3. CASE u = v /\ f = SpawnFirst
      BY <1>2, <2>2, <2>3, <2>6, <3>3, AfterTold
    <3>4. CASE u # v \/ (f # DeathFirst /\ f # SpawnFirst)
      <4>1. vehicle[u].mourned
        BY <1>2, <2>2, <2>3, <2>6, <3>4, AfterTold
      <4>2. CASE vehicle[u].notified
        BY <3>1, <4>2
      <4>3. CASE Spawning(u)
        <5>1. PICK h \in Elements(calls) : h.this = u /\ h.callback = SpawnFirst
          BY <4>3 DEF Spawning
        <5>2. h \in Elements(rest)
          BY <1>1, <3>4, <5>1, CallbackNames
        <5>3. QED
          BY <2>1, <5>1, <5>2 DEF Spawning
      <4>4. QED
        BY <4>1, <4>2, <4>3 DEF TurnInv, Mourned
    <3>5. QED
      BY <3>2, <3>3, <3>4
  <2>7. Mourned'
    BY <2>4, <2>6 DEF Mourned
  <2>8. \A i \in DOMAIN rest : rest[i].callback # DeathFirst
    <3>1. \A i \in DOMAIN rest : i + 1 \in DOMAIN calls /\ rest[i] = calls[i + 1] /\ i + 1 # 1
      BY <1>1, Popped
    <3>2. QED
      BY <3>1 DEF TurnInv, DeathAlone
  <2>9. g.callback # DeathFirst
    BY DEF Call, DeathFirst
  <2>10. \A h \in Elements(calls') : h.callback # DeathFirst
    <3>1. \A h \in Elements(rest) : h.callback # DeathFirst
      BY <2>8 DEF Elements
    <3>2. QED
      BY <2>1, <2>9, <3>1
  <2>11. DeathAlone'
    BY <2>10 DEF DeathAlone, Elements
  <2>12. QED
    BY <2>7, <2>11 DEF TurnInv
<1>5. QED
  BY <1>3, <1>4 DEF CallbackReturns

LEMMA TurnNotify == ASSUME Inv, TurnInv, NEW v \in VehicleIds, NotifyDeath(v) PROVE TurnInv'
<1>1. /\ vehicle' = [vehicle EXCEPT ![v] = [vehicle[v] EXCEPT !.notified = TRUE]]
      /\ v \in Live /\ calls = <<>> /\ calls' = <<Call(DeathFirst, v)>>
      /\ DOMAIN vehicle = VehicleIds
  BY DEF NotifyDeath, Processing, DeathFirst, Inv, VehicleInv
<1>2. Steady(vehicle[v]) /\ vehicle[v] \in Vehicles
  BY <1>1 DEF Inv, VehicleInv, Steady
<1>3. [vehicle[v] EXCEPT !.notified = TRUE] # NoVehicle
  BY <1>2, MarkedSteady, SteadyIsVehicle
<1>4. Live' = Live /\ vehicle'[v].notified /\ \A u \in Live : u # v => vehicle'[u] = vehicle[u]
  BY <1>1, <1>2, <1>3 DEF Live, Vehicles
<1>5. \A u : ~Spawning(u)
  BY <1>1 DEF Spawning, Elements
<1>6. Mourned'
  BY <1>4, <1>5 DEF TurnInv, Mourned
<1>7. DOMAIN calls' = 1 .. 1 /\ calls'[1].this = v
  BY <1>1 DEF Call
<1>8. DeathAlone'
  BY <1>4, <1>7 DEF DeathAlone
<1>9. QED
  BY <1>6, <1>8 DEF TurnInv

LEMMA TurnStep ==
    ASSUME DeathFirst \notin RespawnIn
    PROVE  Inv /\ TurnInv /\ [Next]_vars => TurnInv'
<1> SUFFICES ASSUME Inv, TurnInv, [Next]_vars PROVE TurnInv'
  OBVIOUS
<1>1. ASSUME NEW v \in Live PROVE Steady(vehicle[v]) /\ vehicle[v] \in Vehicles /\ v \in VehicleIds
  BY DEF Inv, VehicleInv, Steady, Live
<1>2. ASSUME UNCHANGED <<vehicle, calls>> PROVE TurnInv'
  BY <1>2, TurnNothing
<1>3. ASSUME NEW v \in VehicleIds, NEW p \in Players, NEW h \in Int, Update(v, p, h), UNCHANGED calls
      PROVE  TurnInv'
  <2>1. CASE v \in Live
    <3>1. Steady(Updated(v, p, h)) /\ Updated(v, p, h) \in Vehicles
      BY <1>1, <2>1, UpdatedSteady DEF Steady
    <3>2. /\ Updated(v, p, h).mourned = vehicle[v].mourned
          /\ Updated(v, p, h).notified = vehicle[v].notified
      BY <1>1, <2>1 DEF Updated, Vehicles
    <3>3. vehicle' = [vehicle EXCEPT ![v] = Updated(v, p, h)]
      BY <1>3, <2>1 DEF Update
    <3>4. QED
      BY <1>3, <2>1, <3>1, <3>2, <3>3, TurnOne
  <2>2. CASE v \notin Live
    BY <1>2, <1>3, <2>2 DEF Update
  <2>3. QED
    BY <2>1, <2>2
<1>4. CASE Tick
  BY <1>4, TurnTick
<1>5. CASE \E p \in Players : Connect(p) \/ Disconnect(p) \/ OnFoot(p) \/ ChangeState(p)
  BY <1>2, <1>5 DEF Connect, Disconnect, OnFoot, ChangeState
<1>6. ASSUME NEW p \in Players, NEW v \in VehicleIds, NEW h \in {0, 1000}, NEW t,
             StoreInCarFullSyncData(p, v, h, t)
      PROVE  TurnInv'
  BY <1>3, <1>6 DEF StoreInCarFullSyncData
<1>7. ASSUME NEW p \in Players, StoreTrailerFullSyncData(p) PROVE TurnInv'
  <2>1. CASE player[p].trailer \in VehicleIds
    BY <1>3, <1>7, <2>1 DEF StoreTrailerFullSyncData
  <2>2. CASE player[p].trailer \notin VehicleIds
    BY <1>2, <1>7, <2>2 DEF StoreTrailerFullSyncData, Update, Live
  <2>3. QED
    BY <2>1, <2>2
<1>8. CASE \E p \in Players : Packet(p)
  BY <1>2, <1>5, <1>6, <1>7, <1>8 DEF Packet, StorePassengerFullSyncData
<1>9. ASSUME NEW v \in VehicleIds, NEW c \in Vehicles, v \in Live, UNCHANGED calls,
             vehicle' = [vehicle EXCEPT ![v] = c],
             c.mourned = vehicle[v].mourned, c.notified = vehicle[v].notified
      PROVE  TurnInv'
  BY <1>9, TurnOne
<1>10. ASSUME NEW v \in VehicleIds, VehicleDestroyed(v) PROVE TurnInv'
  <2> DEFINE c == [vehicle[v] EXCEPT !.dead = TRUE]
  <2>1. v \in Live /\ UNCHANGED calls /\ vehicle' = [vehicle EXCEPT ![v] = c]
    BY <1>10 DEF VehicleDestroyed
  <2>2. c \in Vehicles /\ c.mourned = vehicle[v].mourned /\ c.notified = vehicle[v].notified
    BY <1>1, <2>1 DEF Vehicles
  <2>3. QED
    BY <1>9, <2>1, <2>2
<1>11. ASSUME NEW p \in Players, NEW v \in VehicleIds, PutPlayerInVehicle(p, v) PROVE TurnInv'
  <2> DEFINE c == [vehicle[v] EXCEPT !.driver = p]
  <2>1. v \in Live /\ UNCHANGED calls /\ vehicle' = [vehicle EXCEPT ![v] = c]
    BY <1>11 DEF PutPlayerInVehicle
  <2>2. c \in Vehicles /\ c.mourned = vehicle[v].mourned /\ c.notified = vehicle[v].notified
    BY <1>1, <2>1 DEF Vehicles
  <2>3. QED
    BY <1>9, <2>1, <2>2
<1>12. ASSUME NEW v \in VehicleIds, NEW d \in Delays, CreateVehicle(v, d) PROVE TurnInv'
  <2>1. /\ UNCHANGED calls /\ v \notin Live
        /\ vehicle' = [vehicle EXCEPT ![v] = Created(d)]
    BY <1>12 DEF CreateVehicle, FirstFree, Created
  <2>2. Created(d) \in Vehicles /\ ~Created(d).mourned
    BY CreatedSteady DEF Steady, Created
  <2>3. QED
    BY <2>1, <2>2, TurnOne
<1>13. ASSUME NEW v \in VehicleIds, SetVehicleToRespawn(v) PROVE TurnInv'
  <2>1. v \in Live /\ Respawn(v) /\ (calls # <<>> => Head(calls).callback # DeathFirst)
    BY <1>13 DEF SetVehicleToRespawn, ScriptMay
  <2>2. QED
    BY <2>1, TurnRespawn
<1>14. CASE Native
  BY <1>11, <1>12, <1>13, <1>14, TurnDestroy DEF Native
<1>15. ASSUME NEW v \in VehicleIds, ProcessVehicle(v) PROVE TurnInv'
  <2>1. CASE IdleRespawn(v) \/ DeadRespawn(v)
    BY <2>1, TurnRespawn DEF IdleRespawn, DeadRespawn, Processing
  <2>2. CASE LeaveAlone(v)
    BY <1>2, <2>2 DEF LeaveAlone
  <2>3. CASE NotifyDeath(v)
    BY <2>3, TurnNotify
  <2>4. QED
    BY <1>15, <2>1, <2>2, <2>3 DEF ProcessVehicle
<1>16. CASE Process
  BY <1>2, <1>15, <1>16, TurnReturn DEF Process, StartPass
<1>17. QED
  BY <1>2, <1>4, <1>5, <1>8, <1>10, <1>14, <1>16 DEF Next, vars

LEMMA TurnInit == Init => TurnInv
BY DEF Init, TurnInv, Mourned, DeathAlone, Live

(***************************************************************************)
(* Unless a filter script puts a vehicle back in its OnVehicleDeath, which *)
(* tells of the spawn before the death, the game mode hears of one death   *)
(* of a vehicle between two spawns: whatever else scripts put back,        *)
(* destroy and create in whatever callbacks.                               *)
(***************************************************************************)
THEOREM OneDeathALife ==
    ASSUME <<"OnVehicleDeath", "FilterScripts">> \notin RespawnIn
    PROVE  Spec => DeathsInTurn
<1>1. Inv /\ TurnInv /\ [Next]_vars => TurnInv'
  BY TurnStep DEF DeathFirst
<1>2. ASSUME TurnInv, NEW v \in Live, vehicle[v].mourned, NotifyDeath(v) PROVE FALSE
  BY <1>2 DEF TurnInv, Mourned, Spawning, Elements, NotifyDeath, Processing
<1>3. TurnInv => [\A v \in Live : ~(vehicle[v].mourned /\ NotifyDeath(v))]_vars
  BY <1>2
<1>4. QED
  BY <1>1, <1>3, TurnInit, Invariance, PTL DEF Spec, DeathsInTurn

-----------------------------------------------------------------------------
(***************************************************************************)
(* No use of a destroyed vehicle.  Scripts destroy vehicles only in the    *)
(* game mode's OnVehicleSpawn, after which CVehicle::Respawn does nothing  *)
(* more: so the innermost function never needs what was destroyed in its   *)
(* own callback, and for the others the vehicle is Lost.                   *)
(***************************************************************************)
NeededLives ==
    /\ corrupt => calls # <<>> /\ Head(calls).this = Lost
    /\ \A i \in DOMAIN calls : calls[i].this = None => calls[i].callback = SpawnLast

LEMMA NeededRespawn ==
    ASSUME Inv, NeededLives, NEW v \in Live, Respawn(v), ~corrupt, UNCHANGED corrupt
    PROVE  NeededLives'
<1> DEFINE g == Call(SpawnFirst, v)
<1>1. calls' = <<g>> \o calls /\ calls \in Seq(Frames)
  BY DEF Respawn, SpawnFirst, Inv, FramesLive
<1>2. g \in Frames /\ g.this # None
  BY CallbackNames DEF Call, Frames, Live, VehicleIds, None
<1>3. /\ \A i \in DOMAIN calls' : i # 1 => i - 1 \in DOMAIN calls /\ calls'[i] = calls[i - 1]
      /\ calls'[1] = g
  BY <1>1, <1>2, Pushed
<1> HIDE DEF g
<1>4. QED
  BY <1>2, <1>3 DEF NeededLives

LEMMA NeededDestroy ==
    ASSUME Inv, NeededLives, DestroyIn \subseteq {SpawnLast}, NEW v \in VehicleIds, DestroyVehicle(v)
    PROVE  NeededLives'
<1>1. /\ calls \in Seq(Frames) /\ ~corrupt /\ ~corrupt'
      /\ calls # <<>> => Head(calls).callback = SpawnLast
  BY DEF DestroyVehicle, ScriptMay, Inv, FramesLive
<1>2. \A i \in DOMAIN calls : calls[i] \in Frames
  BY <1>1
<1>3. /\ DOMAIN calls' = DOMAIN calls
      /\ \A i \in DOMAIN calls :
            /\ calls'[i].callback = calls[i].callback
            /\ calls'[i].this = None => i = 1 \/ calls[i].this = None
  BY <1>2, GoneIsNotLive DEF DestroyVehicle, Frames
<1>4. 1 \in DOMAIN calls => calls[1].callback = SpawnLast
  <2>1. calls # <<>> => Head(calls) = calls[1]
    BY <1>1, Popped
  <2>2. QED
    BY <1>1, <2>1
<1>5. QED
  BY <1>1, <1>3, <1>4 DEF NeededLives

LEMMA NeededReturn == Inv /\ NeededLives /\ CallbackReturns => NeededLives'
<1> SUFFICES ASSUME Inv, NeededLives, CallbackReturns PROVE NeededLives'
  OBVIOUS
<1> DEFINE f == Head(calls).callback
           v == Head(calls).this
           g == Call(<<f[1], "GameMode">>, v)
           rest == Tail(calls)
           told == f[2] = "FilterScripts"
<1>1. /\ calls \in Seq(Frames) /\ calls # <<>>
      /\ Head(calls) \in Frames /\ rest \in Seq(Frames)
      /\ Head(calls) = calls[1] /\ 1 \in DOMAIN calls
  BY Popped DEF CallbackReturns, Inv, FramesLive
<1>2. f \in Callbacks /\ g \in Frames /\ g.this = v
  BY <1>1 DEF Frames, Callbacks, Call
<1>3. v \in Live \cup Gone /\ (v = None => f = SpawnLast)
  BY <1>1 DEF NeededLives, Inv, FramesLive, Elements
<1>4. CASE v \notin Live /\ UsesThis(f)
  <2>1. v = Lost
    BY <1>3, <1>4 DEF UsesThis, SpawnLast, Gone
  <2>2. UNCHANGED calls
    BY <1>4 DEF CallbackReturns
  <2>3. QED
    BY <1>1, <2>1, <2>2 DEF NeededLives
<1>5. CASE ~(v \notin Live /\ UsesThis(f))
  <2>1. ~corrupt /\ ~corrupt' /\ calls' = IF told THEN <<g>> \o rest ELSE rest
    BY <1>5 DEF CallbackReturns
  <2>2. told => v # None
    BY <1>3 DEF SpawnLast
  <2>3. \A i \in DOMAIN rest : i + 1 \in DOMAIN calls /\ rest[i] = calls[i + 1]
    BY <1>1, Popped
  <2>4. \A i \in DOMAIN rest : rest[i].this = None => rest[i].callback = SpawnLast
    BY <2>3 DEF NeededLives
  <2>5. CASE told
    <3>1. /\ \A i \in DOMAIN calls' : i # 1 => i - 1 \in DOMAIN rest /\ calls'[i] = rest[i - 1]
          /\ calls'[1] = g
      BY <1>1, <1>2, <2>1, <2>5, Pushed
    <3> HIDE DEF g, rest
    <3>2. QED
      BY <1>2, <2>1, <2>2, <2>4, <2>5, <3>1 DEF NeededLives
  <2>6. CASE ~told
    BY <2>1, <2>4, <2>6 DEF NeededLives
  <2>7. QED
    BY <2>5, <2>6
<1>6. QED
  BY <1>4, <1>5

LEMMA NeededStep ==
    ASSUME DestroyIn \subseteq {SpawnLast}
    PROVE  Inv /\ NeededLives /\ [Next]_vars => NeededLives'
<1> SUFFICES ASSUME Inv, NeededLives, [Next]_vars PROVE NeededLives'
  OBVIOUS
<1>1. ASSUME UNCHANGED <<calls, corrupt>> PROVE NeededLives'
  BY <1>1 DEF NeededLives
<1>2. CASE Tick \/ \E v \in VehicleIds : VehicleDestroyed(v)
  BY <1>1, <1>2 DEF Tick, VehicleDestroyed
<1>3. CASE \E p \in Players : Connect(p) \/ Disconnect(p) \/ Packet(p)
  BY <1>1, <1>3 DEF Connect, Disconnect, Packet, StoreInCarFullSyncData, StoreTrailerFullSyncData,
                    StorePassengerFullSyncData, OnFoot, ChangeState
<1>4. ASSUME NEW v \in VehicleIds, SetVehicleToRespawn(v) PROVE NeededLives'
  BY <1>4, NeededRespawn DEF SetVehicleToRespawn, ScriptMay
<1>5. CASE Native
  BY <1>1, <1>4, <1>5, NeededDestroy DEF Native, CreateVehicle, PutPlayerInVehicle
<1>6. ASSUME NEW v \in VehicleIds, ProcessVehicle(v) PROVE NeededLives'
  <2>1. CASE IdleRespawn(v) \/ DeadRespawn(v)
    BY <2>1, NeededRespawn DEF IdleRespawn, DeadRespawn, Processing
  <2>2. CASE LeaveAlone(v)
    BY <1>1, <2>2 DEF LeaveAlone
  <2>3. CASE NotifyDeath(v)
    <3>1. calls' = <<Call(DeathFirst, v)>> /\ ~corrupt'
      BY <2>3 DEF NotifyDeath, Processing, DeathFirst
    <3>2. DOMAIN calls' = 1 .. 1 /\ calls'[1].this # None
      BY <3>1 DEF Call, VehicleIds, None
    <3>3. QED
      BY <3>1, <3>2 DEF NeededLives
  <2>4. QED
    BY <1>6, <2>1, <2>2, <2>3 DEF ProcessVehicle
<1>7. CASE Process
  BY <1>1, <1>6, <1>7, NeededReturn DEF Process, StartPass
<1>8. QED
  BY <1>1, <1>2, <1>3, <1>5, <1>7 DEF Next, vars

LEMMA NeededInit == Init => NeededLives
BY DEF Init, NeededLives

(***************************************************************************)
(* If scripts use DestroyVehicle in the game mode's OnVehicleSpawn or in   *)
(* no callback, no member function goes on with a vehicle destroyed in its *)
(* own callbacks; only one in whose callback a script has put a vehicle    *)
(* back may, whichever those are in which scripts do.                      *)
(***************************************************************************)
THEOREM NobodyOutlivesItsVehicle ==
    ASSUME DestroyIn \subseteq {<<"OnVehicleSpawn", "GameMode">>}
    PROVE  Spec => []NoDestroyedVehicleUsed
<1>1. Inv /\ NeededLives /\ [Next]_vars => NeededLives'
  BY NeededStep DEF SpawnLast
<1>2. NeededLives => NoDestroyedVehicleUsed
  BY DEF NeededLives, NoDestroyedVehicleUsed
<1>3. QED
  BY <1>1, <1>2, NeededInit, Invariance, PTL DEF Spec
=============================================================================
