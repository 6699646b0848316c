--------------------------- MODULE ObjectOwnership ---------------------------
(***************************************************************************)
(* What the object pool promises to scripts, without its tables: who holds *)
(* each object id.  An id is free, or held by the server for everybody, or *)
(* held by a set of players, each with an object of its own.  ObjectPool   *)
(* is shown to implement this specification.                               *)
(***************************************************************************)
CONSTANTS
    Players,
    Server,       \* the holder of a global object, not a player
    Ids

VARIABLES
    present,      \* the players that are on the server
    holders       \* for each id, who holds it

\* Only players and the server hold an id.
TypeOK ==
    /\ present \in SUBSET Players
    /\ holders \in [Ids -> SUBSET (Players \cup {Server})]

Init ==
    /\ present = {}
    /\ holders = [o \in Ids |-> {}]

Come(p) ==
    /\ present' = present \cup {p}
    /\ UNCHANGED holders

\* A player who goes gives up everything he holds.
Go(p) ==
    /\ present' = present \ {p}
    /\ holders' = [o \in Ids |-> holders[o] \ {p}]

\* The server takes an id nobody holds.
TakeForAll(o) ==
    /\ holders[o] = {}
    /\ holders' = [holders EXCEPT ![o] = {Server}]
    /\ UNCHANGED present

\* A player takes an id that is not the server's and not his already.
Take(p, o) ==
    /\ p \in present
    /\ holders[o] \cap {p, Server} = {}
    /\ holders' = [holders EXCEPT ![o] = @ \cup {p}]
    /\ UNCHANGED present

GiveUp(h, o) ==
    /\ h \in holders[o]
    /\ holders' = [holders EXCEPT ![o] = @ \ {h}]
    /\ UNCHANGED present

Reset ==
    /\ holders' = [o \in Ids |-> {}]
    /\ UNCHANGED present

Next ==
    \/ \E p \in Players : Come(p) \/ Go(p)
    \/ \E o \in Ids : TakeForAll(o)
    \/ \E p \in Players, o \in Ids : Take(p, o)
    \/ \E h \in Players \cup {Server}, o \in Ids : GiveUp(h, o)
    \/ Reset

Spec == Init /\ [][Next]_<<present, holders>>
=============================================================================
