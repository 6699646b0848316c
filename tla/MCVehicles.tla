----------------------------- MODULE MCVehicles -----------------------------
(* Instances of Vehicles: the callbacks in which scripts use natives. *)
EXTENDS Vehicles

NoCallback == {}

\* Everywhere but where a filter script hears of a death before the game mode.
ButFirst == Callbacks \ {<<"OnVehicleDeath", "FilterScripts">>}

\* Where the vehicle is not needed any more.
LastOnly == {<<"OnVehicleSpawn", "GameMode">>}

\* No longer than the ten seconds after a respawn in which nobody looks, and longer.
ShortAndLong == {2, 3}
=============================================================================
