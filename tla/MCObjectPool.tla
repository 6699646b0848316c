----------------------------- MODULE MCObjectPool -----------------------------
(***************************************************************************)
(* Two players and the ids 0, 1, 2, of which 1 and 2 are handed out: both  *)
(* ids can be global, personal to one player, or shared by the two, and    *)
(* the pool can be full for a global object, for one player or for all.    *)
(***************************************************************************)
EXTENDS ObjectPool
=============================================================================
