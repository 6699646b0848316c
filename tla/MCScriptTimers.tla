---------------------------- MODULE MCScriptTimers ----------------------------
(***************************************************************************)
(* One filter script beside the game mode and three timer ids: a timer can *)
(* have one before it and one after it in the map, of either script.       *)
(***************************************************************************)
EXTENDS ScriptTimers
=============================================================================
