---------------------------- MODULE MCGameModes ----------------------------
(* Two filter scripts and one broken one, two configured game modes, one    *)
(* broken game mode and a name of none.                                     *)
EXTENDS GameModes

CONSTANTS a, b, bad, grand, lvdm, broken, missing

const_Configured == <<a, a, b>>
const_None == <<>>
const_ModeLine == <<grand, lvdm>>
=============================================================================
