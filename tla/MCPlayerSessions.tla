--------------------------- MODULE MCPlayerSessions ---------------------------
(***************************************************************************)
(* Two connections for one or two player slots: one client after or beside *)
(* another, joining once or again, under a nickname that is free or one    *)
(* that is in use.                                                         *)
(***************************************************************************)
EXTENDS PlayerSessions, TLC

\* Neither the connections nor the nicknames differ in what they may do.
Interchangeable == Permutations(Conns) \cup Permutations(Nicks)

(***************************************************************************)
(* What the properties tell apart.  No guard reads told, hushed, rejoined  *)
(* or meddled, none of the last three is ever reset, and the properties    *)
(* except what they exclude: states that differ in nothing else are one.   *)
(***************************************************************************)
Heard ==
    IF meddled THEN "anything"
    ELSE <<hushed, rejoined, IF hushed THEN "anything" ELSE told["fs"],
           [p \in Players \ rejoined |-> told["gm"][p]]>>

WhatMatters == <<network, slots, game, stack, crashed, meddled, Heard>>
=============================================================================
