------------------------------ MODULE MCNPCAI ------------------------------
(* Two players and an NPC that can lock both, or only one of them.         *)
EXTENDS NPCAI

CONSTANTS p1, p2

TwoPlayers == {p1, p2}
=============================================================================
