----------------------------- MODULE MCBubbles -----------------------------
(* Two pilots, two ships and a capsule, and two bubbles at a time.         *)
EXTENDS Bubbles, TLC

CONSTANTS p1, p2, s1, s2, c1, b1, b2

MCPilots == {p1, p2}
MCShips == {s1, s2}
MCPods == {c1}
MCGrids == {b1, b2}
MCPlaces == {1, 3, 13}
MCExits == {1}
Symmetry == Permutations(MCGrids) \cup Permutations(MCShips) \cup Permutations(MCPilots)
============================================================================
