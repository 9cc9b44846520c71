-------------------------- MODULE MCTargetManager --------------------------
(* Instances of TargetManager for TLC. *)
EXTENDS TargetManager, TLC

CONSTANTS p1, p2, n1, s1, s2

PilotsPair == {p1, p2}
NpcOne == {n1}
SystemPair == {s1, s2}
SystemOne == {s1}

\* Pilots, NPCs and systems are each interchangeable (safety runs only).
Symmetry == Permutations(Pilots) \cup Permutations(Npcs) \cup Permutations(Systems)
=============================================================================
