---------------------------- MODULE MCSkillQueue ----------------------------
(* An instance of SkillQueue for TLC: two skills of two levels, the player  *)
(* trains one of them to the end.  A level takes a minute, which is a tick  *)
(* of the clock, or nothing if half of it is trained.                       *)
EXTENDS SkillQueue, TLC

CONSTANTS s1, s2, none

TwoSkills == {s1, s2}
PointsFor == (0 :> 1) @@ (1 :> 2) @@ (2 :> 4)
WantedLevels == {[skill |-> s1, lvl |-> 1], [skill |-> s1, lvl |-> 2],
                 [skill |-> s2, lvl |-> 1]}
=============================================================================
