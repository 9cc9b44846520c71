------------------------------ MODULE NpcLocks ------------------------------
(***************************************************************************)
(* What an NPC's state machine does to its locks, which is all that the    *)
(* players see of it (TargetManager has these steps as NpcTarget,          *)
(* NpcSetIdle, NpcClearTarget and NpcSwitchTarget).  It locks one ship at  *)
(* a time, within its limit, aims at a ship only with a lock on it, and    *)
(* stops fighting in the step that costs it the last lock, in which it     *)
(* breaks the locks on itself as well (eve-server/npc/NPCAI.h).  A warp    *)
(* is the exception: it ends all locks, and the fight only where it ends.  *)
(***************************************************************************)
EXTENDS Naturals, FiniteSets

CONSTANTS Players, NoPlayer, MaxLocked

VARIABLES targets,      \* the ships the NPC has locked
          targetedBy,   \* the ships that have locked the NPC
          fights,       \* it engages or chases a ship, or is about to
          aim           \* the ship it fights, or NoPlayer

vars == <<targets, targetedBy, fights, aim>>

Init ==
    /\ targets = {}
    /\ targetedBy = {}
    /\ fights = FALSE
    /\ aim = NoPlayer

Lock(p) ==
    /\ p \notin targets
    /\ Cardinality(targets) < MaxLocked
    /\ targets' = targets \cup {p}
    /\ UNCHANGED <<targetedBy, fights, aim>>

\* At a ship it has locked, or at the one it has been at before a warp.
Fight(p) ==
    /\ p \in targets \cup {aim}
    /\ aim' = p
    /\ fights' = TRUE
    /\ UNCHANGED <<targets, targetedBy>>

\* A passive NPC calls for help against a ship: no fight.
Signal(p) ==
    /\ aim' = p
    /\ fights' = FALSE
    /\ UNCHANGED <<targets, targetedBy>>

\* All locks go, and the fight with them.
GiveUp ==
    /\ targets' = {}
    /\ targetedBy' = {}
    /\ fights' = FALSE
    /\ aim' = NoPlayer

\* A lock goes, the lock of the same ship on the NPC perhaps with it; the last
\* one goes like this only if there is no fight.
Lose(p) ==
    /\ p \in targets \cup {aim}
    /\ targets' = targets \ {p}
    /\ targetedBy' \in {targetedBy, targetedBy \ {p}}
    /\ aim' = IF aim = p THEN NoPlayer ELSE aim
    /\ fights => targets' # {}
    /\ UNCHANGED fights

Targeted(p) ==
    /\ targetedBy' = targetedBy \cup {p}
    /\ UNCHANGED <<targets, fights, aim>>

TargetedByLost(p) ==
    /\ targetedBy' = targetedBy \ {p}
    /\ UNCHANGED <<targets, fights, aim>>

\* A warp begins, and nobody tells the NPC.
Warp ==
    /\ targets' = {}
    /\ targetedBy' = {}
    /\ UNCHANGED <<fights, aim>>

\* The fight is over where the warp ends; what it was about is not forgotten.
Arrive ==
    /\ fights' = FALSE
    /\ UNCHANGED <<targets, targetedBy, aim>>

Next ==
    \/ GiveUp \/ Warp \/ Arrive
    \/ \E p \in Players :
         \/ Lock(p) \/ Fight(p) \/ Signal(p) \/ Lose(p)
         \/ Targeted(p) \/ TargetedByLost(p)

Spec == Init /\ [][Next]_vars
=============================================================================
