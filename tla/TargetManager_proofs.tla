----------------------- MODULE TargetManager_proofs -----------------------
(***************************************************************************)
(* Proofs about TargetManager, for any pilots, NPCs, systems and limit.    *)
(* Registry is what each method of TargetManager preserves by itself;      *)
(* Position adds what the rest of the server has to do to keep locks and   *)
(* places together.  With both, every step of the two maps is a step of    *)
(* TargetLocks.                                                            *)
(***************************************************************************)
EXTENDS TargetManager, TLAPS

LockTypeOK ==
    /\ lock \in [Entities -> [Entities -> LockState]]
    /\ targetedBy \in [Entities -> SUBSET Entities]
    /\ targMgrs \in SUBSET Entities
    /\ canAttack \in [Entities -> BOOLEAN]

PlaceTypeOK ==
    /\ loc \in [Entities -> Systems \cup {NoSystem}]
    /\ npcIdle \in [Npcs -> BOOLEAN]
    /\ phase \in [Pilots -> Phase]
    /\ cloaked \in [Pilots -> BOOLEAN]
    /\ cloakTimer \in [Pilots -> BOOLEAN]
    /\ exposed \in [Pilots -> BOOLEAN]

Registry == LockTypeOK /\ Symmetric /\ Registered

-----------------------------------------------------------------------------
(* The methods.                                                            *)

\* Starting locks keeps the two maps and the registration together, and adds
\* exactly the given pairs.
LEMMA StartTargetingEffect ==
    ASSUME Registry, NEW pairs \in SUBSET (Entities \X Entities),
           StartTargeting(pairs)
    PROVE  /\ Registry'
           /\ \A x, t \in Entities :
                (t \in Targets(x)') <=> (t \in Targets(x) \/ <<x, t>> \in pairs)
<1>1. LockTypeOK'
  BY DEF Registry, LockTypeOK, StartTargeting, LockState
<1>2. \A x, t \in Entities :
        (t \in Targets(x)') <=> (t \in Targets(x) \/ <<x, t>> \in pairs)
  BY DEF Registry, LockTypeOK, StartTargeting, Targets
<1>3. Symmetric'
  BY <1>2 DEF Registry, Symmetric, StartTargeting
<1>4. Registered'
  <2> SUFFICES ASSUME NEW x \in Entities
               PROVE  (x \in targMgrs') <=> (Targets(x)' # {})
    BY DEF Registered
  <2>1. (x \in targMgrs') <=>
          (Targets(x) # {} \/ \E t \in Entities : <<x, t>> \in pairs)
    BY DEF Registry, Registered, StartTargeting
  <2>2. Targets(x) \subseteq Entities /\ Targets(x)' \subseteq Entities
    BY DEF Targets
  <2> QED
    BY <1>2, <2>1, <2>2
<1> QED
  BY <1>1, <1>2, <1>3, <1>4 DEF Registry

\* ClearTarget drops one lock, on both sides.
LEMMA ClearTargetEffect ==
    ASSUME Registry, NEW x \in Entities, NEW t \in Entities, ClearTarget(x, t)
    PROVE  /\ Registry'
           /\ \A y \in Entities : Targets(y)' \subseteq Targets(y)
<1>1. LockTypeOK'
  BY DEF Registry, LockTypeOK, ClearTarget, LockState
<1>2. \A y, u \in Entities :
        (u \in Targets(y)') <=> (u \in Targets(y) /\ ~ (y = x /\ u = t))
  BY DEF Registry, LockTypeOK, ClearTarget, Targets
<1>3. Symmetric'
  BY <1>2 DEF Registry, LockTypeOK, Symmetric, ClearTarget
<1>4. Registered'
  <2> SUFFICES ASSUME NEW y \in Entities
               PROVE  (y \in targMgrs') <=> (Targets(y)' # {})
    BY DEF Registered
  <2>1. Targets(y) \subseteq Entities /\ Targets(y)' \subseteq Entities
    BY DEF Targets
  <2>2. (y \in targMgrs') <=>
          (y \in targMgrs /\ ~ (y = x /\ Targets(x) \subseteq {t}))
    BY DEF ClearTarget
  <2> QED
    BY <1>2, <2>1, <2>2 DEF Registry, Registered
<1> QED
  BY <1>1, <1>2, <1>3, <1>4 DEF Registry, Targets

\* ClearTargets drops the locks of one entity, on both sides.
LEMMA ClearOwnTargetsEffect ==
    ASSUME Registry, NEW x \in Entities, ClearOwnTargets(x)
    PROVE  /\ Registry'
           /\ \A y \in Entities : Targets(y)' \subseteq Targets(y)
<1>1. LockTypeOK'
  BY DEF Registry, LockTypeOK, ClearOwnTargets, LockState
<1>2. \A y, u \in Entities : (u \in Targets(y)') <=> (u \in Targets(y) /\ y # x)
  BY DEF Registry, LockTypeOK, ClearOwnTargets, Targets
<1>3. Symmetric'
  BY <1>2 DEF Registry, LockTypeOK, Symmetric, ClearOwnTargets
<1>4. Registered'
  <2> SUFFICES ASSUME NEW y \in Entities
               PROVE  (y \in targMgrs') <=> (Targets(y)' # {})
    BY DEF Registered
  <2>1. Targets(y) \subseteq Entities /\ Targets(y)' \subseteq Entities
    BY DEF Targets
  <2> QED
    BY <1>2, <2>1 DEF Registry, Registered, ClearOwnTargets
<1> QED
  BY <1>1, <1>2, <1>3, <1>4 DEF Registry, Targets

\* ClearAllTargets leaves the entities it is called on with no lock either
\* way, and adds none.
LEMMA ClearAllTargetsEffect ==
    ASSUME Registry, NEW C \in SUBSET Entities, ClearAllTargets(C)
    PROVE  /\ Registry'
           /\ \A y \in Entities : Targets(y)' \subseteq Targets(y)
           /\ \A y \in Entities, c \in C : c \notin Targets(y)'
           /\ \A c \in C : Targets(c)' = {} /\ targetedBy'[c] = {}
<1>1. LockTypeOK'
  BY DEF Registry, LockTypeOK, ClearAllTargets, LockState
<1>2. \A y, u \in Entities :
        (u \in Targets(y)') <=> (u \in Targets(y) /\ y \notin C /\ u \notin C)
  BY DEF Registry, LockTypeOK, Symmetric, ClearAllTargets, Targets
<1>3. \A y, u \in Entities :
        (y \in targetedBy'[u]) <=> (u \in Targets(y) /\ y \notin C /\ u \notin C)
  BY DEF Registry, LockTypeOK, Symmetric, ClearAllTargets
<1>4. Symmetric'
  BY <1>2, <1>3 DEF Symmetric
<1>5. Registered'
  <2> SUFFICES ASSUME NEW y \in Entities
               PROVE  (y \in targMgrs') <=> (Targets(y)' # {})
    BY DEF Registered
  <2>1. Targets(y) \subseteq Entities /\ Targets(y)' \subseteq Entities
    BY DEF Targets
  <2>2. LosesLast(y, C) <=> (Targets(y) # {} /\ Targets(y) \subseteq C)
    BY <2>1 DEF LosesLast, Registry, Symmetric
  <2>3. (y \in targMgrs') <=>
          (y \in targMgrs /\ y \notin C /\ ~ LosesLast(y, C))
    BY DEF ClearAllTargets
  <2> QED
    BY <1>2, <2>1, <2>2, <2>3 DEF Registry, Registered
<1>6. \A c \in C : Targets(c)' = {} /\ targetedBy'[c] = {}
  BY <1>2 DEF ClearAllTargets, Targets
<1> QED
  BY <1>1, <1>2, <1>4, <1>5, <1>6 DEF Registry, Targets

\* Cascade(e) is a set of entities that e belongs to.
LEMMA CascadeType ==
    ASSUME NEW e \in Entities
    PROVE  Cascade(e) \in SUBSET Entities /\ e \in Cascade(e)
BY DEF Cascade, Entities

LEMMA DropAllEffect ==
    ASSUME Registry, NEW e \in Entities, DropAll(e)
    PROVE  /\ Registry'
           /\ \A y \in Entities : Targets(y)' \subseteq Targets(y) \ {e}
           /\ Targets(e)' = {} /\ targetedBy'[e] = {}
           /\ npcIdle' \in [Npcs -> BOOLEAN]
<1>1. ClearAllTargets(Cascade(e)) /\ npcIdle' \in [Npcs -> BOOLEAN]
  BY DEF DropAll
<1>2. Cascade(e) \in SUBSET Entities /\ e \in Cascade(e)
  BY CascadeType
<1> QED
  BY <1>1, <1>2, ClearAllTargetsEffect

-----------------------------------------------------------------------------
(* The two maps and the registration.                                      *)

\* Every action of Next, as one case each.
LEMMA NextCases ==
    ASSUME NEW P, Next,
           \A p \in Pilots, t \in Entities : AddTarget(p, t) => P,
           \A p \in Pilots, t \in Entities : RemoveTarget(p, t) => P,
           \A p \in Pilots : ClearTargets(p) => P,
           \A p \in Pilots : StargateJump(p) => P,
           \A p \in Pilots : Move(p) => P,
           \A p \in Pilots : CloakTimerFires(p) => P,
           \A p \in Pilots : Arrive(p) => P,
           \A p \in Pilots : StationTimer(p) => P,
           \A p \in Pilots : Dock(p) => P,
           \A p \in Pilots : Logout(p) => P,
           \A p \in Pilots, s \in Systems : ExecuteJump(p, s) => P,
           \A p \in Pilots, s \in Systems : EnterSpace(p, s) => P,
           \A n \in Npcs, p \in Pilots : NpcTarget(n, p) => P,
           \A n \in Npcs, p \in Pilots : NpcSwitchTarget(n, p) => P,
           \A n \in Npcs, p \in Pilots : NpcClearTarget(n, p) => P,
           \A n \in Npcs : NpcSetIdle(n) => P,
           \A n \in Npcs, s \in Systems : SpawnNpc(n, s) => P,
           \A e \in Entities : Warp(e) => P,
           \A e \in Entities : Killed(e) => P,
           \A x, t \in Entities : TimerExpires(x, t) => P,
           TargTic => P
    PROVE  P
BY Zenon DEF Next, PilotStep, NpcStep



\* The state predicates of Registry depend on the lock variables alone.
LEMMA RegistryUnchanged ==
    ASSUME Registry, UNCHANGED lockVars
    PROVE  /\ Registry'
           /\ \A x \in Entities : Targets(x)' = Targets(x)
BY DEF Registry, LockTypeOK, Symmetric, Registered, Targets, lockVars

\* A lock timer that runs out, and the 2 Hz pass, change no set of targets.
LEMMA TimerEffect ==
    ASSUME Registry,
           TargTic \/ \E x, t \in Entities : TimerExpires(x, t)
    PROVE  /\ Registry'
           /\ \A x \in Entities : Targets(x)' = Targets(x)
<1>1. CASE TargTic
  <2>1. LockTypeOK'
    BY <1>1 DEF TargTic, Registry, LockTypeOK, LockState
  <2>2. \A x \in Entities : Targets(x)' = Targets(x)
    BY <1>1 DEF TargTic, Registry, LockTypeOK, Targets
  <2>3. Symmetric' /\ Registered'
    BY <1>1, <2>2 DEF TargTic, Registry, Symmetric, Registered
  <2> QED
    BY <2>1, <2>2, <2>3 DEF Registry
<1>2. ASSUME NEW x \in Entities, NEW t \in Entities, TimerExpires(x, t)
      PROVE  Registry' /\ \A y \in Entities : Targets(y)' = Targets(y)
  <2>1. LockTypeOK'
    BY <1>2 DEF TimerExpires, Registry, LockTypeOK, LockState
  <2>2. \A y \in Entities : Targets(y)' = Targets(y)
    BY <1>2 DEF TimerExpires, Registry, LockTypeOK, Targets
  <2>3. Symmetric' /\ Registered'
    BY <1>2, <2>2 DEF TimerExpires, Registry, Symmetric, Registered
  <2> QED
    BY <2>1, <2>2, <2>3 DEF Registry
<1> QED
  BY <1>1, <1>2

\* NPCAIMgr::ClearTarget only takes locks away.
LEMMA NpcClearTargetEffect ==
    ASSUME Registry, NEW n \in Npcs, NEW p \in Pilots, NpcClearTarget(n, p)
    PROVE  /\ Registry'
           /\ \A y \in Entities : Targets(y)' \subseteq Targets(y)
<1> n \in Entities /\ p \in Entities /\ {n} \in SUBSET Entities
  BY DEF Entities
<1>1. CASE ClearAllTargets({n})
  BY <1>1, ClearAllTargetsEffect
<1>2. CASE ClearTarget(n, p)
  BY <1>2, ClearTargetEffect
<1> QED
  BY <1>1, <1>2 DEF NpcClearTarget

-----------------------------------------------------------------------------
(* Type correctness.                                                       *)

LEMMA TypeParts == TypeOK <=> LockTypeOK /\ PlaceTypeOK
BY DEF TypeOK, LockTypeOK, PlaceTypeOK

LEMMA PlaceTypeStep ==
    ASSUME PlaceTypeOK, Next
    PROVE  PlaceTypeOK'
<1> USE DEF PlaceTypeOK, Phase, Entities, jumpVars
<1>1. \A p \in Pilots, t \in Entities : AddTarget(p, t) => PlaceTypeOK'
  BY DEF AddTarget
<1>2. \A p \in Pilots, t \in Entities : RemoveTarget(p, t) => PlaceTypeOK'
  BY DEF RemoveTarget
<1>3. \A p \in Pilots : ClearTargets(p) => PlaceTypeOK'
  BY DEF ClearTargets
<1>4. \A p \in Pilots : StargateJump(p) => PlaceTypeOK'
  BY DEF StargateJump, DropAll
<1>5. \A p \in Pilots : Move(p) => PlaceTypeOK'
  BY DEF Move
<1>6. \A p \in Pilots : CloakTimerFires(p) => PlaceTypeOK'
  BY DEF CloakTimerFires
<1>7. \A p \in Pilots : Arrive(p) => PlaceTypeOK'
  BY DEF Arrive
<1>8. \A p \in Pilots : StationTimer(p) => PlaceTypeOK'
  BY DEF StationTimer
<1>9. \A p \in Pilots : Dock(p) => PlaceTypeOK'
  BY DEF Dock, DropAll
<1>10. \A p \in Pilots : Logout(p) => PlaceTypeOK'
  BY DEF Logout, DropAll
<1>11. \A p \in Pilots, s \in Systems : ExecuteJump(p, s) => PlaceTypeOK'
  BY DEF ExecuteJump
<1>12. \A p \in Pilots, s \in Systems : EnterSpace(p, s) => PlaceTypeOK'
  BY DEF EnterSpace
<1>13. \A n \in Npcs, p \in Pilots : NpcTarget(n, p) => PlaceTypeOK'
  BY DEF NpcTarget
<1>14. \A n \in Npcs, p \in Pilots : NpcSwitchTarget(n, p) => PlaceTypeOK'
  BY DEF NpcSwitchTarget
<1>15. \A n \in Npcs, p \in Pilots : NpcClearTarget(n, p) => PlaceTypeOK'
  BY DEF NpcClearTarget
<1>16. \A n \in Npcs : NpcSetIdle(n) => PlaceTypeOK'
  BY DEF NpcSetIdle
<1>17. \A n \in Npcs, s \in Systems : SpawnNpc(n, s) => PlaceTypeOK'
  BY DEF SpawnNpc
<1>18. \A e \in Entities : Warp(e) => PlaceTypeOK'
  BY DEF Warp, DropAll
<1>19. \A e \in Entities : Killed(e) => PlaceTypeOK'
  BY DEF Killed, DropAll
<1>20. \A x, t \in Entities : TimerExpires(x, t) => PlaceTypeOK'
  BY DEF TimerExpires
<1>21. TargTic => PlaceTypeOK'
  BY DEF TargTic
<1> QED
  <2> HIDE DEF PlaceTypeOK
  <2> QED
    BY <1>1, <1>2, <1>3, <1>4, <1>5, <1>6, <1>7, <1>8, <1>9, <1>10, <1>11,
       <1>12, <1>13, <1>14, <1>15, <1>16, <1>17, <1>18, <1>19, <1>20, <1>21, NextCases, Zenon

-----------------------------------------------------------------------------
(* The two maps and the registration, step by step.                        *)

\* The pairs of locks that a request of a client, or an NPC, may start.
LEMMA AddTargetPairs ==
    ASSUME NEW p \in Pilots, NEW t \in Entities, AddTarget(p, t)
    PROVE  \E pairs \in SUBSET (Entities \X Entities) :
             /\ StartTargeting(pairs)
             /\ pairs \subseteq {<<p, t>>, <<t, p>>}
             /\ t \in Pilots => pairs \subseteq {<<p, t>>}
<1>1. PICK r \in NpcReactions(p, t) :
        StartTargeting({<<p, t>>} \cup IF r = "none" THEN {} ELSE {<<t, p>>})
  BY DEF AddTarget
<1>2. ({<<p, t>>} \cup IF r = "none" THEN {} ELSE {<<t, p>>})
        \in SUBSET (Entities \X Entities)
  BY DEF Entities
<1>3. t \in Pilots => r = "none"
  BY TargetAssumption DEF NpcReactions
<1> QED
  BY <1>1, <1>2, <1>3

LEMMA RegistryStep ==
    ASSUME Registry, PlaceTypeOK, Next
    PROVE  Registry'
<1> USE DEF Entities
<1>1. \A p \in Pilots, t \in Entities : AddTarget(p, t) => Registry'
  BY AddTargetPairs, StartTargetingEffect
<1>2. \A p \in Pilots, t \in Entities : RemoveTarget(p, t) => Registry'
  BY ClearTargetEffect DEF RemoveTarget
<1>3. \A p \in Pilots : ClearTargets(p) => Registry'
  BY ClearOwnTargetsEffect DEF ClearTargets
<1>4. \A p \in Pilots : StargateJump(p) => Registry'
  BY DropAllEffect DEF StargateJump
<1>5. \A p \in Pilots : Move(p) => Registry'
  BY RegistryUnchanged DEF Move
<1>6. \A p \in Pilots : CloakTimerFires(p) => Registry'
  BY RegistryUnchanged DEF CloakTimerFires
<1>7. \A p \in Pilots : Arrive(p) => Registry'
  BY RegistryUnchanged DEF Arrive
<1>8. \A p \in Pilots : StationTimer(p) => Registry'
  BY RegistryUnchanged DEF StationTimer
<1>9. \A p \in Pilots : Dock(p) => Registry'
  BY DropAllEffect DEF Dock
<1>10. \A p \in Pilots : Logout(p) => Registry'
  BY DropAllEffect DEF Logout
<1>11. \A p \in Pilots, s \in Systems : ExecuteJump(p, s) => Registry'
  BY RegistryUnchanged DEF ExecuteJump
<1>12. \A p \in Pilots, s \in Systems : EnterSpace(p, s) => Registry'
  BY RegistryUnchanged DEF EnterSpace
<1>13. \A n \in Npcs, p \in Pilots : NpcTarget(n, p) => Registry'
  BY StartTargetingEffect DEF NpcTarget
<1>14. \A n \in Npcs, p \in Pilots : NpcSwitchTarget(n, p) => Registry'
  BY StartTargetingEffect DEF NpcSwitchTarget
<1>15. \A n \in Npcs, p \in Pilots : NpcClearTarget(n, p) => Registry'
  BY NpcClearTargetEffect
<1>16. \A n \in Npcs : NpcSetIdle(n) => Registry'
  BY ClearAllTargetsEffect DEF NpcSetIdle
<1>17. \A n \in Npcs, s \in Systems : SpawnNpc(n, s) => Registry'
  BY RegistryUnchanged DEF SpawnNpc
<1>18. \A e \in Entities : Warp(e) => Registry'
  BY DropAllEffect DEF Warp
<1>19. \A e \in Entities : Killed(e) => Registry'
  BY DropAllEffect DEF Killed
<1>20. \A x, t \in Entities : TimerExpires(x, t) => Registry'
  BY TimerEffect
<1>21. TargTic => Registry'
  BY TimerEffect
<1> QED
  BY <1>1, <1>2, <1>3, <1>4, <1>5, <1>6, <1>7, <1>8, <1>9, <1>10, <1>11,
     <1>12, <1>13, <1>14, <1>15, <1>16, <1>17, <1>18, <1>19, <1>20, <1>21, NextCases, Zenon

RegInv == PlaceTypeOK /\ Registry

LEMMA RegInvInit == Init => RegInv
BY DEF Init, RegInv, PlaceTypeOK, Registry, LockTypeOK, Symmetric, Registered,
       Targets, LockState, Phase

LEMMA RegInvStep == RegInv /\ [Next]_vars => RegInv'
<1> SUFFICES ASSUME RegInv, [Next]_vars PROVE RegInv'
  OBVIOUS
<1>1. CASE Next
  BY <1>1, PlaceTypeStep, RegistryStep DEF RegInv
<1>2. CASE UNCHANGED vars
  BY <1>2, RegistryUnchanged DEF RegInv, PlaceTypeOK, vars, jumpVars
<1> QED
  BY <1>1, <1>2

\* Every variable has its type.
THEOREM TypeCorrect == Spec => []TypeOK
<1>1. RegInv => TypeOK
  BY TypeParts DEF RegInv, Registry
<1> QED
  BY <1>1, RegInvInit, RegInvStep, PTL DEF Spec

\* m_targets and m_targetedBy mirror each other: what TargetedAdd and
\* TargetedByLost are for.
THEOREM MapsMirror == Spec => []Symmetric
<1>1. RegInv => Symmetric
  BY DEF RegInv, Registry
<1> QED
  BY <1>1, RegInvInit, RegInvStep, PTL DEF Spec

\* AddTargMgr and DeleteTargMgr are called whenever they are due.
THEOREM RegisteredAlways == Spec => []Registered
<1>1. RegInv => Registered
  BY DEF RegInv, Registry
<1> QED
  BY <1>1, RegInvInit, RegInvStep, PTL DEF Spec

-----------------------------------------------------------------------------
(* Locks and places.                                                       *)

Position == LockedAlive /\ JumpClean /\ SameSystem

\* Nobody targets p, read off either map.
LEMMA Untargeted ==
    ASSUME Registry, NEW p \in Entities
    PROVE  targetedBy[p] = {} <=> \A x \in Entities : p \notin Targets(x)
BY DEF Registry, LockTypeOK, Symmetric

\* Dropping locks where nobody moves keeps Position.
LEMMA DropKeepsPosition ==
    ASSUME Registry, Registry', Position, UNCHANGED <<loc, jumpVars>>,
           \A x \in Entities : Targets(x)' \subseteq Targets(x)
    PROVE  Position'
<1> USE DEF Entities, jumpVars, InSpace
<1>1. LockedAlive'
  BY DEF Position, LockedAlive
<1>2. SameSystem'
  BY DEF Position, SameSystem
<1>3. JumpClean'
  <2> SUFFICES ASSUME NEW p \in Pilots, phase'[p] = "Jump"
               PROVE  /\ Targets(p)' = {}
                      /\ exposed'[p]
                         \/ (targetedBy'[p] = {} /\ (InSpace(p)' => cloaked'[p]))
    BY DEF JumpClean
  <2>1. Targets(p) = {}
        /\ (exposed[p] \/ (targetedBy[p] = {} /\ (InSpace(p) => cloaked[p])))
    BY DEF Position, JumpClean
  <2>2. targetedBy[p] = {} => targetedBy'[p] = {}
    <3>1. targetedBy[p] = {} <=> \A x \in Entities : p \notin Targets(x)
      BY Untargeted
    <3>2. targetedBy'[p] = {} <=> \A x \in Entities : p \notin Targets(x)'
      BY DEF Registry, LockTypeOK, Symmetric
    <3> QED
      BY <3>1, <3>2
  <2> QED
    BY <2>1, <2>2
<1> QED
  BY <1>1, <1>2, <1>3 DEF Position

\* A lock between two entities in the same system of space, where neither
\* holder is about to jump and no target is a cloaked jumper, keeps Position.
LEMMA StartKeepsPosition ==
    ASSUME Registry, Registry', Position, UNCHANGED <<loc, jumpVars>>,
           NEW pairs,
           \A x, t \in Entities :
             (t \in Targets(x)') <=> (t \in Targets(x) \/ <<x, t>> \in pairs),
           \A x, t \in Entities : <<x, t>> \in pairs =>
             /\ InSpace(x) /\ InSpace(t) /\ loc[x] = loc[t]
             /\ x \in Pilots => phase[x] # "Jump"
             /\ t \in Pilots => ~ cloaked[t]
    PROVE  Position'
<1> USE DEF Entities, jumpVars, InSpace
<1>0. \A x \in Entities : Targets(x)' \subseteq Entities
  BY DEF Targets
<1>1. LockedAlive'
  BY <1>0 DEF Position, LockedAlive
<1>2. SameSystem'
  BY <1>0 DEF Position, SameSystem
<1>3. JumpClean'
  <2> SUFFICES ASSUME NEW p \in Pilots, phase'[p] = "Jump"
               PROVE  /\ Targets(p)' = {}
                      /\ exposed'[p]
                         \/ (targetedBy'[p] = {} /\ (InSpace(p)' => cloaked'[p]))
    BY DEF JumpClean
  <2>1. Targets(p) = {}
        /\ (exposed[p] \/ (targetedBy[p] = {} /\ (InSpace(p) => cloaked[p])))
    BY DEF Position, JumpClean
  <2>2. Targets(p)' = {}
    BY <1>0, <2>1
  <2>3. ASSUME ~ exposed[p]
        PROVE  targetedBy'[p] = {}
    <3>1. \A x \in Entities : p \notin Targets(x)
      BY <2>1, <2>3, Untargeted
    <3>2. \A x \in Entities : <<x, p>> \notin pairs
      BY <2>1, <2>3
    <3>3. \A x \in Entities : p \notin Targets(x)'
      BY <3>1, <3>2
    <3> QED
      BY <3>3 DEF Registry, LockTypeOK, Symmetric
  <2> QED
    BY <2>1, <2>2, <2>3
<1> QED
  BY <1>1, <1>2, <1>3 DEF Position

\* An entity without locks may go anywhere: the others keep Position, and of
\* e itself only the rule of the jump cloak is left to show.
LEMMA MoverKeepsPosition ==
    ASSUME Registry, Registry', Position, NEW e \in Entities,
           \A x \in Entities : Targets(x)' \subseteq Targets(x) \ {e},
           Targets(e)' = {},
           \A x \in Entities : x # e => loc'[x] = loc[x],
           \A p \in Pilots : p # e => /\ phase'[p] = phase[p]
                                     /\ cloaked'[p] = cloaked[p]
                                     /\ exposed'[p] = exposed[p],
           e \in Pilots /\ phase'[e] = "Jump" =>
             exposed'[e] \/ (InSpace(e)' => cloaked'[e])
    PROVE  Position'
<1> USE DEF Entities, InSpace
<1>0. ASSUME NEW x \in Entities, NEW t \in Targets(x)'
      PROVE  /\ x # e /\ t # e /\ t \in Entities /\ t \in Targets(x)
             /\ loc'[x] = loc[x] /\ loc'[t] = loc[t]
  <2>1. x # e /\ t # e /\ t \in Targets(x)
    OBVIOUS
  <2> QED
    BY <2>1 DEF Targets
<1>1. LockedAlive'
  BY <1>0 DEF Position, LockedAlive
<1>2. SameSystem'
  BY <1>0 DEF Position, SameSystem
<1>3. JumpClean'
  <2> SUFFICES ASSUME NEW p \in Pilots, phase'[p] = "Jump"
               PROVE  /\ Targets(p)' = {}
                      /\ exposed'[p]
                         \/ (targetedBy'[p] = {} /\ (InSpace(p)' => cloaked'[p]))
    BY DEF JumpClean
  <2>1. targetedBy'[p] = {} <=> \A x \in Entities : p \notin Targets(x)'
    BY DEF Registry, LockTypeOK, Symmetric
  <2>2. CASE p = e
    BY <2>1, <2>2
  <2>3. CASE p # e
    <3>1. Targets(p) = {}
          /\ (exposed[p] \/ (targetedBy[p] = {} /\ (InSpace(p) => cloaked[p])))
      BY <2>3 DEF Position, JumpClean
    <3>2. targetedBy[p] = {} <=> \A x \in Entities : p \notin Targets(x)
      BY Untargeted
    <3> QED
      BY <2>1, <2>3, <3>1, <3>2
  <2> QED
    BY <2>2, <2>3
<1> QED
  BY <1>1, <1>2, <1>3 DEF Position

\* The steps that leave every set of targets alone and move or change a pilot.
LEMMA QuietKeepsPosition ==
    ASSUME Registry, Registry', PlaceTypeOK, Position,
           \A x \in Entities : Targets(x)' = Targets(x),
           targetedBy' = targetedBy,
           NEW p \in Pilots,
           \/ Move(p) \/ CloakTimerFires(p) \/ Arrive(p) \/ StationTimer(p)
           \/ \E s \in Systems : ExecuteJump(p, s) \/ EnterSpace(p, s)
    PROVE  Position'
<1> USE DEF Entities, InSpace
<1>1. CASE Move(p) \/ CloakTimerFires(p) \/ Arrive(p) \/ StationTimer(p)
  <2>1. loc' = loc /\ \A q \in Pilots : exposed[q] => exposed'[q]
    BY <1>1 DEF Move, CloakTimerFires, Arrive, StationTimer, PlaceTypeOK
  <2>2. LockedAlive' /\ SameSystem'
    BY <2>1 DEF Position, LockedAlive, SameSystem
  <2>3. JumpClean'
    BY <1>1 DEF Position, JumpClean, PlaceTypeOK, Move, CloakTimerFires, Arrive,
                StationTimer
  <2> QED
    BY <2>2, <2>3 DEF Position
<1>2. ASSUME NEW s \in Systems, ExecuteJump(p, s)
      PROVE  Position'
  <2>1. loc' = [loc EXCEPT ![p] = s] /\ s # NoSystem /\ exposed' = exposed
    BY <1>2, TargetAssumption DEF ExecuteJump
  <2>2. Targets(p) = {} /\ (exposed[p] \/ \A x \in Entities : p \notin Targets(x))
    BY <1>2, Untargeted DEF ExecuteJump, Position, JumpClean
  <2>3. LockedAlive'
    BY <2>1 DEF Position, LockedAlive, PlaceTypeOK
  <2>4. SameSystem'
    BY <2>1, <2>2 DEF Position, SameSystem, PlaceTypeOK
  <2>5. JumpClean'
    BY <1>2, <2>1 DEF Position, JumpClean, PlaceTypeOK, ExecuteJump
  <2> QED
    BY <2>3, <2>4, <2>5 DEF Position
<1>3. ASSUME NEW s \in Systems, EnterSpace(p, s)
      PROVE  Position'
  <2>1. loc' = [loc EXCEPT ![p] = s] /\ s # NoSystem /\ exposed' = exposed
    BY <1>3, TargetAssumption DEF EnterSpace
  <2>2. Targets(p) = {} /\ \A x \in Entities : p \notin Targets(x)
    BY <1>3 DEF EnterSpace, Position, LockedAlive, Targets
  <2>3. LockedAlive'
    BY <2>1 DEF Position, LockedAlive, PlaceTypeOK
  <2>4. SameSystem'
    BY <2>1, <2>2 DEF Position, SameSystem, PlaceTypeOK
  <2>5. JumpClean'
    BY <1>3, <2>1 DEF Position, JumpClean, PlaceTypeOK, EnterSpace
  <2> QED
    BY <2>3, <2>4, <2>5 DEF Position
<1> QED
  BY <1>1, <1>2, <1>3

\* An NPC may lock a ship that waits for its jump: the ship is exposed then.
LEMMA NpcSwitchKeepsPosition ==
    ASSUME Registry, PlaceTypeOK, Position,
           NEW n \in Npcs, NEW p \in Pilots, NpcSwitchTarget(n, p)
    PROVE  Position'
<1> n \in Entities /\ p \in Entities /\ n \notin Pilots
  BY TargetAssumption DEF Entities
<1>1. {<<n, p>>} \in SUBSET (Entities \X Entities)
  OBVIOUS
<1>2. Registry'
  BY <1>1, StartTargetingEffect DEF NpcSwitchTarget
<1>3. \A x, u \in Entities :
        (u \in Targets(x)') <=> (u \in Targets(x) \/ (x = n /\ u = p))
  BY <1>1, StartTargetingEffect DEF NpcSwitchTarget
<1>4. /\ UNCHANGED <<loc, phase, cloaked>>
      /\ InSpace(n) /\ InSpace(p) /\ loc[n] = loc[p]
      /\ \A q \in Pilots : exposed[q] => exposed'[q]
      /\ phase[p] = "Jump" => exposed'[p]
  BY DEF NpcSwitchTarget, CanTarget, InSpace, PlaceTypeOK
<1>5. LockedAlive'
  BY <1>3, <1>4 DEF Position, LockedAlive, InSpace, Targets
<1>6. SameSystem'
  BY <1>3, <1>4 DEF Position, SameSystem, Targets
<1>7. JumpClean'
  <2> SUFFICES ASSUME NEW q \in Pilots, phase[q] = "Jump"
               PROVE  /\ Targets(q)' = {}
                      /\ exposed'[q] \/ (targetedBy'[q] = {} /\ (InSpace(q) => cloaked[q]))
    BY <1>4 DEF JumpClean, InSpace
  <2>1. q \in Entities /\ q # n
    BY DEF Entities
  <2>2. Targets(q)' = {}
    BY <1>3, <2>1 DEF Position, JumpClean, Targets
  <2>3. CASE q = p
    BY <1>4, <2>2, <2>3
  <2>4. CASE q # p
    <3>1. targetedBy'[q] = targetedBy[q]
      BY <2>1, <2>4 DEF NpcSwitchTarget, StartTargeting, Registry, LockTypeOK
    <3> QED
      BY <1>4, <2>2, <3>1 DEF Position, JumpClean
  <2> QED
    BY <2>3, <2>4
<1> QED
  BY <1>5, <1>6, <1>7 DEF Position

LEMMA PositionStep ==
    ASSUME Registry, Registry', PlaceTypeOK, Position, Next
    PROVE  Position'
<1> USE DEF Entities
<1>1. \A p \in Pilots, t \in Entities : AddTarget(p, t) => Position'
  <2> SUFFICES ASSUME NEW p \in Pilots, NEW t \in Entities, AddTarget(p, t)
               PROVE  Position'
    OBVIOUS
  <2>1. PICK pairs \in SUBSET (Entities \X Entities) :
          /\ StartTargeting(pairs)
          /\ pairs \subseteq {<<p, t>>, <<t, p>>}
          /\ t \in Pilots => pairs \subseteq {<<p, t>>}
    BY AddTargetPairs
  <2>2. \A x, u \in Entities :
          (u \in Targets(x)') <=> (u \in Targets(x) \/ <<x, u>> \in pairs)
    BY <2>1, StartTargetingEffect
  <2>3. /\ UNCHANGED <<loc, jumpVars>>
        /\ InSpace(p) /\ loc[p] = loc[t] /\ phase[p] = "Idle" /\ ~ cloaked[p]
        /\ t \in Pilots => ~ cloaked[t]
    BY DEF AddTarget, CanTarget
  <2>4. \A x, u \in Entities : <<x, u>> \in pairs =>
          /\ InSpace(x) /\ InSpace(u) /\ loc[x] = loc[u]
          /\ x \in Pilots => phase[x] # "Jump"
          /\ u \in Pilots => ~ cloaked[u]
    BY <2>1, <2>3 DEF InSpace
  <2> QED
    BY <2>2, <2>3, <2>4, StartKeepsPosition
<1>2. \A p \in Pilots, t \in Entities : RemoveTarget(p, t) => Position'
  BY ClearTargetEffect, DropKeepsPosition DEF RemoveTarget
<1>3. \A p \in Pilots : ClearTargets(p) => Position'
  BY ClearOwnTargetsEffect, DropKeepsPosition DEF ClearTargets
<1>4. \A p \in Pilots : StargateJump(p) => Position'
  <2> SUFFICES ASSUME NEW p \in Pilots, StargateJump(p) PROVE Position'
    OBVIOUS
  <2>1. /\ loc' = loc
        /\ cloaked'[p]
        /\ \A q \in Pilots : q # p => /\ phase'[q] = phase[q]
                                     /\ cloaked'[q] = cloaked[q]
                                     /\ exposed'[q] = exposed[q]
    BY DEF StargateJump, PlaceTypeOK
  <2> QED
    BY <2>1, DropAllEffect, MoverKeepsPosition DEF StargateJump
<1>5. \A p \in Pilots : Move(p) => Position'
  BY RegistryUnchanged, QuietKeepsPosition DEF Move, lockVars
<1>6. \A p \in Pilots : CloakTimerFires(p) => Position'
  BY RegistryUnchanged, QuietKeepsPosition DEF CloakTimerFires, lockVars
<1>7. \A p \in Pilots : Arrive(p) => Position'
  BY RegistryUnchanged, QuietKeepsPosition DEF Arrive, lockVars
<1>8. \A p \in Pilots : StationTimer(p) => Position'
  BY RegistryUnchanged, QuietKeepsPosition DEF StationTimer, lockVars
<1>9. \A p \in Pilots : Dock(p) => Position'
  <2> SUFFICES ASSUME NEW p \in Pilots, Dock(p) PROVE Position'
    OBVIOUS
  <2>1. /\ phase'[p] = "Idle"
        /\ \A x \in Entities : x # p => loc'[x] = loc[x]
        /\ \A q \in Pilots : q # p => /\ phase'[q] = phase[q]
                                     /\ cloaked'[q] = cloaked[q]
                                     /\ exposed'[q] = exposed[q]
    BY DEF Dock, PlaceTypeOK
  <2> QED
    BY <2>1, DropAllEffect, MoverKeepsPosition DEF Dock
<1>10. \A p \in Pilots : Logout(p) => Position'
  <2> SUFFICES ASSUME NEW p \in Pilots, Logout(p) PROVE Position'
    OBVIOUS
  <2>1. /\ phase'[p] = "Idle"
        /\ \A x \in Entities : x # p => loc'[x] = loc[x]
        /\ \A q \in Pilots : q # p => /\ phase'[q] = phase[q]
                                     /\ cloaked'[q] = cloaked[q]
                                     /\ exposed'[q] = exposed[q]
    BY DEF Logout, PlaceTypeOK
  <2> QED
    BY <2>1, DropAllEffect, MoverKeepsPosition DEF Logout
<1>11. \A p \in Pilots, s \in Systems : ExecuteJump(p, s) => Position'
  BY RegistryUnchanged, QuietKeepsPosition DEF ExecuteJump, lockVars
<1>12. \A p \in Pilots, s \in Systems : EnterSpace(p, s) => Position'
  BY RegistryUnchanged, QuietKeepsPosition DEF EnterSpace, lockVars
<1>13. \A n \in Npcs, p \in Pilots : NpcTarget(n, p) => Position'
  <2> SUFFICES ASSUME NEW n \in Npcs, NEW p \in Pilots, NpcTarget(n, p)
               PROVE  Position'
    OBVIOUS
  <2>1. {<<n, p>>} \in SUBSET (Entities \X Entities) /\ n \notin Pilots
    BY TargetAssumption
  <2>2. \A x, u \in Entities :
          (u \in Targets(x)') <=> (u \in Targets(x) \/ <<x, u>> \in {<<n, p>>})
    BY <2>1, StartTargetingEffect DEF NpcTarget
  <2>3. /\ UNCHANGED <<loc, jumpVars>>
        /\ InSpace(n) /\ loc[n] = loc[p] /\ ~ cloaked[p]
    BY DEF NpcTarget, CanTarget
  <2>4. \A x, u \in Entities : <<x, u>> \in {<<n, p>>} =>
          /\ InSpace(x) /\ InSpace(u) /\ loc[x] = loc[u]
          /\ x \in Pilots => phase[x] # "Jump"
          /\ u \in Pilots => ~ cloaked[u]
    BY <2>1, <2>3 DEF InSpace
  <2> QED
    BY <2>2, <2>3, <2>4, StartKeepsPosition
<1>14. \A n \in Npcs, p \in Pilots : NpcSwitchTarget(n, p) => Position'
  BY NpcSwitchKeepsPosition
<1>15. \A n \in Npcs, p \in Pilots : NpcClearTarget(n, p) => Position'
  BY NpcClearTargetEffect, DropKeepsPosition DEF NpcClearTarget
<1>16. \A n \in Npcs : NpcSetIdle(n) => Position'
  BY ClearAllTargetsEffect, DropKeepsPosition DEF NpcSetIdle
<1>17. \A n \in Npcs, s \in Systems : SpawnNpc(n, s) => Position'
  <2> SUFFICES ASSUME NEW n \in Npcs, NEW s \in Systems, SpawnNpc(n, s)
               PROVE  Position'
    OBVIOUS
  <2>1. /\ \A x \in Entities : Targets(x)' = Targets(x)
        /\ n \notin Pilots
        /\ \A x \in Entities : x # n => loc'[x] = loc[x]
    BY RegistryUnchanged, TargetAssumption DEF SpawnNpc, PlaceTypeOK
  <2>2. Targets(n) = {} /\ \A x \in Entities : n \notin Targets(x)
    BY DEF SpawnNpc, Position, LockedAlive, Targets
  <2> QED
    BY <2>1, <2>2, MoverKeepsPosition DEF SpawnNpc, jumpVars
<1>18. \A e \in Entities : Warp(e) => Position'
  <2> SUFFICES ASSUME NEW e \in Entities, Warp(e) PROVE Position'
    OBVIOUS
  <2>1. /\ loc' = loc
        /\ \A q \in Pilots : /\ phase'[q] = phase[q]
                             /\ cloaked'[q] = cloaked[q]
                             /\ q # e => exposed'[q] = exposed[q]
    BY DEF Warp, PlaceTypeOK
  <2>2. e \in Pilots /\ phase'[e] = "Jump" => exposed'[e]
    <3> SUFFICES ASSUME e \in Pilots, phase[e] = "Jump" PROVE exposed'[e]
      BY <2>1
    <3>1. exposed[e]
      BY DEF Warp, Position, JumpClean
    <3> QED
      BY <3>1 DEF Warp
  <2> QED
    BY <2>1, <2>2, DropAllEffect, MoverKeepsPosition DEF Warp
<1>19. \A e \in Entities : Killed(e) => Position'
  <2> SUFFICES ASSUME NEW e \in Entities, Killed(e) PROVE Position'
    OBVIOUS
  <2>1. /\ \A x \in Entities : x # e => loc'[x] = loc[x]
        /\ \A q \in Pilots : /\ phase'[q] = phase[q]
                             /\ q # e => cloaked'[q] = cloaked[q]
                             /\ q # e => exposed'[q] = exposed[q]
    BY DEF Killed, PlaceTypeOK
  <2>2. e \in Pilots /\ phase'[e] = "Jump" =>
          exposed'[e] \/ (InSpace(e)' => cloaked'[e])
    BY DEF Killed, InSpace
  <2> QED
    BY <2>1, <2>2, DropAllEffect, MoverKeepsPosition DEF Killed
<1>20. \A x, t \in Entities : TimerExpires(x, t) => Position'
  BY TimerEffect, DropKeepsPosition DEF TimerExpires
<1>21. TargTic => Position'
  BY TimerEffect, DropKeepsPosition DEF TargTic
<1> QED
  BY <1>1, <1>2, <1>3, <1>4, <1>5, <1>6, <1>7, <1>8, <1>9, <1>10, <1>11,
     <1>12, <1>13, <1>14, <1>15, <1>16, <1>17, <1>18, <1>19, <1>20, <1>21, NextCases, Zenon

IInv == RegInv /\ Position

LEMMA IInvInit == Init => IInv
<1> SUFFICES ASSUME Init PROVE IInv
  OBVIOUS
<1>1. RegInv
  BY RegInvInit
<1>2. \A x \in Entities : Targets(x) = {}
  BY DEF Init, Targets
<1>3. Position
  BY <1>2 DEF Init, Position, LockedAlive, SameSystem, JumpClean
<1> QED
  BY <1>1, <1>3 DEF IInv

LEMMA IInvStep == IInv /\ [Next]_vars => IInv'
<1> SUFFICES ASSUME IInv, [Next]_vars PROVE IInv'
  OBVIOUS
<1>1. RegInv'
  BY RegInvStep DEF IInv
<1>2. CASE Next
  BY <1>1, <1>2, PositionStep DEF IInv, RegInv
<1>3. CASE UNCHANGED vars
  <2>1. /\ UNCHANGED <<loc, jumpVars>>
        /\ UNCHANGED lockVars
    BY <1>3 DEF vars
  <2>2. \A x \in Entities : Targets(x)' = Targets(x)
    BY <2>1, RegistryUnchanged DEF IInv, RegInv
  <2> QED
    BY <1>1, <2>1, <2>2, DropKeepsPosition DEF IInv, RegInv
<1> QED
  BY <1>1, <1>2, <1>3

\* No map keeps a pointer to an entity that has left space.
THEOREM NoDanglingLock == Spec => []LockedAlive
<1>1. IInv => LockedAlive
  BY DEF IInv, Position
<1> QED
  BY <1>1, IInvInit, IInvStep, PTL DEF Spec

\* The jump cloak is what keeps a jumping ship free of locks.
THEOREM CloakProtectsJump == Spec => []JumpClean
<1>1. IInv => JumpClean
  BY DEF IInv, Position
<1> QED
  BY <1>1, IInvInit, IInvStep, PTL DEF Spec

\* A lock spans two systems only on a ship that lost its jump cloak.
THEOREM LocksStayInSystem == Spec => []SameSystem
<1>1. IInv => SameSystem
  BY DEF IInv, Position
<1> QED
  BY <1>1, IInvInit, IInvStep, PTL DEF Spec

-----------------------------------------------------------------------------
(* The relation of locks.  Each method of TargetManager is one way for the  *)
(* relation to change, each action one step of TargetLocks.                 *)

Step == [Locks!Next]_(Locks!vars)

\* The lock state as the relation has it.
Abs(state) == IF state = "none" THEN "none" ELSE IF state = "locked" THEN "done" ELSE "begun"

LEMMA RelationIs ==
    ASSUME Registry
    PROVE  Relation = [x \in Entities |-> [t \in Entities |-> Abs(lock[x][t])]]
<1>1. \A x, t \in Entities : LockOf(x, t) = Abs(lock[x][t])
  BY DEF Registry, LockTypeOK, LockState, Symmetric, Targets, LockOf, Abs
<1> QED
  BY <1>1 DEF Relation

LEMMA RelationBecomes ==
    ASSUME Registry'
    PROVE  Relation' = [x \in Entities |-> [t \in Entities |-> Abs(lock'[x][t])]]
<1>1. \A x, t \in Entities : LockOf(x, t)' = Abs(lock'[x][t])
  BY DEF Registry, LockTypeOK, LockState, Symmetric, Targets, LockOf, Abs
<1> QED
  BY <1>1 DEF Relation

LEMMA TargetsAre ==
    ASSUME Registry, NEW x \in Entities
    PROVE  Locks!TargetsOf(x) = Targets(x)
<1>1. \A t \in Entities : Relation[x][t] = Abs(lock[x][t])
  BY RelationIs
<1> QED
  BY <1>1 DEF Locks!TargetsOf, Targets, Abs

\* A call that changes neither a place nor the relation.
LEMMA Stutters ==
    ASSUME UNCHANGED <<loc, lock, targetedBy>>
    PROVE  Step
<1>1. Relation' = Relation
  BY DEF Relation, LockOf
<1> QED
  BY <1>1 DEF Step, Locks!vars

\* The relation after the locks of new were begun.
LEMMA RelationStarted ==
    ASSUME Registry, Registry', NEW new \in SUBSET (Entities \X Entities),
           StartTargeting(new)
    PROVE  Relation' = [x \in Entities |-> [t \in Entities |->
                          IF <<x, t>> \in new THEN "begun" ELSE Relation[x][t]]]
<1>1. \A x, t \in Entities :
        lock'[x][t] = IF <<x, t>> \in new THEN "locking" ELSE lock[x][t]
  BY DEF StartTargeting
<1>2. \A x, t \in Entities :
        Abs(lock'[x][t]) = IF <<x, t>> \in new THEN "begun" ELSE Abs(lock[x][t])
  BY <1>1 DEF Abs
<1> QED
  BY <1>2, RelationIs, RelationBecomes

\* TargetLocks has the same Cardinality, by a name of its own.
LEMMA SameCardinality ==
    ASSUME NEW S
    PROVE  Locks!Cardinality(S) = Cardinality(S)
BY DEF Cardinality, Locks!Cardinality

LEMMA Unlocked ==
    ASSUME Registry, NEW x \in Entities, NEW t \in Entities, t \notin Targets(x),
           Cardinality(Targets(x)) < MaxTargets
    PROVE  Locks!MayLock(x, t)
<1>1. lock[x][t] = "none"
  BY DEF Targets
<1>2. Relation[x][t] = "none"
  BY <1>1, RelationIs DEF Abs
<1>3. Locks!Cardinality(Locks!TargetsOf(x)) < MaxTargets
  BY TargetsAre, SameCardinality
<1> QED
  BY <1>2, <1>3 DEF Locks!MayLock

LEMMA RelationType ==
    Relation \in [Entities -> [Entities -> {"none", "begun", "done"}]]
BY DEF Relation, LockOf

\* StartTargeting of x on t, and of both on each other.
LEMMA StartsOne ==
    ASSUME Registry, Registry', NEW x \in Entities, NEW t \in Entities,
           CanTarget(x, t), StartTargeting({<<x, t>>}), UNCHANGED loc
    PROVE  Locks!Begin(x, t)
<1>1. Relation' = [Relation EXCEPT ![x][t] = "begun"]
  <2>1. {<<x, t>>} \in SUBSET (Entities \X Entities)
    OBVIOUS
  <2>2. Relation' = [y \in Entities |-> [u \in Entities |->
                       IF <<y, u>> \in {<<x, t>>} THEN "begun" ELSE Relation[y][u]]]
    BY <2>1, RelationStarted
  <2>3. \A y, u \in Entities : <<y, u>> \in {<<x, t>>} <=> y = x /\ u = t
    OBVIOUS
  <2>4. [Relation EXCEPT ![x][t] = "begun"] =
          [y \in Entities |-> [u \in Entities |->
             IF y = x /\ u = t THEN "begun" ELSE Relation[y][u]]]
    BY RelationType
  <2> QED
    BY <2>2, <2>3, <2>4
<1>2. Locks!MayLock(x, t)
  BY Unlocked DEF CanTarget
<1>3. x # t /\ loc[x] # NoSystem /\ loc[x] = loc[t]
  BY DEF CanTarget, InSpace
<1> QED
  BY <1>1, <1>2, <1>3 DEF Locks!Begin

LEMMA StartsBoth ==
    ASSUME Registry, Registry', NEW x \in Entities, NEW t \in Entities,
           CanTarget(x, t), x \notin Targets(t), Cardinality(Targets(t)) < MaxTargets,
           StartTargeting({<<x, t>>, <<t, x>>}), UNCHANGED loc
    PROVE  Locks!Begin(x, t)
<1>1. Relation' = [Relation EXCEPT ![x][t] = "begun", ![t][x] = "begun"]
  <2>1. {<<x, t>>, <<t, x>>} \in SUBSET (Entities \X Entities)
    OBVIOUS
  <2>2. Relation' = [y \in Entities |-> [u \in Entities |->
                       IF <<y, u>> \in {<<x, t>>, <<t, x>>} THEN "begun"
                       ELSE Relation[y][u]]]
    BY <2>1, RelationStarted
  <2>3. \A y, u \in Entities :
          <<y, u>> \in {<<x, t>>, <<t, x>>} <=> (y = x /\ u = t) \/ (y = t /\ u = x)
    OBVIOUS
  <2>4. [Relation EXCEPT ![x][t] = "begun", ![t][x] = "begun"] =
          [y \in Entities |-> [u \in Entities |->
             IF (y = x /\ u = t) \/ (y = t /\ u = x) THEN "begun"
             ELSE Relation[y][u]]]
    BY RelationType DEF CanTarget
  <2> QED
    BY <2>2, <2>3, <2>4
<1>2. Locks!MayLock(x, t) /\ Locks!MayLock(t, x)
  BY Unlocked DEF CanTarget
<1>3. x # t /\ loc[x] # NoSystem /\ loc[x] = loc[t]
  BY DEF CanTarget, InSpace
<1> QED
  BY <1>1, <1>2, <1>3 DEF Locks!Begin

\* ClearTarget and ClearTargets touch the locker's own row.
LEMMA ClearsOwn ==
    ASSUME Registry, Registry', NEW x \in Entities, UNCHANGED loc,
           ClearOwnTargets(x) \/ \E t \in Entities : ClearTarget(x, t)
    PROVE  Locks!Cancel(x)
<1>1. \A y \in Entities \ {x}, t \in Entities : lock'[y][t] = lock[y][t]
  BY DEF ClearOwnTargets, ClearTarget, Registry, LockTypeOK
<1>2. \A t \in Entities : lock'[x][t] \in {lock[x][t], "none"}
  BY DEF ClearOwnTargets, ClearTarget, Registry, LockTypeOK
<1>3. \A y \in Entities \ {x} : Relation'[y] = Relation[y]
  BY <1>1, RelationIs, RelationBecomes
<1>4. \A t \in Entities : Relation'[x][t] \in {Relation[x][t], "none"}
  BY <1>2, RelationIs, RelationBecomes DEF Abs
<1> QED
  BY <1>3, <1>4 DEF Locks!Cancel

\* ClearAllTargets of e and of some that had no other target than e.
LEMMA ClearsAll ==
    ASSUME Registry, Registry', NEW e \in Entities, InSpace(e),
           NEW S \in SUBSET Entities, \A n \in S : Targets(n) = {e},
           ClearAllTargets({e} \cup S),
           loc' \in {loc, [loc EXCEPT ![e] = NoSystem]}
    PROVE  Locks!Break(e)
<1>1. \A x, t \in Entities :
        lock'[x][t] = IF x \in {e} \cup S \/ t \in {e} \cup S THEN "none" ELSE lock[x][t]
  BY DEF ClearAllTargets, Registry, LockTypeOK, Symmetric, Targets
<1>2. Relation' = Locks!Without({e} \cup S)
  BY <1>1, RelationIs, RelationBecomes DEF Locks!Without, Abs
<1>3. S \in SUBSET {n \in Entities : Locks!TargetsOf(n) = {e}}
  BY TargetsAre
<1> QED
  BY <1>2, <1>3 DEF Locks!Break, InSpace

LEMMA ClearsAlone ==
    ASSUME Registry, Registry', NEW e \in Entities, InSpace(e),
           ClearAllTargets({e}), UNCHANGED loc
    PROVE  Locks!Break(e)
<1> DEFINE S == {}
<1>1. S \in SUBSET Entities /\ (\A n \in S : Targets(n) = {e}) /\ {e} = {e} \cup S
  OBVIOUS
<1> HIDE DEF S
<1>2. ClearAllTargets({e} \cup S)
  BY <1>1
<1> QED
  BY <1>1, <1>2, ClearsAll

LEMMA DropsAll ==
    ASSUME Registry, Registry', NEW e \in Entities, InSpace(e), DropAll(e),
           loc' \in {loc, [loc EXCEPT ![e] = NoSystem]}
    PROVE  Locks!Break(e)
<1> DEFINE S == Cascade(e) \ {e}
<1>1. S \in SUBSET Entities /\ {e} \cup S = Cascade(e)
  BY CascadeType
<1>2. \A n \in S : Targets(n) = {e}
  BY DEF Cascade, LosesLast
<1>3. ClearAllTargets({e} \cup S)
  BY <1>1 DEF DropAll
<1> HIDE DEF S
<1> QED
  BY <1>1, <1>2, <1>3, ClearsAll

\* A ship that is nowhere is in no lock.
LEMMA NowhereUnlocked ==
    ASSUME Registry, LockedAlive, NEW e \in Entities, ~ InSpace(e)
    PROVE  Relation = Locks!Without({e})
<1>1. \A x, t \in Entities : x = e \/ t = e => lock[x][t] = "none"
  BY DEF LockedAlive, Targets
<1> QED
  BY <1>1, RelationIs DEF Locks!Without, Abs

LEMMA SameRelation ==
    ASSUME UNCHANGED lockVars
    PROVE  Relation' = Relation
BY DEF lockVars, Relation, LockOf

LEMMA TimerSteps ==
    ASSUME Registry, Registry', UNCHANGED loc,
           TargTic \/ \E x, t \in Entities : TimerExpires(x, t)
    PROVE  Locks!Complete
<1>1. \A x, t \in Entities :
        \/ lock'[x][t] = lock[x][t]
        \/ lock[x][t] = "locking" /\ lock'[x][t] = "expired"
        \/ lock[x][t] = "expired" /\ lock'[x][t] = "locked"
  BY DEF TargTic, TimerExpires, Registry, LockTypeOK
<1>2. \A x, t \in Entities :
        \/ Relation'[x][t] = Relation[x][t]
        \/ Relation[x][t] = "begun" /\ Relation'[x][t] = "done"
  BY <1>1, RelationIs, RelationBecomes DEF Abs
<1> QED
  BY <1>2 DEF Locks!Complete

\* What one action is in terms of the relation.
LEMMA AddTargetBegins ==
    ASSUME Registry, Registry', NEW p \in Pilots, NEW t \in Entities, AddTarget(p, t)
    PROVE  Locks!Begin(p, t)
<1>1. p \in Entities
  BY DEF Entities
<1>2. PICK r \in NpcReactions(p, t) :
        StartTargeting({<<p, t>>} \cup IF r = "none" THEN {} ELSE {<<t, p>>})
  BY DEF AddTarget
<1>3. CanTarget(p, t) /\ UNCHANGED loc
  BY DEF AddTarget
<1>4. CASE r = "none"
  <2>1. StartTargeting({<<p, t>>})
    BY <1>2, <1>4
  <2> QED
    BY <1>1, <1>3, <2>1, StartsOne
<1>5. CASE r # "none"
  <2>1. {<<p, t>>} \cup {<<t, p>>} = {<<p, t>>, <<t, p>>}
    OBVIOUS
  <2>2. StartTargeting({<<p, t>>, <<t, p>>})
    BY <1>2, <1>5, <2>1
  <2>3. p \notin Targets(t) /\ Cardinality(Targets(t)) < MaxTargets
    BY <1>2, <1>5 DEF NpcReactions
  <2> QED
    BY <1>1, <1>3, <2>2, <2>3, StartsBoth
<1> QED
  BY <1>4, <1>5

LEMMA NpcClearTargetDrops ==
    ASSUME Registry, Registry', NEW n \in Npcs, NEW p \in Pilots, NpcClearTarget(n, p)
    PROVE  Locks!Break(n) \/ Locks!Cancel(n)
<1>1. n \in Entities /\ p \in Entities /\ InSpace(n) /\ UNCHANGED loc
  BY DEF Entities, NpcClearTarget
<1>2. CASE ClearAllTargets({n})
  BY <1>1, <1>2, ClearsAlone
<1>3. CASE ClearTarget(n, p)
  BY <1>1, <1>3, ClearsOwn
<1> QED
  BY <1>2, <1>3 DEF NpcClearTarget

LEMMA EnterSteps ==
    ASSUME Registry, Position, UNCHANGED lockVars,
           NEW e \in Entities, NEW s \in Systems, ~ InSpace(e),
           loc' = [loc EXCEPT ![e] = s]
    PROVE  Locks!Enter(e, s)
<1>1. Relation = Locks!Without({e})
  BY NowhereUnlocked DEF Position
<1>2. Relation' = Relation
  BY SameRelation
<1> QED
  BY <1>1, <1>2 DEF Locks!Enter, InSpace

LEMMA ExecuteJumpCrosses ==
    ASSUME Registry, Position, NEW p \in Pilots, NEW s \in Systems, ExecuteJump(p, s)
    PROVE  Locks!Cross(p, s)
<1>1. p \in Entities /\ InSpace(p) /\ UNCHANGED lockVars
      /\ loc' = [loc EXCEPT ![p] = s]
  BY DEF Entities, ExecuteJump
<1>2. Locks!TargetsOf(p) = {}
  BY <1>1, TargetsAre DEF ExecuteJump, Position, JumpClean
<1>3. Relation' = Relation
  BY <1>1, SameRelation
<1> QED
  BY <1>1, <1>2, <1>3 DEF Locks!Cross, InSpace

\* DropAll, and where the ship is after it.
LEMMA DroppersBreak ==
    ASSUME Registry, Registry', PlaceTypeOK, NEW e \in Entities,
           \/ Warp(e) \/ Killed(e)
           \/ e \in Pilots /\ (StargateJump(e) \/ Dock(e) \/ Logout(e))
    PROVE  Locks!Break(e)
<1>1. InSpace(e) /\ DropAll(e)
  BY DEF Warp, Killed, StargateJump, Dock, Logout
<1>2. loc' = loc \/ loc' = [loc EXCEPT ![e] = NoSystem]
  BY DEF Warp, Killed, StargateJump, Dock, Logout
<1> QED
  BY <1>1, <1>2, DropsAll

LEMMA LocksStep ==
    ASSUME Registry, Registry', PlaceTypeOK, Position, Next
    PROVE  Step
<1> USE DEF Entities
<1> DEFINE Some ==
      \/ Locks!Complete
      \/ \E x, t \in Entities : Locks!Begin(x, t)
      \/ \E e \in Entities : Locks!Cancel(e) \/ Locks!Break(e)
      \/ \E e \in Entities, s \in Systems : Locks!Enter(e, s) \/ Locks!Cross(e, s)
<1>0. Some => Step
  BY DEF Step, Locks!Next
<1> HIDE DEF Some
<1>1. \A p \in Pilots, t \in Entities : AddTarget(p, t) => Step
  BY <1>0, AddTargetBegins DEF Some
<1>2. \A p \in Pilots, t \in Entities : RemoveTarget(p, t) => Step
  BY <1>0, ClearsOwn DEF Some, RemoveTarget
<1>3. \A p \in Pilots : ClearTargets(p) => Step
  BY <1>0, ClearsOwn DEF Some, ClearTargets
<1>4. \A p \in Pilots : StargateJump(p) => Step
  BY <1>0, DroppersBreak DEF Some
<1>5. \A p \in Pilots : Move(p) => Step
  BY Stutters DEF Move, lockVars
<1>6. \A p \in Pilots : CloakTimerFires(p) => Step
  BY Stutters DEF CloakTimerFires, lockVars
<1>7. \A p \in Pilots : Arrive(p) => Step
  BY Stutters DEF Arrive, lockVars
<1>8. \A p \in Pilots : StationTimer(p) => Step
  BY Stutters DEF StationTimer, lockVars
<1>9. \A p \in Pilots : Dock(p) => Step
  BY <1>0, DroppersBreak DEF Some
<1>10. \A p \in Pilots : Logout(p) => Step
  BY <1>0, DroppersBreak DEF Some
<1>11. \A p \in Pilots, s \in Systems : ExecuteJump(p, s) => Step
  BY <1>0, ExecuteJumpCrosses DEF Some
<1>12. \A p \in Pilots, s \in Systems : EnterSpace(p, s) => Step
  BY <1>0, EnterSteps DEF Some, EnterSpace
<1>13. \A n \in Npcs, p \in Pilots : NpcTarget(n, p) => Step
  BY <1>0, StartsOne DEF Some, NpcTarget
<1>14. \A n \in Npcs, p \in Pilots : NpcSwitchTarget(n, p) => Step
  BY <1>0, StartsOne DEF Some, NpcSwitchTarget
<1>15. \A n \in Npcs, p \in Pilots : NpcClearTarget(n, p) => Step
  BY <1>0, NpcClearTargetDrops DEF Some
<1>16. \A n \in Npcs : NpcSetIdle(n) => Step
  BY <1>0, ClearsAlone DEF Some, NpcSetIdle
<1>17. \A n \in Npcs, s \in Systems : SpawnNpc(n, s) => Step
  BY <1>0, EnterSteps DEF Some, SpawnNpc
<1>18. \A e \in Entities : Warp(e) => Step
  BY <1>0, DroppersBreak DEF Some
<1>19. \A e \in Entities : Killed(e) => Step
  BY <1>0, DroppersBreak DEF Some
<1>20. \A x, t \in Entities : TimerExpires(x, t) => Step
  BY <1>0, TimerSteps DEF Some, TimerExpires
<1>21. TargTic => Step
  BY <1>0, TimerSteps DEF Some, TargTic
<1> QED
  BY <1>1, <1>2, <1>3, <1>4, <1>5, <1>6, <1>7, <1>8, <1>9, <1>10, <1>11, <1>12,
     <1>13, <1>14, <1>15, <1>16, <1>17, <1>18, <1>19, <1>20, <1>21, NextCases

LEMMA LocksInit == Init => Locks!Init
<1> SUFFICES ASSUME Init PROVE Locks!Init
  OBVIOUS
<1>1. Relation = [x \in Entities |-> [t \in Entities |-> "none"]]
  BY DEF Init, Relation, LockOf
<1>2. loc = [e \in Entities |-> NoSystem]
  BY DEF Init
<1> QED
  BY <1>1, <1>2 DEF Locks!Init

\* Whatever the calls are and however they chain, both maps together are one
\* relation of locks, which changes only in the ways of TargetLocks.
THEOREM LocksImplemented == Spec => ImplementsTargetLocks
<1>1. Init => Locks!Init
  BY LocksInit
<1>2. IInv /\ IInv' /\ [Next]_vars => [Locks!Next]_(Locks!vars)
  <2> SUFFICES ASSUME IInv, IInv', [Next]_vars PROVE Step
    BY DEF Step
  <2>1. CASE Next
    BY <2>1, LocksStep DEF IInv, RegInv
  <2>2. CASE UNCHANGED vars
    BY <2>2, Stutters DEF vars, lockVars
  <2> QED
    BY <2>1, <2>2
<1> QED
  BY <1>1, <1>2, IInvInit, IInvStep, PTL DEF Spec, ImplementsTargetLocks, Locks!Spec
=============================================================================
