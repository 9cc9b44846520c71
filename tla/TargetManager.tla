--------------------------- MODULE TargetManager ---------------------------
(***************************************************************************)
(* Target locks between ships and NPCs (system/TargetManager.cpp), with    *)
(* the calls of the rest of the server that start, finish and drop them:   *)
(* the Dogma requests of the client, the 2 Hz pass of EntityMgr, warping,  *)
(* docking, gate jumps, deaths, logouts, and the NPC AI's reactions.       *)
(*                                                                         *)
(* The server runs all of it on one thread, so an action is one call from  *)
(* the main loop with everything it calls.  Distances, skills, sensor      *)
(* strength and standings only decide WHETHER a call succeeds; they are    *)
(* left to the choice between an action and no action.  Lock times and     *)
(* client timers run out at any moment.                                    *)
(***************************************************************************)
EXTENDS Naturals, FiniteSets

CONSTANTS Pilots,      \* one ship (or pod) each, driven by a client
          Npcs,        \* ships driven by NPCAIMgr
          Systems,     \* solar systems
          NoSystem,    \* not in space: docked, dead or logged out
          MaxTargets   \* the lower of ship and character limits

ASSUME TargetAssumption ==
    /\ Pilots \cap Npcs = {}
    /\ NoSystem \notin Systems
    /\ MaxTargets \in Nat \ {0}

Entities == Pilots \cup Npcs

VARIABLES
    loc,         \* solar system of the entity's SystemEntity
    lock,        \* m_targets: lock[x][t] is x's TargetEntry for t
    targetedBy,  \* m_targetedBy: who has told t that it is targeting it
    targMgrs,    \* EntityMgr::m_targMgrs, the managers the 2 Hz pass visits
    canAttack,   \* m_canAttack
    npcIdle,     \* NPCAIMgr::m_state is State::Idle
    phase,       \* Client::m_clientState, as far as gate jumps go
    cloaked,     \* DestinyManager::m_cloaked
    cloakTimer,  \* Client::m_cloakTimer has been started and not disabled
    exposed      \* history: uncloaked, in a new pod, or locked by an NPC it
                 \* had fired on, between StargateJump and the ship's next
                 \* ClearAllTargets

lockVars == <<lock, targetedBy, targMgrs, canAttack>>
jumpVars == <<phase, cloaked, cloakTimer, exposed>>
vars == <<loc, lockVars, npcIdle, jumpVars>>

\* "expired" is Locking with a lock timer that has run out.
LockState == {"none", "locking", "expired", "locked"}

\* "Landed" is still State::Jump, after ExecuteJump and before SetBallPark.
Phase == {"Idle", "Jump", "Landed"}

Targets(x) == {t \in Entities : lock[x][t] # "none"}

InSpace(x) == loc[x] # NoSystem

-----------------------------------------------------------------------------
(* What the methods of TargetManager do to the two-sided relation.         *)

\* Mutants of StartTargeting: the entry is left in State::Passive; the manager
\* is not registered with EntityMgr.
StartTargetingPassive(pairs) ==
    /\ lock' = [x \in Entities |-> [t \in Entities |->
                  IF <<x, t>> \in pairs THEN "passive" ELSE lock[x][t]]]
    /\ targetedBy' = [t \in Entities |->
                  targetedBy[t] \cup {x \in Entities : <<x, t>> \in pairs}]
    /\ targMgrs' = targMgrs \cup {x \in Entities :
                                    \E t \in Entities : <<x, t>> \in pairs}
    /\ UNCHANGED canAttack

StartTargetingUnregistered(pairs) ==
    /\ lock' = [x \in Entities |-> [t \in Entities |->
                  IF <<x, t>> \in pairs THEN "locking" ELSE lock[x][t]]]
    /\ targetedBy' = [t \in Entities |->
                  targetedBy[t] \cup {x \in Entities : <<x, t>> \in pairs}]
    /\ UNCHANGED <<targMgrs, canAttack>>

\* StartTargeting for every <<x, t>> of pairs, TargetedAdd on t included.
StartTargeting(pairs) ==
    /\ lock' = [x \in Entities |-> [t \in Entities |->
                  IF <<x, t>> \in pairs THEN "locking" ELSE lock[x][t]]]
    /\ targetedBy' = [t \in Entities |->
                  targetedBy[t] \cup {x \in Entities : <<x, t>> \in pairs}]
    /\ targMgrs' = targMgrs \cup {x \in Entities :
                                    \E t \in Entities : <<x, t>> \in pairs}
    /\ UNCHANGED canAttack

\* Mutants of ClearTarget: the target is not told (TargetManager::RemoveTarget
\* in its place); the manager leaves the 2 Hz pass with targets still in it.
RemoveTargetQuietly(x, t) ==
    /\ lock' = [lock EXCEPT ![x][t] = "none"]
    /\ UNCHANGED targetedBy
    /\ targMgrs' = IF Targets(x) \subseteq {t} THEN targMgrs \ {x} ELSE targMgrs
    /\ canAttack' = [canAttack EXCEPT ![x] = @ /\ ~ Targets(x) \subseteq {t}]

ClearTargetUnregisters(x, t) ==
    /\ lock' = [lock EXCEPT ![x][t] = "none"]
    /\ targetedBy' = [targetedBy EXCEPT ![t] = @ \ {x}]
    /\ targMgrs' = targMgrs \ {x}
    /\ canAttack' = [canAttack EXCEPT ![x] = @ /\ ~ Targets(x) \subseteq {t}]

\* ClearTarget of x for t: tell t, then forget it.
ClearTarget(x, t) ==
    /\ lock' = [lock EXCEPT ![x][t] = "none"]
    /\ targetedBy' = [targetedBy EXCEPT ![t] = @ \ {x}]
    /\ targMgrs' = IF Targets(x) \subseteq {t} THEN targMgrs \ {x} ELSE targMgrs
    /\ canAttack' = [canAttack EXCEPT ![x] = @ /\ ~ Targets(x) \subseteq {t}]

\* ClearTargets of x: its own side only, the locks on x stay.
ClearOwnTargets(x) ==
    /\ lock' = [lock EXCEPT ![x] = [t \in Entities |-> "none"]]
    /\ targetedBy' = [t \in Entities |->
                  IF t \in Targets(x) THEN targetedBy[t] \ {x} ELSE targetedBy[t]]
    /\ targMgrs' = targMgrs \ {x}
    /\ canAttack' = [canAttack EXCEPT ![x] = FALSE]

\* x's last locks are lost when the members of C clear the locks on them.
LosesLast(x, C) ==
    /\ Targets(x) # {}
    /\ \A t \in Targets(x) : t \in C /\ x \in targetedBy[t]

\* ClearAllTargets of every member of C: ClearTargets, then ClearFromTargets,
\* which calls TargetLost on whoever was targeting it.
ClearAllTargets(C) ==
    /\ lock' = [x \in Entities |-> [t \in Entities |->
                  IF x \in C \/ (t \in C /\ x \in targetedBy[t])
                    THEN "none" ELSE lock[x][t]]]
    /\ targetedBy' = [t \in Entities |->
                  IF t \in C THEN {}
                  ELSE {x \in targetedBy[t] : ~ (x \in C /\ t \in Targets(x))}]
    /\ targMgrs' = {x \in targMgrs : x \notin C /\ ~ LosesLast(x, C)}
    /\ canAttack' = [x \in Entities |->
                       canAttack[x] /\ x \notin C /\ ~ LosesLast(x, C)]

\* Mutant of Cascade: an NPC gives up when it loses any of its targets.
CascadeAny(e) == {e} \cup {n \in Npcs : ~ npcIdle[n] /\ e \in Targets(n)}

\* An NPC told that its last target is lost goes idle, and SetIdle clears all
\* of ITS locks and the locks on it; SetIdle returns early when already idle.
\* NPCs target pilots only, so the chain of calls ends there.
Cascade(e) == {e} \cup {n \in Npcs : ~ npcIdle[n] /\ LosesLast(n, {e})}

\* All of e's locks and the locks on e go, with what the NPCs make of it.
DropAll(e) ==
    /\ ClearAllTargets(Cascade(e))
    /\ npcIdle' = [n \in Npcs |-> npcIdle[n] \/ n \in Cascade(e) \ {e}]

-----------------------------------------------------------------------------
(* Client requests (DogmaIMBound).                                         *)

\* What an NPC does inside TargetedAdd: nothing, engage the pilot back, or
\* take a lock and stay idle (CheckDistance between chase and sight range).
NpcReactions(p, t) ==
    IF t \in Npcs /\ npcIdle[t] /\ p \notin Targets(t)
         /\ Cardinality(Targets(t)) < MaxTargets
      THEN {"none", "engage", "stayIdle"}
      ELSE {"none"}

CanTarget(x, t) ==
    /\ x # t
    /\ InSpace(x)
    /\ loc[x] = loc[t]
    /\ t \notin Targets(x)
    /\ Cardinality(Targets(x)) < MaxTargets

\* Mutant of AddTarget: without the test that the target is cloaked.
AddTargetCloaked(p, t) ==
    /\ CanTarget(p, t)
    /\ phase[p] = "Idle"
    /\ ~ cloaked[p]
    /\ StartTargeting({<<p, t>>})
    /\ UNCHANGED <<loc, npcIdle, jumpVars>>

AddTarget(p, t) ==
    /\ CanTarget(p, t)
    /\ phase[p] = "Idle"
    /\ ~ cloaked[p]
    /\ t \in Pilots => ~ cloaked[t]
    /\ \E r \in NpcReactions(p, t) :
         /\ StartTargeting({<<p, t>>} \cup
                           IF r = "none" THEN {} ELSE {<<t, p>>})
         /\ npcIdle' = [n \in Npcs |->
                          npcIdle[n] /\ ~ (n = t /\ r = "engage")]
    /\ UNCHANGED <<loc, jumpVars>>

\* The target is looked up in the pilot's own system.
RemoveTarget(p, t) ==
    /\ InSpace(p)
    /\ loc[p] = loc[t]
    /\ t \in Targets(p)
    /\ ClearTarget(p, t)
    /\ UNCHANGED <<loc, npcIdle, jumpVars>>

ClearTargets(p) ==
    /\ InSpace(p)
    /\ Targets(p) # {}
    /\ ClearOwnTargets(p)
    /\ UNCHANGED <<loc, npcIdle, jumpVars>>

-----------------------------------------------------------------------------
(* The NPC AI.                                                             *)

\* An idle NPC that has found a pilot in range.
NpcTarget(n, p) ==
    /\ npcIdle[n]
    /\ CanTarget(n, p)
    /\ ~ cloaked[p]
    /\ StartTargeting({<<n, p>>})
    /\ \E engages \in BOOLEAN :
         npcIdle' = [npcIdle EXCEPT ![n] = ~ engages]
    /\ UNCHANGED <<loc, jumpVars>>

\* ReportDamage: an NPC that p's missile has hit turns to p, whatever it was
\* doing and even if p is under its jump cloak by now.  It drops its attack
\* target first: NpcClearTarget.
NpcSwitchTarget(n, p) ==
    /\ CanTarget(n, p)
    /\ StartTargeting({<<n, p>>})
    /\ \E engages \in BOOLEAN :
         npcIdle' = [npcIdle EXCEPT ![n] = @ /\ ~ engages]
    /\ exposed' = [exposed EXCEPT ![p] = @ \/ phase[p] = "Jump"]
    /\ UNCHANGED <<loc, phase, cloaked, cloakTimer>>

NpcSetIdle(n) ==
    /\ InSpace(n)
    /\ ~ npcIdle[n]
    /\ ClearAllTargets({n})
    /\ npcIdle' = [npcIdle EXCEPT ![n] = TRUE]
    /\ UNCHANGED <<loc, jumpVars>>

\* NPCAIMgr::ClearTarget: SetIdle follows when no target is left.
NpcClearTarget(n, p) ==
    /\ InSpace(n)
    /\ p \in Targets(n)
    /\ IF Targets(n) = {p} /\ ~ npcIdle[n]
         THEN /\ ClearAllTargets({n})
              /\ npcIdle' = [npcIdle EXCEPT ![n] = TRUE]
         ELSE /\ ClearTarget(n, p)
              /\ UNCHANGED npcIdle
    /\ UNCHANGED <<loc, jumpVars>>

-----------------------------------------------------------------------------
(* Lock timers and the 2 Hz pass of EntityMgr.                             *)

TimerExpires(x, t) ==
    /\ lock[x][t] = "locking"
    /\ lock' = [lock EXCEPT ![x][t] = "expired"]
    /\ UNCHANGED <<loc, targetedBy, targMgrs, canAttack, npcIdle, jumpVars>>

\* Process of every registered manager; those without targets are erased.
TargTic ==
    LET done(x) == {t \in Entities : x \in targMgrs /\ lock[x][t] = "expired"}
    IN  /\ \E x \in Entities : done(x) # {}
        /\ lock' = [x \in Entities |-> [t \in Entities |->
                      IF t \in done(x) THEN "locked" ELSE lock[x][t]]]
        /\ canAttack' = [x \in Entities |-> canAttack[x] \/ done(x) # {}]
        /\ targMgrs' = {x \in targMgrs : Targets(x) # {}}
        /\ UNCHANGED <<loc, targetedBy, npcIdle, jumpVars>>

-----------------------------------------------------------------------------
(* Moving about.                                                           *)

\* DestinyManager::InitWarp; BeginMovement has uncloaked the ship before.
Warp(e) ==
    /\ InSpace(e)
    /\ e \in Npcs => npcIdle[e]
    /\ e \in Pilots => ~ cloaked[e]
    /\ DropAll(e)
    /\ exposed' = [p \in Pilots |->
                     exposed[p] /\ (p = e => phase[p] = "Jump")]
    /\ UNCHANGED <<loc, phase, cloaked, cloakTimer>>

\* Mutant of StargateJump: with Jump(false), the cyno and wormhole form.
StargateJumpUncloaked(p) ==
    /\ InSpace(p)
    /\ phase[p] = "Idle"
    /\ DropAll(p)
    /\ phase' = [phase EXCEPT ![p] = "Jump"]
    /\ cloaked' = [cloaked EXCEPT ![p] = FALSE]
    /\ exposed' = [exposed EXCEPT ![p] = FALSE]
    /\ UNCHANGED <<loc, cloakTimer>>

\* Client::StargateJump, ShipSE::Jump and DestinyManager::Jump.
StargateJump(p) ==
    /\ InSpace(p)
    /\ phase[p] = "Idle"
    /\ DropAll(p)
    /\ phase' = [phase EXCEPT ![p] = "Jump"]
    /\ cloaked' = [cloaked EXCEPT ![p] = TRUE]
    /\ exposed' = [exposed EXCEPT ![p] = FALSE]
    /\ UNCHANGED <<loc, cloakTimer>>

\* Any movement command: DestinyManager::BeginMovement uncloaks the ship and
\* leaves the client's cloak timer alone.
Move(p) ==
    /\ InSpace(p)
    /\ cloaked[p]
    /\ cloaked' = [cloaked EXCEPT ![p] = FALSE]
    /\ exposed' = [exposed EXCEPT ![p] = @ \/ phase[p] = "Jump"]
    /\ UNCHANGED <<loc, lockVars, npcIdle, phase, cloakTimer>>

\* ProcessClient, cloak timer.
CloakTimerFires(p) ==
    /\ InSpace(p)
    /\ cloaked[p]
    /\ cloakTimer[p]
    /\ cloaked' = [cloaked EXCEPT ![p] = FALSE]
    /\ cloakTimer' = [cloakTimer EXCEPT ![p] = FALSE]
    /\ exposed' = [exposed EXCEPT ![p] = @ \/ phase[p] = "Jump"]
    /\ UNCHANGED <<loc, lockVars, npcIdle, phase>>

\* ProcessClient, state timer: the ship moves with the locks it has.
ExecuteJump(p, s) ==
    /\ InSpace(p)
    /\ phase[p] = "Jump"
    /\ s # loc[p]
    /\ loc' = [loc EXCEPT ![p] = s]
    /\ phase' = [phase EXCEPT ![p] = "Landed"]
    /\ UNCHANGED <<lockVars, npcIdle, cloaked, cloakTimer, exposed>>

\* Client::SetBallPark once the client has its ballpark.
Arrive(p) ==
    /\ InSpace(p)
    /\ phase[p] = "Landed"
    /\ phase' = [phase EXCEPT ![p] = "Idle"]
    /\ cloakTimer' = [cloakTimer EXCEPT ![p] = TRUE]
    /\ UNCHANGED <<loc, lockVars, npcIdle, cloaked, exposed>>

\* ProcessClient in a station, state timer of a jump that death cut short.
StationTimer(p) ==
    /\ ~ InSpace(p)
    /\ phase[p] = "Jump"
    /\ phase' = [phase EXCEPT ![p] = "Idle"]
    /\ UNCHANGED <<loc, lockVars, npcIdle, cloaked, cloakTimer, exposed>>

\* Mutant of Dock: ClearModules only, as in the destructor of ContainerSE.
DockKeepsLocks(p) ==
    /\ InSpace(p)
    /\ phase[p] # "Jump"
    /\ loc' = [loc EXCEPT ![p] = NoSystem]
    /\ phase' = [phase EXCEPT ![p] = "Idle"]
    /\ cloaked' = [cloaked EXCEPT ![p] = FALSE]
    /\ exposed' = [exposed EXCEPT ![p] = FALSE]
    /\ UNCHANGED <<lockVars, npcIdle, cloakTimer>>

\* Client::DockToStation; the ship's SystemEntity is deleted.
Dock(p) ==
    /\ InSpace(p)
    /\ phase[p] # "Jump"
    /\ DropAll(p)
    /\ loc' = [loc EXCEPT ![p] = NoSystem]
    /\ phase' = [phase EXCEPT ![p] = "Idle"]
    /\ cloaked' = [cloaked EXCEPT ![p] = FALSE]
    /\ exposed' = [exposed EXCEPT ![p] = FALSE]
    /\ UNCHANGED cloakTimer

-----------------------------------------------------------------------------
(* Coming and going.                                                       *)

\* SystemEntity::Killed.  A pilot goes on in a pod, a new SystemEntity that
\* is not cloaked, or wakes up in a station.
Killed(e) ==
    /\ InSpace(e)
    /\ DropAll(e)
    /\ \/ loc' = [loc EXCEPT ![e] = NoSystem]
       \/ e \in Pilots /\ UNCHANGED loc
    /\ cloaked' = [p \in Pilots |-> cloaked[p] /\ p # e]
    /\ exposed' = [p \in Pilots |->
                     IF p = e THEN phase[p] = "Jump" /\ loc'[p] # NoSystem
                     ELSE exposed[p]]
    /\ UNCHANGED <<phase, cloakTimer>>

\* ~Client: the ship is deleted with the client's timers.
Logout(p) ==
    /\ InSpace(p)
    /\ DropAll(p)
    /\ loc' = [loc EXCEPT ![p] = NoSystem]
    /\ phase' = [phase EXCEPT ![p] = "Idle"]
    /\ cloaked' = [cloaked EXCEPT ![p] = FALSE]
    /\ cloakTimer' = [cloakTimer EXCEPT ![p] = FALSE]
    /\ exposed' = [exposed EXCEPT ![p] = FALSE]

\* Undocking or logging in: a new SystemEntity without locks.
EnterSpace(p, s) ==
    /\ ~ InSpace(p)
    /\ phase[p] # "Jump"
    /\ loc' = [loc EXCEPT ![p] = s]
    /\ phase' = [phase EXCEPT ![p] = "Idle"]
    /\ UNCHANGED <<lockVars, npcIdle, cloaked, cloakTimer, exposed>>

SpawnNpc(n, s) ==
    /\ ~ InSpace(n)
    /\ loc' = [loc EXCEPT ![n] = s]
    /\ npcIdle' = [npcIdle EXCEPT ![n] = TRUE]
    /\ UNCHANGED <<lockVars, jumpVars>>

-----------------------------------------------------------------------------
Init ==
    /\ loc \in [Entities -> {NoSystem}]
    /\ lock = [x \in Entities |-> [t \in Entities |-> "none"]]
    /\ targetedBy = [t \in Entities |-> {}]
    /\ targMgrs = {}
    /\ canAttack = [x \in Entities |-> FALSE]
    /\ npcIdle = [n \in Npcs |-> TRUE]
    /\ phase = [p \in Pilots |-> "Idle"]
    /\ cloaked = [p \in Pilots |-> FALSE]
    /\ cloakTimer = [p \in Pilots |-> FALSE]
    /\ exposed = [p \in Pilots |-> FALSE]

PilotStep(p) ==
    \/ \E t \in Entities : AddTarget(p, t) \/ RemoveTarget(p, t)
    \/ ClearTargets(p)
    \/ StargateJump(p) \/ Move(p) \/ CloakTimerFires(p)
    \/ Arrive(p) \/ StationTimer(p) \/ Dock(p) \/ Logout(p)
    \/ \E s \in Systems : ExecuteJump(p, s) \/ EnterSpace(p, s)

NpcStep(n) ==
    \/ \E p \in Pilots :
         NpcTarget(n, p) \/ NpcSwitchTarget(n, p) \/ NpcClearTarget(n, p)
    \/ NpcSetIdle(n)
    \/ \E s \in Systems : SpawnNpc(n, s)

Next ==
    \/ \E p \in Pilots : PilotStep(p)
    \/ \E n \in Npcs : NpcStep(n)
    \/ \E e \in Entities : Warp(e) \/ Killed(e)
    \/ \E x, t \in Entities : TimerExpires(x, t)
    \/ TargTic

Spec == Init /\ [][Next]_vars

\* Time passes and the main loop runs the 2 Hz pass for ever.
Fairness ==
    /\ WF_vars(TargTic)
    /\ \A x, t \in Entities : WF_vars(TimerExpires(x, t))

FairSpec == Spec /\ Fairness

-----------------------------------------------------------------------------
(* Properties.                                                             *)

TypeOK ==
    /\ loc \in [Entities -> Systems \cup {NoSystem}]
    /\ lock \in [Entities -> [Entities -> LockState]]
    /\ targetedBy \in [Entities -> SUBSET Entities]
    /\ targMgrs \in SUBSET Entities
    /\ canAttack \in [Entities -> BOOLEAN]
    /\ npcIdle \in [Npcs -> BOOLEAN]
    /\ phase \in [Pilots -> Phase]
    /\ cloaked \in [Pilots -> BOOLEAN]
    /\ cloakTimer \in [Pilots -> BOOLEAN]
    /\ exposed \in [Pilots -> BOOLEAN]

\* The two maps of raw pointers agree: x has a TargetEntry for t exactly when
\* t has a TargetedByEntry for x, so that whichever of the two goes away first
\* finds the other and no map keeps a pointer to a deleted entity.
Symmetric ==
    \A x, t \in Entities : (t \in Targets(x)) <=> (x \in targetedBy[t])

\* No lock has an end that has left space: its SystemEntity is deleted.
LockedAlive ==
    \A x \in Entities : \A t \in Targets(x) : InSpace(x) /\ InSpace(t)

\* The 2 Hz pass visits exactly the managers that have something to process.
Registered == \A x \in Entities : (x \in targMgrs) <=> (Targets(x) # {})

\* Locks do not span solar systems, except on a ship that was exposed between
\* StargateJump and ExecuteJump: ExecuteJump takes no lock off it.
SameSystem ==
    \A x \in Entities : \A t \in Targets(x) :
        loc[x] = loc[t] \/ (t \in Pilots /\ exposed[t])

\* A ship waiting for its gate jump has no targets and, unless it lost the
\* jump cloak or an NPC it fired on has turned to it, is nobody's target: the
\* cloak is all that protects it.
JumpClean ==
    \A p \in Pilots : phase[p] = "Jump" =>
        /\ Targets(p) = {}
        /\ exposed[p] \/ (targetedBy[p] = {} /\ (InSpace(p) => cloaked[p]))

\* One relation of locks: every call changes the maps of both ends together,
\* breaks the locks of nobody who is not concerned, however the calls of
\* TargetLost, SetIdle and ClearAllTargets chain, and completes only what was
\* begun.  A lock counts when the target has been told of it.
LockOf(x, t) ==
    IF x \notin targetedBy[t] THEN "none"
    ELSE IF lock[x][t] = "locked" THEN "done" ELSE "begun"
Relation == [x \in Entities |-> [t \in Entities |-> LockOf(x, t)]]
Locks == INSTANCE TargetLocks WITH place <- loc, locks <- Relation
ImplementsTargetLocks == Locks!Spec

\* A lock that was started ends: it completes or it is dropped.
LockCompletes ==
    \A x, t \in Entities :
        (lock[x][t] \in {"locking", "expired"}) ~> (lock[x][t] \in {"none", "locked"})
=============================================================================
