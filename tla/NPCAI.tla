------------------------------- MODULE NPCAI -------------------------------
(***************************************************************************)
(* The state machine of one combat NPC (npc/NPCAI.cpp): NPCAIMgr::m_state, *)
(* m_action and m_attackTarget, with the locks its TargetManager keeps.    *)
(*                                                                         *)
(* Target, CheckDistance, SetEngaged and SetChasing call one another as    *)
(* the last thing they do.  `call' is the one that runs; the server has    *)
(* one thread, so everything else waits until it returns.                  *)
(*                                                                         *)
(* `warp' is what DestinyManager knows of the NPC's warp: an NPC warps     *)
(* when its spawn does, whatever it is doing.                              *)
(*                                                                         *)
(* Wandering, repairs and the states that nothing sets (Following,         *)
(* Fleeing, Assisting, WarpFollow) are left out.  Random rolls are free    *)
(* choices, timers run out whenever.                                       *)
(***************************************************************************)
EXTENDS Naturals, FiniteSets

CONSTANTS Players,     \* ships the NPC meets
          NoPlayer,
          MaxLocked    \* m_maxLockedTargets

ASSUME NPCAssumption == NoPlayer \notin Players /\ MaxLocked \in Nat \ {0}

VARIABLES
    ai,      \* the fields of NPCAIMgr and of its TargetManager
    band,    \* how far each player is, by the NPC's ranges
    call,    \* the method that runs, with its argument
    warp     \* m_warpState, and whether the ball's mode is WARP

vars == <<ai, band, call, warp>>

Band == {"attack", "chase", "sight", "beyond"}

Maybe == Players \cup {NoPlayer}

\* "align": the mode is WARP and there is no warp state yet; "stuck": there is
\* one, in another mode, in which nothing carries the warp on.
Warp == {"none", "align", "warp", "stuck"}

State == {"Idle", "Delay", "Chasing", "Engaged", "WarpOut", "Passive", "Signaling"}

AI == [state : State,
       action : {"Idle", "Attack", "Passive"},
       attackTarget : Maybe,
       armed : BOOLEAN,                          \* m_attackSpeed is not 0
       chaseEnd : {"zero", "running", "over"},   \* m_chaseTimeEnd and the clock
       targets : SUBSET Players,                 \* m_targets
       targetedBy : SUBSET Players]              \* m_targetedBy

Returned == [op |-> "none", ent |-> NoPlayer]

Call == {Returned} \cup
        [op : {"Target", "CheckDistance", "SetEngaged", "SetChasing"}, ent : Players]

\* Mutant of CallTo: a null pointer is passed on.
CallToNull(f, p) == [op |-> f, ent |-> p]

\* A call with a null pointer returns at once.
CallTo(f, p) == IF p = NoPlayer THEN Returned ELSE [op |-> f, ent |-> p]

-----------------------------------------------------------------------------
(* Methods that run to their end.                                          *)

\* The test of m_action is an assignment, and Action::Idle is not zero: an
\* NPC in State::Idle returns here with the locks it has.
SetIdle(s) ==
    IF s.state = "Idle"
      THEN [s EXCEPT !.action = "Idle"]
      ELSE [state |-> "Idle", action |-> "Idle", attackTarget |-> NoPlayer,
            armed |-> FALSE, chaseEnd |-> "zero", targets |-> {}, targetedBy |-> {}]

\* Mutant of ClearTarget: m_attackTarget is left alone.
ClearTargetOnly(s, p) ==
    LET t == [s EXCEPT !.targets = @ \ {p}]
    IN  IF t.targets = {} THEN SetIdle(t) ELSE t

\* ClearTarget, and TargetLost, which comes down to it.
ClearTarget(s, p) ==
    LET t == [s EXCEPT !.targets = @ \ {p},
                       !.attackTarget = IF @ = p THEN NoPlayer ELSE @]
    IN  IF t.targets = {} THEN SetIdle(t) ELSE t

-----------------------------------------------------------------------------
(* DestinyManager.                                                         *)

IsWarping == warp \in {"warp", "stuck"}

\* GotoPoint, FollowBall and OrbitBall set a mode of their own: the end of an
\* alignment, while a warp state stays behind.  Stop, which they come down to
\* without a target, deletes it.
Moved ==
    CASE warp = "align" -> {"none"}
      [] warp = "warp"  -> {"stuck", "none"}
      [] OTHER          -> {warp}

Move == warp' \in Moved

\* SetIdle goes back to the home point if that is far.
MayMove == warp' \in {warp} \cup Moved

-----------------------------------------------------------------------------
(* The methods that call one another.                                      *)

Return == call' = Returned

CallNext(f, p) == call' = CallTo(f, p)

\* StartTargeting of TargetManager answers TRUE, FALSE, or FALSE and `chase'.
Target ==
    /\ call.op = "Target"
    /\ LET p == call.ent
           room == Cardinality(ai.targets) < MaxLocked
           far == band[p] = "beyond"
       IN  \/ /\ p \in ai.targets \/ ai.action = "Passive"
              /\ UNCHANGED <<ai, warp>>
              /\ Return
           \/ /\ p \notin ai.targets /\ ai.action # "Passive" /\ ~ room
              /\ ai' = SetIdle(ai)
              /\ MayMove
              /\ Return
           \/ /\ p \notin ai.targets /\ ai.action # "Passive" /\ room
              /\ ai' = [ai EXCEPT !.action = "Idle", !.chaseEnd = "zero",
                                  !.targets = IF far THEN @ ELSE @ \cup {p}]
              /\ CallNext("CheckDistance", p)
              /\ UNCHANGED warp
    /\ UNCHANGED band

CheckDistance ==
    /\ call.op = "CheckDistance"
    /\ LET p == call.ent IN
         \/ /\ \/ band[p] = "chase"
               \/ band[p] = "beyond" /\ p \in ai.targetedBy
            /\ CallNext("SetChasing", p)
            /\ UNCHANGED <<ai, warp>>
         \/ /\ band[p] = "attack"
            /\ CallNext("SetEngaged", p)
            /\ UNCHANGED <<ai, warp>>
         \/ /\ \/ band[p] = "sight"
               \/ band[p] = "beyond" /\ p \notin ai.targetedBy
            /\ ai' = SetIdle(ai)
            /\ MayMove
            /\ Return
    /\ UNCHANGED band

\* SetEngaged and SetChasing on a target that is not locked lock it first; on
\* the attack target they ask for no lock.
LockFirst(op) ==
    /\ call.op = op
    /\ ai.attackTarget # call.ent
    /\ call.ent \notin ai.targets
    /\ CallNext("Target", call.ent)
    /\ UNCHANGED <<ai, band, warp>>

\* Mutant of SetEngaged: the action is left as it is.
SetEngagedOnly ==
    /\ call.op = "SetEngaged"
    /\ call.ent \in {ai.attackTarget} \cup ai.targets
    /\ ai' = [ai EXCEPT !.state = "Engaged", !.attackTarget = call.ent]
    /\ Move
    /\ Return
    /\ UNCHANGED band

SetEngaged ==
    /\ call.op = "SetEngaged"
    /\ call.ent \in {ai.attackTarget} \cup ai.targets
    /\ IF ai.state = "Engaged" /\ ai.attackTarget = call.ent
         THEN UNCHANGED <<ai, warp>>
         ELSE /\ ai' = [ai EXCEPT !.state = "Engaged", !.action = "Attack",
                                  !.attackTarget = call.ent]
              /\ Move
    /\ Return
    /\ UNCHANGED band

\* Mutant of SetChasing: it does not matter whether the target is locked.
SetChasingUnlocked ==
    /\ call.op = "SetChasing"
    /\ ai' = [ai EXCEPT !.attackTarget = call.ent, !.state = "Chasing"]
    /\ Move
    /\ Return
    /\ UNCHANGED band

\* The state a chase starts in: an NPC that attacks keeps its state, one that
\* has waited is through with it, the others may roll a delay.
ChaseStates(action, end) ==
    IF action = "Attack" THEN {[state |-> ai.state, end |-> end]}
    ELSE IF end # "zero" THEN {[state |-> "Chasing", end |-> "zero"]}
    ELSE {[state |-> "Chasing", end |-> "zero"], [state |-> "Delay", end |-> "running"]}

SetChasing ==
    /\ call.op = "SetChasing"
    /\ call.ent \in {ai.attackTarget} \cup ai.targets
    /\ IF ai.state = "Chasing" /\ ai.attackTarget = call.ent /\ ai.chaseEnd = "zero"
         THEN UNCHANGED <<ai, warp>>
         ELSE LET end == IF ai.attackTarget = call.ent THEN ai.chaseEnd ELSE "zero"
                  near == band[call.ent] = "attack"
              IN  /\ \E c \in ChaseStates(ai.action, end) :
                       \E limit \in {"zero", "running"} :
                         ai' = [ai EXCEPT
                           !.attackTarget = call.ent,
                           !.state = c.state,
                           !.action = IF near THEN "Attack" ELSE @,
                           !.chaseEnd = IF c.end = "zero" /\ ~ near THEN limit ELSE c.end]
                  /\ Move
    /\ Return
    /\ UNCHANGED band

-----------------------------------------------------------------------------
(* The main loop: NPCAIMgr::Process.                                       *)

Rest == call = Returned

\* isValidTarget for a target that is neither cloaked nor warping; a target is
\* invalid, whatever it is, to an NPC in Action::Idle.
IsValidTarget(s) == s.action = "Attack" /\ s.attackTarget # NoPlayer

\* What the switch leaves of an idle NPC that finds no target: one that came
\* out of a warp as it went in is set right, one without weapons turns passive.
IdleTick(s) ==
    CASE s.action = "Attack"  -> {SetIdle(s)}
      [] s.action = "Passive" -> {[s EXCEPT !.state = "Passive"]}
      [] s.action = "Idle"    ->
            {s} \cup {t \in {[s EXCEPT !.state = "Passive", !.action = "Passive"]} : ~ s.armed}

\* m_beginFindTarget: a player in sight, neither cloaked nor warping.
FindTarget(s) ==
    /\ s.state = "Idle" /\ s.action = "Idle"
    /\ \E p \in Players :
         /\ band[p] # "beyond"
         /\ CallNext("Target", p)
    /\ ai' = s
    /\ MayMove

\* The states that fight with a target that is still good.
Attack(s) ==
    /\ s.state \in {"Engaged", "Chasing"}
    /\ IsValidTarget(s)
    /\ ~ (s.state = "Chasing" /\ s.chaseEnd = "over")
    /\ CallNext("CheckDistance", s.attackTarget)
    /\ ai' = s
    /\ UNCHANGED warp

\* One tick, m_retargetTimer first.  A target that is cloaked or warps is
\* given up whatever the rest.
Process ==
    /\ Rest /\ ~ IsWarping
    /\ \E retarget \in BOOLEAN :
         LET s == IF retarget THEN ClearTarget(ai, ai.attackTarget) ELSE ai IN
           \/ Attack(s)
           \/ FindTarget(s)
           \/ /\ \/ s.state = "Idle" /\ ai' \in IdleTick(s)
                 \/ s.state \in {"Engaged", "Chasing", "Signaling"} /\ ai' = SetIdle(s)
              /\ MayMove
              /\ Return
           \/ /\ s.state \in {"Delay", "WarpOut", "Passive"}
              /\ ai' = s
              /\ IF s.state = "Delay" /\ s.chaseEnd = "over"
                   THEN CallNext("SetChasing", s.attackTarget)
                   ELSE Return
              /\ UNCHANGED warp
    /\ UNCHANGED band

ChaseTimer ==
    /\ Rest
    /\ ai.chaseEnd = "running"
    /\ ai' = [ai EXCEPT !.chaseEnd = "over"]
    /\ UNCHANGED <<band, call, warp>>

-----------------------------------------------------------------------------
(* Warps.                                                                  *)

\* m_warpOutTimer, which SetIdle starts and a fight disables.  The spawn that
\* goes has the NPC in it, unless SpawnMgr has no entry for it.
WarpOut ==
    /\ Rest /\ ~ IsWarping
    /\ ai.state \in {"Idle", "Passive"}
    /\ ai' = [ai EXCEPT !.state = "WarpOut"]
    /\ warp' \in {warp, "align"}
    /\ UNCHANGED <<band, call>>

\* WarpOutSpawn for the timer of another NPC of the spawn, or the warp to the
\* belt after the spawn: WarpTo, and not a word to NPCAIMgr.
WarpTo ==
    /\ Rest
    /\ warp' = "align"
    /\ UNCHANGED <<ai, band, call>>

\* DestinyManager::InitWarp clears the locks and does not tell NPCAIMgr.
InitWarp ==
    /\ Rest
    /\ warp = "align"
    /\ warp' = "warp"
    /\ ai' = [ai EXCEPT !.targets = {}, !.targetedBy = {}]
    /\ UNCHANGED <<band, call>>

\* WarpStop: the state alone is reset.
WarpOutComplete ==
    /\ Rest
    /\ warp = "warp"
    /\ warp' = "none"
    /\ ai' = [ai EXCEPT !.state = "Idle"]
    /\ UNCHANGED <<band, call>>

\* Halt of a ball that has come to rest deletes the warp state.
Halt ==
    /\ Rest
    /\ warp = "stuck"
    /\ warp' = "none"
    /\ UNCHANGED <<ai, band, call>>

-----------------------------------------------------------------------------
(* What players do to the NPC.                                             *)

\* TargetManager::TargetedAdd and NPCAIMgr::Targeted.
Targeted(p) ==
    /\ Rest
    /\ p \notin ai.targetedBy
    /\ ai' = [ai EXCEPT !.targetedBy = @ \cup {p}]
    /\ IF ai.state = "Idle" THEN CallNext("Target", p) ELSE Return
    /\ UNCHANGED <<band, warp>>

TargetedByLost(p) ==
    /\ Rest
    /\ p \in ai.targetedBy
    /\ ai' = [ai EXCEPT !.targetedBy = @ \ {p}]
    /\ UNCHANGED <<band, call, warp>>

\* The player warps, docks, jumps, dies or logs out: ClearAllTargets of its
\* ship.
PlayerClears(p) ==
    /\ Rest
    /\ p \in ai.targets \cup ai.targetedBy
    /\ LET s == [ai EXCEPT !.targetedBy = @ \ {p}]
       IN  IF p \in ai.targets
             THEN ai' = ClearTarget(s, p) /\ MayMove
             ELSE ai' = s /\ UNCHANGED warp
    /\ UNCHANGED <<band, call>>

\* SetSignaling, which only a passive NPC comes to: a call for help, without a
\* lock on the ship it orbits.
SetSignaling(s, p) == [s EXCEPT !.state = "Signaling", !.attackTarget = p]

\* ReportDamage: a switch of targets, or what a passive NPC does, or the chase
\* timer that damage to the shield resets; damage from the target of a chase
\* is ignored.
ReportDamage(p) ==
    /\ Rest
    /\ ~ (ai.state = "Chasing" /\ ai.attackTarget = p)
    /\ \/ /\ p # ai.attackTarget
          /\ ai' = ClearTarget(ai, ai.attackTarget)
          /\ CallNext("Target", p)
          /\ MayMove
       \/ /\ \E end \in {"zero", ai.chaseEnd} :
               LET s == [ai EXCEPT !.chaseEnd = end]
               IN  IF ai.action = "Passive"
                     THEN ai' = SetSignaling(s, p) /\ MayMove
                     ELSE ai' = s /\ UNCHANGED warp
          /\ UNCHANGED call
    /\ UNCHANGED band

\* Ships fly; what the NPC itself flies is part of it.
Fly(p) ==
    /\ Rest
    /\ \E b \in Band \ {band[p]} : band' = [band EXCEPT ![p] = b]
    /\ UNCHANGED <<ai, call, warp>>

-----------------------------------------------------------------------------
Init ==
    /\ ai = [state |-> "Idle", action |-> "Idle", attackTarget |-> NoPlayer,
             armed |-> TRUE, chaseEnd |-> "zero", targets |-> {}, targetedBy |-> {}]
    /\ band \in [Players -> Band]
    /\ call = Returned
    /\ warp = "none"

Run ==
    \/ Target \/ CheckDistance \/ SetEngaged \/ SetChasing
    \/ LockFirst("SetEngaged") \/ LockFirst("SetChasing")

Warping == WarpOut \/ WarpTo \/ InitWarp \/ WarpOutComplete \/ Halt

Next ==
    \/ Run
    \/ Process \/ ChaseTimer
    \/ Warping
    \/ \E p \in Players :
         \/ Targeted(p) \/ TargetedByLost(p)
         \/ PlayerClears(p) \/ ReportDamage(p) \/ Fly(p)

Spec == Init /\ [][Next]_vars

\* The thread runs what it has called.
FairSpec == Spec /\ WF_vars(Run)

-----------------------------------------------------------------------------
(* Properties.                                                             *)

TypeOK == ai \in AI /\ band \in [Players -> Band] /\ call \in Call /\ warp \in Warp

WarpBegins == warp = "align" /\ warp' = "warp"

WarpEnds == warp = "warp" /\ warp' = "none"

Unlocked == ai.attackTarget # NoPlayer /\ ai.attackTarget \notin ai.targets

\* m_attackTarget is a raw pointer; while the NPC holds a lock on what it points
\* to, the ship cannot be deleted without NPCAIMgr::TargetLost clearing it.
\* Only the beginning of a warp takes the lock and leaves the pointer, and only
\* a call for help sets the pointer to a ship that is not locked.
AttackTargetLocked ==
    [][Unlocked' => \/ Unlocked /\ ai'.attackTarget = ai.attackTarget
                    \/ WarpBegins
                    \/ ai'.state = "Signaling"]_vars

\* The limit on the duration of a chase never ends one: it is only ever set
\* for an NPC in Action::Idle, whose chase isValidTarget ends before, or in
\* State::Engaged, where Process does not look at it.
ChaseLimitUnused ==
    Rest /\ ai.state = "Chasing" /\ ai.chaseEnd # "zero" => ai.action = "Idle"

AtEase == ai.state \in {"Idle", "WarpOut", "Passive"}

\* Whenever the thread is back in the main loop, an engaged NPC attacks, and
\* none that attacks is in a chase with a limit.  An NPC comes to rest with its
\* attack target or its attack still set only at the end of a warp, which
\* resets the state and nothing else.
StateMatchesAction ==
    /\ [](Rest /\ ai.state = "Engaged" => ai.action = "Attack")
    /\ []ChaseLimitUnused
    /\ [][AtEase' /\ ai'.attackTarget # NoPlayer =>
            (AtEase /\ ai'.attackTarget = ai.attackTarget) \/ WarpEnds]_vars
    /\ [][AtEase' /\ ai'.action = "Attack" =>
            (AtEase /\ ai.action = "Attack") \/ WarpEnds]_vars

\* An NPC that fights, or waits to, has somebody locked: only an idle one looks
\* for a target, so that one left without would not find its way back.  Many
\* methods end locks (ClearTarget, SetIdle), and three set these states; only a
\* warp takes the last lock of a fight and lets it go on, with nobody but the
\* ship it was about.
Fights == ai.state \in {"Engaged", "Chasing", "Delay"}

FightsSomebody ==
    [][Fights' /\ ai'.targets = {} =>
         \/ WarpBegins
         \/ ai.targets = {} /\ ai'.attackTarget = ai.attackTarget]_vars

\* To the others an NPC is what NpcLocks says, whichever of its methods call
\* one another on the way.  FightsSomebody follows.
Locks == INSTANCE NpcLocks WITH
           targets <- ai.targets, targetedBy <- ai.targetedBy,
           fights <- Fights, aim <- ai.attackTarget
ImplementsNpcLocks == Locks!Spec

\* "Target is outside sensor range but has telementry via taretlock": the NPC
\* chases it, that is, the call that begins the chase returns.
CallsReturn == call # Returned ~> call = Returned
=============================================================================
