---------------------------- MODULE NPCAI_proofs ----------------------------
(***************************************************************************)
(* What an NPC's state, action and attack target have to do with each      *)
(* other, whatever the number of players and of locks it may hold, and     *)
(* that its locks are those of NpcLocks.                                   *)
(***************************************************************************)
EXTENDS NPCAI, TLAPS

\* What holds of the fields, whichever method runs.
Sane(s) ==
    /\ s \in AI
    /\ s.action = "Passive" => s.state \in {"Idle", "WarpOut", "Passive", "Signaling"}
    /\ s.state = "Chasing" /\ s.chaseEnd # "zero" => s.action = "Idle"

\* Target has set the action to Idle, and a new target is on its way.
Switching(s, c) ==
    /\ c # Returned
    /\ c.ent # s.attackTarget
    /\ c.op = "Target" => c.ent \notin s.targets

\* What holds of the fields and of the method that runs.  A warp can leave the
\* attack target without a lock, but nothing then calls Target for it as long
\* as the NPC is engaged.
Fits(s, c) ==
    /\ c \in Call
    /\ s.state = "Engaged" /\ s.action = "Idle" => Switching(s, c)
    /\ c.op = "Target" /\ s.state = "Engaged" => c.ent # s.attackTarget
    /\ c.op \in {"CheckDistance", "SetEngaged", "SetChasing"} =>
          /\ c.ent = s.attackTarget \/ s.action = "Idle"
          /\ s.action # "Passive"

Inv == Sane(ai) /\ Fits(ai, call) /\ band \in [Players -> Band] /\ warp \in Warp

-----------------------------------------------------------------------------
(* What the methods that run to their end do, as relations of the fields   *)
(* before and after.                                                       *)

Fighting(s) == s.state \in {"Engaged", "Chasing", "Delay"}

Easy(s) == s.state \in {"Idle", "WarpOut", "Passive"}

\* The attack target keeps its lock, or is forgotten; an NPC comes to rest
\* without it and without an attack.
Locked(s, t) ==
    t.attackTarget # NoPlayer /\ t.attackTarget \notin t.targets =>
       t.attackTarget = s.attackTarget /\ s.attackTarget \notin s.targets

Rests(s, t) ==
    /\ Easy(t) /\ t.attackTarget # NoPlayer =>
          Easy(s) /\ t.attackTarget = s.attackTarget
    /\ Easy(t) /\ t.action = "Attack" => Easy(s) /\ s.action = "Attack"

Keeps(s, t) == Locked(s, t) /\ Rests(s, t)

\* All locks are given up, or one is lost, but not the last one of a fight.
GivenUp(t) ==
    /\ t.targets = {} /\ t.targetedBy = {} /\ t.attackTarget = NoPlayer
    /\ ~ Fighting(t)

Lost(s, t, p) ==
    /\ t.targets = s.targets \ {p} /\ t.targetedBy = s.targetedBy
    /\ t.attackTarget = IF s.attackTarget = p THEN NoPlayer ELSE s.attackTarget
    /\ Fighting(t) <=> Fighting(s)
    /\ Fighting(s) => t.targets # {}

Same(s, t) ==
    /\ t.targets = s.targets /\ t.targetedBy = s.targetedBy
    /\ t.attackTarget = s.attackTarget
    /\ Fighting(t) <=> Fighting(s)

LEMMA SetIdleDoes ==
  ASSUME NEW s, Sane(s)
  PROVE  LET t == SetIdle(s)
         IN  /\ Sane(t) /\ t.state = "Idle" /\ t.action = "Idle"
             /\ Keeps(s, t)
             /\ GivenUp(t) \/ (Same(s, t) /\ ~ Fighting(s))
<1>1. CASE s.state = "Idle"
  <2>1. SetIdle(s) = [s EXCEPT !.action = "Idle"]
    BY <1>1 DEF SetIdle
  <2> QED
    BY <1>1, <2>1 DEF Sane, Fighting, AI, Keeps, Locked, Rests, Easy, Same
<1>2. CASE s.state # "Idle"
  <2>1. SetIdle(s) = [state |-> "Idle", action |-> "Idle", attackTarget |-> NoPlayer,
                      armed |-> FALSE, chaseEnd |-> "zero", targets |-> {},
                      targetedBy |-> {}]
    BY <1>2 DEF SetIdle
  <2> DEFINE t == SetIdle(s)
  <2>2. t \in AI
    BY <2>1 DEF AI, State, Maybe
  <2>3. /\ t.state = "Idle" /\ t.action = "Idle" /\ t.attackTarget = NoPlayer
        /\ t.targets = {} /\ t.targetedBy = {}
    BY <2>1
  <2> HIDE DEF t
  <2> QED
    BY <2>2, <2>3 DEF t, Sane, Fighting, Keeps, Locked, Rests, Easy, GivenUp
<1> QED
  BY <1>1, <1>2

\* ClearTarget forgets the attack target with the lock on it.
LEMMA ClearTargetDoes ==
  ASSUME NEW s, Sane(s), NEW p \in Maybe
  PROVE  LET t == ClearTarget(s, p)
         IN  /\ Sane(t)
             /\ \/ t.state = "Idle" /\ t.action = "Idle"
                \/ t.state = s.state /\ t.action = s.action
             /\ t.attackTarget = NoPlayer \/ t.attackTarget # p
             /\ Keeps(s, t)
             /\ GivenUp(t) \/ Lost(s, t, p)
<1> DEFINE t == [s EXCEPT !.targets = @ \ {p},
                          !.attackTarget = IF @ = p THEN NoPlayer ELSE @]
<1>1. /\ t \in AI
      /\ t.state = s.state /\ t.action = s.action /\ t.chaseEnd = s.chaseEnd
      /\ t.targetedBy = s.targetedBy /\ t.targets = s.targets \ {p}
      /\ t.attackTarget = IF s.attackTarget = p THEN NoPlayer ELSE s.attackTarget
  BY DEF Sane, AI, Maybe
<1>2. ClearTarget(s, p) = IF t.targets = {} THEN SetIdle(t) ELSE t
  BY DEF ClearTarget
<1> HIDE DEF t
<1>3. Sane(t) /\ Keeps(s, t)
  BY <1>1 DEF Sane, Keeps, Locked, Rests, Easy
<1>4. CASE t.targets = {}
  <2>1. /\ Sane(SetIdle(t)) /\ SetIdle(t).state = "Idle" /\ SetIdle(t).action = "Idle"
        /\ Keeps(t, SetIdle(t))
        /\ GivenUp(SetIdle(t)) \/ (Same(t, SetIdle(t)) /\ ~ Fighting(t))
    BY <1>3, SetIdleDoes
  <2>2. Keeps(s, SetIdle(t))
    BY <1>3, <2>1 DEF Keeps, Locked, Rests
  <2> QED
    BY <1>1, <1>2, <1>4, <2>1, <2>2 DEF Lost, Same, GivenUp, Fighting
<1>5. CASE t.targets # {}
  BY <1>1, <1>2, <1>3, <1>5 DEF Lost, Fighting
<1> QED
  BY <1>4, <1>5

\* A tick of an NPC that is idle and stays so.
LEMMA IdleTickDoes ==
  ASSUME NEW s, Sane(s), s.state = "Idle", NEW t \in IdleTick(s)
  PROVE  /\ Sane(t) /\ t.state \in {"Idle", "Passive"}
         /\ Keeps(s, t) /\ Same(s, t)
<1>1. s.action \in {"Idle", "Attack", "Passive"}
  BY DEF Sane, AI
<1>2. CASE s.action = "Attack"
  <2>1. t = [s EXCEPT !.action = "Idle"]
    BY <1>2 DEF IdleTick, SetIdle
  <2> QED
    BY <2>1 DEF Sane, AI, Keeps, Locked, Rests, Easy, Same, Fighting
<1>3. CASE s.action # "Attack"
  <2>1. \/ t = s
        \/ t = [s EXCEPT !.state = "Passive"] /\ s.action = "Passive"
        \/ t = [s EXCEPT !.state = "Passive", !.action = "Passive"]
    BY <1>1, <1>3 DEF IdleTick
  <2> QED
    BY <1>3, <2>1 DEF Sane, AI, State, Keeps, Locked, Rests, Easy, Same, Fighting
<1> QED
  BY <1>2, <1>3

-----------------------------------------------------------------------------
(* The invariant, one method after the other.                              *)

\* A call to a player, or to nobody, is a call.
LEMMA CallType ==
  ASSUME NEW f \in {"Target", "CheckDistance", "SetEngaged", "SetChasing"},
         NEW p \in Maybe
  PROVE  /\ CallTo(f, p) \in Call
         /\ p # NoPlayer => CallTo(f, p) = [op |-> f, ent |-> p]
         /\ p = NoPlayer => CallTo(f, p) = Returned
         /\ p \in Players => CallTo(f, p) # Returned
  BY NPCAssumption DEF CallTo, Call, Maybe, Returned, NPCAssumption

\* A call that returns leaves no engaged NPC in Action::Idle behind.
LEMMA ReturnFits ==
  ASSUME NEW s, s.state = "Engaged" => s.action # "Idle"
  PROVE  Fits(s, Returned)
  BY DEF Fits, Call, Returned

\* The argument of a method that runs is a player.
LEMMA EntIsPlayer ==
  ASSUME call \in Call, call.op # "none" PROVE call.ent \in Players /\ call.ent \in Maybe
  BY DEF Call, Returned, Maybe

\* Where the NPC flies is one of the four values.
LEMMA WarpType ==
  ASSUME warp \in Warp PROVE (MayMove => warp' \in Warp) /\ (Move => warp' \in Warp)
  BY DEF Warp, MayMove, Move, Moved

LEMMA TargetInv == Inv /\ Target => Inv'
<1> SUFFICES ASSUME Inv, Target PROVE Sane(ai') /\ Fits(ai', call')
  BY WarpType DEF Inv, Target
<1> DEFINE p == call.ent
<1>1. Sane(ai) /\ Fits(ai, call) /\ call \in Call /\ call.op = "Target"
  BY DEF Inv, Fits, Target
<1>2. p \in Players /\ p \in Maybe /\ p # NoPlayer
  BY <1>1, EntIsPlayer, NPCAssumption DEF NPCAssumption
<1>3. CASE p \in ai.targets \/ ai.action = "Passive"
  <2>1. ai' = ai /\ call' = Returned
    BY <1>3 DEF Target, Return
  <2>2. ai.state = "Engaged" => ai.action # "Idle"
    BY <1>1, <1>3 DEF Fits, Switching
  <2> QED
    BY <1>1, <2>1, <2>2, ReturnFits
<1>4. CASE p \notin ai.targets /\ ai.action # "Passive" /\ ~ Cardinality(ai.targets) < MaxLocked
  <2>1. ai' = SetIdle(ai) /\ call' = Returned
    BY <1>4 DEF Target, Return
  <2> QED
    BY <1>1, <2>1, SetIdleDoes, ReturnFits
<1>5. CASE p \notin ai.targets /\ ai.action # "Passive" /\ Cardinality(ai.targets) < MaxLocked
  <2>1. PICK T \in {ai.targets, ai.targets \cup {p}} :
            ai' = [ai EXCEPT !.action = "Idle", !.chaseEnd = "zero", !.targets = T]
    BY <1>5 DEF Target
  <2>2. T \in SUBSET Players
    BY <1>1, <1>2, <2>1 DEF Sane, AI
  <2>3. Sane(ai') /\ ai'.action = "Idle" /\ ai'.attackTarget = ai.attackTarget
        /\ ai'.state = ai.state
    BY <1>1, <2>1, <2>2 DEF Sane, AI
  <2>4. call' = [op |-> "CheckDistance", ent |-> p] /\ call' \in Call /\ call' # Returned
    BY <1>2, <1>5, CallType DEF Target, CallNext
  <2>5. ai.state = "Engaged" => p # ai.attackTarget
    BY <1>1 DEF Fits
  <2> QED
    BY <2>3, <2>4, <2>5 DEF Fits, Switching
<1> QED
  BY <1>3, <1>4, <1>5

LEMMA CheckDistanceInv == Inv /\ CheckDistance => Inv'
<1> SUFFICES ASSUME Inv, CheckDistance PROVE Sane(ai') /\ Fits(ai', call')
  BY WarpType DEF Inv, CheckDistance
<1>1. Sane(ai) /\ Fits(ai, call) /\ call \in Call /\ call.op = "CheckDistance"
  BY DEF Inv, Fits, CheckDistance
<1>2. call.ent \in Players /\ call.ent \in Maybe /\ call.ent # NoPlayer
  BY <1>1, EntIsPlayer, NPCAssumption DEF NPCAssumption
<1>3. CASE ai' = SetIdle(ai) /\ call' = Returned
  BY <1>1, <1>3, SetIdleDoes, ReturnFits
<1>4. ASSUME NEW f \in {"SetEngaged", "SetChasing"},
             ai' = ai, call' = CallTo(f, call.ent)
      PROVE  Sane(ai') /\ Fits(ai', call')
  <2>1. call' = [op |-> f, ent |-> call.ent] /\ call' \in Call /\ call' # Returned
    BY <1>2, <1>4, CallType
  <2> QED
    BY <1>1, <1>4, <2>1 DEF Fits, Switching
<1> QED
  BY <1>3, <1>4 DEF CheckDistance, Return, CallNext

LEMMA LockFirstInv ==
  ASSUME NEW f \in {"SetEngaged", "SetChasing"} PROVE Inv /\ LockFirst(f) => Inv'
<1> SUFFICES ASSUME Inv, LockFirst(f) PROVE Sane(ai') /\ Fits(ai', call')
  BY DEF Inv, LockFirst
<1>1. Sane(ai) /\ Fits(ai, call) /\ call \in Call /\ call.op = f
  BY DEF Inv, Fits, LockFirst
<1>2. call.ent \in Players /\ call.ent \in Maybe /\ call.ent # NoPlayer
  BY <1>1, EntIsPlayer, NPCAssumption DEF NPCAssumption
<1>3. call' = [op |-> "Target", ent |-> call.ent] /\ call' \in Call /\ call' # Returned
  BY <1>2, CallType DEF LockFirst, CallNext
<1> QED
  BY <1>1, <1>3 DEF Fits, Switching, LockFirst

LEMMA SetEngagedInv == Inv /\ SetEngaged => Inv'
<1> SUFFICES ASSUME Inv, SetEngaged PROVE Sane(ai') /\ Fits(ai', call')
  BY WarpType DEF Inv, SetEngaged
<1>1. Sane(ai) /\ Fits(ai, call) /\ call \in Call /\ call.op = "SetEngaged"
  BY DEF Inv, Fits, SetEngaged
<1>2. call.ent \in Players /\ call' = Returned
  BY <1>1, EntIsPlayer DEF SetEngaged, Return
<1>3. CASE ai.state = "Engaged" /\ ai.attackTarget = call.ent
  BY <1>1, <1>2, <1>3, ReturnFits DEF SetEngaged, Fits, Switching
<1>4. CASE ~ (ai.state = "Engaged" /\ ai.attackTarget = call.ent)
  <2>1. ai' = [ai EXCEPT !.state = "Engaged", !.action = "Attack",
                         !.attackTarget = call.ent]
    BY <1>4 DEF SetEngaged
  <2>2. Sane(ai') /\ ai'.action = "Attack"
    BY <1>1, <1>2, <2>1 DEF Sane, AI, State, Maybe
  <2> QED
    BY <1>2, <2>2, ReturnFits
<1> QED
  BY <1>3, <1>4

\* A chase that begins: what it sets, and to what.
LEMMA SetChasingDoes ==
  ASSUME Inv, SetChasing,
         ~ (ai.state = "Chasing" /\ ai.attackTarget = call.ent /\ ai.chaseEnd = "zero")
  PROVE  /\ Sane(ai')
         /\ ai'.state = "Engaged" => ai'.action # "Idle"
         /\ ai'.attackTarget = call.ent
         /\ ai'.targets = ai.targets /\ ai'.targetedBy = ai.targetedBy
         /\ \/ ai'.state \in {"Chasing", "Delay"}
            \/ /\ ai'.state = ai.state /\ ai.action = "Attack"
               /\ ai.attackTarget = call.ent
<1> DEFINE end == IF ai.attackTarget = call.ent THEN ai.chaseEnd ELSE "zero"
           near == band[call.ent] = "attack"
           After(c, limit) ==
             [ai EXCEPT !.attackTarget = call.ent,
                        !.state = c.state,
                        !.action = IF near THEN "Attack" ELSE @,
                        !.chaseEnd = IF c.end = "zero" /\ ~ near THEN limit ELSE c.end]
<1>1. Sane(ai) /\ Fits(ai, call) /\ call \in Call /\ call.op = "SetChasing"
  BY DEF Inv, Fits, SetChasing
<1>2. call.ent \in Maybe
  BY <1>1, EntIsPlayer
<1>3. /\ call.ent = ai.attackTarget \/ ai.action = "Idle"
      /\ ai.action # "Passive"
  BY <1>1 DEF Fits
<1>4. PICK c \in ChaseStates(ai.action, end), limit \in {"zero", "running"} :
        ai' = After(c, limit)
  BY DEF SetChasing
<1>5. /\ ai \in AI
      /\ ai.state \in State
      /\ ai.action \in {"Idle", "Attack"}
      /\ end \in {"zero", "running", "over"}
  BY <1>1, <1>3 DEF Sane, AI
<1>6. /\ c.end \in {"zero", "running", "over"}
      /\ c.state \in State
      /\ ai.action = "Attack" => c.state = ai.state
      /\ ai.action = "Idle" => c.state \in {"Chasing", "Delay"}
      /\ ai.action = "Idle" /\ c.state = "Chasing" => c.end = "zero"
  BY <1>4, <1>5 DEF ChaseStates, State
<1>7. PICK action \in {"Idle", "Attack"} : action = IF near THEN "Attack" ELSE ai.action
  BY <1>5
<1>8. PICK chase \in {"zero", "running", "over"} :
        chase = IF c.end = "zero" /\ ~ near THEN limit ELSE c.end
  BY <1>4, <1>6
<1>9. ai' = [ai EXCEPT !.attackTarget = call.ent, !.state = c.state,
                       !.action = action, !.chaseEnd = chase]
  BY <1>4, <1>7, <1>8
<1> HIDE DEF end, near, After
<1>10. /\ ai' \in AI
       /\ ai'.attackTarget = call.ent
       /\ ai'.targets = ai.targets /\ ai'.targetedBy = ai.targetedBy
       /\ ai'.state = c.state /\ ai'.action = action /\ ai'.chaseEnd = chase
  BY <1>2, <1>5, <1>6, <1>9 DEF AI
<1>11. ai'.state = "Chasing" /\ ai'.chaseEnd # "zero" => ai'.action = "Idle"
  <2>1. CASE ai.action = "Idle"
    BY <1>6, <1>7, <1>8, <1>10, <2>1
  <2>2. CASE ai.action = "Attack" /\ ai.state = "Chasing"
    BY <1>1, <1>3, <2>2 DEF Sane
  <2>3. CASE ai.action = "Attack" /\ ai.state # "Chasing"
    BY <1>6, <1>10, <2>3
  <2> QED
    BY <1>5, <2>1, <2>2, <2>3
<1>12. Sane(ai')
  BY <1>7, <1>10, <1>11 DEF Sane
<1>13. ai'.state = "Engaged" => ai'.action # "Idle"
  BY <1>5, <1>6, <1>7, <1>10
<1> QED
  BY <1>3, <1>5, <1>6, <1>10, <1>12, <1>13

LEMMA SetChasingInv == Inv /\ SetChasing => Inv'
<1> SUFFICES ASSUME Inv, SetChasing PROVE Sane(ai') /\ Fits(ai', call')
  BY WarpType DEF Inv, SetChasing
<1>1. Sane(ai) /\ call' = Returned
  BY DEF Inv, SetChasing, Return
<1>2. CASE ai.state = "Chasing" /\ ai.attackTarget = call.ent /\ ai.chaseEnd = "zero"
  BY <1>1, <1>2, ReturnFits DEF SetChasing
<1>3. CASE ~ (ai.state = "Chasing" /\ ai.attackTarget = call.ent /\ ai.chaseEnd = "zero")
  BY <1>1, <1>3, SetChasingDoes, ReturnFits
<1> QED
  BY <1>2, <1>3

\* A step of the main loop starts with no method running, and so with no
\* engaged NPC in Action::Idle.
LEMMA AtRest ==
  ASSUME Inv, Rest
  PROVE  /\ Sane(ai) /\ call = Returned /\ Returned \in Call
         /\ ai.state = "Engaged" => ai.action # "Idle"
         /\ ai.attackTarget \in Maybe
  BY DEF Inv, Rest, Fits, Switching, Sane, AI, Call

\* What a tick starts from, and where its disjuncts lead.
LEMMA ProcessDoes ==
  ASSUME Inv, Process
  PROVE  \E s \in {ai, ClearTarget(ai, ai.attackTarget)} :
           \/ ai' = s /\ call' = Returned /\ s.state # "Engaged"
           \/ s.state = "Idle" /\ s.action = "Idle" /\ ai' = s
              /\ \E p \in Players : call' = CallTo("Target", p)
           \/ /\ s.state \in {"Engaged", "Chasing", "Delay"} /\ ai' = s
              /\ \/ s.action = "Attack" /\ call' = CallTo("CheckDistance", s.attackTarget)
                 \/ s.state = "Delay" /\ call' = CallTo("SetChasing", s.attackTarget)
           \/ s.state = "Idle" /\ ai' \in IdleTick(s) /\ call' = Returned
           \/ ai' = SetIdle(s) /\ call' = Returned
<1>1. PICK retarget \in BOOLEAN :
        LET s == IF retarget THEN ClearTarget(ai, ai.attackTarget) ELSE ai IN
           \/ Attack(s)
           \/ FindTarget(s)
           \/ /\ \/ s.state = "Idle" /\ ai' \in IdleTick(s)
                 \/ s.state \in {"Engaged", "Chasing", "Signaling"} /\ ai' = SetIdle(s)
              /\ MayMove
              /\ Return
           \/ /\ s.state \in {"Delay", "WarpOut", "Passive"}
              /\ ai' = s
              /\ IF s.state = "Delay" /\ s.chaseEnd = "over"
                   THEN CallNext("SetChasing", s.attackTarget)
                   ELSE Return
              /\ UNCHANGED warp
  BY DEF Process
<1> DEFINE s == IF retarget THEN ClearTarget(ai, ai.attackTarget) ELSE ai
<1>2. s \in {ai, ClearTarget(ai, ai.attackTarget)}
  OBVIOUS
<1> HIDE DEF s
<1>3. CASE Attack(s)
  BY <1>2, <1>3 DEF Attack, IsValidTarget, CallNext
<1>4. CASE FindTarget(s)
  BY <1>2, <1>4 DEF FindTarget, CallNext
<1>5. CASE /\ \/ s.state = "Idle" /\ ai' \in IdleTick(s)
              \/ s.state \in {"Engaged", "Chasing", "Signaling"} /\ ai' = SetIdle(s)
           /\ Return
  BY <1>2, <1>5 DEF Return
<1>6. CASE /\ s.state \in {"Delay", "WarpOut", "Passive"}
           /\ ai' = s
           /\ IF s.state = "Delay" /\ s.chaseEnd = "over"
                THEN CallNext("SetChasing", s.attackTarget)
                ELSE Return
  BY <1>2, <1>6 DEF Return, CallNext
<1> QED
  BY <1>1, <1>3, <1>4, <1>5, <1>6 DEF s

\* The calls that start from the main loop with a player they have found.
LEMMA TargetStarts ==
  ASSUME NEW s, NEW p \in Players, s.state = "Engaged" => s.action # "Idle",
         s.state = "Engaged" => p # s.attackTarget
  PROVE  Fits(s, CallTo("Target", p))
<1>1. CallTo("Target", p) = [op |-> "Target", ent |-> p] /\ CallTo("Target", p) \in Call
  BY CallType, NPCAssumption DEF NPCAssumption, Maybe
<1> QED
  BY <1>1 DEF Fits

LEMMA ProcessInv == Inv /\ Process => Inv'
<1> SUFFICES ASSUME Inv, Process PROVE Sane(ai') /\ Fits(ai', call')
  BY WarpType DEF Inv, Process, Attack, FindTarget
<1>1. Rest
  BY DEF Process
<1>2. PICK s \in {ai, ClearTarget(ai, ai.attackTarget)} :
           \/ ai' = s /\ call' = Returned /\ s.state # "Engaged"
           \/ s.state = "Idle" /\ s.action = "Idle" /\ ai' = s
              /\ \E p \in Players : call' = CallTo("Target", p)
           \/ /\ s.state \in {"Engaged", "Chasing", "Delay"} /\ ai' = s
              /\ \/ s.action = "Attack" /\ call' = CallTo("CheckDistance", s.attackTarget)
                 \/ s.state = "Delay" /\ call' = CallTo("SetChasing", s.attackTarget)
           \/ s.state = "Idle" /\ ai' \in IdleTick(s) /\ call' = Returned
           \/ ai' = SetIdle(s) /\ call' = Returned
  BY ProcessDoes
<1>3. Sane(s)
  BY <1>1, <1>2, AtRest, ClearTargetDoes
<1>4. s.state = "Engaged" => s.action # "Idle"
  BY <1>1, <1>2, AtRest, ClearTargetDoes
<1>5. s.attackTarget \in Maybe /\ (s.action = "Passive" => s.state # "Delay")
  BY <1>3 DEF Sane, AI
<1>6. CASE ai' = SetIdle(s) /\ call' = Returned
  BY <1>3, <1>6, SetIdleDoes, ReturnFits
<1>7. CASE ai' = s /\ call' = Returned
  BY <1>3, <1>4, <1>7, ReturnFits
<1>8. CASE s.state = "Idle" /\ ai' \in IdleTick(s) /\ call' = Returned
  BY <1>3, <1>8, IdleTickDoes, ReturnFits
<1>9. CASE s.state = "Idle" /\ ai' = s /\ \E p \in Players : call' = CallTo("Target", p)
  BY <1>3, <1>9, TargetStarts
<1>10. ASSUME NEW f \in {"CheckDistance", "SetChasing"}, s.action # "Passive",
              ai' = s, call' = CallTo(f, s.attackTarget)
       PROVE  Sane(ai') /\ Fits(ai', call')
  <2>1. CASE s.attackTarget = NoPlayer
    BY <1>3, <1>4, <1>5, <1>10, <2>1, CallType, ReturnFits
  <2>2. CASE s.attackTarget # NoPlayer
    <3>1. call' = [op |-> f, ent |-> s.attackTarget] /\ call' \in Call
      BY <1>5, <1>10, <2>2, CallType
    <3> QED
      BY <1>3, <1>4, <1>10, <3>1 DEF Fits
  <2> QED
    BY <2>1, <2>2
<1> QED
  BY <1>2, <1>5, <1>6, <1>7, <1>8, <1>9, <1>10

LEMMA PlayerInv ==
  ASSUME NEW p \in Players
  PROVE  /\ Inv /\ Targeted(p) => Inv'
         /\ Inv /\ TargetedByLost(p) => Inv'
         /\ Inv /\ PlayerClears(p) => Inv'
         /\ Inv /\ ReportDamage(p) => Inv'
         /\ Inv /\ Fly(p) => Inv'
<1> SUFFICES ASSUME Inv, Rest
             PROVE  /\ Targeted(p) => Inv'
                    /\ TargetedByLost(p) => Inv'
                    /\ PlayerClears(p) => Inv'
                    /\ ReportDamage(p) => Inv'
                    /\ Fly(p) => Inv'
  BY DEF Targeted, TargetedByLost, PlayerClears, ReportDamage, Fly
<1>1. /\ Sane(ai) /\ call = Returned /\ Returned \in Call
      /\ ai.state = "Engaged" => ai.action # "Idle"
      /\ ai.attackTarget \in Maybe
      /\ band \in [Players -> Band] /\ warp \in Warp
  BY AtRest DEF Inv
<1>2. p \in Maybe /\ p # NoPlayer
  BY NPCAssumption DEF Maybe, NPCAssumption
<1>3. ASSUME NEW B \in SUBSET Players
      PROVE  LET s == [ai EXCEPT !.targetedBy = B]
             IN  Sane(s) /\ s.state = ai.state /\ s.action = ai.action
  BY <1>1 DEF Sane, AI
<1>4. ai.targetedBy \cup {p} \in SUBSET Players /\ ai.targetedBy \ {p} \in SUBSET Players
  BY <1>1 DEF Sane, AI
<1>5. ASSUME Targeted(p) PROVE Inv'
  <2>1. Sane(ai') /\ ai'.state = ai.state /\ ai'.action = ai.action
    BY <1>1, <1>3, <1>4, <1>5 DEF Targeted
  <2>2. Fits(ai', Returned) /\ (ai.state = "Idle" => Fits(ai', CallTo("Target", p)))
    BY <1>1, <2>1, ReturnFits, TargetStarts
  <2> QED
    BY <1>1, <1>5, <2>1, <2>2 DEF Targeted, CallNext, Return, Inv
<1>6. ASSUME TargetedByLost(p) PROVE Inv'
  <2>1. Sane(ai') /\ (ai'.state = "Engaged" => ai'.action # "Idle")
    BY <1>1, <1>3, <1>4, <1>6 DEF TargetedByLost
  <2> QED
    BY <1>1, <1>6, <2>1, ReturnFits DEF TargetedByLost, Inv
<1>7. ASSUME PlayerClears(p) PROVE Inv'
  <2> DEFINE s == [ai EXCEPT !.targetedBy = @ \ {p}]
  <2>1. Sane(s) /\ s.state = ai.state /\ s.action = ai.action
    BY <1>1, <1>3, <1>4 DEF Sane, AI
  <2>2. LET t == ClearTarget(s, p)
        IN  Sane(t) /\ (\/ t.state = "Idle" /\ t.action = "Idle"
                        \/ t.state = s.state /\ t.action = s.action)
    BY <1>2, <2>1, ClearTargetDoes
  <2>3. ai' \in {s, ClearTarget(s, p)} /\ warp' \in Warp
    BY <1>1, <1>7, WarpType DEF PlayerClears
  <2>4. Sane(ai') /\ (ai'.state = "Engaged" => ai'.action # "Idle")
    BY <1>1, <2>1, <2>2, <2>3
  <2> QED
    BY <1>1, <1>7, <2>3, <2>4, ReturnFits DEF PlayerClears, Inv
<1>8. ASSUME ReportDamage(p) PROVE Inv'
  <2>1. warp' \in Warp
    BY <1>1, <1>8, WarpType DEF ReportDamage
  <2>2. CASE ai' = ClearTarget(ai, ai.attackTarget) /\ call' = CallTo("Target", p)
             /\ p # ai.attackTarget
    <3>1. /\ Sane(ai') /\ (ai'.state = "Engaged" => ai'.action # "Idle")
          /\ \/ GivenUp(ai') \/ Lost(ai, ai', ai.attackTarget)
      BY <1>1, <2>2, ClearTargetDoes
    <3>2. p # ai'.attackTarget
      BY <1>2, <2>2, <3>1 DEF GivenUp, Lost
    <3> QED
      BY <1>1, <1>8, <2>1, <2>2, <3>1, <3>2, TargetStarts DEF ReportDamage, Inv
  <2>3. ASSUME NEW end \in {"zero", ai.chaseEnd}, call' = call,
               LET s == [ai EXCEPT !.chaseEnd = end]
               IN  ai' = IF ai.action = "Passive" THEN SetSignaling(s, p) ELSE s
        PROVE  Inv'
    <3>1. Sane(ai') /\ (ai'.state = "Engaged" => ai'.action # "Idle")
      <4>1. end \in {"zero", "running", "over"}
        BY <1>1, <2>3 DEF Sane, AI
      <4>2. CASE ai.action = "Passive"
        <5>1. ai' = [ai EXCEPT !.chaseEnd = end, !.state = "Signaling", !.attackTarget = p]
          BY <1>1, <2>3, <4>2 DEF SetSignaling, Sane, AI
        <5> QED
          BY <1>1, <1>2, <4>1, <5>1 DEF Sane, AI, State
      <4>3. CASE ai.action # "Passive"
        <5>1. ai' = [ai EXCEPT !.chaseEnd = end]
          BY <2>3, <4>3
        <5> QED
          BY <1>1, <2>3, <4>1, <5>1 DEF Sane, AI, State
      <4> QED
        BY <4>2, <4>3
    <3> QED
      BY <1>1, <1>8, <2>1, <2>3, <3>1, ReturnFits DEF ReportDamage, Inv
  <2> QED
    BY <1>8, <2>2, <2>3 DEF ReportDamage, CallNext
<1>9. ASSUME Fly(p) PROVE Inv'
  <2>1. band' \in [Players -> Band] /\ ai' = ai /\ call' = call /\ warp' = warp
    BY <1>1, <1>9 DEF Fly
  <2> QED
    BY <2>1 DEF Inv
<1> QED
  BY <1>5, <1>6, <1>7, <1>8, <1>9

LEMMA WarpInv == Inv /\ (Warping \/ ChaseTimer) => Inv'
<1> SUFFICES ASSUME Inv, Rest, Warping \/ ChaseTimer PROVE Inv'
  BY DEF Warping, WarpOut, WarpTo, InitWarp, WarpOutComplete, Halt, ChaseTimer
<1>1. /\ Sane(ai) /\ call = Returned
      /\ ai.state = "Engaged" => ai.action # "Idle"
  BY AtRest
<1>2. Sane(ai') /\ (ai'.state = "Engaged" => ai'.action # "Idle")
  BY <1>1 DEF Sane, AI, State, Warping, WarpOut, WarpTo, InitWarp, WarpOutComplete,
              Halt, ChaseTimer
<1>3. warp' \in Warp
  BY DEF Inv, Warp, Warping, WarpOut, WarpTo, InitWarp, WarpOutComplete, Halt, ChaseTimer
<1>4. call' = call /\ band' = band
  BY DEF Warping, WarpOut, WarpTo, InitWarp, WarpOutComplete, Halt, ChaseTimer
<1> QED
  BY <1>1, <1>2, <1>3, <1>4, ReturnFits DEF Inv

\* Inv holds in every state.
LEMMA Invariant == Spec => []Inv
<1>1. Init => Inv
  BY DEF Init, Inv, Sane, Fits, AI, State, Call, Returned, Maybe, Warp
<1>2. Inv /\ [Next]_vars => Inv'
  <2> SUFFICES ASSUME Inv, [Next]_vars PROVE Inv'
    OBVIOUS
  <2>1. CASE Run
    BY <2>1, TargetInv, CheckDistanceInv, SetEngagedInv, SetChasingInv, LockFirstInv
       DEF Run
  <2>2. CASE Process
    BY <2>2, ProcessInv
  <2>3. CASE Warping \/ ChaseTimer
    BY <2>3, WarpInv
  <2>4. ASSUME NEW p \in Players,
               \/ Targeted(p) \/ TargetedByLost(p)
               \/ PlayerClears(p) \/ ReportDamage(p) \/ Fly(p)
        PROVE  Inv'
    BY <2>4, PlayerInv
  <2>5. CASE UNCHANGED vars
    BY <2>5 DEF vars, Inv
  <2> QED
    BY <2>1, <2>2, <2>3, <2>4, <2>5 DEF Next
<1> QED
  BY <1>1, <1>2, PTL DEF Spec

\* Every field has its type, the method that runs a player for its argument.
THEOREM TypeCorrect == Spec => []TypeOK
<1>1. Inv => TypeOK
  BY DEF Inv, Sane, Fits, TypeOK
<1> QED
  BY <1>1, Invariant, PTL

-----------------------------------------------------------------------------
(* What a step does.  A call that changes the locks gives all of them up or *)
(* loses one, and how the methods chain does not matter.                    *)

\* The steps of NpcLocks that are not the beginning of a warp.
Small ==
    \/ UNCHANGED (Locks!vars)
    \/ Locks!GiveUp \/ Locks!Arrive
    \/ \E p \in Players :
         \/ Locks!Lock(p) \/ Locks!Fight(p) \/ Locks!Signal(p) \/ Locks!Lose(p)
         \/ Locks!Targeted(p) \/ Locks!TargetedByLost(p)

Calm == Keeps(ai, ai') /\ Small

\* NpcLocks has the same Cardinality, by a name of its own.
LEMMA SameCardinality ==
  ASSUME NEW S PROVE Locks!Cardinality(S) = Cardinality(S)
  BY DEF Cardinality, Locks!Cardinality

LEMMA Stutters == ASSUME Same(ai, ai') PROVE Small
  BY DEF Same, Small, Locks!vars, Fights, Fighting

LEMMA Surrenders == ASSUME GivenUp(ai') PROVE Small
  BY DEF GivenUp, Small, Locks!GiveUp, Fights, Fighting

\* A lock is lost, with the lock of the same ship on the NPC or without.
LEMMA Loses ==
  ASSUME NEW p \in {ai.attackTarget} \cup ai.targets, Inv,
         NEW B \in {ai.targetedBy, ai.targetedBy \ {p}},
         Lost([ai EXCEPT !.targetedBy = B], ai', p),
         p = NoPlayer => B = ai.targetedBy
  PROVE  Small
<1>1. /\ ai \in AI
      /\ ai.targets \in SUBSET Players /\ ai.targetedBy \in SUBSET Players
      /\ ai.attackTarget \in Maybe
  BY DEF Inv, Sane, AI
<1>2. /\ ai'.targets = ai.targets \ {p}
      /\ ai'.targetedBy \in {ai.targetedBy, ai.targetedBy \ {p}}
      /\ p = NoPlayer => ai'.targetedBy = ai.targetedBy
      /\ ai'.attackTarget = IF ai.attackTarget = p THEN NoPlayer ELSE ai.attackTarget
      /\ Fighting(ai') <=> Fighting(ai)
      /\ Fighting(ai) => ai'.targets # {}
  BY <1>1 DEF Lost, Fighting, AI
<1>3. CASE p = NoPlayer
  <2>1. NoPlayer \notin ai.targets
    BY <1>1, NPCAssumption DEF NPCAssumption
  <2>2. Same(ai, ai')
    BY <1>2, <1>3, <2>1 DEF Same
  <2> QED
    BY <2>2, Stutters
<1>4. CASE p # NoPlayer
  <2>1. p \in Players
    BY <1>1, <1>4 DEF Maybe
  <2>2. Locks!Lose(p)
    BY <1>2 DEF Locks!Lose, Fights, Fighting
  <2> QED
    BY <2>1, <2>2 DEF Small
<1> QED
  BY <1>3, <1>4

LEMMA IdleStep == ASSUME Sane(ai), ai' = SetIdle(ai) PROVE Calm
<1>1. Keeps(ai, ai') /\ (GivenUp(ai') \/ Same(ai, ai'))
  BY SetIdleDoes
<1> QED
  BY <1>1, Surrenders, Stutters DEF Calm

LEMMA NoStep == ASSUME ai' = ai PROVE Calm
  BY Stutters DEF Calm, Keeps, Locked, Rests, Same

LEMMA TargetStep == ASSUME Inv, Target PROVE Calm
<1> DEFINE p == call.ent
<1>1. Sane(ai) /\ p \in Players
  BY EntIsPlayer DEF Inv, Fits, Target
<1>2. CASE ai' = ai
  BY <1>2, NoStep
<1>3. CASE ai' = SetIdle(ai)
  BY <1>1, <1>3, IdleStep
<1>4. ASSUME NEW T \in {ai.targets, ai.targets \cup {p}}, p \notin ai.targets,
             Cardinality(ai.targets) < MaxLocked,
             ai' = [ai EXCEPT !.action = "Idle", !.chaseEnd = "zero", !.targets = T]
      PROVE  Calm
  <2>1. /\ ai'.targets = T /\ ai'.targetedBy = ai.targetedBy /\ ai'.state = ai.state
        /\ ai'.attackTarget = ai.attackTarget /\ ai'.action = "Idle"
    BY <1>1, <1>4 DEF Sane, AI
  <2>2. Keeps(ai, ai')
    BY <1>4, <2>1 DEF Keeps, Locked, Rests, Easy
  <2>3. CASE T = ai.targets
    <3>1. Same(ai, ai')
      BY <2>1, <2>3 DEF Same, Fighting
    <3> QED
      BY <2>2, <3>1, Stutters DEF Calm
  <2>4. CASE T = ai.targets \cup {p}
    <3>1. Locks!Lock(p)
      BY <1>4, <2>1, <2>4, SameCardinality DEF Locks!Lock, Fights
    <3> QED
      BY <1>1, <2>2, <3>1 DEF Calm, Small
  <2> QED
    BY <2>3, <2>4
<1> QED
  BY <1>2, <1>3, <1>4 DEF Target

\* SetEngaged and SetChasing find their target locked, or it is the one they
\* are at already.
LEMMA FightStep == ASSUME Inv, SetEngaged \/ SetChasing PROVE Calm
<1>1. Sane(ai) /\ call.ent \in Players /\ call.ent \in {ai.attackTarget} \cup ai.targets
  BY EntIsPlayer DEF Inv, Fits, SetEngaged, SetChasing
<1>2. CASE ai' = ai
  BY <1>2, NoStep
<1>3. CASE ai' # ai
  <2>1. /\ ai'.attackTarget = call.ent
        /\ ai'.targets = ai.targets /\ ai'.targetedBy = ai.targetedBy
        /\ \/ ai'.state \in {"Engaged", "Chasing", "Delay"}
           \/ /\ ai'.state = ai.state /\ ai.action = "Attack"
              /\ ai.attackTarget = call.ent
    <3>1. CASE SetEngaged
      <4>1. ai' = [ai EXCEPT !.state = "Engaged", !.action = "Attack",
                             !.attackTarget = call.ent]
        BY <1>3, <3>1 DEF SetEngaged
      <4> QED
        BY <1>1, <4>1 DEF Sane, AI
    <3>2. CASE SetChasing
      <4>1. ~ (ai.state = "Chasing" /\ ai.attackTarget = call.ent /\ ai.chaseEnd = "zero")
        BY <1>3, <3>2 DEF SetChasing
      <4> QED
        BY <3>2, <4>1, SetChasingDoes
    <3> QED
      BY <3>1, <3>2
  <2>2. Keeps(ai, ai')
    BY <1>1, <2>1 DEF Keeps, Locked, Rests, Easy
  <2>3. CASE ai'.state \in {"Engaged", "Chasing", "Delay"}
    <3>1. Locks!Fight(call.ent)
      BY <1>1, <2>1, <2>3 DEF Locks!Fight, Fights
    <3> QED
      BY <1>1, <2>2, <3>1 DEF Calm, Small
  <2>4. CASE ai'.state = ai.state /\ ai.attackTarget = call.ent
    <3>1. Same(ai, ai')
      BY <2>1, <2>4 DEF Same, Fighting
    <3> QED
      BY <2>2, <3>1, Stutters DEF Calm
  <2> QED
    BY <2>1, <2>3, <2>4
<1> QED
  BY <1>2, <1>3

LEMMA RunStep == ASSUME Inv, Run PROVE Calm
<1>1. Sane(ai)
  BY DEF Inv
<1>2. CASE Target
  BY <1>2, TargetStep
<1>3. CASE CheckDistance
  BY <1>1, <1>3, IdleStep, NoStep DEF CheckDistance
<1>4. CASE LockFirst("SetEngaged") \/ LockFirst("SetChasing")
  BY <1>4, NoStep DEF LockFirst
<1>5. CASE SetEngaged \/ SetChasing
  BY <1>5, FightStep
<1> QED
  BY <1>2, <1>3, <1>4, <1>5 DEF Run

LEMMA ProcessStep == ASSUME Inv, Process PROVE Calm
<1>1. Sane(ai) /\ ai.attackTarget \in Maybe
  BY AtRest DEF Process
<1>2. PICK s \in {ai, ClearTarget(ai, ai.attackTarget)} :
        ai' = s \/ (s.state = "Idle" /\ ai' \in IdleTick(s)) \/ ai' = SetIdle(s)
  BY ProcessDoes
<1>3. /\ Sane(s) /\ Keeps(ai, s)
      /\ GivenUp(s) \/ Same(ai, s) \/ Lost(ai, s, ai.attackTarget)
  <2>1. CASE s = ai
    BY <1>1, <2>1 DEF Same, Keeps, Locked, Rests
  <2>2. CASE s = ClearTarget(ai, ai.attackTarget)
    BY <1>1, <2>2, ClearTargetDoes
  <2> QED
    BY <1>2, <2>1, <2>2
<1>4. Keeps(s, ai') /\ (GivenUp(ai') \/ Same(s, ai'))
  <2>1. CASE ai' = s
    BY <2>1 DEF Same, Keeps, Locked, Rests
  <2>2. CASE s.state = "Idle" /\ ai' \in IdleTick(s)
    BY <1>3, <2>2, IdleTickDoes
  <2>3. CASE ai' = SetIdle(s)
    BY <1>3, <2>3, SetIdleDoes
  <2> QED
    BY <1>2, <2>1, <2>2, <2>3
<1>5. Keeps(ai, ai')
  BY <1>3, <1>4 DEF Keeps, Locked, Rests
<1>6. GivenUp(ai') \/ Same(ai, ai') \/ Lost(ai, ai', ai.attackTarget)
  BY <1>3, <1>4 DEF GivenUp, Same, Lost
<1>7. CASE Lost(ai, ai', ai.attackTarget)
  <2>1. ai = [ai EXCEPT !.targetedBy = ai.targetedBy]
    BY <1>1 DEF Sane, AI
  <2>2. Small
    BY <1>7, <2>1, Loses
  <2> QED
    BY <1>5, <2>2 DEF Calm
<1> QED
  BY <1>5, <1>6, <1>7, Surrenders, Stutters DEF Calm

LEMMA PlayerStep ==
  ASSUME Inv, NEW p \in Players,
         \/ Targeted(p) \/ TargetedByLost(p)
         \/ PlayerClears(p) \/ ReportDamage(p) \/ Fly(p)
  PROVE  \/ Calm
         \/ Rests(ai, ai') /\ ai'.state = "Signaling" /\ Small
<1>1. /\ Sane(ai) /\ ai \in AI /\ ai.attackTarget \in Maybe
      /\ p \in Maybe /\ p # NoPlayer
  BY AtRest, NPCAssumption
     DEF Targeted, TargetedByLost, PlayerClears, ReportDamage, Fly, Maybe, Sane,
         NPCAssumption
<1>2. CASE Fly(p)
  BY <1>2, NoStep DEF Fly
<1>3. CASE Targeted(p) \/ TargetedByLost(p)
  <2>1. PICK B \in {ai.targetedBy \cup {p}, ai.targetedBy \ {p}} :
          ai' = [ai EXCEPT !.targetedBy = B]
    BY <1>3 DEF Targeted, TargetedByLost
  <2>2. /\ ai'.targets = ai.targets /\ ai'.targetedBy = B /\ ai'.state = ai.state
        /\ ai'.attackTarget = ai.attackTarget /\ ai'.action = ai.action
    BY <1>1, <2>1 DEF AI
  <2>3. Locks!Targeted(p) \/ Locks!TargetedByLost(p)
    BY <2>1, <2>2 DEF Locks!Targeted, Locks!TargetedByLost, Fights
  <2> QED
    BY <2>2, <2>3 DEF Calm, Small, Keeps, Locked, Rests, Easy
<1>4. CASE PlayerClears(p)
  <2> DEFINE s == [ai EXCEPT !.targetedBy = ai.targetedBy \ {p}]
  <2>1. /\ s \in AI /\ s.targets = ai.targets /\ s.targetedBy = ai.targetedBy \ {p}
        /\ s.state = ai.state /\ s.action = ai.action /\ s.chaseEnd = ai.chaseEnd
        /\ s.attackTarget = ai.attackTarget
    BY <1>1 DEF AI
  <2>2. Sane(s) /\ Keeps(ai, s)
    BY <1>1, <2>1 DEF Sane, Keeps, Locked, Rests, Easy
  <2>3. CASE p \in ai.targets
    <3>1. ai' = ClearTarget(s, p)
      BY <1>1, <1>4, <2>3 DEF PlayerClears
    <3>2. Keeps(s, ai') /\ (GivenUp(ai') \/ Lost(s, ai', p))
      BY <1>1, <2>2, <3>1, ClearTargetDoes
    <3>3. Keeps(ai, ai')
      BY <2>2, <3>2 DEF Keeps, Locked, Rests
    <3>4. Small
      BY <1>1, <2>3, <3>2, Surrenders, Loses
    <3> QED
      BY <3>3, <3>4 DEF Calm
  <2>4. CASE p \notin ai.targets
    <3>1. ai' = s
      BY <1>1, <1>4, <2>4 DEF PlayerClears
    <3>2. Locks!TargetedByLost(p)
      BY <2>1, <3>1 DEF Locks!TargetedByLost, Fights
    <3> QED
      BY <2>2, <3>1, <3>2 DEF Calm, Small
  <2> QED
    BY <2>3, <2>4
<1>5. CASE ReportDamage(p)
  <2>1. CASE ai' = ClearTarget(ai, ai.attackTarget)
    <3>1. Keeps(ai, ai') /\ (GivenUp(ai') \/ Lost(ai, ai', ai.attackTarget))
      BY <1>1, <2>1, ClearTargetDoes
    <3>2. ai = [ai EXCEPT !.targetedBy = ai.targetedBy]
      BY <1>1 DEF AI
    <3>3. Small
      BY <3>1, <3>2, Surrenders, Loses
    <3> QED
      BY <3>1, <3>3 DEF Calm
  <2>2. ASSUME NEW end,
               LET s == [ai EXCEPT !.chaseEnd = end]
               IN  ai' = IF ai.action = "Passive" THEN SetSignaling(s, p) ELSE s
        PROVE  \/ Calm
               \/ Rests(ai, ai') /\ ai'.state = "Signaling" /\ Small
    <3>1. CASE ai.action = "Passive"
      <4>1. ai' = [ai EXCEPT !.chaseEnd = end, !.state = "Signaling", !.attackTarget = p]
        BY <1>1, <2>2, <3>1 DEF SetSignaling, AI
      <4>2. /\ ai'.state = "Signaling" /\ ai'.attackTarget = p
            /\ ai'.targets = ai.targets /\ ai'.targetedBy = ai.targetedBy
        BY <1>1, <4>1 DEF AI
      <4>3. Locks!Signal(p)
        BY <4>2 DEF Locks!Signal, Fights
      <4> QED
        BY <4>2, <4>3 DEF Small, Rests, Easy
    <3>2. CASE ai.action # "Passive"
      <4>1. ai' = [ai EXCEPT !.chaseEnd = end]
        BY <2>2, <3>2
      <4>2. /\ ai'.targets = ai.targets /\ ai'.targetedBy = ai.targetedBy
            /\ ai'.attackTarget = ai.attackTarget
            /\ ai'.state = ai.state /\ ai'.action = ai.action
        BY <1>1, <4>1 DEF AI
      <4> QED
        BY <4>2, Stutters DEF Same, Fighting, Calm, Keeps, Locked, Rests, Easy
    <3> QED
      BY <3>1, <3>2
  <2> QED
    BY <1>5, <2>1, <2>2 DEF ReportDamage
<1> QED
  BY <1>2, <1>3, <1>4, <1>5

\* A warp begins without a word to NPCAIMgr, and its end resets the state alone.
LEMMA WarpStep ==
  ASSUME Inv, Warping \/ ChaseTimer
  PROVE  \/ Calm
         \/ Rests(ai, ai') /\ WarpBegins /\ Locks!Warp
         \/ Locked(ai, ai') /\ WarpEnds /\ Small
<1>1. ai \in AI
  BY DEF Inv, Sane
<1>2. CASE InitWarp
  <2>1. /\ ai'.targets = {} /\ ai'.targetedBy = {} /\ ai'.state = ai.state
        /\ ai'.attackTarget = ai.attackTarget /\ ai'.action = ai.action
    BY <1>1, <1>2 DEF InitWarp, AI
  <2> QED
    BY <1>2, <2>1 DEF InitWarp, WarpBegins, Rests, Easy, Locks!Warp, Fights
<1>3. CASE WarpOutComplete
  <2>1. /\ ai'.targets = ai.targets /\ ai'.targetedBy = ai.targetedBy
        /\ ai'.state = "Idle" /\ ai'.attackTarget = ai.attackTarget
    BY <1>1, <1>3 DEF WarpOutComplete, AI
  <2>2. Locks!Arrive
    BY <2>1 DEF Locks!Arrive, Fights
  <2> QED
    BY <1>3, <2>1, <2>2 DEF WarpOutComplete, WarpEnds, Locked, Small
<1>4. CASE WarpOut \/ ChaseTimer
  <2>1. /\ ai'.targets = ai.targets /\ ai'.targetedBy = ai.targetedBy
        /\ ai'.attackTarget = ai.attackTarget /\ ai'.action = ai.action
        /\ \/ ai'.state = ai.state
           \/ ai'.state = "WarpOut" /\ ai.state \in {"Idle", "Passive"}
    BY <1>1, <1>4 DEF WarpOut, ChaseTimer, AI
  <2>2. Same(ai, ai') /\ Keeps(ai, ai')
    BY <2>1 DEF Same, Fighting, Keeps, Locked, Rests, Easy
  <2> QED
    BY <2>2, Stutters DEF Calm
<1>5. CASE WarpTo \/ Halt
  BY <1>5, NoStep DEF WarpTo, Halt
<1> QED
  BY <1>2, <1>3, <1>4, <1>5 DEF Warping

LEMMA StepDoes ==
  ASSUME Inv, [Next]_vars
  PROVE  \/ Calm
         \/ Rests(ai, ai') /\ ai'.state = "Signaling" /\ Small
         \/ Rests(ai, ai') /\ WarpBegins /\ Locks!Warp
         \/ Locked(ai, ai') /\ WarpEnds /\ Small
<1>1. CASE UNCHANGED vars
  BY <1>1, NoStep DEF vars
<1>2. CASE Run \/ Process
  BY <1>2, RunStep, ProcessStep
<1>3. CASE Warping \/ ChaseTimer
  BY <1>3, WarpStep
<1>4. ASSUME NEW p \in Players,
             \/ Targeted(p) \/ TargetedByLost(p)
             \/ PlayerClears(p) \/ ReportDamage(p) \/ Fly(p)
      PROVE  \/ Calm
             \/ Rests(ai, ai') /\ ai'.state = "Signaling" /\ Small
  BY <1>4, PlayerStep
<1> QED
  BY <1>1, <1>2, <1>3, <1>4 DEF Next

-----------------------------------------------------------------------------
(* The properties.                                                         *)

\* m_attackTarget points to a ship that is not locked only since a warp has
\* begun under the NPC, or since it called for help against that ship.
THEOREM NoDanglingAttackTarget == Spec => AttackTargetLocked
<1>1. Inv /\ [Next]_vars =>
        [Unlocked' => \/ Unlocked /\ ai'.attackTarget = ai.attackTarget
                      \/ WarpBegins
                      \/ ai'.state = "Signaling"]_vars
  BY StepDoes DEF Calm, Keeps, Locked, Unlocked
<1> QED
  BY <1>1, Invariant, PTL DEF Spec, AttackTargetLocked

\* An engaged NPC attacks and no attack has a limit; only the end of a warp
\* brings an NPC to rest with a target or an attack left over.
THEOREM StatesAgree == Spec => StateMatchesAction
<1>1. Inv => (Rest /\ ai.state = "Engaged" => ai.action = "Attack")
  BY DEF Inv, Sane, AI, Fits, Switching, Rest
<1>2. Inv => ChaseLimitUnused
  BY DEF Inv, Sane, ChaseLimitUnused
<1>3. Inv /\ [Next]_vars =>
        [AtEase' /\ ai'.attackTarget # NoPlayer =>
            (AtEase /\ ai'.attackTarget = ai.attackTarget) \/ WarpEnds]_vars
  BY StepDoes DEF Calm, Keeps, Rests, Easy, AtEase
<1>4. Inv /\ [Next]_vars =>
        [AtEase' /\ ai'.action = "Attack" =>
            (AtEase /\ ai.action = "Attack") \/ WarpEnds]_vars
  BY StepDoes DEF Calm, Keeps, Rests, Easy, AtEase
<1> QED
  BY <1>1, <1>2, <1>3, <1>4, Invariant, PTL DEF Spec, StateMatchesAction

\* A step other than the beginning of a warp never takes the last lock of a
\* fight and lets it go on.
LEMMA SmallFights ==
  ASSUME Small, Fights', ai'.targets = {}
  PROVE  ai.targets = {} /\ ai'.attackTarget = ai.attackTarget
  BY DEF Small, Locks!vars, Locks!GiveUp, Locks!Arrive, Locks!Lock, Locks!Fight,
         Locks!Signal, Locks!Lose, Locks!Targeted, Locks!TargetedByLost

\* An NPC that engages, chases or waits to chase has somebody locked, unless a
\* warp took the locks while it fought the very ship it is at.
THEOREM FightersHaveTargets == Spec => FightsSomebody
<1>1. Inv /\ [Next]_vars =>
        [Fights' /\ ai'.targets = {} =>
           \/ WarpBegins
           \/ ai.targets = {} /\ ai'.attackTarget = ai.attackTarget]_vars
  BY StepDoes, SmallFights DEF Calm
<1> QED
  BY <1>1, Invariant, PTL DEF Spec, FightsSomebody

\* Whatever the NPC's methods call one another for, and whenever a warp takes
\* it away, its locks and its fight change in the ways of NpcLocks alone.
THEOREM NpcLocksImplemented == Spec => ImplementsNpcLocks
<1>1. Init => Locks!Init
  <2> SUFFICES ASSUME Init PROVE Locks!Init
    OBVIOUS
  <2>1. /\ ai.targets = {} /\ ai.targetedBy = {} /\ ai.state = "Idle"
        /\ ai.attackTarget = NoPlayer
    BY DEF Init
  <2> QED
    BY <2>1 DEF Locks!Init, Fights
<1>2. Inv /\ [Next]_vars => [Locks!Next]_(Locks!vars)
  BY StepDoes DEF Calm, Small, Locks!Next
<1> QED
  BY <1>1, <1>2, Invariant, PTL DEF Spec, ImplementsNpcLocks, Locks!Spec
=============================================================================
