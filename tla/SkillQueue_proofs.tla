-------------------------- MODULE SkillQueue_proofs --------------------------
(***************************************************************************)
(* Proofs about SkillQueue.  Every part of a handler takes a good          *)
(* character (well typed, what trains is the front of the queue, levels    *)
(* have their points) to a good one; there is one lemma for each part, and *)
(* then one for each action.  The last section proves that levels are      *)
(* earned, with TimedInv: an entry that trains and has no end has its      *)
(* points.                                                                 *)
(***************************************************************************)
EXTENDS SkillQueue, TLAPS

HasPoints(c) ==
    \A s \in Skills : c.level[s] > 0 => c.points[s] >= Points[c.level[s]]

FrontTrains(c) ==
    c.inTraining # NoSkill =>
      c.queue # <<>> /\ Head(c.queue).skill = c.inTraining

Good(c) == c \in Character /\ FrontTrains(c) /\ HasPoints(c)

\* What a handler in progress has established.
HandlerOK ==
    /\ pc = "insert" => char.queue # <<>> /\ skillTimer = Head(char.queue).end
    /\ pc = "retime" => char.queue # <<>> /\ at >= 1

Inv == /\ TypeOK
       /\ QueueSaved
       /\ TimerArmed
       /\ TrainingIsFront
       /\ LevelHasPoints
       /\ HandlerOK

-----------------------------------------------------------------------------
(* Arithmetic and sequences.                                               *)

LEMMA PointsType ==
    /\ \A l \in Levels : Points[l] \in Nat /\ Points[l] > 0
    /\ \A l \in 1..MaxLevel : l \in Levels /\ l - 1 \in Levels
                              /\ Points[l - 1] < Points[l]
  BY SkillAssumption DEF SkillAssumption, Levels

LEMMA MaxLevelType == MaxLevel \in Nat /\ MaxLevel >= 1
  BY SkillAssumption DEF SkillAssumption

LEMMA EmptyQueue == <<>> \in Seq(Entry)
  OBVIOUS

LEMMA DivNat ==
    ASSUME NEW a \in Nat, NEW b \in Nat \ {0}
    PROVE  a \div b \in Nat
  OBVIOUS

LEMMA ProductNat ==
    ASSUME NEW a \in Nat, NEW b \in Nat
    PROVE  a * b \in Nat
  OBVIOUS

LEMMA EndTimeType ==
    ASSUME NEW a \in Nat, NEW b \in Nat, NEW start \in Nat
    PROVE  EndTime(a, b, start) \in Nat
<1>1. CASE a >= b
  BY <1>1 DEF EndTime
<1>2. CASE ~ (a >= b)
  <2>1. b - a \in Nat
    BY <1>2
  <2>2. (b - a) \div SPPerMin \in Nat
    BY <2>1, DivNat, SkillAssumption DEF SkillAssumption
  <2>3. ((b - a) \div SPPerMin) * Minute \in Nat
    BY <2>2, ProductNat, SkillAssumption DEF SkillAssumption
  <2> QED
    BY <1>2, <2>3 DEF EndTime
<1> QED
  BY <1>1, <1>2

LEMMA EntryParts ==
    ASSUME NEW q \in Seq(Entry), q # <<>>
    PROVE  /\ Head(q) \in Entry
           /\ Tail(q) \in Seq(Entry)
           /\ Len(q) \in Nat /\ Len(q) > 0
           /\ Head(q) = q[1]
           /\ \A i \in 1..Len(q) : q[i] \in Entry
  OBVIOUS

LEMMA CurrentSP ==
    ASSUME NEW c \in Character, NEW s \in Skills, NEW start \in Nat, now \in Nat
    PROVE  /\ GetCurrentSP(c, s, start) \in Nat
           /\ GetCurrentSP(c, s, start) >= c.points[s]
<1>1. c.points[s] \in Nat
  BY DEF Character
<1>2. CASE s \in c.flagged /\ start # 0 /\ start <= now
  <2>1. now - start \in Nat
    BY <1>2
  <2>2. (now - start) \div Minute \in Nat
    BY <2>1, DivNat, SkillAssumption DEF SkillAssumption
  <2>3. ((now - start) \div Minute) * SPPerMin \in Nat
    BY <2>2, ProductNat, SkillAssumption DEF SkillAssumption
  <2> QED
    BY <1>1, <1>2, <2>3 DEF GetCurrentSP
<1>3. CASE ~ (s \in c.flagged /\ start # 0 /\ start <= now)
  BY <1>1, <1>3 DEF GetCurrentSP
<1> QED
  BY <1>2, <1>3

LEMMA NextLevelType ==
    ASSUME NEW c \in Character, NEW s \in Skills
    PROVE  NextLevel(c, s) \in 1..MaxLevel
<1>1. c.level[s] \in 0..MaxLevel
  BY DEF Character, Levels
<1> QED
  BY <1>1, SkillAssumption DEF NextLevel, SkillAssumption

-----------------------------------------------------------------------------
(* The parts of the handlers keep a character good.                        *)

LEMMA StoppedGood ==
    ASSUME NEW c \in Character, HasPoints(c), c.inTraining \in Skills,
           NEW lvl \in Levels, NEW sp \in Nat, NEW q \in Seq(Entry),
           lvl > 0 => sp >= Points[lvl]
    PROVE  Good(Stopped(c, lvl, sp, q)) /\ Stopped(c, lvl, sp, q).queue = q
           /\ Stopped(c, lvl, sp, q).inTraining = NoSkill
<1> DEFINE d == Stopped(c, lvl, sp, q)
<1>1. /\ d.queue = q
      /\ d.inTraining = NoSkill
      /\ d.level = [c.level EXCEPT ![c.inTraining] = lvl]
      /\ d.points = [c.points EXCEPT ![c.inTraining] = sp]
      /\ d.flagged = c.flagged \ {c.inTraining}
  BY DEF Stopped, Character
<1>2. d \in Character
  BY DEF Stopped, Character
<1>3. FrontTrains(d)
  BY <1>1 DEF FrontTrains
<1>4. HasPoints(d)
  BY <1>1 DEF HasPoints, Character
<1> QED
  BY <1>1, <1>2, <1>3, <1>4 DEF Good

LEMMA CancelGood ==
    ASSUME NEW c, Good(c), now \in Nat
    PROVE  /\ Good(CancelSkillInTraining(c))
           /\ c.inTraining = NoSkill => CancelSkillInTraining(c) = c
           /\ CancelSkillInTraining(c).inTraining = NoSkill
<1> DEFINE s == c.inTraining
           front == Head(c.queue)
           next == NextLevel(c, s)
           sp == GetCurrentSP(c, s, front.start)
<1>1. CASE s = NoSkill
  BY <1>1 DEF CancelSkillInTraining
<1>2. CASE s # NoSkill
  <2>1. /\ c \in Character /\ HasPoints(c)
        /\ s \in Skills
        /\ c.queue \in Seq(Entry) /\ c.queue # <<>>
        /\ front.skill = s
    BY <1>2 DEF Good, FrontTrains, Character
  <2>2. front \in Entry /\ Tail(c.queue) \in Seq(Entry)
    BY <2>1, EntryParts
  <2>3. sp \in Nat /\ sp >= c.points[s]
    BY <2>1, <2>2, CurrentSP DEF Entry
  <2>4. next \in Levels /\ Points[next] \in Nat
    BY <2>1, NextLevelType, PointsType
  <2>5. c.level[s] \in Levels /\ c.points[s] \in Nat
    BY <2>1 DEF Character
  <2>6. c.level[s] > 0 => sp >= Points[c.level[s]]
    BY <2>1, <2>3, <2>5, PointsType DEF HasPoints
  <2>7. CancelSkillInTraining(c) \in
          {Stopped(c, next, Points[next], Tail(c.queue)),
           Stopped(c, c.level[s], sp, Tail(c.queue))}
    BY <1>2, <2>1 DEF CancelSkillInTraining
  <2>8. Good(Stopped(c, next, Points[next], Tail(c.queue)))
        /\ Stopped(c, next, Points[next], Tail(c.queue)).inTraining = NoSkill
    <3> HIDE DEF next
    <3>1. next > 0 => Points[next] >= Points[next]
      BY <2>4
    <3> QED
      BY <2>1, <2>2, <2>4, <3>1, StoppedGood
  <2>9. Good(Stopped(c, c.level[s], sp, Tail(c.queue)))
        /\ Stopped(c, c.level[s], sp, Tail(c.queue)).inTraining = NoSkill
    BY <2>1, <2>2, <2>3, <2>5, <2>6, StoppedGood
  <2> QED
    BY <1>2, <2>7, <2>8, <2>9
<1> QED
  BY <1>1, <1>2

LEMMA ClearGood ==
    ASSUME NEW c, Good(c), now \in Nat
    PROVE  Good(ClearSkillQueue(c)) /\ ClearSkillQueue(c).queue = <<>>
<1> PICK d : d = CancelSkillInTraining(c)
  OBVIOUS
<1>1. d \in Character /\ HasPoints(d) /\ d.inTraining = NoSkill
  BY CancelGood DEF Good
<1>2. ClearSkillQueue(c) = [d EXCEPT !.queue = <<>>]
  BY DEF ClearSkillQueue
<1> PICK e : e = [d EXCEPT !.queue = <<>>]
  OBVIOUS
<1>3. e \in Character
  BY <1>1, EmptyQueue DEF Character
<1>4. e.queue = <<>> /\ e.inTraining = NoSkill /\ e.level = d.level /\ e.points = d.points
  BY <1>1 DEF Character
<1> QED
  BY <1>1, <1>2, <1>3, <1>4 DEF Good, FrontTrains, HasPoints

LEMMA AddGood ==
    ASSUME NEW c, Good(c), NEW r \in Request, now \in Nat
    PROVE  Good(AddToSkillQueue(c, r))
<1> DEFINE s == r.skill
           sp == IF r.lvl > NextLevel(c, s) THEN Points[r.lvl - 1] ELSE c.points[s]
           E(start) == [skill |-> s, lvl |-> r.lvl, start |-> start,
                        end |-> EndTime(sp, Points[r.lvl], start)]
<1>1. c \in Character /\ c.queue \in Seq(Entry)
  BY DEF Good, Character
<1>2. s \in Skills /\ r.lvl \in 1..MaxLevel
  BY DEF Request
<1>3. sp \in Nat /\ Points[r.lvl] \in Nat
  BY <1>1, <1>2, PointsType DEF Character
<1>4. ASSUME NEW start \in Nat PROVE E(start) \in Entry
  BY <1>2, <1>3, EndTimeType DEF Entry
<1>5. CASE r.lvl < NextLevel(c, s) \/ sp >= Points[r.lvl]
  <2>1. AddToSkillQueue(c, r) = [c EXCEPT !.flagged = @ \ {s}]
    BY <1>5 DEF AddToSkillQueue
  <2> QED
    BY <2>1 DEF Good, FrontTrains, HasPoints, Character
<1>6. CASE ~ (r.lvl < NextLevel(c, s) \/ sp >= Points[r.lvl]) /\ c.queue = <<>>
  <2>1. E(now) \in Entry
    BY <1>4
  <2> DEFINE q == Append(c.queue, E(now))
  <2>2. q \in Seq(Entry) /\ q # <<>> /\ Head(q) = E(now)
    BY <1>1, <1>6, <2>1
  <2>3. AddToSkillQueue(c, r) = [c EXCEPT !.queue = q, !.inTraining = s,
                                          !.flagged = @ \cup {s}]
    BY <1>6 DEF AddToSkillQueue
  <2>4. Head(q).skill = s
    BY <2>2
  <2> HIDE DEF q, E, sp
  <2> QED
    BY <1>2, <2>2, <2>3, <2>4, ZenonT(30) DEF Good, FrontTrains, HasPoints, Character
<1>7. CASE ~ (r.lvl < NextLevel(c, s) \/ sp >= Points[r.lvl]) /\ c.queue # <<>>
  <2> DEFINE start == c.queue[Len(c.queue)].end + Second
             q == Append(c.queue, E(start))
  <2>1. start \in Nat
    <3>1. c.queue[Len(c.queue)] \in Entry
      <4>1. Len(c.queue) \in 1..Len(c.queue)
        BY <1>1, <1>7, EntryParts
      <4> QED
        BY <1>1, <1>7, <4>1, EntryParts
    <3>2. c.queue[Len(c.queue)].end \in Nat
      BY <3>1 DEF Entry
    <3> QED
      BY <3>2, SkillAssumption DEF SkillAssumption
  <2>2. E(start) \in Entry
    BY <1>4, <2>1
  <2>3. q \in Seq(Entry) /\ q # <<>> /\ Head(q) = Head(c.queue)
    BY <1>1, <1>7, <2>2
  <2>4. AddToSkillQueue(c, r) = [c EXCEPT !.queue = q]
    BY <1>7 DEF AddToSkillQueue
  <2> HIDE DEF q, E, sp
  <2> QED
    BY <2>3, <2>4 DEF Good, FrontTrains, HasPoints, Character
<1> QED
  BY <1>5, <1>6, <1>7

LEMMA RetimedGood ==
    ASSUME NEW c, Good(c), NEW i \in 1..Len(c.queue), now \in Nat
    PROVE  Good(Retimed(c, i)) /\ Len(Retimed(c, i).queue) = Len(c.queue)
<1> DEFINE e == c.queue[i]
           start == IF i = 1 THEN now ELSE c.queue[i - 1].end
           sp == IF e.lvl = NextLevel(c, e.skill)
                 THEN GetCurrentSP(c, e.skill, start) ELSE Points[e.lvl - 1]
           f == [e EXCEPT !.start = start, !.end = EndTime(sp, Points[e.lvl], start)]
           q == [c.queue EXCEPT ![i] = f]
<1>1. c \in Character /\ c.queue \in Seq(Entry) /\ Len(c.queue) \in Nat
  BY DEF Good, Character
<1>2. e \in Entry
  BY <1>1
<1>3. start \in Nat
  <2>1. CASE i = 1
    BY <2>1
  <2>2. CASE i # 1
    <3>1. i - 1 \in 1..Len(c.queue)
      BY <1>1, <2>2
    <3>2. c.queue[i - 1] \in Entry
      BY <1>1, <3>1
    <3> QED
      BY <2>2, <3>2 DEF Entry
  <2> QED
    BY <2>1, <2>2
<1>4. sp \in Nat /\ Points[e.lvl] \in Nat
  BY <1>1, <1>2, <1>3, CurrentSP, PointsType DEF Entry
<1>5. EndTime(sp, Points[e.lvl], start) \in Nat
  BY <1>3, <1>4, EndTimeType
<1>6. f \in Entry /\ f.skill = e.skill
  BY <1>2, <1>3, <1>5 DEF Entry
<1> HIDE DEF f
<1>7. /\ q \in Seq(Entry) /\ Len(q) = Len(c.queue)
      /\ c.queue # <<>> => q # <<>> /\ Head(q).skill = Head(c.queue).skill
  BY <1>1, <1>6
<1>8. Retimed(c, i) = [c EXCEPT !.queue = q]
  BY DEF Retimed, f
<1> HIDE DEF q, e
<1> QED
  BY <1>1, <1>7, <1>8 DEF Good, FrontTrains, HasPoints, Character

LEMMA FrontGood ==
    ASSUME NEW c, Good(c), c.queue # <<>>
    PROVE  /\ Good(Dropped(c))
           /\ Good(Completed(c))
           /\ Good(Started(c)) /\ Started(c).queue = c.queue
           /\ Good([c EXCEPT !.flagged = @ \cup {Head(c.queue).skill}])
<1> PICK front : front = Head(c.queue)
  OBVIOUS
<1>1. c \in Character /\ front \in Entry /\ Tail(c.queue) \in Seq(Entry)
  BY EntryParts DEF Good, Character
<1>2. front.lvl \in Levels /\ front.lvl > 0 /\ Points[front.lvl] \in Nat
      /\ front.skill \in Skills
  BY <1>1, PointsType DEF Entry, Levels
<1>3. Good(Dropped(c))
  BY <1>1, <1>2 DEF Good, Dropped, FrontTrains, HasPoints, Character
<1>4. Good(Completed(c))
  <2> PICK d : d = Completed(c)
    OBVIOUS
  <2>1. /\ d.queue = Tail(c.queue)
        /\ d.inTraining = NoSkill
        /\ d.level = [c.level EXCEPT ![front.skill] = front.lvl]
        /\ d.points = [c.points EXCEPT ![front.skill] = Points[front.lvl]]
    BY <1>1 DEF Completed, Character
  <2>2. d \in Character
    BY <1>1, <1>2 DEF Completed, Character
  <2>3. HasPoints(d)
    BY <1>1, <1>2, <2>1 DEF HasPoints, Good, Character
  <2> QED
    BY <2>1, <2>2, <2>3 DEF Good, FrontTrains
<1>5. Good(Started(c)) /\ Started(c).queue = c.queue
  BY <1>1, <1>2 DEF Good, Started, FrontTrains, HasPoints, Character
<1>6. Good([c EXCEPT !.flagged = @ \cup {Head(c.queue).skill}])
  BY <1>1, <1>2 DEF Good, FrontTrains, HasPoints, Character
<1> QED
  BY <1>3, <1>4, <1>5, <1>6

LEMMA CreditedGood ==
    ASSUME NEW c, Good(c), now \in Nat
    PROVE  Good(Credited(c))
<1>1. CASE c.inTraining = NoSkill
  BY <1>1 DEF Credited
<1>2. CASE c.inTraining # NoSkill
  <2> PICK s, sp : s = c.inTraining /\ sp = GetCurrentSP(c, s, Head(c.queue).start)
    OBVIOUS
  <2>1. c \in Character /\ c.queue \in Seq(Entry) /\ c.queue # <<>> /\ s \in Skills
    BY <1>2 DEF Good, FrontTrains, Character
  <2>2. Head(c.queue).start \in Nat
    BY <2>1, EntryParts DEF Entry
  <2>3. sp \in Nat /\ sp >= c.points[s]
    BY <2>1, <2>2, CurrentSP
  <2>4. Credited(c) = [c EXCEPT !.points[s] = sp]
    BY <1>2 DEF Credited
  <2>5. c.level[s] > 0 => sp >= Points[c.level[s]]
    BY <2>1, <2>3, PointsType DEF Good, HasPoints, Character
  <2> PICK d : d = Credited(c)
    OBVIOUS
  <2>6. d \in Character
    <3>1. d = [queue |-> c.queue, inTraining |-> c.inTraining, level |-> c.level,
               points |-> [c.points EXCEPT ![s] = sp], flagged |-> c.flagged]
      BY <2>1, <2>4 DEF Character
    <3>2. [c.points EXCEPT ![s] = sp] \in [Skills -> Nat]
      BY <2>1, <2>3 DEF Character
    <3> QED
      BY <2>1, <3>1, <3>2 DEF Character
  <2>7. /\ d.queue = c.queue /\ d.inTraining = c.inTraining /\ d.level = c.level
        /\ d.points = [c.points EXCEPT ![s] = sp]
    BY <2>1, <2>4 DEF Character
  <2>8. HasPoints(d)
    <3>1. HasPoints(c) /\ c.points \in [Skills -> Nat]
      BY DEF Good, Character
    <3> SUFFICES ASSUME NEW t \in Skills, d.level[t] > 0
                 PROVE  d.points[t] >= Points[d.level[t]]
      BY DEF HasPoints
    <3>2. CASE t = s
      BY <2>1, <2>5, <2>7, <3>1, <3>2
    <3>3. CASE t # s
      BY <2>1, <2>7, <3>1, <3>3 DEF HasPoints
    <3> QED
      BY <3>2, <3>3
  <2> QED
    BY <2>6, <2>7, <2>8 DEF Good, FrontTrains
<1> QED
  BY <1>1, <1>2

LEMMA UnloadedGood ==
    ASSUME NEW c, Good(c)
    PROVE  /\ Good(Unloaded(c))
           /\ Unloaded(c).queue = <<>> /\ Unloaded(c).inTraining = NoSkill
<1>1. c \in Character
  BY DEF Good
<1>2. Unloaded(c) \in Character
  BY <1>1, EmptyQueue DEF Unloaded, Character
<1>3. /\ Unloaded(c).queue = <<>> /\ Unloaded(c).inTraining = NoSkill
      /\ Unloaded(c).level = c.level /\ Unloaded(c).points = c.points
  BY <1>1 DEF Unloaded, Character
<1> QED
  BY <1>2, <1>3 DEF Good, FrontTrains, HasPoints

\* A repair by VerifySP keeps a level's points, or gives it just those.
LEMMA VerifySPType ==
    ASSUME NEW lvl \in Levels, NEW sp \in Nat, lvl > 0 => sp >= Points[lvl]
    PROVE  /\ VerifySP(lvl, sp)[1] \in Levels
           /\ VerifySP(lvl, sp)[2] \in Nat
           /\ VerifySP(lvl, sp)[1] > 0 =>
                VerifySP(lvl, sp)[2] >= Points[VerifySP(lvl, sp)[1]]
<1> PICK this : this = IF lvl = MaxLevel THEN MaxLevel - 1 ELSE lvl
  OBVIOUS
<1>1. /\ this \in Levels /\ this + 1 \in Levels /\ this + 1 \in 1..MaxLevel
      /\ Points[this] \in Nat /\ Points[this + 1] \in Nat
      /\ Points[this] < Points[this + 1]
      /\ lvl = this \/ lvl = this + 1
  <2>1. this \in 0..(MaxLevel - 1)
    BY MaxLevelType DEF Levels
  <2>2. this + 1 \in 1..MaxLevel /\ (this + 1) - 1 = this
    <3>1. \A m \in Nat : m >= 1 => \A t \in 0..(m - 1) :
             t + 1 \in 1..m /\ (t + 1) - 1 = t
      OBVIOUS
    <3> QED
      BY <2>1, <3>1, MaxLevelType
  <2>3. lvl = this \/ lvl = this + 1
    BY MaxLevelType DEF Levels
  <2>4. this \in Levels /\ this + 1 \in Levels
    BY <2>1, <2>2, PointsType
  <2>5. Points[this] \in Nat /\ Points[this + 1] \in Nat
    BY <2>4, PointsType
  <2>6. Points[this] < Points[this + 1]
    BY <2>2, PointsType
  <2> QED
    BY <2>2, <2>3, <2>4, <2>5, <2>6
<1>2. CASE sp = 0
  BY <1>2, PointsType DEF VerifySP
<1>3. CASE sp # 0 /\ sp < Points[this]
  <2>1. ~ (sp > Points[this + 1])
    BY <1>1, <1>3
  <2>2. VerifySP(lvl, sp) = <<lvl, Points[this]>>
    BY <1>3, <2>1 DEF VerifySP
  <2> QED
    BY <1>1, <1>3, <2>2
<1>4. CASE sp # 0 /\ ~ (sp < Points[this]) /\ sp > Points[this + 1]
  <2>1. VerifySP(lvl, sp) = <<this + 1, Points[this + 1]>>
    BY <1>1, <1>4 DEF VerifySP
  <2> QED
    BY <1>1, <2>1
<1>5. CASE sp # 0 /\ ~ (sp < Points[this]) /\ ~ (sp > Points[this + 1])
  BY <1>1, <1>5 DEF VerifySP
<1> QED
  BY <1>2, <1>3, <1>4, <1>5

LEMMA LoadedGood ==
    ASSUME NEW c, Good(c), rows \in Seq(Entry)
    PROVE  /\ Good(Loaded(c))
           /\ Loaded(c).queue # <<>> =>
                Loaded(c).inTraining = Head(Loaded(c).queue).skill
<1> PICK d : d = Loaded(c)
  OBVIOUS
<1>1. c \in Character /\ HasPoints(c)
  BY DEF Good
<1>2. rows # <<>> => Head(rows).skill \in Skills
  BY EntryParts DEF Entry
<1>3. ASSUME NEW s \in Skills
      PROVE  /\ d.level[s] \in Levels /\ d.points[s] \in Nat
             /\ d.level[s] > 0 => d.points[s] >= Points[d.level[s]]
  <2>1. /\ c.level[s] \in Levels /\ c.points[s] \in Nat
        /\ c.level[s] > 0 => c.points[s] >= Points[c.level[s]]
    BY <1>1 DEF Character, HasPoints
  <2>2. CASE s \in c.flagged
    BY <2>1, <2>2 DEF Loaded
  <2>3. CASE s \notin c.flagged
    <3>1. d.level[s] = VerifySP(c.level[s], c.points[s])[1]
          /\ d.points[s] = VerifySP(c.level[s], c.points[s])[2]
      BY <2>3 DEF Loaded
    <3> QED
      BY <2>1, <3>1, VerifySPType
  <2> QED
    BY <2>2, <2>3
<1>4. /\ d.queue = rows
      /\ d.inTraining = IF rows = <<>> THEN NoSkill ELSE Head(rows).skill
      /\ d.flagged \subseteq Skills
  BY <1>1, <1>2 DEF Loaded, Character
<1>5. d \in Character
  <2>1. d = [queue |-> d.queue, inTraining |-> d.inTraining, level |-> d.level,
             points |-> d.points, flagged |-> d.flagged]
    BY DEF Loaded
  <2>2. d.level \in [Skills -> Levels] /\ d.points \in [Skills -> Nat]
    BY <1>3 DEF Loaded
  <2> QED
    BY <1>2, <1>4, <2>1, <2>2 DEF Character
<1> QED
  BY <1>3, <1>4, <1>5 DEF Good, FrontTrains, HasPoints

-----------------------------------------------------------------------------
(* The ends of the handlers and the actions keep the invariant.            *)

LEMMA InvGood == Inv => Good(char) /\ now \in Nat
  BY DEF Inv, TypeOK, TrainingIsFront, LevelHasPoints, Good, FrontTrains, HasPoints

\* What the variables besides the handler's own are after a step of it.
Kept == /\ now' = now
        /\ online' = TRUE
        /\ paused' \in Seq(Request)
        /\ todo' \in Seq(Request)
        /\ at' \in Nat

LEMMA StateGood ==
    ASSUME Good(char'), Kept, Inv, skillTimer' \in Nat, rows' \in Seq(Entry),
           pc' \in {"idle", "loop", "insert", "logout", "add", "retime"}
    PROVE  TypeOK' /\ TrainingIsFront' /\ LevelHasPoints'
<1>1. TypeOK'
  BY DEF Inv, TypeOK, Kept, Good
<1>2. TrainingIsFront'
  BY DEF TrainingIsFront, Good, FrontTrains
<1>3. LevelHasPoints'
  BY DEF LevelHasPoints, Good, HasPoints
<1> QED
  BY <1>1, <1>2, <1>3

\* A handler that goes on, without the end of the queue's save.
LEMMA HandlerGood ==
    ASSUME Inv, Kept, Good(char'), pc' \in {"loop", "add", "logout", "retime"},
           UNCHANGED skillTimer, rows' \in Seq(Entry),
           pc' = "retime" => char'.queue # <<>> /\ at' >= 1
    PROVE  Inv'
<1>1. skillTimer' \in Nat
  BY DEF Inv, TypeOK
<1>2. TypeOK' /\ TrainingIsFront' /\ LevelHasPoints'
  BY <1>1, StateGood
<1>3. QueueSaved' /\ TimerArmed' /\ HandlerOK'
  BY DEF QueueSaved, TimerArmed, Idle, HandlerOK
<1> QED
  BY <1>2, <1>3 DEF Inv

LEMMA UpdateGood ==
    ASSUME Inv, Kept, NEW c, Good(c), UpdateSkillQueueEndTime(c)
    PROVE  Inv'
<1>1. char' = c /\ Good(char') /\ c.queue \in Seq(Entry)
  BY DEF UpdateSkillQueueEndTime, Good, Character
<1>2. c.queue # <<>> => Head(c.queue).end \in Nat
  BY <1>1, EntryParts DEF Entry
<1>3. /\ skillTimer' \in Nat
      /\ rows' \in Seq(Entry)
      /\ pc' \in {"idle", "insert"}
      /\ c.queue = <<>> => pc' = "idle"
      /\ c.queue # <<>> => pc' = "insert" /\ skillTimer' = Head(c.queue).end
  BY <1>2, EmptyQueue DEF UpdateSkillQueueEndTime, Inv, TypeOK
<1>4. TypeOK' /\ TrainingIsFront' /\ LevelHasPoints'
  BY <1>1, <1>3, StateGood
<1>5. QueueSaved' /\ TimerArmed' /\ HandlerOK'
  BY <1>1, <1>3 DEF QueueSaved, TimerArmed, Idle, HandlerOK
<1> QED
  BY <1>4, <1>5 DEF Inv

\* m_inTraining is the front of the queue, so SkillQueueLoop cancels nothing.
LEMMA LoopGood ==
    ASSUME Inv, Kept, pc = "idle", NEW c, Good(c), SkillQueueLoop(c),
           c.queue # <<>> => c.inTraining # NoSkill
    PROVE  Inv'
<1>1. c.queue # <<>> => c.inTraining = Head(c.queue).skill
  BY DEF Good, FrontTrains
<1>2. CASE c.queue = <<>>
  <2>1. char' = c /\ UNCHANGED <<skillTimer, pc, rows>>
    BY <1>2 DEF SkillQueueLoop
  <2>2. TypeOK' /\ TrainingIsFront' /\ LevelHasPoints'
    BY <2>1, StateGood DEF Inv, TypeOK
  <2>3. QueueSaved' /\ TimerArmed' /\ HandlerOK'
    BY <1>2, <2>1 DEF QueueSaved, TimerArmed, HandlerOK
  <2> QED
    BY <2>2, <2>3 DEF Inv
<1>3. CASE c.queue # <<>> /\ Head(c.queue).end > now
  <2>1. UpdateSkillQueueEndTime(c)
    BY <1>1, <1>3 DEF SkillQueueLoop
  <2> QED
    BY <2>1, UpdateGood
<1>4. CASE c.queue # <<>> /\ ~ (Head(c.queue).end > now)
  <2>1. char' = c /\ pc' = "loop" /\ UNCHANGED <<skillTimer, rows>>
    BY <1>1, <1>4 DEF SkillQueueLoop
  <2> QED
    BY <2>1, HandlerGood DEF Inv, TypeOK
<1> QED
  BY <1>2, <1>3, <1>4

LEMMA DownGood ==
    ASSUME Inv, Down
    PROVE  Inv'
<1> PICK c : c = Unloaded(char)
  OBVIOUS
<1>1. Good(c) /\ c.queue = <<>> /\ c.inTraining = NoSkill
  BY InvGood, UnloadedGood
<1>2. char' = c
  BY DEF Down
<1>3. TypeOK'
  <2>1. <<>> \in Seq(Request)
    OBVIOUS
  <2> QED
    BY <1>1, <1>2, <2>1 DEF Down, Inv, TypeOK, Good
<1>4. TrainingIsFront' /\ LevelHasPoints'
  BY <1>1, <1>2 DEF TrainingIsFront, LevelHasPoints, Good, HasPoints
<1>5. QueueSaved' /\ TimerArmed' /\ HandlerOK'
  BY <1>1, <1>2 DEF Down, QueueSaved, TimerArmed, HandlerOK
<1> QED
  BY <1>3, <1>4, <1>5 DEF Inv

LEMMA LoopStepGood ==
    ASSUME Inv, LoopStep
    PROVE  Inv'
<1>1. Good(char) /\ Kept
  BY InvGood DEF Inv, TypeOK, LoopStep, Kept
<1>2. CASE char.queue = <<>> /\ UpdateSkillQueueEndTime(char)
  BY <1>1, <1>2, UpdateGood
<1>3. CASE /\ char.queue # <<>>
           /\ char' \in {Dropped(char), Completed(char)}
           /\ UNCHANGED <<pc, skillTimer, rows>>
  <2>1. Good(char')
    BY <1>1, <1>3, FrontGood
  <2> QED
    BY <1>1, <1>3, <2>1, HandlerGood DEF LoopStep, Inv, TypeOK
<1>4. CASE char.queue # <<>> /\ UpdateSkillQueueEndTime(Started(char))
  BY <1>1, <1>4, FrontGood, UpdateGood
<1> QED
  BY <1>2, <1>3, <1>4 DEF LoopStep

LEMMA InsertGood ==
    ASSUME Inv, InsertRows
    PROVE  Inv'
<1>1. Good(char) /\ char.queue \in Seq(Entry)
  BY InvGood DEF Good, Character
<1>2. CASE pc = "insert"
  <2>1. /\ char' = char /\ skillTimer' = skillTimer /\ online' = TRUE
        /\ rows' = char.queue /\ pc' = "idle" /\ Kept
    BY <1>2 DEF InsertRows, Kept, Inv, TypeOK
  <2>2. TypeOK' /\ TrainingIsFront' /\ LevelHasPoints'
    BY <1>1, <2>1, StateGood DEF Inv, TypeOK
  <2>3. QueueSaved' /\ TimerArmed' /\ HandlerOK'
    BY <1>2, <2>1 DEF QueueSaved, TimerArmed, HandlerOK, Inv
  <2> QED
    BY <2>2, <2>3 DEF Inv
<1>3. CASE pc = "logout"
  <2> PICK c : c = Unloaded(char)
    OBVIOUS
  <2>1. Good(c) /\ c.queue = <<>> /\ c.inTraining = NoSkill
    BY <1>1, UnloadedGood
  <2>2. /\ char' = c /\ skillTimer' = 0 /\ online' = FALSE
        /\ rows' = char.queue /\ pc' = "idle"
        /\ UNCHANGED <<now, paused, todo, at>>
    BY <1>3 DEF InsertRows
  <2>3. TypeOK'
    BY <1>1, <2>1, <2>2 DEF Inv, TypeOK, Good
  <2>4. TrainingIsFront' /\ LevelHasPoints'
    BY <2>1, <2>2 DEF TrainingIsFront, LevelHasPoints, Good, HasPoints
  <2>5. QueueSaved' /\ TimerArmed' /\ HandlerOK'
    BY <2>1, <2>2 DEF QueueSaved, TimerArmed, HandlerOK
  <2> QED
    BY <2>3, <2>4, <2>5 DEF Inv
<1> QED
  BY <1>2, <1>3 DEF InsertRows

LEMMA RequestParts ==
    ASSUME NEW q \in Seq(Request), q # <<>>
    PROVE  Head(q) \in Request /\ Tail(q) \in Seq(Request)
  OBVIOUS

LEMMA AddStepGood ==
    ASSUME Inv, AddStep
    PROVE  Inv'
<1>1. Good(char) /\ now \in Nat /\ todo \in Seq(Request) /\ online
  BY InvGood DEF Inv, TypeOK, AddStep
<1>2. CASE /\ todo # <<>>
           /\ char' = AddToSkillQueue(char, Head(todo))
           /\ todo' = Tail(todo)
           /\ UNCHANGED <<pc, skillTimer, rows>>
  <2>1. Head(todo) \in Request /\ todo' \in Seq(Request)
    BY <1>1, <1>2, RequestParts
  <2>2. Good(char')
    BY <1>1, <1>2, <2>1, AddGood
  <2>3. Kept
    BY <1>1, <2>1 DEF AddStep, Kept, Inv, TypeOK
  <2> QED
    BY <1>2, <2>2, <2>3, HandlerGood DEF AddStep, Inv, TypeOK
<1>3. CASE todo = <<>> /\ UpdateSkillQueueEndTime(char) /\ UNCHANGED todo
  <2>1. Kept
    BY <1>1, <1>3 DEF AddStep, Kept, Inv, TypeOK
  <2> QED
    BY <1>1, <1>3, <2>1, UpdateGood
<1> QED
  BY <1>2, <1>3 DEF AddStep

LEMMA RetimeStepGood ==
    ASSUME Inv, RetimeStep
    PROVE  Inv'
<1>1. /\ Good(char) /\ now \in Nat /\ online /\ char.queue # <<>>
      /\ at \in Nat /\ at >= 1 /\ char.queue \in Seq(Entry)
  BY InvGood DEF Inv, TypeOK, RetimeStep, HandlerOK, Good, Character
<1>2. CASE /\ at <= Len(char.queue)
           /\ char' = Retimed(char, at)
           /\ at' = at + 1
           /\ UNCHANGED <<pc, skillTimer, rows>>
  <2>1. at \in 1..Len(char.queue)
    BY <1>1, <1>2
  <2>2. Good(char') /\ Len(char'.queue) = Len(char.queue)
    BY <1>1, <1>2, <2>1, RetimedGood
  <2>3. char'.queue # <<>>
    BY <2>1, <2>2, EntryParts
  <2>4. Kept
    BY <1>1, <1>2 DEF RetimeStep, Kept, Inv, TypeOK
  <2> QED
    BY <1>1, <1>2, <2>2, <2>3, <2>4, HandlerGood DEF RetimeStep, Inv, TypeOK
<1>3. CASE /\ at' = 0
           /\ UpdateSkillQueueEndTime([char EXCEPT
                !.flagged = @ \cup {Head(char.queue).skill}])
  <2>1. Kept
    BY <1>1, <1>3 DEF RetimeStep, Kept, Inv, TypeOK
  <2> PICK c : c = [char EXCEPT !.flagged = @ \cup {Head(char.queue).skill}]
    OBVIOUS
  <2>2. Good(c)
    BY <1>1, FrontGood
  <2> QED
    BY <1>3, <2>1, <2>2, UpdateGood
<1> QED
  BY <1>2, <1>3 DEF RetimeStep

LEMMA TicksGood ==
    ASSUME Inv, Tick
    PROVE  Inv'
<1>1. UNCHANGED <<online, pc, char, skillTimer, rows, paused, todo, at>>
      /\ now' \in Nat
  BY DEF Tick, Inv, TypeOK
<1> QED
  BY <1>1 DEF Inv, TypeOK, QueueSaved, TimerArmed, Idle, TrainingIsFront,
              LevelHasPoints, HandlerOK

LEMMA LoginGood ==
    ASSUME Inv, Login
    PROVE  Inv'
<1> PICK c : c = Loaded(char)
  OBVIOUS
<1>1. rows \in Seq(Entry)
  BY DEF Inv, TypeOK
<1>2. Good(c) /\ (c.queue # <<>> => c.inTraining = Head(c.queue).skill)
  BY <1>1, InvGood, LoadedGood
<1>3. c.queue # <<>> => c.inTraining # NoSkill
  <2>1. ASSUME c.queue # <<>> PROVE Head(c.queue).skill \in Skills
    BY <1>2, <2>1, EntryParts DEF Good, Character, Entry
  <2> QED
    BY <1>2, <2>1, SkillAssumption DEF SkillAssumption
<1>4. Kept /\ pc = "idle" /\ SkillQueueLoop(c)
  BY DEF Login, Kept, Inv, TypeOK
<1> QED
  BY <1>2, <1>3, <1>4, LoopGood

LEMMA TimerGood ==
    ASSUME Inv, SkillTimerFires
    PROVE  Inv'
<1>1. CASE /\ char.queue # <<>> => char.inTraining # NoSkill
           /\ SkillQueueLoop(char)
           /\ UNCHANGED <<now, online, paused, todo, at>>
  <2>1. Kept /\ pc = "idle"
    BY <1>1 DEF SkillTimerFires, Idle, Kept, Inv, TypeOK
  <2> QED
    BY <1>1, <2>1, InvGood, LoopGood
<1>2. CASE Down
  BY <1>2, DownGood
<1> QED
  BY <1>1, <1>2 DEF SkillTimerFires

LEMMA SaveGood ==
    ASSUME Inv, NEW list \in Seq(Wanted), SaveSkillQueue(list)
    PROVE  Inv'
<1>1. list \in Seq(Request)
  BY SkillAssumption DEF SkillAssumption
<1>2. Good(char')
  BY InvGood, ClearGood DEF SaveSkillQueue
<1>3. Kept
  BY <1>1 DEF SaveSkillQueue, Idle, Kept, Inv, TypeOK
<1> QED
  BY <1>2, <1>3, HandlerGood DEF SaveSkillQueue, Inv, TypeOK

LEMMA AddToEndGood ==
    ASSUME Inv, NEW r \in Wanted, AddToEndOfSkillQueue(r)
    PROVE  Inv'
<1> PICK c : c = AddToSkillQueue(char, r)
  OBVIOUS
<1>1. Good(c)
  BY InvGood, AddGood, SkillAssumption DEF SkillAssumption
<1>2. Kept /\ UpdateSkillQueueEndTime(c)
  BY DEF AddToEndOfSkillQueue, Idle, Kept, Inv, TypeOK
<1> QED
  BY <1>1, <1>2, UpdateGood

LEMMA PauseGood ==
    ASSUME Inv, PauseSkillQueue
    PROVE  Inv'
<1> PICK c : c = ClearSkillQueue(char)
  OBVIOUS
<1>1. Good(c) /\ char.queue \in Seq(Entry)
  BY InvGood, ClearGood DEF Good, Character
<1>2. paused' \in Seq(Request)
  <2>1. Len(char.queue) \in Nat
    BY <1>1
  <2>2. ASSUME NEW i \in 1..Len(char.queue)
        PROVE  [skill |-> char.queue[i].skill, lvl |-> char.queue[i].lvl] \in Request
    <3>1. char.queue[i] \in Entry
      BY <1>1
    <3> QED
      BY <3>1 DEF Entry, Request
  <2>3. paused' \in [1..Len(char.queue) -> Request]
    BY <2>2 DEF PauseSkillQueue
  <2> QED
    BY <2>1, <2>3
<1>3. Kept /\ UpdateSkillQueueEndTime(c)
  BY <1>2 DEF PauseSkillQueue, Idle, Kept, Inv, TypeOK
<1> QED
  BY <1>1, <1>3, UpdateGood

LEMMA LoadPausedGood ==
    ASSUME Inv, LoadPausedSkillQueue
    PROVE  Inv'
<1> DEFINE extra == [i \in 1..Len(paused) |->
                       [skill |-> paused[i].skill, lvl |-> paused[i].lvl,
                        start |-> 0, end |-> 0]]
<1>1. /\ Good(char) /\ char \in Character /\ char.queue \in Seq(Entry)
      /\ paused \in Seq(Request) /\ online /\ pc = "idle"
  BY InvGood DEF Good, Character, Inv, TypeOK, LoadPausedSkillQueue, Idle
<1>2. extra \in Seq(Entry)
  <2>1. ASSUME NEW i \in 1..Len(paused)
        PROVE  [skill |-> paused[i].skill, lvl |-> paused[i].lvl,
                start |-> 0, end |-> 0] \in Entry
    <3>1. paused[i] \in Request
      BY <1>1
    <3> QED
      BY <3>1 DEF Entry, Request
  <2>2. Len(paused) \in Nat /\ extra \in [1..Len(paused) -> Entry]
    BY <1>1, <2>1
  <2> QED
    BY <2>2
<1> PICK q : q = char.queue \o extra
  OBVIOUS
<1>3. char' = [char EXCEPT !.queue = q]
  BY DEF LoadPausedSkillQueue
<1> HIDE DEF extra
<1>4. q \in Seq(Entry) /\ (char.queue # <<>> => q # <<>> /\ Head(q) = Head(char.queue))
  BY <1>1, <1>2
<1>5. char'.queue = q /\ Good(char')
  BY <1>1, <1>3, <1>4 DEF Good, FrontTrains, HasPoints, Character
<1>6. /\ now' = now /\ online' = TRUE /\ todo' = todo /\ paused' = <<>>
      /\ UNCHANGED <<skillTimer, rows>>
      /\ q = <<>> => UNCHANGED <<pc, at>>
      /\ q # <<>> => pc' = "retime" /\ at' = 1
  BY <1>1, <1>5 DEF LoadPausedSkillQueue, Inv, TypeOK
<1>7. Kept
  BY <1>6 DEF Kept, Inv, TypeOK
<1>8. CASE q # <<>>
  BY <1>5, <1>6, <1>7, <1>8, HandlerGood DEF Inv, TypeOK
<1>9. CASE q = <<>>
  <2>1. TypeOK' /\ TrainingIsFront' /\ LevelHasPoints'
    BY <1>1, <1>5, <1>6, <1>7, <1>9, StateGood DEF Inv, TypeOK
  <2>2. QueueSaved' /\ TimerArmed' /\ HandlerOK'
    BY <1>1, <1>5, <1>6, <1>9 DEF QueueSaved, TimerArmed, HandlerOK
  <2> QED
    BY <2>1, <2>2 DEF Inv
<1> QED
  BY <1>8, <1>9

LEMMA EndOfTrainingGood ==
    ASSUME Inv, GetEndOfTraining
    PROVE  Inv'
<1>1. char.queue # <<>>
  BY DEF GetEndOfTraining, Inv, TrainingIsFront
<1>2. skillTimer' = skillTimer
  BY <1>1 DEF GetEndOfTraining, Inv, TimerArmed
<1> QED
  BY <1>2 DEF GetEndOfTraining, Inv, TypeOK, QueueSaved, TimerArmed, Idle,
              TrainingIsFront, LevelHasPoints, HandlerOK

LEMMA ResetGood ==
    ASSUME Inv, ResetChar
    PROVE  Inv'
<1>1. Good(char') /\ char'.queue = <<>>
  BY InvGood, ClearGood DEF ResetChar
<1>2. Kept /\ pc' = "idle" /\ skillTimer' = skillTimer /\ rows' \in Seq(Entry)
  BY EmptyQueue DEF ResetChar, Idle, Kept, Inv, TypeOK
<1>3. TypeOK' /\ TrainingIsFront' /\ LevelHasPoints'
  BY <1>1, <1>2, StateGood DEF Inv, TypeOK
<1>4. QueueSaved' /\ TimerArmed' /\ HandlerOK'
  BY <1>1, <1>2 DEF QueueSaved, TimerArmed, HandlerOK
<1> QED
  BY <1>3, <1>4 DEF Inv

LEMMA LogOutGood ==
    ASSUME Inv, LogOut
    PROVE  Inv'
<1>1. Good(char')
  BY InvGood, CreditedGood DEF LogOut
<1>2. Kept /\ pc' = "logout" /\ skillTimer' = skillTimer /\ rows' \in Seq(Entry)
  BY EmptyQueue DEF LogOut, Idle, Kept, Inv, TypeOK
<1> QED
  BY <1>1, <1>2, HandlerGood

-----------------------------------------------------------------------------
LEMMA Initially == Init => Inv
<1> SUFFICES ASSUME Init PROVE Inv
  OBVIOUS
<1>1. 0 \in Levels
  BY MaxLevelType DEF Levels
<1>2. [s \in Skills |-> 0] \in [Skills -> Levels] /\ [s \in Skills |-> 0] \in [Skills -> Nat]
  BY <1>1
<1>3. char \in Character
  BY <1>2, EmptyQueue DEF Init, Character
<1>4. <<>> \in Seq(Request)
  OBVIOUS
<1>5. TypeOK
  BY <1>3, <1>4, EmptyQueue DEF Init, TypeOK
<1> QED
  BY <1>5 DEF Inv, Init, QueueSaved, TimerArmed, TrainingIsFront, LevelHasPoints,
              HandlerOK

LEMMA Inductive == Inv /\ [Next]_vars => Inv'
<1> SUFFICES ASSUME Inv, [Next]_vars PROVE Inv'
  OBVIOUS
<1>1. CASE Tick
  BY <1>1, TicksGood
<1>2. CASE Login
  BY <1>2, LoginGood
<1>3. CASE SkillTimerFires
  BY <1>3, TimerGood
<1>4. CASE HandlerStep
  BY <1>4, LoopStepGood, InsertGood, AddStepGood, RetimeStepGood DEF HandlerStep
<1>5. CASE \E n \in 0..MaxQueue : \E list \in [1..n -> Wanted] : SaveSkillQueue(list)
  <2> PICK n \in 0..MaxQueue : \E list \in [1..n -> Wanted] : SaveSkillQueue(list)
    BY <1>5
  <2> PICK list \in [1..n -> Wanted] : SaveSkillQueue(list)
    OBVIOUS
  <2>1. list \in Seq(Wanted)
    BY SkillAssumption DEF SkillAssumption
  <2> QED
    BY <2>1, SaveGood
<1>6. CASE \E r \in Wanted : AddToEndOfSkillQueue(r)
  BY <1>6, AddToEndGood
<1>7. CASE PauseSkillQueue
  BY <1>7, PauseGood
<1>8. CASE LoadPausedSkillQueue
  BY <1>8, LoadPausedGood
<1>9. CASE GetEndOfTraining
  BY <1>9, EndOfTrainingGood
<1>10. CASE ResetChar
  BY <1>10, ResetGood
<1>11. CASE LogOut
  BY <1>11, LogOutGood
<1>12. CASE Crash
  BY <1>12, DownGood DEF Crash
<1>13. CASE UNCHANGED vars
  BY <1>13 DEF vars, Inv, TypeOK, QueueSaved, TimerArmed, Idle, TrainingIsFront,
               LevelHasPoints, HandlerOK
<1> QED
  BY <1>1, <1>2, <1>3, <1>4, <1>5, <1>6, <1>7, <1>8, <1>9, <1>10, <1>11, <1>12,
     <1>13 DEF Next

LEMMA Invariance == Spec => []Inv
  BY Initially, Inductive, PTL DEF Spec

\* Queue, skills and tables stay well formed whatever the player asks for.
THEOREM TypeCorrect == Spec => []TypeOK
<1>1. Inv => TypeOK
  BY DEF Inv
<1> QED
  BY <1>1, Invariance, PTL

\* Between two handlers a queue that is not empty is what chrSkillQueue holds,
\* and the client's timer is that of its front, for any number of skills and any
\* length of the queue.
THEOREM QueueIsSettled == Spec => []QueueSettled
<1>1. Inv => QueueSettled
  BY DEF Inv, QueueSettled
<1> QED
  BY <1>1, Invariance, PTL

\* m_inTraining is null or the front of the queue, also inside handlers.
THEOREM FrontIsTraining == Spec => []TrainingIsFront
<1>1. Inv => TrainingIsFront
  BY DEF Inv
<1> QED
  BY <1>1, Invariance, PTL

\* A skill has at least the points of its level, crashes included.
THEOREM LevelsHavePoints == Spec => []LevelHasPoints
<1>1. Inv => LevelHasPoints
  BY DEF Inv
<1> QED
  BY <1>1, Invariance, PTL

-----------------------------------------------------------------------------
(* Levels come with time or points.  What makes it true of a cancelled      *)
(* training is that an entry that trains and has no end has its points; the *)
(* loop of SkillQueueLoop drops one that has not before it starts it.       *)

FrontTimed(c) ==
    LET front == Head(c.queue)
    IN  c.inTraining # NoSkill /\ front.end = 0 =>
          c.points[front.skill] >= Points[NextLevel(c, front.skill)]

TimedInv == now >= 1 /\ (pc # "loop" => FrontTimed(char))

\* Two characters whose fronts and skills are the same.
LEMMA SameFront ==
    ASSUME NEW c, NEW d, FrontTimed(c), d.inTraining = c.inTraining,
           d.inTraining # NoSkill => Head(d.queue) = Head(c.queue),
           d.level = c.level, d.points = c.points
    PROVE  FrontTimed(d)
  BY DEF FrontTimed, NextLevel

LEMMA NothingTrains ==
    ASSUME NEW c, c.inTraining = NoSkill PROVE FrontTimed(c)
  BY DEF FrontTimed

LEMMA EndTimePositive ==
    ASSUME NEW a \in Nat, NEW b \in Nat, NEW start \in Nat, start >= 1,
           EndTime(a, b, start) = 0
    PROVE  a >= b
<1> SUFFICES ASSUME ~ (a >= b) PROVE FALSE
  OBVIOUS
<1>1. b - a \in Nat
  OBVIOUS
<1>2. (b - a) \div SPPerMin \in Nat
  BY <1>1, DivNat, SkillAssumption DEF SkillAssumption
<1>3. ((b - a) \div SPPerMin) * Minute \in Nat
  BY <1>2, ProductNat, SkillAssumption DEF SkillAssumption
<1>4. EndTime(a, b, start) = start + ((b - a) \div SPPerMin) * Minute
  BY DEF EndTime
<1> QED
  BY <1>3, <1>4

\* What a call adds has an end.
LEMMA AddTimed ==
    ASSUME NEW c, Good(c), FrontTimed(c), NEW r \in Request, now \in Nat, now >= 1
    PROVE  /\ FrontTimed(AddToSkillQueue(c, r))
           /\ AddToSkillQueue(c, r).level = c.level
<1> DEFINE s == r.skill
           sp == IF r.lvl > NextLevel(c, s) THEN Points[r.lvl - 1] ELSE c.points[s]
           E(start) == [skill |-> s, lvl |-> r.lvl, start |-> start,
                        end |-> EndTime(sp, Points[r.lvl], start)]
<1>1. c \in Character /\ c.queue \in Seq(Entry)
  BY DEF Good, Character
<1>2. s \in Skills /\ r.lvl \in 1..MaxLevel
  BY DEF Request
<1>3. sp \in Nat /\ Points[r.lvl] \in Nat
  BY <1>1, <1>2, PointsType DEF Character
<1>4. CASE r.lvl < NextLevel(c, s) \/ sp >= Points[r.lvl]
  <2> PICK d : d = AddToSkillQueue(c, r)
    OBVIOUS
  <2>1. d = [c EXCEPT !.flagged = @ \ {s}]
    BY <1>4 DEF AddToSkillQueue
  <2>2. /\ d.inTraining = c.inTraining /\ d.queue = c.queue
        /\ d.level = c.level /\ d.points = c.points
    BY <1>1, <2>1 DEF Character
  <2> QED
    BY <2>2, SameFront
<1>5. CASE ~ (r.lvl < NextLevel(c, s) \/ sp >= Points[r.lvl]) /\ c.queue = <<>>
  <2> DEFINE q == Append(c.queue, E(now))
  <2>1. E(now).end # 0
    BY <1>3, <1>5, EndTimePositive
  <2>2. Head(q) = E(now)
    BY <1>1, <1>5
  <2>3. AddToSkillQueue(c, r) = [c EXCEPT !.queue = q, !.inTraining = s,
                                          !.flagged = @ \cup {s}]
    BY <1>5 DEF AddToSkillQueue
  <2> HIDE DEF q, E, sp
  <2> PICK d : d = AddToSkillQueue(c, r)
    OBVIOUS
  <2>4. d.queue = q /\ d.level = c.level
    BY <1>1, <2>3 DEF Character
  <2> QED
    BY <2>1, <2>2, <2>4 DEF FrontTimed
<1>6. CASE ~ (r.lvl < NextLevel(c, s) \/ sp >= Points[r.lvl]) /\ c.queue # <<>>
  <2> DEFINE e == E(c.queue[Len(c.queue)].end + Second)
             q == Append(c.queue, e)
  <2>1. AddToSkillQueue(c, r) = [c EXCEPT !.queue = q]
    BY <1>6 DEF AddToSkillQueue
  <2> HIDE DEF e, E, sp
  <2>2. Head(q) = Head(c.queue)
    BY <1>1, <1>6
  <2> HIDE DEF q
  <2> PICK d : d = AddToSkillQueue(c, r)
    OBVIOUS
  <2>3. /\ d.inTraining = c.inTraining /\ d.queue = q
        /\ d.level = c.level /\ d.points = c.points
    BY <1>1, <2>1 DEF Character
  <2> QED
    BY <2>2, <2>3, SameFront
<1> QED
  BY <1>4, <1>5, <1>6

\* The front is timed from now, with the points the skill has; behind it
\* nothing changes what the front is.
LEMMA RetimedTimed ==
    ASSUME NEW c, Good(c), FrontTimed(c), NEW i \in 1..Len(c.queue),
           now \in Nat, now >= 1
    PROVE  /\ FrontTimed(Retimed(c, i))
           /\ Retimed(c, i).level = c.level
<1> DEFINE e == c.queue[i]
           start == IF i = 1 THEN now ELSE c.queue[i - 1].end
           sp == IF e.lvl = NextLevel(c, e.skill)
                 THEN GetCurrentSP(c, e.skill, start) ELSE Points[e.lvl - 1]
           f == [e EXCEPT !.start = start, !.end = EndTime(sp, Points[e.lvl], start)]
           q == [c.queue EXCEPT ![i] = f]
<1> PICK d : d = Retimed(c, i)
  OBVIOUS
<1>1. c \in Character /\ c.queue \in Seq(Entry) /\ Len(c.queue) \in Nat /\ c.queue # <<>>
  BY DEF Good, Character
<1>2. e \in Entry
  BY <1>1
<1>3. /\ d.queue = q /\ d.inTraining = c.inTraining
      /\ d.level = c.level /\ d.points = c.points
  BY <1>1 DEF Retimed, Character
<1>4. CASE i # 1
  <2> HIDE DEF f
  <2>1. Head(q) = Head(c.queue)
    BY <1>1, <1>4
  <2> HIDE DEF q
  <2> QED
    BY <1>3, <2>1, SameFront
<1>5. CASE i = 1
  <2>1. f.skill = e.skill /\ f.end = EndTime(sp, Points[e.lvl], start)
    BY <1>2 DEF Entry
  <2> HIDE DEF f
  <2>2. Head(q) = f
    BY <1>1, <1>5
  <2>3. start = now
    BY <1>5
  <2>4. e.skill \in Skills /\ e.lvl \in 1..MaxLevel
    BY <1>2 DEF Entry
  <2>5. c.points[e.skill] \in Nat /\ Points[e.lvl] \in Nat /\ Points[e.lvl - 1] \in Nat
        /\ ~ (Points[e.lvl - 1] >= Points[e.lvl])
    BY <1>1, <2>4, PointsType DEF Character
  <2>6. GetCurrentSP(c, e.skill, now) = c.points[e.skill]
    <3>1. (now - now) \div Minute = 0
      BY SkillAssumption DEF SkillAssumption
    <3>2. ((now - now) \div Minute) * SPPerMin = 0
      BY <3>1, SkillAssumption DEF SkillAssumption
    <3> QED
      BY <2>5, <3>2 DEF GetCurrentSP
  <2>7. ASSUME f.end = 0 PROVE c.points[e.skill] >= Points[NextLevel(c, e.skill)]
    <3>1. CASE e.lvl = NextLevel(c, e.skill)
      <4>1. sp = c.points[e.skill]
        BY <2>3, <2>6, <3>1
      <4>2. EndTime(c.points[e.skill], Points[e.lvl], now) = 0
        BY <2>1, <2>3, <2>7, <4>1
      <4> QED
        BY <2>5, <3>1, <4>2, EndTimePositive
    <3>2. CASE e.lvl # NextLevel(c, e.skill)
      <4>1. EndTime(Points[e.lvl - 1], Points[e.lvl], now) = 0
        BY <2>1, <2>3, <2>7, <3>2
      <4> QED
        BY <2>5, <4>1, EndTimePositive
    <3> QED
      BY <3>1, <3>2
  <2> HIDE DEF e, q
  <2>8. Head(d.queue) = f /\ f.skill = e.skill
    BY <1>3, <2>1, <2>2
  <2>9. NextLevel(d, e.skill) = NextLevel(c, e.skill)
    BY <1>3 DEF NextLevel
  <2> QED
    BY <1>3, <2>7, <2>8, <2>9 DEF FrontTimed
<1> QED
  BY <1>3, <1>4, <1>5

LEMMA FlaggedTimed ==
    ASSUME NEW c, Good(c), FrontTimed(c), NEW S
    PROVE  LET d == [c EXCEPT !.flagged = @ \cup S]
           IN  FrontTimed(d) /\ d.level = c.level
<1> PICK d : d = [c EXCEPT !.flagged = @ \cup S]
  OBVIOUS
<1>1. /\ d.inTraining = c.inTraining /\ d.queue = c.queue
      /\ d.level = c.level /\ d.points = c.points
  BY DEF Good, Character
<1> QED
  BY <1>1, SameFront

\* The points that a logout credits only help.
LEMMA CreditedTimed ==
    ASSUME NEW c, Good(c), FrontTimed(c), now \in Nat
    PROVE  FrontTimed(Credited(c)) /\ Credited(c).level = c.level
<1>1. CASE c.inTraining = NoSkill
  BY <1>1 DEF Credited
<1>2. CASE c.inTraining # NoSkill
  <2> PICK s, sp : s = c.inTraining /\ sp = GetCurrentSP(c, s, Head(c.queue).start)
    OBVIOUS
  <2>1. c \in Character /\ c.queue \in Seq(Entry) /\ c.queue # <<>> /\ s \in Skills
        /\ Head(c.queue).skill = s
    BY <1>2 DEF Good, FrontTrains, Character
  <2>2. Head(c.queue).start \in Nat
    BY <2>1, EntryParts DEF Entry
  <2>3. sp \in Nat /\ sp >= c.points[s] /\ c.points[s] \in Nat
    BY <2>1, <2>2, CurrentSP DEF Character
  <2> PICK d : d = Credited(c)
    OBVIOUS
  <2>4. /\ d.queue = c.queue /\ d.inTraining = c.inTraining /\ d.level = c.level
        /\ d.points[s] = sp
    BY <1>2, <2>1 DEF Credited, Character
  <2>5. NextLevel(d, s) = NextLevel(c, s) /\ Points[NextLevel(c, s)] \in Nat
    BY <2>1, <2>4, NextLevelType, PointsType DEF NextLevel
  <2> QED
    BY <2>1, <2>3, <2>4, <2>5 DEF FrontTimed
<1> QED
  BY <1>1, <1>2

\* A cancelled training gives its skill a level only if it ended or has the
\* points.
LEMMA CancelEarned ==
    ASSUME Good(char), FrontTimed(char), now \in Nat, NEW t \in Skills,
           CancelSkillInTraining(char).level[t] > char.level[t]
    PROVE  HasEnded(t) \/ HasThePoints(t, CancelSkillInTraining(char).level[t])
<1> DEFINE s == char.inTraining
           front == Head(char.queue)
           next == NextLevel(char, s)
           sp == GetCurrentSP(char, s, front.start)
<1>1. char \in Character /\ char.level[t] \in Levels
  BY DEF Good, Character
<1>2. ~ (char.level[t] > char.level[t])
  <2>1. char.level[t] \in Nat
    BY <1>1, MaxLevelType DEF Levels
  <2> QED
    BY <2>1
<1>3. s # NoSkill
  BY <1>2 DEF CancelSkillInTraining
<1>4. /\ s \in Skills
      /\ char.queue \in Seq(Entry) /\ char.queue # <<>>
      /\ front.skill = s /\ front \in Entry
  BY <1>1, <1>3, EntryParts DEF Good, FrontTrains, Character
<1>5. CASE front.end < now \/ sp >= Points[next]
  <2>1. CancelSkillInTraining(char) = Stopped(char, next, Points[next], Tail(char.queue))
    BY <1>3, <1>4, <1>5 DEF CancelSkillInTraining
  <2>2. CancelSkillInTraining(char).level = [char.level EXCEPT ![s] = next]
    BY <1>1, <2>1 DEF Stopped, Character
  <2>3. t = s /\ CancelSkillInTraining(char).level[t] = next
    BY <1>1, <1>2, <1>4, <2>2 DEF Character
  <2>4. CASE sp >= Points[next]
    BY <1>4, <2>3, <2>4 DEF HasThePoints
  <2>5. CASE front.end < now /\ front.end # 0
    <3>1. front.end \in Nat
      BY <1>4 DEF Entry
    <3> QED
      BY <1>4, <2>3, <2>5, <3>1 DEF HasEnded
  <2>6. CASE front.end = 0
    BY <1>3, <1>4, <2>3, <2>6 DEF FrontTimed, HasThePoints
  <2> QED
    BY <1>5, <2>4, <2>5, <2>6
<1>6. CASE ~ (front.end < now \/ sp >= Points[next])
  <2>1. CancelSkillInTraining(char) = Stopped(char, char.level[s], sp, Tail(char.queue))
    BY <1>3, <1>4, <1>6 DEF CancelSkillInTraining
  <2>2. CancelSkillInTraining(char).level = [char.level EXCEPT ![s] = char.level[s]]
    BY <1>1, <2>1 DEF Stopped, Character
  <2> QED
    BY <1>1, <1>2, <1>4, <2>2 DEF Character
<1> QED
  BY <1>5, <1>6

\* So is what VerifySP gives at a login.
LEMMA LoadedEarned ==
    ASSUME Good(char), NEW t \in Skills, Loaded(char).level[t] > char.level[t]
    PROVE  HasThePoints(t, Loaded(char).level[t])
<1> DEFINE lvl == char.level[t]
           sp == char.points[t]
           this == IF lvl = MaxLevel THEN MaxLevel - 1 ELSE lvl
<1>1. lvl \in Levels /\ lvl \in Nat /\ sp \in Nat
  BY MaxLevelType DEF Good, Character, Levels
<1>2. /\ t \notin char.flagged
      /\ Loaded(char).level[t] = VerifySP(lvl, sp)[1]
  BY <1>1 DEF Loaded
<1>3. this + 1 \in 1..MaxLevel
  <2>1. this \in 0..(MaxLevel - 1)
    BY <1>1, MaxLevelType DEF Levels
  <2>2. \A m \in Nat : m >= 1 => \A x \in 0..(m - 1) : x + 1 \in 1..m
    OBVIOUS
  <2> QED
    BY <2>1, <2>2, MaxLevelType
<1>4. Points[this + 1] \in Nat
  BY <1>3, PointsType
<1> HIDE DEF this, lvl, sp
<1>5. VerifySP(lvl, sp)[1] = lvl
      \/ (sp > Points[this + 1] /\ VerifySP(lvl, sp)[1] = this + 1)
  BY <1>1, <1>4 DEF VerifySP, this
<1>6. Loaded(char).level[t] > lvl /\ ~ (lvl > lvl)
  BY <1>1 DEF lvl
<1>7. sp > Points[this + 1] /\ Loaded(char).level[t] = this + 1
  BY <1>2, <1>5, <1>6
<1> QED
  BY <1>1, <1>4, <1>7 DEF HasThePoints, sp

\* What LevelEarned says of a step.
EarnedStep ==
    \A s \in Skills : char'.level[s] > char.level[s] =>
                        HasEnded(s) \/ HasThePoints(s, char'.level[s])

LEMMA LevelsKept ==
    ASSUME Good(char), char'.level = char.level
    PROVE  EarnedStep
<1>1. \A s \in Skills : char.level[s] \in Nat
  BY MaxLevelType DEF Good, Character, Levels
<1> QED
  BY <1>1 DEF EarnedStep

\* A cleared queue trains nothing, and the levels are those of the cancelled
\* training.
LEMMA ClearTimed ==
    ASSUME Good(char), FrontTimed(char), now \in Nat,
           char' = ClearSkillQueue(char)
    PROVE  FrontTimed(char') /\ EarnedStep
<1> PICK d : d = CancelSkillInTraining(char)
  OBVIOUS
<1>1. d \in Character /\ d.inTraining = NoSkill
  BY CancelGood DEF Good
<1>2. char' = [d EXCEPT !.queue = <<>>]
  BY DEF ClearSkillQueue
<1>3. char'.inTraining = NoSkill /\ char'.level = d.level
  BY <1>1, <1>2 DEF Character
<1> QED
  BY <1>3, CancelEarned, NothingTrains DEF EarnedStep

\* The loop is entered with what may have no end; without it the front ends
\* later than now.
LEMMA LoopTimed ==
    ASSUME TimedInv, now' = now, now \in Nat, NEW c, Good(c), SkillQueueLoop(c),
           c.queue # <<>> => c.inTraining # NoSkill
    PROVE  TimedInv' /\ char' = c
<1>1. c.queue # <<>> => c.inTraining = Head(c.queue).skill
  BY DEF Good, FrontTrains
<1>2. CASE c.queue = <<>>
  <2>1. char' = c /\ c.inTraining = NoSkill
    BY <1>2 DEF SkillQueueLoop, Good, FrontTrains
  <2> QED
    BY <2>1, NothingTrains DEF TimedInv
<1>3. CASE c.queue # <<>> /\ Head(c.queue).end > now
  <2>1. char' = c
    BY <1>1, <1>3 DEF SkillQueueLoop, UpdateSkillQueueEndTime
  <2>2. Head(c.queue).end # 0
    BY <1>3 DEF TimedInv
  <2>3. FrontTimed(c)
    BY <2>2 DEF FrontTimed
  <2> QED
    BY <2>1, <2>3 DEF TimedInv
<1>4. CASE c.queue # <<>> /\ ~ (Head(c.queue).end > now)
  BY <1>1, <1>4 DEF SkillQueueLoop, TimedInv
<1> QED
  BY <1>2, <1>3, <1>4

LEMMA DownTimed ==
    ASSUME Inv, TimedInv, Down
    PROVE  TimedInv' /\ EarnedStep
<1>1. Good(char)
  BY InvGood
<1>2. char'.inTraining = NoSkill /\ char'.level = char.level
  BY <1>1 DEF Down, Unloaded, Good, Character
<1>3. FrontTimed(char')
  BY <1>2, NothingTrains
<1> QED
  BY <1>1, <1>2, <1>3, LevelsKept DEF Down, TimedInv

LEMMA LoginTimed ==
    ASSUME Inv, TimedInv, Login
    PROVE  TimedInv' /\ EarnedStep
<1> PICK c : c = Loaded(char)
  OBVIOUS
<1>1. rows \in Seq(Entry) /\ Good(char) /\ now \in Nat /\ now' = now
  BY InvGood DEF Inv, TypeOK, Login
<1>2. Good(c) /\ (c.queue # <<>> => c.inTraining = Head(c.queue).skill)
  BY <1>1, LoadedGood
<1>3. c.queue # <<>> => c.inTraining # NoSkill
  <2>1. ASSUME c.queue # <<>> PROVE Head(c.queue).skill \in Skills
    BY <1>2, <2>1, EntryParts DEF Good, Character, Entry
  <2> QED
    BY <1>2, <2>1, SkillAssumption DEF SkillAssumption
<1>4. TimedInv' /\ char' = c
  BY <1>1, <1>2, <1>3, LoopTimed DEF Login
<1> QED
  BY <1>1, <1>4, LoadedEarned DEF EarnedStep

LEMMA TimerTimed ==
    ASSUME Inv, TimedInv, SkillTimerFires
    PROVE  TimedInv' /\ EarnedStep
<1>1. CASE /\ char.queue # <<>> => char.inTraining # NoSkill
           /\ SkillQueueLoop(char)
           /\ UNCHANGED <<now, online, paused, todo, at>>
  <2>1. TimedInv' /\ char' = char
    BY <1>1, InvGood, LoopTimed
  <2> QED
    BY <2>1, InvGood, LevelsKept
<1>2. CASE Down
  BY <1>2, DownTimed
<1> QED
  BY <1>1, <1>2 DEF SkillTimerFires

LEMMA LoopStepTimed ==
    ASSUME Inv, TimedInv, LoopStep
    PROVE  TimedInv' /\ EarnedStep
<1>1. Good(char) /\ char \in Character /\ now \in Nat /\ now' = now /\ now >= 1
  BY InvGood DEF LoopStep, TimedInv, Good
<1>2. CASE char.queue = <<>> /\ UpdateSkillQueueEndTime(char)
  <2>1. char' = char /\ char.inTraining = NoSkill
    BY <1>1, <1>2 DEF UpdateSkillQueueEndTime, Good, FrontTrains
  <2> QED
    BY <1>1, <2>1, NothingTrains, LevelsKept DEF TimedInv
<1>3. CASE char' = Dropped(char) /\ UNCHANGED pc
  <2>1. char'.inTraining = NoSkill /\ char'.level = char.level
    BY <1>1, <1>3 DEF Dropped, Character
  <2> QED
    BY <1>1, <2>1, NothingTrains, LevelsKept DEF TimedInv
<1>4. CASE /\ char.queue # <<>>
           /\ Head(char.queue).end \in 1..(now - 1)
           /\ char' = Completed(char)
           /\ UNCHANGED pc
  <2> PICK front : front = Head(char.queue)
    OBVIOUS
  <2>1. /\ char'.inTraining = NoSkill
        /\ char'.level = [char.level EXCEPT ![front.skill] = front.lvl]
    BY <1>1, <1>4 DEF Completed, Character
  <2>2. FrontTimed(char')
    BY <2>1, NothingTrains
  <2>3. ASSUME NEW s \in Skills, char'.level[s] > char.level[s]
        PROVE  HasEnded(s)
    <3>1. char.level[s] \in Nat
      BY <1>1, MaxLevelType DEF Character, Levels
    <3>2. s = front.skill
      BY <1>1, <2>1, <2>3, <3>1 DEF Character
    <3> QED
      BY <1>4, <3>2 DEF HasEnded
  <2> QED
    BY <1>1, <2>2, <2>3 DEF TimedInv, EarnedStep
<1>5. CASE /\ char.queue # <<>>
           /\ Head(char.queue).end >= now
           /\ UpdateSkillQueueEndTime(Started(char))
  <2>1. char' = Started(char)
    BY <1>5 DEF UpdateSkillQueueEndTime
  <2>2. char'.queue = char.queue /\ char'.level = char.level
    BY <1>1, <2>1 DEF Started, Character
  <2>3. Head(char'.queue).end # 0
    BY <1>1, <1>5, <2>2
  <2>4. FrontTimed(char')
    BY <2>3 DEF FrontTimed
  <2> QED
    BY <1>1, <2>2, <2>4, LevelsKept DEF TimedInv
<1> QED
  BY <1>2, <1>3, <1>4, <1>5 DEF LoopStep

LEMMA InsertTimed ==
    ASSUME Inv, TimedInv, InsertRows
    PROVE  TimedInv' /\ EarnedStep
<1>1. Good(char) /\ now' = now /\ FrontTimed(char)
  BY InvGood DEF InsertRows, TimedInv
<1>2. CASE char' = char
  BY <1>1, <1>2, LevelsKept DEF TimedInv
<1>3. CASE char' = Unloaded(char)
  <2>1. char'.inTraining = NoSkill /\ char'.level = char.level
    BY <1>1, <1>3 DEF Unloaded, Good, Character
  <2> QED
    BY <1>1, <2>1, NothingTrains, LevelsKept DEF TimedInv
<1> QED
  BY <1>2, <1>3 DEF InsertRows

\* The steps of the handlers that fill and time the queue.
LEMMA AddStepTimed ==
    ASSUME Inv, TimedInv, AddStep
    PROVE  TimedInv' /\ EarnedStep
<1>1. /\ Good(char) /\ FrontTimed(char) /\ todo \in Seq(Request)
      /\ now \in Nat /\ now >= 1 /\ now' = now
  BY InvGood DEF AddStep, TimedInv, Inv, TypeOK
<1>2. CASE todo # <<>> /\ char' = AddToSkillQueue(char, Head(todo))
  <2>1. Head(todo) \in Request
    BY <1>1, <1>2, RequestParts
  <2>2. FrontTimed(char') /\ char'.level = char.level
    BY <1>1, <1>2, <2>1, AddTimed
  <2> QED
    BY <1>1, <2>2, LevelsKept DEF TimedInv
<1>3. CASE UpdateSkillQueueEndTime(char)
  <2>1. char' = char
    BY <1>3 DEF UpdateSkillQueueEndTime
  <2> QED
    BY <1>1, <2>1, LevelsKept DEF TimedInv
<1> QED
  BY <1>2, <1>3 DEF AddStep

LEMMA RetimeStepTimed ==
    ASSUME Inv, TimedInv, RetimeStep
    PROVE  TimedInv' /\ EarnedStep
<1>1. /\ Good(char) /\ FrontTimed(char)
      /\ now \in Nat /\ now >= 1 /\ now' = now
      /\ at \in Nat /\ at >= 1 /\ Len(char.queue) \in Nat
  BY InvGood DEF RetimeStep, TimedInv, Inv, TypeOK, HandlerOK, Good, Character
<1>2. CASE at <= Len(char.queue) /\ char' = Retimed(char, at)
  <2>1. at \in 1..Len(char.queue)
    BY <1>1, <1>2
  <2>2. FrontTimed(char') /\ char'.level = char.level
    BY <1>1, <1>2, <2>1, RetimedTimed
  <2> QED
    BY <1>1, <2>2, LevelsKept DEF TimedInv
<1>3. CASE UpdateSkillQueueEndTime([char EXCEPT
             !.flagged = @ \cup {Head(char.queue).skill}])
  <2>1. char' = [char EXCEPT !.flagged = @ \cup {Head(char.queue).skill}]
    BY <1>3 DEF UpdateSkillQueueEndTime
  <2>2. FrontTimed(char') /\ char'.level = char.level
    BY <1>1, <2>1, FlaggedTimed
  <2> QED
    BY <1>1, <2>2, LevelsKept DEF TimedInv
<1> QED
  BY <1>2, <1>3 DEF RetimeStep

LEMMA AddToEndTimed ==
    ASSUME Inv, TimedInv, NEW r \in Wanted, AddToEndOfSkillQueue(r)
    PROVE  TimedInv' /\ EarnedStep
<1>1. /\ Good(char) /\ FrontTimed(char) /\ r \in Request
      /\ now \in Nat /\ now >= 1 /\ now' = now
  BY InvGood, SkillAssumption DEF AddToEndOfSkillQueue, Idle, TimedInv, SkillAssumption
<1>2. char' = AddToSkillQueue(char, r)
  BY DEF AddToEndOfSkillQueue, UpdateSkillQueueEndTime
<1>3. FrontTimed(char') /\ char'.level = char.level
  BY <1>1, <1>2, AddTimed
<1> QED
  BY <1>1, <1>3, LevelsKept DEF TimedInv

LEMMA LoadPausedTimed ==
    ASSUME Inv, TimedInv, LoadPausedSkillQueue
    PROVE  TimedInv' /\ EarnedStep
<1> DEFINE extra == [i \in 1..Len(paused) |->
                       [skill |-> paused[i].skill, lvl |-> paused[i].lvl,
                        start |-> 0, end |-> 0]]
<1>1. /\ Good(char) /\ char \in Character /\ char.queue \in Seq(Entry)
      /\ FrontTimed(char) /\ now' = now /\ paused \in Seq(Request)
  BY InvGood DEF Good, Character, LoadPausedSkillQueue, Idle, TimedInv, Inv, TypeOK
<1>2. extra \in Seq(Entry)
  <2>1. ASSUME NEW i \in 1..Len(paused)
        PROVE  [skill |-> paused[i].skill, lvl |-> paused[i].lvl,
                start |-> 0, end |-> 0] \in Entry
    <3>1. paused[i] \in Request
      BY <1>1
    <3> QED
      BY <3>1 DEF Entry, Request
  <2>2. Len(paused) \in Nat /\ extra \in [1..Len(paused) -> Entry]
    BY <1>1, <2>1
  <2> QED
    BY <2>2
<1> PICK q : q = char.queue \o extra
  OBVIOUS
<1>3. char' = [char EXCEPT !.queue = q]
  BY DEF LoadPausedSkillQueue
<1> HIDE DEF extra
<1>4. char.queue # <<>> => Head(q) = Head(char.queue)
  BY <1>1, <1>2
<1>5. /\ char'.inTraining = char.inTraining /\ char'.queue = q
      /\ char'.level = char.level /\ char'.points = char.points
  BY <1>1, <1>3 DEF Character
<1>6. FrontTimed(char')
  BY <1>1, <1>4, <1>5, SameFront DEF Good, FrontTrains
<1> QED
  BY <1>1, <1>5, <1>6, LevelsKept DEF TimedInv

LEMMA LogOutTimed ==
    ASSUME Inv, TimedInv, LogOut
    PROVE  TimedInv' /\ EarnedStep
<1>1. Good(char) /\ FrontTimed(char) /\ now \in Nat /\ now' = now
  BY InvGood DEF LogOut, Idle, TimedInv
<1>2. FrontTimed(char') /\ char'.level = char.level
  BY <1>1, CreditedTimed DEF LogOut
<1> QED
  BY <1>1, <1>2, LevelsKept DEF TimedInv

\* The handlers that clear the queue: replaced, paused, and lost with the pod.
LEMMA ClearingTimed ==
    ASSUME Inv, TimedInv, char' = ClearSkillQueue(char), pc = "idle", now' = now
    PROVE  TimedInv' /\ EarnedStep
<1>1. Good(char) /\ FrontTimed(char) /\ now \in Nat
  BY InvGood DEF TimedInv
<1>2. FrontTimed(char') /\ EarnedStep
  BY <1>1, ClearTimed
<1> QED
  BY <1>2 DEF TimedInv

LEMMA CharKept ==
    ASSUME Inv, TimedInv, UNCHANGED <<pc, char>>, now' >= now, now' \in Nat
    PROVE  TimedInv' /\ EarnedStep
<1>1. Good(char) /\ now \in Nat
  BY InvGood
<1> QED
  BY <1>1, LevelsKept DEF TimedInv, FrontTimed, NextLevel

LEMMA InitiallyTimed == Init => TimedInv
  BY NothingTrains DEF Init, TimedInv, FrontTimed

LEMMA StepTimed == Inv /\ TimedInv /\ [Next]_vars => TimedInv' /\ EarnedStep
<1> SUFFICES ASSUME Inv, TimedInv, [Next]_vars PROVE TimedInv' /\ EarnedStep
  OBVIOUS
<1>0. now \in Nat
  BY InvGood
<1>1. CASE Tick
  BY <1>0, <1>1, CharKept DEF Tick
<1>2. CASE Login
  BY <1>2, LoginTimed
<1>3. CASE SkillTimerFires
  BY <1>3, TimerTimed
<1>4. CASE HandlerStep
  BY <1>4, LoopStepTimed, InsertTimed, AddStepTimed, RetimeStepTimed DEF HandlerStep
<1>5. CASE \E n \in 0..MaxQueue : \E list \in [1..n -> Wanted] : SaveSkillQueue(list)
  BY <1>5, ClearingTimed DEF SaveSkillQueue, Idle
<1>6. CASE \E r \in Wanted : AddToEndOfSkillQueue(r)
  BY <1>6, AddToEndTimed
<1>7. CASE PauseSkillQueue
  BY <1>7, ClearingTimed DEF PauseSkillQueue, UpdateSkillQueueEndTime, Idle
<1>8. CASE LoadPausedSkillQueue
  BY <1>8, LoadPausedTimed
<1>9. CASE GetEndOfTraining
  BY <1>0, <1>9, CharKept DEF GetEndOfTraining
<1>10. CASE ResetChar
  BY <1>10, ClearingTimed DEF ResetChar, Idle
<1>11. CASE LogOut
  BY <1>11, LogOutTimed
<1>12. CASE Crash
  BY <1>12, DownTimed DEF Crash
<1>13. CASE UNCHANGED vars
  BY <1>0, <1>13, CharKept DEF vars
<1> QED
  BY <1>1, <1>2, <1>3, <1>4, <1>5, <1>6, <1>7, <1>8, <1>9, <1>10, <1>11, <1>12,
     <1>13 DEF Next

\* A skill rises only when its entry has ended or it has the points, for any
\* number of skills, any levels and any sequence of saves, pauses, resumes,
\* logins, timers and crashes.
THEOREM LevelsAreEarned == Spec => LevelEarned
<1>1. Inv /\ TimedInv /\ [Next]_vars => TimedInv'
  BY StepTimed
<1>2. Inv /\ TimedInv /\ [Next]_vars =>
        [\A s \in Skills :
           char'.level[s] > char.level[s] =>
             HasEnded(s) \/ HasThePoints(s, char'.level[s])]_vars
  BY StepTimed DEF EarnedStep
<1> QED
  BY <1>1, <1>2, InitiallyTimed, Invariance, PTL DEF Spec, LevelEarned
=============================================================================
