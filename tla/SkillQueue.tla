----------------------------- MODULE SkillQueue -----------------------------
(***************************************************************************)
(* The skill queue of one character: eve-server/character/Character.cpp    *)
(* with the calls of SkillMgrService.cpp, the timer of Client.cpp and the  *)
(* tables chrSkillQueue and chrPausedSkillQueue of CharacterDB.cpp.        *)
(*                                                                         *)
(* A handler runs in the main thread, so no other handler and no timer     *)
(* interleaves with it, but the server may crash inside it: the steps that *)
(* write the database one after the other are apart here ("pc").  The      *)
(* clock does not advance inside a handler.                                *)
(*                                                                         *)
(* char holds what the Character object holds.  Its skills (level, points, *)
(* flag) are saved as they change and survive a crash; its queue and       *)
(* m_inTraining do not.  m_inTraining is a raw pointer, NoSkill is null.   *)
(***************************************************************************)
EXTENDS Integers, Sequences

CONSTANTS Skills, NoSkill,
          MaxLevel,    \* EvESkill::MAXSKILLLEVEL
          Points,      \* the points each level asks for (GetSPForLevel)
          SPPerMin,    \* points trained in a minute (GetSPPerMin)
          Minute, Second,
          Wanted,      \* bound on what the player asks for: skills with levels
          MaxTime,     \* bound on the clock
          MaxPoints,   \* bound on the points a logout credits
          MaxQueue     \* bound on the entries queued and paused

Levels == 0..MaxLevel

\* QueuedSkill, without and with its times.
Request == [skill : Skills, lvl : 1..MaxLevel]
Entry == [skill : Skills, lvl : 1..MaxLevel, start : Nat, end : Nat]

ASSUME SkillAssumption ==
    /\ NoSkill \notin Skills
    /\ MaxLevel \in Nat \ {0}
    /\ Points \in [Levels -> Nat \ {0}]
    /\ \A l \in 1..MaxLevel : Points[l - 1] < Points[l]
    /\ SPPerMin \in Nat \ {0}
    /\ Minute \in Nat \ {0}
    /\ Second \in Nat \ {0}
    /\ Wanted \subseteq Request
    /\ MaxTime \in Nat
    /\ MaxPoints \in Nat
    /\ MaxQueue \in Nat

VARIABLES
    now,         \* GetFileTimeNow()
    online,      \* a Client is logged in with the character
    pc,          \* where the handler in progress stands, "idle" for none
    char,        \* the character: queue, inTraining, level, points, flagged
    skillTimer,  \* Client::m_skillTimer, 0 for off
    rows,        \* chrSkillQueue
    paused,      \* chrPausedSkillQueue
    todo,        \* what SaveSkillQueue still has to add
    at           \* the entry LoadPausedSkillQueue times next

vars == <<now, online, pc, char, skillTimer, rows, paused, todo, at>>


\* flagged: the skills with flagSkillInTraining.
Character == [queue : Seq(Entry), inTraining : Skills \cup {NoSkill},
              level : [Skills -> Levels], points : [Skills -> Nat],
              flagged : SUBSET Skills]

NextLevel(c, s) == IF c.level[s] < MaxLevel THEN c.level[s] + 1 ELSE MaxLevel

\* EvEMath::Skill::EndTime.
EndTime(current, next, start) ==
    IF current >= next THEN 0
    ELSE start + ((next - current) \div SPPerMin) * Minute

\* Skill::GetCurrentSP; start is 0 when the caller gives none.
GetCurrentSP(c, s, start) ==
    IF s \in c.flagged /\ start # 0 /\ start <= now
    THEN c.points[s] + ((now - start) \div Minute) * SPPerMin
    ELSE c.points[s]

-----------------------------------------------------------------------------
(* What the parts of a handler make of the character.                      *)

\* The skill in training is set to these points and no longer trains.
Stopped(c, lvl, sp, queue) ==
    [c EXCEPT !.queue = queue,
              !.inTraining = NoSkill,
              !.level[c.inTraining] = lvl,
              !.points[c.inTraining] = sp,
              !.flagged = @ \ {c.inTraining}]

\* Mutant of CancelSkillInTraining: the level is given in any case.
CancelGivesLevel(c) ==
    LET next == NextLevel(c, c.inTraining)
    IN IF c.inTraining = NoSkill \/ c.queue = <<>> THEN c
       ELSE Stopped(c, next, Points[next], Tail(c.queue))

\* CancelSkillInTraining: with nothing in training the queue is left alone.
CancelSkillInTraining(c) ==
    LET s == c.inTraining
        front == Head(c.queue)
        next == NextLevel(c, s)
        sp == GetCurrentSP(c, s, front.start)
    IN IF s = NoSkill \/ c.queue = <<>> THEN c
       ELSE IF front.skill # s THEN Stopped(c, c.level[s], c.points[s], c.queue)
       ELSE IF front.end < now \/ sp >= Points[next]
            THEN Stopped(c, next, Points[next], Tail(c.queue))
            ELSE Stopped(c, c.level[s], sp, Tail(c.queue))

\* Mutant of ClearSkillQueue: the training is not cancelled first.
ClearOnly(c) == [c EXCEPT !.queue = <<>>]

ClearSkillQueue(c) == [CancelSkillInTraining(c) EXCEPT !.queue = <<>>]

\* AddToSkillQueue.  A level that is reached already is not queued, and the
\* skill is marked as not training; levels may be left out or queued twice.
AddToSkillQueue(c, r) ==
    LET s == r.skill
        sp == IF r.lvl > NextLevel(c, s) THEN Points[r.lvl - 1] ELSE c.points[s]
        Queued(start) == Append(c.queue,
            [skill |-> s, lvl |-> r.lvl, start |-> start,
             end |-> EndTime(sp, Points[r.lvl], start)])
    IN IF r.lvl < NextLevel(c, s) \/ sp >= Points[r.lvl]
       THEN [c EXCEPT !.flagged = @ \ {s}]
       ELSE IF c.queue = <<>>
       THEN [c EXCEPT !.queue = Queued(now), !.inTraining = s,
                      !.flagged = @ \cup {s}]
       ELSE [c EXCEPT !.queue = Queued(c.queue[Len(c.queue)].end + Second)]

\* What LoadPausedSkillQueue's loop makes of entry i: its times are counted
\* from the end of the entry before it.
Retimed(c, i) ==
    LET e == c.queue[i]
        start == IF i = 1 THEN now ELSE c.queue[i - 1].end
        sp == IF e.lvl = NextLevel(c, e.skill)
              THEN GetCurrentSP(c, e.skill, start)
              ELSE Points[e.lvl - 1]
    IN [c EXCEPT !.queue[i] = [e EXCEPT !.start = start,
                                        !.end = EndTime(sp, Points[e.lvl], start)]]

\* Mutant of Completed: the points are those of the time spent, not of the
\* level.
CompletedLevel(c) ==
    LET front == Head(c.queue)
    IN [c EXCEPT !.queue = Tail(@), !.inTraining = NoSkill,
                 !.level[front.skill] = front.lvl,
                 !.flagged = @ \ {front.skill}]

\* The branches of SkillQueueLoop's loop for the front of the queue: an entry
\* that was never timed, one that is due, and one that has to go on.
Dropped(c) == [c EXCEPT !.queue = Tail(@), !.inTraining = NoSkill,
                        !.flagged = @ \ {Head(c.queue).skill}]
Completed(c) ==
    LET front == Head(c.queue)
    IN [c EXCEPT !.queue = Tail(@), !.inTraining = NoSkill,
                 !.level[front.skill] = front.lvl,
                 !.points[front.skill] = Points[front.lvl],
                 !.flagged = @ \ {front.skill}]
Started(c) == [c EXCEPT !.inTraining = Head(c.queue).skill,
                        !.flagged = @ \cup {Head(c.queue).skill}]

\* Character::VerifySP for one skill: the pair of its level and points.  The
\* code calls itself again after a repair, which then finds nothing more.
VerifySP(lvl, sp) ==
    LET this == IF lvl = MaxLevel THEN MaxLevel - 1 ELSE lvl
    IN CASE sp = 0 -> <<lvl, sp>>
         [] sp # 0 /\ sp < Points[this] -> <<lvl, Points[this]>>
         [] sp # 0 /\ sp > Points[this + 1] -> <<this + 1, Points[this + 1]>>
         [] OTHER -> <<lvl, sp>>

\* The character as Client::SelectCharacter loads it: _Load reads the queue,
\* VerifySP repairs the skills that are not marked as training, and
\* CheckSkillQueue takes the front of the queue as the one in training.
Loaded(c) ==
    LET Checked(s) == IF s \in c.flagged THEN <<c.level[s], c.points[s]>>
                      ELSE VerifySP(c.level[s], c.points[s])
    IN [queue |-> rows,
        inTraining |-> IF rows = <<>> THEN NoSkill ELSE Head(rows).skill,
        level |-> [s \in Skills |-> Checked(s)[1]],
        points |-> [s \in Skills |-> Checked(s)[2]],
        flagged |-> IF rows = <<>> THEN c.flagged
                    ELSE c.flagged \cup {Head(rows).skill}]

\* SaveFullCharacter credits what the skill in training has got so far.
Credited(c) ==
    IF c.inTraining = NoSkill THEN c
    ELSE [c EXCEPT !.points[c.inTraining] =
                     GetCurrentSP(c, c.inTraining, Head(c.queue).start)]

\* Mutant of Unloaded: the pointer to the skill in training stays.
UnloadedTraining(c) == [c EXCEPT !.queue = <<>>]

\* The Character object is gone; its skills stay in the database.
Unloaded(c) == [c EXCEPT !.queue = <<>>, !.inTraining = NoSkill]

-----------------------------------------------------------------------------
(* Ends of handlers.                                                       *)

\* Mutant of UpdateSkillQueueEndTime: the timer is set only when it is off.
UpdateOnce(c) ==
    /\ char' = c
    /\ skillTimer' = IF c.queue = <<>> THEN 0
                     ELSE IF skillTimer = 0 THEN Head(c.queue).end ELSE skillTimer
    /\ pc' = IF c.queue = <<>> THEN "idle" ELSE "insert"
    /\ rows' = IF c.queue = <<>> THEN rows ELSE <<>>

\* Sets the timer and saves the queue, in a DELETE and then an INSERT.  When
\* the queue has become empty, the old rows stay.
UpdateSkillQueueEndTime(c) ==
    /\ char' = c
    /\ skillTimer' = IF c.queue = <<>> THEN 0 ELSE Head(c.queue).end
    /\ pc' = IF c.queue = <<>> THEN "idle" ELSE "insert"
    /\ rows' = IF c.queue = <<>> THEN rows ELSE <<>>

\* Mutant of SkillQueueLoop: the front is taken as still training once due.
LoopReversed(c) ==
    IF c.queue = <<>> THEN char' = c /\ UNCHANGED <<skillTimer, pc, rows>>
    ELSE IF Head(c.queue).end < now THEN UpdateSkillQueueEndTime(c)
    ELSE char' = c /\ pc' = "loop" /\ UNCHANGED <<skillTimer, rows>>

\* The start of SkillQueueLoop, up to its loop.
SkillQueueLoop(c) ==
    LET aligned == IF c.inTraining # Head(c.queue).skill
                   THEN CancelSkillInTraining(c) ELSE c
    IN IF c.queue = <<>> THEN char' = c /\ UNCHANGED <<skillTimer, pc, rows>>
       ELSE IF Head(aligned.queue).end > now THEN UpdateSkillQueueEndTime(aligned)
       ELSE char' = aligned /\ pc' = "loop" /\ UNCHANGED <<skillTimer, rows>>

\* The server process ends, and deletes chrPausedSkillQueue when it starts.
Down ==
    /\ online' = FALSE
    /\ pc' = "idle"
    /\ char' = Unloaded(char)
    /\ skillTimer' = 0
    /\ paused' = <<>>
    /\ todo' = <<>>
    /\ at' = 0
    /\ UNCHANGED <<now, rows>>

-----------------------------------------------------------------------------
(* Actions.                                                                *)

Idle == online /\ pc = "idle"

Tick ==
    /\ pc = "idle"
    /\ now < MaxTime
    /\ now' = now + 1
    /\ UNCHANGED <<online, pc, char, skillTimer, rows, paused, todo, at>>

\* Client::SelectCharacter.
Login ==
    /\ ~ online
    /\ online' = TRUE
    /\ SkillQueueLoop(Loaded(char))
    /\ UNCHANGED <<now, paused, todo, at>>

\* Client::ProcessClient: the timer has passed.  The loop follows
\* m_inTraining without a test.
SkillTimerFires ==
    /\ Idle
    /\ skillTimer > 0
    /\ skillTimer < now
    /\ \/ /\ char.queue # <<>> => char.inTraining # NoSkill
          /\ SkillQueueLoop(char)
          /\ UNCHANGED <<now, online, paused, todo, at>>
       \/ /\ char.queue # <<>>
          /\ char.inTraining = NoSkill
          /\ Down

\* One pass of SkillQueueLoop's loop, and what follows it.
LoopStep ==
    /\ pc = "loop"
    /\ \/ /\ char.queue = <<>>
          /\ UpdateSkillQueueEndTime(char)
       \/ /\ char.queue # <<>>
          /\ Head(char.queue).end = 0
          /\ char' = Dropped(char)
          /\ UNCHANGED <<pc, skillTimer, rows>>
       \/ /\ char.queue # <<>>
          /\ Head(char.queue).end \in 1..(now - 1)
          /\ char' = Completed(char)
          /\ UNCHANGED <<pc, skillTimer, rows>>
       \/ /\ char.queue # <<>>
          /\ Head(char.queue).end >= now
          /\ UpdateSkillQueueEndTime(Started(char))
    /\ UNCHANGED <<now, online, paused, todo, at>>

\* The INSERT of CharacterDB::SaveSkillQueue; a logout ends with it.
InsertRows ==
    /\ pc \in {"insert", "logout"}
    /\ rows' = char.queue
    /\ pc' = "idle"
    /\ online' = (pc = "insert")
    /\ char' = IF pc = "insert" THEN char ELSE Unloaded(char)
    /\ skillTimer' = IF pc = "insert" THEN skillTimer ELSE 0
    /\ UNCHANGED <<now, paused, todo, at>>

\* Handle_SaveSkillQueue: the client replaces the queue.
SaveSkillQueue(list) ==
    /\ Idle
    /\ Len(list) <= MaxQueue
    /\ char' = ClearSkillQueue(char)
    /\ todo' = list
    /\ pc' = "add"
    /\ UNCHANGED <<now, online, skillTimer, rows, paused, at>>

AddStep ==
    /\ pc = "add"
    /\ \/ /\ todo # <<>>
          /\ char' = AddToSkillQueue(char, Head(todo))
          /\ todo' = Tail(todo)
          /\ UNCHANGED <<pc, skillTimer, rows>>
       \/ /\ todo = <<>>
          /\ UpdateSkillQueueEndTime(char)
          /\ UNCHANGED todo
    /\ UNCHANGED <<now, online, paused, at>>

AddToEndOfSkillQueue(r) ==
    /\ Idle
    /\ Len(char.queue) + Len(paused) < MaxQueue
    /\ UpdateSkillQueueEndTime(AddToSkillQueue(char, r))
    /\ UNCHANGED <<now, online, paused, todo, at>>

\* PauseSkillQueue.
PauseSkillQueue ==
    /\ Idle
    /\ paused' = [i \in 1..Len(char.queue) |->
                    [skill |-> char.queue[i].skill, lvl |-> char.queue[i].lvl]]
    /\ UpdateSkillQueueEndTime(ClearSkillQueue(char))
    /\ UNCHANGED <<now, online, todo, at>>

\* LoadPausedSkillQueue, up to its loop: the paused entries follow those in
\* the queue.
LoadPausedSkillQueue ==
    /\ Idle
    /\ Len(char.queue) + Len(paused) <= MaxQueue
    /\ char' = [char EXCEPT !.queue = @ \o
                  [i \in 1..Len(paused) |->
                    [skill |-> paused[i].skill, lvl |-> paused[i].lvl,
                     start |-> 0, end |-> 0]]]
    /\ paused' = <<>>
    /\ IF char'.queue = <<>> THEN UNCHANGED <<pc, at>>
       ELSE pc' = "retime" /\ at' = 1
    /\ UNCHANGED <<now, online, skillTimer, rows, todo>>

\* Its loop, and then the first skill is marked as training; m_inTraining is
\* not set.
RetimeStep ==
    /\ pc = "retime"
    /\ \/ /\ at <= Len(char.queue)
          /\ char' = Retimed(char, at)
          /\ at' = at + 1
          /\ UNCHANGED <<pc, skillTimer, rows>>
       \/ /\ at > Len(char.queue)
          /\ at' = 0
          /\ UpdateSkillQueueEndTime([char EXCEPT
               !.flagged = @ \cup {Head(char.queue).skill}])
    /\ UNCHANGED <<now, online, paused, todo>>

\* GetEndOfTraining sets the timer again.
GetEndOfTraining ==
    /\ Idle
    /\ char.inTraining # NoSkill
    /\ skillTimer' = Head(char.queue).end
    /\ UNCHANGED <<now, online, pc, char, rows, paused, todo, at>>

\* ResetChar, after the pod is lost: SaveFullCharacter deletes the rows of the
\* queue, which is empty; the timer is left as it is.
ResetChar ==
    /\ Idle
    /\ char' = ClearSkillQueue(char)
    /\ rows' = <<>>
    /\ UNCHANGED <<now, online, pc, skillTimer, paused, todo, at>>

\* Character::LogOut: SaveFullCharacter, up to the DELETE of the rows.
LogOut ==
    /\ Idle
    /\ \A s \in Skills : Credited(char).points[s] <= MaxPoints
    /\ char' = Credited(char)
    /\ rows' = <<>>
    /\ pc' = "logout"
    /\ UNCHANGED <<now, online, skillTimer, paused, todo, at>>

\* The server stops or crashes, between any two steps.
Crash == Down

Init ==
    /\ now = 1
    /\ online = FALSE
    /\ pc = "idle"
    /\ char = [queue |-> <<>>, inTraining |-> NoSkill,
               level |-> [s \in Skills |-> 0], points |-> [s \in Skills |-> 0],
               flagged |-> {}]
    /\ skillTimer = 0
    /\ rows = <<>>
    /\ paused = <<>>
    /\ todo = <<>>
    /\ at = 0

HandlerStep == LoopStep \/ InsertRows \/ AddStep \/ RetimeStep

Next ==
    \/ Tick \/ Login \/ SkillTimerFires \/ HandlerStep
    \/ \E n \in 0..MaxQueue : \E list \in [1..n -> Wanted] : SaveSkillQueue(list)
    \/ \E r \in Wanted : AddToEndOfSkillQueue(r)
    \/ PauseSkillQueue \/ LoadPausedSkillQueue \/ GetEndOfTraining
    \/ ResetChar \/ LogOut \/ Crash

\* A handler that has begun goes on, and the main loop processes the client
\* again and again, between any two of its calls.
Fairness == WF_vars(HandlerStep) /\ SF_vars(SkillTimerFires)

Spec == Init /\ [][Next]_vars /\ Fairness

-----------------------------------------------------------------------------
(* Properties.                                                             *)

TypeOK ==
    /\ now \in Nat
    /\ online \in BOOLEAN
    /\ pc \in {"idle", "loop", "insert", "logout", "add", "retime"}
    /\ ~ online => pc = "idle" /\ char.queue = <<>> /\ char.inTraining = NoSkill
    /\ char \in Character
    /\ skillTimer \in Nat
    /\ rows \in Seq(Entry)
    /\ paused \in Seq(Request)
    /\ todo \in Seq(Request)
    /\ at \in Nat

\* Whatever a player has done to a queue that is not empty is in the database
\* when the handler ends, in the same order and with the same times.
QueueSaved == Idle /\ char.queue # <<>> => rows = char.queue

\* The client's timer is that of the front of the queue: the server always
\* looks at the queue again when its first entry ends.
TimerArmed == Idle /\ char.queue # <<>> => skillTimer = Head(char.queue).end

\* Both: table and timer are those of the queue in memory, which a crash, or the
\* passing of time, would otherwise get at the wrong entry.
QueueSettled == QueueSaved /\ TimerArmed

\* m_inTraining never points to a skill that is not the front of the queue,
\* which SkillQueueLoop, GetEndOfTraining and SaveFullCharacter rely on.
TrainingIsFront ==
    char.inTraining # NoSkill =>
      char.queue # <<>> /\ Head(char.queue).skill = char.inTraining

\* A skill never has a level without the points of that level, whichever way
\* the training ended: done, cancelled, paused, or cut short by a crash.
LevelHasPoints ==
    \A s \in Skills : char.level[s] > 0 => char.points[s] >= Points[char.level[s]]

\* The entry that trains skill s is over, and s has the points of a level, those
\* trained since the start of its entry included.
HasEnded(s) ==
    /\ char.queue # <<>>
    /\ Head(char.queue).skill = s
    /\ Head(char.queue).end \in 1..(now - 1)

HasThePoints(s, lvl) ==
    \/ char.points[s] >= Points[lvl]
    \/ /\ char.queue # <<>>
       /\ Head(char.queue).skill = s
       /\ GetCurrentSP(char, s, Head(char.queue).start) >= Points[lvl]

\* No skill rises before its time: its entry, at the front of the queue, has
\* ended, or the points of the new level are there.  CancelSkillInTraining only
\* asks whether the end is before now, which an entry without an end (0) would
\* pass, and queues are paused, resumed, reloaded and timed again.
LevelEarned ==
    [][\A s \in Skills :
         char'.level[s] > char.level[s] =>
           HasEnded(s) \/ HasThePoints(s, char'.level[s])]_vars

\* An entry in training that is due is dealt with, unless the player leaves or
\* the server stops.
Due == /\ online
       /\ char.inTraining # NoSkill
       /\ Head(char.queue).end \in 1..(now - 1)
DueIsHandled == Due ~> ~ Due
=============================================================================
