CONSTANTS
  s1 = s1
  s2 = s2
  none = none
  Skills <- TwoSkills
  NoSkill = none
  MaxLevel = 2
  Points <- PointsFor
  SPPerMin = 2
  Wanted <- WantedLevels
  Minute = 1
  Second = 1
  MaxTime = 3
  MaxPoints = 4
  MaxQueue = 2
SPECIFICATION Spec
INVARIANTS TypeOK QueueSettled TrainingIsFront LevelHasPoints
PROPERTIES DueIsHandled LevelEarned
CHECK_DEADLOCK FALSE
