CONSTANTS
  p1 = p1
  p2 = p2
  n1 = n1
  s1 = s1
  s2 = s2
  NoSystem = NoSystem
  Pilots <- PilotsPair
  Npcs <- NpcOne
  Systems <- SystemOne
  MaxTargets = 2
SPECIFICATION FairSpec
PROPERTIES LockCompletes ImplementsTargetLocks
