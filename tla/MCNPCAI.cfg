SPECIFICATION Spec
CONSTANTS
    p1 = p1
    p2 = p2
    NoPlayer = NoPlayer
    Players <- TwoPlayers
    MaxLocked = 2
INVARIANT
    TypeOK
PROPERTIES
    AttackTargetLocked
    StateMatchesAction
    ImplementsNpcLocks
