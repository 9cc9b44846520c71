SPECIFICATION FairSpec
CONSTANTS
    p1 = p1
    p2 = p2
    NoPlayer = NoPlayer
    Players <- TwoPlayers
    MaxLocked = 2
PROPERTY
    CallsReturn
