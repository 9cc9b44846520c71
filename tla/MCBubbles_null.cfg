SPECIFICATION Spec
CONSTANTS
    p1 = p1
    p2 = p2
    s1 = s1
    s2 = s2
    c1 = c1
    b1 = b1
    b2 = b2
    NoPilot = NoPilot
    NoEntity = NoEntity
    NoBubble = NoBubble
    Pilots <- MCPilots
    Ships <- MCShips
    Pods <- MCPods
    Bubbles <- MCGrids
    Places <- MCPlaces
    Exits <- MCExits
INVARIANT NeverNullInSpace
SYMMETRY Symmetry
CHECK_DEADLOCK FALSE
