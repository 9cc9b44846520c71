------------------------------ MODULE Bubbles ------------------------------
(***************************************************************************)
(* The bubbles (grids) of one solar system: BubbleManager, SystemBubble    *)
(* and the calls that ShipSE, Client and DestinyManager make on them.      *)
(*                                                                         *)
(* A bubble is a ball of radius 250 km.  Everything dynamic in space is    *)
(* registered with at most one bubble (SystemEntity::m_bubble), and a      *)
(* bubble keeps the entities registered with it (m_dynamicEntities) and    *)
(* the clients that hear what happens in it (m_players).  The manager      *)
(* lists the bubbles it searches (m_sysBubbleMap, m_bubbles).              *)
(*                                                                         *)
(* Space is a line and 125 km are one unit, so that all the distances the  *)
(* code compares fall between different integers: a bubble reaches 1, an   *)
(* arriving ship is taken in at 2 (300 km), and a new bubble less than 4   *)
(* (500 km) from another one is moved away from it.                        *)
(*                                                                         *)
(* A handler or a step of the tick is one action, except the sweep for     *)
(* wanderers, one entity at a time.  What the clients are shown, cloaking, *)
(* statics, drones and NPCs are left out.                                  *)
(***************************************************************************)
EXTENDS Integers

CONSTANTS
    Pilots,     \* characters and their clients
    Ships,      \* ships that are not capsules
    Pods,       \* capsules, made when they are needed
    Bubbles,    \* bubble objects, reused when nothing refers to them
    Places,     \* where ships fly and warp to
    Exits,      \* where ships enter space: stations, gates
    NoPilot, NoEntity, NoBubble

Entities == Ships \cup Pods

ASSUME BubblesAssumption ==
    /\ Ships \cap Pods = {}
    /\ Places \subseteq Int /\ Exits \subseteq Int
    /\ NoPilot \notin Pilots
    /\ NoEntity \notin Entities
    /\ NoBubble \notin Bubbles

Modes == {"idle", "align", "accel", "decel"}

VARIABLES
    up,         \* the process runs
    \* -- BubbleManager and the bubbles
    grid,       \* bubble: m_bubble of each entity;  dyn: m_dynamicEntities;
                \* players: m_players of each bubble
    centre,     \* m_center of each bubble
    listed,     \* bubbles of m_sysBubbleMap and m_bubbles
    sweeping,   \* BubbleManager::Process is in the wander loop
    wanderers,  \* m_wanderers
    \* -- entities and clients
    space,      \* entities of the system (SystemManager::m_entities)
    pos,        \* position of each entity
    mode,       \* m_ballMode and the phase of m_warpState
    dest,       \* m_targetPoint of a warp, 0 when there is none
    target,     \* m_targBubble, which outlives a warp that was broken off
    pilot,      \* ShipItem::m_pilot of the entities in space
    ship,       \* Client::pShipSE
    \* -- history
    stale,      \* bubbles unlisted while a warp was bound for them
    astray      \* clients that changed ships across bubbles, or met in one ship

gridVars == <<grid, centre, listed>>
sweepVars == <<sweeping, wanderers>>
shipVars == <<space, pos, mode, dest, target, pilot, ship>>
vars == <<up, gridVars, sweepVars, shipVars, stale, astray>>

Calm == up /\ ~sweeping

---------------------------------------------------------------------------
(* Geometry *)

Dist(x, y) == IF x < y THEN y - x ELSE x - y

InBubble(b, x) == Dist(centre[b], x) < 2

InWarpRange(b, x) == Dist(centre[b], x) < 3

IsOverlap(b, x) == Dist(centre[b], x) < 4

\* Where MakeBubble puts the centre of a bubble for the position x: the
\* direction it computes points from the position to the other centre, so the
\* new bubble lies beyond the other one.
CentresFor(x) ==
    LET near == {b \in listed : IsOverlap(b, x)}
    IN IF near = {} THEN {x}
       ELSE {IF x < centre[b] THEN centre[b] + 4 ELSE centre[b] - 4 : b \in near}

\* A ship that is not in a warp may still point to the bubble of an earlier
\* one, but nothing reads that pointer before the next warp sets it.
Bound(b) == \E e \in Entities : mode[e] # "idle" /\ target[e] = b

Unused == {b \in Bubbles \ listed : grid.dyn[b] = {} /\ ~Bound(b)}

---------------------------------------------------------------------------
(* SystemBubble: g is the state of the registries, who is the pilot of the *)
(* entity e, or NoPilot                                                    *)

\* Mutant of Remove: the client stays in m_players.
RemoveDeaf(g, e, who) ==
    IF g.bubble[e] = NoBubble THEN g
    ELSE [bubble  |-> [g.bubble EXCEPT ![e] = NoBubble],
          dyn     |-> [g.dyn EXCEPT ![g.bubble[e]] = @ \ {e}],
          players |-> g.players]

Remove(g, e, who) ==
    IF g.bubble[e] = NoBubble THEN g
    ELSE [bubble  |-> [g.bubble EXCEPT ![e] = NoBubble],
          dyn     |-> [g.dyn EXCEPT ![g.bubble[e]] = @ \ {e}],
          players |-> [g.players EXCEPT ![g.bubble[e]] = @ \ {who}]]

Add(g, e, who, b) ==
    IF e \in g.dyn[b] THEN [g EXCEPT !.bubble = [g.bubble EXCEPT ![e] = b]]
    ELSE [bubble  |-> [g.bubble EXCEPT ![e] = b],
          dyn     |-> [g.dyn EXCEPT ![b] = @ \cup {e}],
          players |-> [g.players EXCEPT ![b] = @ \cup ({who} \ {NoPilot})]]

---------------------------------------------------------------------------
(* BubbleManager *)

Found(x) == {b \in listed : InBubble(b, x)}

\* GetBubble for the position x gives b, made now when no bubble has x.  A
\* bubble that is made starts with no players.
GetBubble(x, b) ==
    \/ /\ b \in Found(x)
       /\ UNCHANGED <<centre, listed, stale>>
    \/ /\ Found(x) = {}
       /\ b \in Unused
       /\ \E c \in CentresFor(x) : centre' = [centre EXCEPT ![b] = c]
       /\ listed' = listed \cup {b}
       /\ stale' = stale \ {b}

Fresh(g, b) == IF b \in listed THEN g ELSE [g EXCEPT !.players = [g.players EXCEPT ![b] = {}]]

\* BubbleManager::Add of the entity e, at the position x, to the bubble b that
\* GetBubble gave.
ManagerAdd(g, e, who, b) ==
    IF g.bubble[e] = b THEN g
    ELSE Add(Remove(Fresh(g, b), e, who), e, who, b)

---------------------------------------------------------------------------
(* Entering and leaving space *)

\* Mutant of Stop: the ball mode stays what it is.
StopKeepsMode(e) ==
    /\ dest' = [dest EXCEPT ![e] = 0]
    /\ target' = [target EXCEPT ![e] = NoBubble]
    /\ UNCHANGED mode

Stop(e) ==
    /\ mode' = [mode EXCEPT ![e] = "idle"]
    /\ dest' = [dest EXCEPT ![e] = 0]
    /\ target' = [target EXCEPT ![e] = NoBubble]

\* Neither in space nor the target of a client's pointer.
Spare(e) == e \notin space /\ \A p \in Pilots : ship[p] # e

\* Undock, login and arrival by gate: a ship entity is made and added.
EnterSpace(p, e, x) ==
    /\ Calm /\ ship[p] = NoEntity
    /\ Spare(e)
    /\ space' = space \cup {e}
    /\ pos' = [pos EXCEPT ![e] = x]
    /\ pilot' = [pilot EXCEPT ![e] = p]
    /\ ship' = [ship EXCEPT ![p] = e]
    /\ \E b \in Bubbles : GetBubble(x, b) /\ grid' = ManagerAdd(grid, e, p, b)
    /\ UNCHANGED <<up, sweepVars, mode, dest, target, astray>>

\* The entity e is taken out of its bubble and of the system and is deleted.
Gone(g, e, who) ==
    /\ grid' = Remove(g, e, who)
    /\ space' = space \ {e}
    /\ pos' = [pos EXCEPT ![e] = 0]
    /\ Stop(e)
    /\ UNCHANGED <<centre, listed, stale>>

\* Dock, jump, logout and the loss of the capsule: DestroyShipSE.
LeaveSpace(p) ==
    LET e == ship[p]
    IN /\ Calm /\ e \in space
       /\ Gone(grid, e, pilot[e])
       /\ ship' = [ship EXCEPT ![p] = NoEntity]
       /\ pilot' = [pilot EXCEPT ![e] = NoPilot]
       /\ UNCHANGED <<up, sweepVars, astray>>

\* A ship nobody flies is scooped or destroyed.
RemoveEntity(e) ==
    /\ Calm /\ e \in space /\ pilot[e] = NoPilot
    /\ Gone(grid, e, NoPilot)
    /\ UNCHANGED <<up, sweepVars, pilot, ship, astray>>

\* A client that holds a pointer to a deleted entity uses it.
UseDeleted(p) ==
    /\ Calm /\ ship[p] \notin space \cup {NoEntity}
    /\ up' = FALSE
    /\ UNCHANGED <<gridVars, sweepVars, shipVars, stale, astray>>

---------------------------------------------------------------------------
(* Movement: DestinyManager *)

NotInWarp(e) == Calm /\ e \in space /\ mode[e] \in {"idle", "align"}

\* A ship without a pilot stays where it was stopped.
Flying(e) == NotInWarp(e) /\ pilot[e] # NoPilot

\* A tick of ordinary flight changes the position and nothing else.
Fly(e, x) ==
    /\ Flying(e) /\ x # pos[e] /\ Dist(x, pos[e]) < 3
    /\ pos' = [pos EXCEPT ![e] = x]
    /\ UNCHANGED <<up, gridVars, sweepVars, space, mode, dest, target, pilot, ship, stale, astray>>

\* A move to a position at once: out of a bubble that does not reach it,
\* and into one that does.
SetPosition(e, x) ==
    /\ Flying(e)
    /\ pos' = [pos EXCEPT ![e] = x]
    /\ LET g == IF grid.bubble[e] # NoBubble /\ ~InBubble(grid.bubble[e], x)
                THEN Remove(grid, e, pilot[e]) ELSE grid
       IN IF g.bubble[e] = NoBubble
          THEN \E b \in Bubbles : GetBubble(x, b) /\ grid' = ManagerAdd(g, e, pilot[e], b)
          ELSE grid' = g /\ UNCHANGED <<centre, listed, stale>>
    /\ UNCHANGED <<up, sweepVars, space, mode, dest, target, pilot, ship, astray>>

\* The warp is ordered: the ship aligns, and the bubble of the destination is
\* found or made.
WarpTo(e, x) ==
    /\ Flying(e) /\ Dist(pos[e], x) > 1
    /\ \E b \in Bubbles : /\ GetBubble(x, b)
                          /\ grid' = Fresh(grid, b)
                          /\ target' = [target EXCEPT ![e] = b]
    /\ mode' = [mode EXCEPT ![e] = "align"]
    /\ dest' = [dest EXCEPT ![e] = x]
    /\ UNCHANGED <<up, sweepVars, space, pos, pilot, ship, astray>>

\* The ship is stopped, which cancels a warp that has not begun.
CmdStop(e) ==
    /\ NotInWarp(e)
    /\ Stop(e)
    /\ UNCHANGED <<up, gridVars, sweepVars, space, pos, pilot, ship, stale, astray>>

\* Another ball mode ends a warp and leaves m_targBubble as it is.
EndWarp(e) ==
    /\ mode' = [mode EXCEPT ![e] = "idle"]
    /\ dest' = [dest EXCEPT ![e] = 0]
    /\ UNCHANGED <<up, gridVars, sweepVars, space, pos, target, pilot, ship, stale, astray>>

\* The ship is sent in a direction, to a point or after another one while it
\* aligns: only a ship whose warp has begun refuses.
Steer(e) ==
    /\ Flying(e) /\ mode[e] = "align"
    /\ EndWarp(e)

\* A ship in a bubble is brought to an immediate stop, even in its warp.
Halt(e) ==
    /\ Calm /\ e \in space /\ pilot[e] # NoPilot
    /\ grid.bubble[e] # NoBubble
    /\ EndWarp(e)

\* The warp begins.  The effect of the warp drive goes to the ship's bubble,
\* which is read without a test.
InitWarp(e) ==
    /\ Calm /\ e \in space /\ mode[e] = "align"
    /\ IF grid.bubble[e] = NoBubble
       THEN up' = FALSE /\ UNCHANGED mode
       ELSE mode' = [mode EXCEPT ![e] = "accel"] /\ UNCHANGED up
    /\ UNCHANGED <<gridVars, sweepVars, space, pos, dest, target, pilot, ship, stale, astray>>

\* The acceleration covers a third of the distance.  A ship that is outside
\* its bubble then is removed from it.
WarpAccel(e) ==
    /\ Calm /\ e \in space /\ mode[e] = "accel"
    /\ LET third == Dist(pos[e], dest[e]) \div 3
           x == IF pos[e] < dest[e] THEN pos[e] + third ELSE pos[e] - third
       IN /\ pos' = [pos EXCEPT ![e] = x]
          /\ grid' = IF grid.bubble[e] # NoBubble /\ ~InBubble(grid.bubble[e], x)
                     THEN Remove(grid, e, pilot[e]) ELSE grid
    /\ mode' = [mode EXCEPT ![e] = "decel"]
    /\ UNCHANGED <<up, centre, listed, sweepVars, space, dest, target, pilot, ship, stale, astray>>

\* Mutant of Arrive: the ship is added although another bubble still has it.
ArriveTwice(e, x) ==
    grid' = IF InWarpRange(target[e], x) THEN Add(grid, e, pilot[e], target[e]) ELSE grid

Arrive(e, x) ==
    grid' = IF grid.bubble[e] = NoBubble /\ InWarpRange(target[e], x)
            THEN Add(grid, e, pilot[e], target[e]) ELSE grid

\* A tick of the deceleration brings the ship to x: nearer to its destination,
\* or there, where it stops.  Without a bubble, it is added to its target
\* bubble in range of it, whether or not the manager lists that bubble.
WarpDecel(e, x) ==
    /\ Calm /\ e \in space /\ mode[e] = "decel"
    /\ x = dest[e] \/ Dist(x, dest[e]) < Dist(pos[e], dest[e])
    /\ pos' = [pos EXCEPT ![e] = x]
    /\ Arrive(e, x)
    /\ IF x = dest[e] THEN Stop(e) ELSE UNCHANGED <<mode, dest, target>>
    /\ UNCHANGED <<up, centre, listed, sweepVars, space, pilot, ship, stale, astray>>

---------------------------------------------------------------------------
(* Changing ships *)

Near(e, f) == Dist(pos[e], pos[f]) = 0

\* The clients that take f for their ship.
Aboard(f) == {q \in Pilots : ship[q] = f}

\* The pilot ejects: the ship stays where it is, stopped and without a pilot,
\* and the capsule is added beside it.
Eject(p, pod) ==
    LET e == ship[p]
    IN /\ Calm /\ e \in space /\ Spare(pod)
       /\ grid.bubble[e] # NoBubble
       /\ pilot' = [pilot EXCEPT ![e] = NoPilot, ![pod] = p]
       /\ ship' = [ship EXCEPT ![p] = pod]
       /\ space' = space \cup {pod}
       /\ pos' = [pos EXCEPT ![pod] = pos[e]]
       /\ Stop(e)
       /\ \E b \in Bubbles :
            /\ GetBubble(pos[e], b)
            /\ grid' = ManagerAdd(grid, pod, p, b)
            /\ astray' = IF b = grid.bubble[e] /\ pilot[e] = p THEN astray ELSE astray \cup {p}
       /\ UNCHANGED <<up, sweepVars>>

\* The pilot boards the ship f nearby, even one that has a pilot.  A capsule
\* left behind is removed; a ship left behind is stopped and abandoned.
Board(p, f) ==
    LET e == ship[p]
        left == [pilot EXCEPT ![e] = NoPilot]
    IN /\ Calm /\ e \in space /\ f \in space \cap Ships /\ f # e
       /\ Near(e, f)
       /\ IF e \in Ships /\ grid.bubble[e] = NoBubble
          THEN /\ up' = FALSE
               /\ UNCHANGED <<gridVars, sweepVars, shipVars, stale, astray>>
          ELSE /\ pilot' = [left EXCEPT ![f] = p]
               /\ ship' = [ship EXCEPT ![p] = f]
               /\ astray' = astray \cup (IF grid.bubble[e] = grid.bubble[f] THEN {} ELSE {p})
                                   \cup (IF Aboard(f) = {} THEN {} ELSE {p} \cup Aboard(f))
               /\ IF e \in Pods
                  THEN Gone(grid, e, NoPilot)
                  ELSE /\ Stop(e)
                       /\ UNCHANGED <<gridVars, stale, space, pos>>
               /\ UNCHANGED <<up, sweepVars>>

\* The ship of the pilot is destroyed: it leaves its bubble and the system,
\* after its pilot was taken off it, and the capsule appears in its place.
Popped(p, pod) ==
    LET e == ship[p]
    IN /\ NotInWarp(e) /\ e \in Ships /\ pilot[e] = p /\ Spare(pod)
       /\ pilot' = [pilot EXCEPT ![e] = NoPilot, ![pod] = p]
       /\ ship' = [ship EXCEPT ![p] = pod]
       /\ space' = (space \ {e}) \cup {pod}
       /\ pos' = [pos EXCEPT ![e] = 0, ![pod] = pos[e]]
       /\ Stop(e)
       /\ \E b \in Bubbles :
            /\ GetBubble(pos[e], b)
            /\ grid' = ManagerAdd(Remove(grid, e, NoPilot), pod, p, b)
            /\ astray' = IF b = grid.bubble[e] THEN astray ELSE astray \cup {p}
       /\ UNCHANGED <<up, sweepVars>>

---------------------------------------------------------------------------
(* The sweep for wanderers: BubbleManager::Process *)

\* The wander timer fires: everything outside its listed bubble is collected,
\* except ships in warp.
WanderTimer ==
    /\ Calm
    /\ sweeping' = TRUE
    /\ wanderers' = {e \in space : /\ mode[e] \in {"idle", "align"}
                                   /\ grid.bubble[e] \in listed
                                   /\ ~InBubble(grid.bubble[e], pos[e])}
    /\ UNCHANGED <<up, gridVars, shipVars, stale, astray>>

CheckBubble(e) ==
    /\ up /\ sweeping /\ e \in wanderers
    /\ wanderers' = wanderers \ {e}
    /\ \E b \in Bubbles : /\ GetBubble(pos[e], b)
                          /\ grid' = ManagerAdd(Remove(grid, e, pilot[e]), e, pilot[e], b)
    /\ UNCHANGED <<up, sweeping, shipVars, astray>>

IsEmpty(b) == grid.dyn[b] = {}

\* Mutant of Removable: bubbles without players are dropped.
RemovableUnwatched == {b \in listed : grid.players[b] = {}}

Removable == {b \in listed : IsEmpty(b)}

RemoveEmpty ==
    /\ up /\ sweeping /\ wanderers = {}
    /\ sweeping' = FALSE
    /\ listed' = listed \ Removable
    /\ LET bound == {b \in Removable : Bound(b)}
       IN /\ stale' = stale \cup bound
          /\ centre' = [b \in Bubbles |-> IF b \in Removable \ bound THEN 0 ELSE centre[b]]
    /\ UNCHANGED <<up, grid, wanderers, shipVars, astray>>

---------------------------------------------------------------------------

Init ==
    /\ up = TRUE
    /\ grid = [bubble  |-> [e \in Entities |-> NoBubble],
               dyn     |-> [b \in Bubbles |-> {}],
               players |-> [b \in Bubbles |-> {}]]
    /\ centre = [b \in Bubbles |-> 0]
    /\ listed = {}
    /\ sweeping = FALSE /\ wanderers = {}
    /\ space = {}
    /\ pos = [e \in Entities |-> 0]
    /\ mode = [e \in Entities |-> "idle"]
    /\ dest = [e \in Entities |-> 0]
    /\ target = [e \in Entities |-> NoBubble]
    /\ pilot = [e \in Entities |-> NoPilot]
    /\ ship = [p \in Pilots |-> NoEntity]
    /\ stale = {} /\ astray = {}

ClientStep(p) ==
    \/ \E e \in Entities, x \in Exits : EnterSpace(p, e, x)
    \/ LeaveSpace(p)
    \/ UseDeleted(p)
    \/ \E f \in Ships : Board(p, f)
    \/ \E pod \in Pods : Eject(p, pod) \/ Popped(p, pod)

EntityStep(e) ==
    \/ RemoveEntity(e)
    \/ CmdStop(e)
    \/ Steer(e)
    \/ Halt(e)
    \/ InitWarp(e)
    \/ WarpAccel(e)
    \/ CheckBubble(e)
    \/ \E x \in Places : \/ Fly(e, x)
                         \/ SetPosition(e, x)
                         \/ WarpTo(e, x)
                         \/ WarpDecel(e, x)

Next ==
    \/ \E p \in Pilots : ClientStep(p)
    \/ \E e \in Entities : EntityStep(e)
    \/ WanderTimer
    \/ RemoveEmpty

Spec == Init /\ [][Next]_vars

---------------------------------------------------------------------------
(* Properties *)

\* Everything has its type, and a ship with a warp in progress has a target
\* bubble, which WarpDecel follows without a test (DestinyManager::Stop, WarpTo).
TypeOK ==
    /\ up \in BOOLEAN /\ sweeping \in BOOLEAN
    /\ grid \in [bubble : [Entities -> Bubbles \cup {NoBubble}],
                 dyn : [Bubbles -> SUBSET Entities],
                 players : [Bubbles -> SUBSET Pilots]]
    /\ centre \in [Bubbles -> Int] /\ listed \subseteq Bubbles
    /\ space \subseteq Entities /\ wanderers \subseteq space
    /\ pos \in [Entities -> Int] /\ dest \in [Entities -> Int]
    /\ mode \in [Entities -> Modes]
    /\ target \in [Entities -> Bubbles \cup {NoBubble}]
    /\ pilot \in [Entities -> Pilots \cup {NoPilot}]
    /\ ship \in [Pilots -> Entities \cup {NoEntity}]
    /\ stale \subseteq Bubbles /\ astray \subseteq Pilots
    /\ \A e \in Entities : mode[e] # "idle" => target[e] # NoBubble

\* An entity is in the list of the bubble it believes to be in and in no
\* other, and what has left the system is in none, whichever of warp, jump of
\* position, sweep and change of ship moved it (SystemBubble::Add, Remove).
Registered ==
    /\ \A e \in Entities, b \in Bubbles : e \in grid.dyn[b] <=> grid.bubble[e] = b
    /\ \A e \in Entities \ space : grid.bubble[e] = NoBubble

\* A bubble that holds something is found by the manager, unless the sweep
\* dropped it while a ship was in warp to it (BubbleManager::RemoveEmpty and
\* DestinyManager::WarpTo).
OccupiedListed ==
    \A b \in Bubbles : grid.dyn[b] # {} => b \in listed \cup stale

\* A client hears the bubble its ship is in and no other, through warps,
\* sweeps, ejection and loss of ships.  Left out are the clients that changed
\* ships across two bubbles or boarded a ship with a pilot: for those the code
\* does not keep m_players right (Client::Eject, Board, ResetAfterPopped).
ListenerHere ==
    \A p \in Pilots \ astray, b \in Bubbles :
        p \in grid.players[b] <=> ship[p] \in space /\ grid.bubble[ship[p]] = b

\* A ship in space that is not in warp is in a bubble: m_bubble is "never NULL
\* in space" (SystemEntity.h).
NeverNullInSpace ==
    Calm => \A e \in space : mode[e] \in {"idle", "align"} => grid.bubble[e] # NoBubble
=============================================================================
