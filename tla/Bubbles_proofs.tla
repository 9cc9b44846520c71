--------------------------- MODULE Bubbles_proofs ---------------------------
(***************************************************************************)
(* Proofs about Bubbles, for any ships, pilots, bubbles and places: what a *)
(* bubble lists is what believes to be in it, bubbles in use are listed,   *)
(* and clients hear the bubble of their ship.                              *)
(***************************************************************************)
EXTENDS Bubbles, TLAPS

\* The target bubble of a warp is one the manager lists or dropped meanwhile.
TargetListed ==
    \A e \in Entities : mode[e] # "idle" => target[e] \in listed \cup stale

NoneCollected == ~sweeping => wanderers = {}

\* The pilot of an entity flies it.
PilotAboard == \A e \in Entities : pilot[e] # NoPilot => ship[pilot[e]] = e

\* A client that is not astray is the pilot of its ship, alone.
OwnShip ==
    \A p \in Pilots \ astray : ship[p] \in space => pilot[ship[p]] = p

AloneAboard ==
    \A p, q \in Pilots :
      p # q /\ ship[p] = ship[q] /\ ship[p] # NoEntity => p \in astray

Crew == PilotAboard /\ OwnShip /\ AloneAboard

Lists == OccupiedListed /\ TargetListed /\ NoneCollected

Inv == TypeOK /\ Registered /\ Lists /\ Crew /\ ListenerHere

-----------------------------------------------------------------------------
(* The registries of the bubbles                                           *)

Grids == [bubble : [Entities -> Bubbles \cup {NoBubble}],
          dyn : [Bubbles -> SUBSET Entities],
          players : [Bubbles -> SUBSET Pilots]]

\* Each entity is in the list of its bubble only.
Matched(g) ==
    /\ g \in Grids
    /\ \A e \in Entities, b \in Bubbles : e \in g.dyn[b] <=> g.bubble[e] = b

Clients == Pilots \cup {NoPilot}

\* After Remove the entity is in no bubble, and of the listeners only its
\* pilot is gone, from the bubble it was in.
LEMMA RemoveLemma ==
    ASSUME NEW g, Matched(g), NEW e \in Entities, NEW who \in Clients
    PROVE  LET h == Remove(g, e, who)
           IN /\ Matched(h)
              /\ h.bubble[e] = NoBubble
              /\ \A f \in Entities \ {e} : h.bubble[f] = g.bubble[f]
              /\ \A c \in Bubbles : h.dyn[c] = g.dyn[c] \ {e}
              /\ \A c \in Bubbles, q \in Pilots :
                   q \in h.players[c] <=>
                     q \in g.players[c] /\ ~(q = who /\ c = g.bubble[e])
<1> DEFINE h == Remove(g, e, who)
<1>1. CASE g.bubble[e] = NoBubble
  BY <1>1, BubblesAssumption DEF Remove, Matched, Grids, BubblesAssumption
<1>2. CASE g.bubble[e] # NoBubble
  <2> DEFINE bb == [g.bubble EXCEPT ![e] = NoBubble]
             dd == [g.dyn EXCEPT ![g.bubble[e]] = @ \ {e}]
             pp == [g.players EXCEPT ![g.bubble[e]] = @ \ {who}]
  <2>0. /\ g.bubble \in [Entities -> Bubbles \cup {NoBubble}]
        /\ g.dyn \in [Bubbles -> SUBSET Entities]
        /\ g.players \in [Bubbles -> SUBSET Pilots]
        /\ g.bubble[e] \in Bubbles
    BY <1>2 DEF Matched, Grids
  <2>1. h = [bubble |-> bb, dyn |-> dd, players |-> pp]
    BY <1>2 DEF Remove
  <2>2. /\ bb \in [Entities -> Bubbles \cup {NoBubble}]
        /\ dd \in [Bubbles -> SUBSET Entities]
        /\ pp \in [Bubbles -> SUBSET Pilots]
    BY <2>0
  <2>3. h \in Grids
    BY <2>1, <2>2 DEF Grids
  <2>4. /\ h.bubble[e] = NoBubble
        /\ \A f \in Entities \ {e} : h.bubble[f] = g.bubble[f]
    BY <2>0, <2>1
  <2>5. \A c \in Bubbles : h.dyn[c] = g.dyn[c] \ {e}
    BY <2>0, <2>1 DEF Matched
  <2>6. \A f \in Entities, b \in Bubbles : f \in h.dyn[b] <=> h.bubble[f] = b
    BY <2>4, <2>5, BubblesAssumption DEF Matched, BubblesAssumption
  <2>7. \A c \in Bubbles, q \in Pilots :
          q \in h.players[c] <=>
            q \in g.players[c] /\ ~(q = who /\ c = g.bubble[e])
    BY <2>0, <2>1
  <2> QED BY <2>3, <2>4, <2>5, <2>6, <2>7 DEF Matched
<1> QED BY <1>1, <1>2

\* Add puts an entity without bubble and its pilot into the bubble.
LEMMA AddLemma ==
    ASSUME NEW g, Matched(g), NEW e \in Entities, NEW who \in Clients,
           NEW b \in Bubbles, g.bubble[e] = NoBubble
    PROVE  LET h == Add(g, e, who, b)
           IN /\ Matched(h)
              /\ h.bubble[e] = b
              /\ \A f \in Entities \ {e} : h.bubble[f] = g.bubble[f]
              /\ \A c \in Bubbles \ {b} : h.dyn[c] = g.dyn[c]
              /\ \A c \in Bubbles, q \in Pilots :
                   q \in h.players[c] <=>
                     q \in g.players[c] \/ (q = who /\ c = b)
<1> DEFINE h == Add(g, e, who, b)
           bb == [g.bubble EXCEPT ![e] = b]
           dd == [g.dyn EXCEPT ![b] = @ \cup {e}]
           pp == [g.players EXCEPT ![b] = @ \cup ({who} \ {NoPilot})]
<1>0. /\ g.bubble \in [Entities -> Bubbles \cup {NoBubble}]
      /\ g.dyn \in [Bubbles -> SUBSET Entities]
      /\ g.players \in [Bubbles -> SUBSET Pilots]
      /\ e \notin g.dyn[b]
  BY BubblesAssumption DEF Matched, Grids, BubblesAssumption
<1>1. h = [bubble |-> bb, dyn |-> dd, players |-> pp]
  BY <1>0 DEF Add
<1>2. {who} \ {NoPilot} \subseteq Pilots
  BY DEF Clients
<1>3. /\ bb \in [Entities -> Bubbles \cup {NoBubble}]
      /\ dd \in [Bubbles -> SUBSET Entities]
      /\ pp \in [Bubbles -> SUBSET Pilots]
  BY <1>0, <1>2
<1>4. h \in Grids
  BY <1>1, <1>3 DEF Grids
<1>5. /\ h.bubble[e] = b
      /\ \A f \in Entities \ {e} : h.bubble[f] = g.bubble[f]
  BY <1>0, <1>1
<1>6. /\ \A c \in Bubbles \ {b} : h.dyn[c] = g.dyn[c]
      /\ h.dyn[b] = g.dyn[b] \cup {e}
  BY <1>0, <1>1
<1>7. \A f \in Entities, c \in Bubbles : f \in h.dyn[c] <=> h.bubble[f] = c
  BY <1>5, <1>6, BubblesAssumption DEF Matched, BubblesAssumption
<1>8. \A c \in Bubbles, q \in Pilots :
        q \in h.players[c] <=> q \in g.players[c] \/ (q = who /\ c = b)
  BY <1>0, <1>1, BubblesAssumption DEF BubblesAssumption
<1> QED BY <1>4, <1>5, <1>6, <1>7, <1>8 DEF Matched

\* A bubble that is made forgets its listeners and changes nothing else.
LEMMA FreshLemma ==
    ASSUME NEW g, Matched(g), NEW b \in Bubbles
    PROVE  LET h == Fresh(g, b)
           IN /\ Matched(h)
              /\ h.bubble = g.bubble /\ h.dyn = g.dyn
              /\ \A c \in Bubbles, q \in Pilots :
                   q \in h.players[c] <=>
                     q \in g.players[c] /\ (c # b \/ b \in listed)
<1> DEFINE h == Fresh(g, b)
           pp == [g.players EXCEPT ![b] = {}]
<1>1. CASE b \in listed
  BY <1>1 DEF Fresh
<1>2. CASE b \notin listed
  <2>1. /\ h = [g EXCEPT !.players = pp]
        /\ g.players \in [Bubbles -> SUBSET Pilots]
        /\ pp \in [Bubbles -> SUBSET Pilots]
    BY <1>2 DEF Fresh, Matched, Grids
  <2>2. h \in Grids /\ h.bubble = g.bubble /\ h.dyn = g.dyn /\ h.players = pp
    BY <2>1 DEF Matched, Grids
  <2>3. \A c \in Bubbles, q \in Pilots :
          q \in h.players[c] <=> q \in g.players[c] /\ c # b
    BY <2>1, <2>2
  <2> QED BY <1>2, <2>2, <2>3 DEF Matched
<1> QED BY <1>1, <1>2

\* BubbleManager::Add of an entity that is in no bubble.
LEMMA ManagerAddLemma ==
    ASSUME NEW g, Matched(g), NEW e \in Entities, NEW who \in Clients,
           NEW b \in Bubbles, g.bubble[e] = NoBubble
    PROVE  LET h == ManagerAdd(g, e, who, b)
           IN /\ Matched(h)
              /\ h.bubble[e] = b
              /\ \A f \in Entities \ {e} : h.bubble[f] = g.bubble[f]
              /\ \A c \in Bubbles \ {b} : h.dyn[c] = g.dyn[c]
              /\ \A c \in Bubbles, q \in Pilots :
                   q \in h.players[c] <=>
                     \/ q \in g.players[c] /\ (c # b \/ b \in listed)
                     \/ q = who /\ c = b
<1> DEFINE f == Fresh(g, b)
<1>1. /\ Matched(f)
      /\ f.bubble = g.bubble /\ f.dyn = g.dyn
      /\ \A c \in Bubbles, q \in Pilots :
           q \in f.players[c] <=> q \in g.players[c] /\ (c # b \/ b \in listed)
  BY FreshLemma
<1>2. ManagerAdd(g, e, who, b) = Add(f, e, who, b)
  BY <1>1, BubblesAssumption DEF ManagerAdd, Remove, BubblesAssumption
<1> HIDE DEF f
<1> QED BY <1>1, <1>2, AddLemma

-----------------------------------------------------------------------------
(* Parts that several actions keep in the same way                         *)

LEMMA RegisteredIsMatched ==
    ASSUME TypeOK, Registered
    PROVE  Matched(grid)
  BY DEF TypeOK, Registered, Matched, Grids

LEMMA MatchedIsRegistered ==
    ASSUME Matched(grid)', \A e \in Entities \ space' : grid'.bubble[e] = NoBubble
    PROVE  Registered'
  BY DEF Registered, Matched

\* GetBubble gives a listed bubble, and one that it makes holds nothing.
LEMMA GetBubbleLemma ==
    ASSUME TypeOK, NEW x \in Int, NEW b \in Bubbles, GetBubble(x, b)
    PROVE  /\ centre' \in [Bubbles -> Int] /\ listed' \subseteq Bubbles
           /\ stale' \subseteq Bubbles
           /\ b \in listed'
           /\ listed \cup stale \subseteq listed' \cup stale'
           /\ b \notin listed => grid.dyn[b] = {}
<1>1. CASE b \in Found(x) /\ UNCHANGED <<centre, listed, stale>>
  BY <1>1 DEF TypeOK, Found
<1>2. CASE /\ b \in Unused
           /\ \E c \in CentresFor(x) : centre' = [centre EXCEPT ![b] = c]
           /\ listed' = listed \cup {b}
           /\ stale' = stale \ {b}
  <2>1. CentresFor(x) \subseteq Int
    <3>1. \A a \in listed : centre[a] \in Int
      BY DEF TypeOK
    <3> QED BY <3>1 DEF CentresFor
  <2>2. centre' \in [Bubbles -> Int]
    BY <1>2, <2>1 DEF TypeOK
  <2> QED BY <1>2, <2>2 DEF TypeOK, Unused
<1> QED BY <1>1, <1>2 DEF GetBubble

\* A bubble that holds nothing has no listeners but astray ones.
LEMMA UnheardLemma ==
    ASSUME Inv, NEW b \in Bubbles, grid.dyn[b] = {}, NEW q \in Pilots \ astray
    PROVE  q \notin grid.players[b]
<1>1. SUFFICES ASSUME q \in grid.players[b] PROVE FALSE
  OBVIOUS
<1>2. ship[q] \in Entities /\ grid.bubble[ship[q]] = b
  BY <1>1 DEF Inv, ListenerHere, TypeOK
<1> QED BY <1>2 DEF Inv, Registered

LEMMA CrewSame ==
    ASSUME Crew, UNCHANGED <<space, pilot, ship, astray>>
    PROVE  Crew'
  BY DEF Crew, PilotAboard, OwnShip, AloneAboard

\* Whatever moves an entity from bubble to bubble keeps the listeners right
\* when it moves its pilot with it and nobody else.
LEMMA MovedListeners ==
    ASSUME Inv, NEW e \in space, UNCHANGED <<space, ship, astray>>,
           \A f \in Entities \ {e} : grid'.bubble[f] = grid.bubble[f],
           \A c \in Bubbles, q \in Pilots \ astray :
             IF q = pilot[e] THEN q \in grid'.players[c] <=> grid'.bubble[e] = c
             ELSE q \in grid'.players[c] <=> q \in grid.players[c]
    PROVE  ListenerHere'
<1> SUFFICES ASSUME NEW p \in Pilots \ astray, NEW b \in Bubbles
             PROVE  p \in grid'.players[b] <=> ship[p] \in space /\ grid'.bubble[ship[p]] = b
  BY DEF ListenerHere
<1>1. e \in Entities
  BY DEF Inv, TypeOK
<1>2. CASE p = pilot[e]
  BY <1>1, <1>2, BubblesAssumption DEF Inv, Crew, PilotAboard, BubblesAssumption
<1>3. CASE p # pilot[e]
  <2>1. ship[p] \in space => ship[p] # e /\ ship[p] \in Entities
    BY <1>3 DEF Inv, Crew, OwnShip, TypeOK
  <2>2. p \in grid.players[b] <=> ship[p] \in space /\ grid.bubble[ship[p]] = b
    BY DEF Inv, ListenerHere
  <2> QED BY <1>3, <2>1, <2>2
<1> QED BY <1>2, <1>3

\* The lists of the manager only grow, and a bubble that gets an entity is
\* among them.
LEMMA GrownLists ==
    ASSUME OccupiedListed, NEW b \in Bubbles, b \in listed' \cup stale',
           listed \cup stale \subseteq listed' \cup stale',
           \A c \in Bubbles \ {b} : grid'.dyn[c] \subseteq grid.dyn[c]
    PROVE  OccupiedListed'
  BY DEF OccupiedListed

-----------------------------------------------------------------------------
(* Steps that leave the registries alone                                   *)

LEMMA UseDeletedStep ==
    ASSUME Inv, NEW p \in Pilots, UseDeleted(p)
    PROVE  Inv'
  BY DEF UseDeleted, Inv, TypeOK, Registered, Lists, OccupiedListed, TargetListed,
         NoneCollected, Crew, PilotAboard, OwnShip, AloneAboard, ListenerHere,
         gridVars, sweepVars, shipVars

LEMMA FlyStep ==
    ASSUME Inv, NEW e \in Entities, NEW x \in Places, Fly(e, x)
    PROVE  Inv'
<1>1. TypeOK'
  BY BubblesAssumption DEF Inv, Fly, TypeOK, BubblesAssumption, gridVars, sweepVars
<1>2. Registered' /\ Lists' /\ ListenerHere'
  BY DEF Inv, Fly, Registered, Lists, OccupiedListed, TargetListed, NoneCollected,
         ListenerHere, gridVars, sweepVars
<1>3. Crew'
  BY CrewSame DEF Inv, Fly
<1> QED BY <1>1, <1>2, <1>3 DEF Inv

LEMMA CmdStopStep ==
    ASSUME Inv, NEW e \in Entities, CmdStop(e)
    PROVE  Inv'
<1>1. TypeOK'
  BY DEF Inv, CmdStop, NotInWarp, Stop, TypeOK, Modes, gridVars, sweepVars
<1>2. Registered' /\ Lists' /\ ListenerHere'
  BY DEF Inv, CmdStop, Stop, Registered, Lists, OccupiedListed, TargetListed,
         NoneCollected, ListenerHere, gridVars, sweepVars, TypeOK
<1>3. Crew'
  BY CrewSame DEF Inv, CmdStop
<1> QED BY <1>1, <1>2, <1>3 DEF Inv

\* Another ball mode ends a warp and leaves everything else as it is.
LEMMA EndWarpStep ==
    ASSUME Inv, NEW e \in Entities, EndWarp(e)
    PROVE  Inv'
<1>1. TypeOK'
  BY DEF Inv, EndWarp, TypeOK, Modes, gridVars, sweepVars
<1>2. Registered' /\ Lists' /\ ListenerHere'
  BY DEF Inv, EndWarp, Registered, Lists, OccupiedListed, TargetListed,
         NoneCollected, ListenerHere, gridVars, sweepVars, TypeOK
<1>3. Crew'
  BY CrewSame DEF Inv, EndWarp
<1> QED BY <1>1, <1>2, <1>3 DEF Inv

LEMMA InitWarpStep ==
    ASSUME Inv, NEW e \in Entities, InitWarp(e)
    PROVE  Inv'
<1>1. TypeOK'
  BY DEF Inv, InitWarp, TypeOK, Modes, gridVars, sweepVars, Calm
<1>2. Registered' /\ Lists' /\ ListenerHere'
  BY DEF Inv, InitWarp, Registered, Lists, OccupiedListed, TargetListed,
         NoneCollected, ListenerHere, gridVars, sweepVars, TypeOK
<1>3. Crew'
  BY CrewSame DEF Inv, InitWarp
<1> QED BY <1>1, <1>2, <1>3 DEF Inv

LEMMA WanderTimerStep ==
    ASSUME Inv, WanderTimer
    PROVE  Inv'
<1>1. TypeOK'
  BY DEF Inv, WanderTimer, TypeOK, gridVars, shipVars
<1>2. Registered' /\ Lists' /\ ListenerHere'
  BY DEF Inv, WanderTimer, Registered, Lists, OccupiedListed, TargetListed,
         NoneCollected, ListenerHere, gridVars, shipVars
<1>3. Crew'
  BY CrewSame DEF Inv, WanderTimer, shipVars
<1> QED BY <1>1, <1>2, <1>3 DEF Inv

LEMMA RemoveEmptyStep ==
    ASSUME Inv, RemoveEmpty
    PROVE  Inv'
<1> DEFINE bound == {b \in Removable : Bound(b)}
<1>0. /\ sweeping' = FALSE /\ wanderers = {}
      /\ listed' = listed \ Removable
      /\ stale' = stale \cup bound
      /\ centre' = [b \in Bubbles |-> IF b \in Removable \ bound THEN 0 ELSE centre[b]]
      /\ UNCHANGED <<up, grid, wanderers, shipVars, astray>>
  BY DEF RemoveEmpty
<1>1. TypeOK'
  <2>1. centre' \in [Bubbles -> Int]
    BY <1>0 DEF Inv, TypeOK
  <2>2. listed' \subseteq Bubbles /\ stale' \subseteq Bubbles
    BY <1>0 DEF Inv, TypeOK, Removable
  <2> QED BY <1>0, <2>1, <2>2 DEF Inv, TypeOK, shipVars
<1>2. Registered' /\ NoneCollected' /\ ListenerHere'
  BY <1>0 DEF Inv, Registered, NoneCollected, ListenerHere, shipVars
<1>3. OccupiedListed'
  BY <1>0 DEF Inv, Lists, OccupiedListed, Removable, IsEmpty
<1>4. TargetListed'
  BY <1>0 DEF Inv, Lists, TargetListed, TypeOK, Removable, Bound, shipVars
<1>5. Crew'
  BY <1>0, CrewSame DEF Inv, shipVars
<1> QED BY <1>1, <1>2, <1>3, <1>4, <1>5 DEF Inv, Lists

-----------------------------------------------------------------------------
(* Steps of the movement                                                   *)

LEMMA PilotIsClient ==
    ASSUME TypeOK, NEW e \in Entities
    PROVE  pilot[e] \in Clients
  BY DEF TypeOK, Clients

\* The warp order and the bubble of its destination.
LEMMA WarpToStep ==
    ASSUME Inv, NEW e \in Entities, NEW x \in Places, WarpTo(e, x)
    PROVE  Inv'
<1>0. /\ e \in space /\ x \in Int
      /\ mode' = [mode EXCEPT ![e] = "align"]
      /\ dest' = [dest EXCEPT ![e] = x]
      /\ UNCHANGED <<up, sweepVars, space, pos, pilot, ship, astray>>
      /\ TypeOK /\ Registered
  BY BubblesAssumption DEF WarpTo, Flying, NotInWarp, BubblesAssumption, Inv
<1>1. PICK b \in Bubbles : /\ GetBubble(x, b)
                           /\ grid' = Fresh(grid, b)
                           /\ target' = [target EXCEPT ![e] = b]
  BY DEF WarpTo
<1>2. /\ centre' \in [Bubbles -> Int] /\ listed' \subseteq Bubbles
      /\ stale' \subseteq Bubbles /\ b \in listed'
      /\ listed \cup stale \subseteq listed' \cup stale'
      /\ b \notin listed => grid.dyn[b] = {}
  BY <1>0, <1>1, GetBubbleLemma
<1>3. /\ Matched(grid)'
      /\ grid'.bubble = grid.bubble /\ grid'.dyn = grid.dyn
      /\ \A c \in Bubbles, q \in Pilots :
           q \in grid'.players[c] <=> q \in grid.players[c] /\ (c # b \/ b \in listed)
  BY <1>0, <1>1, FreshLemma, RegisteredIsMatched DEF Matched
<1>4. TypeOK'
  <2>1. grid' \in Grids
    BY <1>3 DEF Matched
  <2> QED BY <1>0, <1>1, <1>2, <2>1, BubblesAssumption
          DEF TypeOK, Grids, Modes, sweepVars, BubblesAssumption
<1>5. Registered'
  BY <1>0, <1>3, MatchedIsRegistered DEF Registered
<1>6. Lists'
  <2>1. OccupiedListed'
    BY <1>2, <1>3 DEF Inv, Lists, OccupiedListed
  <2>2. TargetListed'
    BY <1>0, <1>1, <1>2 DEF Inv, Lists, TargetListed, TypeOK
  <2> QED BY <1>0, <2>1, <2>2 DEF Inv, Lists, NoneCollected, sweepVars
<1>7. Crew'
  BY <1>0, CrewSame DEF Inv
<1>8. ListenerHere'
  <2>1. \A c \in Bubbles, q \in Pilots \ astray :
          q \in grid'.players[c] <=> q \in grid.players[c]
    BY <1>2, <1>3, UnheardLemma
  <2> QED BY <1>0, <1>3, <2>1 DEF Inv, ListenerHere
<1> QED BY <1>4, <1>5, <1>6, <1>7, <1>8 DEF Inv

\* A ship leaves its bubble in the acceleration.
LEMMA WarpAccelStep ==
    ASSUME Inv, NEW e \in Entities, WarpAccel(e)
    PROVE  Inv'
<1>0. /\ e \in space /\ mode[e] = "accel"
      /\ mode' = [mode EXCEPT ![e] = "decel"]
      /\ UNCHANGED <<up, centre, listed, sweepVars, space, dest, target, pilot, ship, stale, astray>>
      /\ TypeOK /\ Registered /\ pilot[e] \in Clients /\ Matched(grid)
  BY PilotIsClient, RegisteredIsMatched DEF WarpAccel, Inv
<1>1. PICK x \in Int : /\ pos' = [pos EXCEPT ![e] = x]
                       /\ grid' \in {grid, Remove(grid, e, pilot[e])}
  <2> DEFINE third == Dist(pos[e], dest[e]) \div 3
  <2>1. third \in Int /\ pos[e] \in Int
    BY <1>0 DEF TypeOK, Dist
  <2> HIDE DEF third
  <2>2. pos[e] + third \in Int /\ pos[e] - third \in Int
    BY <2>1
  <2> QED BY <2>2 DEF WarpAccel, third
<1>2. /\ Matched(grid)'
      /\ \A f \in Entities \ {e} : grid'.bubble[f] = grid.bubble[f]
      /\ \A c \in Bubbles : grid'.dyn[c] \subseteq grid.dyn[c]
      /\ \/ grid' = grid
         \/ /\ grid'.bubble[e] = NoBubble
            /\ \A c \in Bubbles, q \in Pilots :
                 q \in grid'.players[c] <=>
                   q \in grid.players[c] /\ ~(q = pilot[e] /\ c = grid.bubble[e])
  <2>1. CASE grid' = grid
    BY <1>0, <2>1 DEF Matched
  <2>2. CASE grid' = Remove(grid, e, pilot[e])
    BY <1>0, <2>2, RemoveLemma DEF Matched
  <2> QED BY <1>1, <2>1, <2>2
<1>3. TypeOK'
  <2>1. grid' \in Grids
    BY <1>2 DEF Matched
  <2> QED BY <1>0, <1>1, <2>1 DEF TypeOK, Grids, Modes, sweepVars
<1>4. Registered'
  BY <1>0, <1>2, MatchedIsRegistered DEF Registered
<1>5. Lists'
  BY <1>0, <1>2 DEF Inv, Lists, OccupiedListed, TargetListed, NoneCollected, sweepVars
<1>6. Crew'
  BY <1>0, CrewSame DEF Inv
<1>7. ListenerHere'
  <2>1. CASE grid' = grid
    BY <1>0, <2>1 DEF Inv, ListenerHere
  <2>2. CASE grid' # grid
    <3>1. \A c \in Bubbles, q \in Pilots \ astray :
            q = pilot[e] => (q \in grid.players[c] <=> grid.bubble[e] = c)
      BY <1>0, BubblesAssumption
         DEF Inv, ListenerHere, Crew, PilotAboard, BubblesAssumption
    <3>2. \A c \in Bubbles, q \in Pilots \ astray :
            IF q = pilot[e] THEN q \in grid'.players[c] <=> grid'.bubble[e] = c
            ELSE q \in grid'.players[c] <=> q \in grid.players[c]
      BY <1>2, <2>2, <3>1, BubblesAssumption DEF BubblesAssumption
    <3> QED BY <1>0, <1>2, <3>2, MovedListeners
  <2> QED BY <2>1, <2>2
<1> QED BY <1>3, <1>4, <1>5, <1>6, <1>7 DEF Inv

\* A ship in warp enters its target bubble, and may stop there.
LEMMA WarpDecelStep ==
    ASSUME Inv, NEW e \in Entities, NEW x \in Places, WarpDecel(e, x)
    PROVE  Inv'
<1>0. /\ e \in space /\ x \in Int /\ mode[e] = "decel"
      /\ pos' = [pos EXCEPT ![e] = x]
      /\ UNCHANGED <<up, centre, listed, sweepVars, space, pilot, ship, stale, astray>>
      /\ TypeOK /\ Registered /\ pilot[e] \in Clients /\ Matched(grid)
      /\ Arrive(e, x)
  BY PilotIsClient, RegisteredIsMatched, BubblesAssumption
     DEF WarpDecel, Inv, BubblesAssumption
<1>1. target[e] \in Bubbles /\ target[e] \in listed \cup stale
  BY <1>0 DEF TypeOK, Inv, Lists, TargetListed
<1>2. /\ mode' \in [Entities -> Modes]
      /\ dest' \in [Entities -> Int]
      /\ target' \in [Entities -> Bubbles \cup {NoBubble}]
      /\ \A f \in Entities :
           mode'[f] # "idle" => mode[f] # "idle" /\ target'[f] = target[f]
      /\ \A f \in Entities : mode'[f] # "idle" => target'[f] # NoBubble
  <2>1. CASE x = dest[e]
    BY <1>0, <2>1 DEF WarpDecel, Stop, TypeOK, Modes
  <2>2. CASE x # dest[e]
    BY <1>0, <2>2 DEF WarpDecel, TypeOK
  <2> QED BY <2>1, <2>2
<1>3. /\ Matched(grid)'
      /\ \A f \in Entities \ {e} : grid'.bubble[f] = grid.bubble[f]
      /\ \A c \in Bubbles \ {target[e]} : grid'.dyn[c] \subseteq grid.dyn[c]
      /\ \/ grid' = grid
         \/ /\ grid.bubble[e] = NoBubble
            /\ grid'.bubble[e] = target[e]
            /\ \A c \in Bubbles, q \in Pilots :
                 q \in grid'.players[c] <=>
                   q \in grid.players[c] \/ (q = pilot[e] /\ c = target[e])
  <2>1. CASE grid' = grid
    BY <1>0, <2>1 DEF Matched
  <2>2. CASE grid.bubble[e] = NoBubble /\ grid' = Add(grid, e, pilot[e], target[e])
    BY <1>0, <1>1, <2>2, AddLemma DEF Matched
  <2> QED BY <1>0, <2>1, <2>2 DEF Arrive
<1>4. TypeOK'
  <2>1. grid' \in Grids
    BY <1>3 DEF Matched
  <2> QED BY <1>0, <1>2, <2>1 DEF TypeOK, Grids, sweepVars
<1>5. Registered'
  BY <1>0, <1>3, MatchedIsRegistered DEF Registered
<1>6. Lists'
  <2>1. OccupiedListed'
    BY <1>0, <1>1, <1>3, GrownLists DEF Inv, Lists
  <2>2. TargetListed'
    BY <1>0, <1>2 DEF Inv, Lists, TargetListed
  <2> QED BY <1>0, <2>1, <2>2 DEF Inv, Lists, NoneCollected, sweepVars
<1>7. Crew'
  BY <1>0, CrewSame DEF Inv
<1>8. ListenerHere'
  <2>1. CASE grid' = grid
    BY <1>0, <2>1 DEF Inv, ListenerHere
  <2>2. CASE grid' # grid
    <3>1. \A c \in Bubbles, q \in Pilots \ astray :
            q = pilot[e] => q \notin grid.players[c]
      BY <1>0, <1>3, <2>2, BubblesAssumption
         DEF Inv, ListenerHere, Crew, PilotAboard, BubblesAssumption
    <3>2. \A c \in Bubbles, q \in Pilots \ astray :
            IF q = pilot[e] THEN q \in grid'.players[c] <=> grid'.bubble[e] = c
            ELSE q \in grid'.players[c] <=> q \in grid.players[c]
      BY <1>3, <2>2, <3>1
    <3> QED BY <1>0, <1>3, <3>2, MovedListeners
  <2> QED BY <2>1, <2>2
<1> QED BY <1>4, <1>5, <1>6, <1>7, <1>8 DEF Inv

\* An entity that was taken out of its bubble, or had none, is added to the
\* bubble of its position: SetPosition and CheckBubble.
LEMMA Rebubbled ==
    ASSUME Inv, NEW e \in space, NEW x \in Int, NEW b \in Bubbles, NEW STATE g,
           g = grid \/ g = Remove(grid, e, pilot[e]), g.bubble[e] = NoBubble,
           GetBubble(x, b), grid' = ManagerAdd(g, e, pilot[e], b),
           UNCHANGED <<space, mode, target, ship, pilot, astray>>
    PROVE  /\ grid' \in Grids /\ Registered'
           /\ OccupiedListed' /\ TargetListed' /\ ListenerHere'
<1>0. /\ TypeOK /\ Registered /\ Matched(grid)
      /\ e \in Entities /\ pilot[e] \in Clients
  BY PilotIsClient, RegisteredIsMatched DEF Inv, TypeOK
<1>1. /\ b \in listed'
      /\ listed \cup stale \subseteq listed' \cup stale'
      /\ b \notin listed => grid.dyn[b] = {}
  BY <1>0, GetBubbleLemma
<1>2. /\ Matched(g)
      /\ \A f \in Entities \ {e} : g.bubble[f] = grid.bubble[f]
      /\ \A c \in Bubbles : g.dyn[c] \subseteq grid.dyn[c]
      /\ \A c \in Bubbles, q \in Pilots :
           q # pilot[e] => (q \in g.players[c] <=> q \in grid.players[c])
  BY <1>0, RemoveLemma
<1>3. \A c \in Bubbles, q \in Pilots \ astray :
        q = pilot[e] => q \notin g.players[c]
  <2>1. \A c \in Bubbles, q \in Pilots \ astray :
          q = pilot[e] => (q \in grid.players[c] <=> grid.bubble[e] = c)
    BY <1>0, BubblesAssumption
       DEF Inv, ListenerHere, Crew, PilotAboard, BubblesAssumption
  <2>2. CASE g = grid
    BY <2>1, <2>2, BubblesAssumption DEF BubblesAssumption
  <2>3. CASE g = Remove(grid, e, pilot[e])
    BY <1>0, <2>1, <2>3, RemoveLemma
  <2> QED BY <2>2, <2>3
<1>4. /\ Matched(grid)'
      /\ grid'.bubble[e] = b
      /\ \A f \in Entities \ {e} : grid'.bubble[f] = g.bubble[f]
      /\ \A c \in Bubbles \ {b} : grid'.dyn[c] = g.dyn[c]
      /\ \A c \in Bubbles, q \in Pilots :
           q \in grid'.players[c] <=>
             \/ q \in g.players[c] /\ (c # b \/ b \in listed)
             \/ q = pilot[e] /\ c = b
  BY <1>0, <1>2, ManagerAddLemma DEF Matched
<1>5. Registered'
  BY <1>0, <1>2, <1>4, MatchedIsRegistered DEF Registered
<1>6. OccupiedListed'
  BY <1>1, <1>2, <1>4, GrownLists DEF Inv, Lists
<1>7. TargetListed'
  BY <1>1 DEF Inv, Lists, TargetListed
<1>8. ListenerHere'
  <2>1. \A q \in Pilots \ astray : b \notin listed => q \notin grid.players[b]
    BY <1>1, UnheardLemma
  <2>2. \A c \in Bubbles, q \in Pilots \ astray :
          IF q = pilot[e] THEN q \in grid'.players[c] <=> grid'.bubble[e] = c
          ELSE q \in grid'.players[c] <=> q \in grid.players[c]
    BY <1>2, <1>3, <1>4, <2>1
  <2> QED BY <1>2, <1>4, <2>2, MovedListeners
<1> QED BY <1>4, <1>5, <1>6, <1>7, <1>8 DEF Matched

LEMMA SetPositionStep ==
    ASSUME Inv, NEW e \in Entities, NEW x \in Places, SetPosition(e, x)
    PROVE  Inv'
<1> DEFINE g == IF grid.bubble[e] # NoBubble /\ ~InBubble(grid.bubble[e], x)
                THEN Remove(grid, e, pilot[e]) ELSE grid
<1>0. /\ e \in space /\ x \in Int
      /\ pos' = [pos EXCEPT ![e] = x]
      /\ UNCHANGED <<up, sweepVars, space, mode, dest, target, pilot, ship, astray>>
      /\ IF g.bubble[e] = NoBubble
         THEN \E b \in Bubbles : GetBubble(x, b) /\ grid' = ManagerAdd(g, e, pilot[e], b)
         ELSE grid' = g /\ UNCHANGED <<centre, listed, stale>>
      /\ TypeOK /\ Registered /\ Matched(grid) /\ pilot[e] \in Clients
  BY PilotIsClient, RegisteredIsMatched, BubblesAssumption
     DEF SetPosition, Flying, NotInWarp, Inv, BubblesAssumption
<1>1. CASE g.bubble[e] = NoBubble
  <2>1. PICK b \in Bubbles : GetBubble(x, b) /\ grid' = ManagerAdd(g, e, pilot[e], b)
    BY <1>0, <1>1
  <2>2. g = grid \/ g = Remove(grid, e, pilot[e])
    OBVIOUS
  <2> HIDE DEF g
  <2>3. /\ grid' \in Grids /\ Registered'
        /\ OccupiedListed' /\ TargetListed' /\ ListenerHere'
    BY <1>0, <1>1, <2>1, <2>2, Rebubbled
  <2>4. /\ centre' \in [Bubbles -> Int] /\ listed' \subseteq Bubbles
        /\ stale' \subseteq Bubbles
    BY <1>0, <2>1, GetBubbleLemma
  <2>5. TypeOK'
    BY <1>0, <2>3, <2>4 DEF TypeOK, Grids, sweepVars
  <2>6. Lists'
    BY <1>0, <2>3 DEF Inv, Lists, NoneCollected, sweepVars
  <2>7. Crew'
    BY <1>0, CrewSame DEF Inv
  <2> QED BY <2>3, <2>5, <2>6, <2>7 DEF Inv
<1>2. CASE g.bubble[e] # NoBubble
  <2>1. grid' = grid /\ UNCHANGED <<centre, listed, stale>>
    BY <1>0, <1>2, RemoveLemma
  <2>2. TypeOK'
    BY <1>0, <2>1 DEF TypeOK, sweepVars
  <2>3. Registered' /\ Lists' /\ ListenerHere'
    BY <1>0, <2>1 DEF Inv, Registered, Lists, OccupiedListed, TargetListed,
                      NoneCollected, ListenerHere, sweepVars
  <2>4. Crew'
    BY <1>0, CrewSame DEF Inv
  <2> QED BY <2>2, <2>3, <2>4 DEF Inv
<1> QED BY <1>1, <1>2

LEMMA CheckBubbleStep ==
    ASSUME Inv, NEW e \in Entities, CheckBubble(e)
    PROVE  Inv'
<1> DEFINE g == Remove(grid, e, pilot[e])
<1>0. /\ sweeping /\ e \in wanderers
      /\ wanderers' = wanderers \ {e}
      /\ UNCHANGED <<up, sweeping, shipVars, astray>>
      /\ TypeOK /\ Matched(grid) /\ pilot[e] \in Clients
      /\ e \in space /\ pos[e] \in Int
  BY PilotIsClient, RegisteredIsMatched DEF CheckBubble, Inv, TypeOK
<1>1. PICK b \in Bubbles : GetBubble(pos[e], b) /\ grid' = ManagerAdd(g, e, pilot[e], b)
  BY DEF CheckBubble
<1>2. g.bubble[e] = NoBubble
  BY <1>0, RemoveLemma
<1>3. g = grid \/ g = Remove(grid, e, pilot[e])
  OBVIOUS
<1> HIDE DEF g
<1>4. /\ grid' \in Grids /\ Registered'
      /\ OccupiedListed' /\ TargetListed' /\ ListenerHere'
  BY <1>0, <1>1, <1>2, <1>3, Rebubbled DEF shipVars
<1>5. /\ centre' \in [Bubbles -> Int] /\ listed' \subseteq Bubbles
      /\ stale' \subseteq Bubbles
  BY <1>0, <1>1, GetBubbleLemma
<1>6. TypeOK'
  BY <1>0, <1>4, <1>5 DEF TypeOK, Grids, shipVars
<1>7. Lists'
  BY <1>0, <1>4 DEF Lists, NoneCollected
<1>8. Crew'
  BY <1>0, CrewSame DEF Inv, shipVars
<1> QED BY <1>4, <1>6, <1>7, <1>8 DEF Inv

-----------------------------------------------------------------------------
(* Steps of the clients                                                    *)

LEMMA EnterSpaceStep ==
    ASSUME Inv, NEW p \in Pilots, NEW e \in Entities, NEW x \in Exits,
           EnterSpace(p, e, x)
    PROVE  Inv'
<1>0. /\ ~sweeping /\ ship[p] = NoEntity
      /\ e \notin space /\ \A q \in Pilots : ship[q] # e
      /\ space' = space \cup {e}
      /\ pos' = [pos EXCEPT ![e] = x]
      /\ pilot' = [pilot EXCEPT ![e] = p]
      /\ ship' = [ship EXCEPT ![p] = e]
      /\ UNCHANGED <<up, sweepVars, mode, dest, target, astray>>
      /\ TypeOK /\ Registered /\ Matched(grid) /\ p \in Clients
      /\ x \in Int /\ grid.bubble[e] = NoBubble
      /\ p # NoPilot
  BY RegisteredIsMatched, BubblesAssumption
     DEF EnterSpace, Calm, Spare, Inv, Clients, Registered, BubblesAssumption
<1>1. PICK b \in Bubbles : GetBubble(x, b) /\ grid' = ManagerAdd(grid, e, p, b)
  BY DEF EnterSpace
<1>2. /\ centre' \in [Bubbles -> Int] /\ listed' \subseteq Bubbles
      /\ stale' \subseteq Bubbles /\ b \in listed'
      /\ listed \cup stale \subseteq listed' \cup stale'
      /\ b \notin listed => grid.dyn[b] = {}
  BY <1>0, <1>1, GetBubbleLemma
<1>3. /\ Matched(grid)'
      /\ grid'.bubble[e] = b
      /\ \A f \in Entities \ {e} : grid'.bubble[f] = grid.bubble[f]
      /\ \A c \in Bubbles \ {b} : grid'.dyn[c] = grid.dyn[c]
      /\ \A c \in Bubbles, q \in Pilots :
           q \in grid'.players[c] <=>
             \/ q \in grid.players[c] /\ (c # b \/ b \in listed)
             \/ q = p /\ c = b
  BY <1>0, <1>1, ManagerAddLemma DEF Matched
<1>4. TypeOK'
  <2>1. grid' \in Grids
    BY <1>3 DEF Matched
  <2> QED BY <1>0, <1>2, <2>1 DEF TypeOK, Grids, sweepVars
<1>5. Registered'
  BY <1>0, <1>3, MatchedIsRegistered DEF Registered
<1>6. Lists'
  <2>1. OccupiedListed'
    BY <1>2, <1>3, GrownLists DEF Inv, Lists
  <2>2. TargetListed'
    BY <1>0, <1>2 DEF Inv, Lists, TargetListed
  <2> QED BY <1>0, <2>1, <2>2 DEF Inv, Lists, NoneCollected, sweepVars
<1>7. Crew'
  <2>1. \A q \in Pilots : ship'[q] = IF q = p THEN e ELSE ship[q]
    BY <1>0 DEF TypeOK
  <2>2. \A f \in Entities : pilot'[f] = IF f = e THEN p ELSE pilot[f]
    BY <1>0 DEF TypeOK
  <2>3. PilotAboard'
    <3> SUFFICES ASSUME NEW f \in Entities, pilot'[f] # NoPilot
                 PROVE  ship'[pilot'[f]] = f
      BY DEF PilotAboard
    <3>1. f # e => pilot[f] \in Pilots /\ ship[pilot[f]] = f
      BY <2>2 DEF Inv, TypeOK, Crew, PilotAboard
    <3> QED BY <1>0, <2>1, <2>2, <3>1, BubblesAssumption DEF BubblesAssumption
  <2>4. OwnShip'
    BY <1>0, <2>1, <2>2 DEF Inv, Crew, OwnShip, TypeOK
  <2>5. AloneAboard'
    BY <1>0, <2>1 DEF Inv, Crew, AloneAboard
  <2> QED BY <2>3, <2>4, <2>5 DEF Crew
<1>8. ListenerHere'
  <2> SUFFICES ASSUME NEW q \in Pilots \ astray, NEW c \in Bubbles
               PROVE  q \in grid'.players[c] <=> ship'[q] \in space' /\ grid'.bubble[ship'[q]] = c
    BY <1>0 DEF ListenerHere
  <2>1. q \in grid.players[c] <=> ship[q] \in space /\ grid.bubble[ship[q]] = c
    BY DEF Inv, ListenerHere
  <2>2. b \notin listed => q \notin grid.players[b]
    BY <1>2, UnheardLemma
  <2>3. CASE q = p
    BY <1>0, <1>3, <2>1, <2>3, BubblesAssumption DEF TypeOK, BubblesAssumption
  <2>4. CASE q # p
    <3>1. ship'[q] = ship[q] /\ ship[q] # e
      BY <1>0, <2>4 DEF TypeOK
    <3>2. q \in grid'.players[c] <=> q \in grid.players[c]
      BY <1>3, <2>2, <2>4
    <3> QED BY <1>0, <1>3, <2>1, <3>1, <3>2 DEF TypeOK
  <2> QED BY <2>3, <2>4
<1> QED BY <1>4, <1>5, <1>6, <1>7, <1>8 DEF Inv

\* The types in a step that deletes an entity.
LEMMA GoneTypes ==
    ASSUME Inv, ~sweeping, NEW e \in space, NEW who \in Clients, Gone(grid, e, who)
    PROVE  /\ grid' \in Grids /\ Matched(grid)'
           /\ centre' \in [Bubbles -> Int] /\ listed' = listed /\ stale' = stale
           /\ space' = space \ {e} /\ wanderers \subseteq space'
           /\ pos' \in [Entities -> Int] /\ dest' \in [Entities -> Int]
           /\ mode' \in [Entities -> Modes]
           /\ target' \in [Entities -> Bubbles \cup {NoBubble}]
           /\ \A f \in Entities : mode'[f] # "idle" => target'[f] # NoBubble
           /\ Registered' /\ OccupiedListed' /\ TargetListed'
           /\ \A f \in Entities \ {e} : grid'.bubble[f] = grid.bubble[f]
           /\ \A c \in Bubbles, q \in Pilots :
                q \in grid'.players[c] <=>
                  q \in grid.players[c] /\ ~(q = who /\ c = grid.bubble[e])
<1>0. /\ e \in Entities /\ Matched(grid) /\ TypeOK /\ Registered
  BY RegisteredIsMatched DEF Inv, TypeOK
<1>1. /\ grid' = Remove(grid, e, who)
      /\ space' = space \ {e}
      /\ pos' = [pos EXCEPT ![e] = 0]
      /\ mode' = [mode EXCEPT ![e] = "idle"]
      /\ dest' = [dest EXCEPT ![e] = 0]
      /\ target' = [target EXCEPT ![e] = NoBubble]
      /\ UNCHANGED <<centre, listed, stale>>
  BY DEF Gone, Stop
<1>2. /\ Matched(grid)'
      /\ grid'.bubble[e] = NoBubble
      /\ \A f \in Entities \ {e} : grid'.bubble[f] = grid.bubble[f]
      /\ \A c \in Bubbles : grid'.dyn[c] = grid.dyn[c] \ {e}
      /\ \A c \in Bubbles, q \in Pilots :
           q \in grid'.players[c] <=>
             q \in grid.players[c] /\ ~(q = who /\ c = grid.bubble[e])
  BY <1>0, <1>1, RemoveLemma DEF Matched
<1>3. grid' \in Grids
  BY <1>2 DEF Matched
<1>4. wanderers \subseteq space'
  BY <1>1 DEF Inv, Lists, NoneCollected
<1>5. /\ pos' \in [Entities -> Int] /\ dest' \in [Entities -> Int]
      /\ mode' \in [Entities -> Modes]
      /\ target' \in [Entities -> Bubbles \cup {NoBubble}]
      /\ \A f \in Entities : mode'[f] # "idle" => target'[f] # NoBubble
  BY <1>0, <1>1 DEF TypeOK, Modes
<1>6. Registered'
  BY <1>0, <1>1, <1>2, MatchedIsRegistered DEF Registered
<1>7. OccupiedListed'
  BY <1>1, <1>2 DEF Inv, Lists, OccupiedListed
<1>8. TargetListed'
  BY <1>0, <1>1 DEF Inv, Lists, TargetListed, TypeOK
<1> QED BY <1>0, <1>1, <1>2, <1>3, <1>4, <1>5, <1>6, <1>7, <1>8 DEF TypeOK

LEMMA LeaveSpaceStep ==
    ASSUME Inv, NEW p \in Pilots, LeaveSpace(p)
    PROVE  Inv'
<1> DEFINE e == ship[p]
<1>0. /\ ~sweeping /\ e \in space
      /\ Gone(grid, e, pilot[e])
      /\ ship' = [ship EXCEPT ![p] = NoEntity]
      /\ pilot' = [pilot EXCEPT ![e] = NoPilot]
      /\ UNCHANGED <<up, sweepVars, astray>>
      /\ TypeOK /\ e \in Entities /\ pilot[e] \in Clients
  BY DEF LeaveSpace, Calm, Inv, TypeOK, Clients
<1>1. /\ grid' \in Grids /\ Matched(grid)'
      /\ centre' \in [Bubbles -> Int] /\ listed' = listed /\ stale' = stale
      /\ space' = space \ {e} /\ wanderers \subseteq space'
      /\ pos' \in [Entities -> Int] /\ dest' \in [Entities -> Int]
      /\ mode' \in [Entities -> Modes]
      /\ target' \in [Entities -> Bubbles \cup {NoBubble}]
      /\ \A f \in Entities : mode'[f] # "idle" => target'[f] # NoBubble
      /\ Registered' /\ OccupiedListed' /\ TargetListed'
      /\ \A f \in Entities \ {e} : grid'.bubble[f] = grid.bubble[f]
      /\ \A c \in Bubbles, q \in Pilots :
           q \in grid'.players[c] <=>
             q \in grid.players[c] /\ ~(q = pilot[e] /\ c = grid.bubble[e])
  BY <1>0, GoneTypes
<1>2. TypeOK'
  BY <1>0, <1>1 DEF TypeOK, Grids, sweepVars
<1>3. Lists'
  BY <1>0, <1>1 DEF Inv, Lists, NoneCollected, sweepVars
<1>4. \A q \in Pilots : ship'[q] = IF q = p THEN NoEntity ELSE ship[q]
  BY <1>0 DEF TypeOK
<1>5. \A f \in Entities : pilot'[f] = IF f = e THEN NoPilot ELSE pilot[f]
  BY <1>0 DEF TypeOK
<1>6. Crew'
  <2>1. PilotAboard'
    <3> SUFFICES ASSUME NEW f \in Entities, pilot'[f] # NoPilot
                 PROVE  ship'[pilot'[f]] = f
      BY DEF PilotAboard
    <3>1. f # e /\ pilot[f] \in Pilots /\ ship[pilot[f]] = f
      BY <1>5 DEF Inv, TypeOK, Crew, PilotAboard
    <3> QED BY <1>4, <1>5, <3>1
  <2>2. OwnShip'
    BY <1>0, <1>1, <1>4, <1>5, BubblesAssumption
       DEF Inv, Crew, OwnShip, TypeOK, BubblesAssumption
  <2>3. AloneAboard'
    BY <1>0, <1>4 DEF Inv, Crew, AloneAboard
  <2> QED BY <2>1, <2>2, <2>3 DEF Crew
<1>7. ListenerHere'
  <2> SUFFICES ASSUME NEW q \in Pilots \ astray, NEW c \in Bubbles
               PROVE  q \in grid'.players[c] <=> ship'[q] \in space' /\ grid'.bubble[ship'[q]] = c
    BY <1>0 DEF ListenerHere
  <2>1. q \in grid.players[c] <=> ship[q] \in space /\ grid.bubble[ship[q]] = c
    BY DEF Inv, ListenerHere
  <2>2. CASE q = p
    <3>1. pilot[e] = q
      BY <1>0, <2>2 DEF Inv, Crew, OwnShip
    <3>2. q \notin grid'.players[c]
      BY <1>0, <1>1, <2>1, <2>2, <3>1
    <3>3. ship'[q] \notin space'
      BY <1>0, <1>1, <1>4, <2>2, BubblesAssumption DEF TypeOK, BubblesAssumption
    <3> QED BY <3>2, <3>3
  <2>3. CASE q # p
    <3>1. ship[q] # e
      BY <1>0, <2>3, BubblesAssumption DEF Inv, Crew, AloneAboard, BubblesAssumption
    <3>2. q # pilot[e]
      BY <1>0, <3>1, BubblesAssumption DEF Inv, Crew, PilotAboard, BubblesAssumption
    <3> QED BY <1>1, <1>4, <2>1, <2>3, <3>1, <3>2 DEF Inv, TypeOK
  <2> QED BY <2>2, <2>3
<1> QED BY <1>1, <1>2, <1>3, <1>6, <1>7 DEF Inv

LEMMA RemoveEntityStep ==
    ASSUME Inv, NEW e \in Entities, RemoveEntity(e)
    PROVE  Inv'
<1>0. /\ ~sweeping /\ e \in space /\ pilot[e] = NoPilot
      /\ Gone(grid, e, NoPilot)
      /\ UNCHANGED <<up, sweepVars, pilot, ship, astray>>
      /\ TypeOK /\ NoPilot \in Clients
  BY DEF RemoveEntity, Calm, Inv, Clients
<1>1. /\ grid' \in Grids /\ Matched(grid)'
      /\ centre' \in [Bubbles -> Int] /\ listed' = listed /\ stale' = stale
      /\ space' = space \ {e} /\ wanderers \subseteq space'
      /\ pos' \in [Entities -> Int] /\ dest' \in [Entities -> Int]
      /\ mode' \in [Entities -> Modes]
      /\ target' \in [Entities -> Bubbles \cup {NoBubble}]
      /\ \A f \in Entities : mode'[f] # "idle" => target'[f] # NoBubble
      /\ Registered' /\ OccupiedListed' /\ TargetListed'
      /\ \A f \in Entities \ {e} : grid'.bubble[f] = grid.bubble[f]
      /\ \A c \in Bubbles, q \in Pilots :
           q \in grid'.players[c] <=>
             q \in grid.players[c] /\ ~(q = NoPilot /\ c = grid.bubble[e])
  BY <1>0, GoneTypes
<1>2. TypeOK'
  BY <1>0, <1>1 DEF TypeOK, Grids, sweepVars
<1>3. Lists'
  BY <1>0, <1>1 DEF Inv, Lists, NoneCollected, sweepVars
<1>4. Crew'
  BY <1>0, <1>1 DEF Inv, Crew, PilotAboard, OwnShip, AloneAboard
<1>5. ListenerHere'
  <2> SUFFICES ASSUME NEW q \in Pilots \ astray, NEW c \in Bubbles
               PROVE  q \in grid'.players[c] <=> ship[q] \in space' /\ grid'.bubble[ship[q]] = c
    BY <1>0 DEF ListenerHere
  <2>1. q \in grid.players[c] <=> ship[q] \in space /\ grid.bubble[ship[q]] = c
    BY DEF Inv, ListenerHere
  <2>2. ship[q] # e
    BY <1>0, BubblesAssumption DEF Inv, Crew, OwnShip, BubblesAssumption
  <2> QED BY <1>1, <2>1, <2>2, BubblesAssumption DEF Inv, TypeOK, BubblesAssumption
<1> QED BY <1>1, <1>2, <1>3, <1>4, <1>5 DEF Inv

\* Ejection and the loss of a ship: the client p changes from its ship e to
\* the capsule pod, which is added to the bubble b of the position.
LEMMA CapsuleStep ==
    ASSUME Inv, NEW p \in Pilots, NEW pod \in Entities, NEW b \in Bubbles,
           NEW STATE g, ship[p] \in space, pod \notin space,
           \A q \in Pilots : ship[q] # pod,
           \/ g = grid /\ space' = space \cup {pod}
           \/ /\ g = Remove(grid, ship[p], NoPilot)
              /\ space' = (space \ {ship[p]}) \cup {pod},
           pilot' = [pilot EXCEPT ![ship[p]] = NoPilot, ![pod] = p],
           ship' = [ship EXCEPT ![p] = pod],
           Stop(ship[p]),
           pos' \in [Entities -> Int],
           GetBubble(pos[ship[p]], b), grid' = ManagerAdd(g, pod, p, b),
           astray' \in {astray, astray \cup {p}},
           p \notin astray' => b = grid.bubble[ship[p]],
           UNCHANGED <<up, sweepVars>>, ~sweeping
    PROVE  Inv'
<1> DEFINE e == ship[p]
<1>0. /\ TypeOK /\ Registered /\ Matched(grid)
      /\ e \in Entities /\ e # pod /\ pos[e] \in Int
      /\ p \in Clients /\ NoPilot \in Clients /\ p # NoPilot
      /\ grid.bubble[pod] = NoBubble
  BY RegisteredIsMatched, BubblesAssumption
     DEF Inv, TypeOK, Clients, Registered, BubblesAssumption
<1>1. /\ centre' \in [Bubbles -> Int] /\ listed' \subseteq Bubbles
      /\ stale' \subseteq Bubbles /\ b \in listed'
      /\ listed \cup stale \subseteq listed' \cup stale'
      /\ b \notin listed => grid.dyn[b] = {}
  BY <1>0, GetBubbleLemma
<1>2. /\ Matched(g)
      /\ \A f \in Entities \ {e} : g.bubble[f] = grid.bubble[f]
      /\ \A c \in Bubbles : g.dyn[c] \subseteq grid.dyn[c]
      /\ \A c \in Bubbles, q \in Pilots : q \in g.players[c] <=> q \in grid.players[c]
      /\ e \notin space' => g.bubble[e] = NoBubble
  <2>1. CASE g = grid /\ space' = space \cup {pod}
    BY <1>0, <2>1
  <2>2. CASE g = Remove(grid, e, NoPilot) /\ space' = (space \ {e}) \cup {pod}
    <3> DEFINE h == Remove(grid, e, NoPilot)
    <3>1. /\ Matched(h)
          /\ h.bubble[e] = NoBubble
          /\ \A f \in Entities \ {e} : h.bubble[f] = grid.bubble[f]
          /\ \A c \in Bubbles : h.dyn[c] = grid.dyn[c] \ {e}
          /\ \A c \in Bubbles, q \in Pilots :
               q \in h.players[c] <=>
                 q \in grid.players[c] /\ ~(q = NoPilot /\ c = grid.bubble[e])
      BY <1>0, RemoveLemma, SMTT(30)
    <3> HIDE DEF h
    <3>2. g = h
      BY <2>2 DEF h
    <3>3. \A c \in Bubbles, q \in Pilots : q \in g.players[c] <=> q \in grid.players[c]
      BY <3>1, <3>2, BubblesAssumption DEF BubblesAssumption
    <3>4. \A c \in Bubbles : g.dyn[c] \subseteq grid.dyn[c]
      BY <3>1, <3>2
    <3> QED BY <3>1, <3>2, <3>3, <3>4
  <2> QED BY <2>1, <2>2
<1>3. g.bubble[pod] = NoBubble
  BY <1>0, <1>2
<1>4. /\ Matched(grid)'
      /\ grid'.bubble[pod] = b
      /\ \A f \in Entities \ {pod} : grid'.bubble[f] = g.bubble[f]
      /\ \A c \in Bubbles \ {b} : grid'.dyn[c] = g.dyn[c]
      /\ \A c \in Bubbles, q \in Pilots :
           q \in grid'.players[c] <=>
             \/ q \in g.players[c] /\ (c # b \/ b \in listed)
             \/ q = p /\ c = b
  BY <1>0, <1>2, <1>3, ManagerAddLemma DEF Matched
<1>5. /\ mode' \in [Entities -> Modes] /\ dest' \in [Entities -> Int]
      /\ target' \in [Entities -> Bubbles \cup {NoBubble}]
      /\ \A f \in Entities :
           mode'[f] # "idle" => mode[f] # "idle" /\ target'[f] = target[f]
      /\ \A f \in Entities : mode'[f] # "idle" => target'[f] # NoBubble
  BY <1>0 DEF Stop, TypeOK, Modes
<1>6. /\ pod \in space' /\ space' \subseteq Entities
      /\ \A f \in Entities : f # pod /\ f # e => (f \in space' <=> f \in space)
  BY <1>0 DEF TypeOK
<1>7. TypeOK'
  <2>1. grid' \in Grids
    BY <1>4 DEF Matched
  <2>2. pilot' \in [Entities -> Pilots \cup {NoPilot}]
    BY <1>0 DEF TypeOK
  <2>3. wanderers' = {}
    BY DEF Inv, Lists, NoneCollected, sweepVars
  <2>4. ship' \in [Pilots -> Entities \cup {NoEntity}] /\ astray' \subseteq Pilots
    BY <1>0 DEF TypeOK
  <2>5. up' \in BOOLEAN /\ sweeping' \in BOOLEAN
    BY <1>0 DEF TypeOK, sweepVars
  <2> QED BY <1>1, <1>5, <1>6, <2>1, <2>2, <2>3, <2>4, <2>5 DEF TypeOK, Grids
<1>8. Registered'
  <2> SUFFICES ASSUME NEW f \in Entities \ space' PROVE grid'.bubble[f] = NoBubble
    BY <1>4, MatchedIsRegistered
  <2>1. f # pod
    BY <1>6
  <2> QED BY <1>0, <1>2, <1>4, <1>6, <2>1 DEF Registered
<1>9. Lists'
  <2>1. OccupiedListed'
    BY <1>1, <1>2, <1>4, GrownLists DEF Inv, Lists
  <2>2. TargetListed'
    BY <1>1, <1>5 DEF Inv, Lists, TargetListed
  <2> QED BY <2>1, <2>2 DEF Inv, Lists, NoneCollected, sweepVars
<1>10. \A q \in Pilots : ship'[q] = IF q = p THEN pod ELSE ship[q]
  BY <1>0 DEF TypeOK
<1>11. \A f \in Entities :
         pilot'[f] = IF f = pod THEN p ELSE IF f = e THEN NoPilot ELSE pilot[f]
  BY <1>0 DEF TypeOK
<1>12. \A q \in Pilots \ astray' : q # p => ship[q] # e /\ ship[q] # pod
  BY <1>0, BubblesAssumption DEF Inv, Crew, AloneAboard, BubblesAssumption
<1>13. Crew'
  <2>1. PilotAboard'
    <3> SUFFICES ASSUME NEW f \in Entities, pilot'[f] # NoPilot
                 PROVE  ship'[pilot'[f]] = f
      BY DEF PilotAboard
    <3>1. f # pod => pilot[f] \in Pilots /\ ship[pilot[f]] = f /\ f # e
      BY <1>11 DEF Inv, TypeOK, Crew, PilotAboard
    <3> QED BY <1>0, <1>10, <1>11, <3>1
  <2>2. OwnShip'
    <3> SUFFICES ASSUME NEW q \in Pilots \ astray', ship'[q] \in space'
                 PROVE  pilot'[ship'[q]] = q
      BY DEF OwnShip
    <3>1. CASE q = p
      BY <1>10, <1>11, <3>1
    <3>2. CASE q # p
      BY <1>6, <1>10, <1>11, <1>12, <3>2, ZenonT(30) DEF Inv, Crew, OwnShip
    <3> QED BY <3>1, <3>2
  <2>3. AloneAboard'
    BY <1>10 DEF Inv, Crew, AloneAboard
  <2> QED BY <2>1, <2>2, <2>3 DEF Crew
<1>14. ListenerHere'
  <2> SUFFICES ASSUME NEW q \in Pilots \ astray', NEW c \in Bubbles
               PROVE  q \in grid'.players[c] <=> ship'[q] \in space' /\ grid'.bubble[ship'[q]] = c
    BY DEF ListenerHere
  <2>1. q \in grid.players[c] <=> ship[q] \in space /\ grid.bubble[ship[q]] = c
    BY DEF Inv, ListenerHere
  <2>2. q \in Pilots \ astray
    OBVIOUS
  <2>3. b \notin listed => q \notin grid.players[b]
    BY <1>1, <2>2, UnheardLemma
  <2>4. CASE q = p
    BY <1>2, <1>4, <1>6, <1>10, <2>1, <2>4
  <2>5. CASE q # p
    <3>1. ship'[q] = ship[q] /\ ship[q] # e /\ ship[q] # pod
      BY <1>10, <1>12, <2>5
    <3>2. q \in grid'.players[c] <=> q \in grid.players[c]
      BY <1>2, <1>4, <2>3, <2>5
    <3>3. ship[q] \in space' => ship[q] \in space /\ ship[q] \in Entities
      BY <1>6, <3>1
    <3>4. ship[q] \in space => ship[q] \in space' /\ ship[q] \in Entities
      BY <1>0, <1>6, <3>1 DEF TypeOK
    <3> QED BY <1>2, <1>4, <2>1, <3>1, <3>2, <3>3, <3>4
  <2> QED BY <2>4, <2>5
<1> QED BY <1>7, <1>8, <1>9, <1>13, <1>14 DEF Inv

LEMMA EjectStep ==
    ASSUME Inv, NEW p \in Pilots, NEW pod \in Pods, Eject(p, pod)
    PROVE  Inv'
<1> DEFINE e == ship[p]
<1>0. /\ ~sweeping /\ e \in space /\ pod \in Entities /\ pod \notin space
      /\ \A q \in Pilots : ship[q] # pod
      /\ pilot' = [pilot EXCEPT ![e] = NoPilot, ![pod] = p]
      /\ ship' = [ship EXCEPT ![p] = pod]
      /\ space' = space \cup {pod}
      /\ pos' = [pos EXCEPT ![pod] = pos[e]]
      /\ Stop(e)
      /\ UNCHANGED <<up, sweepVars>>
  BY DEF Eject, Calm, Spare, Entities
<1>1. PICK b \in Bubbles :
        /\ GetBubble(pos[e], b)
        /\ grid' = ManagerAdd(grid, pod, p, b)
        /\ astray' = IF b = grid.bubble[e] /\ pilot[e] = p THEN astray ELSE astray \cup {p}
  BY DEF Eject
<1>2. astray' \in {astray, astray \cup {p}} /\ (p \notin astray' => b = grid.bubble[e])
  BY <1>1
<1>3. pos' \in [Entities -> Int]
  BY <1>0 DEF Inv, TypeOK
<1> QED BY <1>0, <1>1, <1>2, <1>3, CapsuleStep

LEMMA PoppedStep ==
    ASSUME Inv, NEW p \in Pilots, NEW pod \in Pods, Popped(p, pod)
    PROVE  Inv'
<1> DEFINE e == ship[p]
           g == Remove(grid, e, NoPilot)
<1>0. /\ ~sweeping /\ e \in space /\ pod \in Entities /\ pod \notin space
      /\ \A q \in Pilots : ship[q] # pod
      /\ pilot' = [pilot EXCEPT ![e] = NoPilot, ![pod] = p]
      /\ ship' = [ship EXCEPT ![p] = pod]
      /\ space' = (space \ {e}) \cup {pod}
      /\ pos' = [pos EXCEPT ![e] = 0, ![pod] = pos[e]]
      /\ Stop(e)
      /\ UNCHANGED <<up, sweepVars>>
  BY DEF Popped, NotInWarp, Calm, Spare, Entities
<1>1. PICK b \in Bubbles :
        /\ GetBubble(pos[e], b)
        /\ grid' = ManagerAdd(g, pod, p, b)
        /\ astray' = IF b = grid.bubble[e] THEN astray ELSE astray \cup {p}
  BY DEF Popped
<1>2. astray' \in {astray, astray \cup {p}} /\ (p \notin astray' => b = grid.bubble[e])
  BY <1>1
<1>3. pos' \in [Entities -> Int]
  BY <1>0 DEF Inv, TypeOK
<1>4. g = Remove(grid, e, NoPilot)
  OBVIOUS
<1> HIDE DEF g
<1> QED BY <1>0, <1>1, <1>2, <1>3, <1>4, CapsuleStep

\* The pilot boards the ship f.
LEMMA BoardStep ==
    ASSUME Inv, NEW p \in Pilots, NEW f \in Ships, Board(p, f)
    PROVE  Inv'
<1> DEFINE e == ship[p]
           left == [pilot EXCEPT ![e] = NoPilot]
<1>0. /\ ~sweeping /\ e \in space /\ e \in Entities
      /\ f \in space /\ f \in Entities /\ f # e
      /\ TypeOK /\ Registered /\ Matched(grid) /\ NoPilot \in Clients
  BY RegisteredIsMatched DEF Board, Calm, Inv, TypeOK, Clients, Entities
<1>1. CASE e \in Ships /\ grid.bubble[e] = NoBubble
  <2>1. /\ up' = FALSE
        /\ UNCHANGED <<gridVars, sweepVars, shipVars, stale, astray>>
    BY <1>1 DEF Board
  <2> QED BY <2>1, ZenonT(30) DEF Inv, TypeOK, Registered, Lists, OccupiedListed, TargetListed,
         NoneCollected, Crew, PilotAboard, OwnShip, AloneAboard, ListenerHere,
         gridVars, sweepVars, shipVars
<1>2. CASE ~(e \in Ships /\ grid.bubble[e] = NoBubble)
  <2>1. /\ pilot' = [left EXCEPT ![f] = p]
        /\ ship' = [ship EXCEPT ![p] = f]
        /\ astray' = astray \cup (IF grid.bubble[e] = grid.bubble[f] THEN {} ELSE {p})
                            \cup (IF Aboard(f) = {} THEN {} ELSE {p} \cup Aboard(f))
        /\ IF e \in Pods
           THEN Gone(grid, e, NoPilot)
           ELSE Stop(e) /\ UNCHANGED <<gridVars, stale, space, pos>>
        /\ UNCHANGED <<up, sweepVars>>
    BY <1>2 DEF Board
  <2>2. /\ \A q \in Pilots : ship'[q] = IF q = p THEN f ELSE ship[q]
        /\ ship' \in [Pilots -> Entities \cup {NoEntity}]
    BY <1>0, <2>1 DEF TypeOK
  <2>3. /\ \A h \in Entities :
             pilot'[h] = IF h = f THEN p ELSE IF h = e THEN NoPilot ELSE pilot[h]
        /\ pilot' \in [Entities -> Pilots \cup {NoPilot}]
    BY <1>0, <2>1 DEF TypeOK
  <2>4. /\ astray \subseteq astray' /\ astray' \subseteq Pilots
        /\ p \notin astray' => grid.bubble[e] = grid.bubble[f]
        /\ \A q \in Pilots : ship[q] = f => p \in astray' /\ q \in astray'
    BY <2>1 DEF Aboard, Inv, TypeOK
  <2>5. /\ grid' \in Grids
        /\ centre' \in [Bubbles -> Int] /\ listed' = listed /\ stale' = stale
        /\ f \in space' /\ wanderers \subseteq space' /\ space' \subseteq space
        /\ \A h \in Entities : h # e => (h \in space' <=> h \in space)
        /\ pos' \in [Entities -> Int] /\ dest' \in [Entities -> Int]
        /\ mode' \in [Entities -> Modes]
        /\ target' \in [Entities -> Bubbles \cup {NoBubble}]
        /\ \A h \in Entities : mode'[h] # "idle" => target'[h] # NoBubble
        /\ Registered' /\ OccupiedListed' /\ TargetListed'
        /\ \A h \in Entities \ {e} : grid'.bubble[h] = grid.bubble[h]
        /\ \A c \in Bubbles, q \in Pilots : q \in grid'.players[c] <=> q \in grid.players[c]
    <3>1. CASE e \in Pods
      <4>1. Gone(grid, e, NoPilot)
        BY <2>1, <3>1
      <4>2. /\ grid' \in Grids /\ Matched(grid)'
            /\ centre' \in [Bubbles -> Int] /\ listed' = listed /\ stale' = stale
            /\ space' = space \ {e} /\ wanderers \subseteq space'
            /\ pos' \in [Entities -> Int] /\ dest' \in [Entities -> Int]
            /\ mode' \in [Entities -> Modes]
            /\ target' \in [Entities -> Bubbles \cup {NoBubble}]
            /\ \A h \in Entities : mode'[h] # "idle" => target'[h] # NoBubble
            /\ Registered' /\ OccupiedListed' /\ TargetListed'
            /\ \A h \in Entities \ {e} : grid'.bubble[h] = grid.bubble[h]
            /\ \A c \in Bubbles, q \in Pilots :
                 q \in grid'.players[c] <=>
                   q \in grid.players[c] /\ ~(q = NoPilot /\ c = grid.bubble[e])
        BY <1>0, <4>1, GoneTypes
      <4> QED BY <1>0, <4>2, BubblesAssumption DEF BubblesAssumption
    <3>2. CASE e \notin Pods
      <4>1. Stop(e) /\ UNCHANGED <<gridVars, stale, space, pos>>
        BY <2>1, <3>2
      <4>2. /\ dest' \in [Entities -> Int]
            /\ mode' \in [Entities -> Modes]
            /\ target' \in [Entities -> Bubbles \cup {NoBubble}]
            /\ \A h \in Entities :
                 mode'[h] # "idle" => mode[h] # "idle" /\ target'[h] = target[h]
            /\ \A h \in Entities : mode'[h] # "idle" => target'[h] # NoBubble
        BY <1>0, <4>1 DEF Stop, TypeOK, Modes
      <4>3. OccupiedListed' /\ Registered'
        BY <4>1 DEF Inv, Lists, OccupiedListed, Registered, gridVars
      <4>4. TargetListed'
        BY <4>1, <4>2 DEF Inv, Lists, TargetListed, gridVars
      <4> QED BY <1>0, <4>1, <4>2, <4>3, <4>4 DEF TypeOK, Grids, gridVars
    <3> QED BY <3>1, <3>2
  <2>6. TypeOK'
    <3>1. wanderers' \subseteq space' /\ up' \in BOOLEAN /\ sweeping' \in BOOLEAN
      BY <1>0, <2>1, <2>5 DEF TypeOK, sweepVars
    <3>2. listed' \subseteq Bubbles /\ stale' \subseteq Bubbles /\ space' \subseteq Entities
      BY <1>0, <2>5 DEF TypeOK
    <3> QED BY <2>2, <2>3, <2>4, <2>5, <3>1, <3>2 DEF TypeOK, Grids
  <2>7. Lists'
    BY <1>0, <2>1, <2>5 DEF Inv, Lists, NoneCollected, sweepVars
  <2>8. \A q \in Pilots \ astray' : q # p => ship[q] # e /\ ship[q] # f
    BY <1>0, <2>4, BubblesAssumption DEF Inv, Crew, AloneAboard, BubblesAssumption
  <2>9. Crew'
    <3>1. PilotAboard'
      <4> SUFFICES ASSUME NEW h \in Entities, pilot'[h] # NoPilot
                   PROVE  ship'[pilot'[h]] = h
        BY DEF PilotAboard
      <4>1. h # f => h # e /\ pilot[h] \in Pilots /\ ship[pilot[h]] = h
        BY <2>3 DEF Inv, TypeOK, Crew, PilotAboard
      <4> QED BY <2>2, <2>3, <4>1
    <3>2. OwnShip'
      <4> SUFFICES ASSUME NEW q \in Pilots \ astray', ship'[q] \in space'
                   PROVE  pilot'[ship'[q]] = q
        BY DEF OwnShip
      <4>1. CASE q = p
        BY <1>0, <2>2, <2>3, <4>1
      <4>2. CASE q # p
        <5>1. ship'[q] = ship[q] /\ ship[q] # e /\ ship[q] # f
          BY <2>2, <2>8, <4>2
        <5>2. ship[q] \in space /\ ship[q] \in Entities /\ q \in Pilots \ astray
          BY <1>0, <2>4, <2>5, <5>1 DEF TypeOK
        <5> QED BY <2>3, <5>1, <5>2 DEF Inv, Crew, OwnShip
      <4> QED BY <4>1, <4>2
    <3>3. AloneAboard'
      BY <2>2, <2>4 DEF Inv, Crew, AloneAboard
    <3> QED BY <3>1, <3>2, <3>3 DEF Crew
  <2>10. ListenerHere'
    <3> SUFFICES ASSUME NEW q \in Pilots \ astray', NEW c \in Bubbles
                 PROVE  q \in grid'.players[c] <=> ship'[q] \in space' /\ grid'.bubble[ship'[q]] = c
      BY DEF ListenerHere
    <3>1. q \in Pilots \ astray
      BY <2>4
    <3>2. q \in grid.players[c] <=> ship[q] \in space /\ grid.bubble[ship[q]] = c
      BY <3>1 DEF Inv, ListenerHere
    <3>3. CASE q = p
      BY <1>0, <2>2, <2>4, <2>5, <3>2, <3>3
    <3>4. CASE q # p
      <4>1. ship'[q] = ship[q] /\ ship[q] # e
        BY <2>2, <2>8, <3>4
      <4>2. ship[q] \in space' => ship[q] \in space /\ ship[q] \in Entities
        BY <1>0, <2>5 DEF TypeOK
      <4>3. ship[q] \in space => ship[q] \in space' /\ ship[q] \in Entities
        BY <1>0, <2>5, <4>1 DEF TypeOK
      <4> QED BY <2>5, <3>2, <4>1, <4>2, <4>3
    <3> QED BY <3>3, <3>4
  <2> QED BY <2>5, <2>6, <2>7, <2>9, <2>10 DEF Inv
<1> QED BY <1>1, <1>2

-----------------------------------------------------------------------------
(* The invariant and the theorems                                          *)

LEMMA Initially == Init => Inv
<1> SUFFICES ASSUME Init PROVE Inv
  OBVIOUS
<1>1. TypeOK
  <2>1. grid \in Grids
    BY DEF Init, Grids
  <2>2. /\ centre \in [Bubbles -> Int] /\ pos \in [Entities -> Int]
        /\ dest \in [Entities -> Int]
    BY DEF Init
  <2>3. /\ mode \in [Entities -> Modes]
        /\ target \in [Entities -> Bubbles \cup {NoBubble}]
        /\ \A e \in Entities : mode[e] # "idle" => target[e] # NoBubble
    BY DEF Init, Modes
  <2>4. /\ pilot \in [Entities -> Pilots \cup {NoPilot}]
        /\ ship \in [Pilots -> Entities \cup {NoEntity}]
    BY DEF Init
  <2> QED BY <2>1, <2>2, <2>3, <2>4 DEF Init, TypeOK, Grids
<1>2. Registered
  BY BubblesAssumption DEF Init, Registered, BubblesAssumption
<1>3. Lists
  BY DEF Init, Lists, OccupiedListed, TargetListed, NoneCollected
<1>4. Crew
  BY DEF Init, Crew, PilotAboard, OwnShip, AloneAboard
<1>5. ListenerHere
  BY DEF Init, ListenerHere
<1> QED BY <1>1, <1>2, <1>3, <1>4, <1>5 DEF Inv

LEMMA Stutter ==
    ASSUME Inv, UNCHANGED vars
    PROVE  Inv'
  BY DEF Inv, TypeOK, Registered, Lists, OccupiedListed, TargetListed,
         NoneCollected, Crew, PilotAboard, OwnShip, AloneAboard, ListenerHere,
         vars, gridVars, sweepVars, shipVars

LEMMA Inductive == Inv /\ [Next]_vars => Inv'
<1> SUFFICES ASSUME Inv, [Next]_vars PROVE Inv'
  OBVIOUS
<1>1. ASSUME NEW p \in Pilots, ClientStep(p) PROVE Inv'
  <2>1. CASE \E e \in Entities, x \in Exits : EnterSpace(p, e, x)
    BY <2>1, EnterSpaceStep
  <2>2. CASE LeaveSpace(p)
    BY <2>2, LeaveSpaceStep
  <2>3. CASE UseDeleted(p)
    BY <2>3, UseDeletedStep
  <2>4. CASE \E f \in Ships : Board(p, f)
    BY <2>4, BoardStep
  <2>5. CASE \E pod \in Pods : Eject(p, pod) \/ Popped(p, pod)
    BY <2>5, EjectStep, PoppedStep
  <2> QED BY <1>1, <2>1, <2>2, <2>3, <2>4, <2>5 DEF ClientStep
<1>2. ASSUME NEW e \in Entities, EntityStep(e) PROVE Inv'
  <2>1. CASE RemoveEntity(e)
    BY <2>1, RemoveEntityStep
  <2>2. CASE CmdStop(e)
    BY <2>2, CmdStopStep
  <2>3. CASE InitWarp(e)
    BY <2>3, InitWarpStep
  <2>7. CASE Steer(e) \/ Halt(e)
    BY <2>7, EndWarpStep DEF Steer, Halt
  <2>4. CASE WarpAccel(e)
    BY <2>4, WarpAccelStep
  <2>5. CASE CheckBubble(e)
    BY <2>5, CheckBubbleStep
  <2>6. CASE \E x \in Places : \/ Fly(e, x) \/ SetPosition(e, x)
                               \/ WarpTo(e, x) \/ WarpDecel(e, x)
    BY <2>6, FlyStep, SetPositionStep, WarpToStep, WarpDecelStep
  <2> QED BY <1>2, <2>1, <2>2, <2>3, <2>4, <2>5, <2>6, <2>7 DEF EntityStep
<1>3. CASE WanderTimer
  BY <1>3, WanderTimerStep
<1>4. CASE RemoveEmpty
  BY <1>4, RemoveEmptyStep
<1>5. CASE UNCHANGED vars
  BY <1>5, Stutter
<1> QED BY <1>1, <1>2, <1>3, <1>4, <1>5 DEF Next

\* The registries, the entities and the clients keep their types, and a warp
\* never lacks the target bubble that its end follows.
THEOREM TypeCorrect == Spec => []TypeOK
<1>1. Inv => TypeOK
  BY DEF Inv
<1> QED BY Initially, Inductive, <1>1, PTL DEF Spec

\* What a bubble lists and m_bubble of the entities always agree, through
\* warps, jumps of position, sweeps and changes of ship.
THEOREM EntitiesRegistered == Spec => []Registered
<1>1. Inv => Registered
  BY DEF Inv
<1> QED BY Initially, Inductive, <1>1, PTL DEF Spec

\* A bubble in use is listed by the manager, or was dropped by the sweep
\* while a warp was bound for it.
THEOREM OccupiedAreListed == Spec => []OccupiedListed
<1>1. Inv => OccupiedListed
  BY DEF Inv, Lists
<1> QED BY Initially, Inductive, <1>1, PTL DEF Spec

\* A client is in m_players of the bubble of its ship only, unless it changed
\* ships across bubbles or shared one.
THEOREM ListenersAreHere == Spec => []ListenerHere
<1>1. Inv => ListenerHere
  BY DEF Inv
<1> QED BY Initially, Inductive, <1>1, PTL DEF Spec
=============================================================================
