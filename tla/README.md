# Formal models of the Alasiya-EvE server

TLA+ models of parts of the EVE Online server emulator in `src/`, model-checked with TLC
and, where it pays, proved with TLAPS. Paths below are relative to `src/src/` unless
they say otherwise.

## 1. The system

The server is one process (`eve-server/eve-server.cpp`):

- the **main thread** runs everything of the game. Once per round of its loop it
  takes accepted connections from the `TCPServer` and makes a `Client` of each,
  and calls `EntityMgr::Process`, which pops the packets of every client and
  dispatches them, ticks the solar systems, and twice a second ticks the target
  managers and probes;
- a **listener thread** accepts connections (`eve-core/network/TCPServer.cpp`);
- **one worker thread per connection** reads and writes the socket
  (`eve-core/network/TCPConnection.cpp`);
- the image server has threads of its own.

So there are two kinds of hard behaviour. Below the packet queues it is real
concurrency: mutexes, a worker that outlives the object it works on, sockets that stall.
Above them everything is sequential, and what is hard is the *order* in which calls of
several players and timers come, calls that re-enter one another, calls that throw half
way, and raw pointers: entities, clients, trade sessions and locks refer to one another
by plain pointers that somebody has to null before the object goes.

### Inventory

| Component | State | Operations | Interacts with | Hard because | Correct when |
|---|---|---|---|---|---|
| `system/TargetManager` | `m_targets`, `m_targetedBy`, `m_modules`, `m_canAttack` of each entity | start, finish, clear and lose a lock; clear all | `EntityMgr` (2 Hz tick), `Client` (dock, jump, logout), `DestinyManager` (warp), `NPCAI`, modules | two maps of raw pointers per lock, NPC reactions inside the loops over them, a cloak that can end in the middle of a gate jump | both ends of a lock agree, none outlives its target, each is ticked until it is complete |
| `eve-core/network/TCPConnection`, `eve-common/network/EVETCPConnection` | socket, state, send queue, receive queue, two mutexes | `Send`, `PopRep`, `Disconnect`, destructor; worker: `Process`, `RecvData`, `SendData`, `DoDisconnect` | main thread, worker, peer | threads, partial sends, a destructor that races the worker | bytes and packets in order, an orderly close loses nothing, the worker is joined |
| `station/TradeService` | `TradeSession` objects, `m_activeSessions`, `Client::m_TS`, item containers | initiate, bind, offer, add, accept, abort, leave | `Client`, `AccountService`, inventory | two parties, crossing invitations, payments that throw, dangling pointers | items and money move together, only by agreement, and nothing is lost |
| `npc/NPCAI` | `m_state`, `m_action`, `m_attackTarget`, timers | `Process`, `Target`, `CheckDistance`, `SetIdle/Chasing/Engaged`, `Targeted`, `TargetLost`, `ReportDamage` | `TargetManager`, `DestinyManager`, damage | methods that call one another, events from players at any time | no dangling target, state and action agree, every call returns |
| `EntityMgr` | clients, systems, `m_targMgrs`, probes | the tick, find, boot, shut down | all of the above | containers changed while they are iterated | everything that must tick does, once |
| `Client` | `m_clientState`, timers, `m_system`, ship and pod pointers | dock, undock, warp, jump, board, eject, logout | everything | timers against commands | the client is in exactly one place |
| `system/DestinyManager` | ball mode, target, cloak | movement commands, warp phases, the tick | bubbles, target managers, AI | phases, physics | legal mode transitions |
| `system/SystemManager`, bubbles | entity maps | add, remove, tick, unload | `EntityMgr`, `Client` | an entity's own `Process` changes the map | an entity is in one system and one bubble |
| `market/*` | orders, escrow (database) | place, match, modify, cancel | accounts, inventory | an order is stored before it is paid, partial fills | goods and money are conserved |
| `fleet/*` | members, wings, squads, leader and booster pointers | create, add, move, remove | `Client` | four maps that must agree | a leader is a member |
| character skill queue | `m_skillQueue`, `m_inTraining` | add, pause, load, loop | timers, database | a pointer beside a queue | the skill in training is the front |
| ship modules | module states, cycle timers | activate, deactivate, overload, cycle | targets, effects | cycles against lost targets | no cycle on a target that is gone |
| drones, missiles, sentries, Concord | AI states | as NPC | targets, ships | as NPC | as NPC |
| POS, planets, manufacturing, contracts, corporations, alliances | rows in the database with a status | one statement per call | accounts, inventory | failures between statements | status transitions |
| chat, mail, agents, missions, scanning, spawning, admin, config | mostly tables | requests | | little | |
| marshalling, cache, database access, logging, image server | buffers | encode, decode, query | | data, not control | |

`PROJECT.json` lists every one of them with its files and status, and under "hazards"
what in this code is hard to test, line by line, with the property that covers it or the
reason why none does.

## 2. The modules

| Module | What it is |
|---|---|
| `TargetManager` | target locks of all entities, with the server's calls that make and break them |
| `TargetLocks` | what the locks are to the rest of the server: one relation between the ships in space |
| `TargetManager_proofs` | its invariants, for every set of pilots, NPCs and systems, and that it implements `TargetLocks` |
| `TCPConnection` | one accepted connection: main thread, worker thread, peer |
| `ByteChannel` | what the connection promises the sender: an ordered channel with an orderly close |
| `TCPConnection_proofs` | its invariants, that a worker that started in time is joined, and that it implements `ByteChannel` |
| `TradeService` | trades between players of one station |
| `TradeService_proofs` | its invariants, and that items and money change hands only in a trade and none is lost |
| `NPCAI` | the state machine of one combat NPC |
| `NpcLocks` | what the state machine does to the NPC's locks, one step for each call |
| `NPCAI_proofs` | its invariants, and that it implements `NpcLocks` |
| `SkillQueue` | the skill queue of a character, with its tables, its timer and crashes |
| `SkillQueue_proofs` | its invariants, for every set of skills and every cost of a level, and that no level comes too early |
| `Bubbles` | the bubbles (grids) of a solar system, with the ships and clients in them |
| `Bubbles_proofs` | its invariants |
| `Market` | orders, goods, wallets and escrow of one type of goods in one station |
| `OrderBook` | what the market promises about goods, with the money left out |
| `Market_proofs` | its invariants, what a call may do with money, that goods are kept, and that it implements `OrderBook` |
| `SumTheorems` | lemmas about sums over finite sets, for the proofs about money and goods |
| `MC...` | the instances TLC checks |

### `TargetManager`

`lock[x][t]` is the entry for `t` in x's `m_targets`, with its state; `targetedBy[t]` is
the key set of `m_targetedBy`; `targMgrs` is the map of `EntityMgr` whose members are
ticked. `loc` stands for the life of the entity's `SystemEntity`: it is created on
undocking, login and spawning and deleted on docking, death and logout.
`StartTargeting`, `ClearTarget`, `ClearOwnTargets` (the code's `ClearTargets`) and
`ClearAllTargets` say what the methods of that name do to both ends; the actions after
them are the calls of the main loop.

One action is one call from the main loop with all it calls. An NPC that loses its last
lock inside another's `ClearFromTargets` goes idle there and drops what it has left:
`Cascade` and `DropAll`. An NPC told that it is being locked may lock back inside the
same call: `NpcReactions`. (The endless recursion that `NPCAI` finds for a pilot out of
range is left out here.) Distances, skills and standings decide whether a call succeeds;
that is a choice.

A gate jump takes three calls: `StargateJump` cloaks the ship and drops every lock, a
timer later `ExecuteJump` moves it to the other system *without* touching its locks, and
`Arrive` starts the cloak timer of the other side. Nothing but the cloak protects the
ship between the first two. `exposed` records that the ship lost it (an old cloak timer,
a movement command, a pod), or that a missile it fired before hits an NPC, which turns on
it without asking whether it is cloaked (`NpcSwitchTarget`; the NPC drops its old target
in a call of its own, `NpcClearTarget`): from then on it can be locked and takes the lock
across. `SameSystem` and `JumpClean` say that these are the only ways.

`ImplementsTargetLocks` is refinement: what both maps say together (`Relation`), and the
systems the ships are in, implement `TargetLocks!Spec`. There, a lock is begun within one
system, completed, given up, or broken with all other locks of a ship, and only ships that
had no other target break theirs in the same step. It says of every chain of calls what it
amounts to. Because the cascade is one assignment, nothing here says whether
the code changes a map under the loop that runs over it (`ClearFromTargets`); that hazard
is listed without a property.

### `TCPConnection`

A step is what a thread does between two acquisitions of a lock. `mMSock` and
`mMLoopRunning` are modelled; the queues' own mutexes are only taken inside `mMSock` or
around a single step. `object` records how much of the C++ object is left, because the
destructor of the derived class runs before the base destructor disconnects and waits.
`wire`, `accepted` and `popped` are history. The worker may be slow to start: `workerPc
= "new"` until it takes `mMLoopRunning`. A worker that touches the object after it was
freed goes to `useAfterFree`, one that calls a virtual method of the part that is gone
to `pureVirtual`, and neither goes on. The object is whole when the model starts: that the
base constructor starts the worker (`TCPConnection.cpp:48-57`) before `EVETCPConnection`
is constructed (`EVETCPConnection.cpp:44-48`) is left out.

`ImplementsChannel` is refinement: the bytes accepted and written and the state of the
socket implement `ByteChannel!Spec`, in which bytes are delivered in order and an
orderly close needs all of them delivered.

### `TradeService`

A session is reached through raw pointers: `ts` (`Client::m_TS`) and `active`
(`m_activeSessions`). A session is a number; a deleted one keeps its number with status
"deleted". A call that follows a null or dangling pointer is the action `Undefined`,
after which the server is no longer "up" and nothing is claimed. `pending` holds the
invitations that clients were told of; two of them may cross, and `CreateBoundObject`
then puts a client into a session of others. A session begins with whatever money the
bind arguments say. `Exchange` and `ExchangeThrows` are the two ways of `ExchangeItems`;
`Leave` is `TradeService::CancelTrade` with the client it looks up. `agreed` and `taken`
are history. An outsider that points at a session of others can do little: its offers
fail, and it may abort the trade.

The handlers check little of what they are given, and so does the model. `Add` takes
items of any owner, in any place, also those that lie in another trade or are listed
already; of the entries of an item on one list only the last counts, as `ExchangeItems`
and `CancelTrade` go over the list from first to last. `OfferMoney` takes any number,
also below zero. `TransferFunds` is both sides of a transfer, with what the first has
done when the second throws: `Character::AlterBalance` throws below zero, for a receipt
too, and cuts a balance above `MaxBalance` (a trillion ISK) without a word. Money is
counted in whole units; that the code keeps it in a `float` on the way, and what that
rounds off, is left out here and in `Market`.

So the properties do not say that everybody gets back what is theirs. They say:

- `HeldIsListed`: what is in a trade container is on the list of that open session, so
  that it comes out, however often and by whomever it was added;
- `TradeSwapsItems`: items move by an agreed trade that lists them and by nothing else,
  and then to the party that did *not* list them last;
- `PaidAsAgreed`: money moves between the two parties only, when both have accepted what
  is on the table (one may have forced it). When the trade goes through, each gains the
  difference of the offers, whatever their signs, up to the cap; when it throws and no
  offer is below zero, the first offer has been paid and nothing else;
- `MoneyKept`: the sum of the wallets falls only by the cap, and rises only where a
  payment of an offer below zero throws half done: there the offering side is credited
  before the other one turns out to have too little. A trade that goes through makes no
  money.

### `NPCAI`

`ai` has the fields of `NPCAIMgr` and of its target manager, `band[p]` the range in
which player p is, `call` the method that runs. `Target`, `CheckDistance`, `SetEngaged`
and `SetChasing` call one another only as the last thing they do, so a call replaces the
one before it and no stack is needed. Everything else waits until `call` has returned.

`warp` is what `DestinyManager` knows of the NPC's warp. One NPC's `m_warpOutTimer` takes
its whole spawn along: `SpawnMgr::WarpOutSpawn` calls `WarpTo` for each, whatever it is
doing (the action `WarpTo`; `WarpOut` is the NPC whose timer it was). A tick later
`InitWarp` ends all locks and does not tell `NPCAIMgr`, so an NPC that was fighting goes
on with `m_attackTarget` set and no lock; and where the warp ends `WarpOutComplete`
resets the state alone, which leaves an idle NPC with the action of a fight until its
next tick puts that right (`IdleTick`). In the warp `Process` does nothing, but players
may lock the NPC and damage it, and a move that this leads to can break the warp off
(`Moved`). The timer is taken to run out in any state at ease, which is more often than
it does. An idle NPC without weapons turns passive, and a passive one that is hurt calls
for help (`SetSignaling`), which aims at a ship without a lock. Left out: wandering,
formations, repairs and remote effects, the death of the NPC, and the methods marked
"not used".

A comment in the code lists the actions that are valid in each state
(`NPCAI.cpp:2395-2467`). Nothing enforces that table and the code does not keep to it, so
`StateMatchesAction` does not claim it. It says what holds: an engaged NPC attacks, none
that attacks is in a chase with a limit, and an NPC comes to rest with its target or its
attack still set only at the end of a warp. `AttackTargetLocked` and `FightsSomebody` are
about steps for the same reason: the pointer loses its lock, and a fight its last one, at
the beginning of a warp and (the pointer) by a call for help, and in no other way.

To the ships around it an NPC is its locks. `ImplementsNpcLocks` is refinement of
`NpcLocks`: each method locks one ship while there is room, turns to fighting with a lock
held, loses one lock, or gives up all of them and the fight at once; a warp ends the
locks in one step (`Warp`) and the fight in another (`Arrive`). `FightsSomebody` is what
that is good for: only an idle NPC looks for a target, so one that fights nobody would
stand there for ever.

### `SkillQueue`

`char` is what the `Character` object holds: the queue, `m_inTraining`, and of each
skill its level, points and flag. `rows` and `paused` are the tables `chrSkillQueue` and
`chrPausedSkillQueue`. The skills are saved as they change; the queue and `m_inTraining`
live in memory only, so `Down`, a crash at any step, forgets them and the next `Login`
(`Loaded`) starts from the rows. Handlers write the database statement by statement.
`pc` says where one stands, and its steps (`LoopStep`, `InsertRows`, `AddStep`,
`RetimeStep`) are apart so that the crash can fall between them; nothing else
interleaves, and the clock stands still in a handler. Requests come from `Wanted`, any
number of times. Left out: the GM command that gives a skill, skill injection, the
penalty of a new clone.

What the model shows of the code, where nothing in the repository promises otherwise: a
queue resumed from the paused table has no `m_inTraining`, and the timer's handler then
follows a null pointer (the step of `SkillTimerFires` to `Down`); a logout credits the
points of the elapsed time and leaves the entry's start, so that each login and logout
credits them again (`MaxPoints` bounds it); a queue that has run empty leaves its rows,
which come back after a crash; a lower level queued behind a higher one lowers the
skill. Hence the properties say what they say: the rows are only compared with a queue
that is not empty, and a level is only said to have its points.

`LevelEarned` is about the other direction, and about a step: a skill does not rise unless
the entry that trains it has ended or it has the points of the new level, those since the
entry's start included. `CancelSkillInTraining` gives a level to whatever ended before
now, and an entry that has no end (0) did; entries get none when they are added or timed
again with the points there already, and those resumed from a pause have none until they
are timed. An entry behind one without an end is timed from 0 (`Character.cpp:857-859`)
and so ends in the past; the property accepts that as ended, as the code does.

### `Bubbles`

Space is a line whose unit is 125 km, which keeps apart the three distances the code
compares: 250 km (inside a bubble), 300 km (near enough to be taken in on arrival), 500
km (too near for a second bubble). `grid` has `m_bubble` of the entities and the two
lists of each bubble; `listed` is what the manager searches. A warp is `WarpTo`,
`InitWarp`, `WarpAccel` (which leaves the bubble) and `WarpDecel` (which enters the
other one), each a tick of its own, and players dock, eject, board, lose ships and log
out in between. The sweep looks at one entity after the other (`WanderTimer`,
`CheckBubble`) and then drops empty bubbles (`RemoveEmpty`), also one that a ship is
warping to. A bubble object that nothing refers to is used again for a new bubble.

A ship that aligns takes every other movement command, and each ends the warp (`Steer`),
as an immediate stop does at any time (`Halt`); neither resets `m_targBubble`, which only
`Stop` does. So `TypeOK` says that a ship with a warp in progress has a target bubble,
and not the converse. Nothing follows the pointer that stays behind before the next warp
sets it again: a bubble it alone refers to may be used anew (`Bound`).

`stale` and `astray` are history: bubbles dropped while a warp was bound for them, and
clients that changed ships across two bubbles or boarded a ship that had a pilot
(`Client::BoardShip` does not look). For the latter the code leaves the client in the
old bubble's `m_players`, so `ListenerHere` leaves them out: it shows that this is the
*only* way to hear the wrong bubble. Left out: what clients are shown, statics, NPCs,
drones, cloaking, unloading the system, and the administrator's command that halts a
ship without a bubble.

### `Market`

`orders` is `mktOrders`; `hangar` the units a character has in the station, `wallet` its
balance. A call is one step, since the main thread and its queries are synchronous, but
`AccountService::TransferFunds` throws when an online payer has too little, and then
what the call has done so far stays done: `TransferFunds` is how far the money got,
`TransferThrows` whether the rest of the call happens. An offline character can be
overdrawn. An immediate sale is a loop over buy orders and a step for each turn
(`SellNow`, then `ExecuteBuyOrder`); while it runs (`sale`) nothing else does. `drawn` is
history, what the last step paid for a buy order, since the code pays escrow to the
station's owner and keeps no account of it. What `ModifyCharOrder` moves is not counted
there, as the caller says how much that is.

Calls come as the code takes them:

- **Prices** are hundredths of an ISK in the code and `Unit`-ths here. The two searches
  compare the price of an order with the asked one less or plus an ISK, *printed without
  decimals* (`Whole`, which rounds halves to even), so what they find may be up to one
  and a half ISK on the wrong side.
- **Quantities** are any int32, and volumes are stored without a sign (`Unsigned`,
  `Signed`). A sell order of a quantity below zero adds to the item it is placed for, or,
  when the sum leaves int32, deletes it and takes no fee; a quantity of 0 ends in an error
  after the order is stored; an immediate purchase of less than zero is clamped to the
  whole order (`Clamped`). An item of a quantity below zero holds no goods and is not
  followed.
- **`bid` with an item** is a sale by every branch of the handler and a buy order in the
  table, so goods go into a row that owes none.
- **Anybody** may change or cancel an order. The caller says what price and volume it
  had, and gets the refund or the goods.
- **Money** of either sign moves by the same rules as in trades, the cap included; a
  fee or tax has the sign of the money it is on and is otherwise any value of `Fees`.

An INSERT whose escrow is below zero may be refused by the database; that call does
nothing. When what is left to sell is below zero `Split` makes no item, and the code goes
on to use it: the model has no step from there, as it has none where the loop finds no
order and never ends. Left out: corporation orders (refused), the market bot (it has no
system to place orders in), ranges and other stations, deleted characters, the rounding
of `float`s.

What remains true, with the exceptions each definition names:

- `GoodsKept`: no call makes or loses goods, whichever of its payments throws. The
  exceptions are sell orders whose volume is beyond int32, when they are placed and when
  they end or come back into range, and sell orders stored as bids;
- `DrawEndsOrder`: escrow pays for a buy order once, since the payment ends it, and less
  than one and a half ISK a unit over its price. The exception is the branch for an item
  smaller than what is to be sold, which does not delete the order;
- `SellerPaid`: what leaves a sell order by a purchase has been paid for first, with less
  than one and a half ISK a unit missing, wherever the volume is within int32;
- `OverdrawnOffline`: only who is offline is ever brought below zero.

What the model shows besides, where nothing in the repository promises otherwise: a buy
order sold to is deleted and drawn in full though the call handed over less; a buy
order whose payment throws stands, and its cancellation refunds what was never paid; the
tax can throw when the goods are gone and the seller is unpaid; changing a price moves
the difference the wrong way, for sell orders too.

`ImplementsOrderBook` is refinement of `OrderBook`, the market without money: each call,
with up to three payments that may end it, is one step of the order book (an order is
placed, bought from, delivered to, repriced, withdrawn) or moves no goods at all. An order
that was delivered to may stand as it was: that is the call whose tax throws. Quantities
out of range have variants of their own: `Enter` with a volume of `Half` or more changes
the hangar by something else than the volume, and `Lose` takes units out of such an order
for nobody.

## 3. The runs

| Run | Instance | Shows |
|---|---|---|
| `two_pilots` | 2 pilots, 1 NPC, 2 systems, 2 locks each, symmetry (298,427 states) | type, `Symmetric`, `LockedAlive`, `Registered`, `SameSystem`, `JumpClean` |
| `liveness` | the same in 1 system, with fairness | `LockCompletes`; refinement of `TargetLocks` (with nothing to jump to: the crossing is left to the proof) |
| `tcp` | 2 buffers of 2 bytes, 2 packets, room for 2 bytes, with fairness | order, refinement, joining, progress |
| `waitloop` | 1 of each | violated: `WaitLoop` does not wait for the worker |
| `trade` | 3 characters, 1 item, 2 crossing invitations, 2 sessions, offers of 1 and -1, wallets of at most 1, one of them comes and goes (823,489 states) | what is held is listed, items and money go where a trade sends them, books clean |
| `money` | 2 characters, 1 session, amounts 0 to 2, wallets of at most 2 | violated: a cancelled trade took money |
| `npc` | 2 players, NPC that can lock both, warps (130,848 states) | where the target loses its lock, states and actions, chase limit unused, refinement of `NpcLocks` |
| `telemetry` | the same with fairness | violated: a call that never returns |
| `skill_queue` | 2 skills of 2 levels, 3 requests, with fairness | memory, rows, timer and skills agree; levels are earned; what is due is dealt with |
| `bubbles` | 2 pilots, 2 ships, a capsule, 2 bubbles, 3 places, symmetry (1,593,458 states) | registries agree, bubbles in use are listed, clients hear their bubble |
| `bubbles_null` | the same | violated: a ship at rest in space without a bubble |
| `market` | 2 characters, 2 prices half an ISK apart, int32 from -3 to 2, 3 orders, one of them seeded (339,750 states) | goods kept, escrow drawn on once, sellers paid, who is overdrawn, refinement of `OrderBook` |

**Bounds, and why they are enough.** A lock has two ends and a third party that locks
either; the cascade ends at the NPC because NPCs lock pilots only. Two pilots and one
NPC have all of these, with two systems a jump has somewhere to go, and with two locks
each an entity can lose one of several and its last. A limit below the number of others
is left to the proofs, which hold for any limit. For the connection, two buffers of two
bytes give a partial send with another buffer behind it, a socket with room for two
bytes is filled in one buffer, and two packets can be reordered. In a trade, three
characters and two crossing invitations are the least that bring an outsider into a
session; one item suffices because each property is about one item at a time, and it belongs to
the one in the middle, so that others add it who do not own it and two sessions list it;
one unit of money in a wallet that holds no more makes each side of a payment go through,
throw and be cut, with offers of either sign. Only the one in the middle comes and goes:
it is `her` of one trade and `my` of the other. In `money` amounts up to 2 let the second
payer fail after the first has paid. The NPC needs one target to
lose and another to turn to, and its warps take it through every state. In the skill queue, two entries are a front and a rest, two
skills let an entry be of the front's skill or of another, and a level takes one tick of
the clock or none when half of it is trained. Of the three places of `Bubbles`, two are
close enough to overlap without being the same and one is far off; two bubbles are the
least between which something can be misfiled, and with two ships and a capsule a ship
can be left, boarded by somebody else and swept. In the market two characters suffice
for every call but a third party's, whose orders differ from the seeded one only in
their owner. Prices of 3 and 4 halves of an ISK are apart by what the rounding of the
searches lets pass. Each character has a price and two quantities to call with (`Lots`):
one has goods and sells or buys one or two units, the other calls with -1 and 0; int32
from -3 to 2 lets an item and a quantity leave it, and a volume of -1 is 5. Three orders
allow a partial fill of one while others stand. With fees of 2 or -2, a cap of 5 and
wallets of 4 and 0 each of the payments of a call fails in some state and is cut in some.
Calls that throw half way can make money, so `MaxMoney` bounds what the two have together.

The bounds by name: `MaxTargets` and `MaxLocked` (the code's own limits); `MaxSends`,
`BufferSize`, `MaxPackets`, `SocketRoom`; in `TradeService` `MaxSessions`, `Pairs` (who
invites whom), `Movers` (who undocks, docks and logs out), `Amounts`, and `MaxBalance`
(the code's, but smaller); in `SkillQueue` `Wanted`, `MaxTime`, `MaxPoints`, `MaxQueue`
(what is queued, paused or resumed at a time); in `Bubbles` the sets `Places`, `Exits` and
`Bubbles` (a new bubble is made only while an object is free); in `Market` `MaxOrders`,
`Prices`, `Lots`, `Fees`, `MaxMoney`, and `Half`, `Unit` and `MaxBalance` (the code's 2^31,
100 hundredths and a trillion ISK, but smaller).

**Deadlock** is checked except where the system does stop: a connection whose object and
worker are gone, a trade whose server is undefined, a skill queue whose clock has
reached its bound, a space whose server has crashed (`up`), and a market whose main
thread is in an immediate sale that no order matches (the loop never ends).

### Fairness

- `TargetManager!Fairness`: time passes, so a lock timer that runs runs out
  (`WF` of `TimerExpires`), and the main loop never stops calling
  `EntityMgr::Process`, which ticks twice a second (`WF` of `TargTic`). Players and
  NPCs need never do anything.
- `TCPConnection!Fairness`: the worker loops with a sleep and takes a mutex that
  is released again and again, and so does the main thread waiting for one;
  without the sleep of `TCPConnectionLoop` a plain mutex would not give the
  strong fairness assumed of these steps. `PeerReads` is assumed of the *other
  end*: `SendData` spins with `mMSock` held while the socket is full, so for a
  peer that neither reads nor closes, `SendReturns` does not hold and the code
  has no timeout that would make it. That is the limit of that property, and is
  listed among the hazards.
- `NPCAI!FairSpec`: a thread goes on with the call it is in.
- `SkillQueue!Fairness`: a handler that has begun goes on (`WF` of `HandlerStep`), and the
  main loop calls `Client::ProcessClient` of every client again and again, which
  looks at the skill timer (`SF` of `SkillTimerFires`, since handlers of other
  packets come between two looks). Neither time nor players are assumed to do anything.

### What the violations say

1. `WaitLoop` (`eve-core/network/TCPConnection.cpp:197`) takes and releases
   `mMLoopRunning`. A worker thread that exists and has not taken it is missed, and
   finds a freed object. `StartedInTimeIsJoined` shows that this is the only
   way: a worker that had the lock while the object was whole is waited for.
2. `TradeBound::ExchangeItems` (`station/TradeService.cpp:570`) pays one way, then
   the other. When the second transfer throws, the first is kept, and the trade
   can be cancelled, or accepted once more and paid for twice.
3. `NPCAIMgr::CheckDistance` (`npc/NPCAI.cpp:1142`) chases a ship that is out of
   range and has locked the NPC. `SetChasing` wants a lock first, `Target`
   cannot get one out of range and asks `CheckDistance` again.
4. `BubbleManager::MakeBubble` (`system/BubbleManager.cpp:258`) means to move a new bubble
   away from one it would overlap, and moves it to the other side of that one:
   the place it is made for is then in neither. A ship that warps there leaves its bubble and arrives
   in none; the sweep looks into bubbles only, so nothing finds it, and the
   next warp of an autopilot, which is not guarded, follows the null pointer
   (`DestinyManager.cpp:793`).

## 4. The proofs

TLAPS proves, for every value of the constants that satisfies the named assumption of
the module (among them that the players of the market and the characters that trade are
finitely many, which their sums need):

| Theorem | Property |
|---|---|
| `TargetManager_proofs!TypeCorrect` | `TypeOK` |
| `TargetManager_proofs!MapsMirror` | `Symmetric` |
| `TargetManager_proofs!RegisteredAlways` | `Registered` |
| `TargetManager_proofs!NoDanglingLock` | `LockedAlive` |
| `TargetManager_proofs!CloakProtectsJump` | `JumpClean` |
| `TargetManager_proofs!LocksStayInSystem` | `SameSystem` |
| `TargetManager_proofs!LocksImplemented` | `ImplementsTargetLocks` (refinement of `TargetLocks`) |
| `TCPConnection_proofs!TypeCorrect` | `TypeOK` |
| `TCPConnection_proofs!WorkerJoined` | `StartedInTimeIsJoined` |
| `TCPConnection_proofs!PacketsInOrder` | `InboundOrder` |
| `TCPConnection_proofs!ChannelImplemented` | `ImplementsChannel` (refinement of `ByteChannel`) |
| `TradeService_proofs!TypeCorrect` | `TypeOK` |
| `TradeService_proofs!NothingLost` | `HeldIsListed` |
| `TradeService_proofs!TradesAgreed` | `TradedIsAgreed`* |
| `TradeService_proofs!BooksOpen` | `ActiveIsOpen` |
| `TradeService_proofs!ItemsSwapped` | `TradeSwapsItems` |
| `TradeService_proofs!MoneyIsKept` | `MoneyKept` |
| `TradeService_proofs!PaymentsAgreed` | `PaidAsAgreed` |
| `NPCAI_proofs!TypeCorrect` | `TypeOK` |
| `NPCAI_proofs!NoDanglingAttackTarget` | `AttackTargetLocked` |
| `NPCAI_proofs!StatesAgree` | `StateMatchesAction` |
| `NPCAI_proofs!FightersHaveTargets` | `FightsSomebody`* |
| `NPCAI_proofs!NpcLocksImplemented` | `ImplementsNpcLocks` (refinement of `NpcLocks`) |
| `SkillQueue_proofs!TypeCorrect` | `TypeOK` |
| `SkillQueue_proofs!QueueIsSettled` | `QueueSettled` (`QueueSaved` and `TimerArmed`) |
| `SkillQueue_proofs!FrontIsTraining` | `TrainingIsFront` |
| `SkillQueue_proofs!LevelsHavePoints` | `LevelHasPoints` |
| `SkillQueue_proofs!LevelsAreEarned` | `LevelEarned` |
| `Bubbles_proofs!TypeCorrect` | `TypeOK` |
| `Bubbles_proofs!EntitiesRegistered` | `Registered` |
| `Bubbles_proofs!OccupiedAreListed` | `OccupiedListed` |
| `Bubbles_proofs!ListenersAreHere` | `ListenerHere` |
| `Market_proofs!TypeCorrect` | `TypeOK` |
| `Market_proofs!OrdersStand` | `OrderStands`* |
| `Market_proofs!OnlineStaysAbove` | `OverdrawnOffline` |
| `Market_proofs!EscrowDrawnOnce` | `DrawEndsOrder` |
| `Market_proofs!SellersArePaid` | `SellerPaid` |
| `Market_proofs!GoodsAreKept` | `GoodsKept` |
| `Market_proofs!OrderBookImplemented` | `ImplementsOrderBook` (refinement of `OrderBook`) |

The three marked * are not properties of a run of their own, since others there imply
them: `FightsSomebody` follows from `NpcLocks`, `OrderStands` from `OrderBook`, and
`TradeSwapsItems` asks for the agreement at the step that makes the trade.

**Locks.** The argument has two layers. `RegInv` (types, `Symmetric`, `Registered`) is
inductive without knowing where anybody is: every action changes the locks by one of
four operations or by the tick (`NextCases`), and one lemma per operation says what it
does to the target sets. The cascade is `ClearAllTargets` of a set of entities, so one
lemma covers it for any number of NPCs. `IInv` adds `LockedAlive`, `JumpClean` and
`SameSystem`. They are only inductive together: a jump moves a ship with its locks,
which stays within `SameSystem` because `JumpClean` says that an unexposed ship has
none; and a ship can leave space without the other side knowing only if `Symmetric`
failed.

The refinement compares relations. Each method is shown to change `Relation` in one way
(`Without` a set of ships, one entry, one row, or from begun to done), and each action
then to be a step of `TargetLocks`. The ships that break their locks along with another
are exactly the members of the cascade, and what makes them lawful is that they had no
other target. `Enter` and `Cross` need `IInv`: a ship outside space is in no lock, and one
that is about to jump has no targets.

**Connection.** `StartedInTimeIsJoined` speaks of two moments, so the proof needs a
predicate that lasts: once the worker ran on a whole object, either the worker holds
`mMLoopRunning` or is done, and past the wait it is done (`Joined`). `Inv` relates the
program counters of the threads to the locks they hold and to what is left of the
object. `InboundOrder` is inductive with the types of the queues: `PopRep` moves the
border between what was popped and what waits, `RecvData` adds the next number, and
whatever clears the queue ends the connection first.

The refinement needs that what was accepted and not yet written is in the send queue, in
order. Said with a flattened queue that is a recursive definition; instead `Holds` says
that there are *cuts* of the stream between which the buffers lie, and two lemmas move
the cuts, one for a buffer that joins (`HoldsAppended`) and one for `k` bytes that go
(`HoldsShortened`). `Stream` claims it until something fails, and that the worker only
works at the queue while nothing has. An orderly close finds the queue empty, so the
first and the last cut are one, and all was written. Each action is then one of the
channel's or none (`ChannelStep`).

**Trades.** `Inv` has three parts. `Books` is about sessions and pointers: besides
`ActiveIsOpen` it says that a party of a traded session has no pointer to it left
(`PartyNotTraded`), which is why a call that gets past the pointer tests finds its
session open, and that a party whose state is set has agreed (`Accepted`), which takes
care of a character that trades with itself. `Held` is `HeldIsListed` with the session
existing. Sessions change one at a time, in two ways: the session stays open or it is
closed (`BooksEdited`, `BooksClosed`, `HeldEdited`, `HeldClosed`), so each action only
has to show which of the two it is. `Add` of any item needs nothing of who owns it: whatever it takes
from another container is on the list of the one it goes to. `ItemsSwapped` needs `Inv`
once more, to know that the session of a call is open.

Money is a matter of two payments in a row, each of which may throw on either side and be
cut by the cap. `PaymentCases` says how far one gets, `ReceiptsPass` that a receipt that is
not below zero never throws, `PaymentsSettle` what the two come to: with room in both
wallets each party gains exactly the difference of the offers, without it no more than that, and
a throw makes money only where an offer is below zero. `AlterMoves` is what one change does to
the sum, also when both parties are one. For `PaymentsAgreed` and `MoneyIsKept`, only
`ToggleAccept` moves money (`OnlyAcceptMovesMoney`); it does when the session's flags say
that both have accepted, and `Accepted` (in `Books`) turns the flags into the history of
who did.

**NPC.** `Inv` is `Sane(ai)`, the claims about the fields that hold at all times, together
with what the method about to run may rely on (`Fits`): between two calls of the chain
state and action need not agree, and how far they may be apart depends on which method
comes next. That an NPC's target is locked is not among them, since a warp leaves a fight
without locks. It is a fact about steps instead (`StepDoes`): each keeps what
`AttackTargetLocked` and `StateMatchesAction` say and is one of `NpcLocks`' steps, or
none. That every call gives up everything or loses one lock then follows method by method,
and so does the refinement.

**Skills.** Between handlers `QueueSettled` and `TrainingIsFront` follow
from what the last handler did, so the invariant has to say what holds inside one: for
each `pc`, which rows are written already, and that the rest of the handler will set the
timer. `LevelHasPoints` rests on the costs of levels increasing (`SkillAssumption`) and
on each level given coming with its points. `LevelsAreEarned` needs `TimedInv`: an entry
that trains and has no end has its points already. It holds of what `AddToSkillQueue` adds
and of what `LoadPausedSkillQueue` times, by the formula of `EndTime`, and it does not
hold of the rows a login reads. There the loop of `SkillQueueLoop` comes first and drops
an entry without an end, so the invariant is claimed outside that loop only, and nothing
can cancel the training inside it.

**Bubbles.** `Inv` is `TypeOK`, `Registered`, `Lists` (a bubble in use, or that a warp
is bound for, is listed or stale), `Crew` (who is in which ship, from both ends) and
`ListenerHere`. A lemma for each of `Remove`, `Add` and `ManagerAdd` says what it does
to the lists of all bubbles, and the actions are built from these. What ends a warp
without `Stop` (`EndWarpStep`) leaves the target bubble, which is why `Lists` is about
the ships that are bound for one and not about all that point to one. `ListenerHere` needs
`Crew`, since the code takes the listener from the ship's pilot.

**Market.** `Inv` is `TypeOK`, `OrderStands`, `Unused` (no id from `nextID` on has a row,
so that a new order never replaces one) and `BuyersKnown` (the owner of a buy order has a
hangar, so that no units go to somebody the sum leaves out). What a call does with money
is proved of `TransferFunds` once, thrown or not, cut or not (`TransferOnline`,
`TransferArrives`); what the clamp makes of a quantity is `ClampedIs`; and each action is
then shown to keep the invariant and to be a step that the action properties allow
(`BuyNowDoes`, `TurnDoes` and the lemmas after them). `WholeNear` says that rounding moves
a price by no more than half an ISK; with it `DrawBounded` and `BuyPays` bound what an
order found on the wrong side of its price costs. `GoodsAreKept` shows that each action
moves units within the hangars or between a hangar and an order (`GoodsMove`), or is one
of the exceptions. The refinement follows the same cases, with the ids given out as `used`.

**Sums.** `MapThenSumSet` of the community modules is a recursive function on the subsets
of a finite set, chosen by its equation. `SumTheorems` proves that there is exactly one
such function (by a smallest counterexample, since theorems of induction cannot be used
here), that a sum takes out any element first and not just the chosen one, and from that
what a sum is after one or two of its terms have changed.

Only model-checked: all liveness properties (`LockCompletes`, `SendReturns`,
`DisconnectCompletes`, `DueIsHandled`), since liveness under fairness and `ENABLED` are
beyond the prover; and what the runs that find a violation show. Every other property of
the runs is a theorem. The prover has no induction over data; where a proof needed it, for
sums, it is made by a smallest counterexample, and elsewhere definitions avoid recursion
(the connection's cuts).

## 5. Not modelled

Left out for good: marshalling and packet formats, physics of movement, database access,
configuration, logging, the image server, content generation (agents, missions,
spawning), most administration commands. They are data or I/O without much control, and
most of the source by lines.

Left out for reasons of their own:

- **Fleets** (`fleet/FleetService`). Five maps that should agree, and handlers that do not make
  them: `MoveMember` and `KickMember` do not test that the character is in the fleet,
  `AddMember` records the member before it finds that a leader's place is taken, `RemoveMember` compares
  the booster, not the role, with the leader roles, and `UpdateMember` leaves a member that changes squad and
  stays booster the booster of the old one. Hardly any relation between the maps holds
  in a model of this code, so there is little that a proof could show.
- **Ship modules** and their cycles (`ship/modules`): timers on attributes computed from tables of effects.
  `TargetManager` models what locks see of them.
- **Drones, missiles, sentries, Concord**: variants of the state machine of `NPCAI`.
- **`TCPServer`, `EVESession`**: a listener that passes sockets on, and a handshake of one
  packet at a time. `Threading`'s list of threads is changed without a lock by several threads: what that leads to is up to the
  C++ library and not to this code.
- **`Client` and `SystemManager`** beyond docking, jumping, warping, boarding and logging out:
  booting and unloading of systems, the tick over the entity map (iterators).
- **POS, planets, manufacturing, contracts, corporations, alliances, chat, mail**: requests that change a row of a table
  and little else.

What would come next: `EVESession` and `Client` on top of `TCPConnection`, so that a
packet popped is a call of the modules above; and `TargetManager` composed with
`Bubbles`, whose `mode` and `space` refine its `phase` and `loc`.
