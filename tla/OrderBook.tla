----------------------------- MODULE OrderBook -----------------------------
(***************************************************************************)
(* What the market promises about goods, with the money left out: an order *)
(* is placed under an id of its own, by a seller who gives up the goods;   *)
(* units leave a sell order for a hangar, unless there were more of them   *)
(* than an item can have; an order shrinks, changes its price or ends, and *)
(* never comes back.  Each call is one of these steps as a whole or moves  *)
(* no goods at all, although the code makes up to three payments in        *)
(* between and each may end the call                                       *)
(* (eve-server/market/MarketProxyService.cpp, MarketMgr.cpp).              *)
(***************************************************************************)
EXTENDS Integers

CONSTANTS Owners,     \* who may own an order
          Players,    \* those of them who have a hangar
          Prices,
          Half,       \* half the range of a volume: an item has fewer units
          Ids, NoOrder

VARIABLES book,    \* the order of each id, or NoOrder
          used,    \* the ids that were ever given out
          hangar   \* how many units each player has

vars == <<book, used, hangar>>

Volumes == 0..(2 * Half - 1)
Units == 1..(Half - 1)

Order == [owner : Owners, bid : BOOLEAN, price : Prices, entered : Volumes, vol : Volumes]

Standing(o) == book[o] # NoOrder

Ended(o) == [book EXCEPT ![o] = NoOrder]

\* The order with q units less in it; it ends with the last one.
Less(o, q) == IF q = book[o].vol THEN Ended(o) ELSE [book EXCEPT ![o].vol = @ - q]

New(p, bid, price, v) ==
    [owner |-> p, bid |-> bid, price |-> price, entered |-> v, vol |-> v]

\* The orders that stand when the server starts have used their ids.
Init ==
    /\ book \in [Ids -> Order \cup {NoOrder}]
    /\ used = {o \in Ids : Standing(o)}
    /\ \A o \in used : book[o].vol \in 1..book[o].entered
    /\ hangar \in [Players -> Nat]

\* A new order.  A bid takes nothing from the hangar, or, when it was placed as
\* the sale of an item, the goods; a sell order takes the goods, unless it is for
\* none or for more than an item has: that adds to the item it was
\* placed for, or spoils it.
Enter(p, o, bid, price, v) ==
    /\ o \notin used
    /\ used' = used \cup {o}
    /\ book' = [book EXCEPT ![o] = New(p, bid, price, v)]
    /\ \/ (bid \/ v = 0) /\ UNCHANGED hangar
       \/ v \in Units /\ v <= hangar[p] /\ hangar' = [hangar EXCEPT ![p] = @ - v]
       \/ v >= Half /\ hangar' = [hangar EXCEPT ![p] = @ + 2 * Half - v]
       \/ v >= Half /\ \E q \in Units :
             q <= hangar[p] /\ hangar' = [hangar EXCEPT ![p] = @ - q]

\* Units of a sell order for whoever buys them.
Buy(p, o, q) ==
    /\ Standing(o) /\ ~ book[o].bid
    /\ q <= book[o].vol
    /\ book' = Less(o, q)
    /\ hangar' = [hangar EXCEPT ![p] = @ + q]
    /\ UNCHANGED used

\* An order of more units than an item has may lose as many for nothing.
Lose(o, q) ==
    /\ Standing(o) /\ ~ book[o].bid
    /\ q >= Half /\ q <= book[o].vol
    /\ book' = Less(o, q)
    /\ UNCHANGED <<used, hangar>>

\* Goods for the owner of a buy order.  They are handed over before they are
\* paid for, so the order may stand after that, as if nothing had come.
Deliver(p, o, q) ==
    /\ Standing(o) /\ book[o].bid /\ book[o].owner \in Players
    /\ q <= hangar[p] /\ q <= book[o].vol
    /\ LET taken == [hangar EXCEPT ![p] = @ - q]
       IN  hangar' = [taken EXCEPT ![book[o].owner] = @ + q]
    /\ book' = book \/ book' = Ended(o)
    /\ UNCHANGED used

Reprice(o, price) ==
    /\ Standing(o)
    /\ book' = [book EXCEPT ![o].price = price]
    /\ UNCHANGED <<used, hangar>>

\* Somebody takes the order out of the book, and gets what is left of the goods.
Withdraw(p, o) ==
    /\ Standing(o)
    /\ book' = Ended(o)
    /\ hangar' = IF book[o].bid \/ book[o].vol \notin Units THEN hangar
                 ELSE [hangar EXCEPT ![p] = @ + book[o].vol]
    /\ UNCHANGED used

Next ==
    \/ \E p \in Players, o \in Ids :
          \/ \E bid \in BOOLEAN, price \in Prices, v \in Volumes :
                Enter(p, o, bid, price, v)
          \/ \E q \in Units : Buy(p, o, q) \/ Deliver(p, o, q)
          \/ Withdraw(p, o)
    \/ \E o \in Ids :
          \/ \E q \in Volumes : Lose(o, q)
          \/ \E price \in Prices : Reprice(o, price)

Spec == Init /\ [][Next]_vars
=============================================================================
