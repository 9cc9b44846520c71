------------------------------- MODULE Market -------------------------------
(***************************************************************************)
(* The regional market, for one type of goods in one station               *)
(* (eve-server/market/MarketProxyService.cpp, MarketMgr.cpp, MarketDB.cpp).*)
(* The main thread runs one call at a time and the queries are synchronous,*)
(* so a call is one step, and an immediate sale one step for each turn of  *)
(* its loop; but TransferFunds may throw, which ends the call where it     *)
(* stands, with everything done before it kept.                            *)
(*                                                                         *)
(* The handlers take the price, the quantity and the order of a call as    *)
(* they come: a price is any number of hundredths of an ISK (of 1/Unit     *)
(* here), a quantity any int32, and orders are changed and cancelled by    *)
(* whoever names them.  Volumes are stored in 32 bits without a sign.      *)
(*                                                                         *)
(* Orders are placed by characters, and by the script that seeds the       *)
(* market with sell orders of NPC corporations.  Corporation orders are    *)
(* refused, and the market bot has no system to place orders in, so the    *)
(* branches for those buyers are never taken and are left out.  So is the  *)
(* rounding of amounts of money to floats.                                 *)
(***************************************************************************)
EXTENDS Integers, FiniteSetsExt

CONSTANTS Players,
          Npc,         \* the NPC corporations: station owner, SCC, seeded orders
          NoOrder,     \* no row in mktOrders
          NoSale,      \* no immediate sale under way
          Prices,      \* what a unit may be offered at
          Unit,        \* 1 ISK: the searches round prices to it
          Half,        \* 2^31
          Lots,        \* the prices and quantities each character calls with
          MaxOrders,   \* bound on the orders ever stored
          Fees,        \* what broker fees and sales taxes may come to
          MaxBalance,  \* the cap of a balance
          MaxMoney,    \* bound on what the characters have together
          SeedPrice, SeedVolume, \* the seeded sell order
          Hangar0, Wallet0       \* goods and money of each character at first

Owners == Players \cup {Npc}
Ids == 1..MaxOrders
Int32 == (-Half)..(Half - 1)
Uint32 == 0..(2 * Half - 1)

\* A row of mktOrders.  `entered' is volEntered and `vol' volRemaining.
Order == [owner : Owners, bid : BOOLEAN, price : Prices, entered : Uint32, vol : Uint32]

\* An immediate sale between two turns of its loop: what is left to sell, and
\* what is left of the item it is sold from.
Sale == [seller : Players, price : Prices, quantity : Int32, stack : Nat]

ASSUME MarketAssumption ==
    /\ IsFiniteSet(Players)
    /\ Npc \notin Players
    /\ NoOrder \notin Order
    /\ NoSale \notin Sale
    /\ Half \in Nat \ {0} /\ Unit \in Nat \ {0}
    /\ Prices \subseteq Int
    /\ Lots \in [Players -> SUBSET (Prices \X Int32)]
    /\ MaxOrders \in Nat \ {0}
    /\ Fees \subseteq Int
    /\ MaxBalance \in Nat
    /\ MaxMoney \in Int
    /\ SeedPrice \in Prices /\ SeedVolume \in 1..(Half - 1)
    /\ Hangar0 \in [Players -> Nat]
    /\ Wallet0 \in [Players -> Int]

VARIABLES
    online,  \* the characters with a client
    orders,  \* mktOrders: the row of each order id
    nextID,  \* the id the next INSERT gets
    sale,    \* the immediate sale whose loop the main thread is in
    hangar,  \* how many units each character has in the station
    wallet,  \* the balance of each character
    drawn    \* history: what the last step paid out of the station's escrow for a
             \* buy order (no account records it)

vars == <<online, orders, nextID, sale, hangar, wallet, drawn>>

Placed(o) == orders[o] # NoOrder
Calls(p) == sale = NoSale /\ p \in online

\* The conversions between int32 and uint32.
Unsigned(x) == IF x < 0 THEN x + 2 * Half ELSE x
Signed(x) == IF x < Half THEN x ELSE x - 2 * Half

-----------------------------------------------------------------------------
(* Money.                                                                  *)

\* Character::AlterBalance for a character that is online: adding the amount
\* throws when the balance is below zero after it, for a receipt as well.
\* Mutant of Fails: the check of the balance is lost.
FailsNever(w, c, amount) == FALSE
Fails(w, c, amount) == c \in online /\ amount # 0 /\ w[c] + amount < 0

\* The balance it leaves is cut to the cap.
Credited(w, c, amount) ==
    LET sum == w[c] + amount
    IN  IF c \in online /\ amount # 0 /\ sum > MaxBalance THEN MaxBalance ELSE sum

\* The balances after that; of an NPC corporation none is kept, and nobody asks
\* what an offline character has.
Altered(w, c, amount) ==
    IF c \in Players /\ ~ Fails(w, c, amount)
    THEN [w EXCEPT ![c] = Credited(w, c, amount)] ELSE w

\* The transfer throws, and the balances it leaves.  When it is the receiver's
\* side that throws, what was done to the sender stays done.
TransferThrows(w, from, to, amount) ==
    Fails(w, from, -amount) \/ Fails(Altered(w, from, -amount), to, amount)

TransferFunds(w, from, to, amount) ==
    IF Fails(w, from, -amount) THEN w
    ELSE Altered(Altered(w, from, -amount), to, amount)

\* A fee or tax is a share of the money it is for.
Charges(money) == IF money = 0 THEN {0} ELSE {x \in Fees : x * money >= 0}

-----------------------------------------------------------------------------
(* The table of orders.                                                    *)

StoreOrder(o, p, bid, price, quantity) ==
    [orders EXCEPT ![o] = [owner |-> p, bid |-> bid, price |-> price,
                           entered |-> Unsigned(quantity), vol |-> Unsigned(quantity)]]

DeleteOrder(o) == [orders EXCEPT ![o] = NoOrder]

\* What `%.0f' prints: the nearest whole ISK, and of two the even one.
Whole(x) ==
    LET low == x \div Unit
        over == 2 * (x % Unit) - Unit
    IN  IF over < 0 \/ (over = 0 /\ low % 2 = 0) THEN low * Unit ELSE (low + 1) * Unit

\* The candidates of the two searches.  The query compares with the price minus
\* or plus one, rounded, so prices up to one and a half on the wrong side match.
BuyOrders(price, quantity) ==
    {o \in Ids : Placed(o) /\ orders[o].bid /\ orders[o].vol >= quantity
                 /\ orders[o].price > Whole(price - Unit)}

SellOrders(price, quantity) ==
    {o \in Ids : Placed(o) /\ ~ orders[o].bid /\ orders[o].vol >= quantity
                 /\ orders[o].price < Whole(price + Unit)}

\* FindBuyOrder takes the dearest, FindSellOrder the cheapest.
FindBuyOrder(price, quantity) ==
    {o \in BuyOrders(price, quantity) :
        \A x \in BuyOrders(price, quantity) : orders[x].price <= orders[o].price}

FindSellOrder(price, quantity) ==
    {o \in SellOrders(price, quantity) :
        \A x \in SellOrders(price, quantity) : orders[x].price >= orders[o].price}

\* The rows once a quantity of a sell order is bought.
Bought(o, quantity) ==
    IF orders[o].vol = quantity THEN DeleteOrder(o)
    ELSE [orders EXCEPT ![o].vol = @ - quantity]

\* SpawnItem and Donate.  A quantity of 0 makes no item; one below zero makes an
\* item with that quantity, which holds no goods and is not followed here.
Spawned(p, quantity) ==
    IF quantity > 0 THEN [hangar EXCEPT ![p] = @ + quantity] ELSE hangar

-----------------------------------------------------------------------------
(* Buying: Handle_PlaceCharOrder with `bid' and without an item.           *)

\* A standing order is stored first and paid for afterwards: when the fee or
\* the escrow cannot be paid, it stands all the same.  The INSERT may refuse an
\* escrow below zero, and the call then ends with nothing done.
PlaceBuyOrder(p, price, quantity, fee) ==
    LET money == price * quantity
        w == TransferFunds(wallet, p, Npc, fee)
    IN  /\ Calls(p)
        /\ nextID \in Ids
        /\ fee \in Charges(money)
        /\ orders' = StoreOrder(nextID, p, TRUE, price, quantity)
        /\ nextID' = nextID + 1
        /\ wallet' = IF TransferThrows(wallet, p, Npc, fee) THEN w
                     ELSE TransferFunds(w, p, Npc, money)
        /\ drawn' = 0
        /\ UNCHANGED <<online, sale, hangar>>

\* An immediate one (ExecuteSellOrder): pay the owner, pay the tax, then
\* receive the goods.  The clamp of the quantity compares it without a sign,
\* and so turns a quantity below zero into the whole order.
Clamped(o, quantity) ==
    IF Unsigned(quantity) > orders[o].vol THEN Signed(orders[o].vol) ELSE quantity

\* Mutant of BuyNow: the goods come out of the order before the payment.
BuyNowGoodsFirst(p, price, quantity, tax) ==
    \E o \in FindSellOrder(price, quantity) :
        LET n == Clamped(o, quantity)
            money == price * n
            w == TransferFunds(wallet, p, orders[o].owner, money)
            unpaid == TransferThrows(wallet, p, orders[o].owner, money)
        IN  /\ Calls(p)
            /\ tax \in Charges(money)
            /\ wallet' = IF unpaid THEN w ELSE TransferFunds(w, p, Npc, tax)
            /\ hangar' = Spawned(p, n)
            /\ orders' = IF n = 0 THEN orders ELSE Bought(o, Unsigned(n))
            /\ drawn' = 0
            /\ UNCHANGED <<online, nextID, sale>>
BuyNow(p, price, quantity, tax) ==
    \E o \in FindSellOrder(price, quantity) :
        LET n == Clamped(o, quantity)
            money == price * n
            w == TransferFunds(wallet, p, orders[o].owner, money)
            unpaid == TransferThrows(wallet, p, orders[o].owner, money)
            throws == unpaid \/ TransferThrows(w, p, Npc, tax)
        IN  /\ Calls(p)
            /\ tax \in Charges(money)
            /\ wallet' = IF unpaid THEN w ELSE TransferFunds(w, p, Npc, tax)
            /\ hangar' = IF throws THEN hangar ELSE Spawned(p, n)
            /\ orders' = IF throws \/ n = 0 THEN orders ELSE Bought(o, Unsigned(n))
            /\ drawn' = 0
            /\ UNCHANGED <<online, nextID, sale>>

-----------------------------------------------------------------------------
(* Selling: every other Handle_PlaceCharOrder.                             *)

\* The item to sell from: one of the character's in the station.
\* Mutant of Stacks: the item may be anybody's.
StacksOfAll(p) == {x \in 1..(Half - 1) : \E c \in Players : x <= hangar[c]}
Stacks(p) == {x \in 1..(Half - 1) : x <= hangar[p]}

\* A standing order takes the goods out of the item; the fee comes last.  It is
\* stored with the `bid' of the call.  Of a quantity 0 AlterQuantity makes an
\* error, which ends the call; one below zero adds to the item, or deletes it
\* when the sum is beyond int32.
\* Mutant of PlaceSellOrder: the fee comes first, and who cannot pay it keeps
\* the goods that the order offers.
PlaceSellOrderUnpaid(p, bid, price, quantity, stack, fee) ==
    /\ Calls(p)
    /\ nextID \in Ids
    /\ stack \in Stacks(p) /\ quantity <= stack
    /\ fee \in Charges(price * quantity)
    /\ orders' = StoreOrder(nextID, p, bid, price, quantity)
    /\ nextID' = nextID + 1
    /\ hangar' = IF TransferThrows(wallet, p, Npc, fee) THEN hangar
                 ELSE [hangar EXCEPT ![p] = @ - quantity]
    /\ wallet' = TransferFunds(wallet, p, Npc, fee)
    /\ drawn' = 0
    /\ UNCHANGED <<online, sale>>
PlaceSellOrder(p, bid, price, quantity, stack, fee) ==
    LET beyond == stack - quantity >= Half
    IN  /\ Calls(p)
        /\ nextID \in Ids
        /\ stack \in Stacks(p) /\ quantity <= stack
        /\ fee \in Charges(price * quantity)
        /\ orders' = StoreOrder(nextID, p, bid, price, quantity)
        /\ nextID' = nextID + 1
        /\ hangar' = [hangar EXCEPT ![p] = @ - (IF beyond THEN stack ELSE quantity)]
        /\ wallet' = IF quantity = 0 \/ beyond THEN wallet
                     ELSE TransferFunds(wallet, p, Npc, fee)
        /\ drawn' = 0
        /\ UNCHANGED <<online, sale>>

\* An immediate sale: a loop over the buy orders found, until nothing is left to
\* sell.  Nothing ends it when none is found, and the process is then stuck.
SellNow(p, price, quantity, stack) ==
    /\ Calls(p)
    /\ stack \in Stacks(p) /\ quantity <= stack
    /\ quantity # 0
    /\ sale' = [seller |-> p, price |-> price, quantity |-> quantity, stack |-> stack]
    /\ drawn' = 0
    /\ UNCHANGED <<online, orders, nextID, hangar, wallet>>

\* The next turn (ExecuteBuyOrder): hand over the goods, take the tax from the
\* buyer, then pay the seller out of escrow and delete the order.  When more of
\* the item is left than is to be sold, the payment is for the quantity of the
\* order, which may be larger, and what is still to sell becomes the difference,
\* modulo 2^32; when less is left (Under) the order is not deleted, and its new
\* quantity is the old one.  When what is to sell is below zero Split makes no
\* item, and the sale is stuck or dies of the null reference in its error message.
ExecuteBuyOrder(o, tax) ==
    LET p == sale.seller
        buyer == orders[o].owner
        quantity == sale.quantity
        over == sale.stack > quantity
        under == sale.stack < quantity
        given == IF under THEN sale.stack ELSE quantity
        sold == IF over THEN orders[o].vol ELSE quantity
        left == IF over THEN Signed(Unsigned(quantity - sold)) ELSE 0
        money == sale.price * sold
        w == TransferFunds(wallet, buyer, Npc, tax)
        untaxed == TransferThrows(wallet, buyer, Npc, tax)
        throws == untaxed \/ TransferThrows(w, Npc, p, money)
    IN  /\ sale # NoSale
        /\ o \in FindBuyOrder(sale.price, quantity)
        /\ quantity > 0
        /\ tax \in Charges(money)
        /\ hangar' = [[hangar EXCEPT ![p] = @ - given] EXCEPT ![buyer] = @ + given]
        /\ wallet' = IF untaxed THEN w ELSE TransferFunds(w, Npc, p, money)
        /\ drawn' = IF throws THEN 0 ELSE money
        /\ orders' = IF throws \/ under THEN orders ELSE DeleteOrder(o)
        /\ sale' = IF throws \/ left = 0 THEN NoSale
                   ELSE [sale EXCEPT !.quantity = left, !.stack = @ - given]
        /\ UNCHANGED <<online, nextID>>

-----------------------------------------------------------------------------
(* Orders that stand.  Nothing compares the caller with their owner.       *)

\* Handle_ModifyCharOrder, for an order of either kind.  The amount it moves
\* between the caller and the escrow is made of what the caller says the price
\* and the volume are.
ModifyCharOrder(p, o, price, newPrice, volume) ==
    LET money == (price - newPrice) * volume
    IN  /\ Calls(p)
        /\ Placed(o)
        /\ ~ TransferThrows(wallet, p, Npc, money)
        /\ wallet' = TransferFunds(wallet, p, Npc, money)
        /\ orders' = [orders EXCEPT ![o].price = newPrice]
        /\ drawn' = 0
        /\ UNCHANGED <<online, nextID, sale, hangar>>

\* Handle_CancelCharOrder: the refund or the goods go to the caller.  The refund
\* may throw, and the order then stays.
\* Mutant of CancelBuyOrder: the order outlives its refund.
CancelBuyOrderKept(p, o) ==
    LET money == orders[o].price * orders[o].vol
    IN  /\ Calls(p)
        /\ Placed(o) /\ orders[o].bid
        /\ ~ TransferThrows(wallet, Npc, p, money)
        /\ wallet' = TransferFunds(wallet, Npc, p, money)
        /\ drawn' = money
        /\ UNCHANGED <<online, orders, nextID, sale, hangar>>
CancelBuyOrder(p, o) ==
    LET money == orders[o].price * orders[o].vol
    IN  /\ Calls(p)
        /\ Placed(o) /\ orders[o].bid
        /\ ~ TransferThrows(wallet, Npc, p, money)
        /\ wallet' = TransferFunds(wallet, Npc, p, money)
        /\ drawn' = money
        /\ orders' = DeleteOrder(o)
        /\ UNCHANGED <<online, nextID, sale, hangar>>

\* Mutant of CancelSellOrder: what was entered is given back, not what is left.
CancelSellOrderEntered(p, o) ==
    /\ Calls(p)
    /\ Placed(o) /\ ~ orders[o].bid
    /\ hangar' = Spawned(p, Signed(orders[o].entered))
    /\ orders' = DeleteOrder(o)
    /\ drawn' = 0
    /\ UNCHANGED <<online, nextID, sale, wallet>>
CancelSellOrder(p, o) ==
    /\ Calls(p)
    /\ Placed(o) /\ ~ orders[o].bid
    /\ hangar' = Spawned(p, Signed(orders[o].vol))
    /\ orders' = DeleteOrder(o)
    /\ drawn' = 0
    /\ UNCHANGED <<online, nextID, sale, wallet>>

\* A character comes and goes; money reaches it, and is taken, either way.
Login(p) ==
    /\ sale = NoSale /\ p \notin online
    /\ online' = online \cup {p}
    /\ drawn' = 0
    /\ UNCHANGED <<orders, nextID, sale, hangar, wallet>>

Logout(p) ==
    /\ Calls(p)
    /\ online' = online \ {p}
    /\ drawn' = 0
    /\ UNCHANGED <<orders, nextID, sale, hangar, wallet>>

-----------------------------------------------------------------------------

\* At the start the table holds the seeded order.
Init ==
    /\ online = {}
    /\ orders = [o \in Ids |->
            IF o = 1 THEN [owner |-> Npc, bid |-> FALSE, price |-> SeedPrice,
                           entered |-> SeedVolume, vol |-> SeedVolume]
            ELSE NoOrder]
    /\ nextID = 2
    /\ sale = NoSale
    /\ hangar = Hangar0
    /\ wallet = Wallet0
    /\ drawn = 0

Place(p, price, quantity) ==
    \/ \E fee \in Fees \cup {0} :
          \/ PlaceBuyOrder(p, price, quantity, fee)
          \/ BuyNow(p, price, quantity, fee)
          \/ \E bid \in BOOLEAN, stack \in Stacks(p) :
                PlaceSellOrder(p, bid, price, quantity, stack, fee)
    \/ \E stack \in Stacks(p) : SellNow(p, price, quantity, stack)

Turn ==
    \/ \E p \in Players : \E lot \in Lots[p] : Place(p, lot[1], lot[2])
    \/ \E o \in Ids, tax \in Fees \cup {0} : ExecuteBuyOrder(o, tax)
    \/ \E p \in Players, o \in Ids :
          \/ \E lot \in Lots[p], newPrice \in Prices :
                ModifyCharOrder(p, o, lot[1], newPrice, lot[2])
          \/ CancelBuyOrder(p, o)
          \/ CancelSellOrder(p, o)
    \/ \E p \in Players : Login(p) \/ Logout(p)

\* Calls that throw half way may bring any amount of money into play.
MoneyOf(w) == MapThenSumSet(LAMBDA p : w[p], Players)
Next == Turn /\ MoneyOf(wallet') <= MaxMoney

Spec == Init /\ [][Next]_vars

-----------------------------------------------------------------------------

\* The variables have their types: of the money only the balances may be
\* negative, goods and volumes never are; and a sale goes on only while it has
\* an item of the seller's to sell from.
TypeOK ==
    /\ online \subseteq Players
    /\ orders \in [Ids -> Order \cup {NoOrder}]
    /\ nextID \in 1..(MaxOrders + 1)
    /\ sale \in Sale \cup {NoSale}
    /\ sale # NoSale => sale.stack \in 1..hangar[sale.seller]
    /\ hangar \in [Players -> Nat]
    /\ wallet \in [Players -> Int]
    /\ drawn \in Int

\* Goods are neither made nor lost, in no call, whichever of its payments
\* throws (MarketMgr.cpp ExecuteBuyOrder and ExecuteSellOrder, and the branches
\* of Handle_PlaceCharOrder and Handle_CancelCharOrder): what is in the hangars
\* and in sell orders stays the same.  The exceptions are a sell order of a
\* quantity below zero, whose volume is beyond int32, when it is placed and when
\* it ends or comes back into range, and a sell order that is stored as a bid.
LeftIn(row) == IF row = NoOrder THEN 0 ELSE row.vol
ForSale == [o \in Ids |-> IF ~ Placed(o) \/ orders[o].bid THEN 0 ELSE orders[o].vol]
Goods == MapThenSumSet(LAMBDA p : hangar[p], Players)
             + MapThenSumSet(LAMBDA o : ForSale[o], Ids)
OutOfRange(o) == (LeftIn(orders[o]) >= Half) # (LeftIn(orders'[o]) >= Half)
TakenAsBid(o) ==
    ~ Placed(o) /\ orders'[o] # NoOrder /\ orders'[o].bid /\ hangar' # hangar
GoodsKept ==
    [][Goods' = Goods \/ \E o \in Ids : OutOfRange(o) \/ TakenAsBid(o)]_vars

\* No order in the table has more left than was entered: the unsigned
\* difference AlterOrderQuantity stores never wraps around.
OrderStands ==
    \A o \in Ids : Placed(o) => orders[o].vol <= orders[o].entered

\* Only a character that is offline is ever brought below zero: the tax on what
\* its buy orders receive is taken without a look at its balance
\* (AccountDB::OfflineFundXfer).
OverdrawnOffline ==
    [][\A p \in Players :
            wallet'[p] < wallet[p] /\ wallet'[p] < 0 => p \notin online]_vars

\* Escrow pays once for each buy order, and less than one and a half ISK a unit
\* more than the order offered: a payment out of it ends the order, whether the
\* order is filled or cancelled.  The exception is the Under branch of
\* ExecuteBuyOrder, where the item is smaller than what is to be sold; the check
\* of the handler keeps it out of the first turn of the loop.
\* What ModifyCharOrder moves is no payment for an order: the caller says what it is.
Short == sale # NoSale /\ sale.stack < sale.quantity
DrawEndsOrder ==
    [][drawn' > 0 => \E o \in Ids :
          /\ Placed(o) /\ orders[o].bid
          /\ orders'[o] = NoOrder \/ Short
          /\ 2 * drawn' < (2 * orders[o].price + 3 * Unit) * orders[o].vol]_vars

\* Who buys out of a sell order has paid for what comes out: its owner gets, for
\* each unit, its price but for less than one and a half ISK, or has a full
\* wallet, or is the buyer; whoever is online and whichever payment throws
\* (ExecuteSellOrder takes the money before it makes the goods).  An order with a
\* volume beyond int32 is excepted.
PaidAtLeast(s, twice) ==
    \/ 2 * (wallet'[s] - wallet[s]) >= twice
    \/ s \in online /\ wallet'[s] = MaxBalance
Buys(p) == \E lot \in Lots[p], tax \in Fees \cup {0} : BuyNow(p, lot[1], lot[2], tax)
SellerPaid ==
    [][\A o \in Ids :
          LET s == orders[o].owner
              gone == orders[o].vol - LeftIn(orders'[o])
          IN  (/\ Placed(o) /\ ~ orders[o].bid
               /\ orders[o].vol < Half /\ gone > 0
               /\ s \in Players /\ \E p \in Players \ {s} : Buys(p))
                 => PaidAtLeast(s, (2 * orders[o].price - 3 * Unit) * gone)]_vars

\* The goods alone: every step is one of an order book or none, whichever of its
\* payments throws.  No id is given out twice (nextID is the key of the INSERT),
\* a row keeps its owner and its kind, and what leaves a sell order arrives in a
\* hangar in the same step.
Book == INSTANCE OrderBook WITH book <- orders, used <- 1..(nextID - 1)
ImplementsOrderBook == Book!Spec
=============================================================================
