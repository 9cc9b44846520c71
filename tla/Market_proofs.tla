--------------------------- MODULE Market_proofs ---------------------------
(***************************************************************************)
(* Theorems about Market: its types, the rows of mktOrders, the sum of all *)
(* goods, what each call does with money, and that the market implements   *)
(* OrderBook, for all characters, prices and numbers of orders.            *)
(*                                                                         *)
(* The invariant adds to TypeOK and OrderStands that no id from nextID on  *)
(* has a row, so that a new order never replaces one that stands, and that *)
(* buy orders belong to characters, who have a hangar to deliver to.       *)
(***************************************************************************)
EXTENDS Market, SumTheorems

Unused == \A o \in Ids : o >= nextID => orders[o] = NoOrder

BuyersKnown == \A o \in Ids : Placed(o) => (orders[o].bid => orders[o].owner \in Players)

Inv == TypeOK /\ OrderStands /\ Unused /\ BuyersKnown

Balances == [Players -> Int]

-----------------------------------------------------------------------------
(* Numbers.                                                                 *)

LEMMA ConstantTypes ==
    /\ MaxOrders \in Nat \ {0} /\ MaxBalance \in Nat
    /\ Half \in Nat \ {0} /\ Unit \in Nat \ {0}
    /\ Prices \subseteq Int
    /\ Fees \cup {0} \subseteq Int
    /\ Ids = 1..MaxOrders /\ Ids \subseteq Nat
    /\ Npc \notin Players /\ NoOrder \notin Order /\ NoSale \notin Sale
    /\ Npc \in Owners /\ Players \subseteq Owners
  BY MarketAssumption DEF Ids, Owners

LEMMA LotType ==
    ASSUME NEW p \in Players, NEW lot \in Lots[p]
    PROVE  lot[1] \in Prices /\ lot[2] \in Int32
  BY MarketAssumption

LEMMA ProductInt ==
    ASSUME NEW a \in Int, NEW b \in Int
    PROVE  a * b \in Int
  OBVIOUS

LEMMA TimesMore ==
    ASSUME NEW x \in Int, NEW y \in Int, NEW q \in Nat, x <= y
    PROVE  x * q <= y * q
  <1>1. PICK e \in Nat : y = x + e
    <2>1. y - x \in Nat /\ y = x + (y - x)
      OBVIOUS
    <2> QED BY <2>1
  <1>2. (x + e) * q = x * q + e * q
    OBVIOUS
  <1>3. e * q \in Nat /\ x * q \in Int
    OBVIOUS
  <1> QED BY <1>1, <1>2, <1>3

LEMMA TimesLess ==
    ASSUME NEW x \in Int, NEW y \in Int, NEW q \in Nat, q >= 1, x < y
    PROVE  x * q < y * q
  <1>1. x + 1 \in Int /\ x + 1 <= y
    OBVIOUS
  <1>2. (x + 1) * q <= y * q
    BY <1>1, TimesMore
  <1>3. (x + 1) * q = x * q + q
    OBVIOUS
  <1>4. x * q \in Int /\ y * q \in Int
    BY ProductInt
  <1> QED BY <1>2, <1>3, <1>4

LEMMA DivMod ==
    ASSUME NEW x \in Int, NEW u \in Nat \ {0}
    PROVE  /\ x \div u \in Int /\ x % u \in 0..(u - 1)
           /\ x = u * (x \div u) + (x % u)
  OBVIOUS

\* A price that is rounded moves by half an ISK at most.
LEMMA WholeNear ==
    ASSUME NEW x \in Int
    PROVE  /\ Whole(x) \in Int
           /\ 2 * x - Unit <= 2 * Whole(x) /\ 2 * Whole(x) <= 2 * x + Unit
  <1> DEFINE q == x \div Unit
             r == x % Unit
  <1>1. Unit \in Nat \ {0}
    BY ConstantTypes
  <1>2. q \in Int /\ r \in 0..(Unit - 1) /\ x = Unit * q + r
    BY <1>1, DivMod
  <1>3. Whole(x) = IF 2 * r - Unit < 0 \/ (2 * r - Unit = 0 /\ q % 2 = 0)
                   THEN q * Unit ELSE (q + 1) * Unit
    BY DEF Whole
  <1> HIDE DEF q, r
  <1>4. q * Unit = x - r /\ (q + 1) * Unit = x - r + Unit
    BY <1>1, <1>2
  <1>5. x - r \in Int /\ r \in Int /\ Unit \in Int
    BY <1>1, <1>2
  <1> QED BY <1>1, <1>2, <1>3, <1>4, <1>5

\* The conversions stay in their ranges and are inverse to each other.
LEMMA SignsType ==
    /\ \A x \in Int32 : Unsigned(x) \in Uint32
    /\ \A v \in Uint32 : Signed(v) \in Int32 /\ Unsigned(Signed(v)) = v
    /\ Int32 \subseteq Int /\ Uint32 \subseteq Nat
  BY ConstantTypes DEF Int32, Uint32, Unsigned, Signed

-----------------------------------------------------------------------------
(* What moving money does.                                                  *)

LEMMA CreditedIs ==
    ASSUME NEW STATE w, w \in Balances, NEW STATE c, c \in Players,
           NEW STATE amount, amount \in Int
    PROVE  /\ Credited(w, c, amount) \in Int
           /\ \/ Credited(w, c, amount) = w[c] + amount
              \/ c \in online /\ Credited(w, c, amount) = MaxBalance
  <1>1. w[c] + amount \in Int /\ MaxBalance \in Int
    BY ConstantTypes DEF Balances
  <1> QED BY <1>1 DEF Credited

LEMMA AlteredType ==
    ASSUME NEW STATE w, w \in Balances, NEW STATE c, NEW STATE amount, amount \in Int
    PROVE  Altered(w, c, amount) \in Balances
  <1>1. CASE c \in Players /\ ~ Fails(w, c, amount)
    <2>1. Altered(w, c, amount) = [w EXCEPT ![c] = Credited(w, c, amount)]
      BY <1>1 DEF Altered
    <2>2. Credited(w, c, amount) \in Int
      BY <1>1, CreditedIs
    <2> QED BY <2>1, <2>2 DEF Balances
  <1>2. CASE ~ (c \in Players /\ ~ Fails(w, c, amount))
    BY <1>2 DEF Altered
  <1> QED BY <1>1, <1>2

\* Who is online is left with what it had, or with nothing below zero.
LEMMA AlteredOnline ==
    ASSUME NEW STATE w, w \in Balances, NEW STATE c, NEW STATE amount, amount \in Int,
           NEW p \in Players, p \in online
    PROVE  Altered(w, c, amount)[p] = w[p] \/ Altered(w, c, amount)[p] >= 0
  <1>1. CASE c = p /\ ~ Fails(w, c, amount)
    <2>1. Altered(w, c, amount) = [w EXCEPT ![p] = Credited(w, p, amount)]
      BY <1>1 DEF Altered
    <2>2. Altered(w, c, amount)[p] = Credited(w, p, amount)
      BY <2>1 DEF Balances
    <2>3. amount = 0 \/ w[p] + amount >= 0
      BY <1>1 DEF Fails, Balances
    <2>4. Credited(w, p, amount) = w[p] + amount \/ Credited(w, p, amount) = MaxBalance
      BY CreditedIs
    <2>5. MaxBalance >= 0 /\ w[p] \in Int
      BY ConstantTypes DEF Balances
    <2> QED BY <2>2, <2>3, <2>4, <2>5
  <1>2. CASE ~ (c = p /\ ~ Fails(w, c, amount))
    BY <1>2 DEF Altered, Balances
  <1> QED BY <1>1, <1>2

LEMMA TransferType ==
    ASSUME NEW STATE w, w \in Balances, NEW STATE from, NEW STATE to,
           NEW STATE amount, amount \in Int
    PROVE  TransferFunds(w, from, to, amount) \in Balances
  <1>1. -amount \in Int
    OBVIOUS
  <1> DEFINE w1 == Altered(w, from, -amount)
  <1>2. w1 \in Balances
    BY <1>1, AlteredType
  <1> HIDE DEF w1
  <1>3. Altered(w1, to, amount) \in Balances
    BY <1>2, AlteredType
  <1>4. TransferFunds(w, from, to, amount)
          = IF Fails(w, from, -amount) THEN w ELSE Altered(w1, to, amount)
    BY DEF TransferFunds, w1
  <1> QED BY <1>3, <1>4

LEMMA TransferOnline ==
    ASSUME NEW STATE w, w \in Balances, NEW STATE from, NEW STATE to,
           NEW STATE amount, amount \in Int, NEW p \in Players, p \in online
    PROVE  \/ TransferFunds(w, from, to, amount)[p] = w[p]
           \/ TransferFunds(w, from, to, amount)[p] >= 0
  <1>1. -amount \in Int
    OBVIOUS
  <1> DEFINE w1 == Altered(w, from, -amount)
             w2 == Altered(w1, to, amount)
  <1>2. w1 \in Balances /\ (w1[p] = w[p] \/ w1[p] >= 0)
    BY <1>1, AlteredType, AlteredOnline
  <1>3. TransferFunds(w, from, to, amount)
          = IF Fails(w, from, -amount) THEN w ELSE w2
    BY DEF TransferFunds
  <1> HIDE DEF w1
  <1>4. w2[p] = w1[p] \/ w2[p] >= 0
    BY <1>2, AlteredOnline
  <1> HIDE DEF w2
  <1> QED BY <1>2, <1>3, <1>4

\* A transfer to another character that does not throw arrives, or fills the
\* wallet.
LEMMA TransferArrives ==
    ASSUME NEW STATE w, w \in Balances, NEW STATE from, NEW STATE to, to \in Players,
           NEW STATE amount, amount \in Int, from # to,
           ~ TransferThrows(w, from, to, amount)
    PROVE  \/ TransferFunds(w, from, to, amount)[to] = w[to] + amount
           \/ to \in online /\ TransferFunds(w, from, to, amount)[to] = MaxBalance
  <1>1. -amount \in Int
    OBVIOUS
  <1> DEFINE w1 == Altered(w, from, -amount)
  <1>2. w1 \in Balances
    BY <1>1, AlteredType
  <1>3. w1[to] = w[to]
    BY DEF Altered, Balances
  <1>4. ~ Fails(w, from, -amount) /\ ~ Fails(w1, to, amount)
    BY DEF TransferThrows
  <1>5. TransferFunds(w, from, to, amount) = Altered(w1, to, amount)
    BY <1>4 DEF TransferFunds
  <1> HIDE DEF w1
  <1>6. Altered(w1, to, amount) = [w1 EXCEPT ![to] = Credited(w1, to, amount)]
    BY <1>4 DEF Altered
  <1>7. \/ Credited(w1, to, amount) = w1[to] + amount
        \/ to \in online /\ Credited(w1, to, amount) = MaxBalance
    BY <1>2, CreditedIs
  <1>8. TransferFunds(w, from, to, amount)[to] = Credited(w1, to, amount)
    BY <1>2, <1>5, <1>6 DEF Balances
  <1> QED BY <1>3, <1>7, <1>8

\* A payment to an NPC corporation touches no other character.
LEMMA TransferElsewhere ==
    ASSUME NEW STATE w, w \in Balances, NEW STATE from, NEW STATE amount, amount \in Int,
           NEW STATE s, s \in Players, from # s
    PROVE  TransferFunds(w, from, Npc, amount)[s] = w[s]
  <1>1. Npc # s
    BY ConstantTypes
  <1> QED BY <1>1 DEF TransferFunds, Altered, Balances

-----------------------------------------------------------------------------
(* The parts of a call.                                                     *)

LEMMA RowType ==
    ASSUME TypeOK, NEW o \in Ids, Placed(o)
    PROVE  /\ orders[o] \in Order
           /\ orders[o].price \in Prices /\ orders[o].price \in Int
           /\ orders[o].vol \in Uint32 /\ orders[o].vol \in Nat
           /\ orders[o].entered \in Uint32 /\ orders[o].entered \in Nat
           /\ orders[o].owner \in Owners /\ orders[o].bid \in BOOLEAN
  BY ConstantTypes, SignsType DEF TypeOK, Placed, Order

\* What an invariant of the table says of the next state.
TableOK ==
    /\ orders' \in [Ids -> Order \cup {NoOrder}]
    /\ nextID' \in 1..(MaxOrders + 1)
    /\ OrderStands' /\ Unused' /\ BuyersKnown'

\* A new row at nextID.
LEMMA StoreKeeps ==
    ASSUME Inv, nextID \in Ids, NEW p \in Players, NEW bid \in BOOLEAN,
           NEW price \in Prices, NEW quantity \in Int32,
           orders' = StoreOrder(nextID, p, bid, price, quantity),
           nextID' = nextID + 1
    PROVE  /\ TableOK
           /\ orders[nextID] = NoOrder
           /\ orders'[nextID] # NoOrder
           /\ orders'[nextID].bid = bid /\ orders'[nextID].vol = Unsigned(quantity)
           /\ \A o \in Ids : o # nextID => orders'[o] = orders[o]
  <1> DEFINE row == [owner |-> p, bid |-> bid, price |-> price,
                     entered |-> Unsigned(quantity), vol |-> Unsigned(quantity)]
  <1>1. Unsigned(quantity) \in Uint32 /\ Unsigned(quantity) \in Nat
    BY SignsType
  <1>2. row \in Order
    BY <1>1, ConstantTypes DEF Order
  <1>3. row.vol = Unsigned(quantity) /\ row.entered = Unsigned(quantity)
        /\ row.bid = bid /\ row.owner = p
    OBVIOUS
  <1>4. orders' = [orders EXCEPT ![nextID] = row]
    BY DEF StoreOrder
  <1>5. row # NoOrder
    BY <1>2, ConstantTypes
  <1> HIDE DEF row
  <1>6. orders \in [Ids -> Order \cup {NoOrder}] /\ nextID \in Nat
    BY ConstantTypes DEF Inv, TypeOK
  <1>7. orders' \in [Ids -> Order \cup {NoOrder}]
        /\ orders'[nextID] = row /\ \A o \in Ids : o # nextID => orders'[o] = orders[o]
    BY <1>2, <1>4, <1>6
  <1>8. nextID' \in 1..(MaxOrders + 1)
    BY ConstantTypes
  <1>9. OrderStands'
    BY <1>1, <1>3, <1>7 DEF Inv, OrderStands, Placed
  <1>10. Unused'
    BY <1>6, <1>7, ConstantTypes DEF Inv, Unused
  <1>11. BuyersKnown'
    BY <1>3, <1>7 DEF Inv, BuyersKnown, Placed
  <1>12. orders[nextID] = NoOrder
    BY <1>6 DEF Inv, Unused
  <1> QED BY <1>3, <1>5, <1>7, <1>8, <1>9, <1>10, <1>11, <1>12 DEF TableOK

LEMMA DeleteKeeps ==
    ASSUME Inv, NEW o \in Ids, orders' = DeleteOrder(o), nextID' = nextID
    PROVE  /\ TableOK
           /\ orders'[o] = NoOrder
           /\ \A x \in Ids : x # o => orders'[x] = orders[x]
  <1>1. orders \in [Ids -> Order \cup {NoOrder}] /\ nextID \in 1..(MaxOrders + 1)
    BY DEF Inv, TypeOK
  <1>2. orders' = [orders EXCEPT ![o] = NoOrder]
    BY DEF DeleteOrder
  <1> QED BY <1>1, <1>2 DEF Inv, OrderStands, Unused, BuyersKnown, Placed, TableOK

\* A row replaced by one of the same owner and kind.
LEMMA ReplaceKeeps ==
    ASSUME Inv, NEW o \in Ids, Placed(o), NEW row \in Order,
           row.vol <= row.entered,
           row.owner = orders[o].owner, row.bid = orders[o].bid,
           orders' = [orders EXCEPT ![o] = row], nextID' = nextID
    PROVE  /\ TableOK
           /\ orders'[o] = row /\ row # NoOrder
           /\ \A x \in Ids : x # o => orders'[x] = orders[x]
  <1>1. orders \in [Ids -> Order \cup {NoOrder}] /\ nextID \in 1..(MaxOrders + 1)
    BY DEF Inv, TypeOK
  <1>2. row # NoOrder
    BY ConstantTypes
  <1>3. orders' \in [Ids -> Order \cup {NoOrder}]
        /\ orders'[o] = row /\ \A x \in Ids : x # o => orders'[x] = orders[x]
    BY <1>1
  <1>4. OrderStands'
    BY <1>3 DEF Inv, OrderStands, Placed
  <1>5. Unused'
    BY <1>3 DEF Inv, Unused, Placed
  <1>6. BuyersKnown'
    BY <1>3 DEF Inv, BuyersKnown, Placed
  <1> QED BY <1>1, <1>2, <1>3, <1>4, <1>5, <1>6 DEF TableOK

LEMMA BoughtKeeps ==
    ASSUME Inv, NEW o \in Ids, Placed(o), NEW q \in Nat, orders[o].vol >= q,
           orders' = Bought(o, q), nextID' = nextID
    PROVE  /\ TableOK
           /\ LeftIn(orders'[o]) = orders[o].vol - q
           /\ orders'[o] = NoOrder \/ orders'[o].bid = orders[o].bid
           /\ \A x \in Ids : x # o => orders'[x] = orders[x]
  <1>1. /\ orders[o] \in Order /\ orders[o].vol \in Nat /\ orders[o].entered \in Nat
        /\ orders[o].vol \in Uint32
    BY RowType DEF Inv
  <1>2. CASE orders[o].vol = q
    <2>1. orders' = DeleteOrder(o)
      BY <1>2 DEF Bought
    <2>2. /\ TableOK /\ orders'[o] = NoOrder
          /\ \A x \in Ids : x # o => orders'[x] = orders[x]
      BY <2>1, DeleteKeeps
    <2> QED BY <1>1, <1>2, <2>2 DEF LeftIn
  <1>3. CASE orders[o].vol # q
    <2> DEFINE row == [orders[o] EXCEPT !.vol = @ - q]
    <2>1. orders[o].vol - q \in Uint32
      BY <1>1, ConstantTypes DEF Uint32
    <2>2. row \in Order /\ row.vol = orders[o].vol - q /\ row.bid = orders[o].bid
          /\ row.entered = orders[o].entered /\ row.owner = orders[o].owner
      BY <1>1, <2>1 DEF Order
    <2>3. orders' = [orders EXCEPT ![o] = row]
      BY <1>3 DEF Bought
    <2>4. orders[o].vol <= orders[o].entered
      BY DEF Inv, OrderStands
    <2> HIDE DEF row
    <2>5. row.vol <= row.entered
      BY <1>1, <2>2, <2>4
    <2>6. /\ TableOK
          /\ orders'[o] = row /\ row # NoOrder
          /\ \A x \in Ids : x # o => orders'[x] = orders[x]
      BY <2>2, <2>3, <2>5, ReplaceKeeps
    <2> QED BY <2>2, <2>6 DEF LeftIn
  <1> QED BY <1>2, <1>3

LEMMA RepricedKeeps ==
    ASSUME Inv, NEW o \in Ids, Placed(o), NEW newPrice \in Prices,
           orders' = [orders EXCEPT ![o].price = newPrice],
           nextID' = nextID
    PROVE  /\ TableOK
           /\ orders'[o] # NoOrder
           /\ orders'[o].vol = orders[o].vol /\ orders'[o].bid = orders[o].bid
           /\ \A x \in Ids : x # o => orders'[x] = orders[x]
  <1> DEFINE row == [orders[o] EXCEPT !.price = newPrice]
  <1>1. orders[o] \in Order
    BY RowType DEF Inv
  <1>2. row \in Order /\ row.vol = orders[o].vol /\ row.bid = orders[o].bid
        /\ row.entered = orders[o].entered /\ row.owner = orders[o].owner
    BY <1>1 DEF Order
  <1>3. orders[o].vol <= orders[o].entered
    BY DEF Inv, OrderStands
  <1>4. orders' = [orders EXCEPT ![o] = row]
    OBVIOUS
  <1> HIDE DEF row
  <1>5. row.vol <= row.entered
    BY <1>2, <1>3
  <1>6. /\ TableOK
        /\ orders'[o] = row /\ row # NoOrder
        /\ \A x \in Ids : x # o => orders'[x] = orders[x]
    BY <1>2, <1>4, <1>5, ReplaceKeeps
  <1> QED BY <1>2, <1>6

\* What the searches return.
LEMMA FoundSell ==
    ASSUME NEW STATE price, price \in Int, NEW STATE quantity,
           NEW STATE o, o \in FindSellOrder(price, quantity), Inv
    PROVE  /\ o \in Ids /\ Placed(o) /\ ~ orders[o].bid
           /\ orders[o].vol >= quantity
           /\ 2 * orders[o].price < 2 * price + 3 * Unit
  <1>1. /\ o \in Ids /\ Placed(o) /\ ~ orders[o].bid
        /\ orders[o].vol >= quantity
        /\ orders[o].price < Whole(price + Unit)
    BY DEF FindSellOrder, SellOrders
  <1>2. price + Unit \in Int /\ Unit \in Int /\ orders[o].price \in Int
    BY <1>1, RowType, ConstantTypes DEF Inv
  <1>3. Whole(price + Unit) \in Int
        /\ 2 * Whole(price + Unit) <= 2 * (price + Unit) + Unit
    BY <1>2, WholeNear
  <1> QED BY <1>1, <1>2, <1>3

LEMMA FoundBuy ==
    ASSUME NEW STATE price, price \in Int, NEW STATE quantity,
           NEW STATE o, o \in FindBuyOrder(price, quantity), Inv
    PROVE  /\ o \in Ids /\ Placed(o) /\ orders[o].bid
           /\ orders[o].vol >= quantity
           /\ 2 * price < 2 * orders[o].price + 3 * Unit
  <1>1. /\ o \in Ids /\ Placed(o) /\ orders[o].bid
        /\ orders[o].vol >= quantity
        /\ orders[o].price > Whole(price - Unit)
    BY DEF FindBuyOrder, BuyOrders
  <1>2. price - Unit \in Int /\ Unit \in Int /\ orders[o].price \in Int
    BY <1>1, RowType, ConstantTypes DEF Inv
  <1>3. Whole(price - Unit) \in Int
        /\ 2 * (price - Unit) - Unit <= 2 * Whole(price - Unit)
    BY <1>2, WholeNear
  <1> QED BY <1>1, <1>2, <1>3

-----------------------------------------------------------------------------
(* What each call does to the invariant, to balances and to the escrow.     *)

KeepsAbove ==
    \A p \in Players : wallet'[p] < wallet[p] /\ wallet'[p] < 0 => p \notin online

DrawsOnce ==
    drawn' > 0 => \E o \in Ids :
        /\ Placed(o) /\ orders[o].bid
        /\ orders'[o] = NoOrder \/ Short
        /\ 2 * drawn' < (2 * orders[o].price + 3 * Unit) * orders[o].vol

Good == Inv' /\ KeepsAbove /\ DrawsOnce

LEMMA WalletType ==
    ASSUME Inv
    PROVE  wallet \in Balances /\ hangar \in [Players -> Nat]
  BY DEF Inv, TypeOK, Balances

\* Two payments in a row, the second one made or not.
LEMMA TwiceOnline ==
    ASSUME Inv, NEW STATE a, NEW STATE b, NEW STATE m, m \in Int,
           NEW STATE c, NEW STATE d, NEW STATE n, n \in Int,
           \/ wallet' = TransferFunds(wallet, a, b, m)
           \/ wallet' = TransferFunds(TransferFunds(wallet, a, b, m), c, d, n)
    PROVE  wallet' \in [Players -> Int] /\ KeepsAbove
  <1> DEFINE w == TransferFunds(wallet, a, b, m)
             v == TransferFunds(w, c, d, n)
  <1>1. wallet \in Balances
    BY WalletType
  <1>2. w \in Balances
    BY <1>1, TransferType
  <1>3. \A p \in Players : p \in online => w[p] = wallet[p] \/ w[p] >= 0
    BY <1>1, TransferOnline
  <1>4. wallet' = w \/ wallet' = v
    OBVIOUS
  <1> HIDE DEF w
  <1>5. v \in Balances
    BY <1>2, TransferType
  <1>6. \A p \in Players : p \in online => v[p] = w[p] \/ v[p] >= 0
    BY <1>2, TransferOnline
  <1> HIDE DEF v
  <1>7. wallet' \in Balances
    BY <1>2, <1>4, <1>5
  <1>8. KeepsAbove
    <2> SUFFICES ASSUME NEW p \in Players, wallet'[p] < wallet[p], wallet'[p] < 0,
                        p \in online
                 PROVE  FALSE
      BY DEF KeepsAbove
    <2>1. wallet[p] \in Int /\ w[p] \in Int /\ v[p] \in Int
      BY <1>1, <1>2, <1>5 DEF Balances
    <2> QED BY <2>1, <1>3, <1>4, <1>6
  <1> QED BY <1>7, <1>8 DEF Balances

\* A balance that does not change.
LEMMA WalletKept ==
    ASSUME Inv, wallet' = wallet
    PROVE  wallet' \in [Players -> Int] /\ KeepsAbove
  BY WalletType DEF KeepsAbove, Balances

\* The invariant, when no sale is under way afterwards.
LEMMA IdleInv ==
    ASSUME Inv, TableOK, online' \subseteq Players, sale' = NoSale,
           hangar' \in [Players -> Nat], wallet' \in [Players -> Int], drawn' \in Int
    PROVE  Inv'
  BY DEF Inv, TypeOK, TableOK

LEMMA TableSame ==
    ASSUME Inv, orders' = orders, nextID' = nextID
    PROVE  TableOK
  BY DEF Inv, TypeOK, TableOK, OrderStands, Unused, BuyersKnown, Placed

LEMMA SpawnedType ==
    ASSUME Inv, NEW p \in Players, NEW q \in Int
    PROVE  Spawned(p, q) \in [Players -> Nat]
  <1>1. CASE q > 0
    <2>1. Spawned(p, q) = [hangar EXCEPT ![p] = @ + q]
      BY <1>1 DEF Spawned
    <2>2. hangar[p] + q \in Nat
      BY <1>1, WalletType
    <2> QED BY <2>1, <2>2, WalletType
  <1>2. CASE ~ q > 0
    BY <1>2, WalletType DEF Spawned
  <1> QED BY <1>1, <1>2

LEMMA ChargesType ==
    ASSUME NEW money, NEW fee \in Charges(money)
    PROVE  fee \in Int
  BY ConstantTypes DEF Charges

LEMMA PlaceBuyGood ==
    ASSUME Inv, NEW p \in Players, NEW price \in Prices, NEW quantity \in Int32,
           NEW fee, PlaceBuyOrder(p, price, quantity, fee)
    PROVE  Good
  <1> DEFINE money == price * quantity
  <1>1. money \in Int /\ fee \in Int
    <2>1. price \in Int /\ quantity \in Int
      BY ConstantTypes, SignsType
    <2>2. fee \in Charges(money)
      BY DEF PlaceBuyOrder
    <2> QED BY <2>1, <2>2, ProductInt, ChargesType
  <1>2. /\ nextID \in Ids /\ sale = NoSale
        /\ orders' = StoreOrder(nextID, p, TRUE, price, quantity)
        /\ nextID' = nextID + 1 /\ drawn' = 0
        /\ UNCHANGED <<online, sale, hangar>>
        /\ \/ wallet' = TransferFunds(wallet, p, Npc, fee)
           \/ wallet' = TransferFunds(TransferFunds(wallet, p, Npc, fee), p, Npc, money)
    BY DEF PlaceBuyOrder, Calls
  <1> HIDE DEF money
  <1>3. wallet' \in [Players -> Int] /\ KeepsAbove
    <2>1. CASE wallet' = TransferFunds(wallet, p, Npc, fee)
      BY <1>1, <2>1, TwiceOnline
    <2>2. CASE wallet' = TransferFunds(TransferFunds(wallet, p, Npc, fee), p, Npc, money)
      BY <1>1, <2>2, TwiceOnline
    <2> QED BY <1>2, <2>1, <2>2
  <1>4. TableOK
    BY <1>2, StoreKeeps
  <1>5. online' \subseteq Players /\ hangar' \in [Players -> Nat] /\ sale' = NoSale
    BY <1>2 DEF Inv, TypeOK
  <1>6. Inv'
    BY <1>2, <1>3, <1>4, <1>5, IdleInv
  <1>7. DrawsOnce
    BY <1>2 DEF DrawsOnce
  <1> QED BY <1>3, <1>6, <1>7 DEF Good

\* What a standing sale takes out of the hangar is there.
LEMMA StackType ==
    ASSUME Inv, NEW p \in Players, NEW stack \in Stacks(p)
    PROVE  stack \in Nat /\ stack >= 1 /\ stack < Half /\ stack <= hangar[p]
  BY ConstantTypes DEF Stacks

LEMMA PlaceSellGood ==
    ASSUME Inv, NEW p \in Players, NEW bid \in BOOLEAN, NEW price \in Prices,
           NEW quantity \in Int32, NEW stack, NEW fee,
           PlaceSellOrder(p, bid, price, quantity, stack, fee)
    PROVE  Good
  <1> DEFINE q == IF stack - quantity >= Half THEN stack ELSE quantity
  <1>1. /\ nextID \in Ids /\ sale = NoSale
        /\ stack \in Stacks(p) /\ quantity <= stack
        /\ fee \in Charges(price * quantity)
        /\ orders' = StoreOrder(nextID, p, bid, price, quantity)
        /\ nextID' = nextID + 1 /\ drawn' = 0
        /\ hangar' = [hangar EXCEPT ![p] = @ - q]
        /\ wallet' = wallet \/ wallet' = TransferFunds(wallet, p, Npc, fee)
        /\ UNCHANGED <<online, sale>>
    BY DEF PlaceSellOrder, Calls
  <1>2. wallet' \in [Players -> Int] /\ KeepsAbove
    <2>1. fee \in Int
      BY <1>1, ChargesType
    <2>2. CASE wallet' = wallet
      BY <2>2, WalletKept
    <2>3. CASE wallet' = TransferFunds(wallet, p, Npc, fee)
      BY <2>1, <2>3, TwiceOnline
    <2> QED BY <1>1, <2>2, <2>3
  <1>3. q \in Int /\ q <= hangar[p]
    <2>1. stack \in Nat /\ stack <= hangar[p] /\ quantity \in Int
      BY <1>1, StackType, SignsType
    <2>2. hangar[p] \in Nat
      BY WalletType
    <2> QED BY <1>1, <2>1, <2>2
  <1> HIDE DEF q
  <1>4. hangar' \in [Players -> Nat]
    <2>1. hangar[p] - q \in Nat
      BY <1>3, WalletType
    <2> QED BY <1>1, <2>1, WalletType
  <1>5. TableOK
    BY <1>1, StoreKeeps
  <1>6. online' \subseteq Players /\ sale' = NoSale
    BY <1>1 DEF Inv, TypeOK
  <1>7. Inv'
    BY <1>1, <1>2, <1>4, <1>5, <1>6, IdleInv
  <1>8. DrawsOnce
    BY <1>1 DEF DrawsOnce
  <1> QED BY <1>2, <1>7, <1>8 DEF Good

\* The clamped quantity is one the order has, without its sign; when it is an
\* int32 in range, it has none.
LEMMA ClampedIs ==
    ASSUME Inv, NEW STATE o, o \in Ids, Placed(o), NEW quantity \in Int32
    PROVE  LET n == Clamped(o, quantity)
           IN  /\ n \in Int32 /\ n \in Int
               /\ Unsigned(n) \in Nat /\ Unsigned(n) <= orders[o].vol
               /\ n < 0 => Unsigned(n) >= Half
               /\ n >= 0 => Unsigned(n) = n
  <1>1. orders[o].vol \in Uint32 /\ Half \in Nat \ {0}
    BY RowType, ConstantTypes DEF Inv
  <1> DEFINE n == Clamped(o, quantity)
             v == orders[o].vol
  <1>2. n = IF Unsigned(quantity) > v THEN Signed(v) ELSE quantity
    BY DEF Clamped
  <1> HIDE DEF n, v
  <1>3. v \in Uint32
    BY <1>1 DEF v
  <1>4. n \in Int32 /\ Unsigned(n) <= v
    <2>1. CASE Unsigned(quantity) > v
      <3>1. n \in Int32 /\ Unsigned(n) = v
        BY <1>2, <1>3, <2>1, SignsType
      <3> QED BY <1>3, <3>1, SignsType
    <2>2. CASE ~ Unsigned(quantity) > v
      <3>1. Unsigned(quantity) \in Uint32 /\ n = quantity
        BY <1>2, <2>2, SignsType
      <3>2. Unsigned(quantity) \in Int /\ v \in Int
        BY <1>3, <3>1 DEF Uint32
      <3> QED BY <2>2, <3>1, <3>2
    <2> QED BY <2>1, <2>2
  <1>5. n < 0 => Unsigned(n) >= Half
    BY <1>1, <1>4 DEF Int32, Unsigned
  <1>6. n >= 0 => Unsigned(n) = n
    BY <1>1, <1>4 DEF Int32, Unsigned
  <1>7. n \in Int /\ Unsigned(n) \in Nat
    BY <1>4, SignsType
  <1> QED BY <1>4, <1>5, <1>6, <1>7 DEF n, v

\* The tax that the buyer pays after the price does not touch the owner, and
\* nothing leaves the order before both are paid.
LEMMA BuyNowDoes ==
    ASSUME Inv, NEW p \in Players, NEW price \in Prices, NEW quantity \in Int32,
           NEW tax, BuyNow(p, price, quantity, tax)
    PROVE  \E o \in Ids, n \in Int32 :
             /\ Placed(o) /\ ~ orders[o].bid
             /\ 2 * orders[o].price < 2 * price + 3 * Unit
             /\ Unsigned(n) \in Nat /\ Unsigned(n) <= orders[o].vol
             /\ n < 0 => Unsigned(n) >= Half
             /\ n >= 0 => Unsigned(n) = n
             /\ sale = NoSale /\ drawn' = 0 /\ UNCHANGED <<online, nextID, sale>>
             /\ wallet' \in [Players -> Int] /\ KeepsAbove
             /\ \/ UNCHANGED <<hangar, orders>>
                \/ /\ n # 0
                   /\ hangar' = Spawned(p, n)
                   /\ orders' = Bought(o, Unsigned(n))
                   /\ ~ TransferThrows(wallet, p, orders[o].owner, price * n)
                   /\ wallet' = TransferFunds(
                                  TransferFunds(wallet, p, orders[o].owner, price * n),
                                  p, Npc, tax)
                   /\ tax \in Int /\ price * n \in Int
  <1>1. PICK o \in FindSellOrder(price, quantity) :
          LET n == Clamped(o, quantity)
              money == price * n
              w == TransferFunds(wallet, p, orders[o].owner, money)
              unpaid == TransferThrows(wallet, p, orders[o].owner, money)
              throws == unpaid \/ TransferThrows(w, p, Npc, tax)
          IN  /\ Calls(p)
              /\ tax \in Charges(money)
              /\ wallet' = IF unpaid THEN w ELSE TransferFunds(w, p, Npc, tax)
              /\ hangar' = IF throws THEN hangar ELSE Spawned(p, n)
              /\ orders' = IF throws \/ n = 0 THEN orders ELSE Bought(o, Unsigned(n))
              /\ drawn' = 0
              /\ UNCHANGED <<online, nextID, sale>>
    BY DEF BuyNow
  <1> DEFINE n == Clamped(o, quantity)
             money == price * n
             s == orders[o].owner
             w == TransferFunds(wallet, p, s, money)
             unpaid == TransferThrows(wallet, p, s, money)
             throws == unpaid \/ TransferThrows(w, p, Npc, tax)
  <1>2. /\ o \in Ids /\ Placed(o) /\ ~ orders[o].bid
        /\ 2 * orders[o].price < 2 * price + 3 * Unit
    BY FoundSell, ConstantTypes
  <1>3. /\ n \in Int32 /\ n \in Int
        /\ Unsigned(n) \in Nat /\ Unsigned(n) <= orders[o].vol
        /\ n < 0 => Unsigned(n) >= Half
        /\ n >= 0 => Unsigned(n) = n
    BY <1>2, ClampedIs
  <1>4. /\ Calls(p)
        /\ tax \in Charges(money)
        /\ wallet' = IF unpaid THEN w ELSE TransferFunds(w, p, Npc, tax)
        /\ hangar' = IF throws THEN hangar ELSE Spawned(p, n)
        /\ orders' = IF throws \/ n = 0 THEN orders ELSE Bought(o, Unsigned(n))
        /\ drawn' = 0
        /\ UNCHANGED <<online, nextID, sale>>
    BY <1>1
  <1> HIDE DEF n
  <1>5. money \in Int /\ tax \in Int
    BY <1>3, <1>4, ProductInt, ConstantTypes, ChargesType
  <1>6. wallet' \in [Players -> Int] /\ KeepsAbove
    <2> HIDE DEF money, s, unpaid, throws
    <2>1. CASE wallet' = w
      BY <1>5, <2>1, TwiceOnline
    <2>2. CASE wallet' = TransferFunds(w, p, Npc, tax)
      BY <1>5, <2>2, TwiceOnline
    <2> QED BY <1>4, <2>1, <2>2
  <1>7. \/ UNCHANGED <<hangar, orders>>
        \/ /\ n # 0
           /\ hangar' = Spawned(p, n)
           /\ orders' = Bought(o, Unsigned(n))
           /\ ~ TransferThrows(wallet, p, orders[o].owner, price * n)
           /\ wallet' = TransferFunds(
                          TransferFunds(wallet, p, orders[o].owner, price * n),
                          p, Npc, tax)
           /\ tax \in Int /\ price * n \in Int
    <2>1. CASE throws
      BY <1>4, <2>1
    <2>2. CASE ~ throws /\ n = 0
      BY <1>4, <2>2 DEF Spawned
    <2>3. CASE ~ throws /\ n # 0
      BY <1>4, <1>5, <2>3
    <2> QED BY <2>1, <2>2, <2>3
  <1>8. sale = NoSale
    BY <1>4 DEF Calls
  <1> HIDE DEF money, s, w, unpaid, throws
  <1> QED BY <1>2, <1>3, <1>4, <1>6, <1>7, <1>8

LEMMA BuyNowGood ==
    ASSUME Inv, NEW p \in Players, NEW price \in Prices, NEW quantity \in Int32,
           NEW tax, BuyNow(p, price, quantity, tax)
    PROVE  Good
  <1>1. PICK o \in Ids, n \in Int32 :
          /\ Placed(o) /\ Unsigned(n) \in Nat /\ Unsigned(n) <= orders[o].vol
          /\ sale = NoSale /\ drawn' = 0 /\ UNCHANGED <<online, nextID, sale>>
          /\ wallet' \in [Players -> Int] /\ KeepsAbove
          /\ \/ UNCHANGED <<hangar, orders>>
             \/ hangar' = Spawned(p, n) /\ orders' = Bought(o, Unsigned(n))
    BY BuyNowDoes
  <1>2. TableOK
    <2>1. orders[o].vol >= Unsigned(n)
      BY <1>1, RowType DEF Inv
    <2>2. CASE orders' = Bought(o, Unsigned(n))
      BY <1>1, <2>1, <2>2, BoughtKeeps
    <2>3. CASE orders' = orders
      BY <1>1, <2>3, TableSame
    <2> QED BY <1>1, <2>2, <2>3
  <1>3. hangar' \in [Players -> Nat]
    <2>1. n \in Int
      BY SignsType
    <2> QED BY <1>1, <2>1, SpawnedType, WalletType
  <1>4. Inv'
    <2>1. online' \subseteq Players /\ sale' = NoSale
      BY <1>1 DEF Inv, TypeOK
    <2> QED BY <1>1, <1>2, <1>3, <2>1, IdleInv
  <1> QED BY <1>1, <1>4 DEF Good, DrawsOnce

LEMMA SellNowGood ==
    ASSUME Inv, NEW p \in Players, NEW price \in Prices, NEW quantity \in Int32,
           NEW stack, SellNow(p, price, quantity, stack)
    PROVE  Good
  <1>1. /\ stack \in Stacks(p) /\ drawn' = 0
        /\ sale' = [seller |-> p, price |-> price, quantity |-> quantity, stack |-> stack]
        /\ UNCHANGED <<online, orders, nextID, hangar, wallet>>
    BY DEF SellNow
  <1>2. stack \in Nat /\ stack \in 1..hangar[p]
    <2>1. stack \in Nat /\ stack >= 1 /\ stack <= hangar[p] /\ hangar[p] \in Nat
      BY <1>1, StackType, WalletType
    <2> QED BY <2>1
  <1>3. sale' \in Sale /\ sale'.stack \in 1..hangar'[sale'.seller]
    BY <1>1, <1>2 DEF Sale
  <1>4. Inv'
    BY <1>1, <1>3 DEF Inv, TypeOK, OrderStands, Unused, BuyersKnown, Placed
  <1>5. KeepsAbove /\ DrawsOnce
    BY <1>1, WalletKept DEF DrawsOnce
  <1> QED BY <1>4, <1>5 DEF Good

\* A turn of a sale, in parts: what is handed over, and what is paid for it.
LEMMA TurnDoes ==
    ASSUME Inv, NEW o \in Ids, NEW tax, ExecuteBuyOrder(o, tax)
    PROVE  LET p == sale.seller
               given == IF sale.stack < sale.quantity THEN sale.stack ELSE sale.quantity
           IN  /\ sale \in Sale /\ p \in Players
               /\ Placed(o) /\ orders[o].bid /\ orders[o].owner \in Players
               /\ 2 * sale.price < 2 * orders[o].price + 3 * Unit
               /\ orders[o].vol >= sale.quantity /\ sale.quantity \in 1..(Half - 1)
               /\ given \in 1..(Half - 1) /\ given <= hangar[p] /\ given <= orders[o].vol
               /\ hangar' = [[hangar EXCEPT ![p] = @ - given]
                               EXCEPT ![orders[o].owner] = @ + given]
               /\ orders' = orders \/ orders' = DeleteOrder(o)
               /\ UNCHANGED <<online, nextID>>
  <1>1. sale \in Sale /\ sale.stack \in 1..hangar[sale.seller]
    BY DEF ExecuteBuyOrder, Inv, TypeOK
  <1>2. /\ sale.seller \in Players /\ sale.price \in Prices /\ sale.price \in Int
        /\ sale.quantity \in Int32 /\ sale.stack \in Nat
    BY <1>1, ConstantTypes DEF Sale
  <1>3. o \in FindBuyOrder(sale.price, sale.quantity) /\ sale.quantity > 0
    BY DEF ExecuteBuyOrder
  <1>4. /\ Placed(o) /\ orders[o].bid /\ orders[o].vol >= sale.quantity
        /\ 2 * sale.price < 2 * orders[o].price + 3 * Unit
    BY <1>2, <1>3, FoundBuy
  <1>5. orders[o].owner \in Players /\ orders[o].vol \in Nat
    BY <1>4, RowType DEF Inv, BuyersKnown
  <1>6. sale.quantity \in 1..(Half - 1)
    BY <1>2, <1>3, ConstantTypes DEF Int32
  <1> DEFINE given == IF sale.stack < sale.quantity THEN sale.stack ELSE sale.quantity
  <1>7. given \in 1..(Half - 1) /\ given <= hangar[sale.seller] /\ given <= orders[o].vol
    <2>1. hangar[sale.seller] \in Nat /\ Half \in Nat
      BY <1>2, WalletType, ConstantTypes
    <2> QED BY <1>1, <1>2, <1>4, <1>5, <1>6, <2>1
  <1>8. /\ hangar' = [[hangar EXCEPT ![sale.seller] = @ - given]
                        EXCEPT ![orders[o].owner] = @ + given]
        /\ orders' = orders \/ orders' = DeleteOrder(o)
        /\ UNCHANGED <<online, nextID>>
    BY DEF ExecuteBuyOrder
  <1> HIDE DEF given
  <1>9. /\ sale \in Sale /\ sale.seller \in Players
        /\ Placed(o) /\ orders[o].bid /\ orders[o].owner \in Players
        /\ 2 * sale.price < 2 * orders[o].price + 3 * Unit
        /\ orders[o].vol >= sale.quantity /\ sale.quantity \in 1..(Half - 1)
        /\ given \in 1..(Half - 1) /\ given <= hangar[sale.seller] /\ given <= orders[o].vol
        /\ hangar' = [[hangar EXCEPT ![sale.seller] = @ - given]
                        EXCEPT ![orders[o].owner] = @ + given]
        /\ orders' = orders \/ orders' = DeleteOrder(o)
        /\ UNCHANGED <<online, nextID>>
    BY <1>1, <1>2, <1>4, <1>5, <1>6, <1>7, <1>8
  <1> QED BY <1>9 DEF given

\* The payment out of escrow is for no more than the whole order, at a price
\* that the search found.
LEMMA DrawBounded ==
    ASSUME NEW ask \in Int, NEW bid \in Int, NEW sold \in Nat, NEW vol \in Nat,
           sold <= vol, vol >= 1, 2 * ask < 2 * bid + 3 * Unit, ask * sold > 0
    PROVE  2 * (ask * sold) < (2 * bid + 3 * Unit) * vol
  <1>1. ask > 0
    <2> SUFFICES ASSUME ask <= 0 PROVE FALSE
      OBVIOUS
    <2>1. ask * sold <= 0 * sold
      BY TimesMore
    <2>2. ask * sold \in Int /\ 0 * sold = 0
      BY ProductInt
    <2> QED BY <2>1, <2>2
  <1>2. ask * sold <= ask * vol
    <2>1. sold * ask <= vol * ask
      BY <1>1, TimesMore
    <2> QED BY <2>1
  <1> DEFINE b == 2 * bid + 3 * Unit
  <1>3. b \in Int /\ 2 * ask \in Int /\ 2 * ask < b
    BY ConstantTypes
  <1> HIDE DEF b
  <1>4. (2 * ask) * vol < b * vol
    BY <1>3, TimesLess
  <1>5. (2 * ask) * vol = 2 * (ask * vol)
    OBVIOUS
  <1>6. ask * sold \in Int /\ ask * vol \in Int /\ b * vol \in Int
    BY <1>3, ProductInt
  <1>7. 2 * (ask * sold) < b * vol
    BY <1>2, <1>4, <1>5, <1>6
  <1> QED BY <1>7 DEF b

LEMMA TurnDraws ==
    ASSUME Inv, NEW o \in Ids, NEW tax, ExecuteBuyOrder(o, tax)
    PROVE  DrawsOnce /\ drawn' \in Int /\ KeepsAbove /\ wallet' \in [Players -> Int]
  <1> DEFINE over == sale.stack > sale.quantity
             sold == IF over THEN orders[o].vol ELSE sale.quantity
             money == sale.price * sold
             w == TransferFunds(wallet, orders[o].owner, Npc, tax)
             untaxed == TransferThrows(wallet, orders[o].owner, Npc, tax)
             throws == untaxed \/ TransferThrows(w, Npc, sale.seller, money)
  <1>1. /\ tax \in Charges(money)
        /\ wallet' = IF untaxed THEN w ELSE TransferFunds(w, Npc, sale.seller, money)
        /\ drawn' = IF throws THEN 0 ELSE money
        /\ orders' = IF throws \/ sale.stack < sale.quantity
                     THEN orders ELSE DeleteOrder(o)
        /\ sale # NoSale
    BY DEF ExecuteBuyOrder
  <1>2. /\ Placed(o) /\ orders[o].bid
        /\ 2 * sale.price < 2 * orders[o].price + 3 * Unit
        /\ orders[o].vol >= sale.quantity /\ sale.quantity \in 1..(Half - 1)
        /\ sale \in Sale
    BY TurnDoes
  <1>3. /\ orders[o].vol \in Nat /\ orders[o].price \in Int
        /\ sale.price \in Int /\ sale.quantity \in Nat /\ sale.quantity >= 1
    <2>1. orders[o].vol \in Nat /\ orders[o].price \in Int
      BY <1>2, RowType DEF Inv
    <2>2. sale.price \in Int
      BY <1>2, ConstantTypes DEF Sale
    <2>3. sale.quantity \in Nat /\ sale.quantity >= 1
      BY <1>2, ConstantTypes
    <2> QED BY <2>1, <2>2, <2>3
  <1>4. sold \in Nat /\ sold <= orders[o].vol /\ orders[o].vol >= 1
    BY <1>2, <1>3
  <1> HIDE DEF sold
  <1>5. money \in Int
    BY <1>3, <1>4, ProductInt
  <1>6. tax \in Int
    BY <1>1, ChargesType
  <1>7. KeepsAbove /\ wallet' \in [Players -> Int]
    <2> HIDE DEF money, untaxed
    <2>1. CASE wallet' = w
      BY <1>5, <1>6, <2>1, TwiceOnline
    <2>2. CASE wallet' = TransferFunds(w, Npc, sale.seller, money)
      BY <1>5, <1>6, <2>2, TwiceOnline
    <2> QED BY <1>1, <2>1, <2>2
  <1>8. DrawsOnce
    <2> SUFFICES ASSUME drawn' > 0
                 PROVE  /\ orders'[o] = NoOrder \/ Short
                        /\ 2 * drawn' < (2 * orders[o].price + 3 * Unit) * orders[o].vol
      BY <1>2 DEF DrawsOnce
    <2>1. ~ throws /\ drawn' = money
      BY <1>1
    <2>2. 2 * drawn' < (2 * orders[o].price + 3 * Unit) * orders[o].vol
      BY <1>2, <1>3, <1>4, <2>1, DrawBounded
    <2>3. orders'[o] = NoOrder \/ Short
      <3>1. CASE sale.stack < sale.quantity
        BY <1>1, <3>1 DEF Short
      <3>2. CASE ~ sale.stack < sale.quantity
        <4>1. orders' = DeleteOrder(o)
          BY <1>1, <2>1, <3>2
        <4> QED BY <4>1 DEF DeleteOrder, Inv, TypeOK
      <3> QED BY <3>1, <3>2
    <2> QED BY <2>2, <2>3
  <1>9. drawn' \in Int
    BY <1>1, <1>5
  <1> QED BY <1>7, <1>8, <1>9

\* A sale that goes on has units of its item left, and the hangar has them.
LEMMA TurnGoesOn ==
    ASSUME Inv, NEW o \in Ids, NEW tax, ExecuteBuyOrder(o, tax), sale' # NoSale,
           hangar' \in [Players -> Nat]
    PROVE  sale' \in Sale /\ sale'.stack \in 1..hangar'[sale'.seller]
  <1> DEFINE p == sale.seller
             quantity == sale.quantity
             given == IF sale.stack < quantity THEN sale.stack ELSE quantity
             over == sale.stack > quantity
             sold == IF over THEN orders[o].vol ELSE quantity
             left == IF over THEN Signed(Unsigned(quantity - sold)) ELSE 0
  <1>1. over /\ sale' = [sale EXCEPT !.quantity = left, !.stack = @ - given]
    <2>1. sale' = NoSale \/ (left # 0
              /\ sale' = [sale EXCEPT !.quantity = left, !.stack = @ - given])
      BY DEF ExecuteBuyOrder
    <2> QED BY <2>1
  <1>2. /\ sale \in Sale /\ p \in Players /\ Placed(o)
        /\ orders[o].vol >= quantity /\ quantity \in 1..(Half - 1)
        /\ hangar' = [[hangar EXCEPT ![p] = @ - given]
                        EXCEPT ![orders[o].owner] = @ + given]
        /\ orders[o].owner \in Players
    BY TurnDoes
  <1>3. /\ sale.stack \in Nat /\ sale.stack \in 1..hangar[p]
        /\ quantity \in Nat /\ orders[o].vol \in Uint32
        /\ Half \in Nat \ {0} /\ hangar \in [Players -> Nat]
    BY <1>2, RowType, WalletType, ConstantTypes DEF Inv, TypeOK, Sale
  <1>4. left \in Int32
    <2>1. quantity - orders[o].vol \in Int /\ quantity - orders[o].vol <= 0
          /\ quantity - orders[o].vol > -(2 * Half)
      BY <1>2, <1>3 DEF Uint32
    <2>2. Unsigned(quantity - orders[o].vol) \in Uint32
      BY <1>3, <2>1 DEF Unsigned, Uint32
    <2>3. left = Signed(Unsigned(quantity - orders[o].vol))
      BY <1>1
    <2> QED BY <2>2, <2>3, SignsType
  <1>5. given = quantity /\ sale.stack - given \in Nat /\ sale.stack - given >= 1
    BY <1>1, <1>3
  <1>6. sale' \in Sale /\ sale'.stack = sale.stack - given /\ sale'.seller = p
    <2> HIDE DEF left, given, over
    <2> QED BY <1>1, <1>2, <1>4, <1>5 DEF Sale
  <1>7. hangar'[p] >= hangar[p] - given
    <2> HIDE DEF given
    <2>1. given \in Nat /\ hangar[p] \in Nat
      BY <1>2, <1>3, <1>5
    <2> QED BY <1>2, <1>3, <2>1
  <1>8. hangar'[p] \in Nat /\ hangar[p] \in Nat
    BY <1>2, <1>3
  <1> HIDE DEF given, p, quantity
  <1> QED BY <1>3, <1>5, <1>6, <1>7, <1>8

LEMMA TurnGood ==
    ASSUME Inv, NEW o \in Ids, NEW tax, ExecuteBuyOrder(o, tax)
    PROVE  Good
  <1> DEFINE p == sale.seller
             given == IF sale.stack < sale.quantity THEN sale.stack ELSE sale.quantity
             taken == [hangar EXCEPT ![p] = @ - given]
  <1>1. /\ p \in Players /\ given \in 1..(Half - 1) /\ given <= hangar[p]
        /\ hangar' = [taken EXCEPT ![orders[o].owner] = @ + given]
        /\ orders' = orders \/ orders' = DeleteOrder(o)
        /\ UNCHANGED <<online, nextID>>
    BY TurnDoes
  <1>2. hangar' \in [Players -> Nat]
    <2> HIDE DEF given, p
    <2>1. given \in Nat /\ hangar[p] \in Nat /\ hangar[p] - given \in Nat
      BY <1>1, WalletType, ConstantTypes
    <2>2. taken \in [Players -> Nat]
      BY <2>1, WalletType
    <2> HIDE DEF taken
    <2>3. ASSUME NEW c \in Players PROVE hangar'[c] \in Nat
      BY <1>1, <2>1, <2>2
    <2> QED BY <1>1, <2>2, <2>3
  <1>3. TableOK
    <2>1. CASE orders' = orders
      BY <1>1, <2>1, TableSame
    <2>2. CASE orders' = DeleteOrder(o)
      BY <1>1, <2>2, DeleteKeeps
    <2> QED BY <1>1, <2>1, <2>2
  <1>4. DrawsOnce /\ drawn' \in Int /\ KeepsAbove /\ wallet' \in [Players -> Int]
    BY TurnDraws
  <1>5. sale' # NoSale => sale' \in Sale /\ sale'.stack \in 1..hangar'[sale'.seller]
    BY <1>2, TurnGoesOn
  <1>6. online' \subseteq Players
    BY <1>1 DEF Inv, TypeOK
  <1>7. Inv'
    BY <1>2, <1>3, <1>4, <1>5, <1>6 DEF Inv, TypeOK, TableOK
  <1> QED BY <1>4, <1>7 DEF Good

LEMMA ModifyGood ==
    ASSUME Inv, NEW p \in Players, NEW o \in Ids, NEW price \in Prices,
           NEW newPrice \in Prices, NEW volume \in Int32,
           ModifyCharOrder(p, o, price, newPrice, volume)
    PROVE  Good
  <1> DEFINE money == (price - newPrice) * volume
  <1>1. /\ Placed(o) /\ sale = NoSale
        /\ wallet' = TransferFunds(wallet, p, Npc, money)
        /\ orders' = [orders EXCEPT ![o].price = newPrice]
        /\ drawn' = 0
        /\ UNCHANGED <<online, nextID, sale, hangar>>
    BY DEF ModifyCharOrder, Calls
  <1>2. money \in Int
    <2>1. price - newPrice \in Int /\ volume \in Int
      <3>1. price \in Int /\ newPrice \in Int
        BY ConstantTypes
      <3> QED BY <3>1, SignsType
    <2> QED BY <2>1, ProductInt
  <1> HIDE DEF money
  <1>3. wallet' \in [Players -> Int] /\ KeepsAbove
    BY <1>1, <1>2, TwiceOnline
  <1>4. TableOK
    BY <1>1, RepricedKeeps
  <1>5. online' \subseteq Players /\ sale' = NoSale /\ hangar' \in [Players -> Nat]
    BY <1>1 DEF Inv, TypeOK
  <1>6. Inv'
    BY <1>1, <1>3, <1>4, <1>5, IdleInv
  <1> QED BY <1>1, <1>3, <1>6 DEF Good, DrawsOnce

LEMMA CancelBuyGood ==
    ASSUME Inv, NEW p \in Players, NEW o \in Ids, CancelBuyOrder(p, o)
    PROVE  Good
  <1> DEFINE money == orders[o].price * orders[o].vol
  <1>1. /\ Placed(o) /\ orders[o].bid /\ sale = NoSale
        /\ wallet' = TransferFunds(wallet, Npc, p, money)
        /\ drawn' = money
        /\ orders' = DeleteOrder(o)
        /\ UNCHANGED <<online, nextID, sale, hangar>>
    BY DEF CancelBuyOrder, Calls
  <1>2. /\ orders[o].price \in Int /\ orders[o].vol \in Nat
        /\ money \in Int
    BY <1>1, RowType, ProductInt DEF Inv
  <1>3. TableOK /\ orders'[o] = NoOrder
    BY <1>1, DeleteKeeps
  <1>4. DrawsOnce
    <2> SUFFICES ASSUME drawn' > 0
                 PROVE  2 * drawn' < (2 * orders[o].price + 3 * Unit) * orders[o].vol
      BY <1>1, <1>3 DEF DrawsOnce
    <2>1. orders[o].vol >= 1
      <3> SUFFICES ASSUME orders[o].vol = 0 PROVE FALSE
        BY <1>2
      <3> QED BY <1>1, <1>2
    <2>2. 2 * orders[o].price < 2 * orders[o].price + 3 * Unit
      BY <1>2, ConstantTypes
    <2> QED BY <1>1, <1>2, <2>1, <2>2, DrawBounded
  <1> HIDE DEF money
  <1>5. wallet' \in [Players -> Int] /\ KeepsAbove
    BY <1>1, <1>2, TwiceOnline
  <1>6. online' \subseteq Players /\ sale' = NoSale /\ hangar' \in [Players -> Nat]
    BY <1>1 DEF Inv, TypeOK
  <1>7. Inv'
    BY <1>1, <1>2, <1>3, <1>5, <1>6, IdleInv
  <1> QED BY <1>4, <1>5, <1>7 DEF Good

LEMMA CancelSellGood ==
    ASSUME Inv, NEW p \in Players, NEW o \in Ids, CancelSellOrder(p, o)
    PROVE  Good
  <1>1. /\ Placed(o) /\ sale = NoSale
        /\ hangar' = Spawned(p, Signed(orders[o].vol))
        /\ orders' = DeleteOrder(o)
        /\ drawn' = 0
        /\ UNCHANGED <<online, nextID, sale, wallet>>
    BY DEF CancelSellOrder, Calls
  <1>2. hangar' \in [Players -> Nat]
    <2>1. Signed(orders[o].vol) \in Int
      BY <1>1, RowType, SignsType DEF Inv
    <2> QED BY <1>1, <2>1, SpawnedType
  <1>3. TableOK
    BY <1>1, DeleteKeeps
  <1>4. wallet' \in [Players -> Int] /\ KeepsAbove
    BY <1>1, WalletKept
  <1>5. online' \subseteq Players /\ sale' = NoSale
    BY <1>1 DEF Inv, TypeOK
  <1>6. Inv'
    BY <1>1, <1>2, <1>3, <1>4, <1>5, IdleInv
  <1> QED BY <1>1, <1>4, <1>6 DEF Good, DrawsOnce

LEMMA PresenceGood ==
    ASSUME Inv, NEW p \in Players, Login(p) \/ Logout(p)
    PROVE  Good
  <1>1. /\ UNCHANGED <<orders, nextID, sale, hangar, wallet>>
        /\ drawn' = 0 /\ sale = NoSale /\ online' \subseteq Players
    BY DEF Login, Logout, Calls, Inv, TypeOK
  <1>2. TableOK
    BY <1>1, TableSame
  <1>3. wallet' \in [Players -> Int] /\ KeepsAbove
    BY <1>1, WalletKept
  <1>4. Inv'
    BY <1>1, <1>2, <1>3, IdleInv, WalletType
  <1> QED BY <1>1, <1>3, <1>4 DEF Good, DrawsOnce

-----------------------------------------------------------------------------

LEMMA InitInv ==
    ASSUME Init
    PROVE  Inv
  <1> DEFINE seed == [owner |-> Npc, bid |-> FALSE, price |-> SeedPrice,
                      entered |-> SeedVolume, vol |-> SeedVolume]
  <1>1. seed \in Order /\ seed.vol = SeedVolume /\ seed.entered = SeedVolume
        /\ seed.bid = FALSE /\ SeedVolume \in Nat
    <2>1. SeedVolume \in Uint32 /\ SeedVolume \in Nat
      BY MarketAssumption DEF Uint32
    <2> QED BY <2>1, MarketAssumption, ConstantTypes DEF Order
  <1>2. orders = [o \in Ids |-> IF o = 1 THEN seed ELSE NoOrder]
    BY DEF Init
  <1> HIDE DEF seed
  <1>3. orders \in [Ids -> Order \cup {NoOrder}] /\ OrderStands /\ BuyersKnown
    BY <1>1, <1>2 DEF OrderStands, BuyersKnown, Placed
  <1>4. Unused
    BY <1>2 DEF Unused, Init
  <1>5. TypeOK
    <2>1. online = {} /\ nextID = 2 /\ drawn = 0 /\ sale = NoSale
          /\ hangar = Hangar0 /\ wallet = Wallet0
      BY DEF Init
    <2>2. hangar \in [Players -> Nat] /\ wallet \in [Players -> Int]
      BY <2>1, MarketAssumption
    <2>3. nextID \in 1..(MaxOrders + 1)
      BY <2>1, ConstantTypes
    <2> QED BY <1>3, <2>1, <2>2, <2>3 DEF TypeOK
  <1> QED BY <1>3, <1>4, <1>5 DEF Inv

\* One lemma for each call, over the lots that players call with.
LEMMA NextGood ==
    ASSUME Inv, Next
    PROVE  Good
  <1>1. ASSUME NEW p \in Players, NEW lot \in Lots[p], Place(p, lot[1], lot[2])
        PROVE  Good
    <2>1. lot[1] \in Prices /\ lot[2] \in Int32
      BY LotType
    <2>2. CASE \E fee \in Fees \cup {0} : PlaceBuyOrder(p, lot[1], lot[2], fee)
      BY <2>1, <2>2, PlaceBuyGood
    <2>3. CASE \E fee \in Fees \cup {0} : BuyNow(p, lot[1], lot[2], fee)
      BY <2>1, <2>3, BuyNowGood
    <2>4. CASE \E fee \in Fees \cup {0}, bid \in BOOLEAN, stack \in Stacks(p) :
                  PlaceSellOrder(p, bid, lot[1], lot[2], stack, fee)
      BY <2>1, <2>4, PlaceSellGood
    <2>5. CASE \E stack \in Stacks(p) : SellNow(p, lot[1], lot[2], stack)
      BY <2>1, <2>5, SellNowGood
    <2> QED BY <1>1, <2>2, <2>3, <2>4, <2>5 DEF Place
  <1>2. ASSUME NEW p \in Players, NEW o \in Ids, NEW lot \in Lots[p],
               NEW newPrice \in Prices,
               ModifyCharOrder(p, o, lot[1], newPrice, lot[2])
        PROVE  Good
    BY <1>2, LotType, ModifyGood
  <1>3. ASSUME NEW p \in Players, NEW o \in Ids,
               CancelBuyOrder(p, o) \/ CancelSellOrder(p, o)
        PROVE  Good
    BY <1>3, CancelBuyGood, CancelSellGood
  <1>4. ASSUME NEW p \in Players, Login(p) \/ Logout(p)
        PROVE  Good
    BY <1>4, PresenceGood
  <1>5. ASSUME NEW o \in Ids, NEW tax \in Fees \cup {0}, ExecuteBuyOrder(o, tax)
        PROVE  Good
    BY <1>5, TurnGood
  <1> QED BY <1>1, <1>2, <1>3, <1>4, <1>5 DEF Next, Turn

LEMMA SameInv ==
    ASSUME Inv, UNCHANGED vars
    PROVE  Inv'
  <1>1. UNCHANGED <<online, orders, nextID, sale, hangar, wallet, drawn>>
    BY DEF vars
  <1> QED BY <1>1 DEF Inv, TypeOK, OrderStands, Unused, BuyersKnown, Placed

LEMMA Invariance == Spec => []Inv
  <1>1. Init => Inv
    BY InitInv
  <1>2. Inv /\ [Next]_vars => Inv'
    BY NextGood, SameInv DEF Good
  <1> QED BY <1>1, <1>2, PTL DEF Spec

\* The variables keep their types: no call takes more goods out of a hangar or
\* an order than there are, and an immediate sale never goes on without units of
\* its item that the hangar has.
THEOREM TypeCorrect == Spec => []TypeOK
  <1>1. Inv => TypeOK
    BY DEF Inv
  <1> QED BY <1>1, Invariance, PTL

\* No row of mktOrders has more left than was entered, whatever quantities the
\* calls come with.
THEOREM OrdersStand == Spec => []OrderStands
  <1>1. Inv => OrderStands
    BY DEF Inv
  <1> QED BY <1>1, Invariance, PTL

\* No call, with however many payments of either sign, brings a character that
\* is online below zero or deeper below it.
THEOREM OnlineStaysAbove == Spec => OverdrawnOffline
  <1>1. Inv /\ [Next]_vars =>
          [\A p \in Players :
              wallet'[p] < wallet[p] /\ wallet'[p] < 0 => p \notin online]_vars
    BY NextGood DEF Good, KeepsAbove
  <1> QED BY <1>1, Invariance, PTL DEF Spec, OverdrawnOffline

\* Escrow is drawn on once for each order, but for the Under branch, and at most
\* one and a half ISK a unit above what the order offered.
THEOREM EscrowDrawnOnce == Spec => DrawEndsOrder
  <1>1. Inv /\ [Next]_vars =>
          [drawn' > 0 => \E o \in Ids :
              /\ Placed(o) /\ orders[o].bid
              /\ orders'[o] = NoOrder \/ Short
              /\ 2 * drawn' < (2 * orders[o].price + 3 * Unit) * orders[o].vol]_vars
    BY NextGood DEF Good, DrawsOnce
  <1> QED BY <1>1, Invariance, PTL DEF Spec, DrawEndsOrder

-----------------------------------------------------------------------------
(* The owner of a sell order is paid before anything leaves it.             *)

LEMMA BuyPays ==
    ASSUME Inv, NEW o \in Ids, Placed(o), ~ orders[o].bid, orders[o].vol < Half,
           orders[o].vol - LeftIn(orders'[o]) > 0,
           orders[o].owner \in Players,
           NEW p \in Players \ {orders[o].owner}, Buys(p)
    PROVE  PaidAtLeast(orders[o].owner, (2 * orders[o].price - 3 * Unit)
                                            * (orders[o].vol - LeftIn(orders'[o])))
  <1>1. PICK lot \in Lots[p], tax \in Fees \cup {0} : BuyNow(p, lot[1], lot[2], tax)
    BY DEF Buys
  <1>2. lot[1] \in Prices /\ lot[2] \in Int32 /\ lot[1] \in Int
    BY LotType, ConstantTypes
  <1>3. PICK x \in Ids, n \in Int32 :
          /\ Placed(x)
          /\ 2 * orders[x].price < 2 * lot[1] + 3 * Unit
          /\ Unsigned(n) \in Nat /\ Unsigned(n) <= orders[x].vol
          /\ n < 0 => Unsigned(n) >= Half
          /\ n >= 0 => Unsigned(n) = n
          /\ nextID' = nextID
          /\ \/ UNCHANGED <<hangar, orders>>
             \/ /\ n # 0
                /\ orders' = Bought(x, Unsigned(n))
                /\ ~ TransferThrows(wallet, p, orders[x].owner, lot[1] * n)
                /\ wallet' = TransferFunds(
                               TransferFunds(wallet, p, orders[x].owner, lot[1] * n),
                               p, Npc, tax)
                /\ tax \in Int /\ lot[1] * n \in Int
    BY <1>1, <1>2, BuyNowDoes
  <1>4. /\ orders[o].vol \in Nat /\ orders[x].vol \in Nat
        /\ orders[o].price \in Int /\ orders[o] # NoOrder
    BY <1>3, RowType DEF Inv, Placed
  <1>5. orders' # orders
    <2> SUFFICES ASSUME orders' = orders PROVE FALSE
      OBVIOUS
    <2>1. LeftIn(orders'[o]) = orders[o].vol
      BY <1>4 DEF LeftIn
    <2> QED BY <1>4, <2>1
  <1>6. /\ LeftIn(orders'[x]) = orders[x].vol - Unsigned(n)
        /\ \A y \in Ids : y # x => orders'[y] = orders[y]
    BY <1>3, <1>4, <1>5, BoughtKeeps
  <1>7. x = o
    <2> SUFFICES ASSUME x # o PROVE FALSE
      OBVIOUS
    <2>1. LeftIn(orders'[o]) = orders[o].vol
      BY <1>4, <1>6 DEF LeftIn
    <2> QED BY <1>4, <2>1
  <1>8. /\ n \in Nat /\ n >= 1
        /\ orders[o].vol - LeftIn(orders'[o]) = n
    <2>1. n \in Int /\ Half \in Nat
      BY SignsType, ConstantTypes
    <2> QED BY <1>3, <1>4, <1>5, <1>6, <1>7, <2>1
  <1> DEFINE s == orders[o].owner
             money == lot[1] * n
             w == TransferFunds(wallet, p, s, money)
  <1>9. /\ ~ TransferThrows(wallet, p, s, money)
        /\ wallet' = TransferFunds(w, p, Npc, tax)
        /\ tax \in Int /\ money \in Int
    BY <1>3, <1>5, <1>7
  <1>10. (2 * orders[o].price - 3 * Unit) * n <= 2 * money
    <2>0. 2 * orders[o].price < 2 * lot[1] + 3 * Unit
      BY <1>3, <1>7
    <2>1. 2 * orders[o].price - 3 * Unit \in Int /\ 2 * lot[1] \in Int
          /\ 2 * orders[o].price - 3 * Unit <= 2 * lot[1]
      <3>1. orders[o].price \in Int /\ lot[1] \in Int /\ Unit \in Int
        BY <1>2, <1>4, ConstantTypes
      <3> QED BY <2>0, <3>1
    <2>2. (2 * orders[o].price - 3 * Unit) * n <= (2 * lot[1]) * n
      BY <1>8, <2>1, TimesMore
    <2>3. (2 * lot[1]) * n = 2 * (lot[1] * n)
      BY <1>2, <1>8
    <2> QED BY <2>2, <2>3
  <1> DEFINE owed == (2 * orders[o].price - 3 * Unit) * n
  <1>11. owed \in Int
    <2>1. 2 * orders[o].price - 3 * Unit \in Int
      BY <1>4, ConstantTypes
    <2> QED BY <1>8, <2>1, ProductInt
  <1> HIDE DEF money, owed
  <1>12. wallet \in Balances /\ s \in Players /\ s # p
    BY WalletType
  <1> HIDE DEF s
  <1>13. w \in Balances
    BY <1>9, <1>12, TransferType
  <1>14. w[s] = wallet[s] + money \/ (s \in online /\ w[s] = MaxBalance)
    BY <1>9, <1>12, TransferArrives
  <1> HIDE DEF w
  <1>15. wallet'[s] = w[s]
    BY <1>9, <1>12, <1>13, TransferElsewhere
  <1>16. wallet[s] \in Int /\ w[s] \in Int
    BY <1>12, <1>13 DEF Balances
  <1>17. 2 * (wallet'[s] - wallet[s]) >= owed \/ (s \in online /\ wallet'[s] = MaxBalance)
    <2>1. owed <= 2 * money
      BY <1>10 DEF owed
    <2> QED BY <1>9, <1>11, <1>14, <1>15, <1>16, <2>1
  <1>18. PaidAtLeast(s, owed)
    BY <1>17 DEF PaidAtLeast
  <1> QED BY <1>8, <1>18 DEF s, owed

\* Whoever is online and whichever payment throws, the owner of a sell order
\* whose volume is in range has its price for each unit that another character
\* buys, but for less than one and a half ISK, or a full wallet.
THEOREM SellersArePaid == Spec => SellerPaid
  <1>1. Inv =>
          [\A o \in Ids :
             LET s == orders[o].owner
                 gone == orders[o].vol - LeftIn(orders'[o])
             IN  (/\ Placed(o) /\ ~ orders[o].bid
                  /\ orders[o].vol < Half /\ gone > 0
                  /\ s \in Players /\ \E p \in Players \ {s} : Buys(p))
                    => PaidAtLeast(s, (2 * orders[o].price - 3 * Unit) * gone)]_vars
    BY BuyPays
  <1> QED BY <1>1, Invariance, PTL DEF Spec, SellerPaid

-----------------------------------------------------------------------------
(* Goods.  The two sums change by what a call moves.                        *)

LEMMA GoodsAre ==
    /\ Goods = Total(hangar, Players) + Total(ForSale, Ids)
    /\ Goods' = Total(hangar', Players) + Total(ForSale', Ids)
  <1>1. Goods = Total(hangar, Players) + Total(ForSale, Ids)
    BY DEF Goods, Total
  <1>2. (Goods = Total(hangar, Players) + Total(ForSale, Ids))'
    BY <1>1, PTL
  <1> QED BY <1>1, <1>2

LEMMA IdsFinite == IsFiniteSet(Ids) /\ IsFiniteSet(Players)
  <1>1. MaxOrders \in Int /\ 1 \in Int
    BY ConstantTypes
  <1>2. IsFiniteSet(1..MaxOrders)
    BY <1>1, FS_Interval
  <1> QED BY <1>2, MarketAssumption, ConstantTypes

\* What is for sale in an order, from its row.
RowForSale(row) == IF row = NoOrder THEN 0 ELSE IF row.bid THEN 0 ELSE row.vol

LEMMA ForSaleType ==
    /\ ForSale = [o \in Ids |-> RowForSale(orders[o])]
    /\ ForSale' = [o \in Ids |-> RowForSale(orders'[o])]
  BY DEF ForSale, Placed, RowForSale

LEMMA RowForSaleType ==
    ASSUME NEW row \in Order \cup {NoOrder}
    PROVE  RowForSale(row) \in Int
  BY DEF RowForSale, Order, Uint32

\* A hangar changes by d.
LEMMA TotalMoves ==
    ASSUME NEW h \in [Players -> Int], NEW k \in [Players -> Int],
           NEW p \in Players, NEW d \in Int, k[p] = h[p] + d,
           \A q \in Players : q # p => k[q] = h[q]
    PROVE  Total(k, Players) = Total(h, Players) + d
  <1>1. IsFiniteSet(Players)
    BY IdsFinite
  <1> QED BY <1>1, TotalChanged

LEMMA HangarMoves ==
    ASSUME NEW h \in [Players -> Int], NEW p \in Players, NEW d \in Int
    PROVE  /\ [h EXCEPT ![p] = @ + d] \in [Players -> Int]
           /\ Total([h EXCEPT ![p] = @ + d], Players) = Total(h, Players) + d
  <1> DEFINE k == [h EXCEPT ![p] = @ + d]
  <1>1. k \in [Players -> Int]
    OBVIOUS
  <1>2. k[p] = h[p] + d
    OBVIOUS
  <1>3. \A q \in Players : q # p => k[q] = h[q]
    OBVIOUS
  <1> HIDE DEF k
  <1>4. Total(k, Players) = Total(h, Players) + d
    BY <1>1, <1>2, <1>3, TotalMoves
  <1> QED BY <1>1, <1>4 DEF k

\* One row changes what it has for sale by d.
LEMMA RowMoves ==
    ASSUME Inv, orders' \in [Ids -> Order \cup {NoOrder}],
           NEW STATE o, o \in Ids, NEW d \in Int,
           RowForSale(orders'[o]) = RowForSale(orders[o]) + d,
           \A x \in Ids : x # o => RowForSale(orders'[x]) = RowForSale(orders[x])
    PROVE  Total(ForSale', Ids) = Total(ForSale, Ids) + d
  <1>1. orders \in [Ids -> Order \cup {NoOrder}]
    BY DEF Inv, TypeOK
  <1>2. ForSale \in [Ids -> Int] /\ ForSale' \in [Ids -> Int]
    BY <1>1, ForSaleType, RowForSaleType
  <1>3. ForSale'[o] = ForSale[o] + d /\ \A x \in Ids : x # o => ForSale'[x] = ForSale[x]
    BY ForSaleType
  <1> QED BY <1>2, <1>3, IdsFinite, TotalChanged

LEMMA GoodsType ==
    ASSUME Inv
    PROVE  /\ Total(hangar, Players) \in Int /\ Total(ForSale, Ids) \in Int
           /\ hangar \in [Players -> Int]
  <1>1. orders \in [Ids -> Order \cup {NoOrder}] /\ hangar \in [Players -> Int]
    BY DEF Inv, TypeOK
  <1>2. ForSale \in [Ids -> Int]
    BY <1>1, ForSaleType, RowForSaleType
  <1> QED BY <1>1, <1>2, IdsFinite, TotalType

\* What a step keeps.
Keeps == Goods' = Goods \/ \E o \in Ids : OutOfRange(o) \/ TakenAsBid(o)

\* No sell order and no hangar is touched.
LEMMA SameForSale ==
    ASSUME \A x \in Ids : RowForSale(orders'[x]) = RowForSale(orders[x])
    PROVE  ForSale' = ForSale
  BY ForSaleType

LEMMA SameGoods ==
    ASSUME hangar' = hangar,
           \A x \in Ids : RowForSale(orders'[x]) = RowForSale(orders[x])
    PROVE  Keeps
  <1>1. Goods' = Goods
    BY SameForSale, GoodsAre
  <1> QED BY <1>1 DEF Keeps

\* What one character has more is less for sale in one order.
LEMMA GoodsMove ==
    ASSUME Inv, orders' \in [Ids -> Order \cup {NoOrder}],
           NEW p \in Players, NEW d \in Int, NEW STATE o, o \in Ids,
           hangar' = [hangar EXCEPT ![p] = @ + d],
           RowForSale(orders'[o]) = RowForSale(orders[o]) - d,
           \A x \in Ids : x # o => orders'[x] = orders[x]
    PROVE  Keeps
  <1>1. hangar \in [Players -> Int]
    BY GoodsType
  <1>2. Total(hangar', Players) = Total(hangar, Players) + d
    BY <1>1, HangarMoves
  <1>3. -d \in Int
    OBVIOUS
  <1>4. RowForSale(orders[o]) \in Int
    BY RowForSaleType DEF Inv, TypeOK
  <1>5. RowForSale(orders'[o]) = RowForSale(orders[o]) + (-d)
    BY <1>4
  <1>6. Total(ForSale', Ids) = Total(ForSale, Ids) + (-d)
    BY <1>3, <1>5, RowMoves
  <1>7. Total(hangar, Players) \in Int /\ Total(ForSale, Ids) \in Int
    BY GoodsType
  <1>8. Goods' = Goods
    BY <1>2, <1>6, <1>7, GoodsAre
  <1> QED BY <1>8 DEF Keeps

LEMMA NewRowForSale ==
    ASSUME Inv, nextID \in Ids, NEW p \in Players, NEW bid \in BOOLEAN,
           NEW price \in Prices, NEW quantity \in Int32,
           orders' = StoreOrder(nextID, p, bid, price, quantity), nextID' = nextID + 1
    PROVE  /\ orders' \in [Ids -> Order \cup {NoOrder}]
           /\ RowForSale(orders[nextID]) = 0 /\ ~ Placed(nextID)
           /\ LeftIn(orders[nextID]) = 0 /\ LeftIn(orders'[nextID]) = Unsigned(quantity)
           /\ RowForSale(orders'[nextID]) = IF bid THEN 0 ELSE Unsigned(quantity)
           /\ orders'[nextID] # NoOrder /\ orders'[nextID].bid = bid
           /\ \A x \in Ids : x # nextID => orders'[x] = orders[x]
  <1>1. /\ TableOK /\ orders[nextID] = NoOrder /\ orders'[nextID] # NoOrder
        /\ orders'[nextID].bid = bid /\ orders'[nextID].vol = Unsigned(quantity)
        /\ \A x \in Ids : x # nextID => orders'[x] = orders[x]
    BY StoreKeeps
  <1> QED BY <1>1 DEF TableOK, RowForSale, LeftIn, Placed

LEMMA PlaceBuyKeeps ==
    ASSUME Inv, NEW p \in Players, NEW price \in Prices, NEW quantity \in Int32,
           NEW fee, PlaceBuyOrder(p, price, quantity, fee)
    PROVE  Keeps
  <1>1. /\ nextID \in Ids /\ hangar' = hangar /\ nextID' = nextID + 1
        /\ orders' = StoreOrder(nextID, p, TRUE, price, quantity)
    BY DEF PlaceBuyOrder
  <1>2. /\ RowForSale(orders[nextID]) = 0 /\ RowForSale(orders'[nextID]) = 0
        /\ \A x \in Ids : x # nextID => orders'[x] = orders[x]
    BY <1>1, NewRowForSale
  <1>3. \A x \in Ids : RowForSale(orders'[x]) = RowForSale(orders[x])
    BY <1>2
  <1> QED BY <1>1, <1>3, SameGoods

LEMMA PlaceSellKeeps ==
    ASSUME Inv, NEW p \in Players, NEW bid \in BOOLEAN, NEW price \in Prices,
           NEW quantity \in Int32, NEW stack, NEW fee,
           PlaceSellOrder(p, bid, price, quantity, stack, fee)
    PROVE  Keeps
  <1> DEFINE q == IF stack - quantity >= Half THEN stack ELSE quantity
  <1>1. /\ nextID \in Ids /\ nextID' = nextID + 1
        /\ stack \in Stacks(p) /\ quantity <= stack
        /\ orders' = StoreOrder(nextID, p, bid, price, quantity)
        /\ hangar' = [hangar EXCEPT ![p] = @ - q]
    BY DEF PlaceSellOrder
  <1>2. /\ orders' \in [Ids -> Order \cup {NoOrder}]
        /\ RowForSale(orders[nextID]) = 0 /\ ~ Placed(nextID)
        /\ LeftIn(orders[nextID]) = 0 /\ LeftIn(orders'[nextID]) = Unsigned(quantity)
        /\ RowForSale(orders'[nextID]) = IF bid THEN 0 ELSE Unsigned(quantity)
        /\ orders'[nextID] # NoOrder /\ orders'[nextID].bid = bid
        /\ \A x \in Ids : x # nextID => orders'[x] = orders[x]
    BY <1>1, NewRowForSale
  <1>3. /\ stack \in Nat /\ stack < Half /\ quantity \in Int /\ Half \in Nat \ {0}
    BY <1>1, StackType, SignsType, ConstantTypes
  <1>4. CASE bid
    <2>1. CASE hangar' = hangar
      <3>1. \A x \in Ids : RowForSale(orders'[x]) = RowForSale(orders[x])
        BY <1>2, <1>4
      <3> QED BY <2>1, <3>1, SameGoods
    <2>2. CASE hangar' # hangar
      BY <1>1, <1>2, <1>4, <2>2 DEF Keeps, TakenAsBid
    <2> QED BY <2>1, <2>2
  <1>5. CASE ~ bid /\ quantity < 0
    <2>1. Unsigned(quantity) >= Half
      BY <1>3, <1>5 DEF Unsigned, Int32
    <2>2. OutOfRange(nextID)
      BY <1>2, <1>3, <2>1 DEF OutOfRange
    <2> QED BY <1>1, <2>2 DEF Keeps
  <1>6. CASE ~ bid /\ quantity >= 0
    <2>1. q = quantity /\ Unsigned(quantity) = quantity
      BY <1>3, <1>6 DEF Unsigned
    <2> DEFINE d == -quantity
    <2>2. d \in Int /\ hangar[p] - q = hangar[p] + d
      <3>1. hangar[p] \in Int
        BY GoodsType
      <3> QED BY <1>3, <2>1, <3>1
    <2>3. RowForSale(orders'[nextID]) = RowForSale(orders[nextID]) - d
      BY <1>2, <1>3, <1>6, <2>1
    <2> HIDE DEF d, q
    <2>4. hangar' = [hangar EXCEPT ![p] = @ + d]
      BY <1>1, <2>2
    <2>5. /\ orders' \in [Ids -> Order \cup {NoOrder}] /\ nextID \in Ids
          /\ \A x \in Ids : x # nextID => orders'[x] = orders[x]
      BY <1>1, <1>2
    <2> QED BY <2>2, <2>3, <2>4, <2>5, GoodsMove
  <1> QED BY <1>3, <1>4, <1>5, <1>6

LEMMA BuyNowKeeps ==
    ASSUME Inv, NEW p \in Players, NEW price \in Prices, NEW quantity \in Int32,
           NEW tax, BuyNow(p, price, quantity, tax)
    PROVE  Keeps
  <1>1. PICK o \in Ids, n \in Int32 :
          /\ Placed(o) /\ ~ orders[o].bid
          /\ Unsigned(n) \in Nat /\ Unsigned(n) <= orders[o].vol
          /\ n < 0 => Unsigned(n) >= Half
          /\ n >= 0 => Unsigned(n) = n
          /\ nextID' = nextID
          /\ \/ UNCHANGED <<hangar, orders>>
             \/ /\ n # 0
                /\ hangar' = Spawned(p, n)
                /\ orders' = Bought(o, Unsigned(n))
    BY BuyNowDoes
  <1>2. /\ orders[o].vol \in Uint32 /\ orders[o].vol \in Nat /\ n \in Int
        /\ orders[o] # NoOrder
    BY <1>1, RowType, SignsType DEF Inv, Placed
  <1>3. CASE UNCHANGED <<hangar, orders>>
    BY <1>3, SameGoods
  <1>4. CASE /\ n # 0
             /\ hangar' = Spawned(p, n)
             /\ orders' = Bought(o, Unsigned(n))
    <2>1. /\ TableOK
          /\ LeftIn(orders'[o]) = orders[o].vol - Unsigned(n)
          /\ orders'[o] = NoOrder \/ orders'[o].bid = orders[o].bid
          /\ \A x \in Ids : x # o => orders'[x] = orders[x]
      BY <1>1, <1>2, <1>4, BoughtKeeps
    <2>2. CASE n < 0
      <3>1. orders[o].vol >= Half /\ orders[o].vol - Unsigned(n) < Half
        BY <1>1, <1>2, <2>2, ConstantTypes DEF Uint32
      <3>2. OutOfRange(o)
        <4>1. LeftIn(orders[o]) = orders[o].vol
          BY <1>2 DEF LeftIn
        <4>2. LeftIn(orders[o]) \in Int /\ LeftIn(orders'[o]) \in Int /\ Half \in Int
          BY <1>1, <1>2, <2>1, <4>1, ConstantTypes
        <4> QED BY <2>1, <3>1, <4>1, <4>2 DEF OutOfRange
      <3> QED BY <3>2 DEF Keeps
    <2>3. CASE n > 0
      <3>1. hangar' = [hangar EXCEPT ![p] = @ + n]
        BY <1>4, <2>3 DEF Spawned
      <3>2. RowForSale(orders'[o]) = RowForSale(orders[o]) - n
        <4>1. Unsigned(n) = n
          BY <1>1, <1>2, <2>3
        <4>2. RowForSale(orders[o]) = orders[o].vol
          BY <1>1, <1>2 DEF RowForSale
        <4>3. RowForSale(orders'[o]) = LeftIn(orders'[o])
          BY <1>1, <2>1 DEF RowForSale, LeftIn
        <4> QED BY <2>1, <4>1, <4>2, <4>3
      <3>3. orders' \in [Ids -> Order \cup {NoOrder}]
        BY <2>1 DEF TableOK
      <3> QED BY <1>2, <2>1, <3>1, <3>2, <3>3, GoodsMove
    <2> QED BY <1>2, <1>4, <2>2, <2>3
  <1> QED BY <1>1, <1>3, <1>4

\* A buy order that goes takes nothing from what is for sale.
LEMMA BidDeleted ==
    ASSUME Inv, NEW STATE o, o \in Ids, Placed(o), orders[o].bid,
           orders' = orders \/ orders' = DeleteOrder(o)
    PROVE  \A x \in Ids : RowForSale(orders'[x]) = RowForSale(orders[x])
  <1>1. orders \in [Ids -> Order \cup {NoOrder}]
    BY DEF Inv, TypeOK
  <1>2. orders' = orders \/ orders' = [orders EXCEPT ![o] = NoOrder]
    BY DEF DeleteOrder
  <1> QED BY <1>1, <1>2 DEF RowForSale, Placed

\* The goods go from one hangar to another, whether or not the payment that
\* follows throws.
LEMMA TurnKeeps ==
    ASSUME Inv, NEW o \in Ids, NEW tax, ExecuteBuyOrder(o, tax)
    PROVE  Keeps
  <1> DEFINE p == sale.seller
             buyer == orders[o].owner
             given == IF sale.stack < sale.quantity THEN sale.stack ELSE sale.quantity
             taken == [hangar EXCEPT ![p] = @ - given]
  <1>1. /\ p \in Players /\ Placed(o) /\ orders[o].bid /\ buyer \in Players
        /\ given \in 1..(Half - 1)
        /\ hangar' = [taken EXCEPT ![buyer] = @ + given]
        /\ orders' = orders \/ orders' = DeleteOrder(o)
    BY TurnDoes
  <1> HIDE DEF p, buyer, given
  <1>2. given \in Int /\ -given \in Int
    BY <1>1
  <1>3. taken = [hangar EXCEPT ![p] = @ + (-given)]
    <2>1. hangar \in [Players -> Int]
      BY GoodsType
    <2>2. hangar[p] - given = hangar[p] + (-given)
      BY <1>1, <1>2, <2>1
    <2> QED BY <2>2
  <1> HIDE DEF taken
  <1>4. /\ taken \in [Players -> Int]
        /\ Total(taken, Players) = Total(hangar, Players) + (-given)
    BY <1>1, <1>2, <1>3, GoodsType, HangarMoves
  <1>5. Total(hangar', Players) = Total(taken, Players) + given
    <2>1. Total([taken EXCEPT ![buyer] = @ + given], Players)
            = Total(taken, Players) + given
      <3>1. buyer \in Players /\ given \in Int /\ taken \in [Players -> Int]
        BY <1>1, <1>2, <1>4
      <3> QED BY <3>1, HangarMoves
    <2>2. hangar' = [taken EXCEPT ![buyer] = @ + given]
      BY <1>1
    <2> QED BY <2>1, <2>2
  <1>6. Total(hangar', Players) = Total(hangar, Players)
    BY <1>2, <1>4, <1>5, GoodsType
  <1>7. ForSale' = ForSale
    <2>1. \A x \in Ids : RowForSale(orders'[x]) = RowForSale(orders[x])
      BY <1>1, BidDeleted
    <2> QED BY <2>1, SameForSale
  <1> QED BY <1>6, <1>7, GoodsAre DEF Keeps

LEMMA ModifyKeeps ==
    ASSUME Inv, NEW p \in Players, NEW o \in Ids, NEW price, NEW newPrice \in Prices,
           NEW volume, ModifyCharOrder(p, o, price, newPrice, volume)
    PROVE  Keeps
  <1>1. /\ Placed(o) /\ hangar' = hangar /\ nextID' = nextID
        /\ orders' = [orders EXCEPT ![o].price = newPrice]
    BY DEF ModifyCharOrder
  <1>2. /\ orders'[o] # NoOrder
        /\ orders'[o].vol = orders[o].vol /\ orders'[o].bid = orders[o].bid
        /\ \A x \in Ids : x # o => orders'[x] = orders[x]
    BY <1>1, RepricedKeeps
  <1>3. \A x \in Ids : RowForSale(orders'[x]) = RowForSale(orders[x])
    BY <1>1, <1>2 DEF RowForSale, Placed
  <1> QED BY <1>1, <1>3, SameGoods

LEMMA CancelBuyKeeps ==
    ASSUME Inv, NEW p \in Players, NEW o \in Ids, CancelBuyOrder(p, o)
    PROVE  Keeps
  <1>1. Placed(o) /\ orders[o].bid /\ orders' = DeleteOrder(o) /\ hangar' = hangar
    BY DEF CancelBuyOrder
  <1> QED BY <1>1, BidDeleted, SameGoods

LEMMA CancelSellKeeps ==
    ASSUME Inv, NEW p \in Players, NEW o \in Ids, CancelSellOrder(p, o)
    PROVE  Keeps
  <1> DEFINE v == orders[o].vol
  <1>1. /\ Placed(o) /\ ~ orders[o].bid
        /\ hangar' = Spawned(p, Signed(v))
        /\ orders' = DeleteOrder(o) /\ nextID' = nextID
    BY DEF CancelSellOrder
  <1>2. v \in Uint32 /\ v \in Nat /\ Half \in Nat \ {0}
    BY <1>1, RowType, ConstantTypes DEF Inv
  <1>3. /\ TableOK /\ orders'[o] = NoOrder
        /\ \A x \in Ids : x # o => orders'[x] = orders[x]
    BY <1>1, DeleteKeeps
  <1>4. LeftIn(orders[o]) = v /\ LeftIn(orders'[o]) = 0
        /\ RowForSale(orders[o]) = v /\ RowForSale(orders'[o]) = 0
    BY <1>1, <1>3 DEF LeftIn, RowForSale, Placed
  <1> HIDE DEF v
  <1>5. CASE v >= Half
    <2>1. OutOfRange(o)
      BY <1>2, <1>4, <1>5 DEF OutOfRange
    <2> QED BY <2>1 DEF Keeps
  <1>6. CASE v < Half
    <2>1. Signed(v) = v
      BY <1>6 DEF Signed
    <2>2. CASE v = 0
      <3>1. hangar' = hangar
        BY <1>1, <2>1, <2>2 DEF Spawned
      <3>2. \A x \in Ids : RowForSale(orders'[x]) = RowForSale(orders[x])
        BY <1>3, <1>4, <2>2
      <3> QED BY <3>1, <3>2, SameGoods
    <2>3. CASE v # 0
      <3>1. hangar' = [hangar EXCEPT ![p] = @ + v]
        BY <1>1, <1>2, <2>1, <2>3 DEF Spawned
      <3>2. RowForSale(orders'[o]) = RowForSale(orders[o]) - v /\ v \in Int
        BY <1>2, <1>4
      <3>3. orders' \in [Ids -> Order \cup {NoOrder}]
        BY <1>3 DEF TableOK
      <3> QED BY <1>3, <3>1, <3>2, <3>3, GoodsMove
    <2> QED BY <2>2, <2>3
  <1> QED BY <1>2, <1>5, <1>6

\* What leaves both tables alone.
LEMMA UntouchedKeeps ==
    ASSUME UNCHANGED <<hangar, orders>>
    PROVE  Keeps
  BY SameGoods

LEMMA NextKeeps ==
    ASSUME Inv, Next
    PROVE  Keeps
  <1>1. ASSUME NEW p \in Players, NEW lot \in Lots[p], Place(p, lot[1], lot[2])
        PROVE  Keeps
    <2>1. lot[1] \in Prices /\ lot[2] \in Int32
      BY LotType
    <2>2. CASE \E fee \in Fees \cup {0} : PlaceBuyOrder(p, lot[1], lot[2], fee)
      BY <2>1, <2>2, PlaceBuyKeeps
    <2>3. CASE \E fee \in Fees \cup {0} : BuyNow(p, lot[1], lot[2], fee)
      BY <2>1, <2>3, BuyNowKeeps
    <2>4. CASE \E fee \in Fees \cup {0}, bid \in BOOLEAN, stack \in Stacks(p) :
                  PlaceSellOrder(p, bid, lot[1], lot[2], stack, fee)
      BY <2>1, <2>4, PlaceSellKeeps
    <2>5. CASE \E stack \in Stacks(p) : SellNow(p, lot[1], lot[2], stack)
      BY <2>5, UntouchedKeeps DEF SellNow
    <2> QED BY <1>1, <2>2, <2>3, <2>4, <2>5 DEF Place
  <1>2. ASSUME NEW p \in Players, NEW o \in Ids, NEW lot \in Lots[p],
               NEW newPrice \in Prices,
               ModifyCharOrder(p, o, lot[1], newPrice, lot[2])
        PROVE  Keeps
    BY <1>2, ModifyKeeps
  <1>3. ASSUME NEW p \in Players, NEW o \in Ids,
               CancelBuyOrder(p, o) \/ CancelSellOrder(p, o)
        PROVE  Keeps
    BY <1>3, CancelBuyKeeps, CancelSellKeeps
  <1>4. ASSUME NEW p \in Players, Login(p) \/ Logout(p)
        PROVE  Keeps
    BY <1>4, UntouchedKeeps DEF Login, Logout
  <1>5. ASSUME NEW o \in Ids, NEW tax \in Fees \cup {0}, ExecuteBuyOrder(o, tax)
        PROVE  Keeps
    BY <1>5, TurnKeeps
  <1> QED BY <1>1, <1>2, <1>3, <1>4, <1>5 DEF Next, Turn

\* In no call, whichever of its payments throws, is a unit made or lost, unless a
\* sell order crosses the bound of int32 or is stored as a bid.
THEOREM GoodsAreKept == Spec => GoodsKept
  <1>1. Inv /\ [Next]_vars =>
          [Goods' = Goods \/ \E o \in Ids : OutOfRange(o) \/ TakenAsBid(o)]_vars
    BY NextKeeps DEF Keeps
  <1> QED BY <1>1, Invariance, PTL DEF Spec, GoodsKept

-----------------------------------------------------------------------------
(* The order book.  Each call is the step of OrderBook of the same purpose, *)
(* or leaves orders, ids and goods alone.                                   *)

LEMMA BookStutters ==
    ASSUME UNCHANGED <<orders, nextID, hangar>>
    PROVE  UNCHANGED Book!vars
  BY DEF Book!vars

LEMMA BookInit ==
    ASSUME Init
    PROVE  Book!Init
  <1> DEFINE seed == [owner |-> Npc, bid |-> FALSE, price |-> SeedPrice,
                      entered |-> SeedVolume, vol |-> SeedVolume]
  <1>1. orders \in [Ids -> Order \cup {NoOrder}] /\ hangar \in [Players -> Nat]
    BY InitInv DEF Inv, TypeOK
  <1>2. seed \in Order /\ seed.vol = SeedVolume /\ seed.entered = SeedVolume
        /\ SeedVolume \in 1..SeedVolume
    <2>1. SeedVolume \in Uint32 /\ SeedVolume \in Nat /\ SeedVolume >= 1
      BY MarketAssumption DEF Uint32
    <2> QED BY <2>1, MarketAssumption, ConstantTypes DEF Order
  <1>3. orders = [o \in Ids |-> IF o = 1 THEN seed ELSE NoOrder] /\ nextID = 2
    BY DEF Init
  <1> HIDE DEF seed
  <1>4. seed # NoOrder /\ 1 \in Ids
    <2>1. 1 \in Ids
      BY ConstantTypes
    <2> QED BY <1>2, <2>1, ConstantTypes
  <1>5. 1..(nextID - 1) = {o \in Ids : orders[o] # NoOrder}
    <2>1. {o \in Ids : orders[o] # NoOrder} = {1}
      BY <1>3, <1>4
    <2>2. 1..(nextID - 1) = {1}
      BY <1>3
    <2> QED BY <2>1, <2>2
  <1>6. Book!Order = Order
    BY DEF Order, Book!Order, Book!Volumes, Uint32
  <1>7. \A o \in 1..(nextID - 1) : orders[o].vol \in 1..orders[o].entered
    BY <1>2, <1>3, <1>4
  <1> QED BY <1>1, <1>5, <1>6, <1>7 DEF Book!Init, Book!Standing

\* The next id has not been given out, and is by the step that takes it.
LEMMA FreshId ==
    ASSUME Inv, nextID \in Ids, nextID' = nextID + 1
    PROVE  /\ nextID \notin 1..(nextID - 1)
           /\ (1..(nextID - 1))' = 1..(nextID - 1) \cup {nextID}
  <1>1. nextID \in Nat /\ nextID >= 1
    BY DEF Inv, TypeOK
  <1> QED BY <1>1

LEMMA EnterBidStep ==
    ASSUME Inv, NEW p \in Players, NEW price \in Prices, NEW quantity \in Int32,
           NEW fee, PlaceBuyOrder(p, price, quantity, fee)
    PROVE  Book!Next
  <1>1. nextID \in Ids /\ nextID' = nextID + 1 /\ hangar' = hangar
        /\ orders' = StoreOrder(nextID, p, TRUE, price, quantity)
    BY DEF PlaceBuyOrder
  <1>2. Unsigned(quantity) \in Book!Volumes
    BY SignsType DEF Book!Volumes, Uint32
  <1>3. Book!Enter(p, nextID, TRUE, price, Unsigned(quantity))
    BY <1>1, FreshId DEF Book!Enter, Book!New, StoreOrder
  <1> QED BY <1>1, <1>2, <1>3 DEF Book!Next

\* A quantity in range takes goods, 0 none, one below zero adds them or deletes
\* the item.
LEMMA EnterItemStep ==
    ASSUME Inv, NEW p \in Players, NEW bid \in BOOLEAN, NEW price \in Prices,
           NEW quantity \in Int32, NEW stack, NEW fee,
           PlaceSellOrder(p, bid, price, quantity, stack, fee)
    PROVE  Book!Next
  <1> DEFINE q == IF stack - quantity >= Half THEN stack ELSE quantity
             v == Unsigned(quantity)
  <1>1. /\ nextID \in Ids /\ nextID' = nextID + 1
        /\ stack \in Stacks(p) /\ quantity <= stack
        /\ orders' = StoreOrder(nextID, p, bid, price, quantity)
        /\ hangar' = [hangar EXCEPT ![p] = @ - q]
    BY DEF PlaceSellOrder
  <1>2. /\ stack \in Nat /\ stack >= 1 /\ stack < Half /\ stack <= hangar[p]
        /\ quantity \in Int /\ Half \in Nat \ {0} /\ hangar[p] \in Nat
        /\ hangar \in [Players -> Nat]
    BY <1>1, StackType, SignsType, ConstantTypes, WalletType
  <1>3. v \in Book!Volumes /\ v \in Nat
    BY SignsType DEF Book!Volumes, Uint32
  <1>4. v = IF quantity < 0 THEN quantity + 2 * Half ELSE quantity
    BY DEF Unsigned
  <1>5. \/ (bid \/ v = 0) /\ UNCHANGED hangar
        \/ v \in Book!Units /\ v <= hangar[p] /\ hangar' = [hangar EXCEPT ![p] = @ - v]
        \/ v >= Half /\ hangar' = [hangar EXCEPT ![p] = @ + 2 * Half - v]
        \/ v >= Half /\ \E r \in Book!Units :
              r <= hangar[p] /\ hangar' = [hangar EXCEPT ![p] = @ - r]
    <2> HIDE DEF v
    <2>1. CASE stack - quantity >= Half
      <3>1. q = stack /\ v >= Half
        BY <1>2, <1>4, <2>1 DEF Int32
      <3>2. stack \in Book!Units
        BY <1>2 DEF Book!Units
      <3> QED BY <1>1, <1>2, <3>1, <3>2
    <2>2. CASE ~ stack - quantity >= Half /\ quantity < 0
      <3>1. q = quantity /\ v >= Half /\ hangar[p] - q = hangar[p] + 2 * Half - v
        BY <1>2, <1>4, <2>2 DEF Int32
      <3> HIDE DEF q
      <3> QED BY <1>1, <3>1
    <2>3. CASE ~ stack - quantity >= Half /\ quantity = 0
      <3>1. q = 0 /\ v = 0 /\ hangar[p] - q = hangar[p]
        BY <1>2, <1>4, <2>3
      <3> HIDE DEF q
      <3>2. hangar' = hangar
        BY <1>1, <1>2, <3>1
      <3> QED BY <3>1, <3>2
    <2>4. CASE ~ stack - quantity >= Half /\ quantity > 0
      <3>1. q = v /\ v <= hangar[p] /\ v \in 1..(Half - 1)
        BY <1>1, <1>2, <1>4, <2>4
      <3> HIDE DEF q
      <3> QED BY <1>1, <3>1 DEF Book!Units
    <2> QED BY <1>2, <2>1, <2>2, <2>3, <2>4
  <1>6. /\ nextID \notin 1..(nextID - 1)
        /\ (1..(nextID - 1))' = 1..(nextID - 1) \cup {nextID}
    BY <1>1, FreshId
  <1>7. orders' = [orders EXCEPT ![nextID] = Book!New(p, bid, price, v)]
    BY <1>1 DEF Book!New, StoreOrder
  <1> HIDE DEF v, q
  <1>8. Book!Enter(p, nextID, bid, price, v)
    BY <1>5, <1>6, <1>7 DEF Book!Enter
  <1> QED BY <1>1, <1>3, <1>8 DEF Book!Next

LEMMA BuyStep ==
    ASSUME Inv, NEW p \in Players, NEW price \in Prices, NEW quantity \in Int32,
           NEW tax, BuyNow(p, price, quantity, tax)
    PROVE  [Book!Next]_(Book!vars)
  <1>1. PICK o \in Ids, n \in Int32 :
          /\ Placed(o) /\ ~ orders[o].bid
          /\ Unsigned(n) \in Nat /\ Unsigned(n) <= orders[o].vol
          /\ n < 0 => Unsigned(n) >= Half
          /\ n >= 0 => Unsigned(n) = n
          /\ nextID' = nextID
          /\ \/ UNCHANGED <<hangar, orders>>
             \/ /\ n # 0
                /\ hangar' = Spawned(p, n)
                /\ orders' = Bought(o, Unsigned(n))
    BY BuyNowDoes
  <1>2. /\ orders[o].vol \in Uint32 /\ orders[o].vol \in Nat /\ n \in Int
        /\ Half \in Nat \ {0}
    BY <1>1, RowType, SignsType, ConstantTypes DEF Inv
  <1>3. CASE UNCHANGED <<hangar, orders>>
    BY <1>1, <1>3, BookStutters
  <1>4. CASE n # 0 /\ hangar' = Spawned(p, n) /\ orders' = Bought(o, Unsigned(n))
    <2>1. orders' = Book!Less(o, Unsigned(n))
      BY <1>4 DEF Bought, DeleteOrder, Book!Less, Book!Ended
    <2>2. CASE n > 0
      <3>1. n = Unsigned(n) /\ hangar' = [hangar EXCEPT ![p] = @ + n]
        BY <1>1, <1>2, <1>4, <2>2 DEF Spawned
      <3>2. Book!Buy(p, o, n)
        BY <1>1, <2>1, <3>1 DEF Book!Buy, Book!Standing, Placed
      <3>3. n \in Book!Units
        BY <1>2, <2>2 DEF Int32, Book!Units
      <3> QED BY <3>2, <3>3 DEF Book!Next
    <2>3. CASE n < 0
      <3>1. hangar' = hangar
        BY <1>2, <1>4, <2>3 DEF Spawned
      <3>2. Book!Lose(o, Unsigned(n))
        BY <1>1, <2>1, <2>3, <3>1 DEF Book!Lose, Book!Standing, Placed
      <3>3. Unsigned(n) \in Book!Volumes
        BY SignsType DEF Book!Volumes, Uint32
      <3> QED BY <3>2, <3>3 DEF Book!Next
    <2> QED BY <1>2, <1>4, <2>2, <2>3
  <1> QED BY <1>1, <1>3, <1>4

LEMMA DeliverStep ==
    ASSUME Inv, NEW o \in Ids, NEW tax, ExecuteBuyOrder(o, tax)
    PROVE  Book!Next
  <1> DEFINE p == sale.seller
             given == IF sale.stack < sale.quantity THEN sale.stack ELSE sale.quantity
  <1>1. /\ p \in Players /\ Placed(o) /\ orders[o].bid /\ orders[o].owner \in Players
        /\ given \in 1..(Half - 1) /\ given <= hangar[p] /\ given <= orders[o].vol
        /\ hangar' = [[hangar EXCEPT ![p] = @ - given]
                        EXCEPT ![orders[o].owner] = @ + given]
        /\ orders' = orders \/ orders' = DeleteOrder(o)
        /\ nextID' = nextID
    BY TurnDoes
  <1> HIDE DEF p, given
  <1>2. Book!Deliver(p, o, given)
    BY <1>1 DEF Book!Deliver, Book!Standing, Book!Ended, Placed, DeleteOrder
  <1>3. given \in Book!Units
    BY <1>1 DEF Book!Units
  <1> QED BY <1>1, <1>2, <1>3 DEF Book!Next

LEMMA RepriceStep ==
    ASSUME NEW p \in Players, NEW o \in Ids, NEW price, NEW newPrice \in Prices,
           NEW volume, ModifyCharOrder(p, o, price, newPrice, volume)
    PROVE  Book!Next
  <1>1. Book!Reprice(o, newPrice)
    BY DEF ModifyCharOrder, Book!Reprice, Book!Standing, Placed
  <1> QED BY <1>1 DEF Book!Next

LEMMA WithdrawStep ==
    ASSUME Inv, NEW p \in Players, NEW o \in Ids,
           CancelBuyOrder(p, o) \/ CancelSellOrder(p, o)
    PROVE  Book!Next
  <1>1. CASE CancelBuyOrder(p, o)
    <2>1. Book!Withdraw(p, o)
      BY <1>1 DEF CancelBuyOrder, Book!Withdraw, Book!Standing, Book!Ended, Placed,
                  DeleteOrder
    <2> QED BY <2>1 DEF Book!Next
  <1>2. CASE CancelSellOrder(p, o)
    <2> DEFINE v == orders[o].vol
    <2>1. /\ Placed(o) /\ ~ orders[o].bid /\ nextID' = nextID
          /\ hangar' = Spawned(p, Signed(v))
          /\ orders' = Book!Ended(o)
      BY <1>2 DEF CancelSellOrder, Book!Ended, DeleteOrder
    <2>2. v \in 0..(2 * Half - 1) /\ Half \in Nat \ {0}
      BY <2>1, RowType, ConstantTypes DEF Inv, Uint32
    <2>3. hangar' = IF v \notin Book!Units THEN hangar
                    ELSE [hangar EXCEPT ![p] = @ + v]
      <3> HIDE DEF v
      <3>1. CASE v \in Book!Units
        <4>1. Signed(v) = v /\ v > 0
          BY <2>2, <3>1 DEF Signed, Book!Units
        <4> QED BY <2>1, <3>1, <4>1 DEF Spawned
      <3>2. CASE v \notin Book!Units
        <4>1. ~ Signed(v) > 0
          BY <2>2, <3>2 DEF Signed, Book!Units
        <4> QED BY <2>1, <3>2, <4>1 DEF Spawned
      <3> QED BY <3>1, <3>2
    <2>4. Book!Withdraw(p, o)
      BY <2>1, <2>3 DEF Book!Withdraw, Book!Standing, Placed
    <2> QED BY <2>4 DEF Book!Next
  <1> QED BY <1>1, <1>2

LEMMA BookStep ==
    ASSUME Inv, [Next]_vars
    PROVE  [Book!Next]_(Book!vars)
  <1>1. ASSUME NEW p \in Players, NEW lot \in Lots[p], Place(p, lot[1], lot[2])
        PROVE  [Book!Next]_(Book!vars)
    <2>1. lot[1] \in Prices /\ lot[2] \in Int32
      BY LotType
    <2>2. CASE \E fee \in Fees \cup {0} : PlaceBuyOrder(p, lot[1], lot[2], fee)
      BY <2>1, <2>2, EnterBidStep
    <2>3. CASE \E fee \in Fees \cup {0} : BuyNow(p, lot[1], lot[2], fee)
      BY <2>1, <2>3, BuyStep
    <2>4. CASE \E fee \in Fees \cup {0}, bid \in BOOLEAN, stack \in Stacks(p) :
                  PlaceSellOrder(p, bid, lot[1], lot[2], stack, fee)
      BY <2>1, <2>4, EnterItemStep
    <2>5. CASE \E stack \in Stacks(p) : SellNow(p, lot[1], lot[2], stack)
      BY <2>5, BookStutters DEF SellNow
    <2> QED BY <1>1, <2>2, <2>3, <2>4, <2>5 DEF Place
  <1>2. ASSUME NEW p \in Players, NEW o \in Ids, NEW lot \in Lots[p],
               NEW newPrice \in Prices,
               ModifyCharOrder(p, o, lot[1], newPrice, lot[2])
        PROVE  Book!Next
    BY <1>2, RepriceStep
  <1>3. ASSUME NEW p \in Players, NEW o \in Ids,
               CancelBuyOrder(p, o) \/ CancelSellOrder(p, o)
        PROVE  Book!Next
    BY <1>3, WithdrawStep
  <1>4. ASSUME NEW p \in Players, Login(p) \/ Logout(p)
        PROVE  UNCHANGED Book!vars
    BY <1>4, BookStutters DEF Login, Logout
  <1>5. ASSUME NEW o \in Ids, NEW tax \in Fees \cup {0}, ExecuteBuyOrder(o, tax)
        PROVE  Book!Next
    BY <1>5, DeliverStep
  <1>6. CASE UNCHANGED vars
    BY <1>6, BookStutters DEF vars
  <1> QED BY <1>1, <1>2, <1>3, <1>4, <1>5, <1>6 DEF Next, Turn

\* The market implements the order book: for the goods, a call that throws half
\* way is a step of its own or none.
THEOREM OrderBookImplemented == Spec => ImplementsOrderBook
  <1>1. Init => Book!Init
    BY BookInit
  <1>2. Inv /\ [Next]_vars => [Book!Next]_(Book!vars)
    BY BookStep
  <1> QED BY <1>1, <1>2, Invariance, PTL DEF Spec, ImplementsOrderBook, Book!Spec
=============================================================================
