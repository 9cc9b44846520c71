CONSTANTS
  p1 = p1
  p2 = p2
  Players <- Two
  Npc = Npc
  NoOrder = NoOrder
  NoSale = NoSale
  Prices <- ThreeFour
  Unit = 2
  Half = 3
  Lots <- LotsOf
  MaxOrders = 3
  Fees <- TwoEither
  MaxBalance = 5
  MaxMoney = 6
  SeedPrice = 4
  SeedVolume = 2
  Hangar0 <- Hangars
  Wallet0 <- Wallets
SPECIFICATION Spec
INVARIANTS TypeOK
PROPERTIES GoodsKept OverdrawnOffline DrawEndsOrder SellerPaid ImplementsOrderBook
CHECK_DEADLOCK FALSE
