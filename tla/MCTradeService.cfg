CONSTANTS
  c1 = c1
  c2 = c2
  c3 = c3
  i1 = i1
  Chars <- Three
  Items <- OneItem
  Owner0 <- OwnerMiddle
  Wallet0 <- Wallets
  Amounts <- Offers
  MaxBalance = 1
  Pairs <- Crossing
  Movers <- Middle
  MaxSessions = 2
SPECIFICATION Spec
INVARIANTS TypeOK HeldIsListed ActiveIsOpen
PROPERTIES TradeSwapsItems MoneyKept PaidAsAgreed
CHECK_DEADLOCK FALSE
