CONSTANTS
  c1 = c1
  c2 = c2
  c3 = c3
  i1 = i1
  Chars <- Two
  Items <- OneItem
  Owner0 <- OwnerMiddle
  Wallet0 <- WalletsTwo
  Amounts = {0, 1, 2}
  MaxBalance = 2
  Pairs <- OneWay
  Movers <- Two
  MaxSessions = 1
SPECIFICATION Spec
INVARIANT CancelledTookNothing
CHECK_DEADLOCK FALSE
