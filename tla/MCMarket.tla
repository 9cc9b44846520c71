------------------------------ MODULE MCMarket ------------------------------
(* An instance of Market for TLC: two characters and the seeded order.  An    *)
(* ISK has two parts, and int32 is -3..2.                                     *)
EXTENDS Market, TLC

CONSTANTS p1, p2

Two == {p1, p2}

\* Both buy orders are found when the dearer price is asked.
ThreeFour == {3, 4}

\* One calls with quantities that an item has, the other with one below zero,
\* which buys whole orders, and with 0.
LotsOf == (p1 :> {<<4, 1>>, <<4, 2>>}) @@ (p2 :> {<<3, -1>>, <<4, 0>>})

\* A share of less than nothing is less than nothing.
TwoEither == {-2, 2}

\* One has goods and money, the other neither.
Hangars == (p1 :> 2) @@ (p2 :> 0)
Wallets == (p1 :> 4) @@ (p2 :> 0)
=============================================================================
