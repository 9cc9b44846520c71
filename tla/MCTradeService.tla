--------------------------- MODULE MCTradeService ---------------------------
(* Instances of TradeService for TLC: up to three characters, one item.     *)
EXTENDS TradeService, TLC

CONSTANTS c1, c2, c3, i1

Three == {c1, c2, c3}
Two == {c1, c2}
OneItem == {i1}

\* The second character is invited by one and invites another, so that the
\* third may find a session it has no part in.
Crossing == {<<c1, c2>>, <<c2, c3>>}
OneWay == {<<c1, c2>>}

\* The one in the middle is `her' of one trade and `my' of the other when it goes.
Middle == {c2}

\* The item is the second character's; the first one has some money, and no
\* wallet holds more than two.
OwnerMiddle == (i1 :> c2)
Offers == {-1, 1}
Wallets == (c1 :> 1) @@ (c2 :> 0) @@ (c3 :> 0)
WalletsTwo == (c1 :> 1) @@ (c2 :> 0)
=============================================================================
