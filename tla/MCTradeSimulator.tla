------------------------- MODULE MCTradeSimulator -------------------------
(***************************************************************************)
(* Instances of TradeSimulator for TLC.  Each set below chooses the        *)
(* requests and modifications of one question; the cfg files pick one.     *)
(***************************************************************************)
EXTENDS TradeSimulator

Req(type, dir, lots, price, stop, sl, tp) ==
  [type |-> type, dir |-> dir, lots |-> lots,
   price |-> price, stop |-> stop, sl |-> sl, tp |-> tp]

Chg(price, limit, sl, tp) ==
  [price |-> price, limit |-> limit, sl |-> sl, tp |-> tp]

\* Resting orders of both directions, with modifications that cross.
BookRequests ==
  {Req("LIMIT", "LONG", 2, 2, None, None, 4),
   Req("LIMIT", "SHORT", 1, 3, None, None, None),
   Req("STOP", "LONG", 1, None, 4, 2, None),
   Req("STOP_LIMIT", "SHORT", 2, 3, 1, None, None),
   Req("STOP_LIMIT", "LONG", 0, 3, 4, None, None)}
BookChanges ==
  {Chg(3, Unset, Unset, None), Chg(2, 2, Unset, Unset)}

\* Closes: everything, nothing, a part, all but dust, too much.
PartialCloses == {Unset, 0, 1, 3, 5}

\* Positions: market orders with levels, partial closes, level changes.
PositionRequests ==
  {Req("MARKET", "LONG", 4, None, None, 1, None),
   Req("MARKET", "SHORT", 3, None, None, None, 2)}
PositionChanges ==
  {Chg(Unset, Unset, 2, Unset), Chg(Unset, Unset, Unset, 3)}

=============================================================================
