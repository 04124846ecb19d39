----------------------------- MODULE MCPortfolio -----------------------------
(***************************************************************************)
(* Instances of PortfolioManager for TLC.                                  *)
(***************************************************************************)
EXTENDS PortfolioManager

Ord(dir, lots, price, sl, tp) ==
  [dir |-> dir, lots |-> lots, price |-> price, sl |-> sl, tp |-> tp]

\* Market and limit orders of both directions, with a level on either side.
MixedOrders ==
  {Ord("LONG", 2, None, 2, None),
   Ord("SHORT", 2, None, None, 3),
   Ord("LONG", 1, 5, None, 6)}

\* The long side pays swap, the short side earns it.
Swaps == [LONG |-> 2, SHORT |-> -1]

==============================================================================
