---------------------------- MODULE OrderPricing ----------------------------
(***************************************************************************)
(* The price predicates the execution layer decides with: when a resting   *)
(* order is reached by the market, when a position's protective level is   *)
(* hit, and which protective levels are acceptable.  Prices are positive   *)
(* integers (a price rounded to the symbol's digits is an integer number   *)
(* of points).                                                             *)
(***************************************************************************)
EXTENDS Integers

\* An absent price (Python's None). Every real price is positive.
None == 0

\* A parameter the caller left out (the UNSET sentinel), or a close without
\* a lot size (close the whole position).
Unset == -1

Directions == {"LONG", "SHORT"}
OrderTypes == {"MARKET", "LIMIT", "STOP", "STOP_LIMIT"}

\* TradeSimulator._is_limit_price_reached: a buy limit waits for the ask to
\* fall to its price, a sell limit for the bid to rise to it.
LimitReached(o, t) ==
  \/ o.dir = "LONG"  /\ t.ask <= o.price
  \/ o.dir = "SHORT" /\ t.bid >= o.price

\* TradeSimulator._is_stop_price_reached: the opposite crossing.
StopReached(o, t) ==
  \/ o.dir = "LONG"  /\ t.ask >= o.price
  \/ o.dir = "SHORT" /\ t.bid <= o.price

\* Position.is_sl_triggered and Position.is_tp_triggered: a LONG closes at
\* the bid, a SHORT at the ask.
SlTriggered(p, t) ==
  /\ p.sl # None
  /\ \/ p.dir = "LONG"  /\ t.bid <= p.sl
     \/ p.dir = "SHORT" /\ t.ask >= p.sl

TpTriggered(p, t) ==
  /\ p.tp # None
  /\ \/ p.dir = "LONG"  /\ t.bid >= p.tp
     \/ p.dir = "SHORT" /\ t.ask <= p.tp

\* PortfolioManager._validate_sl_tp_levels: no rejection reason.
LevelsValid(dir, bid, ask, sl, tp) ==
  /\ sl # None => \/ dir = "LONG"  /\ sl < bid
                  \/ dir = "SHORT" /\ sl > ask
  /\ tp # None => \/ dir = "LONG"  /\ tp > bid
                  \/ dir = "SHORT" /\ tp < ask
  /\ (sl # None /\ tp # None) => \/ dir = "LONG"  /\ sl < tp
                                 \/ dir = "SHORT" /\ sl > tp

\* TradeSimulator._validate_limit_order_sl_tp: the same rule, measured from
\* the price the order will fill at.
OrderLevelsValid(dir, price, sl, tp) == LevelsValid(dir, price, price, sl, tp)

\* Mutant: the sentinel is taken for a value.
EffectiveRaw(new, current) == new

\* The UNSET convention of every modify call: keep the current value unless
\* the caller gave one.
Effective(new, current) == IF new = Unset THEN current ELSE new

=============================================================================
