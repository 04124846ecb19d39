-------------------------- MODULE PortfolioManager --------------------------
(***************************************************************************)
(* The account of one scenario: PortfolioManager, with the funds checks of *)
(* AbstractTradeExecutor._fill_open_order in front of it, for an account   *)
(* in the symbol's quote currency.                                         *)
(*                                                                         *)
(* Valuation is lazy: a tick only marks the positions dirty, the next call *)
(* that needs P&L refreshes them all, and further calls on the same tick   *)
(* use the cached values.  Which values a close, a funds check or a report *)
(* sees therefore depends on the order of calls within a tick, which the   *)
(* variable phase takes from on_tick (fills, then SL/TP, then the          *)
(* algorithm's turn) and heartbeat (fills only, prices do not move).       *)
(*                                                                         *)
(* Fees, cached P&L and their proportional split on a partial close are    *)
(* all linear in the lots, so a position keeps them per lot.  Money is     *)
(* counted in points times lots.                                           *)
(***************************************************************************)
EXTENDS OrderPricing, FiniteSets, Sequences, SequencesExt

CONSTANTS
  MaxPositions,     \* bound: orders filled between two resets
  Bids, Spread,     \* as in TradeSimulator
  Orders,           \* the orders that may reach _fill_open_order
  Modes,            \* the kinds of account: "margin" (leverage > 1), "spot"
  Leverage,
  InitialBalance,   \* in the quote currency, which is the account's
  InitialBase,      \* spot: in the base currency
  EntryFee,         \* entry fee per lot
  SwapCost,         \* signed swap per lot and rollover, by direction
  MaxNights,        \* bound: swap rollovers the clock passes
  HistoryMax        \* trade_history_max

Ids == 1..MaxPositions
Order ==
  [dir: Directions, lots: Nat \ {0}, price: Nat, sl: Nat, tp: Nat]

ASSUME PortfolioAssumption ==
  /\ MaxPositions \in Nat /\ Bids \subseteq Nat \ {0} /\ Spread \in Nat
  /\ Orders \subseteq Order
  /\ Modes \subseteq {"margin", "spot"} /\ Leverage \in Nat \ {0}
  /\ InitialBalance \in Int /\ InitialBase \in Nat
  /\ EntryFee \in Nat /\ SwapCost \in [Directions -> Int]
  /\ MaxNights \in Nat /\ HistoryMax \in Nat \ {0}

VARIABLES
  mode,        \* the kind of account, fixed from the start
  tick,        \* _current_tick
  phase,       \* "fills", "sltp", "beat" (a heartbeat's fills), "turn"
  night,       \* the clock, as the number of swap rollovers it has passed
  dirty,       \* _positions_dirty
  positions,   \* open_positions
  arrived,     \* positions opened since the algorithm's last turn
  used,        \* ids used up
  balance,     \* _balances[quote]
  base,        \* _balances[base]
  realized,    \* realized_pnl
  totalFees,   \* _cost_tracking.total_fees
  history,     \* _trade_history, at most the last HistoryMax records
  trades, wins, profit, loss,   \* _total_trades, _winning_trades, ...
  peak, drawdown                \* _max_equity, _max_drawdown

market == <<mode, tick, phase, night>>
money == <<balance, base, realized, totalFees>>
report == <<history, trades, wins, profit, loss, peak, drawdown>>
vars == <<market, dirty, positions, arrived, used, money, report>>

-----------------------------------------------------------------------------
Position ==
  [dir: Directions, lots: Nat \ {0}, entry: Nat, sl: Nat, tp: Nat,
   fee: Int, gross: Int, net: Int, nights: Nat]
Trade ==
  [id: Ids, dir: Directions, lots: Nat \ {0}, entry: Nat, exit: Nat,
   fees: Int, gross: Int, net: Int]

Sum(f) == FoldFunction(+, 0, f)
Without(f, D) == [i \in DOMAIN f \ D |-> f[i]]
Empty == [i \in {} |-> i]

\* The price a position is marked at and closed at by a market order, and
\* its gain per lot there.
ClosePrice(p, t) == IF p.dir = "LONG" THEN t.bid ELSE t.ask
Gain(p, price) == IF p.dir = "LONG" THEN price - p.entry ELSE p.entry - price

\* Position.update_current_price. unrealized_pnl = gross_pnl - total_fees.
UpdateCurrentPrice(p, price) ==
  [p EXCEPT !.gross = Gain(p, price), !.net = Gain(p, price) - p.fee]

\* _accrue_swap: one fee per rollover since the last accrual; the cached
\* P&L is left alone.
AccrueSwap(p) ==
  [p EXCEPT !.fee = @ + SwapCost[p.dir] * (night - p.nights), !.nights = night]

\* The positions after _ensure_positions_updated, and the fees it records.
Accrued ==
  [i \in DOMAIN positions |->
     IF mode = "spot" THEN positions[i] ELSE AccrueSwap(positions[i])]
Updated ==
  [i \in DOMAIN positions |->
     IF dirty THEN UpdateCurrentPrice(Accrued[i], ClosePrice(positions[i], tick))
              ELSE Accrued[i]]
SwapRecorded ==
  Sum([i \in DOMAIN positions |->
         (Accrued[i].fee - positions[i].fee) * positions[i].lots])

\* _calculate_equity, from cached P&L.
Equity(money_, ps) == money_ + Sum([i \in DOMAIN ps |-> ps[i].net * ps[i].lots])

-----------------------------------------------------------------------------
(* Opening: _fill_open_order and open_position *)

EntryPrice(o) ==
  CASE o.price # None -> o.price
    [] OTHER -> IF o.dir = "LONG" THEN tick.ask ELSE tick.bid

\* A market order, or a limit order the market has reached.
Reached(o) == o.price = None \/ LimitReached(o, tick)

\* The margin check, multiplied by the leverage: calculate_margin prices all
\* positions on the side of the order to be filled.
MarginSuffices(o) ==
  LET side == IF o.dir = "LONG" THEN tick.ask ELSE tick.bid
      exposure == side * Sum([i \in DOMAIN positions |-> positions[i].lots])
  IN o.lots * side <= Leverage * Equity(balance, Updated) - exposure

\* Mutant: a buy is checked without its fee.
FundsSufficeNoFee(o) ==
  IF o.dir = "LONG" THEN o.lots * EntryPrice(o) <= balance ELSE o.lots <= base

FundsSuffice(o) ==
  IF o.dir = "LONG"
  THEN o.lots * EntryPrice(o) + o.lots * EntryFee <= balance
  ELSE o.lots <= base

\* A new position has no cached P&L yet: gross and net start at zero.
NewPosition(o) ==
  [dir |-> o.dir, lots |-> o.lots, entry |-> EntryPrice(o), sl |-> o.sl, tp |-> o.tp,
   fee |-> EntryFee, gross |-> 0, net |-> 0, nights |-> night]

\* In margin mode the check itself refreshes the positions, filled or not.
FillMargin(i, o) ==
  /\ mode = "margin"
  /\ dirty' = FALSE
  /\ IF MarginSuffices(o)
     THEN /\ positions' = Updated @@ (i :> NewPosition(o))
          /\ arrived' = arrived \cup {i}
          /\ totalFees' = totalFees + SwapRecorded + o.lots * EntryFee
     ELSE /\ positions' = Updated
          /\ totalFees' = totalFees + SwapRecorded
          /\ UNCHANGED arrived
  /\ UNCHANGED <<balance, base>>

FillSpot(i, o) ==
  /\ mode = "spot"
  /\ IF FundsSuffice(o)
     THEN /\ positions' = positions @@ (i :> NewPosition(o))
          /\ arrived' = arrived \cup {i}
          /\ totalFees' = totalFees + o.lots * EntryFee
          /\ balance' = balance - o.lots * EntryFee
               + (IF o.dir = "LONG" THEN -1 ELSE 1) * o.lots * EntryPrice(o)
          /\ base' = base + (IF o.dir = "LONG" THEN o.lots ELSE -o.lots)
     ELSE UNCHANGED <<positions, arrived, totalFees, balance, base>>
  /\ UNCHANGED dirty

FillOpenOrder(o) ==
  /\ phase \in {"fills", "beat"} /\ used < MaxPositions /\ Reached(o)
  /\ used' = used + 1
  /\ FillMargin(used + 1, o) \/ FillSpot(used + 1, o)
  /\ UNCHANGED <<market, realized, report>>

-----------------------------------------------------------------------------
(* Closing *)

\* Mutant: a loss is added with its sign.
UpdateStatisticsSigned(pnl, newBalance, ps) ==
  /\ trades' = trades + 1
  /\ wins' = IF pnl > 0 THEN wins + 1 ELSE wins
  /\ profit' = IF pnl > 0 THEN profit + pnl ELSE profit
  /\ loss' = IF pnl > 0 THEN loss ELSE loss + pnl
  /\ UNCHANGED <<peak, drawdown>>

\* _update_statistics, with the balance and the positions after the close.
UpdateStatistics(pnl, newBalance, ps) ==
  LET equity == Equity(newBalance, ps)
      top == IF equity > peak THEN equity ELSE peak
  IN
  /\ trades' = trades + 1
  /\ wins' = IF pnl > 0 THEN wins + 1 ELSE wins
  /\ profit' = IF pnl > 0 THEN profit + pnl ELSE profit
  /\ loss' = IF pnl > 0 THEN loss ELSE loss - pnl
  /\ peak' = top
  /\ drawdown' = IF top - equity > drawdown THEN top - equity ELSE drawdown

\* The history is a deque: a full one drops its oldest record.
AppendTrade(t) ==
  history' = LET h == Append(history, t) IN
             IF Len(h) > HistoryMax THEN Tail(h) ELSE h

TradeRecord(i, p, lots, exit, fees, gross, net) ==
  [id |-> i, dir |-> p.dir, lots |-> lots, entry |-> p.entry, exit |-> exit,
   fees |-> fees, gross |-> gross, net |-> net]

\* Mutant: the base currency of a SHORT is not bought back.
SpotCashLong(p, lots, exit) ==
  /\ balance' = balance + (IF p.dir = "LONG" THEN 1 ELSE -1) * lots * exit
  /\ base' = IF p.dir = "LONG" THEN base - lots ELSE base

\* What a close moves between the two currencies; there is no exit fee.
SpotCash(p, lots, exit) ==
  /\ balance' = balance + (IF p.dir = "LONG" THEN 1 ELSE -1) * lots * exit
  /\ base' = base + (IF p.dir = "LONG" THEN -lots ELSE lots)

\* close_position_portfolio. In spot mode the position is revalued at the
\* exit price; in margin mode the cached P&L is realized.
ClosePositionPortfolio(i, exit) ==
  LET u == Updated[i]
      p == IF mode = "spot" THEN UpdateCurrentPrice(u, exit) ELSE u
      pnl == p.net * p.lots
  IN
  /\ IF mode = "spot" THEN SpotCash(p, p.lots, exit)
     ELSE balance' = balance + pnl /\ UNCHANGED base
  /\ realized' = realized + pnl
  /\ positions' = Without(Updated, {i})
  /\ AppendTrade(TradeRecord(i, p, p.lots, exit, p.fee * p.lots, p.gross * p.lots, pnl))
  /\ UpdateStatistics(pnl, balance', positions')

\* Mutant: the fees of the part that stays open are not scaled down.
RemainingFullFees(p, lots) ==
  LET fee == (p.fee * p.lots) \div (p.lots - lots)
  IN [p EXCEPT !.lots = @ - lots, !.fee = fee, !.net = p.gross - fee]

\* What stays open: fewer lots, fees and P&L in proportion.
Remaining(p, lots) == [p EXCEPT !.lots = @ - lots, !.net = p.gross - p.fee]

\* partial_close_position: P&L and fees of the closed part come from the
\* refreshed position in both modes.
PartialClosePosition(i, lots, exit) ==
  LET p == Updated[i]
      pnl == (p.gross - p.fee) * lots
  IN
  /\ lots < p.lots
  /\ IF mode = "spot" THEN SpotCash(p, lots, exit)
     ELSE balance' = balance + pnl /\ UNCHANGED base
  /\ realized' = realized + pnl
  /\ positions' = [Updated EXCEPT ![i] = Remaining(p, lots)]
  /\ AppendTrade(TradeRecord(i, p, lots, exit, p.fee * lots, p.gross * lots, pnl))
  /\ UpdateStatistics(pnl, balance', positions')

Refresh == dirty' = FALSE /\ totalFees' = totalFees + SwapRecorded

\* A close order that leaves the latency queue. The algorithm sent it in an
\* earlier turn, when the position was already open.
FillCloseOrder(i) ==
  /\ phase \in {"fills", "beat"} /\ i \in DOMAIN positions \ arrived
  /\ LET exit == ClosePrice(positions[i], tick) IN
       \/ ClosePositionPortfolio(i, exit)
       \/ \E lots \in 1 .. positions[i].lots - 1 : PartialClosePosition(i, lots, exit)
  /\ Refresh
  /\ UNCHANGED <<market, arrived, used>>

\* _check_sl_tp_triggers: the exit price is the level, and the stop loss is
\* looked at first.
Triggered == {i \in DOMAIN positions :
                SlTriggered(positions[i], tick) \/ TpTriggered(positions[i], tick)}
TriggerClose(i) ==
  /\ phase = "sltp" /\ i \in Triggered
  /\ ClosePositionPortfolio(i, IF SlTriggered(positions[i], tick)
                               THEN positions[i].sl ELSE positions[i].tp)
  /\ Refresh
  /\ UNCHANGED <<market, arrived, used>>

-----------------------------------------------------------------------------
(* The calls around it *)

\* on_tick: the clock may have passed a rollover, mark_dirty stores the tick.
OnTick(bid, rollover) ==
  /\ phase = "turn" /\ night + rollover <= MaxNights
  /\ tick' = [bid |-> bid, ask |-> bid + Spread]
  /\ night' = night + rollover
  /\ dirty' = TRUE
  /\ arrived' = {}
  /\ phase' = "fills"
  /\ UNCHANGED <<mode, positions, used, money, report>>

\* heartbeat: the clock moves, the tick does not.
Heartbeat(rollover) ==
  /\ phase = "turn" /\ night + rollover <= MaxNights
  /\ night' = night + rollover
  /\ arrived' = {}
  /\ phase' = "beat"
  /\ UNCHANGED <<mode, tick, dirty, positions, used, money, report>>

\* The pending orders of this tick or heartbeat are through.
PendingProcessed ==
  \/ /\ phase = "fills"
     /\ phase' = "sltp"
     /\ UNCHANGED <<mode, tick, night, dirty, positions, arrived, used, money, report>>
  \/ /\ phase = "beat" \/ (phase = "sltp" /\ Triggered = {})
     /\ phase' = "turn"
     /\ UNCHANGED <<mode, tick, night, dirty, positions, arrived, used, money, report>>

\* The algorithm asks for account info, which refreshes the positions.
GetAccountInfo ==
  /\ phase = "turn"
  /\ positions' = Updated
  /\ Refresh
  /\ UNCHANGED <<market, arrived, used, balance, base, realized, report>>

\* reset
Reset ==
  /\ phase = "turn"
  /\ positions' = Empty /\ arrived' = {} /\ used' = 0
  /\ balance' = InitialBalance /\ base' = InitialBase
  /\ realized' = 0 /\ totalFees' = 0
  /\ history' = <<>> /\ trades' = 0 /\ wins' = 0 /\ profit' = 0 /\ loss' = 0
  /\ peak' = InitialBalance /\ drawdown' = 0
  /\ UNCHANGED <<market, dirty>>

Init ==
  /\ mode \in Modes
  /\ \E bid \in Bids : tick = [bid |-> bid, ask |-> bid + Spread]
  /\ phase = "turn" /\ night = 0 /\ dirty = TRUE
  /\ positions = Empty /\ arrived = {} /\ used = 0
  /\ balance = InitialBalance /\ base = InitialBase
  /\ realized = 0 /\ totalFees = 0
  /\ history = <<>> /\ trades = 0 /\ wins = 0 /\ profit = 0 /\ loss = 0
  /\ peak = InitialBalance /\ drawdown = 0

Next ==
  \/ \E o \in Orders : FillOpenOrder(o)
  \/ \E i \in Ids : FillCloseOrder(i) \/ TriggerClose(i)
  \/ \E bid \in Bids, rollover \in {0, 1} : OnTick(bid, rollover)
  \/ \E rollover \in {0, 1} : Heartbeat(rollover)
  \/ PendingProcessed
  \/ GetAccountInfo
  \/ Reset

Spec == Init /\ [][Next]_vars

-----------------------------------------------------------------------------
(* Properties *)

\* Positions, trade records and totals are well-formed; no lot count is zero.
TypeOK ==
  /\ mode \in Modes
  /\ tick \in [bid: Nat, ask: Nat]
  /\ phase \in {"fills", "sltp", "beat", "turn"}
  /\ night \in 0..MaxNights /\ dirty \in BOOLEAN
  /\ DOMAIN positions \subseteq Ids /\ positions \in [DOMAIN positions -> Position]
  /\ arrived \subseteq Ids /\ used \in 0..MaxPositions
  /\ {balance, base, realized, totalFees, peak, drawdown} \subseteq Int
  /\ history \in Seq(Trade)
  /\ {trades, wins, profit, loss} \subseteq Nat

\* No record has been dropped from the trade history.
Complete == trades <= HistoryMax

Field(f(_)) == Sum([k \in DOMAIN history |-> f(history[k])])

\* The portfolio's totals are the totals of the trade records, whatever mix
\* of full, partial and SL/TP closes made them; in margin mode the balance
\* moved by exactly that much.
LedgerMatchesTrades ==
  /\ profit - loss = realized
  /\ mode = "margin" => balance = InitialBalance + realized
  /\ Complete =>
       /\ Len(history) = trades
       /\ Field(LAMBDA t : t.net) = realized
       /\ wins = Cardinality({k \in DOMAIN history : history[k].net > 0})

\* Every fee that was recorded as a cost is carried by exactly one trade
\* record or by a position that is still open.
FeesConserved ==
  Complete =>
    totalFees = Field(LAMBDA t : t.fees)
                + Sum([i \in DOMAIN positions |-> positions[i].fee * positions[i].lots])

\* Spot mode: the base currency held is what the open positions bought less
\* what they sold, and the quote currency is what was paid and received for
\* them and for every trade at its entry and exit price.
SpotConserved ==
  LET signed(p) == IF p.dir = "LONG" THEN p.lots ELSE -p.lots
      cash(t) == (t.exit - t.entry) * signed(t) - t.fees
  IN mode = "spot" =>
       /\ base = InitialBase + Sum([i \in DOMAIN positions |-> signed(positions[i])])
       /\ Complete =>
            balance = InitialBalance + Field(cash)
                      - Sum([i \in DOMAIN positions |->
                               signed(positions[i]) * positions[i].entry
                               + positions[i].fee * positions[i].lots])

\* Margin mode: while the cached P&L is current, a full, partial or SL/TP
\* close only moves P&L from the open positions to the balance: the equity
\* the account reports stays what it was.
CloseKeepsEquity ==
     /\ mode = "margin" /\ trades' = trades + 1
     /\ \A i \in DOMAIN positions :
          /\ Updated[i] = positions[i]
          /\ positions[i].net = positions[i].gross - positions[i].fee
     => Equity(balance', positions') = Equity(balance, positions)

\* Spot mode: a fill never spends currency the account does not have.
OpensAreFunded ==
  mode = "spot" /\ DOMAIN positions' \ DOMAIN positions # {}
       => (balance' >= 0 \/ balance' >= balance) /\ (base' >= 0 \/ base' >= base)

\* The books balance whatever is opened, closed in parts, charged and reset:
\* totals against trades, fees against trades and positions, funds against both.
BooksBalance == TypeOK /\ LedgerMatchesTrades /\ FeesConserved /\ SpotConserved

\* A step that closes keeps the equity, and one that opens in a spot account
\* was paid for.
StepsFunded == [][CloseKeepsEquity /\ OpensAreFunded]_vars
=============================================================================
