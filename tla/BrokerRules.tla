----------------------------- MODULE BrokerRules -----------------------------
(***************************************************************************)
(* What a broker configuration allows: how a configuration is checked and   *)
(* turned into an adapter (in the main process, and again from the same     *)
(* dictionary in a worker process), which order types a decision logic may   *)
(* require, which orders the adapters make, and what an opened and closed    *)
(* order is charged.  A symbol's name is the pair of currencies it spells,   *)
(* prices are points, rates are hundredths of a percent, and a tick value is *)
(* a fraction <<numerator, denominator>>.                                    *)
(***************************************************************************)
EXTENDS Integers, Sequences, FiniteSets, TLC

CONSTANTS Configs, Needs, Asks, RequiredTypes, Quotes, Accounts

VARIABLE desk

InfoFields == {"company", "server", "trade_mode", "leverage", "hedging_allowed"}
MarginFields == {"margin_mode", "stopout_level", "margin_call_level"}
SymbolFields == {"volume_min", "volume_max", "volume_step", "contract_size", "tick_size", "digits",
                 "trade_allowed", "base_currency", "quote_currency"}
MarginModes == {"retail_netting", "retail_hedging", "exchange", "none"}
SwapModes == {"points", "interest_current", "interest_open", "percentage", "none", "unknown"}
Mt5Types == {"mt5", "mt5_cfd", "mt5_crypto"}
BrokerTypes == Mt5Types \cup {"kraken_spot", "binance_futures"}
Error == "error"
Cannot == <<>>

----------------------------------------------------------------------------
(* A configuration: the checks every adapter makes, and its own.             *)

\* Mutant: the fields that leverage needs are not asked for.
CommonConfigValidSpot(c) == InfoFields \subseteq c.info /\ c.symbols # <<>>

CommonConfigValid(c) ==
    /\ InfoFields \subseteq c.info /\ c.symbols # <<>>
    /\ c.leverage > 1 => MarginFields \subseteq c.info
    /\ \A s \in DOMAIN c.symbols : LET y == c.symbols[s] IN
         SymbolFields \subseteq y.fields /\ y.margin \in {"", y.base, y.quote}
    /\ c.fee.model \in {"none", "spread", "maker_taker"}

KrakenConfigValid(c) == c.fee.model = "maker_taker" /\ c.fee.rates

\* The currencies must be the ones the name of the symbol spells, where both
\* are given.
ValidateSymbolIntegrity(c) ==
    \A s \in DOMAIN c.symbols : LET y == c.symbols[s] IN
        y.base = "" \/ y.quote = "" \/ s = <<y.base, y.quote>>

DetectBrokerType(c) ==
    IF c.type # "" THEN (IF c.type \in BrokerTypes THEN c.type ELSE Error)
    ELSE IF c.path = "mt5" THEN "mt5"
    ELSE IF c.path = "kraken" THEN "kraken_spot"
    ELSE IF {"leverage", "margin_mode"} \subseteq c.info THEN "mt5" ELSE Error

CreateAdapter(type, c) ==
    IF ~CommonConfigValid(c) THEN Error
    ELSE IF type \in Mt5Types THEN "mt5"
    ELSE IF type = "kraken_spot" /\ KrakenConfigValid(c) THEN "kraken" ELSE Error

\* What identifies the symbols of a configuration to the caches.
SymbolsHash(c) == c.symbols

BuildFromDict(c) ==
    LET type == DetectBrokerType(c)
        made == IF type = Error \/ ~ValidateSymbolIntegrity(c) THEN Error ELSE CreateAdapter(type, c) IN
    [type |-> type, adapter |-> made, hash |-> SymbolsHash(c)]

\* Mutant: a needed symbol without a configuration of its own takes another's.
SerializeBrokerConfigLax(c, needed) ==
    [c EXCEPT !.symbols = [s \in DOMAIN c.symbols \cap needed |-> c.symbols[CHOOSE t \in DOMAIN c.symbols : TRUE]]]

\* The worker process gets the symbols that some scenario needs, no others.
SerializeBrokerConfig(c, needed) ==
    [c EXCEPT !.symbols = [s \in DOMAIN c.symbols \cap needed |-> c.symbols[s]]]

FromSerializedDict(type, c) == [type |-> type, adapter |-> CreateAdapter(type, c), hash |-> SymbolsHash(c)]

----------------------------------------------------------------------------
(* Specifications and capabilities.                                          *)

Mt5Capabilities == {"MARKET", "LIMIT", "STOP", "STOP_LIMIT"}
KrakenCapabilities == {"MARKET", "LIMIT", "STOP_LIMIT", "ICEBERG"}
\* Mutant: every adapter has what MetaTrader has.
CapabilitiesAlike(a) == Mt5Capabilities

Capabilities(a) == IF a = "mt5" THEN Mt5Capabilities ELSE KrakenCapabilities

\* Mutant: whatever there is an adapter for can trade live.
IsLiveCapableAlways(a) == TRUE
\* What an adapter must bring to trade live, and which one brings it.
IsLiveCapable(a) == a = "kraken"
BuildsPayloads(a) == a = "kraken"
MakesRequests(a) == a = "kraken"
ParsesAnswers(a) == a = "kraken"

Mt5SymbolSpec(y) ==
    IF y.base = "" \/ y.quote = "" THEN <<>>
    ELSE [y EXCEPT !.margin = IF @ = "" THEN y.base ELSE @, !.swap = IF @ \in SwapModes THEN @ ELSE "unknown"]
KrakenSymbolSpec(y) == [y EXCEPT !.margin = y.quote, !.swap = "none"]
SymbolSpec(a, y) == IF a = "mt5" THEN Mt5SymbolSpec(y) ELSE KrakenSymbolSpec(y)

Mt5MarginMode(c) == IF c.margin_mode \in MarginModes THEN c.margin_mode ELSE "retail_hedging"
KrakenMarginMode(c) ==
    IF c.leverage = 1 THEN "none" ELSE IF c.margin_mode \in MarginModes THEN c.margin_mode ELSE "retail_netting"
BrokerSpec(a, c) == [leverage |-> c.leverage, margin_mode |-> IF a = "mt5" THEN Mt5MarginMode(c) ELSE KrakenMarginMode(c)]

----------------------------------------------------------------------------
(* Orders.                                                                   *)

\* Mutant: the lots are only bounded.
ValidateLotSizeBounds(y, lots) == lots >= y.min /\ lots <= y.max

ValidateLotSize(y, lots) ==
    /\ lots >= y.min /\ lots <= y.max
    /\ y.step > 0 => (lots - y.min) % y.step = 0

\* Both adapters refuse an unknown symbol, one that may not be traded and a
\* specification that cannot be made.
ValidateOrder(a, c, s, lots) ==
    /\ s \in DOMAIN c.symbols
    /\ c.symbols[s].allowed
    /\ SymbolSpec(a, c.symbols[s]) # <<>> /\ ValidateLotSize(SymbolSpec(a, c.symbols[s]), lots)

CreateMarketOrder(a, c, k) == ValidateOrder(a, c, k.symbol, k.lots)
CreateLimitOrder(a, c, k) == ValidateOrder(a, c, k.symbol, k.lots) /\ k.price > 0
CreateStopOrder(a, c, k) == a = "mt5" /\ ValidateOrder(a, c, k.symbol, k.lots) /\ k.stop > 0
CreateStopLimitOrder(a, c, k) == ValidateOrder(a, c, k.symbol, k.lots) /\ k.stop > 0 /\ k.price > 0
CreateIcebergOrder(a, c, k) == a = "kraken" /\ ValidateOrder(a, c, k.symbol, k.lots) /\ k.visible <= k.lots
CreateOrder(a, c, k) ==
    CASE k.type = "MARKET" -> CreateMarketOrder(a, c, k)
      [] k.type = "LIMIT" -> CreateLimitOrder(a, c, k)
      [] k.type = "STOP" -> CreateStopOrder(a, c, k)
      [] k.type = "STOP_LIMIT" -> CreateStopLimitOrder(a, c, k)
      [] OTHER -> CreateIcebergOrder(a, c, k)

\* Prices are rounded to the digits of the symbol (tens of points where it has
\* one digit less); an unknown symbol is left for the order's own checks.
RoundPrice(p, y) == IF y.coarse THEN ((p + 5) \div 10) * 10 ELSE p
NormalizeOrderRequest(a, c, k) ==
    IF k.symbol \notin DOMAIN c.symbols THEN k
    ELSE LET y == c.symbols[k.symbol] IN
         [k EXCEPT !.price = RoundPrice(@, y), !.stop = RoundPrice(@, y)]

ResolveOrderSide(side) == IF side = "buy" THEN "LONG" ELSE "SHORT"

\* Mutant: the side of the position, whatever is done with it.
DirectionSide(dir, action) == IF dir = "LONG" THEN "buy" ELSE "sell"

DirectionToSide(dir, action) ==
    IF dir = "LONG" THEN (IF action = "open" THEN "buy" ELSE "sell")
    ELSE IF action = "open" THEN "sell" ELSE "buy"

----------------------------------------------------------------------------
(* Money.                                                                    *)

\* Mutant: the side that is not dealt at values the position.
MarginPriceSwapped(q, dir) == IF dir = "LONG" THEN q.bid ELSE q.ask
MarginPrice(q, dir) == IF dir = "LONG" THEN q.ask ELSE q.bid

PositionValue(y, lots, q, dir) ==
    lots * y.contract * IF y.margin = y.quote THEN 1 ELSE MarginPrice(q, dir)

MarginRequired(y, c, lots, q, dir) ==
    LET v == PositionValue(y, lots, q, dir) IN IF c.leverage <= 1 THEN v ELSE v \div c.leverage

\* A tick is worth something in the account's currency only if that is one of
\* the symbol's two.
TickValue(y, account, price) ==
    IF account = y.quote THEN <<y.contract, 1>>
    ELSE IF account = y.base /\ price > 0 THEN <<y.contract, price>> ELSE Cannot

\* Mutant: the resting order pays as if it took.
MakerTakerCostTaker(c, maker, value) == value * c.fee.taker
MakerTakerCost(c, maker, value) == value * IF maker THEN c.fee.maker ELSE c.fee.taker
SpreadCost(q, lots, tick) == <<(q.ask - q.bid) * lots * tick[1], tick[2]>>

\* Only the Kraken adapter knows its rates.
EntryFee(a, y, c, k, q, tick) ==
    IF c.fee.model = "maker_taker"
    THEN (IF a = "kraken" THEN <<MakerTakerCost(c, k.type \in {"LIMIT", "STOP_LIMIT"}, k.lots * y.contract * q.ask), 1>>
          ELSE Cannot)
    ELSE SpreadCost(q, k.lots, tick)

\* The trade of a closing order is on the other side of the position, which may
\* be gone from the books by then.
SynthesizedSide(action, position, pending) ==
    IF action = "close" /\ position # "" THEN DirectionToSide(position, "close") ELSE DirectionToSide(pending, action)

----------------------------------------------------------------------------
(* The counter: a configuration comes in, is shipped to a worker process,    *)
(* the decision logic states what it needs, an order is made, filled and     *)
(* closed.                                                                   *)

At(pc) == desk.pc = pc
NoBroker == [type |-> "", adapter |-> Error, hash |-> <<>>]
FirstDesk(c) == [pc |-> "config", config |-> c, main |-> NoBroker, worker |-> NoBroker, needed |-> {}, types |-> {}, live |-> FALSE, sent |-> FALSE, ask |-> <<>>,
                
                 known |-> <<>>, account |-> "", quote |-> <<>>, margin |-> 0, tick |-> <<0, 1>>, fee |-> <<0, 1>>, trades |-> <<>>]
RulesInit == \E c \in Configs : desk = FirstDesk(c)

BuildBroker ==
    /\ At("config")
    /\ LET b == BuildFromDict(desk.config) IN
       desk' = [desk EXCEPT !.main = b, !.pc = IF b.adapter = Error THEN "refused" ELSE "ship"]

ShipBroker ==
    /\ At("ship")
    /\ \E needed \in Needs :
         LET c == SerializeBrokerConfig(desk.config, needed)
             b == FromSerializedDict(desk.main.type, c) IN
         desk' = IF desk.config.fee.model = "none" THEN [desk EXCEPT !.pc = "refused"]
                 ELSE [desk EXCEPT !.config = c, !.worker = b, !.needed = needed, !.pc = IF b.adapter = Error THEN "refused" ELSE "api"]

RequireOrderTypes ==
    /\ At("api")
    /\ \E types \in RequiredTypes, live \in BOOLEAN :
         LET a == desk.worker.adapter IN
         desk' = [desk EXCEPT !.types = types, !.live = live,
                              !.pc = IF types \subseteq Capabilities(a) /\ (live => IsLiveCapable(a))
                                     THEN "order" ELSE "refused"]

\* A specification is made once and kept.
SpecOf(s) ==
    IF s \in DOMAIN desk.known THEN desk.known[s] ELSE SymbolSpec(desk.worker.adapter, desk.config.symbols[s])

PlaceOrder ==
    /\ At("order")
    /\ \E k \in Asks : LET a == desk.worker.adapter
                           r == NormalizeOrderRequest(a, desk.config, k) IN
         desk' = IF k.type \in desk.types /\ CreateOrder(a, desk.config, r)
                 THEN [desk EXCEPT !.ask = r, !.pc = "fill", !.known = (r.symbol :> SpecOf(r.symbol)) @@ @]
                 ELSE [desk EXCEPT !.ask = r, !.pc = "rejected"]

\* A live order goes through all three tiers of the adapter.
SendLive ==
    /\ At("fill") /\ desk.live /\ ~desk.sent
    /\ LET a == desk.worker.adapter IN
       desk' = IF BuildsPayloads(a) /\ MakesRequests(a) /\ ParsesAnswers(a) THEN [desk EXCEPT !.sent = TRUE]
               ELSE [desk EXCEPT !.pc = "unimplemented"]

FillOrder ==
    /\ At("fill") /\ desk.sent = desk.live
    /\ \E q \in Quotes, account \in Accounts :
         LET y == SpecOf(desk.ask.symbol)
             dir == ResolveOrderSide(desk.ask.side)
             tick == TickValue(y, account, q.ask)
             fee == IF tick = Cannot THEN Cannot ELSE EntryFee(desk.worker.adapter, y, desk.config, desk.ask, q, tick) IN
         desk' = IF fee = Cannot THEN [desk EXCEPT !.pc = "failed", !.account = account]
                 ELSE [desk EXCEPT !.pc = "open", !.account = account, !.quote = q, !.tick = tick, !.fee = fee,
                                   !.margin = MarginRequired(y, desk.config, desk.ask.lots, q, dir),
                                   !.trades = <<SynthesizedSide("open", "", dir)>>]

CloseOrder ==
    /\ At("open")
    /\ LET dir == ResolveOrderSide(desk.ask.side) IN
       \E position \in {dir, ""} :
         desk' = [desk EXCEPT !.pc = "closed", !.trades = Append(@, SynthesizedSide("close", position, dir))]

RulesNext == BuildBroker \/ ShipBroker \/ RequireOrderTypes \/ PlaceOrder \/ SendLive \/ FillOrder \/ CloseOrder

----------------------------------------------------------------------------

\* A worker process trades with the broker the main process accepted: the same
\* adapter and the same specification of every symbol a scenario needs, although
\* it checks and detects less (from_serialized_dict against build_from_dict).
RebuiltSame ==
    desk.worker # NoBroker =>
        /\ desk.worker.type = desk.main.type
        /\ desk.worker.adapter = IF desk.needed \cap DOMAIN desk.main.hash = {} THEN Error ELSE desk.main.adapter
        /\ \A s \in DOMAIN desk.worker.hash : desk.worker.hash[s] = desk.main.hash[s]

\* An order that is made keeps the broker's rules: a symbol that may be traded,
\* lots within the limits and on the step, prices that are positive and on the
\* grid, a type the logic asked for and the broker has.
OrdersWithinRules ==
    At("fill") \/ At("open") \/ At("closed") =>
        LET k == desk.ask
            y == desk.config.symbols[k.symbol] IN
        /\ y.allowed /\ k.lots \in y.min .. y.max /\ (y.step > 0 => \E n \in 0 .. 100 : k.lots = y.min + n * y.step)
        /\ k.type \in desk.types \cap Capabilities(desk.main.adapter)
        /\ k.type \in {"LIMIT", "STOP_LIMIT"} => k.price > 0 /\ (y.coarse => k.price % 10 = 0)
        /\ k.type \in {"STOP", "STOP_LIMIT"} => k.stop > 0

\* What a logic was promised it can have: an order of a type it requires, on a
\* symbol that may be traded and with lots and prices in order, is never refused.
PromisesKept ==
    At("rejected") => LET k == desk.ask IN
        k.type \in desk.types /\ k.symbol \in DOMAIN desk.config.symbols =>
            LET y == desk.config.symbols[k.symbol] IN
            \/ ~y.allowed \/ y.base = "" \/ y.quote = ""
            \/ k.lots < y.min \/ k.lots > y.max \/ (y.step > 0 /\ (k.lots - y.min) % y.step # 0)
            \/ k.type \in {"LIMIT", "STOP_LIMIT"} /\ k.price <= 0
            \/ k.type \in {"STOP", "STOP_LIMIT"} /\ k.stop <= 0
            \/ k.type = "ICEBERG" /\ k.visible > k.lots

\* An opened position is backed by a margin that, times the leverage, is its
\* value at the price it was dealt at, and that needs the margin levels only a
\* leveraged configuration must have.
MarginBacksPosition ==
    At("open") => LET y == SpecOf(desk.ask.symbol) IN
        /\ desk.config.leverage > 1 => MarginFields \subseteq desk.config.info
        /\ LET p == IF desk.ask.side = "buy" THEN desk.quote.ask ELSE desk.quote.bid
               v == desk.ask.lots * y.contract * (IF y.margin = y.quote THEN 1 ELSE p) IN
             desk.margin * desk.config.leverage <= v /\ v < (desk.margin + 1) * desk.config.leverage

\* A fee is charged in the account's own currency and is what the fee model says:
\* the spread of the lots, or the rate of the side of the book the order was on.
FeesTrue ==
    At("open") => LET y == SpecOf(desk.ask.symbol) IN
        /\ desk.account \in {y.base, y.quote}
        /\ desk.config.fee.model = "maker_taker" =>
             desk.fee[1] = desk.ask.lots * y.contract * desk.quote.ask *
                 IF desk.ask.type \in {"LIMIT", "STOP_LIMIT"} THEN desk.config.fee.maker ELSE desk.config.fee.taker
        /\ desk.config.fee.model # "maker_taker" =>
             desk.fee[1] * desk.tick[2] = (desk.quote.ask - desk.quote.bid) * desk.ask.lots * desk.tick[1] * desk.fee[2]

\* A session that starts live never meets a part its adapter does not have.
LiveTiersComplete == ~At("unimplemented")

\* A round trip buys once and sells once.
RoundTripSides == At("closed") => {desk.trades[1], desk.trades[2]} = {"buy", "sell"} /\ desk.trades[1] = desk.ask.side

\* A worker trades with the broker that was accepted, within its rules and with
\* what was promised, backed and charged as its configuration says.
RulesSound ==
    RebuiltSame /\ OrdersWithinRules /\ PromisesKept /\ MarginBacksPosition /\ FeesTrue
    /\ RoundTripSides /\ LiveTiersComplete
=============================================================================
