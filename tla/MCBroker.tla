------------------------------- MODULE MCBroker -------------------------------
(* The boundary to the broker on small instances, one part at a time: the    *)
(* pre-trade guard, the adapter, the start of a session, the rules of a       *)
(* broker configuration, and the mock broker.                                *)
EXTENDS OrderGuard, BrokerAdapter, SessionBoot, BrokerRules, MockBroker
CONSTANT Parts
VARIABLE part

BothDirections == {"LONG", "SHORT"}

----------------------------------------------------------------------------
(* The adapter: a symbol with a pair of its own and one without.             *)

MCPairs == [BTCUSD |-> "XXBTZUSD", DOTUSD |-> ""]
Place(s, d, t, l, p) == [symbol |-> s, dir |-> d, type |-> t, lots |-> l, price |-> p]
MCPlacements == {Place("BTCUSD", "LONG", "LIMIT", 2, 5), Place("DOTUSD", "SHORT", "MARKET", 1, 0)}
MCCalls == [dry |-> 4, live |-> 3]

\* The adapter when it is not looked at: its clock has stopped.
AdapterOver ==
    /\ dryRun = TRUE /\ mono = MaxMono /\ wall = MaxMono + 1 /\ lock = Nobody /\ lastRequest = 0 /\ lastNonce = 0
    /\ call = [t \in Threads |-> Idle] /\ made = 0 /\ wire = <<>> /\ venue = <<>>
    /\ simulated = <<>> /\ counter = 0 /\ told = <<>> /\ view = {}

----------------------------------------------------------------------------
(* Sessions: every adapter, configuration mode, source of signals and ticks, *)
(* and a fault at each stage that can fail.                                  *)

MCMarkets == [BTCUSD |-> [base |-> "BTC", quote |-> "USD"], ETHEUR |-> [base |-> "ETH", quote |-> "EUR"]]
LiveProfile ==
    [adapter |-> "live", mode |-> "dynamic", symbol |-> "BTCUSD", dry |-> "unset", brokerDry |-> TRUE, study |-> FALSE,
     spot |-> TRUE, reconcile |-> TRUE, audit |-> FALSE, poll |-> FALSE, signals |-> {}, source |-> "kraken",
     settings |-> FALSE, balances |-> {}, currency |-> "", fault |-> "none"]
MockProfile == [LiveProfile EXCEPT !.adapter = "mock", !.settings = TRUE, !.balances = {"BTC"}, !.source = "mock"]
MCProfiles ==
    {LiveProfile,
     [LiveProfile EXCEPT !.symbol = "ETHEUR", !.dry = "no"],
     [LiveProfile EXCEPT !.study = TRUE, !.brokerDry = FALSE],
     [LiveProfile EXCEPT !.study = TRUE, !.spot = FALSE],
     [LiveProfile EXCEPT !.dry = "yes", !.brokerDry = FALSE, !.poll = TRUE, !.signals = {"a"}, !.source = "other"],
     [LiveProfile EXCEPT !.mode = "static", !.poll = TRUE, !.signals = {"a", "b"}],
     [LiveProfile EXCEPT !.mode = "static", !.signals = {"a"}],
     [LiveProfile EXCEPT !.signals = {"a"}],
     [LiveProfile EXCEPT !.poll = TRUE, !.signals = {"a"}],
     [LiveProfile EXCEPT !.fault = "clock"],
     [LiveProfile EXCEPT !.fault = "credentials"],
     [MockProfile EXCEPT !.signals = {"a"}],
     [MockProfile EXCEPT !.balances = {}, !.fault = "data"]}

----------------------------------------------------------------------------
(* Configurations: a MetaTrader and a Kraken broker, and each with one thing *)
(* wrong or missing.                                                         *)

Instrument(b, q, m, mn, mx, st, ok, co) ==
    [fields |-> SymbolFields, base |-> b, quote |-> q, margin |-> m, min |-> mn, max |-> mx, step |-> st,
     contract |-> 4, allowed |-> ok, coarse |-> co, swap |-> "points"]
EURUSD == <<"EUR", "USD">>
BTCUSD == <<"BTC", "USD">>
DOTEUR == <<"DOT", "EUR">>
Plain == Instrument("EUR", "USD", "", 2, 6, 2, TRUE, FALSE)
MtConfig ==
    [type |-> "", path |-> "mt5", info |-> InfoFields \cup MarginFields, leverage |-> 4, margin_mode |-> "retail_netting",
     symbols |-> (EURUSD :> Plain) @@ (BTCUSD :> Instrument("BTC", "USD", "USD", 1, 5, 0, TRUE, TRUE)),
     fee |-> [model |-> "spread", rates |-> FALSE, maker |-> 0, taker |-> 0]]
KrConfig == [MtConfig EXCEPT !.type = "kraken_spot", !.path = "other", !.leverage = 1, !.info = InfoFields,
                             !.fee = [model |-> "maker_taker", rates |-> TRUE, maker |-> 16, taker |-> 26]]
MCConfigs ==
    {MtConfig, KrConfig, [MtConfig EXCEPT !.info = InfoFields], [MtConfig EXCEPT !.fee.model = "tiered"],
     [MtConfig EXCEPT !.fee.model = "none"],
     [MtConfig EXCEPT !.fee.model = "maker_taker"], [KrConfig EXCEPT !.fee.rates = FALSE],
     [MtConfig EXCEPT !.type = "binance_futures"], [MtConfig EXCEPT !.type = "ftx"], [MtConfig EXCEPT !.path = "other"],
     [KrConfig EXCEPT !.type = "", !.path = "kraken", !.leverage = 2, !.info = InfoFields \cup MarginFields,
                      !.margin_mode = "odd"],
     [KrConfig EXCEPT !.type = ""], [MtConfig EXCEPT !.symbols = <<>>], [MtConfig EXCEPT !.margin_mode = "odd"],
     [MtConfig EXCEPT !.info = @ \ {"server"}], [KrConfig EXCEPT !.leverage = 3]}
    \cup {[c EXCEPT !.symbols[EURUSD] = y] : c \in {MtConfig, KrConfig},
            y \in {[Plain EXCEPT !.base = "GBP"], [Plain EXCEPT !.margin = "JPY"], [Plain EXCEPT !.allowed = FALSE],
                   [Plain EXCEPT !.base = ""], [Plain EXCEPT !.fields = {"digits"}], [Plain EXCEPT !.swap = "yearly"]}}
MCNeeds == {{EURUSD, BTCUSD, DOTEUR}, {BTCUSD}, {DOTEUR}}
MCAsks == [symbol : {EURUSD, BTCUSD, DOTEUR}, side : {"buy", "sell"}, lots : {1, 3, 4, 7},
           type : {"MARKET", "LIMIT", "STOP", "STOP_LIMIT", "ICEBERG"}, price : {0, 104}, stop : {0, 95}, visible : {2}]
MCRequired == {{"MARKET"}, {"MARKET", "LIMIT", "STOP_LIMIT"}, {"STOP"}, {"LIMIT", "ICEBERG"}}
MCQuotes == {[bid |-> 100, ask |-> 102], [bid |-> 107, ask |-> 107]}

----------------------------------------------------------------------------

MCInit ==
    /\ part \in Parts
    /\ Init /\ BootInit
    /\ IF part = "adapter" THEN AdapterInit ELSE AdapterOver
    /\ IF part = "rules" THEN RulesInit ELSE desk = FirstDesk(MtConfig)
    /\ IF part = "mock" THEN MockInit ELSE MockInit /\ mockMode = "timeout" /\ perFill = 1

MCNext ==
    /\ UNCHANGED part
    /\ \/ part = "guard" /\ Next /\ UNCHANGED <<adapterVars, bootVars, desk, mockVars>>
       \/ part = "adapter" /\ AdapterNext /\ UNCHANGED <<vars, bootVars, desk, mockVars>>
       \/ part = "boot" /\ BootNext /\ UNCHANGED <<vars, adapterVars, desk, mockVars>>
       \/ part = "rules" /\ RulesNext /\ UNCHANGED <<vars, adapterVars, bootVars, mockVars>>
       \/ part = "mock" /\ MockNext /\ UNCHANGED <<vars, adapterVars, bootVars, desk>>

\* With the fairness of the guard's clock and of the adapter's threads.
MCSpec ==
    /\ MCInit /\ [][MCNext]_<<part, vars, adapterVars, bootVars, desk, mockVars>>
    /\ WF_vars(Clock) /\ AdapterFairness

\* What is decided with a broker's configuration, and what the mock broker of
\* the sessions without a broker answers, keeps the configuration's rules.
RulesKept == RulesSound /\ MockSound

\* No direction stays blocked and no call to the broker hangs.
BoundaryLive == BlockEnds /\ CallsEnd
=============================================================================
