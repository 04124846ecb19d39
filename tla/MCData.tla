-------------------------------- MODULE MCData --------------------------------
(* The offline parts on small instances, one at a time: the tick archive, a *)
(* batch, the discovery caches, the generation of windows, the signals, and *)
(* the way of a scenario set file into its processes.                       *)
EXTENDS DataArchive, BatchExecution, DiscoveryCache, ScenarioWindows, SignalArchive, ScenarioSetup
CONSTANT Parts
VARIABLE part

----------------------------------------------------------------------------
(* The archive: with all the ways a run can go, good exports of two symbols,  *)
(* one without ticks and one of an unknown broker; with fewer, every content  *)
(* of a small export, and three exports of one symbol in every order of their *)
(* times.  The broker's clock is three hours ahead.                           *)

MCExports == {"x1", "x2", "x3", "x4"}
MCOffset == [mt5 |-> -3, kraken |-> 0]
AnHour == 3600000
Tick(time, lag) == [stamp |-> time, time |-> time, collected |-> time - 3 * AnHour + lag, bid |-> 5, ask |-> 6]
Unstamped(tick) == [tick EXCEPT !.collected = 0]
Export(symbol, ts) ==
    [symbol |-> symbol, structured |-> TRUE, broker |-> "mt5", collector |-> "none", declared |-> Len(ts), timed |-> TRUE, ticks |-> ts]
Noon == 12 * AnHour
ADay == 24 * AnHour
Only(xs) == [e \in MCExports |-> IF e \in DOMAIN xs THEN xs[e] ELSE NoExport]

Plain == Export("A", <<Tick(Noon, 5), Tick(Noon + 10, 20)>>)
Elsewhere == [Export("A", <<Tick(Noon, 3 * AnHour)>>) EXCEPT !.broker = "none", !.collector = "kraken"]
Everyday == Only([x1 |-> Plain, x2 |-> Elsewhere, x3 |-> Export("B", <<Tick(Noon, 0)>>)])

Wrongs ==
    {Plain, Export("A", <<>>), [Plain EXCEPT !.structured = FALSE], [Plain EXCEPT !.broker = "other"], [Plain EXCEPT !.declared = 3], [Plain EXCEPT !.declared = NotDeclared],
     [Plain EXCEPT !.ticks[2].bid = 7], [Plain EXCEPT !.ticks[1].ask = 0], [Plain EXCEPT !.ticks[1].stamp = @ - 1001],
     [Plain EXCEPT !.broker = "none"], [Plain EXCEPT !.ticks[1].time = @ + 11], [Plain EXCEPT !.timed = FALSE, !.ticks[1].time = 0]}
Lags == {-300001, -300000, 0, 300000, 300001, 8 * ADay}
Timings ==
    {Export("A", <<Tick(Noon, a), Tick(Noon + t, b), Tick(Noon + 2 * t, c)>>) :
        a, b, c \in Lags, t \in {0, 600000, 8 * ADay}}
    \cup {Export("A", <<Unstamped(Tick(Noon, 0)), Tick(Noon, 0)>>), Export("A", <<Unstamped(Tick(Noon, 0))>>)}
\* Files of one or two ticks, the second's stamp a second early or late.
Short(t, d, lag) == Export("A", <<Tick(Noon + t, 0), [Tick(Noon + t + d, lag) EXCEPT !.stamp = @ + 1000 - 2 * d]>>)
Files(times) == {Short(t, d, lag) : t \in times, d \in {0, 1000}, lag \in {0, 2000}}
MCContents ==
    {Everyday} \cup {Only([x1 |-> x]) : x \in Wrongs \cup Timings}
    \cup {Only([x1 |-> x, x2 |-> y, x3 |-> z]) : x \in Files({0, 500}), z \in Files({1000, 3000}),
             y \in Files({1000}) \cup {Export("A", <<Unstamped(Tick(Noon + 1500, 0))>>)}}

----------------------------------------------------------------------------
(* A batch: two brokers, one with gaps of two and three hours, and scenarios *)
(* that differ in window, number of ticks, warmup and budget, or are refused *)
(* at each of the stages.                                                    *)

File(a, b) == [from |-> a, to |-> b]
MCArchive == [m |-> <<File(1, 4), File(6, 8), File(11, 12)>>, k |-> <<File(1, 12)>>]

Shape(b, s, e, mx, w, bd, f) ==
    [broker |-> b, start |-> s, end |-> e, max |-> mx, warm |-> w, budget |-> bd, fault |-> f]
Shapes == {Shape("m", 3, 7, 0, 2, 0, "none"), Shape("m", 5, 8, 0, 2, 2, "none"), Shape("k", 5, 0, 4, 3, 2, "none"),
           Shape("m", 6, 0, 5, 0, 3, "none"), Shape("m", 9, 12, 0, 2, 0, "none"), Shape("k", 4, 8, 3, 2, 0, "run")}
Faulty == {Shape("m", 3, 7, 0, 2, 0, f) :
             f \in {"param", "broker", "config", "coverage", "no_signal", "preflight", "worker", "stale", "signal"}}
Named(x, n) == [name |-> n, broker |-> x.broker, start |-> x.start, end |-> x.end, max |-> x.max,
                warm |-> x.warm, budget |-> x.budget, fault |-> x.fault]
MCScenarioSets ==
    {<<Named(a, "s1"), Named(b, "s2")>> : a, b \in Shapes}
    \cup {<<Named(a, "s1"), Named(b, "s2"), Named(c, "s3")>> :
            a \in Faulty, b \in Shapes, c \in {Shape("m", 3, 7, 0, 2, 0, "none"), Shape("k", 2, 9, 0, 4, 0, "none")}}
    \cup {<<Named(a, "s1")>> : a \in Shapes} \cup {<<Named(a, "s1"), Named(a, "s1")>> : a \in Shapes}
MCVariants(S) == {S, [S EXCEPT ![1].end = 8], [S EXCEPT ![1].warm = 1], [S EXCEPT ![1].max = 2]}

----------------------------------------------------------------------------
(* Windows: two weeks with a holiday on the first Thursday and the clocks    *)
(* changed on the first Sunday; outages of hours, of a day, of a weekend and *)
(* of a week and more.                                                       *)

MCHolidays == {3}
MCRolloverHour == [d \in 0 .. 30 |-> IF d < 6 THEN 22 ELSE 21]
Outage(a, b) == [start |-> a, end |-> b]
Outages == {Outage(30, 33), Outage(50, 62), Outage(116, 166), Outage(72, 95), Outage(100, 290),
            Outage(124, 164), Outage(90, 168), Outage(115, 140), Outage(140, 260)}
OutageSets == {S \in SUBSET Outages :
                 /\ Cardinality(S) <= 2
                 /\ \A a, b \in S : a = b \/ a.end < b.start \/ b.end < a.start}
Period(a, b, v) == [start |-> a, end |-> b, atr |-> v]
PeriodSets == {{},
               {Period(a, a + 17, (a * 7) % 5) : a \in {24 + 17 * k : k \in 0 .. 16}},
               {Period(24, 40, 3), Period(40, 60, 1), Period(80, 90, 2), Period(200, 210, 1), Period(206, 220, 1)}}
Share(n, d) == [num |-> n, den |-> d]
Asking(o, p, f, t, m, s, c, share) ==
    [start |-> 24, end |-> 300, outages |-> o, periods |-> p, from |-> f, to |-> t, max |-> m,
     strategy |-> s, closure |-> c, oos |-> share]
MCRequests ==
    {Asking(o, {}, f, 0, limit[1], "blocks", c, limit[2]) : o \in OutageSets, f \in {0, 36},
        c \in BOOLEAN, limit \in {<<0, Share(0, 0)>>, <<3, Share(1, 20)>>}}
    \cup {Asking(o, {}, 0, 250, 0, "blocks", c, Share(3, 10)) : o \in OutageSets, c \in BOOLEAN}
    \cup {Asking(o, p, f, t, 0, s, TRUE, Share(0, 0)) : o \in OutageSets, p \in PeriodSets, f \in {24, 50},
        t \in {0, 118}, s \in {"volatility", "continuous"}}
    \cup {Asking(o, p, 24, 250, 0, "volatility", FALSE, Share(1, 2)) : o \in OutageSets, p \in PeriodSets}

----------------------------------------------------------------------------
(* Signals: three periods, each with two versions.  Of the first, one starts *)
(* without an identity and has a gap, one rewinds its epoch; the second is    *)
(* empty, or lacks a number; the third begins a new epoch, or has no          *)
(* pipeline.                                                                  *)

Env(at, epoch, seq, syms) == [at |-> at, pipe |-> "p", epoch |-> epoch, seq |-> seq, syms |-> syms]
MCJournal ==
    <<<< <<Env(1, 0, 0, {"A", "B"}), Env(2, 1, 1, {"A"}), Env(3, 1, 2, {"B"})>>,
         <<Env(1, 2, 1, {"A"}), Env(2, 1, 4, {"A"})>> >>,
      << <<>>, <<Env(6, 1, 4, {"A"}), Env(8, 1, 6, {"A", "B"})>> >>,
      << <<Env(9, 2, 2, {"B"})>>, <<[Env(9, 2, 2, {"B"}) EXCEPT !.pipe = "none"]>> >> >>

----------------------------------------------------------------------------
(* Scenario set files: one good scenario, and what its own part may change   *)
(* alone or in pairs; sweeps over a grid of parameters; generator profiles.  *)

Param(t, r, d, lo, hi, c) == [type |-> t, required |-> r, default |-> d, min |-> lo, max |-> hi, choices |-> c]
AsWorker(schema, metric, faults) ==
    [schema |-> schema, fields |-> {"periods"}, metric |-> metric, outputs |-> {"main"}, faults |-> faults,
     requires |-> <<>>, outage |-> TRUE]
AsLogic(type, signals, faults, outage) ==
    [schema |-> [threshold |-> Param("int", TRUE, <<"int", 0>>, 1, 9, {}),
                 lot_size |-> Param("float", FALSE, <<"float", 3>>, 1, 9, {}),
                 mode |-> Param("str", FALSE, <<"str", 1>>, 0, 9, {1, 2})],
     fields |-> {}, metric |-> "none", outputs |-> {}, faults |-> faults,
     requires |-> [rsi |-> [type |-> type, signals |-> signals]], outage |-> outage]
Levels == [level |-> Param("float", FALSE, <<"int", 5>>, 2, 8, {})]
MCClasses ==
    [Rsi |-> AsWorker(Levels, "none", {}), Obv |-> AsWorker(<<>>, "volume", {}),
     Own |-> AsWorker(Levels, "tick_count", {}), Late |-> AsWorker(<<>>, "none", {"clock"}),
     Macd |-> AsLogic("CORE/rsi", {"main"}, {}, TRUE), Odd |-> AsLogic("CORE/rsi", {"other"}, {}, TRUE),
     Lost |-> AsLogic("CORE/rsi", {"main"}, {"snapshot"}, TRUE), Deaf |-> AsLogic("CORE/rsi", {}, {}, FALSE),
     Mine |-> AsLogic("w.py", {"main"}, {}, TRUE)]
MCRegistry == ("CORE/rsi" :> "Rsi") @@ ("CORE/obv" :> "Obv") @@ ("CORE/macd" :> "Macd") @@ ("CORE/odd" :> "Odd")
              @@ ("CORE/lost" :> "Lost") @@ ("CORE/deaf" :> "Deaf")
MCUserFiles == (<<"cwd", "algo/mine.py">> :> "Mine") @@ (<<"algo", "w.py">> :> "Own") @@ (<<"cwd", "algo/w.py">> :> "Own")
               @@ (<<"root", "/late.py">> :> "Late")
MCSpecs ==
    [EURUSD |-> [base |-> "EUR", quote |-> "USD", spot |-> FALSE, swap |-> TRUE, min |-> 2],
     BTCUSD |-> [base |-> "BTC", quote |-> "USD", spot |-> TRUE, swap |-> TRUE, min |-> 0],
     XAUUSD |-> [base |-> "XAU", quote |-> "USD", spot |-> FALSE, swap |-> FALSE, min |-> 1]]
MCDefaults == (<<"execution", "strict_parameter_validation">> :> <<"bool", 1>>)
              @@ (<<"simulator", "seeds">> :> <<"int", 1>>)

Leaf(path, kind, n) == path :> <<kind, n>>
Instance(i, type) == Leaf(<<"strategy", "worker_instances", i>>, type, 0) @@ Leaf(<<"strategy", "workers", i, "periods", "M5">>, "int", 5)
Threshold == <<"strategy", "logic_config", "threshold">>
Lot == <<"strategy", "logic_config", "lot_size">>
Level == <<"strategy", "workers", "rsi", "level">>
Balance(c) == <<"simulator", "balances", c>>
LogicIs(type) == Leaf(<<"strategy", "logic_type">>, type, 0)
Lenient == Leaf(<<"execution", "strict_parameter_validation">>, "bool", 0)
GlobalPart == LogicIs("CORE/macd") @@ Leaf(Threshold, "int", 3) @@ Instance("rsi", "CORE/rsi") @@ Leaf(Balance("USD"), "float", 10)

Changes ==
    {<<>>, Lenient, Leaf(Threshold, "int", 7), Leaf(Threshold, "str", 7), Leaf(Lot, "int", 1), Leaf(Lot, "bool", 0), Leaf(Lot, "float", 4),
     Leaf(<<"strategy", "logic_config", "mode">>, "str", 3), Leaf(<<"strategy", "logic_config", "typo">>, "int", 1),
     Leaf(Level, "float", 9), Leaf(Level, "int", 4), Leaf(<<"strategy", "workers", "rsi">>, "int", 1),
     Leaf(Balance("EUR"), "float", 20), Leaf(Balance("JPY"), "float", 20), Leaf(Balance("BTC"), "float", 20),
     Leaf(<<"simulator", "account_currency">>, "EUR", 0), Leaf(<<"simulator", "account_currency">>, "JPY", 0),
     LogicIs("CORE/none"), LogicIs("CORE/odd"), LogicIs("CORE/lost"), LogicIs("CORE/deaf"), LogicIs("algo/mine.py"),
     Leaf(<<"strategy", "worker_instances", "rsi">>, "algo/w.py", 0), Leaf(<<"strategy", "worker_instances", "rsi">>, "w.py", 0),
     Instance("more", "CORE/obv"), Instance("more", "/late.py"), Leaf(<<"strategy", "worker_instances", "more">>, "CORE/rsi", 0),
     Leaf(<<"guard", "cooldown_seconds">>, "junk", 0), Leaf(<<"stress", "typo">>, "int", 0)}
Together ==
    {<<>>, Lenient, Leaf(Balance("EUR"), "float", 20), Leaf(<<"simulator", "account_currency">>, "EUR", 0),
     LogicIs("algo/mine.py"), Leaf(<<"strategy", "worker_instances", "rsi">>, "algo/w.py", 0)}
Entry(n, y, own) == [name |-> n, enabled |-> TRUE, symbol |-> y, bounded |-> TRUE, broker |-> TRUE, own |-> own]
SetFile(kind, global, entries, grid, reuse, abort) ==
    [kind |-> kind, global |-> global, entries |-> entries, profiles |-> <<>>, grid |-> grid, reuse |-> reuse, abort |-> abort]
OneSet(global, entries) == SetFile("set", global, entries, <<>>, FALSE, FALSE)
Grids == {<<>>, <<"logic_config">> :> {<<"int", 1>>}, Tail(Level) :> {},
          (Tail(Threshold) :> {<<"int", 2>>, <<"int", 40>>}) @@ (Tail(Level) :> {<<"int", 4>>}),
          <<"workers", "rsi", "periods", "M5">> :> {<<"int", 8>>, <<"int", 9>>}}
Without(tree, path) == [p \in DOMAIN tree \ {path} |-> tree[p]]
Good == Entry("s1", "EURUSD", <<>>)
MCSetFiles ==
    {OneSet(GlobalPart, <<Entry("s1", y, b @@ a)>>) : a \in Changes, b \in Together, y \in {"EURUSD", "BTCUSD"}}
    \cup {OneSet(Without(GlobalPart, p), <<Good>>) : p \in DOMAIN GlobalPart}
    \cup {OneSet(GlobalPart @@ Lenient, <<Good, e>>) :
            e \in {Good, Entry("s2", "XAUUSD", <<>>), Entry("s2", "none", <<>>), Entry("s1", "EURUSD", Leaf(Threshold, "int", 0)),
                   [Good EXCEPT !.enabled = FALSE], [Good EXCEPT !.broker = FALSE],
                   [Entry("s2", "BTCUSD", <<>>) EXCEPT !.bounded = FALSE]}}
    \cup {SetFile("sweep", g, <<Good, Entry("s2", "BTCUSD", own)>>, grid, reuse, abort) :
            g \in {GlobalPart, Without(GlobalPart, Threshold)}, own \in {<<>>, Leaf(Threshold, "int", 0), Leaf(Level, "int", 6)},
            grid \in Grids, reuse, abort \in BOOLEAN}
    \cup {[OneSet(GlobalPart @@ own, <<>>) EXCEPT !.kind = "profile", !.profiles = ps] :
            own \in {<<>>, Lenient, Leaf(Balance("EUR"), "float", 5), Leaf(<<"stress", "typo">>, "int", 0)},
            ps \in {<<[symbol |-> "EURUSD", mode |-> "blocks", windows |-> 2], [symbol |-> "BTCUSD", mode |-> "cont", windows |-> 1]>>,
                   <<[symbol |-> "EURUSD", mode |-> "vol", windows |-> 2], [symbol |-> "EURUSD", mode |-> "vol", windows |-> 1]>>,
                   <<[symbol |-> "none", mode |-> "vol", windows |-> 1]>>}}

----------------------------------------------------------------------------
(* The parts that are not looked at have come to their end, so that their    *)
(* fairness asks for nothing.                                                *)

BatchOver ==
    /\ scens = <<>> /\ valid = <<>> /\ procs = <<>> /\ results = <<>> /\ broken = FALSE
    /\ reqs = NoReqs /\ load = NoLoad /\ mount = NoMount /\ held = NoMount
    /\ job = [pc |-> "done", kind |-> "plain", next |-> 1, parallel |-> FALSE]

SetupOver ==
    /\ asked = OneSet(GlobalPart, <<>>)
    /\ setup = [pc |-> "refused", base |-> <<>>, run |-> <<>>, combos |-> <<>>, next |-> 1, building |-> FALSE, told |-> <<>>]

WindowsOver ==
    /\ request = Asking({}, {}, 0, 0, 0, "blocks", TRUE, Share(0, 0))
    /\ gen = [NewGen EXCEPT !.pc = "done"]

MCInit ==
    /\ part \in Parts
    /\ ArchiveInit
    /\ IF content = Everyday THEN imp.runs = 0 /\ failures = 0 /\ (part # "archive" => inbox = {})
       ELSE part = "archive" /\ inbox = Collectable /\ imp.runs = MaxRuns - 1 /\ failures = MaxFailures
    /\ CacheInit /\ SignalInit
    /\ IF part = "batch" THEN BatchInit ELSE BatchOver
    /\ IF part = "windows" THEN WindowInit ELSE WindowsOver
    /\ IF part = "setup" THEN SetupInit ELSE SetupOver

MCNext ==
    /\ UNCHANGED part
    /\ \/ part = "archive" /\ ArchiveNext /\ UNCHANGED <<batchVars, cacheVars, windowVars, sigVars, setupVars>>
       \/ part = "batch" /\ BatchNext /\ UNCHANGED <<archiveVars, cacheVars, windowVars, sigVars, setupVars>>
       \/ part = "caches" /\ CacheNext /\ UNCHANGED <<archiveVars, batchVars, windowVars, sigVars, setupVars>>
       \/ part = "windows" /\ WindowNext /\ UNCHANGED <<archiveVars, batchVars, cacheVars, sigVars, setupVars>>
       \/ part = "signals" /\ SignalNext /\ UNCHANGED <<archiveVars, batchVars, cacheVars, windowVars, setupVars>>
       \/ part = "setup" /\ SetupNext /\ UNCHANGED <<archiveVars, batchVars, cacheVars, windowVars, sigVars>>

\* With the fairness of the batch, of the generation and of a run's setup.
MCSpec ==
    /\ MCInit /\ [][MCNext]_<<part, archiveVars, batchVars, cacheVars, windowVars, sigVars, setupVars>>
    /\ BatchFairness /\ WindowFairness /\ SetupFairness

\* What is made of the data's coverage holds: the windows a generator cuts out
\* of it lie in it, and what the report by which a scenario is admitted says of
\* a symbol's signals is what the run will find.
CoverageSound == WindowsSound /\ ReportAgrees

\* A batch, a generation of windows and a run of a file come to an end,
\* whatever is killed or found to be missing on the way.
JobsEnd == BatchEnds /\ GenerationEnds /\ SetupEnds
=============================================================================
