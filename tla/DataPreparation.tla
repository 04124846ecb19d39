---------------------------- MODULE DataPreparation ----------------------------
(***************************************************************************)
(* What SharedDataPreparator loads for the scenarios of a batch, and what  *)
(* the validators say about it.  Time is a small number; an archive is, per*)
(* broker, the sequence of its tick files [from, to], with one tick at     *)
(* every time inside a file; a bar covers BarLength times and is known by  *)
(* the first of them.  All scenarios trade the same symbol.                *)
(*                                                                         *)
(* A scenario is [name, broker, start, end, max, warm, budget, fault]: end *)
(* and max are 0 when they are not given, warm is the number of warmup bars*)
(* its workers ask for, fault the stage that finds it unusable.            *)
(***************************************************************************)
EXTENDS Integers, FiniteSets, Sequences, SequencesExt, FiniteSetsExt

CONSTANTS
    Archive,      \* per broker: its tick files in order
    BarLength,    \* the length of the bars the workers ask for
    ShortGap,     \* gaps up to this length are SHORT
    StandardMode  \* warmup_quality_mode = 'standard'

ASSUME ArchiveAssumption ==
    /\ BarLength \in Nat \ {0} /\ ShortGap \in Nat /\ StandardMode \in BOOLEAN
    /\ \A b \in DOMAIN Archive : Archive[b] # <<>>

NoTime == 0

\* The key of the symbol in the packages.
Symbol == "symbol"

LastTime(b) == Archive[b][Len(Archive[b])].to

TimesOf(files) == UNION {f.from .. f.to : f \in files}

\* The ticks of a stretch are the set of their times.
FirstOf(times, n) == {t \in times : Cardinality({u \in times : u < t}) < n}
LastOf(times, n) == {t \in times : Cardinality({u \in times : u > t}) < n}

----------------------------------------------------------------------------
(* AggregateScenarioDataRequirements                                       *)

TickReq(sc) == [name |-> sc.name, broker |-> sc.broker, start |-> sc.start, end |-> sc.end, max |-> sc.max]

BarReq(sc) == [name |-> sc.name, broker |-> sc.broker, start |-> sc.start, warm |-> sc.warm]

----------------------------------------------------------------------------
(* SharedDataPreparator                                                    *)

\* get_relevant_files: the files that touch the range.
RelevantFiles(b, from, to) ==
    {f \in Range(Archive[b]) : f.from <= to /\ f.to >= from}

\* The range that is loaded for all the requirements of a broker at once.
UnionStart(reqs) == Min({r.start : r \in reqs})

UnionEnd(b, reqs) ==
    LET ends == {r.end : r \in reqs} \ {NoTime}
    IN  IF ends # {} THEN Max(ends) ELSE LastTime(b)

\* prepare_ticks for one requirement among all of them: with max_ticks the
\* end date plays no part.
TicksFor(r, allReqs) ==
    LET reqs  == {q \in allReqs : q.broker = r.broker}
        files == RelevantFiles(r.broker, UnionStart(reqs), UnionEnd(r.broker, reqs))
        from  == {t \in TimesOf(files) : t >= r.start}
    IN  IF r.max # 0 THEN FirstOf(from, r.max) ELSE {t \in from : t <= r.end}

\* VectorizedBarRenderer: a bar, named by its start, for every period with ticks.
BarOf(t) == t - (t % BarLength)
BarStarts == [b \in DOMAIN Archive |-> {BarOf(t) : t \in TimesOf(Range(Archive[b]))}]

\* Mutant: a bar of the start time itself is a warmup bar.
WarmupBarsInclusive(r) ==
    LastOf({s \in BarStarts[r.broker] : s <= r.start}, r.warm)

\* prepare_bars for one requirement: the last bars that start before it.  When
\* the scenario does not start with a period, the last is that of its start.
WarmupBars(r) ==
    LastOf({s \in BarStarts[r.broker] : s < r.start}, r.warm)

\* The bars are stored under the symbol and the start, without the broker:
\* requirements are served broker by broker in the order of their first
\* appearance, and the last one with the same key stays.
BarsFor(start, reqs) ==
    LET First(b)  == Min({k \in DOMAIN reqs : reqs[k].broker = b})
        Later(j, k) == \/ First(reqs[j].broker) < First(reqs[k].broker)
                       \/ reqs[j].broker = reqs[k].broker /\ j <= k
        same      == {k \in DOMAIN reqs : reqs[k].start = start}
    IN  IF same = {} THEN [broker |-> "none", bars |-> {}]
        ELSE LET k == CHOOSE k \in same : \A j \in same : Later(j, k)
             IN  [broker |-> reqs[k].broker, bars |-> WarmupBars(reqs[k])]

\* Mutant: the clock moves on with every tick, clipped ones included.
ClippedEager(ticks, budget) ==
    {t \in ticks : \E u \in ticks : u < t /\ t < u + budget}

\* _apply_tick_budget: a virtual clock runs over the ticks; a tick that comes
\* before it is marked as clipped, any other moves it on by the budget.
Clipped(ticks, budget) ==
    LET clock[t \in 0 .. Max(ticks)] ==   \* the clock after the ticks up to t
            IF t = 0 THEN 0
            ELSE IF t \in ticks /\ t >= clock[t - 1] THEN t + budget ELSE clock[t - 1]
    IN  IF budget = 0 THEN {} ELSE {t \in ticks : t < clock[t - 1]}

\* _filter_bars_for_scenario: by the symbol and the start.
FilterBars(sc, barReqs) == BarsFor(sc.start, barReqs)

\* One scenario's package.  ticks stands for the dictionary by symbol that
\* the package holds.
Package(sc, tickReqs, barReqs) ==
    LET r     == CHOOSE q \in tickReqs : q.name = sc.name
        ticks == TicksFor(r, tickReqs)
        bars  == FilterBars(sc, barReqs)
    IN  [ticks |-> ticks, clipped |-> Clipped(ticks, sc.budget),
         bars |-> bars.bars, barBroker |-> bars.broker, barStart |-> sc.start]

\* _find_stale_stress_error: an outage plan that does not fit the scenario.
StaleStressError(sc) == sc.fault = "stale"

\* _prepare_signal_data: a signal source without a series in the archive.
SignalSeriesError(sc) == sc.fault = "signal"

\* A scenario has a package when it has a requirement with ticks and neither
\* its outage plan nor its signal series is unusable.
HasPackage(sc, tickReqs) ==
    /\ \E q \in tickReqs : q.name = sc.name /\ TicksFor(q, tickReqs) # {}
    /\ ~StaleStressError(sc) /\ ~SignalSeriesError(sc)

\* Mutant: the key leaves out where the data ends.
DataIdentityOpen(sc, barReqs) ==
    [broker |-> sc.broker, start |-> sc.start, budget |-> sc.budget]

\* DataIdentityKey.from_scenario.
DataIdentity(sc, barReqs) ==
    [broker |-> sc.broker, start |-> sc.start, end |-> sc.end, max |-> sc.max, budget |-> sc.budget,
     warm |-> [w \in {q.warm : q \in {x \in Range(barReqs) : x.name = sc.name}} |->
                 Cardinality({k \in DOMAIN barReqs : barReqs[k].name = sc.name /\ barReqs[k].warm = w})]]

----------------------------------------------------------------------------
(* ScenarioValidator, DataCoverageReport and ScenarioDataValidator         *)

\* validate_scenario_names: the scenarios whose broker was found are compared.
NameClash(scens, known, i) ==
    \E j \in known \ {i} : scens[j].name = scens[i].name /\ scens[j].fault # "broker"

\* validate_scenario_boundaries: neither an end nor a number of ticks.
NoBoundary(sc) == sc.end = NoTime /\ sc.max = 0

\* BrokerDataPreparator: the broker's configuration is not there.
BrokerError(sc) == sc.fault = "broker"

\* prepare_scenarios: the broker counts before the names are compared; the
\* checks of the symbol, the swap mode and the balances are the fault "config".
ConfigError(scens, known, i) ==
    \/ BrokerError(scens[i]) \/ scens[i].fault = "config"
    \/ NameClash(scens, known, i) \/ NoBoundary(scens[i])

\* The gaps between the files of a broker.
GapsOf(b) ==
    {[start |-> Archive[b][k].to, end |-> Archive[b][k + 1].from] : k \in 1 .. Len(Archive[b]) - 1}

IsShort(g) == g.end - g.start <= ShortGap

\* validate_date_logic.
DateLogicError(sc) == sc.end # NoTime /\ sc.end < sc.start

\* validate_data_availability: no coverage report, or a window outside the data.
RangeError(sc) ==
    \/ sc.fault = "coverage"
    \/ sc.start < Archive[sc.broker][1].from
    \/ sc.end # NoTime /\ sc.end > LastTime(sc.broker)

\* validate_signal_availability.
SignalMissing(sc) == sc.fault = "no_signal"

AvailabilityError(sc) == DateLogicError(sc) \/ RangeError(sc) \/ SignalMissing(sc)

StartGaps(sc) == {g \in GapsOf(sc.broker) : g.start < sc.start /\ sc.start < g.end}

\* _validate_start_date_not_in_gap: a start in a short gap moves to its end.
ShiftedStart(sc) ==
    IF \E g \in StartGaps(sc) : IsShort(g)
    THEN (CHOOSE g \in StartGaps(sc) : IsShort(g)).end ELSE sc.start

\* _validate_warmup_quality: too few bars, but some.
WarmupTooShort(sc, package, barReqs) ==
    \E r \in Range(barReqs) :
        /\ r.name = sc.name /\ package.barStart = r.start
        /\ package.bars # {} /\ Cardinality(package.bars) < r.warm

\* _validate_tick_stretch: a gap among the ticks that is not allowed.  The
\* ticks are looked up by the scenario's name where the package has them by
\* symbol, so the check sees none; the one of the signals looks them up alike.
StretchTicks(sc, package) == IF sc.name = Symbol THEN package.ticks ELSE {}
TickStretchError(sc, package) ==
    LET ticks == StretchTicks(sc, package)
    IN  ticks # {} /\ \E g \in GapsOf(sc.broker) : g.start >= Min(ticks) /\ g.end <= Max(ticks) /\ ~IsShort(g)

\* _validate_single_scenario on a package.
QualityError(sc, package, barReqs) ==
    \/ \E g \in StartGaps(sc) : ~IsShort(g)
    \/ TickStretchError(sc, package)
    \/ StandardMode /\ WarmupTooShort(sc, package, barReqs)
=============================================================================
