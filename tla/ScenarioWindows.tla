---------------------------- MODULE ScenarioWindows ----------------------------
(***************************************************************************)
(* The generation of scenario windows for one symbol: the coverage report's*)
(* gaps, the continuous regions between them, and the three splitters, with*)
(* the in-sample and out-of-sample roles the windows get.                  *)
(* First comes the market's calendar they are cut by.  Time is a number of *)
(* hours, UTC, and 0 is a Monday, 00:00.                                   *)
(*                                                                         *)
(* A request is [start, end, outages, periods, from, to, max, strategy,    *)
(* closure, oos]: the bars run from start to end but for the outages (a    *)
(* set of [start, end], from the last bar before to the first after), the  *)
(* volatility periods are [start, end, atr], from and to clip the range (0 *)
(* when not given), max is count_max, closure whether the broker's market  *)
(* closes at weekends, and oos the share of out-of-sample windows as       *)
(* [num, den], with den = 0 for no roles.                                  *)
(***************************************************************************)
EXTENDS Integers, Sequences, SequencesExt, FiniteSets, FiniteSetsExt

CONSTANTS
    Holidays,       \* the days (t \div 24) that are market holidays
    RolloverHour,   \* the UTC hour of the swap rollover on a given day
    TripleWeekday   \* the weekday whose rollover counts three nights

ASSUME CalendarAssumption == TripleWeekday \in 0 .. 4

CONSTANTS
    Requests,       \* the requests a generation may be given
    Allowed,        \* allowed_gap_categories
    BlockHours,     \* default_block_hours
    MinBlock,       \* min_block_hours
    MaxBlock,       \* max_block_hours of the profile
    Percentile      \* atr_percentile_threshold

ASSUME WindowAssumption ==
    /\ MinBlock \in Nat \ {0} /\ BlockHours \in Nat \ {0}
    /\ MaxBlock \in Nat /\ MaxBlock >= MinBlock /\ Percentile \in 0 .. 100

VARIABLES
    request,   \* the request
    gen        \* [pc, gaps, todo, current, cuts, windows, roles]: the interrupting
               \* gaps, the regions to do, and how far the first of them is

windowVars == <<request, gen>>

----------------------------------------------------------------------------
(* The calendar of the forex market                                        *)

Day(t) == t \div 24
Weekday(t) == Day(t) % 7
Hour(t) == t % 24
At(day, hour) == day * 24 + hour

\* WeekendClosureWindow.
FridayClose == 20
SundayOpen == 22
MinWeekend == 40
MaxWeekend == 80
AltMin == 24
AltMax == 50

IsMarketOpen(t) == Weekday(t) <= 4
IsMarketHoliday(t) == Day(t) \in Holidays

\* next_market_open: the time itself, or the first midnight of a trading day.
NextMarketOpen(t) ==
    IF IsMarketOpen(t) /\ ~IsMarketHoliday(t) THEN t
    ELSE LET later == {At(d, 0) : d \in Day(t) + 1 .. Day(t) + 14}
         IN  Min({m \in later : IsMarketOpen(m) /\ ~IsMarketHoliday(m)})

----------------------------------------------------------------------------
(* Gaps                                                                    *)

IsInWeekendClosure(t) ==
    \/ Weekday(t) = 4 /\ Hour(t) >= FridayClose
    \/ Weekday(t) = 5
    \/ Weekday(t) = 6 /\ Hour(t) < SundayOpen

GetWeekendEnd(t) == At(Day(t) + (6 - Weekday(t)), SundayOpen)

GetNextFridayClose(t) == At(Day(t) + ((4 - Weekday(t)) % 7), FridayClose)

\* Mutant: a closure that begins in the gap runs to the gap's end.
SegmentEndOpen(t, end) ==
    IF IsInWeekendClosure(t) THEN end
    ELSE IF GetNextFridayClose(t) < end THEN GetNextFridayClose(t) ELSE end

\* Where the segment that begins at t ends.
SegmentEnd(t, end) ==
    IF IsInWeekendClosure(t) THEN Min({GetWeekendEnd(t), end})
    ELSE IF GetNextFridayClose(t) < end THEN GetNextFridayClose(t) ELSE end

\* split_gap_at_market_boundaries: the boundaries of the segments.  A gap of
\* the length of a weekend is left whole.
Cuts(start, end) ==
    IF end - start <= MaxWeekend THEN {start, end}
    ELSE LET cut[n \in 0 .. 1 + (end - start) \div 40] ==
                 IF n = 0 THEN start
                 ELSE LET last == cut[n - 1] IN IF last < end THEN SegmentEnd(last, end) ELSE end
         IN  {cut[n] : n \in DOMAIN cut}

\* The segments: a cut and the next one.
Segments(start, end) ==
    LET cuts == Cuts(start, end)
    IN  {[start |-> a, end |-> Min({c \in cuts : c > a})] : a \in cuts \ {end}}

MatchesPrimaryPattern(g) ==
    /\ Weekday(g.start) = 4 /\ Hour(g.start) >= FridayClose
    /\ Weekday(g.end) = 6 /\ Hour(g.end) <= SundayOpen
    /\ MinWeekend <= g.end - g.start /\ g.end - g.start <= MaxWeekend

MatchesAlternativePattern(g) ==
    /\ Weekday(g.start) = 5
    /\ Weekday(g.end) = 6 /\ Hour(g.end) <= SundayOpen
    /\ AltMin <= g.end - g.start /\ g.end - g.start <= AltMax

GapContainsHoliday(g) == \E d \in Day(g.start) .. Day(g.end) : d \in Holidays

\* classify_gap for gaps of whole hours: none of them is seamless or short.
ClassifyGap(g, weekendClosure) ==
    CASE weekendClosure /\ (MatchesPrimaryPattern(g) \/ MatchesAlternativePattern(g)) -> "weekend"
      [] weekendClosure /\ g.end - g.start >= 20 /\ GapContainsHoliday(g)
         /\ ~MatchesPrimaryPattern(g) /\ ~MatchesAlternativePattern(g) -> "holiday"
      [] OTHER -> IF g.end - g.start < 4 THEN "moderate" ELSE "large"

----------------------------------------------------------------------------
(* Swap rollovers                                                          *)

\* local_time_to_utc of the rollover on a day.
RolloverOn(day) == At(day, RolloverHour[day])

Nights(day) == IF Weekday(At(day, 0)) = TripleWeekday THEN 3 ELSE 1

\* Mutant: a rollover at the very end of the stretch is left to the next.
IterSwapRolloversClosed(start, end) ==
    {d \in Day(start) - 1 .. Day(end) + 1 :
        d >= 0 /\ Weekday(At(d, 0)) <= 4 /\ start < RolloverOn(d) /\ RolloverOn(d) < end}

\* iter_swap_rollovers, as the days whose rollover lies in (start, end].
IterSwapRollovers(start, end) ==
    {d \in Day(start) - 1 .. Day(end) + 1 :
        d >= 0 /\ Weekday(At(d, 0)) <= 4 /\ start < RolloverOn(d) /\ RolloverOn(d) <= end}

\* next_swap_rollover: the first trading day within eight whose rollover is
\* still to come.
NextSwapRollover(after) ==
    Min({d \in Day(after) .. Day(after) + 7 : Weekday(At(d, 0)) <= 4 /\ RolloverOn(d) > after})

NightsBetween(start, end) ==
    MapThenSumSet(Nights, IterSwapRollovers(start, end))

----------------------------------------------------------------------------
(* DataCoverageReport and ContinuousRegionExtractor                        *)

\* _detect_gaps_from_bars.
Gaps(r) ==
    UNION {IF r.closure THEN Segments(o.start, o.end) ELSE {o} : o \in r.outages}

\* Mutant: every gap is crossed that lies in the weekend.
InterruptingLenient(r) ==
    {g \in Gaps(r) : ClassifyGap(g, r.closure) \notin Allowed /\ ~IsInWeekendClosure(g.start)}

Interrupting(r) == {g \in Gaps(r) : ClassifyGap(g, r.closure) \notin Allowed}

\* _extract_full: what the interrupting gaps leave of the data, in order.  A
\* gap at the current start only moves it.
FullRegions(r, gaps) ==
    LET starts == {r.start} \cup {g.end : g \in gaps}
        End(a) == Min({g.start : g \in {h \in gaps : h.start >= a}} \cup {r.end})
    IN  {[start |-> a, end |-> End(a)] : a \in {b \in starts : End(b) > b}}

\* _clip to the requested range.
Clip(r, regions) ==
    LET cut == {[start |-> IF r.from # 0 THEN Max({g.start, r.from}) ELSE g.start,
                 end   |-> IF r.to # 0 THEN Min({g.end, r.to}) ELSE g.end] : g \in regions}
    IN  {g \in cut : g.end > g.start}

----------------------------------------------------------------------------
(* A generation                                                            *)

NewGen == [pc |-> "analyze", gaps |-> {}, todo |-> {}, current |-> 0, cuts |-> {},
           windows |-> <<>>, roles |-> <<>>]

WindowInit == request \in Requests /\ gen = NewGen

\* DataCoverageReport.analyze.
Analyze ==
    /\ gen.pc = "analyze"
    /\ gen' = [gen EXCEPT !.pc = "extract", !.gaps = Interrupting(request)]
    /\ UNCHANGED request

First(regions) == CHOOSE g \in regions : \A h \in regions : g.start <= h.start

\* AbstractProfileSplitter.split: a range is needed, with a volatility period
\* in it.
ProfileRefused(r) ==
    /\ r.strategy # "blocks"
    /\ r.from = 0 \/ r.to = 0 \/ ~\E p \in r.periods : p.end > r.from /\ p.start < r.to

\* Without a region the splitters raise.
Extract ==
    /\ gen.pc = "extract"
    /\ \E regions \in {Clip(request, FullRegions(request, gen.gaps))} :
          gen' = IF ProfileRefused(request) \/ regions = {} THEN [gen EXCEPT !.pc = "failed"]
                 ELSE [gen EXCEPT !.pc = request.strategy, !.todo = regions, !.current = First(regions).start]
    /\ UNCHANGED request

Region == First(gen.todo)

Window(a, b) == [start |-> a, end |-> b, region |-> Region]

\* The next region, or the end of the loop over them.
NextRegion(g) ==
    LET rest == g.todo \ {Region}
    IN  IF rest = {} THEN [g EXCEPT !.pc = "finish"]
        ELSE [g EXCEPT !.todo = rest, !.current = First(rest).start, !.cuts = {}]

\* _generate_blocks: where the next block begins.
Snapped(t) == IF request.closure THEN NextMarketOpen(t) ELSE t

\* Mutant: a remainder is a block whatever its length.
BlockFitsAny(t) == t < Region.end

\* A remainder below the minimum is no block.
BlockFits(t) == t < Region.end /\ Region.end - t >= MinBlock

\* One pass of the loop of _generate_blocks.
Block ==
    LET t == Snapped(gen.current)
        e == IF Region.end - t < BlockHours THEN Region.end ELSE t + BlockHours
    IN  /\ gen.pc = "blocks"
        /\ gen' = IF gen.current < Region.end /\ BlockFits(t)
                  THEN [gen EXCEPT !.windows = Append(@, Window(t, e)), !.current = e]
                  ELSE NextRegion(gen)
        /\ UNCHANGED request

\* ContinuousSplit: a region is a window.
Continuous ==
    /\ gen.pc = "continuous"
    /\ gen' = NextRegion([gen EXCEPT !.windows = Append(@, Window(Region.start, Region.end))])
    /\ UNCHANGED request

Periods == {p \in request.periods : p.end > Region.start /\ p.start < Region.end}

\* np.percentile: at or below it are the periods whose rank allows it.
Quiet(ps) ==
    {p \in ps : 100 * Cardinality({q \in ps : q.atr < p.atr}) <= Percentile * (Cardinality(ps) - 1)}

\* The periods at which the block may end.
Reachable(from, ps) ==
    {p \in ps : /\ from + MinBlock <= p.start /\ p.start <= from + MaxBlock
                /\ Region.end - p.start >= MinBlock}

\* Where the quietest of them begins, the first of them on a tie.
Quietest(ps) ==
    LET low == Min({p.atr : p \in ps}) IN Min({p.start : p \in {q \in ps : q.atr = low}})

\* Mutant: with no period in reach the search stays where it is.
ResumeStuck(from) == from

\* With no period in reach the search goes on at the next one after it,
\* without a cut.
Resume(from) ==
    LET later == {p.start : p \in {q \in Periods : q.start > from + MaxBlock}}
    IN  IF later = {} THEN Region.end ELSE Min(later)

\* One pass of the loop of _find_split_points.
FindSplitPoint ==
    LET valid == Reachable(gen.current, Quiet(Periods))
        forced == Reachable(gen.current, Periods)
        at == Quietest(IF valid # {} THEN valid ELSE forced)
    IN  /\ gen.pc = "volatility"
        /\ gen' = IF Periods = {} \/ Region.end - gen.current <= MaxBlock
                  THEN [gen EXCEPT !.pc = "build"]
                  ELSE IF forced # {}
                  THEN [gen EXCEPT !.cuts = @ \cup {at}, !.current = at]
                  ELSE [gen EXCEPT !.current = Resume(gen.current)]
        /\ UNCHANGED request

\* _build_windows_from_splits: a window from each boundary to the next.
BuildFromSplits ==
    LET bounds == gen.cuts \cup {Region.start, Region.end}
        Nth(k) == CHOOSE b \in bounds : Cardinality({c \in bounds : c < b}) = k - 1
    IN  /\ gen.pc = "build"
        /\ gen' = NextRegion([gen EXCEPT !.pc = "volatility",
                     !.windows = @ \o [k \in 1 .. Cardinality(bounds) - 1 |-> Window(Nth(k), Nth(k + 1))]])
        /\ UNCHANGED request

\* round(): half goes to the even number.
RoundHalfEven(num, den) ==
    LET q == num \div den
        r == num % den
    IN  IF 2 * r > den \/ (2 * r = den /\ q % 2 = 1) THEN q + 1 ELSE q

\* Mutant: the rounded share is taken as it is.
AssignRolesRounded(count) ==
    LET oos == RoundHalfEven(count * request.oos.num, request.oos.den)
    IN  CASE request.oos.den = 0 -> <<>>
          [] request.oos.den # 0 /\ count = 1 -> <<"in_sample">>
          [] OTHER -> [k \in 1 .. count |-> IF k <= count - oos THEN "in_sample" ELSE "out_of_sample"]

\* assign_roles_time_ordered: the last windows are out of sample.
AssignRoles(count) ==
    LET n == RoundHalfEven(count * request.oos.num, request.oos.den)
        oos == Max({1, Min({n, count - 1})})
    IN  CASE request.oos.den = 0 -> <<>>
          [] request.oos.den # 0 /\ count = 1 -> <<"in_sample">>
          [] OTHER -> [k \in 1 .. count |-> IF k <= count - oos THEN "in_sample" ELSE "out_of_sample"]

\* count_max cuts the list of blocks; roles go to what is left.
FinishGeneration ==
    LET kept == IF request.strategy = "blocks" /\ request.max # 0 /\ Len(gen.windows) > request.max
                THEN SubSeq(gen.windows, 1, request.max) ELSE gen.windows
    IN  /\ gen.pc = "finish"
        /\ gen' = [gen EXCEPT !.pc = "done", !.windows = kept, !.roles = AssignRoles(Len(kept))]
        /\ UNCHANGED request

WindowNext ==
    \/ Analyze \/ Extract \/ Block \/ Continuous \/ FindSplitPoint \/ BuildFromSplits \/ FinishGeneration

WindowFairness == WF_windowVars(WindowNext)

----------------------------------------------------------------------------
(* Properties                                                              *)

Ws == gen.windows

\* Windows lie in the data and the asked range, follow each other in time
\* without an overlap, and none holds an interrupting gap, also when an outage
\* of weeks was cut at the weekends in it.
WindowsInData ==
    /\ \A k \in DOMAIN Ws :
          /\ request.start <= Ws[k].start /\ Ws[k].start < Ws[k].end /\ Ws[k].end <= request.end
          /\ request.from # 0 => request.from <= Ws[k].start
          /\ request.to # 0 => Ws[k].end <= request.to
          /\ \A j \in 1 .. k - 1 : Ws[j].end <= Ws[k].start
    /\ gen.pc = "done" => \A g \in Gaps(request) : \A k \in DOMAIN Ws :
          Ws[k].start < g.end /\ g.start < Ws[k].end => ClassifyGap(g, request.closure) \in Allowed

\* A block is as long as configured, but for the last of its region, which is
\* at least the minimum; and a cut at a quiet period leaves at least the
\* minimum on either side of it.
BlockSizes ==
    \A k \in DOMAIN Ws :
        LET len == Ws[k].end - Ws[k].start
            r == Ws[k].region
        IN  /\ request.strategy = "blocks" =>
                  /\ len = BlockHours \/ (Ws[k].end = r.end /\ MinBlock <= len /\ len < BlockHours)
                  /\ request.closure => IsMarketOpen(Ws[k].start) /\ ~IsMarketHoliday(Ws[k].start)
            /\ request.strategy = "volatility" =>
                  len >= MinBlock \/ (Ws[k].start = r.start /\ Ws[k].end = r.end)

\* The windows of the profile splitters leave out no hour of a region, and
\* the out-of-sample windows are the latest, with one on each side.
WindowsComplete ==
    gen.pc = "done" =>
        /\ request.strategy # "blocks" =>
              \A g \in Clip(request, FullRegions(request, gen.gaps)) : \A h \in g.start .. g.end - 1 :
                  \E k \in DOMAIN Ws : Ws[k].start <= h /\ h < Ws[k].end
        /\ request.oos.den # 0 /\ Len(Ws) > 1 =>
              /\ gen.roles[1] = "in_sample" /\ gen.roles[Len(Ws)] = "out_of_sample"
              /\ \A j, k \in DOMAIN Ws :
                    gen.roles[j] = "in_sample" /\ gen.roles[k] = "out_of_sample" => Ws[j].end <= Ws[k].start

\* A generation comes to an end.
GenerationEnds == <>(gen.pc \in {"done", "failed"})

\* A gap of more than a weekend falls into pieces that are each wholly inside
\* or wholly outside of the weekend's closure, and alternate; together they
\* are the gap.
GapsSplitExactly == gen.pc = "analyze" =>
    \A o \in request.outages :
        LET segs == Segments(o.start, o.end)
        IN  /\ \A h \in o.start .. o.end - 1 :
                  Cardinality({s \in segs : s.start <= h /\ h < s.end}) = 1
            /\ o.end - o.start > MaxWeekend => \A s \in segs :
                  \A h \in s.start .. s.end - 1 : IsInWeekendClosure(h) = IsInWeekendClosure(s.start)
            /\ \A s \in segs : o.start <= s.start /\ s.start < s.end /\ s.end <= o.end

\* Swap is accrued from the last accrual to now, in steps of any length: the
\* nights before, in and after a window add up to the nights of the whole, a
\* week has seven (but for the one the clocks change in), and the next rollover
\* a decision logic is told is the first that will be charged.
SwapNights == gen.pc = "done" =>
    \A k \in DOMAIN Ws :
        LET a == Ws[k].start
            b == Ws[k].end
        IN  /\ NightsBetween(request.start, a) + NightsBetween(a, b) + NightsBetween(b, request.end)
                 = NightsBetween(request.start, request.end)
            /\ RolloverHour[Day(a)] = RolloverHour[Day(a) + 7] => NightsBetween(a, a + 7 * 24) = 7
            /\ NextSwapRollover(a) = Min(IterSwapRollovers(a, a + 4 * 24))

\* The windows that are generated lie in data, have the sizes that were asked
\* for and are all that the data allow, and the calendar they rest on agrees
\* with its definition hour by hour: gaps are cut at the closures, and every
\* night of swap is counted once.
WindowsSound == WindowsInData /\ BlockSizes /\ WindowsComplete /\ GapsSplitExactly /\ SwapNights
=============================================================================
