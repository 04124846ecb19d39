------------------------------ MODULE Strategies ------------------------------
(***************************************************************************)
(* The decision logics that hold one position: SimpleConsensus,            *)
(* AggressiveTrend, HybridSentimentReference and CautiousMacd.  A tick     *)
(* brings indicator values; compute_tick makes a decision of them and      *)
(* execute_decision calls the api.  Indicator values are percentages.      *)
(***************************************************************************)
EXTENDS TradingDesk

CONSTANTS
    Rsi, Bands, Obv, Scores,  \* the indicator values a tick can bring
    MinConfidence             \* min_confidence, in percent

VARIABLES macd  \* the state CautiousMacd keeps

strategyVars == <<book, logic, macd>>

NoMacd == [prev |-> 9, stop |-> 0, dir |-> "none", pos |-> 0, even |-> FALSE]

\* CautiousMacd goes by the kind of its entries.
StrategyLogics == {"consensus", "aggressive", "hybrid", "STOP", "STOP_LIMIT"}
StrategyInit == book = <<>> /\ macd = NoMacd

AtMost(x, y) == IF x < y THEN x ELSE y
AtLeast(x, y) == IF x > y THEN x ELSE y
DirectionOf(action) == IF action = "BUY" THEN "LONG" ELSE "SHORT"

----------------------------------------------------------------------------
(* compute_tick                                                            *)

\* Oversold at 30, overbought at 70; band edges at 30 and 70; OBV boost 10.
ConsensusConfidence(rsiDepth, bandDepth, boost) ==
    LET base == AtLeast(50, AtMost(100, 50 + (AtLeast(0, (rsiDepth * 100) \div 30)
                                               + AtLeast(0, (bandDepth * 100) \div 30)) \div 4))
    IN  AtMost(100, base + boost)

Consensus(rsi, band, obv) ==
    IF rsi <= 30 /\ band <= 30 /\ obv = "bearish" THEN "FLAT"
    ELSE IF /\ rsi <= 30 /\ band <= 30
            /\ ConsensusConfidence(30 - rsi, 30 - band, IF obv = "bullish" THEN 10 ELSE 0) >= MinConfidence
         THEN "BUY"
    ELSE IF /\ rsi >= 70 /\ band >= 70 /\ obv # "bullish"
            /\ ConsensusConfidence(rsi - 70, band - 70, IF obv = "bearish" THEN 10 ELSE 0) >= MinConfidence
         THEN "SELL"
    ELSE "FLAT"

AggressiveConfidence(rsiOn, rsiDepth, bandOn, bandDepth) ==
    AtMost(100, 40 + (IF rsiOn THEN (rsiDepth * 30) \div 35 ELSE 0) + (IF bandOn THEN (bandDepth * 30) \div 25 ELSE 0))

\* Either indicator is enough; a weak buy still lets a sell through.
Aggressive(rsi, band) ==
    LET buys == rsi < 35 \/ band < 25
        sells == rsi > 65 \/ band > 75
    IN  IF buys /\ AggressiveConfidence(rsi < 35, 35 - rsi, band < 25, 25 - band) >= MinConfidence THEN "BUY"
        ELSE IF sells /\ AggressiveConfidence(rsi > 65, rsi - 65, band > 75, band - 75) >= MinConfidence THEN "SELL"
        ELSE "FLAT"

\* The sentiment [score, confidence, stale] blocks a signal it opposes; a
\* stale or unsure one is not read.
Hybrid(rsi, sentiment) ==
    LET usable == ~sentiment.stale /\ sentiment.confidence >= 30
        action == IF rsi < 30 THEN "BUY" ELSE IF rsi > 70 THEN "SELL" ELSE "FLAT"
        opposed == \/ action = "BUY" /\ sentiment.score < -30
                   \/ action = "SELL" /\ sentiment.score > 30
    IN  IF usable /\ opposed THEN "FLAT" ELSE action

\* A histogram of at least min_histogram (here 2) that crosses the zero line
\* since the last tick (9: none yet); the RSI must not be extreme already.
\* min_confidence is off, which is the default. A histogram too small to
\* count does what a larger one does with an extreme RSI.
MacdCross(histogram, rsi) ==
    IF macd.prev # 9 /\ macd.prev <= 0 /\ histogram >= 2 /\ rsi < 60 THEN "BUY"
    ELSE IF macd.prev # 9 /\ macd.prev >= 0 /\ histogram <= -2 /\ rsi > 40 THEN "SELL"
    ELSE "FLAT"

----------------------------------------------------------------------------
(* execute_decision. An entry is accepted if there is free margin (on spot *)
(* also the base asset a sale needs) and the api does not refuse it.       *)

Entering(b, kind, dir, accepted) ==
    IF accepted /\ Len(b) < MaxDeskOrders THEN Send(b, NewOrder(kind, dir, 0, 0)) ELSE b

\* Mutant: orders on their way are not waited for.
ExecuteEager(b, action, accepted) ==
    IF action = "FLAT" \/ OpenPositions(b) # {} THEN b
    ELSE Entering(b, "MARKET", DirectionOf(action), accepted)

\* SimpleConsensus: a position against the signal is
\* closed, and the new one waits for a later signal.
ExecuteReversal(b, action, accepted) ==
    IF action = "FLAT" \/ HasPendingOrders(b) THEN b
    ELSE IF OpenPositions(b) # {}
         THEN LET i == First(OpenPositions(b))
              IN  IF b[i].dir = DirectionOf(action) THEN b ELSE ClosePosition(b, i)
    ELSE Entering(b, "MARKET", DirectionOf(action), accepted)

ExecuteAggressive(b, action, accepted) == ExecuteReversal(b, action, accepted)

\* HybridSentimentReference trades one side: a sell closes the long.
ExecuteLongOnly(b, action, accepted) ==
    IF HasPendingOrders(b) THEN b
    ELSE IF action = "BUY" /\ OpenPositions(b) = {} THEN Entering(b, "MARKET", "LONG", accepted)
    ELSE IF action = "SELL" /\ OpenPositions(b) # {} THEN ClosePosition(b, First(OpenPositions(b)))
    ELSE b

\* What compute_tick can make of one tick.
Signals ==
    CASE logic = "consensus" -> {Consensus(rsi, band, obv) : rsi \in Rsi, band \in Bands, obv \in Obv}
      [] logic = "aggressive" -> {Aggressive(rsi, band) : rsi \in Rsi, band \in Bands}
      [] logic = "hybrid" -> {Hybrid(rsi, s) : rsi \in Rsi, s \in Scores}

SignalTick ==
    /\ logic \in {"consensus", "aggressive", "hybrid"}
    /\ \E b \in AfterTick, action \in Signals, accepted \in BOOLEAN :
        book' = CASE logic = "consensus" -> ExecuteReversal(b, action, accepted)
                  [] logic = "aggressive" -> ExecuteAggressive(b, action, accepted)
                  [] logic = "hybrid" -> ExecuteLongOnly(b, action, accepted)
    /\ UNCHANGED <<logic, macd>>

----------------------------------------------------------------------------
(* CautiousMacd                                                            *)

\* Mutant: the flag outlives the position it was set for.
KeepEven(m, i) == IF m.pos = i THEN m ELSE [m EXCEPT !.pos = i, !.stop = 0, !.dir = "none"]

\* A position that was not there before: the stop order that led to it is
\* forgotten, and its break-even is still to come.
NoticePosition(m, i) ==
    IF m.pos = i THEN m ELSE [m EXCEPT !.pos = i, !.stop = 0, !.dir = "none", !.even = FALSE]

\* The stop goes to the entry price once the profit is reached, unless a change
\* of the position is on its way.
BreakEven(b, m, i, profit) ==
    IF ~m.even /\ profit /\ b[i].op = "none" THEN <<Modify(b, i, 0, 1), [m EXCEPT !.even = TRUE]>>
    ELSE <<b, m>>

\* In a position: break-even first; then a counter signal closes it.
InPosition(b, m, action, profit) ==
    LET i == First(OpenPositions(b))
        s == BreakEven(b, NoticePosition(m, i), i, profit)
    IN  IF action # "FLAT" /\ b[i].dir # DirectionOf(action)
        THEN <<ClosePosition(s[1], i), [s[2] EXCEPT !.pos = 0, !.even = FALSE]>>
        ELSE s

\* A stop order in the book is cancelled on a counter signal, and its id is
\* forgotten whatever the cancellation answers.
PendingEntry(b, m, action) ==
    IF m.stop # 0 /\ action # "FLAT" /\ m.dir # "none" /\ DirectionOf(action) # m.dir
    THEN <<IF m.stop \in ActiveStops(b) THEN CancelOrder(b, m.stop) ELSE b,
           [m EXCEPT !.stop = 0, !.dir = "none"]>>
    ELSE <<b, m>>

Flat(b, m, action, accepted) ==
    IF action = "FLAT" \/ ~accepted \/ Len(b) >= MaxDeskOrders THEN <<b, m>>
    ELSE <<Send(b, NewOrder(logic, DirectionOf(action), 0, 0)),
           [m EXCEPT !.stop = Len(b) + 1, !.dir = DirectionOf(action)]>>

ExecuteMacd(b, m, action, profit, accepted) ==
    IF OpenPositions(b) # {} THEN InPosition(b, m, action, profit)
    ELSE IF HasPipelineOrders(b) THEN <<b, m>>
    ELSE IF ActiveStops(b) # {} THEN PendingEntry(b, m, action)
    ELSE Flat(b, m, action, accepted)

\* What compute_tick can make of one tick: the histogram and the action.
MacdSignals == {<<histogram, MacdCross(histogram, rsi)>> : histogram \in {-2, 0, 2}, rsi \in {20, 50, 80}}

MacdTick ==
    /\ logic \in {"STOP", "STOP_LIMIT"}
    /\ \E b \in AfterTick :
       \E after \in {ExecuteMacd(b, [macd EXCEPT !.prev = s[1]], s[2], profit, accepted) :
                        s \in MacdSignals, profit \in BOOLEAN, accepted \in BOOLEAN} :
            book' = after[1] /\ macd' = after[2]
    /\ UNCHANGED logic

StrategyNext == SignalTick \/ MacdTick

----------------------------------------------------------------------------
(* Properties                                                              *)

\* None of the four logics is ever exposed twice: its orders on their way,
\* its resting entry and its position are one at most, whatever fills, is
\* refused, cancelled or closed between two of its decisions. With stop-limit
\* entries it holds only until one of them has become a limit order, which
\* CautiousMacd does not look for.
OneExposure ==
    (logic \in StrategyLogics /\ \A i \in DOMAIN book : ~(logic = "STOP_LIMIT" /\ book[i].kind = "LIMIT")) =>
        Cardinality(In(book, {"queue", "active", "open"})) <= 1

\* CautiousMacd believes its break-even applied only for the position it is
\* in: the stop of that very position is at its entry, or on the way there, or
\* that very change was taken and then refused, which the logic does not see
\* (it does not ask a second time).
BreakEvenCurrent ==
    macd.even /\ macd.pos \in OpenPositions(book) =>
        \/ book[macd.pos].sl = 1
        \/ book[macd.pos].op = "modify" /\ book[macd.pos].to[2] = 1
        \/ "modify" \in book[macd.pos].refused
=============================================================================
