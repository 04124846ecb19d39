------------------------------- MODULE MCLogics -------------------------------
(* The decision logics on small instances, one at a time: the field study,   *)
(* a strategy that holds one position, the trend channel, or a scripted logic.*)
EXTENDS FieldStudy, Strategies, TrendChannel, BacktestLogics
CONSTANT Logics

Ph(t) == [type |-> t, expect |-> FALSE, rearm |-> FALSE, count |-> 0, enabled |-> TRUE]
MCPlans == {
    <<Ph("market_open"), Ph("close_all"), [Ph("market_open") EXCEPT !.expect = TRUE], Ph("force_close"), Ph("final")>>,
    <<[Ph("limit_open") EXCEPT !.rearm = TRUE], Ph("close_all"), Ph("limit_cancel"), Ph("force_close"), Ph("final")>>,
    <<[Ph("multi_limit") EXCEPT !.count = 2], Ph("multi_cancel"), Ph("idle"), Ph("force_close"), Ph("final")>>,
    <<Ph("partial_close"), Ph("force_close"), Ph("final")>>,
    <<Ph("limit_modify"), [Ph("limit_cancel") EXCEPT !.enabled = FALSE], Ph("force_close"), Ph("final")>>}

Sentiment(score, confidence, stale) == [score |-> score, confidence |-> confidence, stale |-> stale]
MCScores == {Sentiment(50, 60, FALSE), Sentiment(-50, 60, FALSE), Sentiment(50, 60, TRUE), Sentiment(0, 10, FALSE)}

Channel(gate, lower, upper) == [gate |-> gate, lower |-> lower, upper |-> upper]
MCChannels == {Channel("up", 2, 4), Channel("up", 4, 6), Channel("up", 2, 2),
               Channel("down", 2, 4), Channel("neutral", 2, 4)}

\* Trades that meet: one begins as another ends, two begin on one tick, a
\* close is scripted for a position that is still on its way or expiring.
Trade(at, hold, kind) == [at |-> at, dir |-> "LONG", hold |-> hold, kind |-> kind, listed |-> TRUE]
Plain(trades, ends, ops) == [trades |-> trades, ends |-> ends, ops |-> ops, endAt |-> 0]
MCScripts == [
    deterministic |-> {
        Plain(<<Trade(1, 1, "MARKET"), Trade(3, 1, "MARKET")>>, <<>>, [t \in {2} |-> "modify_position"]),
        Plain(<<Trade(1, 2, "LIMIT"), Trade(2, 2, "STOP")>>, <<>>, [t \in {2, 3} |-> IF t = 2 THEN "modify_limit" ELSE "cancel_limit"]),
        Plain(<<Trade(1, 2, "STOP_LIMIT")>>, <<>>, [t \in {2, 3} |-> IF t = 2 THEN "modify_stop" ELSE "cancel_stop"])},
    multi |-> {
        Plain(<<Trade(1, 2, "MARKET"), Trade(2, 2, "MARKET")>>, <<[at |-> 2, trade |-> 1], [at |-> 3, trade |-> 1]>>, <<>>),
        Plain(<<Trade(1, 3, "MARKET"), Trade(1, 2, "MARKET")>>, <<[at |-> 3, trade |-> 1]>>, <<>>)},
    margin |-> {
        Plain(<<Trade(1, Never, "MARKET"), Trade(2, 2, "MARKET")>>, <<[at |-> 3, trade |-> 1]>>, <<>>),
        Plain(<<Trade(1, 2, "MARKET"), Trade(2, Never, "none")>>, <<[at |-> 3, trade |-> 1]>>, <<>>)},
    event |-> {
        [Plain(<<Trade(1, Never, "MARKET")>>, <<[at |-> 3, trade |-> 1]>>, <<>>) EXCEPT !.endAt = 4]}]

MCInit ==
    /\ logic \in Logics /\ StudyInit /\ StrategyInit /\ TrendInit
    /\ probe = FreshProbe
    /\ IF logic \in ProbeLogics THEN ProbeInit ELSE script = CHOOSE s \in Scripts["event"] : TRUE
    /\ logic # "study" => plan = CHOOSE p \in Plans : TRUE
    /\ logic # "trend" => mode = "LIMIT"

MCNext ==
    \/ logic = "study" /\ StudyNext /\ UNCHANGED <<strategyVars, trendVars, script, probe>>
    \/ StrategyNext /\ UNCHANGED <<studyVars, mode, channel, resting, risk, partial, script, probe>>
    \/ TrendTick /\ UNCHANGED <<studyVars, macd, script, probe>>
    \/ ProbeTick /\ UNCHANGED <<studyVars, macd, mode, channel, resting, risk, partial>>

\* The fairness of FieldStudy, for the field study alone.
MCSpec ==
    /\ MCInit /\ [][MCNext]_<<studyVars, strategyVars, trendVars, probeVars>>
    /\ WF_studyVars(logic = "study" /\ (StudyTick \/ StudyHeartbeat))
    /\ WF_studyVars(logic = "study" /\ StudyClock)

\* Every strategy knows its own exposure: never two at once, no break-even
\* remembered from another position, no working entry forgotten; a scripted
\* logic never closes twice, nor forgets what it could have closed.
ExposureKnown == OneExposure /\ BreakEvenCurrent /\ EntryTracked /\ ProbesSound

\* No step of a logic raises its risk again: an abort sends nothing, a stop
\* only ratchets.
RiskOnlyFalls == [][AbortSendsNothing /\ StopRatchets]_<<studyVars, trendVars>>
===========================================================================
