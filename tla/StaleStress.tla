------------------------------ MODULE StaleStress ------------------------------
(***************************************************************************)
(* Market data that goes stale.  In the simulation StaleDataStressDriver   *)
(* steps through planned windows on the ticks the algorithm sees; live,    *)
(* the heartbeat finds that no tick has come for too long.  Both only set  *)
(* the executor's status and call the logic's hook; what the run went      *)
(* through is recorded by MarketDataEpisodeTracker, which looks at the     *)
(* status, and BacktestingOutageProbe tries one entry in every outage.     *)
(***************************************************************************)
EXTENDS Integers, Sequences, FiniteSets

CONSTANTS
    WindowPlans,  \* sequences of windows [from, to), sorted by from: get_events_for_source
    StaleAfter,   \* market_data_stale_after_s, live
    Clock         \* bound of the model: the last time

\* from_dict refuses an empty window; get_events_for_source sorts.
SortedByStart(p) == \A i, j \in DOMAIN p : p[i].from < p[i].to /\ (i < j => p[i].from <= p[j].from)

ASSUME WindowsSorted ==
    /\ {StaleAfter, Clock} \subseteq Nat
    /\ \A p \in WindowPlans : p \in Seq([from : Nat, to : Nat]) /\ SortedByStart(p)

VARIABLES
    feed,      \* "sim", "live", or "over" once the simulation is finished
    windows,   \* the plan of the scenario
    at,        \* the time of the executor
    driver,    \* _idx, and whether the event there is _active
    isStale,   \* the executor's MarketDataStatus
    tracker,   \* episodes, the open one (0: none) and its label, last tick
    outage,    \* the probe: armed, tried in this episode, and what it sent
    seen       \* history: the ticks of the algorithm and whether they met staleness

staleVars == <<feed, windows, at, driver, isStale, tracker, outage, seen>>

StaleInit ==
    /\ feed \in {"sim", "live"} /\ windows \in WindowPlans
    /\ at = 0 /\ isStale = FALSE
    /\ driver = [idx |-> 1, active |-> FALSE]
    /\ tracker = [episodes |-> <<>>, open |-> 0, label |-> 0, last |-> 0]
    /\ outage = [armed |-> FALSE, tried |-> FALSE, refused |-> 0]
    /\ seen = <<>>

----------------------------------------------------------------------------
(* StaleDataStressDriver                                                   *)

\* Mutant: a window that is over keeps its place until it is entered.
NextWindowStuck(i, t) == i

\* The windows that no tick fell into are skipped.
NextWindow(i, t) ==
    CHOOSE j \in i .. (Len(windows) + 1) :
        /\ j \in DOMAIN windows => windows[j].to > t
        /\ \A k \in i .. (j - 1) : windows[k].to <= t

\* on_tick: the driver, the status, and whether the logic's hook is called.
DriverOnTick(t) ==
    LET ended == driver.active /\ t >= windows[driver.idx].to
        still == driver.active /\ ~ended
        i == IF still THEN driver.idx ELSE NextWindow(IF ended THEN driver.idx + 1 ELSE driver.idx, t)
        inside == i \in DOMAIN windows /\ t >= windows[i].from
    IN  [driver |-> [idx |-> i, active |-> inside],
         stale |-> IF inside THEN TRUE ELSE (IF ended THEN FALSE ELSE isStale),
         hook |-> inside /\ ~still]

ActiveLabel(d) == IF d.active THEN d.idx ELSE 0

----------------------------------------------------------------------------
(* MarketDataEpisodeTracker                                                *)

\* Mutant: every stale observation is a new start.
ObserveRestart(k, now, stale, label, start) ==
    IF stale THEN [k EXCEPT !.open = start, !.label = label]
    ELSE IF k.open = 0 THEN k
    ELSE [k EXCEPT !.episodes = Append(@, [from |-> k.open, to |-> now, label |-> k.label]), !.open = 0, !.label = 0]

Observe(k, now, stale, label, start) ==
    IF stale
    THEN IF k.open = 0 THEN [k EXCEPT !.open = start, !.label = label]
         ELSE [k EXCEPT !.label = IF @ = 0 THEN label ELSE @]
    ELSE IF k.open = 0 THEN k
    ELSE [k EXCEPT !.episodes = Append(@, [from |-> k.open, to |-> now, label |-> k.label]), !.open = 0, !.label = 0]

TrackerOnTick(now, stale, label) == [Observe(tracker, now, stale, label, now) EXCEPT !.last = now]
TrackerOnHeartbeat(now, stale, label) ==
    Observe(tracker, now, stale, label, IF tracker.last = 0 THEN now ELSE tracker.last)

----------------------------------------------------------------------------
(* BacktestingOutageProbe                                                  *)

Hook(o, called) == IF called THEN [o EXCEPT !.armed = TRUE] ELSE o

\* The order guard refuses an entry for staleness before any other reason.
Probe(o, stale) ==
    IF o.armed /\ stale /\ ~o.tried
    THEN [o EXCEPT !.tried = TRUE, !.armed = FALSE, !.refused = @ + 1]
    ELSE o

\* Mutant: the probe is not armed anew by a fresh tick.
ProbeTickedOnce(o, stale) == Probe(o, stale)

\* compute_tick: a fresh tick ends the episode.
ProbeTicked(o, stale) == Probe(IF stale THEN o ELSE [o EXCEPT !.tried = FALSE], stale)

----------------------------------------------------------------------------

\* A tick of the algorithm in the simulation; a clipped one reaches none of
\* this and only lets time pass.
SimTick ==
    /\ feed = "sim"
    /\ \E t \in (at + 1) .. Clock :
        LET d == DriverOnTick(t)
        IN  /\ at' = t
            /\ driver' = d.driver /\ isStale' = d.stale
            /\ tracker' = TrackerOnTick(t, d.stale, ActiveLabel(d.driver))
            /\ outage' = ProbeTicked(Hook(outage, d.hook), d.stale)
            /\ seen' = Append(seen, [t |-> t, stale |-> d.stale])
    /\ UNCHANGED <<feed, windows>>

\* _run_sim_heartbeats: a ghost pass sees the status of the last tick.
SimGhost ==
    /\ feed = "sim" /\ seen # <<>>
    /\ outage' = Probe(outage, isStale)
    /\ UNCHANGED <<feed, windows, at, driver, isStale, tracker, seen>>

\* finish: the status is reset, the open episode stays without an end.
SimEnd ==
    /\ feed = "sim" /\ seen # <<>>
    /\ feed' = "over"
    /\ isStale' = IF driver.active THEN FALSE ELSE isStale
    /\ driver' = [driver EXCEPT !.active = FALSE]
    /\ UNCHANGED <<windows, at, tracker, outage, seen>>

\* A tick of the live loop: the first one after a silence ends the episode.
\* label: what a mock source that keeps silent on purpose says.
LiveTick ==
    /\ feed = "live" /\ at < Clock
    /\ at' = at + 1
    /\ isStale' = FALSE
    /\ \E label \in 0 .. 1 : tracker' = TrackerOnTick(at + 1, FALSE, label)
    /\ outage' = ProbeTicked(outage, FALSE)
    /\ seen' = Append(seen, [t |-> at + 1, stale |-> isStale])
    /\ UNCHANGED <<feed, windows, driver>>

\* A heartbeat of the live loop: the check, the hook on the edge, the ghost pass.
LiveHeartbeat ==
    /\ feed = "live" /\ at < Clock
    /\ at' = at + 1
    /\ LET silent == tracker.last > 0 /\ at + 1 - tracker.last > StaleAfter
           stale == isStale \/ silent
       IN  /\ isStale' = stale
           /\ \E label \in 0 .. 1 :
                tracker' = IF silent THEN TrackerOnHeartbeat(at + 1, TRUE, label) ELSE tracker
           /\ outage' = Probe(Hook(outage, silent /\ ~isStale), stale)
    /\ UNCHANGED <<feed, windows, driver, seen>>

StaleNext == SimTick \/ SimGhost \/ SimEnd \/ LiveTick \/ LiveHeartbeat

----------------------------------------------------------------------------
(* Properties                                                              *)

\* In the simulation a tick of the algorithm is stale exactly if some planned
\* window holds it, however windows overlap, touch or fall between two ticks.
StaleInWindows ==
    feed # "live" =>
        \A k \in DOMAIN seen :
            seen[k].stale <=> \E w \in DOMAIN windows : seen[k].t \in windows[w].from .. (windows[w].to - 1)

\* The outages the run went through: in the simulation from the first stale
\* tick to the next fresh one, live from the last tick before the silence.
Outages ==
    IF feed = "live" THEN {[from |-> seen[k - 1].t, to |-> seen[k].t] : k \in {j \in DOMAIN seen : seen[j].stale}}
    ELSE {[from |-> seen[p[1]].t, to |-> seen[p[2]].t] : p \in
            {q \in (DOMAIN seen) \X (DOMAIN seen) :
                /\ q[1] < q[2] /\ ~seen[q[2]].stale
                /\ \A j \in q[1] .. (q[2] - 1) : seen[j].stale
                /\ q[1] = 1 \/ ~seen[q[1] - 1].stale}}

\* The record of the tracker is exactly what the run went through: no outage
\* is missed, split, joined with another or recorded twice, and one is open
\* exactly while the last pass was stale.
EpisodesExact ==
    /\ {[from |-> tracker.episodes[k].from, to |-> tracker.episodes[k].to] : k \in DOMAIN tracker.episodes} = Outages
    /\ Cardinality(Outages) = Len(tracker.episodes)
    /\ feed # "over" => (isStale <=> tracker.open # 0)

\* A run tries one entry in every outage, the open one included: a window
\* that takes over from another calls the hook again and is no new outage.
OneProbePerOutage ==
    outage.refused = Len(tracker.episodes) + (IF tracker.open = 0 THEN 0 ELSE 1)

\* Stale market data is told, recorded and refused exactly while it is stale.
StaleDataSound == StaleInWindows /\ EpisodesExact /\ OneProbePerOutage
=============================================================================
