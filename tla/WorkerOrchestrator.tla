--------------------------- MODULE WorkerOrchestrator ---------------------------
(***************************************************************************)
(* One algorithm pass after another (WorkerOrchestrator under the tick     *)
(* loops): a tick renders the bars, the workers that need it recompute, in *)
(* the thread pool in any order, the signal pass looks at the signal       *)
(* worker's result, and the decision is computed from the cached results.  *)
(* Between ticks a heartbeat merges signal arrivals and lets the decision  *)
(* logic act again. The poll thread (SignalFeed) runs all the while.       *)
(*                                                                         *)
(* Three workers stand for the three kinds: "live" recomputes at every     *)
(* pass, "close" when a timeframe it needs has closed (BAR_CLOSE), and     *)
(* "signal" when the resolved envelope or its staleness changes.           *)
(***************************************************************************)
EXTENDS BarRenderer, SignalFeed

CONSTANTS
    CloseTf,    \* the timeframe of the bar-close worker
    MaxStale,   \* max_staleness_minutes
    Lag         \* how far a tick's time may lie behind the clock

ASSUME PassAssumption == CloseTf \in Timeframes /\ {MaxStale, Lag} \subseteq Nat

Workers == {"live", "close", "signal"}

VARIABLES
    phase,     \* boot, idle, workers or over
    now,       \* the moment of the pass under way
    lastTick,  \* the time of the last tick
    todo,      \* the workers still to compute in this pass
    history,   \* the bar history the pass reads
    closing,   \* the closed timeframes the pass was given
    results,   \* worker -> _worker_results, or NoResult
    staleState,\* _signal_stale_state
    episode,   \* start of the open outage episode, or -1
    episodes,  \* closed episodes
    hooks,     \* calls of on_signal_stale
    told       \* the hook was called since the signal was last served fresh

passVars == <<phase, now, lastTick, todo, history, closing, results, staleState, episode,
              episodes, hooks, told>>
vars == <<barVars, feedVars, passVars>>
signalVars == <<staleState, episode, episodes, hooks, told>>

NoResult == [moment |-> -1, bars |-> <<>>, served |-> NoEnvelope, stale |-> FALSE]

NoHistory == [tf \in Timeframes |-> <<>>]

Init ==
    /\ BarInit /\ FeedInit
    /\ phase = "boot" /\ now = 0 /\ lastTick = 0 /\ todo = {}
    /\ history = NoHistory /\ closing = {}
    /\ results = [w \in Workers |-> NoResult]
    /\ staleState = FALSE /\ episode = -1 /\ episodes = 0 /\ hooks = 0 /\ told = FALSE

----------------------------------------------------------------------------
(* The signal worker *)

EvaluateStale(resolved, t) == resolved = NoEnvelope \/ t - resolved.collected > MaxStale

\* Mutant: only another envelope refreshes.
RefreshOnNewOnly(snapshots, t) ==
    \/ results["signal"] = NoResult
    \/ Nearest(snapshots, t).collected # results["signal"].served.collected

\* should_refresh_at: another envelope, or the staleness served has flipped.
ShouldRefreshAt(snapshots, t) ==
    LET resolved == Nearest(snapshots, t)
        served == results["signal"]
    IN  \/ served = NoResult
        \/ resolved.collected # served.served.collected
        \/ EvaluateStale(resolved, t) # served.stale

ComputeSignalAt(snapshots, t) ==
    LET resolved == Nearest(snapshots, t)
    IN  [moment |-> t, bars |-> <<>>, served |-> resolved, stale |-> EvaluateStale(resolved, t)]

----------------------------------------------------------------------------
(* A tick *)

WorkerNeedsRecompute(w, t, closed) ==
    CASE w = "signal" -> ShouldRefreshAt(series', t)
      [] w = "close"  -> results[w] = NoResult \/ CloseTf \in closed
      [] w = "live"   -> TRUE

\* A simulation is warmed up with the bars that start before the session does
\* (prepare_bars): the last may be that of the period the session starts in.
SimulatedEnd(tf) == ((SessionStart - 1) \div tf) * tf

\* A live session is warmed up with complete bars: the broker's unfinished bar
\* is left out (fetch_bars).
FetchedEnd(tf) == (SessionStart \div tf - 1) * tf

WarmupBars(end, n, tf) == [i \in 1 .. n |-> [start |-> end - (n - i) * tf, last |-> -1]]

Warmup ==
    /\ phase = "boot" /\ phase' = "idle"
    /\ \E bars \in 0 .. 1 :
        \/ InjectWarmupBars([tf \in Timeframes |-> WarmupBars(SimulatedEnd(tf), bars, tf)])
        \/ InjectWarmupBars([tf \in Timeframes |-> WarmupBars(FetchedEnd(tf), bars, tf)])
    /\ UNCHANGED <<feedVars, now, lastTick, todo, history, closing, results, signalVars>>

\* A tick the algorithm is too late for: only the bars are updated.
ClippedTick ==
    /\ phase = "idle"
    /\ clock >= lastTick
    /\ BarsOnly(clock)
    /\ lastTick' = clock
    /\ UNCHANGED <<feedVars, phase, now, todo, history, closing, results, signalVars>>

\* The signal inbox is merged, the bars are rendered, the history and the
\* closed timeframes are read, and the pass starts.
BeginTick ==
    /\ phase = "idle"
    /\ \E behind \in 0 .. Lag :
        LET t == clock - behind IN
        /\ t >= lastTick
        /\ Merge
        /\ BarsForPass(t)
        /\ history' = cached'
        /\ closing' = PendingClosed(t)
        /\ todo' = {w \in Workers : WorkerNeedsRecompute(w, t, closing')}
        /\ lastTick' = t /\ now' = t
    /\ phase' = "workers"
    /\ UNCHANGED <<clock, latest, published, pollVars, probe, results, signalVars>>

\* A worker's future completes.
ComputeWorker(w) ==
    /\ phase = "workers" /\ w \in todo
    /\ todo' = todo \ {w}
    /\ results' = [results EXCEPT ![w] =
            IF w = "signal" THEN ComputeSignalAt(series, now)
            ELSE [NoResult EXCEPT !.moment = 0,
                                  !.bars = IF w = "close" THEN history[CloseTf] ELSE <<>>]]
    /\ UNCHANGED <<barVars, feedVars, phase, now, lastTick,
                   history, closing, signalVars>>

\* Mutant: the edge state is never reset.
EdgeNeverReset(result, t) ==
    LET stale == result.stale
        opens == stale /\ ~staleState
        closes == ~stale /\ episode # -1
    IN  /\ episode' = (CASE opens -> t [] closes -> -1 [] OTHER -> episode)
        /\ episodes' = IF closes THEN episodes + 1 ELSE episodes
        /\ hooks' = IF opens THEN hooks + 1 ELSE hooks
        /\ told' = (stale /\ (told \/ opens))
        /\ staleState' = (staleState \/ stale)

\* Mutant: an episode is recorded and left open.
EpisodeLeftOpen(result, t) ==
    LET stale == result.stale
        opens == stale /\ ~staleState
        closes == ~stale /\ staleState
    IN  /\ episode' = IF opens THEN t ELSE episode
        /\ episodes' = IF closes THEN episodes + 1 ELSE episodes
        /\ hooks' = IF opens THEN hooks + 1 ELSE hooks
        /\ told' = (stale /\ (told \/ opens))
        /\ staleState' = stale

\* _process_signal_pass at moment t, given the signal worker's result.
SignalPass(result, t) ==
    LET stale == result.stale
        opens == stale /\ ~staleState
        closes == ~stale /\ episode # -1
    IN  /\ episode' = (CASE opens -> t [] closes -> -1 [] OTHER -> episode)
        /\ episodes' = IF closes THEN episodes + 1 ELSE episodes
        /\ hooks' = IF opens THEN hooks + 1 ELSE hooks
        /\ told' = (stale /\ (told \/ opens))
        /\ staleState' = stale

\* All futures are done: the signal pass, then compute_tick.
Decide ==
    /\ phase = "workers" /\ todo = {}
    /\ SignalPass(results["signal"], now)
    /\ phase' = "idle"
    /\ now' = 0 /\ history' = NoHistory /\ closing' = {}
    /\ UNCHANGED <<barVars, feedVars, lastTick, todo, results>>

----------------------------------------------------------------------------
(* Between ticks *)

\* The heartbeat: arrivals are merged and, if any is new, the signal worker is
\* refreshed and the signal pass runs; then the decision logic may act on the
\* cached results (process_heartbeat).
Heartbeat ==
    /\ phase = "idle"
    /\ Merge
    /\ IF Fresh(inbox) = {}
       THEN UNCHANGED <<results, signalVars>>
       ELSE /\ results' = IF ShouldRefreshAt(series', clock)
                          THEN [results EXCEPT !["signal"] = ComputeSignalAt(series', clock)]
                          ELSE results
            /\ SignalPass(results'["signal"], clock)
    /\ UNCHANGED <<barVars, clock, latest, published, pollVars, probe, phase, now, lastTick, todo,
                   history, closing>>

\* The loop ends, between passes or because a worker raised, and the
\* orchestrator drops its results.
Cleanup ==
    /\ phase = "idle" \/ (phase = "workers" /\ todo # {})
    /\ phase' = "over"
    /\ todo' = {}
    /\ results' = [w \in Workers |-> NoResult]
    /\ UNCHANGED <<barVars, feedVars, now, lastTick, history, closing, signalVars>>

FeedStep == phase # "over" /\ FeedNext /\ UNCHANGED <<barVars, passVars>>

Next ==
    \/ Warmup \/ ClippedTick \/ BeginTick \/ Decide \/ Heartbeat \/ Cleanup
    \/ \E w \in Workers : ComputeWorker(w)
    \/ FeedStep

Spec == Init /\ [][Next]_vars

----------------------------------------------------------------------------

TypeOK ==
    /\ BarTypeOK /\ FeedTypeOK
    /\ phase \in {"boot", "idle", "workers", "over"}
    /\ todo \subseteq Workers /\ closing \subseteq Timeframes
    /\ {staleState, told} \subseteq BOOLEAN /\ {episodes, hooks} \subseteq Nat

DecisionDue == phase = "workers" /\ todo = {}

\* What the decision reads from the bar-close worker was computed from every
\* bar closed so far: a close that fell on a clipped tick, or between two
\* passes, is not missed (_worker_needs_recompute, consume_bar_render_state).
CloseWorkerCurrent == DecisionDue => results["close"].bars = completed[CloseTf]

\* What the decision reads from the signal worker is, for the moment of the
\* pass, the newest envelope all of whose predecessors were published by then,
\* and its staleness is that of this moment, although the result is cached
\* (nearest, should_refresh_at).
SignalAsOfPass ==
    DecisionDue =>
        LET visible == {s \in series : \A o \in series :
                            o = s \/ Before(o, s) => o.available <= now}
            newest == {s \in visible : \A o \in visible : o = s \/ Before(o, s)}
        IN  /\ results["signal"].served \in (IF visible = {} THEN {NoEnvelope} ELSE newest)
            /\ results["signal"].stale = EvaluateStale(results["signal"].served, now)

\* A decision on a stale signal, on a tick or on a heartbeat, is made only
\* after on_signal_stale was called for this outage.
StaleToldFirst == phase = "idle" /\ results["signal"].stale => told

\* Every call of the hook is an outage episode, closed or still open.
EpisodesMatchHooks == hooks = episodes + (IF episode = -1 THEN 0 ELSE 1)

\* What a decision reads of the bars is what was rendered, in order and no
\* period twice but the one an unaligned simulation starts in, the cached
\* history and the bar-close worker up to date.
BarsTrue == TypeOK /\ BarsInOrder /\ CacheTrue /\ CloseWorkerCurrent

\* What a decision reads of the signal is what the producer published, as far
\* as it was polled by then, and a change of its journal is on record.
SignalsTrue == NothingLost /\ JournalSwitchRecorded /\ SignalAsOfPass
=============================================================================
