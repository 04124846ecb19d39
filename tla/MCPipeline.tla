------------------------------- MODULE MCPipeline -------------------------------
(* The algorithm pass on a small instance, in parts: the bars without        *)
(* signals, the signals without clipped ticks or warm-up, the probe, the     *)
(* events of the decision, and market data that goes stale.                  *)
EXTENDS WorkerOrchestrator, DecisionEvents, StaleStress
VARIABLE part
MCTimeframes == {1, 2}

\* Windows apart, overlapping, one inside another, touching.
Win(a, b) == [from |-> a, to |-> b]
MCWindowPlans == {<<Win(2, 3), Win(5, 6)>>, <<Win(1, 4), Win(2, 6)>>, <<Win(1, 6), Win(2, 3), Win(5, 7)>>,
                  <<Win(2, 4), Win(4, 5)>>, <<>>}

MCInit ==
    /\ Init /\ EventInit /\ StaleInit
    /\ part \in {"bars", "signals", "probe", "events", "stale"}
    /\ part # "stale" => windows = <<>> /\ feed = "sim"
    /\ part # "events" => pipeline = "live" /\ subscribed

PassStep ==
    \/ BeginTick \/ Decide \/ Heartbeat
    \/ \E w \in Workers : ComputeWorker(w)

NextBars == PassStep \/ Cleanup \/ Warmup \/ ClippedTick \/ (Time /\ UNCHANGED <<barVars, passVars>>)
NextSignals ==
    \/ PassStep \/ (Warmup /\ completed' = completed)
    \/ (Publish \/ Time \/ PollOnce \/ PollFails \/ InboxPut) /\ UNCHANGED <<barVars, passVars>>
NextProbe == ProbeOnce /\ UNCHANGED <<barVars, passVars>>

MCNext ==
    /\ part' = part
    /\ \/ part = "bars" /\ NextBars /\ UNCHANGED <<eventVars, staleVars>>
       \/ part = "signals" /\ NextSignals /\ UNCHANGED <<eventVars, staleVars>>
       \/ part = "probe" /\ NextProbe /\ UNCHANGED <<eventVars, staleVars>>
       \/ part = "events" /\ EventNext /\ UNCHANGED <<vars, staleVars>>
       \/ part = "stale" /\ StaleNext /\ UNCHANGED <<vars, eventVars>>
MCSpec == MCInit /\ [][MCNext]_<<vars, eventVars, staleVars, part>>

\* Staleness of the signal or of the market is told before a decision meets
\* it, and the outages on record are those the run went through.
StalenessTold == StaleToldFirst /\ EpisodesMatchHooks /\ StaleDataSound
===========================================================================
