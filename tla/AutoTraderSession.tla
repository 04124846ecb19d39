--------------------------- MODULE AutoTraderSession ---------------------------
(***************************************************************************)
(* A live session: AutotraderMain's startup and shutdown around the tick   *)
(* loop's main thread, with the tick source's thread (TickSource), the     *)
(* algorithm's state file (AlgoStateStore), the market-data staleness      *)
(* contract, the safety circuit breaker, signals from the operator, and    *)
(* crashes followed by another boot.                                       *)
(*                                                                         *)
(* pc is the main thread's place:                                          *)
(*   off -> boot -> feed -> enter -> get                                   *)
(*   get -> due | after, get -> empty -> due | after    the loop           *)
(*   due -> write -> rename -> back                     a save             *)
(*   after -> stop -> (write -> rename ->) exit -> off  the end            *)
(***************************************************************************)
EXTENDS TickSource, AlgoStateStore

CONSTANTS
    Setups,      \* the configurations under study
    StaleAfter,  \* market_data_stale_after_s, in time units
    Values,      \* values of the account the safety check may see
    StartValue,  \* the account's value when a session boots
    MaxFails     \* bound of the model: saves that fail in a row

ASSUME SessionAssumption ==
    /\ Setups \subseteq [source : {"mock", "kraken"}, persist : BOOLEAN,
                         onCorrupt : {"warn_reset", "fail"}, onStale : {"warn_reset", "halt"},
                         emptyFresh : BOOLEAN, safety : BOOLEAN, spot : BOOLEAN,
                         minValue : Nat, maxDrawdown : Nat]
    /\ StaleAfter \in Nat /\ Values \subseteq Nat /\ StartValue \in Values
    /\ MaxFails \in Nat

VARIABLES
    setup,      \* the configuration of this machine
    pc, ret,    \* the main thread, and where a save returns to
    loopOn,     \* AutotraderTickLoop._running
    storeUp,    \* the state store exists
    algo,       \* the algorithm's own state
    endAsked,   \* request_session_end was called
    anyTick,    \* a tick was processed
    tickAge,    \* time since _last_real_tick_wall_time
    stale,      \* _market_stale
    execStale,  \* the executor's MarketDataStatus.is_stale
    episode,    \* the episode tracker has an open episode
    baseline,   \* what a drawdown is measured from: the first equity, or the balance
    blocked,    \* _safety_blocked
    \* history
    breached,   \* the last safety check found a threshold breached
    entry,      \* the pass under way entered the market
    damaged,    \* the state file was damaged from outside
    durTicks,   \* ticks since the algorithm's state last reached the file
    fails,      \* saves that failed since then
    refused     \* load() refused to boot

vars == <<feedVars, storeVars, setup, pc, ret, loopOn, storeUp, algo, endAsked,
          anyTick, tickAge, stale, execStale, episode, baseline, blocked, breached, entry, damaged, durTicks, fails, refused>>

marketVars == <<anyTick, tickAge, stale, execStale, episode>>
safetyVars == <<baseline, blocked, breached, entry>>
bootVars == <<setup, storeUp, damaged, refused>>
progressVars == <<durTicks, fails>>

LoopPlaces == {"get", "empty", "due", "write", "rename"}
Places == {"off", "boot", "feed", "enter", "after", "stop", "exit"} \cup LoopPlaces

TypeOK ==
    /\ FeedTypeOK /\ StoreTypeOK
    /\ setup \in Setups
    /\ pc \in Places /\ ret \in {"tick", "heartbeat", "exit"}
    /\ {loopOn, storeUp, endAsked, anyTick, stale, execStale, episode, blocked,
        breached, entry, damaged, refused} \subseteq BOOLEAN
    /\ algo \in 0 .. MaxAlgo
    /\ tickAge \in 0 .. StaleAfter + 1
    /\ baseline \in Values
    /\ durTicks \in Nat /\ fails \in 0 .. MaxFails

----------------------------------------------------------------------------
(* The process starts and ends *)

Init ==
    /\ FeedInit /\ StoreInit
    /\ ret = "exit" /\ loopOn = FALSE /\ storeUp = FALSE /\ algo = 0 /\ endAsked = FALSE
    /\ anyTick = FALSE /\ tickAge = 0 /\ stale = FALSE /\ execStale = FALSE /\ episode = FALSE
    /\ blocked = FALSE /\ entry = FALSE
    /\ breached = FALSE /\ durTicks = 0 /\ fails = 0
    /\ setup \in Setups /\ pc = "off"
    /\ baseline = StartValue
    /\ damaged = FALSE /\ refused = FALSE

\* Everything a process loses when it ends, in whatever way.
ProcessGone ==
    /\ pc' = "off"
    /\ FeedReset
    /\ sinceSave' = 0 /\ saveAge' = 0
    /\ ret' = "exit" /\ loopOn' = FALSE /\ storeUp' = FALSE /\ algo' = 0 /\ endAsked' = FALSE
    /\ anyTick' = FALSE /\ tickAge' = 0 /\ stale' = FALSE /\ execStale' = FALSE
    /\ episode' = FALSE /\ blocked' = FALSE /\ entry' = FALSE
    /\ breached' = FALSE /\ durTicks' = 0 /\ fails' = 0
    /\ baseline' = StartValue
    /\ UNCHANGED <<disk, setup, damaged, refused>>

Boot ==
    /\ pc = "off"
    /\ pc' = "boot" /\ refused' = FALSE
    /\ UNCHANGED <<feedVars, storeVars, setup, ret, loopOn, storeUp, algo, endAsked, marketVars,
                   safetyVars, damaged, progressVars>>

\* An exception before the loop runs: straight to the shutdown.
StartupFails ==
    /\ pc \in {"boot", "feed"}
    /\ pc' = "stop"
    /\ UNCHANGED <<feedVars, storeVars, bootVars, ret, loopOn, algo, endAsked, marketVars,
                   safetyVars, progressVars>>

\* accepts_restored_state and restore_state of the algorithm.
RestoredStates == {0, disk.snap}

\* The pipeline is built; the state store is made, loaded and, if both the
\* store and the algorithm accept it, the snapshot is restored.
RestoreState ==
    /\ pc = "boot"
    /\ storeUp' = setup.persist
    /\ LET answer == IF setup.persist THEN LoadAnswer(setup.onCorrupt, setup.onStale)
                                      ELSE "nothing"
       IN  /\ \/ answer = "snapshot" /\ algo' \in RestoredStates
              \/ answer # "snapshot" /\ algo' = algo
           /\ pc' = IF answer = "refuse" THEN "stop" ELSE "feed"
           /\ refused' = (answer = "refuse")
    /\ UNCHANGED <<feedVars, storeVars, setup, damaged, ret, loopOn, endAsked, marketVars,
                   safetyVars, progressVars>>

\* setup_tick_source spawns the thread.
StartFeed ==
    /\ pc = "feed"
    /\ feed' = "spawned" /\ pc' = "enter"
    /\ UNCHANGED <<feedOn, queue, delay, wait, msgAge, emitted, exhausted, storeVars,
                   bootVars, ret, loopOn, algo, endAsked, marketVars, safetyVars, progressVars>>

\* run() sets the flag, whatever stop() did to it before.
EnterLoop ==
    /\ pc = "enter"
    /\ loopOn' = TRUE /\ pc' = "get"
    /\ UNCHANGED <<feedVars, storeVars, bootVars, ret, algo, endAsked, marketVars, safetyVars, progressVars>>

----------------------------------------------------------------------------
(* The tick loop *)

\* _check_safety: either threshold blocks new entries.
SafetyBlocks(current, initial) ==
    /\ setup.safety
    /\ \/ setup.minValue > 0 /\ current < setup.minValue
       \/ /\ setup.maxDrawdown > 0 /\ initial > 0
          /\ (initial - current) * 100 > setup.maxDrawdown * initial

\* Mutant: the flag is only looked at when no tick is waiting.
LoopStopsWhenIdle ==
    /\ pc = "get" /\ ~loopOn /\ queue = <<>>
    /\ pc' = "after"
    /\ UNCHANGED <<feedVars, storeVars, bootVars, ret, loopOn, algo, endAsked, marketVars,
                   safetyVars, progressVars>>

LoopStops ==
    /\ pc = "get" /\ ~loopOn
    /\ pc' = "after"
    /\ UNCHANGED <<feedVars, storeVars, bootVars, ret, loopOn, algo, endAsked, marketVars,
                   safetyVars, progressVars>>

\* The sentinel ends the loop.
GetSentinel ==
    /\ pc = "get" /\ loopOn /\ queue # <<>> /\ Head(queue) = "none"
    /\ queue' = Tail(queue) /\ pc' = "after"
    /\ UNCHANGED <<feed, feedOn, delay, wait, msgAge, emitted, exhausted, storeVars, bootVars,
                   ret, loopOn, algo, endAsked, marketVars, safetyVars, progressVars>>

\* What a hook of the algorithm may do with the algorithm's state.
HookRuns == algo' \in {algo, IF algo < MaxAlgo THEN algo + 1 ELSE algo}

\* execute_decision: an entry may follow unless entries are blocked.
ExecuteDecision(block) == entry' \in {FALSE, ~block}

\* What the algorithm may do in one pass: move its own state, ask for the end.
AlgorithmRuns ==
    /\ HookRuns
    /\ endAsked' \in {endAsked, TRUE}

\* One tick, from the executor's fills to the drained events.  The stale
\* episode ends before the algorithm sees the tick; the safety check comes
\* between the decision and its execution.
ProcessTick ==
    /\ pc = "get" /\ loopOn /\ queue # <<>> /\ Head(queue) = "tick"
    /\ queue' = Tail(queue)
    /\ anyTick' = TRUE /\ stale' = FALSE /\ execStale' = FALSE /\ episode' = FALSE
    /\ \E value \in Values :
          /\ baseline' = IF setup.spot /\ ~anyTick /\ value > 0 THEN value ELSE baseline
          /\ blocked' = SafetyBlocks(value, baseline')
          /\ breached' = SafetyBlocks(value, baseline')
    /\ AlgorithmRuns
    /\ ExecuteDecision(blocked')
    /\ sinceSave' = sinceSave + 1
    /\ durTicks' = IF storeUp THEN durTicks + 1 ELSE durTicks
    /\ ret' = "tick"
    /\ pc' = IF endAsked' THEN "after" ELSE "due"
    /\ UNCHANGED <<feed, feedOn, delay, wait, msgAge, emitted, exhausted, disk, saveAge,
                   bootVars, loopOn, tickAge, fails>>

\* Nothing came within the heartbeat interval.
GetTimesOut ==
    /\ pc = "get" /\ loopOn /\ queue = <<>>
    /\ pc' = "empty"
    /\ UNCHANGED <<feedVars, storeVars, bootVars, ret, loopOn, algo, endAsked, marketVars,
                   safetyVars, progressVars>>

\* The queue was empty, and by now the source says it has nothing more.
SourceExhausted ==
    /\ pc = "empty" /\ exhausted
    /\ pc' = "after"
    /\ UNCHANGED <<feedVars, storeVars, bootVars, ret, loopOn, algo, endAsked, marketVars,
                   safetyVars, progressVars>>

\* Mutant: the executor is not told.
EvaluateStalenessUntold ==
    IF anyTick /\ tickAge > StaleAfter
    THEN stale' = TRUE /\ episode' = TRUE /\ UNCHANGED execStale
    ELSE UNCHANGED <<stale, execStale, episode>>

\* Mutant: silence is only looked at before the first tick.
EvaluateStalenessNever ==
    IF ~anyTick /\ tickAge > StaleAfter
    THEN stale' = TRUE /\ execStale' = TRUE /\ episode' = TRUE
    ELSE UNCHANGED <<stale, execStale, episode>>

\* _evaluate_market_data_staleness
EvaluateStaleness ==
    IF anyTick /\ tickAge > StaleAfter
    THEN stale' = TRUE /\ execStale' = TRUE /\ episode' = TRUE
    ELSE UNCHANGED <<stale, execStale, episode>>

\* Mutant: the override is forgotten on the heartbeat's pass.
GhostDecisionUnchecked == entry' \in BOOLEAN

\* _run_decision_heartbeat: a logic that takes part decides on cached results,
\* under the safety block of the last tick.
GhostDecision == ExecuteDecision(blocked)

\* A heartbeat: the executor applies answers, staleness is evaluated, and
\* the ghost pass runs.
Heartbeat ==
    /\ pc = "empty" /\ ~exhausted
    /\ EvaluateStaleness
    /\ AlgorithmRuns
    /\ GhostDecision
    /\ pc' = "due" /\ ret' = "heartbeat"
    /\ UNCHANGED <<feedVars, storeVars, bootVars, loopOn, anyTick, tickAge, baseline, blocked,
                   breached, progressVars>>

\* An exception in the loop: no SessionEndEvent, straight to the shutdown.
LoopFails ==
    /\ pc \in {"get", "empty"} /\ loopOn
    /\ pc' = "stop"
    /\ UNCHANGED <<feedVars, storeVars, bootVars, ret, loopOn, algo, endAsked, marketVars,
                   safetyVars, progressVars>>

\* Where the main thread goes when a save, or its absence, is behind it.
Return ==
    /\ pc' = CASE ret = "tick" -> "get"
               [] ret = "heartbeat" -> IF endAsked THEN "after" ELSE "get"
               [] ret = "exit" -> "exit"
    /\ tickAge' = IF ret = "tick" THEN 0 ELSE tickAge
    /\ entry' = FALSE

EmptySnapshot == setup.emptyFresh /\ algo = 0

\* _persist_state_if_due
PersistIfDue ==
    /\ pc = "due"
    /\ \/ /\ ~storeUp \/ ~IsDue
          /\ Return
          /\ UNCHANGED <<storeVars, progressVars>>
       \/ /\ storeUp /\ IsDue /\ EmptySnapshot
          /\ MarkSaved /\ Return
          /\ durTicks' = 0 /\ UNCHANGED <<disk, fails>>
       \/ /\ storeUp /\ IsDue /\ ~EmptySnapshot
          /\ MarkSaved
          /\ pc' = "write"
          /\ UNCHANGED <<disk, tickAge, entry, progressVars>>
    /\ UNCHANGED <<feedVars, bootVars, ret, loopOn, algo, endAsked, anyTick, stale, execStale,
                   episode, baseline, blocked, breached>>

----------------------------------------------------------------------------
(* The two steps of a save, and the end of a session *)

saveLeaves == <<feedVars, sinceSave, saveAge, setup, storeUp, refused, ret, loopOn, algo,
                endAsked, anyTick, stale, execStale, episode, baseline, blocked, breached>>

SaveWrites ==
    /\ pc = "write"
    /\ WriteTemporary(algo) /\ pc' = "rename"
    /\ UNCHANGED <<saveLeaves, damaged, tickAge, entry, progressVars>>

SaveRenames ==
    /\ pc = "rename"
    /\ RenameTemporary(algo) /\ Return
    /\ damaged' = FALSE /\ durTicks' = 0 /\ fails' = 0
    /\ UNCHANGED saveLeaves

\* A save that fails is logged and swallowed.
SaveFails ==
    /\ pc \in {"write", "rename"} /\ fails < MaxFails
    /\ Return /\ fails' = fails + 1
    /\ UNCHANGED <<saveLeaves, disk, damaged, durTicks>>

\* The SessionEndEvent reaches the algorithm.
SessionEnds ==
    /\ pc = "after"
    /\ pc' = "stop" /\ loopOn' = FALSE
    /\ HookRuns
    /\ UNCHANGED <<feedVars, storeVars, bootVars, ret, endAsked, marketVars, safetyVars, progressVars>>

\* _shutdown: stop the source, close what is open, save the final state.
Shutdown ==
    /\ pc = "stop"
    /\ feedOn' = FALSE
    /\ IF storeUp THEN MarkSaved ELSE UNCHANGED <<sinceSave, saveAge>>
    /\ ret' = "exit"
    /\ pc' = IF storeUp /\ ~EmptySnapshot THEN "write" ELSE "exit"
    /\ UNCHANGED <<feed, queue, delay, wait, msgAge, emitted, exhausted, disk, bootVars, loopOn,
                   algo, endAsked, marketVars, safetyVars, progressVars>>

Exit == pc = "exit" /\ ProcessGone

----------------------------------------------------------------------------
(* The operator and the world *)

\* SIGINT or SIGTERM: the handler stops the loop.  Before the loop runs it has
\* no effect that EnterLoop does not undo.
Interrupt ==
    /\ pc # "off" /\ loopOn
    /\ loopOn' = FALSE
    /\ UNCHANGED <<feedVars, storeVars, bootVars, pc, ret, algo, endAsked, marketVars, safetyVars, progressVars>>

\* A second SIGINT exits at once; a crash does the same.
Crash == pc # "off" /\ ProcessGone

\* While the process is down its file grows old, or is damaged.
FileAges ==
    /\ pc = "off" /\ disk.kind = "ok" /\ ~disk.old
    /\ disk' = [disk EXCEPT !.old = TRUE]
    /\ UNCHANGED <<feedVars, sinceSave, saveAge, bootVars, pc, ret, loopOn, algo, endAsked,
                   marketVars, safetyVars, progressVars>>

FileDamaged ==
    /\ pc = "off" /\ disk.kind = "ok"
    /\ disk' = TornFile /\ damaged' = TRUE
    /\ UNCHANGED <<feedVars, sinceSave, saveAge, setup, storeUp, refused, pc, ret, loopOn,
                   algo, endAsked, marketVars, safetyVars,
                   progressVars>>

\* The source's thread and the network.
FeedSteps(Step(_)) ==
    /\ Step(setup.source)
    /\ UNCHANGED <<storeVars, bootVars, pc, ret, loopOn, algo, endAsked, marketVars, safetyVars, progressVars>>

TimePasses ==
    /\ pc # "off"
    /\ FeedClock /\ StoreClock
    /\ tickAge' = IF anyTick THEN Min2(tickAge + 1, StaleAfter + 1) ELSE tickAge
    /\ UNCHANGED <<disk, sinceSave, bootVars, pc, ret, loopOn, algo, endAsked, anyTick, stale,
                   execStale, episode, safetyVars, progressVars>>

MainThread ==
    \/ RestoreState \/ StartFeed \/ EnterLoop
    \/ LoopStops \/ GetSentinel \/ ProcessTick \/ GetTimesOut \/ SourceExhausted \/ Heartbeat
    \/ PersistIfDue \/ SaveWrites \/ SaveRenames \/ SaveFails
    \/ SessionEnds \/ Shutdown \/ Exit

Next ==
    \/ Boot \/ StartupFails \/ MainThread \/ LoopFails
    \/ Interrupt \/ Crash \/ FileAges \/ FileDamaged
    \/ FeedSteps(FeedThread) \/ FeedSteps(Network)
    \/ TimePasses

Spec == Init /\ [][Next]_vars

\* The operating system keeps running both threads; nothing is assumed of the
\* network, the operator or the clock.
FairSpec ==
    /\ Spec
    /\ WF_vars(MainThread)
    /\ WF_vars(FeedSteps(FeedThread))

----------------------------------------------------------------------------
(* Properties *)

\* A crash, a kill or a failed save never leaves an unreadable state file: only
\* damage from outside does (algo_state_store.py _atomic_write).
NeverTorn == disk.kind = "torn" => damaged

\* Between two ticks, fewer ticks than the save interval are missing from the
\* file; every save that failed in between costs one interval more, because
\* the marks move before the file is written (algo_state_store.py save).
DurableProgress ==
    storeUp /\ pc = "get" => durTicks < SaveTicks * (1 + fails)

\* The loop's flag, the status the executor and the order guard read, and the
\* episode tracker agree at every moment, and are up only while no tick has
\* been processed for longer than the limit (autotrader_tick_loop.py 625-690).
StaleOnlyWhileSilent ==
    /\ stale = execStale /\ execStale = episode
    /\ execStale => anyTick /\ tickAge > StaleAfter

\* Once there was a tick, no pass, not even a heartbeat's between ticks, enters
\* the market after a safety check that failed (autotrader_tick_loop.py 380, 584).
SafetyHolds == anyTick /\ entry => ~breached

\* A loop that was told to stop ends, and with it the process, whatever the
\* feed does (autotrader_main.py 741, 751).
StopEnds == (pc \in LoopPlaces /\ ~loopOn) ~> (pc = "off")

\* Silence longer than the limit is noticed by a heartbeat, unless a tick
\* comes or the session ends (autotrader_tick_loop.py 273).
StaleNoticed ==
    (pc \in LoopPlaces /\ anyTick /\ tickAge > StaleAfter)
        ~> (execStale \/ tickAge <= StaleAfter \/ pc \notin LoopPlaces)

\* A connection that has gone silent is given up, unless a message arrives
\* (kraken_tick_source.py 333-362).
DeadLinkLeft ==
    (feed = "open" /\ msgAge > DeadAfter) ~> (feed # "open" \/ msgAge <= DeadAfter)

\* Crashes, failed saves and restarts leave a readable file that lags by a
\* bounded number of ticks.
StateDurable == NeverTorn /\ DurableProgress

\* What gates the orders of a pass, staleness and the safety block, is true of
\* the moment of the pass.
GatesTrue == TypeOK /\ StaleOnlyWhileSilent /\ SafetyHolds

\* A session goes on to its end when told to, and notices silence at both
\* ends: in the loop, and in the monitor of the connection.
SessionLive == StopEnds /\ StaleNoticed /\ DeadLinkLeft

\* Stated by the state persistence guide (on_stale "halt": "refuse to boot; you
\* decide (delete the state file to start fresh ...)"): a boot that was refused
\* leaves the file to the operator.
HaltKeepsFile == [][refused /\ pc # "off" => disk' = disk]_vars
=============================================================================
