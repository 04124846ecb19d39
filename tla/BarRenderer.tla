------------------------------ MODULE BarRenderer ------------------------------
(***************************************************************************)
(* Bars built from ticks (BarRenderer) and their delivery to the workers   *)
(* (BarRenderingController): the closed bars of every timeframe, the bar   *)
(* under construction, the cached copy of the history that the algorithm   *)
(* path reads, and the timeframes that closed since it last read them.     *)
(*                                                                         *)
(* A bar is its period and the last tick it took in: [start, last], with   *)
(* last = -1 in the bars of the warm-up.  Ticks are timed from the start   *)
(* of the session, which need not be the start of a period.                *)
(***************************************************************************)
EXTENDS Integers, Sequences, SequencesExt

CONSTANTS
    Timeframes,   \* the required timeframes, as lengths in time units
    SessionStart, \* where on the grid of the periods the session starts
    MaxHistory    \* bars kept per timeframe (max_history)

ASSUME BarAssumption ==
    /\ Timeframes \subseteq Nat \ {0} /\ SessionStart \in Nat
    /\ MaxHistory \in Nat \ {0}

VARIABLES
    current,    \* timeframe -> the bar under construction, or NoBar
    completed,  \* timeframe -> the closed bars, oldest first
    cached,     \* timeframe -> _cached_bar_history
    cacheValid, \* timeframe -> _cache_valid_per_timeframe
    closedTfs   \* _pending_closed_timeframes

barVars == <<current, completed, cached, cacheValid, closedTfs>>

NoBar == [start |-> -1, last |-> -1]

GetBarStartTime(t, tf) == ((SessionStart + t) \div tf) * tf

BarInit ==
    /\ current = [tf \in Timeframes |-> NoBar]
    /\ completed = [tf \in Timeframes |-> <<>>]
    /\ cached = [tf \in Timeframes |-> <<>>]
    /\ cacheValid = [tf \in Timeframes |-> FALSE]
    /\ closedTfs = {}

\* The deque keeps the newest MaxHistory bars.
Keep(history) ==
    IF Len(history) > MaxHistory THEN SubSeq(history, Len(history) - MaxHistory + 1, Len(history))
                                 ELSE history

\* The warm-up bars of a timeframe, before the first tick.
InjectWarmupBars(warmup) ==
    /\ completed' = [tf \in Timeframes |-> Keep(completed[tf] \o warmup[tf])]
    /\ cacheValid' = [tf \in Timeframes |-> FALSE]
    /\ UNCHANGED <<current, cached, closedTfs>>

\* Mutant: a bar is closed by every tick.
ClosesEveryTick(t, tf) == current[tf] # NoBar

BarCloses(t, tf) ==
    /\ current[tf] # NoBar
    /\ current[tf].start # GetBarStartTime(t, tf)

Closing(t) == {tf \in Timeframes : BarCloses(t, tf)}

\* Every tick updates the bars, also one that is too late for the algorithm.
RenderTick(t) ==
    /\ completed' = [tf \in Timeframes |->
                        IF tf \in Closing(t) THEN Keep(Append(completed[tf], current[tf]))
                                             ELSE completed[tf]]
    /\ current' = [tf \in Timeframes |-> [start |-> GetBarStartTime(t, tf), last |-> t]]

\* Mutant: only what this very tick closed.
ClosedByThisTick(t) == Closing(t)

\* The timeframes that closed since the algorithm path last looked.
PendingClosed(t) == closedTfs \cup Closing(t)

\* Mutant: a clipped tick does not invalidate.
ValidKept(t) == cacheValid

\* What a tick leaves valid of the cached histories.
ValidAfter(t) == [tf \in Timeframes |-> cacheValid[tf] /\ ~BarCloses(t, tf)]

\* What the algorithm path reads after a tick at t (get_all_bar_history): the
\* cached copy where it is still valid, else the bars themselves.
HistoryRead(t) ==
    [tf \in Timeframes |-> IF ValidAfter(t)[tf] THEN cached[tf] ELSE completed'[tf]]

\* A tick for the bars alone (clipped in the simulation).
BarsOnly(t) ==
    /\ RenderTick(t)
    /\ cacheValid' = ValidAfter(t)
    /\ closedTfs' = PendingClosed(t)
    /\ UNCHANGED cached

\* A tick for the algorithm too: the bars, the history read and cached, and
\* the closed timeframes taken out of the controller.
BarsForPass(t) ==
    /\ RenderTick(t)
    /\ cached' = HistoryRead(t)
    /\ cacheValid' = [tf \in Timeframes |-> TRUE]
    /\ closedTfs' = {}

BarTypeOK ==
    /\ DOMAIN current = Timeframes /\ DOMAIN completed = Timeframes
    /\ \A tf \in Timeframes : Len(completed[tf]) <= MaxHistory
    /\ cacheValid \in [Timeframes -> BOOLEAN]
    /\ closedTfs \subseteq Timeframes

\* The warm-up's bar of the period in which the session starts.
StartPeriod(tf) == [start |-> GetBarStartTime(0, tf), last |-> -1]

\* Two bars of a history, or one of it and the bar under construction, in turn.
InTurn(a, b, tf) ==
    \/ a.start < b.start
    \/ a = StartPeriod(tf) /\ SessionStart % tf # 0 /\ b.start = a.start /\ b.last # -1

\* No bar is out of order and no period is there twice, and the bar under
\* construction is younger than every closed one (update_current_bars), as long
\* as the ticks are in order.  The one exception is the period in which a
\* session starts that does not start with it: the warm-up of a simulation
\* has that period already, and the ticks of the session render it again.
BarsInOrder ==
    \A tf \in Timeframes :
        LET all == IF current[tf] = NoBar THEN completed[tf] ELSE Append(completed[tf], current[tf])
        IN  \A i, j \in 1 .. Len(all) : i < j => InTurn(all[i], all[j], tf)

\* A valid cached history is the history (the invalidation of process_tick
\* and inject_warmup_bars reaches every change of the bars).
CacheTrue == \A tf \in Timeframes : cacheValid[tf] => cached[tf] = completed[tf]
=============================================================================
