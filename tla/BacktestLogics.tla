---------------------------- MODULE BacktestLogics ----------------------------
(***************************************************************************)
(* The decision logics that play a script against the executor, tick by    *)
(* tick: BacktestingDeterministic, which holds one trade at a time,        *)
(* BacktestingMultiPosition, BacktestingMarginStress and                   *)
(* BacktestingEventProbe.  The executor keys a close by the position, so a *)
(* second close of a position whose first is on its way takes its place:   *)
(* these logics have to ask first.  Lists of the configuration that are    *)
(* scanned one after the other (trade_sequence, retry_events,              *)
(* edge_case_orders) are one sequence here.                                *)
(***************************************************************************)
EXTENDS TradingDesk

CONSTANTS
    Scripts,    \* per logic, the configurations it may be given
    MaxCount    \* bound of the model: ticks of a scenario

VARIABLES
    script,     \* trades, the closes asked for by tick, operations by tick
    probe       \* the state of the logic

probeVars == <<book, logic, script, probe>>
ProbeLogics == {"deterministic", "multi", "margin", "event"}
Never == 99

\* What the configuration of a logic may hold: its trades, and the operations
\* of modify_sequence, cancel_sequence and their relatives by tick.
ASSUME ScriptAssumption ==
    \A l \in ProbeLogics : \A s \in Scripts[l] :
        /\ s.trades \in Seq([at : Nat, dir : {"LONG", "SHORT"}, hold : Nat, listed : BOOLEAN,
                             kind : {"MARKET", "LIMIT", "STOP", "STOP_LIMIT", "none"}])
        /\ \A t \in DOMAIN s.ops :
             s.ops[t] \in {"modify_position", "modify_limit", "modify_stop", "cancel_limit", "cancel_stop"}

\* count: tick_count.  until: close_tick of the active trade, 0 for none.
\* started: trades whose tick has come.  limit, stop: the ids of the last such
\* orders.  active: close tick by order id.  placed: order id by trade.
\* twice (history): some close was asked for while another was on its way.
\* dropped (history): ids forgotten at their close tick without a close.
FreshProbe ==
    [count |-> 0, until |-> 0, started |-> {}, limit |-> 0, stop |-> 0, active |-> <<>>, placed |-> <<>>,
     closed |-> {}, ended |-> FALSE, twice |-> FALSE, dropped |-> {}]

ProbeInit == book = <<>> /\ probe = FreshProbe /\ script \in Scripts[logic]

Forget(f, D) == [i \in DOMAIN f \ D |-> f[i]]

\* A state in the middle of a tick: the book b and the logic's own p.
AskClose(s, S, how) ==
    [b |-> [i \in DOMAIN s.b |-> IF i \in S THEN [s.b[i] EXCEPT !.close = how] ELSE s.b[i]],
     p |-> [s.p EXCEPT !.twice = @ \/ \E i \in S : s.b[i].close # "no"]]

\* Mutant: a close on its way is not looked for.
ClosableAlways(s, i) == i \in OpenPositions(s.b)

Closable(s, i) == i \in OpenPositions(s.b) /\ s.b[i].close = "no"

----------------------------------------------------------------------------
(* BacktestingDeterministic                                                *)

InWindow(k, count) == count \in script.trades[k].at .. (script.trades[k].at + script.trades[k].hold)

\* A trade that has been made and is over is not made again.
Over(s, k) == k \in s.p.started /\ ~HasPendingOrders(s.b) /\ OpenPositions(s.b) = {}

\* compute_tick: the trade to hold, or <<>> for FLAT, and the new state.
ScriptedTrade(s) ==
    LET held == {k \in DOMAIN script.trades : InWindow(k, s.p.count) /\ ~Over(s, k)}
        k == First(held)
        begins == s.p.count = script.trades[k].at
    IN  IF s.p.until # 0 /\ s.p.count >= s.p.until
        THEN [d |-> <<>>, s |-> [s EXCEPT !.p.until = 0]]
        ELSE IF held = {} THEN [d |-> <<>>, s |-> s]
        ELSE [d |-> <<script.trades[k]>>,
              s |-> IF begins THEN [s EXCEPT !.p.started = @ \cup {k},
                                             !.p.until = s.p.count + script.trades[k].hold]
                    ELSE s]

\* The modify and cancel sequences, in the order of the code.  The api takes
\* them for an order at the broker with no other operation on its way; an id
\* is forgotten with its cancel.
Free(s, i, kinds) == i \in ActiveOrders(s.b) /\ s.b[i].kind \in kinds /\ s.b[i].op = "none"
OperationOn(s, what) ==
    CASE what = "modify_position" ->
           IF OpenPositions(s.b) = {} \/ s.b[First(OpenPositions(s.b))].op # "none" THEN s
           ELSE [s EXCEPT !.b = Modify(@, First(OpenPositions(s.b)), 0, 1)]
      [] what = "modify_limit" ->
           IF s.p.limit = 0 \/ ~Free(s, s.p.limit, {"LIMIT"}) THEN s ELSE [s EXCEPT !.b = Modify(@, s.p.limit, 1, 0)]
      [] what = "modify_stop" ->
           IF s.p.stop = 0 \/ ~Free(s, s.p.stop, {"STOP", "STOP_LIMIT"}) THEN s
           ELSE [s EXCEPT !.b = Modify(@, s.p.stop, 1, 0)]
      [] what = "cancel_limit" ->
           IF s.p.limit = 0 THEN s
           ELSE [b |-> IF Free(s, s.p.limit, {"LIMIT"}) THEN CancelOrder(s.b, s.p.limit) ELSE s.b,
                 p |-> [s.p EXCEPT !.limit = 0]]
      [] what = "cancel_stop" ->
           IF s.p.stop = 0 THEN s
           ELSE [b |-> IF Free(s, s.p.stop, {"STOP", "STOP_LIMIT"}) THEN CancelOrder(s.b, s.p.stop) ELSE s.b,
                 p |-> [s.p EXCEPT !.stop = 0]]
      [] what = "none" -> s

Operations(s) == OperationOn(s, IF s.p.count \in DOMAIN script.ops THEN script.ops[s.p.count] ELSE "none")

SendScripted(s, t, accepted) ==
    IF ~accepted \/ Len(s.b) >= MaxDeskOrders THEN s
    ELSE LET id == Len(s.b) + 1
         IN  [b |-> Send(s.b, NewOrder(t.kind, t.dir, 0, 0)),
              p |-> [s.p EXCEPT !.limit = IF t.kind = "LIMIT" THEN id ELSE @,
                                !.stop = IF t.kind \in {"STOP", "STOP_LIMIT"} THEN id ELSE @]]

\* Mutant: orders on their way are not waited for.
ExecuteScriptedEager(s, d, accepted) ==
    IF d = <<>> THEN AskClose(s, OpenPositions(s.b), "all")
    ELSE IF OpenPositions(s.b) # {} THEN s ELSE SendScripted(s, d[1], accepted)

ExecuteScripted(s, d, accepted) ==
    IF HasPendingOrders(s.b) THEN s
    ELSE IF d = <<>> THEN AskClose(s, OpenPositions(s.b), "all")
    ELSE IF OpenPositions(s.b) # {} THEN s ELSE SendScripted(s, d[1], accepted)

DeterministicTick(s, accepted) ==
    LET c == ScriptedTrade(s) IN ExecuteScripted(Operations(c.s), c.d, accepted)

----------------------------------------------------------------------------
(* BacktestingMultiPosition and BacktestingMarginStress                    *)

\* compute_tick: the first trade whose tick this is.
DueTrades(s) == {k \in DOMAIN script.trades : script.trades[k].at = s.p.count /\ k \notin s.p.started}

Expired(p) == {i \in DOMAIN p.active : p.active[i] # Never /\ p.count >= p.active[i]}

\* _close_expired_positions: whatever becomes of it, the order is forgotten.
CloseExpired(s) ==
    LET due == Expired(s.p)
        c == {i \in due : Closable(s, i)}
    IN  [AskClose(s, c, "all") EXCEPT !.p.active = Forget(@, due),
                                      !.p.dropped = @ \cup {i \in due \ c : s.b[i].st # "gone"}]

DueEnds(s) == {k \in DOMAIN script.ends : script.ends[k].at = s.p.count /\ k \notin s.p.closed}
EndedIds(s) == {s.p.placed[script.ends[k].trade] : k \in {j \in DueEnds(s) : script.ends[j].trade \in DOMAIN s.p.placed}}

ProcessPartialCloses(s) ==
    [AskClose(s, {i \in EndedIds(s) : Closable(s, i)}, "part") EXCEPT !.p.closed = @ \cup DueEnds(s)]

ProcessCloseEvents(s) ==
    LET c == {i \in EndedIds(s) : Closable(s, i)}
    IN  [AskClose(s, c, "all") EXCEPT !.p.closed = @ \cup DueEnds(s), !.p.active = Forget(@, c)]

\* Mutant: an order is tracked under the wrong id.
PlaceUntracked(s, k, accepted) ==
    IF ~accepted \/ Len(s.b) >= MaxDeskOrders THEN s
    ELSE [s EXCEPT !.b = Send(@, NewOrder("MARKET", script.trades[k].dir, 0, 0))]

\* The order of a trade, tracked unless it is refused.  Of kind "none" is the
\* edge case that closes a position that does not exist, which is refused.
Place(s, k, accepted) ==
    LET t == script.trades[k]
        id == Len(s.b) + 1
        until == IF t.hold = Never THEN Never ELSE s.p.count + t.hold
    IN  IF ~accepted \/ t.kind = "none" \/ Len(s.b) >= MaxDeskOrders THEN s
        ELSE [b |-> Send(s.b, NewOrder("MARKET", t.dir, 0, 0)),
              p |-> [s.p EXCEPT !.active = [i \in DOMAIN @ \cup {id} |-> IF i = id THEN until ELSE @[i]],
                                !.placed = IF t.listed THEN [j \in DOMAIN @ \cup {k} |-> IF j = k THEN id ELSE @[j]]
                                           ELSE @]]

MarkDue(s) == IF DueTrades(s) = {} THEN s ELSE [s EXCEPT !.p.started = @ \cup {First(DueTrades(s))}]
PlaceDue(before, s, accepted) ==
    IF DueTrades(before) = {} THEN s ELSE Place(s, First(DueTrades(before)), accepted)

MultiTick(s, accepted) == PlaceDue(s, ProcessPartialCloses(CloseExpired(MarkDue(s))), accepted)

MarginTick(s, accepted) == PlaceDue(s, ProcessCloseEvents(CloseExpired(MarkDue(s))), accepted)

----------------------------------------------------------------------------
(* BacktestingEventProbe: one order, one partial close, then the end        *)

MaybePartialClose(s) ==
    LET c == {i \in EndedIds(s) : Closable(s, i)}
    IN  [AskClose(s, c, "part") EXCEPT !.p.closed = IF c = {} THEN @ ELSE @ \cup DueEnds(s)]

MaybeRequestSessionEnd(s) == [s EXCEPT !.p.ended = @ \/ s.p.count = script.endAt]

EventTick(s, accepted) == PlaceDue(s, MaybeRequestSessionEnd(MaybePartialClose(MarkDue(s))), accepted)

----------------------------------------------------------------------------
(* A tick, after which the event probe's session may be over.              *)

ProbeTick ==
    /\ logic \in ProbeLogics /\ probe.count < MaxCount /\ ~probe.ended
    /\ \E b \in AfterTick, accepted \in BOOLEAN :
        LET s == [b |-> b, p |-> [probe EXCEPT !.count = @ + 1]]
            t == CASE logic = "deterministic" -> DeterministicTick(s, accepted)
                   [] logic = "multi" -> MultiTick(s, accepted)
                   [] logic = "margin" -> MarginTick(s, accepted)
                   [] logic = "event" -> EventTick(s, accepted)
        IN  book' = t.b /\ probe' = t.p
    /\ UNCHANGED <<logic, script>>

----------------------------------------------------------------------------
(* Properties                                                              *)

\* A close is never asked for while another close of the position is on its
\* way, however expiries, scripted closes and slow fills meet.
OneCloseAtATime == ~probe.twice

\* BacktestingDeterministic is never exposed twice, and holds nothing once
\* no trade of its script is on.
ScriptKept ==
    logic = "deterministic" =>
        /\ Cardinality(In(book, {"queue", "active", "open"})) <= 1
        /\ (\A k \in DOMAIN script.trades : ~InWindow(k, probe.count)) =>
              \A i \in OpenPositions(book) : book[i].close # "no"

\* A position that nothing will close is one the logic let go of at its
\* close tick because it could not be closed then, or one whose close was
\* taken and then refused.
ClosesRemembered ==
    logic \in {"multi", "margin"} =>
        \A i \in In(book, {"queue", "open"}) :
            book[i].close = "all" \/ "close" \in book[i].refused \/ i \in DOMAIN probe.active \cup probe.dropped

ProbesSound == OneCloseAtATime /\ ScriptKept /\ ClosesRemembered
=============================================================================
