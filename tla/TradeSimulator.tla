--------------------------- MODULE TradeSimulator ---------------------------
(***************************************************************************)
(* Order execution in the simulator: TradeSimulator on top of              *)
(* AbstractTradeExecutor, with its OrderLatencySimulator, driven by the    *)
(* tick loop of one scenario.                                              *)
(*                                                                         *)
(* An order id is also the id of the position it opens, so one id space    *)
(* indexes four containers: the latency queue (a dict), the lists of       *)
(* active limit and stop orders, and the open positions (a dict).  A       *)
(* container is a function whose domain is the set of ids it holds.        *)
(*                                                                         *)
(* on_tick and heartbeat run their phases in a fixed order while nothing   *)
(* else can run; the variable phase is the program counter between the     *)
(* phases, and each phase handles all the orders it concerns in one step.  *)
(* What one order does in a phase depends on another order only through    *)
(* the account's funds, which PortfolioManager models; here a fill may be  *)
(* refused for lack of funds at any time.                                  *)
(***************************************************************************)
EXTENDS OrderPricing, FiniteSets, Sequences

CONSTANTS
  MaxOrders,       \* bound: open_order calls in a scenario
  Prices,          \* positive prices an order or a level may have
  Bids,            \* the bid prices the market moves between
  Spread,          \* ask - bid
  VolumeMin,       \* the symbol's volume_min, in volume steps
  VolumeMax,       \* the symbol's volume_max, in volume steps
  Delays,          \* inbound latencies the seeded generator may draw
  MaxMsc,          \* bound: the last tick's millisecond
  MinTickGap,      \* least distance of two ticks (0: same millisecond)
  HeartbeatMs,     \* heartbeat_interval_ms (0: no heartbeats)
  GapThreshold,    \* inter_tick_gap_threshold_s, in milliseconds
  NativeSlTp,      \* capability native_position_sl_tp of the adapter
  Requests,        \* the open_order requests the algorithm may make
  CloseLots,       \* the lots it may pass to close_position
  Modifications    \* the arguments it may pass to the modify calls

Ids == 1..MaxOrders
OptPrice == Prices \cup {None}

\* OpenOrderRequest, after _normalize_order_request rounded its prices.
Request ==
  [type: OrderTypes, dir: Directions, lots: Nat,
   price: OptPrice, stop: OptPrice, sl: OptPrice, tp: OptPrice]

\* The arguments of modify_limit_order, modify_stop_order, modify_position.
Modification ==
  [price: OptPrice \cup {Unset}, limit: OptPrice \cup {Unset},
   sl: OptPrice \cup {Unset}, tp: OptPrice \cup {Unset}]

ASSUME SizeAssumption ==
  /\ MaxOrders \in Nat \ {0}
  /\ Prices \subseteq Nat \ {0} /\ Bids \subseteq Nat \ {0}
  /\ Spread \in Nat
  /\ VolumeMin \in Nat \ {0} /\ VolumeMax \in Nat
ASSUME TimeAssumption ==
  /\ Delays \subseteq Nat /\ MaxMsc \in Nat
  /\ MinTickGap \in Nat /\ HeartbeatMs \in Nat /\ GapThreshold \in Nat
ASSUME InputAssumption ==
  /\ NativeSlTp \in BOOLEAN
  /\ Requests \subseteq Request
  /\ CloseLots \subseteq Nat \cup {Unset}
  /\ Modifications \subseteq Modification

VARIABLES
  tick,        \* _current_tick: its bid, ask and millisecond
  clock,       \* _clock_time: the tick's time, or a heartbeat's
  phase,       \* where on_tick / heartbeat stands; "idle" between calls
  pending,     \* OrderLatencySimulator._pending_orders
  limits,      \* _active_limit_orders
  stops,       \* _active_stop_orders
  positions,   \* PortfolioManager.open_positions
  posMods,     \* _pending_position_modifications
  results,     \* per order: the final outcomes reported for its opening
  filledLots,  \* per order: executed_lots of its opening
  closedLots,  \* per position: executed_lots of all its closes
  sent, executed, rejected, slTpTriggered,     \* the execution statistics
  totalFilled, totalRejected, totalForceClosed \* PendingOrderStats: how
               \* entries left the latency queue

counters == <<sent, executed, rejected, slTpTriggered>>
stats == <<totalFilled, totalRejected, totalForceClosed>>
vars == <<tick, clock, phase, pending, limits, stops, positions, posMods,
          results, filledLots, closedLots, counters, stats>>

-----------------------------------------------------------------------------
Phases == {"idle", "ops", "drain", "limits", "stops", "sltp", "ended"}
Outcomes == {"EXECUTED", "REJECTED", "CANCELLED", "EXPIRED", "FORCE_CLOSED"}

\* ModificationRequest; NoMod stands for "no pending modification".
Mod == [price: OptPrice, limit: OptPrice, sl: OptPrice, tp: OptPrice]
NoMod == [price |-> None, limit |-> None, sl |-> None, tp |-> None]

\* PendingOrder, of an order to open (whose price is entry_price: the limit
\* price of a LIMIT, the stop price of a STOP or STOP_LIMIT, whose limit
\* price is kept in order_kwargs) and of an order to close.
Operations == {"NONE", "PENDING_MODIFY", "PENDING_CANCEL"}
OpenRecord ==
  [action: {"OPEN"}, type: OrderTypes, dir: Directions, lots: Nat \ {0},
   price: OptPrice, limit: OptPrice, sl: OptPrice, tp: OptPrice,
   fillAt: Nat, op: Operations, mod: Mod, applyAt: Nat]
CloseRecord == [action: {"CLOSE"}, lots: Nat \cup {Unset}, fillAt: Nat]

Position == [dir: Directions, lots: Nat \ {0}, sl: OptPrice, tp: OptPrice]
PositionMod == [sl: OptPrice, tp: OptPrice, applyAt: Nat]

Tick == [bid: Nat, ask: Nat, msc: Nat]

\* A dict or list of S keyed by order id.
IsContainer(f, S) == DOMAIN f \subseteq Ids /\ f \in [DOMAIN f -> S]
Empty == [i \in {} |-> i]
Without(f, D) == [i \in DOMAIN f \ D |-> f[i]]
Accept(f, g, S) == [i \in DOMAIN f \cup S |-> IF i \in S THEN g[i] ELSE f[i]]
Put(f, i, x) == [j \in DOMAIN f \cup {i} |-> IF j = i THEN x ELSE f[j]]

-----------------------------------------------------------------------------
(* Submission *)

\* The record submit_open_order stores for a request.
NewOrder(r, at) ==
  [action |-> "OPEN", type |-> r.type, dir |-> r.dir, lots |-> r.lots,
   price |-> CASE r.type = "LIMIT" -> r.price
               [] r.type \in {"STOP", "STOP_LIMIT"} -> r.stop
               [] OTHER -> None,
   limit |-> IF r.type = "STOP_LIMIT" THEN r.price ELSE None,
   sl |-> r.sl, tp |-> r.tp, fillAt |-> at,
   op |-> "NONE", mod |-> NoMod, applyAt |-> 0]

\* The record submit_close_order stores.
NewClose(lots, at) == [action |-> "CLOSE", lots |-> lots, fillAt |-> at]

\* Lot size within the broker's limits, and a positive price wherever the
\* order type needs one.
RequestValid(r) ==
  /\ r.lots \in VolumeMin..VolumeMax
  /\ r.type \in {"LIMIT", "STOP_LIMIT"} => r.price # None
  /\ r.type \in {"STOP", "STOP_LIMIT"} => r.stop # None

Report(S, outcome) ==
  [i \in Ids |-> IF i \in S THEN Append(results[i], outcome) ELSE results[i]]

Decide(filled, refused) ==
  [i \in Ids |-> CASE i \in filled  -> Append(results[i], "EXECUTED")
                   [] i \in refused -> Append(results[i], "REJECTED")
                   [] OTHER -> results[i]]

\* TradeSimulator.open_order: the id is drawn before validation, so a
\* rejected request uses one up.
OpenOrder(r) ==
  LET id == sent + 1 IN
  /\ phase = "idle" /\ id \in Ids
  /\ \/ /\ RequestValid(r)
        /\ \E d \in Delays : pending' = Put(pending, id, NewOrder(r, tick.msc + d))
        /\ UNCHANGED <<results, rejected>>
     \/ /\ ~RequestValid(r)
        /\ rejected' = rejected + 1
        /\ results' = Report({id}, "REJECTED")
        /\ UNCHANGED pending
  /\ sent' = sent + 1
  /\ UNCHANGED <<tick, clock, phase, limits, stops, positions, posMods,
                 filledLots, closedLots, executed, slTpTriggered, stats>>

\* TradeSimulator.close_position: the entry is stored under the position's
\* id and replaces a close of the same position that is still in flight.
ClosePosition(i, lots) ==
  /\ phase = "idle" /\ i \in DOMAIN positions
  /\ \E d \in Delays : pending' = Put(pending, i, NewClose(lots, tick.msc + d))
  /\ UNCHANGED <<tick, clock, phase, limits, stops, positions, posMods,
                 results, filledLots, closedLots, counters, stats>>

-----------------------------------------------------------------------------
(* Modify and cancel: scheduled now, resolved in phase "ops" one            *)
(* millisecond later (_modify_cancel_delay_msc = 1).                        *)

ApplyAt == tick.msc + 1

Cancelling(o) == [o EXCEPT !.op = "PENDING_CANCEL", !.applyAt = ApplyAt]

CancelLimitOrder(i) ==
  /\ phase = "idle" /\ i \in DOMAIN limits /\ limits[i].op = "NONE"
  /\ limits' = [limits EXCEPT ![i] = Cancelling(@)]
  /\ UNCHANGED <<tick, clock, phase, pending, stops, positions, posMods,
                 results, filledLots, closedLots, counters, stats>>

CancelStopOrder(i) ==
  /\ phase = "idle" /\ i \in DOMAIN stops /\ stops[i].op = "NONE"
  /\ stops' = [stops EXCEPT ![i] = Cancelling(@)]
  /\ UNCHANGED <<tick, clock, phase, pending, limits, positions, posMods,
                 results, filledLots, closedLots, counters, stats>>

\* The order with modification m scheduled, every value made effective.
Modifying(o, m) ==
  [o EXCEPT !.op = "PENDING_MODIFY", !.applyAt = ApplyAt,
            !.mod = [price |-> Effective(m.price, o.price),
                     limit |-> Effective(m.limit, o.limit),
                     sl |-> Effective(m.sl, o.sl),
                     tp |-> Effective(m.tp, o.tp)]]

\* modify_limit_order has no limit-price argument; a converted STOP_LIMIT
\* keeps its old one in order_kwargs.
ModifyLimitOrder(i, m) ==
  /\ phase = "idle" /\ i \in DOMAIN limits /\ limits[i].op = "NONE"
  /\ m.price # None /\ m.limit = Unset
  /\ LET o == Modifying(limits[i], m) IN
       /\ OrderLevelsValid(o.dir, o.mod.price, o.mod.sl, o.mod.tp)
       /\ limits' = [limits EXCEPT ![i] = [o EXCEPT !.mod.limit = None]]
  /\ UNCHANGED <<tick, clock, phase, pending, stops, positions, posMods,
                 results, filledLots, closedLots, counters, stats>>

ModifyStopOrder(i, m) ==
  /\ phase = "idle" /\ i \in DOMAIN stops /\ stops[i].op = "NONE"
  /\ m.price # None
  /\ m.limit # Unset => stops[i].type = "STOP_LIMIT" /\ m.limit # None
  /\ LET o == Modifying(stops[i], m)
         reference == IF o.type = "STOP_LIMIT" THEN o.mod.limit ELSE o.mod.price
     IN /\ OrderLevelsValid(o.dir, reference, o.mod.sl, o.mod.tp)
        /\ stops' = [stops EXCEPT ![i] = o]
  /\ UNCHANGED <<tick, clock, phase, pending, limits, positions, posMods,
                 results, filledLots, closedLots, counters, stats>>

\* PortfolioManager.modify_position once the values are effective: levels
\* the current price makes invalid leave the position as it is.
WithLevels(p, sl, tp) ==
  IF LevelsValid(p.dir, tick.bid, tick.ask, sl, tp)
  THEN [p EXCEPT !.sl = sl, !.tp = tp] ELSE p

\* Without native SL/TP the change is made, and validated, at once; with it
\* the change is scheduled, and validated only when it is resolved.
ModifyPosition(i, m) ==
  /\ phase = "idle" /\ i \in DOMAIN positions
  /\ LET p == positions[i]
         sl == Effective(m.sl, p.sl)
         tp == Effective(m.tp, p.tp)
     IN \/ /\ ~NativeSlTp
           /\ positions' = [positions EXCEPT ![i] = WithLevels(p, sl, tp)]
           /\ UNCHANGED posMods
        \/ /\ NativeSlTp /\ i \notin DOMAIN posMods
           /\ posMods' = Put(posMods, i, [sl |-> sl, tp |-> tp, applyAt |-> ApplyAt])
           /\ UNCHANGED positions
  /\ UNCHANGED <<tick, clock, phase, pending, limits, stops, results,
                 filledLots, closedLots, counters, stats>>

-----------------------------------------------------------------------------
(* Time: the tick loop of process_tick_loop *)

HeartbeatsDue(gap) == HeartbeatMs > 0 /\ gap > HeartbeatMs /\ gap <= GapThreshold

\* on_tick up to the call of _process_pending_orders. When the gap to the
\* new tick calls for heartbeats, the loop has run all of them.
OnTick(bid, msc) ==
  /\ phase = "idle"
  /\ msc \in tick.msc + MinTickGap .. MaxMsc
  /\ IF HeartbeatsDue(msc - tick.msc)
     THEN clock < msc /\ msc <= clock + HeartbeatMs
     ELSE clock = tick.msc
  /\ tick' = [bid |-> bid, ask |-> bid + Spread, msc |-> msc]
  /\ clock' = msc
  /\ phase' = "ops"
  /\ UNCHANGED <<pending, limits, stops, positions, posMods, results,
                 filledLots, closedLots, counters, stats>>

\* One round of _run_sim_heartbeats: the clock moves to the next grid point
\* before the coming tick, the current tick stays.
Heartbeat ==
  /\ phase = "idle"
  /\ \E msc \in clock + HeartbeatMs + 1 .. MaxMsc : HeartbeatsDue(msc - tick.msc)
  /\ clock' = clock + HeartbeatMs
  /\ phase' = "ops"
  /\ UNCHANGED <<tick, pending, limits, stops, positions, posMods, results,
                 filledLots, closedLots, counters, stats>>

-----------------------------------------------------------------------------
(* Phase 0: _resolve_pending_operations, by the tick's millisecond *)

\* Mutant: a change is due one millisecond late.
DueLate(x) == x.applyAt < tick.msc
Due(x) == x.applyAt <= tick.msc
CancelDue(f) == {i \in DOMAIN f : f[i].op = "PENDING_CANCEL" /\ Due(f[i])}

\* _apply_pending_modification
Modified(o) ==
  [o EXCEPT !.price = o.mod.price,
            !.limit = IF o.mod.limit # None THEN o.mod.limit ELSE @,
            !.sl = o.mod.sl, !.tp = o.mod.tp,
            !.op = "NONE", !.mod = NoMod]

Resolved(f) ==
  [i \in DOMAIN f \ CancelDue(f) |->
     IF f[i].op = "PENDING_MODIFY" /\ Due(f[i]) THEN Modified(f[i]) ELSE f[i]]

ResolvePendingOperations ==
  /\ phase = "ops"
  /\ limits' = Resolved(limits)
  /\ stops' = Resolved(stops)
  /\ results' = Report(CancelDue(limits) \cup CancelDue(stops), "CANCELLED")
  /\ LET due == {i \in DOMAIN posMods : Due(posMods[i])} IN
       /\ positions' = [i \in DOMAIN positions |->
                          IF i \in due
                          THEN WithLevels(positions[i], posMods[i].sl, posMods[i].tp)
                          ELSE positions[i]]
       /\ posMods' = Without(posMods, due)
  /\ phase' = "drain"
  /\ UNCHANGED <<tick, clock, pending, filledLots, closedLots, counters, stats>>

-----------------------------------------------------------------------------
(* Fills *)

\* Mutant: the minimum volume is opened instead of the requested one.
NewPositionMin(o) == [dir |-> o.dir, lots |-> VolumeMin, sl |-> o.sl, tp |-> o.tp]

\* The position _fill_open_order opens for an order.
NewPosition(o) == [dir |-> o.dir, lots |-> o.lots, sl |-> o.sl, tp |-> o.tp]

\* _fill_open_order for the orders f[i], i in S, of which those in refused
\* lack margin or funds. The other updates of positions are left to base.
FillOpenOrders(f, S, refused, base) ==
  LET opened == S \ refused IN
  /\ positions' = Accept(base, [i \in opened |-> NewPosition(f[i])], opened)
  /\ filledLots' = [i \in Ids |-> IF i \in opened THEN f[i].lots ELSE filledLots[i]]

\* Mutant: a close may leave less than volume_min.
RemainderDust(size, lots) ==
  CASE lots = Unset \/ lots > size -> 0 [] OTHER -> size - lots

\* What is left of a position of the given size after _fill_close_order:
\* a non-positive size is ignored, an excessive one, and one that would
\* leave less than volume_min, closes everything.
Remainder(size, lots) ==
  CASE lots = Unset \/ lots > size -> 0
    [] lots = 0 -> size
    [] OTHER -> IF size - lots < VolumeMin THEN 0 ELSE size - lots

\* A STOP_LIMIT whose stop was reached (_convert_stop_limit_to_limit).
Converted(o) == [o EXCEPT !.price = o.limit, !.type = "LIMIT"]

StopTriggered(o) == o.type \in {"STOP", "STOP_LIMIT"} /\ StopReached(o, tick)

\* What a triggered or arriving order becomes when it does not fill at once.
Arrived(o) ==
  IF o.type = "STOP_LIMIT" /\ StopTriggered(o) THEN Converted(o) ELSE o

\* Mutant: no immediate-fill check for a limit order.
FillableNoLimit(o) == o.type = "MARKET" \/ (o.type = "STOP" /\ StopReached(o, tick))

\* The order fills on the current tick as it stands.
Fillable(o) ==
  \/ o.type = "MARKET"
  \/ o.type = "LIMIT" /\ LimitReached(o, tick)
  \/ o.type = "STOP" /\ StopReached(o, tick)

\* Phase 1, process_up_to_msc: the entries whose latency has elapsed. On a
\* tick clock is the tick's millisecond, on a heartbeat the heartbeat's. A
\* close whose position is gone is dropped with a warning.
DueEntries == {i \in DOMAIN pending : pending[i].fillAt <= clock}
DueOpens == {i \in DueEntries : pending[i].action = "OPEN"}
DueCloses == (DueEntries \ DueOpens) \cap DOMAIN positions

\* _fill_close_order for the due closes.
Left(i) == Remainder(positions[i].lots, pending[i].lots)
\* Mutant: a partial close leaves the position at its old size.
PositionsUnreduced ==
  [i \in {j \in DOMAIN positions : j \in DueCloses => Left(j) > 0} |-> positions[i]]
PositionsAfterCloses ==
  [i \in {j \in DOMAIN positions : j \in DueCloses => Left(j) > 0} |->
     IF i \in DueCloses THEN [positions[i] EXCEPT !.lots = Left(i)]
                        ELSE positions[i]]

\* Where the due opens go that survive the stress test's rejections: filled
\* at once, or to the list of their type.
Arriving == [i \in DueOpens |-> Arrived(pending[i])]
ToFill(S) == {i \in S : Fillable(Arriving[i])}
ToStops(S) == {i \in S \ ToFill(S) : Arriving[i].type \in {"STOP", "STOP_LIMIT"}}
\* Mutant: an order that filled at once goes to the list all the same.
ToLimitsAlso(S) == {i \in S : Arriving[i].type = "LIMIT"}
ToLimits(S) == S \ (ToFill(S) \cup ToStops(S))

\* _fill_resolved_orders, when the stress test rejects stress and funds are
\* short for refused. Every entry the stress test let pass is recorded as
\* FILLED.
FillArrivals(stress, refused) ==
  LET S == DueOpens \ stress
      opened == ToFill(S) \ refused
  IN
  /\ FillOpenOrders(Arriving, ToFill(S), refused, PositionsAfterCloses)
  /\ limits' = Accept(limits, Arriving, ToLimits(S))
  /\ stops' = Accept(stops, Arriving, ToStops(S))
  /\ results' = Decide(opened, stress \cup refused)
  /\ executed' = executed + Cardinality(opened)
  /\ rejected' = rejected + Cardinality(stress \cup refused)
  /\ totalFilled' = totalFilled + Cardinality(DueEntries \ stress)
  /\ totalRejected' = totalRejected + Cardinality(stress)

FillResolvedOrders ==
  /\ phase = "drain"
  /\ \E stress \in SUBSET DueOpens :
       \E refused \in SUBSET ToFill(DueOpens \ stress) : FillArrivals(stress, refused)
  /\ closedLots' = [i \in Ids |->
       IF i \in DueCloses THEN closedLots[i] + (positions[i].lots - Left(i))
                          ELSE closedLots[i]]
  /\ pending' = Without(pending, DueEntries)
  /\ phase' = IF clock = tick.msc THEN "limits" ELSE "idle"
  /\ UNCHANGED <<tick, clock, posMods, sent, slTpTriggered, totalForceClosed>>

\* Mutant: an order counts as executed before its funds are checked.
TriggerCountedEarly(f, S) ==
  \E refused \in SUBSET S :
    /\ FillOpenOrders(f, S, refused, positions)
    /\ results' = Decide(S \ refused, refused)
    /\ executed' = executed + Cardinality(S)
    /\ rejected' = rejected + Cardinality(refused)
    /\ UNCHANGED <<sent, slTpTriggered>>

\* Phases 2 and 3 fill the orders of S found in f, or refuse some of them.
Trigger(f, S) ==
  \E refused \in SUBSET S :
    /\ FillOpenOrders(f, S, refused, positions)
    /\ results' = Decide(S \ refused, refused)
    /\ executed' = executed + Cardinality(S \ refused)
    /\ rejected' = rejected + Cardinality(refused)
    /\ UNCHANGED <<sent, slTpTriggered>>

\* Phase 2 of _process_pending_orders: limit price monitoring.
MonitorLimits ==
  LET reached == {i \in DOMAIN limits : LimitReached(limits[i], tick)} IN
  /\ phase = "limits"
  /\ Trigger(limits, reached)
  /\ limits' = Without(limits, reached)
  /\ phase' = "stops"
  /\ UNCHANGED <<tick, clock, pending, stops, posMods, closedLots, stats>>

\* Phase 3: a triggered STOP fills at market, a triggered STOP_LIMIT becomes
\* a limit order that fills at once or is monitored from the next tick on.
MonitorStops ==
  LET reached == {i \in DOMAIN stops : StopReached(stops[i], tick)}
      arrived == [i \in reached |-> Arrived(stops[i])]
      fills == {i \in reached : Fillable(arrived[i])}
      converted == reached \ fills
  IN
  /\ phase = "stops"
  /\ Trigger(arrived, fills)
  /\ limits' = Accept(limits, arrived, converted)
  /\ stops' = Without(stops, reached)
  /\ phase' = "sltp"
  /\ UNCHANGED <<tick, clock, pending, posMods, closedLots, stats>>

\* Mutant: only the take profit is looked at.
TpHits == {i \in DOMAIN positions : TpTriggered(positions[i], tick)}

\* The positions the tick takes out.
SlTpHits ==
  {i \in DOMAIN positions :
     SlTriggered(positions[i], tick) \/ TpTriggered(positions[i], tick)}

\* _check_sl_tp_triggers: every position whose level the tick reaches is
\* closed in full.
CheckSlTpTriggers ==
  /\ phase = "sltp"
  /\ positions' = Without(positions, SlTpHits)
  /\ closedLots' = [i \in Ids |->
       IF i \in SlTpHits THEN closedLots[i] + positions[i].lots ELSE closedLots[i]]
  /\ slTpTriggered' = slTpTriggered + Cardinality(SlTpHits)
  /\ phase' = "idle"
  /\ UNCHANGED <<tick, clock, pending, limits, stops, posMods, results,
                 filledLots, sent, executed, rejected, stats>>

-----------------------------------------------------------------------------
(* End of the scenario *)

\* Mutant: only the limit orders are expired.
ExpiringLimits == DOMAIN limits

\* _expire_active_orders: what is still working at the end.
Expiring == DOMAIN limits \cup DOMAIN stops

\* close_all_remaining_orders: positions are closed directly, active orders
\* reported EXPIRED (the lists stay for the snapshots), whatever is in the
\* latency queue FORCE_CLOSED. A queued close reports no opening.
CloseAllRemainingOrders ==
  LET forced == {i \in DOMAIN pending : pending[i].action = "OPEN"} IN
  /\ phase = "idle"
  /\ positions' = Empty
  /\ closedLots' = [i \in Ids |->
       IF i \in DOMAIN positions THEN closedLots[i] + positions[i].lots
                                 ELSE closedLots[i]]
  /\ results' = [i \in Ids |->
       CASE i \in Expiring -> Append(results[i], "EXPIRED")
         [] i \in forced -> Append(results[i], "FORCE_CLOSED")
         [] OTHER -> results[i]]
  /\ totalForceClosed' = totalForceClosed + Cardinality(DOMAIN pending)
  /\ pending' = Empty
  /\ posMods' = Empty
  /\ phase' = "ended"
  /\ UNCHANGED <<tick, clock, limits, stops, filledLots, counters,
                 totalFilled, totalRejected>>

\* The scenario is over.
Done == phase = "ended" /\ UNCHANGED vars

-----------------------------------------------------------------------------
\* The first tick finds nothing to do, so the algorithm's first turn starts
\* with any tick and no orders.
Init ==
  /\ \E bid \in Bids : tick = [bid |-> bid, ask |-> bid + Spread, msc |-> 0]
  /\ clock = 0
  /\ phase = "idle"
  /\ pending = Empty /\ limits = Empty /\ stops = Empty
  /\ positions = Empty /\ posMods = Empty
  /\ results = [i \in Ids |-> <<>>]
  /\ filledLots = [i \in Ids |-> 0]
  /\ closedLots = [i \in Ids |-> 0]
  /\ sent = 0 /\ executed = 0 /\ rejected = 0 /\ slTpTriggered = 0
  /\ totalFilled = 0 /\ totalRejected = 0 /\ totalForceClosed = 0

\* The algorithm's calls, made after a tick or a heartbeat was processed.
Algorithm ==
  \/ \E r \in Requests : OpenOrder(r)
  \/ \E i \in Ids, lots \in CloseLots : ClosePosition(i, lots)
  \/ \E i \in Ids : CancelLimitOrder(i) \/ CancelStopOrder(i)
  \/ \E i \in Ids, m \in Modifications :
       \/ ModifyLimitOrder(i, m)
       \/ ModifyStopOrder(i, m)
       \/ ModifyPosition(i, m)

\* The phases of on_tick and heartbeat.
Processing ==
  \/ ResolvePendingOperations
  \/ FillResolvedOrders
  \/ MonitorLimits
  \/ MonitorStops
  \/ CheckSlTpTriggers

Next ==
  \/ Algorithm
  \/ \E bid \in Bids, msc \in 0..MaxMsc : OnTick(bid, msc)
  \/ Heartbeat
  \/ Processing
  \/ CloseAllRemainingOrders
  \/ Done

Spec == Init /\ [][Next]_vars

\* on_tick and heartbeat are sequential code and run to their end; the tick
\* sequence of a scenario is finite, so its end is reached although the
\* model lets ticks of one millisecond repeat.
FairSpec == Spec /\ WF_vars(Processing) /\ SF_vars(CloseAllRemainingOrders)

-----------------------------------------------------------------------------
(* Properties *)

\* Every container holds well-formed records under known ids.
TypeOK ==
  /\ tick \in Tick
  /\ clock \in Nat
  /\ phase \in Phases
  /\ IsContainer(pending, OpenRecord \cup CloseRecord)
  /\ IsContainer(limits, OpenRecord)
  /\ IsContainer(stops, OpenRecord)
  /\ IsContainer(positions, Position)
  /\ IsContainer(posMods, PositionMod)
  /\ results \in [Ids -> Seq(Outcomes)]
  /\ filledLots \in [Ids -> Nat]
  /\ closedLots \in [Ids -> Nat]
  /\ sent \in 0..MaxOrders
  /\ {executed, rejected, slTpTriggered} \subseteq Nat
  /\ {totalFilled, totalRejected, totalForceClosed} \subseteq Nat

\* Orders whose opening is still undecided, by the container that holds them.
InFlight == {i \in DOMAIN pending : pending[i].action = "OPEN"}
Working == DOMAIN limits \cup DOMAIN stops
Sent == 1..sent

\* No order is decided twice and none is forgotten, whatever fills, cancels
\* and modifications race: while an order is in flight or working it is in
\* exactly one container and has no outcome; every other order that was sent
\* has exactly one (a cancelled or refused order never fills, a filled one
\* never fills again).
OneOutcome ==
  /\ phase # "ended" =>
       /\ InFlight \cap Working = {}
       /\ DOMAIN limits \cap DOMAIN stops = {}
       /\ (InFlight \cup Working) \cap DOMAIN positions = {}
       /\ \A i \in InFlight \cup Working : results[i] = <<>>
       /\ \A i \in Sent \ (InFlight \cup Working) : Len(results[i]) = 1
  /\ \A i \in Ids : results[i] = <<>> \/ Len(results[i]) = 1

\* Every lot that was filled is either still open or was closed exactly once:
\* manual, partial, SL/TP and scenario-end closes never lose or repeat one.
LotsConserved ==
  \A i \in Ids :
    closedLots[i] + (IF i \in DOMAIN positions THEN positions[i].lots ELSE 0)
      = filledLots[i]

\* A position is never left smaller than the broker's minimum volume, which
\* no close could be sent for.
NoDust == \A i \in DOMAIN positions : positions[i].lots >= VolumeMin

\* Between ticks no resting order is one the current price should already
\* have filled or triggered: an order that arrives, is modified or is
\* converted never slips past the phase that monitors it.
NothingCrossedRests ==
  phase = "idle" =>
    /\ \A i \in DOMAIN limits : ~LimitReached(limits[i], tick)
    /\ \A i \in DOMAIN stops : ~StopReached(stops[i], tick)

\* After a tick no open position has a level that tick reaches: levels that
\* come with a fill, and levels a modification sets, are checked like all
\* others. (A fill on a heartbeat waits for the next tick.)
SlTpHonoured ==
  phase = "idle" /\ clock = tick.msc =>
    \A i \in DOMAIN positions :
      ~SlTriggered(positions[i], tick) /\ ~TpTriggered(positions[i], tick)

\* The execution statistics agree with the outcomes that were reported.
CountersAgree ==
  LET reported(o) == Cardinality({i \in Ids : \E k \in DOMAIN results[i] : results[i][k] = o})
  IN /\ executed = reported("EXECUTED")
     /\ rejected = reported("REJECTED")
     /\ phase # "ended" =>
          sent = Cardinality(InFlight \cup Working) + reported("EXECUTED")
                          + reported("REJECTED") + reported("CANCELLED")

\* check_clean_shutdown: when the scenario has ended nothing is open or in
\* flight, and every order that was sent has its outcome.
CleanShutdown ==
  phase = "ended" =>
    /\ DOMAIN positions = {} /\ DOMAIN pending = {} /\ DOMAIN posMods = {}
    /\ \A i \in Sent : Len(results[i]) = 1

\* When orders and positions are matched against a tick, the only changes that
\* still wait were asked for in that tick's millisecond: a change asked for
\* earlier is in force ("resolution happens on the very next tick", which is
\* so when ticks are a millisecond apart).
OpsResolvedBeforeMatching ==
  phase \in {"limits", "stops", "sltp"} =>
    /\ \A i \in DOMAIN limits : limits[i].op = "NONE" \/ limits[i].applyAt > tick.msc
    /\ \A i \in DOMAIN stops : stops[i].op = "NONE" \/ stops[i].applyAt > tick.msc
    /\ \A i \in DOMAIN posMods : posMods[i].applyAt > tick.msc

\* Every order that was sent is eventually decided.
EveryOrderDecided == \A i \in Ids : i \in Sent ~> results[i] # <<>>

\* The simulator implements the order lifecycle every executor promises.
status ==
  [i \in Ids |->
     CASE i \notin Sent -> "unsent"
       [] i \in Sent /\ results[i] = <<>> -> IF i \in InFlight THEN "inflight" ELSE "working"
       [] OTHER -> IF results[i][1] # "EXECUTED" THEN results[i][1]
                   ELSE IF i \in DOMAIN positions THEN "open" ELSE "closed"]

size ==
  [i \in Ids |->
     CASE status[i] = "inflight" -> pending[i].lots
       [] status[i] = "working" ->
            IF i \in DOMAIN limits THEN limits[i].lots ELSE stops[i].lots
       [] status[i] = "open" -> positions[i].lots
       [] OTHER -> 0]

Lifecycle == INSTANCE OrderLifecycle WITH status <- status, size <- size
ImplementsLifecycle == Lifecycle!Spec


\* After every tick the book is settled: nothing that the price has reached is
\* left resting or open, and it was settled with every change asked for before
\* (trade_simulator.py process_tick_fills, abstract_trade_executor.py on_tick).
BookSettled == NothingCrossedRests /\ SlTpHonoured /\ OpsResolvedBeforeMatching
=============================================================================
