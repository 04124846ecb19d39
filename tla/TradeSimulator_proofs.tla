----------------------- MODULE TradeSimulator_proofs -----------------------
(***************************************************************************)
(* Theorems about TradeSimulator, for every number of orders, every price  *)
(* and latency set and every choice of requests: types, one outcome per    *)
(* order, conservation of lots, no position below the minimum volume, a    *)
(* book that is settled after every tick, execution statistics that agree  *)
(* with the outcomes, and that the simulator implements the life of an     *)
(* order that every executor promises.                                     *)
(***************************************************************************)
EXTENDS TradeSimulator, FiniteSetTheorems, TLAPS

\* A stored entry keeps a dict well-typed.
LEMMA PutContainer ==
  ASSUME NEW S, NEW f, IsContainer(f, S), NEW i \in Ids, NEW x \in S
  PROVE  IsContainer(Put(f, i, x), S)
BY DEF IsContainer, Put

\* So does removing entries.
LEMMA WithoutContainer ==
  ASSUME NEW S, NEW f, IsContainer(f, S), NEW D
  PROVE  IsContainer(Without(f, D), S)
BY DEF IsContainer, Without

\* The ids are finitely many, so every set of them can be counted.
LEMMA CountIds == \A S \in SUBSET Ids : Cardinality(S) \in Nat
<1>1. IsFiniteSet(Ids)
  BY FS_Interval, SizeAssumption DEF Ids
<1> QED BY <1>1, FS_Subset, FS_CardinalityType

\* Reporting outcomes keeps the per-order outcome sequences well-typed.
LEMMA ReportType ==
  ASSUME results \in [Ids -> Seq(Outcomes)], NEW S, NEW o \in Outcomes
  PROVE  Report(S, o) \in [Ids -> Seq(Outcomes)]
BY DEF Report

\* Deciding a batch of fills, some refused, keeps the outcomes well-typed.
LEMMA DecideType ==
  ASSUME results \in [Ids -> Seq(Outcomes)], NEW S, NEW T
  PROVE  Decide(S, T) \in [Ids -> Seq(Outcomes)]
BY DEF Decide, Outcomes

\* Orders handed from one container to another stay well-typed.
LEMMA AcceptContainer ==
  ASSUME NEW T, NEW f, NEW g, IsContainer(f, T), NEW S \in SUBSET Ids,
         \A i \in S : g[i] \in T
  PROVE  IsContainer(Accept(f, g, S), T)
BY DEF IsContainer, Accept

\* The record of a submitted order is a OpenRecord.
LEMMA NewOrderType ==
  ASSUME NEW r \in Request, RequestValid(r), NEW at \in Nat
  PROVE  NewOrder(r, at) \in OpenRecord
BY SizeAssumption DEF NewOrder, RequestValid, Request, OpenRecord, OptPrice, Mod, NoMod, OrderTypes, Operations

\* The record of a submitted close is a CloseRecord.
LEMMA NewCloseType ==
  ASSUME NEW lots \in Nat \cup {Unset}, NEW at \in Nat
  PROVE  NewClose(lots, at) \in CloseRecord
BY DEF NewClose, CloseRecord

\* What scheduling, applying and converting make of an order.
LEMMA CancellingType ==
  ASSUME TypeOK, NEW o \in OpenRecord
  PROVE  Cancelling(o) \in OpenRecord
<1>1. ApplyAt \in Nat
  BY DEF TypeOK, Tick, ApplyAt
<1> QED BY <1>1 DEF Cancelling, OpenRecord, Operations

\* Scheduling a modification keeps an order well-typed; a limit order's
\* modification carries no second price.
LEMMA ModifyingType ==
  ASSUME TypeOK, NEW o \in OpenRecord, NEW m \in Modification
  PROVE  /\ Modifying(o, m) \in OpenRecord
         /\ [Modifying(o, m) EXCEPT !.mod.limit = None] \in OpenRecord
<1>1. [price |-> Effective(m.price, o.price), limit |-> Effective(m.limit, o.limit),
       sl |-> Effective(m.sl, o.sl), tp |-> Effective(m.tp, o.tp)] \in Mod
  BY DEF Modification, OpenRecord, Mod, Effective
<1>2. ApplyAt \in Nat
  BY DEF TypeOK, Tick, ApplyAt
<1>3. Modifying(o, m) \in OpenRecord
  BY <1>1, <1>2 DEF Modifying, OpenRecord, Operations
<1>4. \A q \in OpenRecord : [q EXCEPT !.mod.limit = None] \in OpenRecord
  BY DEF OpenRecord, Mod, OptPrice
<1> QED BY <1>3, <1>4

\* Applying a modification keeps an order well-typed.
LEMMA ModifiedType ==
  ASSUME NEW o \in OpenRecord
  PROVE  Modified(o) \in OpenRecord
BY ZenonT(60) DEF Modified, Operations, OpenRecord, Mod, NoMod, OptPrice

\* An order that leaves the latency queue, or a triggered stop-limit, stays
\* well-typed.
LEMMA ArrivedType ==
  ASSUME NEW o \in OpenRecord
  PROVE  Arrived(o) \in OpenRecord /\ Arrived(o).lots = o.lots
BY DEF Arrived, Converted, OpenRecord, OrderTypes

\* New levels keep a position well-typed.
LEMMA WithLevelsType ==
  ASSUME NEW p \in Position, NEW sl \in OptPrice, NEW tp \in OptPrice
  PROVE  WithLevels(p, sl, tp) \in Position /\ WithLevels(p, sl, tp).lots = p.lots
BY DEF WithLevels, Position

-----------------------------------------------------------------------------
(* Type correctness *)

\* The filling operators: what they do to positions and filled lots.
LEMMA FillOpenOrdersType ==
  ASSUME TypeOK, NEW f, NEW S \in SUBSET Ids, NEW refused \in SUBSET S, NEW base,
         \A i \in S : f[i] \in OpenRecord,
         IsContainer(base, Position),
         FillOpenOrders(f, S, refused, base)
  PROVE  IsContainer(positions', Position) /\ filledLots' \in [Ids -> Nat]
<1>1. \A i \in S : NewPosition(f[i]) \in Position
  BY DEF NewPosition, Position, OpenRecord
<1>2. IsContainer(positions', Position)
  BY <1>1, AcceptContainer DEF FillOpenOrders
<1>3. \A i \in S : f[i].lots \in Nat
  BY DEF OpenRecord
<1>4. filledLots' \in [Ids -> Nat]
  BY <1>3 DEF FillOpenOrders, TypeOK
<1> QED BY <1>2, <1>4

\* Counting a set of ids keeps the counters well-typed.
LEMMA TriggerType ==
  ASSUME TypeOK, NEW f, NEW S \in SUBSET Ids,
         \A i \in S : f[i] \in OpenRecord,
         Trigger(f, S)
  PROVE  /\ IsContainer(positions', Position) /\ filledLots' \in [Ids -> Nat]
         /\ results' \in [Ids -> Seq(Outcomes)]
         /\ executed' \in Nat /\ rejected' \in Nat
<1>1. PICK refused \in SUBSET S :
        /\ FillOpenOrders(f, S, refused, positions)
        /\ results' = Decide(S \ refused, refused)
        /\ executed' = executed + Cardinality(S \ refused)
        /\ rejected' = rejected + Cardinality(refused)
  BY DEF Trigger
<1>2. IsContainer(positions', Position) /\ filledLots' \in [Ids -> Nat]
  BY <1>1, FillOpenOrdersType DEF TypeOK
<1>3. results' \in [Ids -> Seq(Outcomes)]
  BY <1>1, DecideType DEF TypeOK
<1>4. Cardinality(S \ refused) \in Nat /\ Cardinality(refused) \in Nat
  BY <1>1, CountIds
<1>5. executed' \in Nat /\ rejected' \in Nat
  BY <1>1, <1>4 DEF TypeOK
<1> QED BY <1>2, <1>3, <1>5


\* Orders found in a container of orders to open.
LEMMA OpenEntry ==
  ASSUME TypeOK, NEW i \in DOMAIN pending, pending[i].action = "OPEN"
  PROVE  pending[i] \in OpenRecord
BY DEF TypeOK, IsContainer, CloseRecord

\* open_order preserves the types.
LEMMA OpenOrderType ==
  ASSUME TypeOK, NEW r \in Requests, OpenOrder(r)
  PROVE  TypeOK'
<1> DEFINE id == sent + 1
<1>1. id \in Ids /\ id \in 0..MaxOrders /\ r \in Request
  BY SizeAssumption, InputAssumption DEF OpenOrder, Ids, TypeOK
<1>2. CASE RequestValid(r)
  <2>1. PICK d \in Delays : pending' = Put(pending, id, NewOrder(r, tick.msc + d))
    BY <1>2 DEF OpenOrder
  <2>2. tick.msc + d \in Nat
    BY TimeAssumption DEF TypeOK, Tick
  <2>3. NewOrder(r, tick.msc + d) \in OpenRecord \cup CloseRecord
    BY <1>1, <1>2, <2>2, NewOrderType
  <2>4. IsContainer(pending', OpenRecord \cup CloseRecord)
    BY <1>1, <2>1, <2>3, PutContainer DEF TypeOK
  <2> QED BY <1>1, <1>2, <2>4 DEF OpenOrder, TypeOK, stats
<1>3. CASE ~RequestValid(r)
  <2>1. results' \in [Ids -> Seq(Outcomes)]
    BY <1>3, ReportType DEF OpenOrder, TypeOK, Outcomes
  <2> QED BY SMTT(30), <1>1, <1>3, <2>1 DEF OpenOrder, TypeOK, stats
<1> QED BY <1>2, <1>3

\* So does every other call of the algorithm.
LEMMA AlgorithmType ==
  ASSUME TypeOK, Algorithm
  PROVE  TypeOK'
<1>1. ASSUME NEW r \in Requests, OpenOrder(r) PROVE TypeOK'
  BY <1>1, OpenOrderType
<1>2. ASSUME NEW i \in Ids, NEW lots \in CloseLots, ClosePosition(i, lots) PROVE TypeOK'
  <2>1. PICK d \in Delays : pending' = Put(pending, i, NewClose(lots, tick.msc + d))
    BY <1>2 DEF ClosePosition
  <2>2. NewClose(lots, tick.msc + d) \in OpenRecord \cup CloseRecord
    BY SMTT(30), NewCloseType, InputAssumption, TimeAssumption DEF TypeOK, Tick
  <2>3. IsContainer(pending', OpenRecord \cup CloseRecord)
    BY <2>1, <2>2, PutContainer DEF TypeOK
  <2> QED BY <1>2, <2>3 DEF ClosePosition, TypeOK, counters, stats
<1>3. ASSUME NEW i \in Ids, CancelLimitOrder(i) PROVE TypeOK'
  <2>1. Cancelling(limits[i]) \in OpenRecord
    BY <1>3, CancellingType DEF CancelLimitOrder, TypeOK, IsContainer
  <2>2. IsContainer(limits', OpenRecord)
    BY <1>3, <2>1 DEF CancelLimitOrder, TypeOK, IsContainer
  <2> QED BY <1>3, <2>2 DEF CancelLimitOrder, TypeOK, counters, stats
<1>4. ASSUME NEW i \in Ids, CancelStopOrder(i) PROVE TypeOK'
  <2>1. Cancelling(stops[i]) \in OpenRecord
    BY <1>4, CancellingType DEF CancelStopOrder, TypeOK, IsContainer
  <2>2. IsContainer(stops', OpenRecord)
    BY <1>4, <2>1 DEF CancelStopOrder, TypeOK, IsContainer
  <2> QED BY <1>4, <2>2 DEF CancelStopOrder, TypeOK, counters, stats
<1>5. ASSUME NEW i \in Ids, NEW m \in Modifications, ModifyLimitOrder(i, m) PROVE TypeOK'
  <2>1. [Modifying(limits[i], m) EXCEPT !.mod.limit = None] \in OpenRecord
    BY <1>5, ModifyingType, InputAssumption DEF ModifyLimitOrder, TypeOK, IsContainer
  <2>2. IsContainer(limits', OpenRecord)
    BY <1>5, <2>1 DEF ModifyLimitOrder, TypeOK, IsContainer
  <2> QED BY <1>5, <2>2 DEF ModifyLimitOrder, TypeOK, counters, stats
<1>6. ASSUME NEW i \in Ids, NEW m \in Modifications, ModifyStopOrder(i, m) PROVE TypeOK'
  <2>1. Modifying(stops[i], m) \in OpenRecord
    BY <1>6, ModifyingType, InputAssumption DEF ModifyStopOrder, TypeOK, IsContainer
  <2>2. IsContainer(stops', OpenRecord)
    BY <1>6, <2>1 DEF ModifyStopOrder, TypeOK, IsContainer
  <2> QED BY <1>6, <2>2 DEF ModifyStopOrder, TypeOK, counters, stats
<1>7. ASSUME NEW i \in Ids, NEW m \in Modifications, ModifyPosition(i, m) PROVE TypeOK'
  <2> DEFINE sl == Effective(m.sl, positions[i].sl)
             tp == Effective(m.tp, positions[i].tp)
  <2>1. positions[i] \in Position /\ sl \in OptPrice /\ tp \in OptPrice
    BY <1>7, InputAssumption
       DEF ModifyPosition, TypeOK, IsContainer, Position, Effective, Modification
  <2>2. CASE ~NativeSlTp
    <3>1. WithLevels(positions[i], sl, tp) \in Position
      BY <2>1, WithLevelsType
    <3>2. positions' = [positions EXCEPT ![i] = WithLevels(positions[i], sl, tp)]
      BY <1>7, <2>2 DEF ModifyPosition
    <3>3. IsContainer(positions', Position)
      BY <3>1, <3>2 DEF TypeOK, IsContainer
    <3> QED BY <1>7, <2>2, <3>3 DEF ModifyPosition, TypeOK, counters, stats
  <2>3. CASE NativeSlTp
    <3>1. [sl |-> sl, tp |-> tp, applyAt |-> ApplyAt] \in PositionMod
      BY <2>1 DEF PositionMod, ApplyAt, TypeOK, Tick
    <3>2. IsContainer(posMods', PositionMod)
      BY <1>7, <2>3, <3>1, PutContainer DEF ModifyPosition, TypeOK
    <3> QED BY <1>7, <2>3, <3>2 DEF ModifyPosition, TypeOK, counters, stats
  <2> QED BY <2>2, <2>3
<1> QED
  BY <1>1, <1>2, <1>3, <1>4, <1>5, <1>6, <1>7 DEF Algorithm

\* Resolving scheduled modifications and cancellations preserves the types.
LEMMA ResolveType ==
  ASSUME TypeOK, ResolvePendingOperations
  PROVE  TypeOK'
<1>1. \A f : IsContainer(f, OpenRecord) => IsContainer(Resolved(f), OpenRecord)
  BY ModifiedType DEF IsContainer, Resolved
<1>2. IsContainer(limits', OpenRecord) /\ IsContainer(stops', OpenRecord)
  BY <1>1 DEF ResolvePendingOperations, TypeOK
<1>3. results' \in [Ids -> Seq(Outcomes)]
  BY ReportType DEF ResolvePendingOperations, TypeOK, Outcomes
<1>4. \A i \in DOMAIN posMods : posMods[i].sl \in OptPrice /\ posMods[i].tp \in OptPrice
  BY DEF TypeOK, IsContainer, PositionMod
<1>5. \A i \in DOMAIN posMods \cap DOMAIN positions :
        WithLevels(positions[i], posMods[i].sl, posMods[i].tp) \in Position
  BY <1>4, WithLevelsType DEF TypeOK, IsContainer
<1>6. IsContainer(positions', Position)
  BY <1>5 DEF ResolvePendingOperations, TypeOK, IsContainer
<1>7. IsContainer(posMods', PositionMod)
  BY WithoutContainer DEF ResolvePendingOperations, TypeOK
<1> QED
  BY <1>2, <1>3, <1>6, <1>7 DEF ResolvePendingOperations, TypeOK, Phases, counters, stats

\* What _fill_close_order leaves of a position is part of it.
LEMMA RemainderType ==
  ASSUME NEW n \in Nat, NEW lots \in Nat \cup {Unset}
  PROVE  /\ Remainder(n, lots) \in Nat
         /\ Remainder(n, lots) <= n
         /\ Remainder(n, lots) \in {0, n} \/ Remainder(n, lots) >= VolumeMin
BY SizeAssumption DEF Remainder, Unset

\* The orders due in phase 1.
LEMMA DueFacts ==
  ASSUME TypeOK
  PROVE  /\ DueEntries \in SUBSET Ids /\ DueOpens \in SUBSET DueEntries
         /\ \A i \in DueOpens : pending[i] \in OpenRecord
         /\ \A i \in DueOpens : Arriving[i] \in OpenRecord /\ Arriving[i].lots = pending[i].lots
         /\ \A i \in DueCloses : /\ i \in DOMAIN positions /\ positions[i] \in Position
                                 /\ pending[i].lots \in Nat \cup {Unset}
                                 /\ Left(i) \in Nat /\ Left(i) <= positions[i].lots
         /\ \A S \in SUBSET DueOpens :
              /\ ToFill(S) \in SUBSET S /\ ToStops(S) \in SUBSET S /\ ToLimits(S) \in SUBSET S
              /\ S = ToFill(S) \cup ToStops(S) \cup ToLimits(S)
              /\ ToFill(S) \cap ToStops(S) = {} /\ ToFill(S) \cap ToLimits(S) = {}
              /\ ToStops(S) \cap ToLimits(S) = {}
<1>1. DueEntries \in SUBSET Ids /\ DueOpens \in SUBSET DueEntries
  BY DEF TypeOK, IsContainer, DueEntries, DueOpens
<1>2. \A i \in DueOpens : pending[i] \in OpenRecord
  BY OpenEntry DEF DueOpens, DueEntries
<1>3. \A i \in DueOpens : Arriving[i] \in OpenRecord /\ Arriving[i].lots = pending[i].lots
  BY <1>2, ArrivedType DEF Arriving
<1>4. ASSUME NEW i \in DueCloses
      PROVE  /\ i \in DOMAIN positions /\ positions[i] \in Position
             /\ pending[i].lots \in Nat \cup {Unset}
             /\ Left(i) \in Nat /\ Left(i) <= positions[i].lots
  <2>1. i \in DOMAIN positions /\ positions[i] \in Position
    BY DEF DueCloses, TypeOK, IsContainer
  <2>2. pending[i] \in OpenRecord \cup CloseRecord
    BY DEF DueCloses, DueEntries, TypeOK, IsContainer
  <2>3. pending[i].lots \in Nat \cup {Unset}
    BY <2>2 DEF OpenRecord, CloseRecord
  <2>4. positions[i].lots \in Nat
    BY <2>1 DEF Position
  <2> QED BY <2>1, <2>3, <2>4, RemainderType DEF Left
<1>5. ASSUME NEW S \in SUBSET DueOpens
      PROVE  /\ ToFill(S) \in SUBSET S /\ ToStops(S) \in SUBSET S /\ ToLimits(S) \in SUBSET S
             /\ S = ToFill(S) \cup ToStops(S) \cup ToLimits(S)
             /\ ToFill(S) \cap ToStops(S) = {} /\ ToFill(S) \cap ToLimits(S) = {}
             /\ ToStops(S) \cap ToLimits(S) = {}
  BY DEF ToFill, ToStops, ToLimits
<1> QED BY <1>1, <1>2, <1>3, <1>4, <1>5

\* Partial and full closes leave well-typed positions.
LEMMA PositionsAfterClosesType ==
  ASSUME TypeOK
  PROVE  IsContainer(PositionsAfterCloses, Position)
<1>1. \A i \in DueCloses : Left(i) > 0 => [positions[i] EXCEPT !.lots = Left(i)] \in Position
  BY DueFacts DEF Position
<1>2. \A i \in DOMAIN positions : positions[i] \in Position /\ i \in Ids
  BY DEF TypeOK, IsContainer
<1> QED BY <1>1, <1>2 DEF PositionsAfterCloses, IsContainer

\* Draining the latency queue preserves the types.
LEMMA DrainType ==
  ASSUME TypeOK, FillResolvedOrders
  PROVE  TypeOK'
<1>1. PICK stress \in SUBSET DueOpens :
        \E refused \in SUBSET ToFill(DueOpens \ stress) : FillArrivals(stress, refused)
  BY DEF FillResolvedOrders
<1>0. PICK refused \in SUBSET ToFill(DueOpens \ stress) : FillArrivals(stress, refused)
  BY <1>1
<1> DEFINE S == DueOpens \ stress
<1>2. /\ ToFill(S) \in SUBSET Ids /\ ToLimits(S) \in SUBSET Ids /\ ToStops(S) \in SUBSET Ids
      /\ \A i \in ToFill(S) \cup ToLimits(S) \cup ToStops(S) : Arriving[i] \in OpenRecord
  BY DueFacts
<1>3. IsContainer(positions', Position) /\ filledLots' \in [Ids -> Nat]
  BY <1>0, <1>2, PositionsAfterClosesType, FillOpenOrdersType DEF FillArrivals
<1>4. IsContainer(limits', OpenRecord) /\ IsContainer(stops', OpenRecord)
  BY <1>0, <1>2, AcceptContainer DEF TypeOK, FillArrivals
<1>5. results' \in [Ids -> Seq(Outcomes)]
  BY <1>0, DecideType DEF TypeOK, FillArrivals
<1>6. IsContainer(pending', OpenRecord \cup CloseRecord)
  BY WithoutContainer DEF FillResolvedOrders, TypeOK
<1>7. closedLots' \in [Ids -> Nat]
  <2>1. \A i \in DueCloses : positions[i].lots - Left(i) \in Nat
    BY DueFacts DEF Position
  <2> QED BY SMTT(30), <2>1 DEF FillResolvedOrders, TypeOK
<1>8. /\ Cardinality(ToFill(S) \ refused) \in Nat /\ Cardinality(stress \cup refused) \in Nat
      /\ Cardinality(DueEntries \ stress) \in Nat /\ Cardinality(stress) \in Nat
  BY <1>2, CountIds, DueFacts
<1>9. /\ executed' \in Nat /\ rejected' \in Nat
      /\ totalFilled' \in Nat /\ totalRejected' \in Nat
  <2>1. /\ executed' = executed + Cardinality(ToFill(S) \ refused)
        /\ rejected' = rejected + Cardinality(stress \cup refused)
        /\ totalFilled' = totalFilled + Cardinality(DueEntries \ stress)
        /\ totalRejected' = totalRejected + Cardinality(stress)
    BY <1>0, Zenon DEF FillArrivals
  <2>2. executed \in Nat /\ rejected \in Nat /\ totalFilled \in Nat /\ totalRejected \in Nat
    BY DEF TypeOK
  <2> HIDE DEF S
  <2> QED BY <1>8, <2>1, <2>2
<1> QED
  BY <1>3, <1>4, <1>5, <1>6, <1>7, <1>9 DEF FillResolvedOrders, TypeOK, Phases

\* Matching limit and stop orders preserves the types.
LEMMA MonitorType ==
  ASSUME TypeOK, MonitorLimits \/ MonitorStops
  PROVE  TypeOK'
<1>1. CASE MonitorLimits
  <2> DEFINE reached == {i \in DOMAIN limits : LimitReached(limits[i], tick)}
  <2>1. reached \in SUBSET Ids /\ \A i \in reached : limits[i] \in OpenRecord
    BY DEF TypeOK, IsContainer
  <2>2. Trigger(limits, reached)
    BY <1>1 DEF MonitorLimits
  <2>3. /\ IsContainer(positions', Position) /\ filledLots' \in [Ids -> Nat]
        /\ results' \in [Ids -> Seq(Outcomes)]
        /\ executed' \in Nat /\ rejected' \in Nat
    BY <2>1, <2>2, TriggerType
  <2>4. IsContainer(limits', OpenRecord)
    BY <1>1, WithoutContainer DEF MonitorLimits, TypeOK
  <2>5. UNCHANGED <<sent, slTpTriggered>>
    BY <2>2 DEF Trigger
  <2> QED BY <1>1, <2>3, <2>4, <2>5 DEF MonitorLimits, TypeOK, Phases, stats
<1>2. CASE MonitorStops
  <2> DEFINE reached == {i \in DOMAIN stops : StopReached(stops[i], tick)}
             arrived == [i \in reached |-> Arrived(stops[i])]
             fills == {i \in reached : Fillable(arrived[i])}
  <2>1. /\ reached \in SUBSET Ids /\ fills \in SUBSET Ids
        /\ \A i \in reached : stops[i] \in OpenRecord
    BY DEF TypeOK, IsContainer
  <2>2. \A i \in reached : arrived[i] \in OpenRecord
    BY <2>1, ArrivedType
  <2>3. Trigger(arrived, fills)
    BY <1>2 DEF MonitorStops
  <2>4. /\ IsContainer(positions', Position) /\ filledLots' \in [Ids -> Nat]
        /\ results' \in [Ids -> Seq(Outcomes)]
        /\ executed' \in Nat /\ rejected' \in Nat
    <3> HIDE DEF arrived
    <3> QED BY <2>1, <2>2, <2>3, TriggerType
  <2>5. limits' = Accept(limits, arrived, reached \ fills) /\ stops' = Without(stops, reached)
    BY <1>2 DEF MonitorStops
  <2>6. IsContainer(limits', OpenRecord)
    <3> HIDE DEF arrived
    <3> QED BY <2>1, <2>2, <2>5, AcceptContainer DEF TypeOK
  <2>7. IsContainer(stops', OpenRecord)
    BY <2>5, WithoutContainer DEF TypeOK
  <2>8. UNCHANGED <<sent, slTpTriggered>>
    BY <2>3 DEF Trigger
  <2> QED BY <1>2, <2>4, <2>6, <2>7, <2>8 DEF MonitorStops, TypeOK, Phases, stats
<1> QED BY <1>1, <1>2

\* SL/TP closes preserve the types.
LEMMA SlTpType ==
  ASSUME TypeOK, CheckSlTpTriggers
  PROVE  TypeOK'
<1>1. SlTpHits \in SUBSET Ids /\ \A i \in SlTpHits : positions[i].lots \in Nat
  BY DEF SlTpHits, TypeOK, IsContainer, Position
<1>2. IsContainer(positions', Position)
  BY WithoutContainer DEF CheckSlTpTriggers, TypeOK
<1>3. closedLots' \in [Ids -> Nat]
  BY SMTT(30), <1>1 DEF CheckSlTpTriggers, TypeOK
<1>4. slTpTriggered' \in Nat
  <2>1. Cardinality(SlTpHits) \in Nat
    BY <1>1, CountIds
  <2> QED BY <2>1 DEF CheckSlTpTriggers, TypeOK
<1> QED BY <1>2, <1>3, <1>4 DEF CheckSlTpTriggers, TypeOK, Phases, stats

\* The end of the scenario preserves the types.
LEMMA CloseAllType ==
  ASSUME TypeOK, CloseAllRemainingOrders
  PROVE  TypeOK'
<1>1. \A T : IsContainer(Empty, T)
  BY DEF IsContainer, Empty
<1>2. \A i \in DOMAIN positions : positions[i].lots \in Nat
  BY DEF TypeOK, IsContainer, Position
<1>3. closedLots' \in [Ids -> Nat]
  BY <1>2 DEF CloseAllRemainingOrders, TypeOK
<1>4. results' \in [Ids -> Seq(Outcomes)]
  BY DEF CloseAllRemainingOrders, TypeOK, Outcomes
<1>5. totalForceClosed' \in Nat
  <2>1. Cardinality(DOMAIN pending) \in Nat
    BY CountIds DEF TypeOK, IsContainer
  <2> QED BY <2>1 DEF CloseAllRemainingOrders, TypeOK
<1> QED
  BY <1>1, <1>3, <1>4, <1>5 DEF CloseAllRemainingOrders, TypeOK, Phases, counters

\* Every step keeps the state well-typed.
LEMMA TypeStep ==
  ASSUME TypeOK, [Next]_vars
  PROVE  TypeOK'
<1>1. CASE Algorithm
  BY <1>1, AlgorithmType
<1>2. ASSUME NEW bid \in Bids, NEW msc \in 0..MaxMsc, OnTick(bid, msc) PROVE TypeOK'
  <2>1. tick' \in Tick /\ clock' \in Nat
    BY <1>2, SizeAssumption, TimeAssumption DEF OnTick, Tick
  <2> QED BY <1>2, <2>1 DEF OnTick, TypeOK, Phases, counters, stats
<1>3. CASE Heartbeat
  BY <1>3, TimeAssumption DEF Heartbeat, TypeOK, Phases, counters, stats
<1>4. CASE Processing
  BY <1>4, ResolveType, DrainType, MonitorType, SlTpType DEF Processing
<1>5. CASE CloseAllRemainingOrders
  BY <1>5, CloseAllType
<1>6. CASE UNCHANGED vars
  BY <1>6 DEF vars, TypeOK, counters, stats
<1> QED
  BY <1>1, <1>2, <1>3, <1>4, <1>5, <1>6 DEF Next, Done

\* A new scenario is well-typed.
LEMMA TypeInit == Init => TypeOK
<1> SUFFICES ASSUME Init PROVE TypeOK
  OBVIOUS
<1>1. \A T : IsContainer(Empty, T)
  BY DEF IsContainer, Empty
<1>2. tick \in Tick
  BY SizeAssumption DEF Init, Tick
<1>3. results \in [Ids -> Seq(Outcomes)]
  BY DEF Init
<1> QED BY <1>1, <1>2, <1>3, SizeAssumption DEF Init, TypeOK, Phases

\* Every reachable state of the simulator is well-typed: the containers hold
\* well-formed orders under known ids, and no counter leaves its range.
THEOREM TypeCorrect == Spec => []TypeOK
BY TypeInit, TypeStep, PTL DEF Spec

-----------------------------------------------------------------------------
(* One outcome per order, and conservation of lots                          *)
(*                                                                          *)
(* OneOutcome is not inductive: it does not say that the next id is unused, *)
(* nor that an undecided order has no lots yet.                             *)

\* An id that was not drawn yet is nowhere.
Fresh ==
  \A i \in Ids \ Sent :
    /\ i \notin DOMAIN pending \cup Working \cup DOMAIN positions
    /\ results[i] = <<>>

\* An order without an outcome has neither filled nor closed lots, and only
\* an executed order has a position.
LotsFollowOutcome ==
  /\ \A i \in Ids : results[i] = <<>> => filledLots[i] = 0 /\ closedLots[i] = 0
  /\ \A i \in DOMAIN positions : results[i] = <<"EXECUTED">>

OrderInv == OneOutcome /\ Fresh /\ LotsFollowOutcome /\ LotsConserved /\ CleanShutdown

\* The first outcome reported for an order is its only one.
LEMMA FirstOutcome ==
  \A o \in Outcomes : /\ Append(<<>>, o) = <<o>>
                      /\ Len(Append(<<>>, o)) = 1 /\ Append(<<>>, o) # <<>>
<1>1. <<>> \in Seq(Outcomes) /\ Len(<<>>) = 0
  OBVIOUS
<1> QED BY <1>1

\* A step that moves no order and no lot: scheduling, resolving, time.
LEMMA Unmoved ==
  ASSUME TypeOK, TypeOK', OrderInv, phase # "ended", phase' # "ended",
         InFlight' = InFlight,
         DOMAIN pending' \subseteq DOMAIN pending \cup DOMAIN positions,
         DOMAIN limits' = DOMAIN limits, DOMAIN stops' = DOMAIN stops,
         DOMAIN positions' = DOMAIN positions,
         \A i \in DOMAIN positions : positions'[i].lots = positions[i].lots,
         UNCHANGED <<results, sent, filledLots, closedLots>>
  PROVE  OrderInv'
<1>1. OneOutcome'
  BY DEF OrderInv, OneOutcome, Working, Sent
<1>2. Fresh'
  BY DEF OrderInv, Fresh, Working, Sent
<1>3. LotsFollowOutcome'
  BY DEF OrderInv, LotsFollowOutcome
<1>4. LotsConserved'
  BY DEF OrderInv, LotsConserved
<1>5. CleanShutdown'
  BY DEF CleanShutdown
<1> QED BY <1>1, <1>2, <1>3, <1>4, <1>5 DEF OrderInv

\* open_order preserves the invariant: the new id is used nowhere yet.
LEMMA OpenOrderInv ==
  ASSUME TypeOK, TypeOK', OrderInv, NEW r \in Requests, OpenOrder(r)
  PROVE  OrderInv'
<1> DEFINE id == sent + 1
<1>1. /\ id \in Ids /\ id \notin Sent /\ Sent' = Sent \cup {id}
      /\ phase # "ended" /\ phase' # "ended"
  BY DEF OpenOrder, Sent, TypeOK, Ids
<1>2. /\ id \notin DOMAIN pending \cup Working \cup DOMAIN positions
      /\ results[id] = <<>>
  BY <1>1 DEF OrderInv, Fresh
<1>3. /\ UNCHANGED <<limits, stops, positions, filledLots, closedLots>>
      /\ Working' = Working
  BY DEF OpenOrder, Working
<1>4. CASE RequestValid(r)
  <2>1. PICK d \in Delays : pending' = Put(pending, id, NewOrder(r, tick.msc + d))
    BY <1>4 DEF OpenOrder
  <2>2. /\ InFlight' = InFlight \cup {id} /\ results' = results
        /\ DOMAIN pending' = DOMAIN pending \cup {id}
    BY <1>2, <1>4, <2>1 DEF InFlight, Put, NewOrder, OpenOrder
  <2>3. OneOutcome'
    BY <1>1, <1>2, <1>3, <2>2 DEF OrderInv, OneOutcome
  <2>4. Fresh'
    BY <1>1, <1>2, <1>3, <2>2 DEF OrderInv, Fresh
  <2> QED
    BY <1>1, <1>3, <2>2, <2>3, <2>4
       DEF OrderInv, LotsFollowOutcome, LotsConserved, CleanShutdown
<1>5. CASE ~RequestValid(r)
  <2>1. /\ pending' = pending /\ InFlight' = InFlight
        /\ results' = Report({id}, "REJECTED")
    BY <1>5 DEF OpenOrder, InFlight
  <2>2. /\ Len(results'[id]) = 1 /\ results'[id] # <<>>
        /\ \A i \in Ids \ {id} : results'[i] = results[i]
    <3>1. results'[id] = Append(<<>>, "REJECTED")
      BY <1>1, <1>2, <2>1 DEF Report
    <3>2. \A i \in Ids \ {id} : results'[i] = results[i]
      BY <2>1 DEF Report
    <3> QED BY <3>1, <3>2, FirstOutcome DEF Outcomes
  <2>3. OneOutcome'
    <3>1. InFlight \cup Working \subseteq Ids \ {id}
      BY <1>2 DEF InFlight, Working, TypeOK, IsContainer
    <3>2. \A i \in Sent : i \in Ids \ {id}
      BY <1>1, SizeAssumption DEF Sent, Ids, TypeOK
    <3>3. \A i \in InFlight \cup Working : results'[i] = <<>>
      BY <1>1, <2>2, <3>1 DEF OrderInv, OneOutcome
    <3>4. \A i \in (Sent \cup {id}) \ (InFlight \cup Working) : Len(results'[i]) = 1
      BY <1>1, <2>2, <3>2 DEF OrderInv, OneOutcome
    <3>5. \A i \in Ids : results'[i] = <<>> \/ Len(results'[i]) = 1
      BY <2>2 DEF OrderInv, OneOutcome
    <3> QED BY <1>1, <1>3, <2>1, <3>3, <3>4, <3>5 DEF OrderInv, OneOutcome
  <2>4. Fresh'
    BY <1>1, <1>2, <1>3, <2>1, <2>2 DEF OrderInv, Fresh
  <2>5. LotsFollowOutcome'
    BY <1>2, <1>3, <2>2 DEF OrderInv, LotsFollowOutcome, TypeOK, IsContainer
  <2> QED
    BY <1>1, <1>3, <2>3, <2>4, <2>5 DEF OrderInv, LotsConserved, CleanShutdown
<1> QED BY <1>4, <1>5

\* The other calls move no order between containers.
LEMMA AlgorithmInv ==
  ASSUME TypeOK, TypeOK', OrderInv, Algorithm
  PROVE  OrderInv'
<1>1. ASSUME NEW r \in Requests, OpenOrder(r) PROVE OrderInv'
  BY <1>1, OpenOrderInv
<1>2. ASSUME NEW i \in Ids, NEW lots \in CloseLots, ClosePosition(i, lots) PROVE OrderInv'
  <2>1. PICK d \in Delays : pending' = Put(pending, i, NewClose(lots, tick.msc + d))
    BY <1>2 DEF ClosePosition
  <2>2. i \notin InFlight
    BY <1>2 DEF ClosePosition, OrderInv, OneOutcome
  <2>3. /\ InFlight' = InFlight
        /\ DOMAIN pending' \subseteq DOMAIN pending \cup DOMAIN positions
    BY <1>2, <2>1, <2>2 DEF InFlight, Put, NewClose, ClosePosition
  <2> QED BY <1>2, <2>3, Unmoved DEF ClosePosition, counters
<1>3. ASSUME NEW i \in Ids, CancelLimitOrder(i) PROVE OrderInv'
  BY <1>3, Unmoved DEF CancelLimitOrder, InFlight, counters
<1>4. ASSUME NEW i \in Ids, CancelStopOrder(i) PROVE OrderInv'
  BY <1>4, Unmoved DEF CancelStopOrder, InFlight, counters
<1>5. ASSUME NEW i \in Ids, NEW m \in Modifications, ModifyLimitOrder(i, m) PROVE OrderInv'
  BY <1>5, Unmoved DEF ModifyLimitOrder, InFlight, counters
<1>6. ASSUME NEW i \in Ids, NEW m \in Modifications, ModifyStopOrder(i, m) PROVE OrderInv'
  BY <1>6, Unmoved DEF ModifyStopOrder, InFlight, counters
<1>7. ASSUME NEW i \in Ids, NEW m \in Modifications, ModifyPosition(i, m) PROVE OrderInv'
  <2> DEFINE sl == Effective(m.sl, positions[i].sl)
             tp == Effective(m.tp, positions[i].tp)
  <2>1. positions[i] \in Position /\ sl \in OptPrice /\ tp \in OptPrice
    BY <1>7, InputAssumption
       DEF ModifyPosition, TypeOK, IsContainer, Position, Effective, Modification
  <2>2. positions' = positions \/ positions' = [positions EXCEPT ![i] = WithLevels(@, sl, tp)]
    BY <1>7 DEF ModifyPosition
  <2>3. WithLevels(positions[i], sl, tp).lots = positions[i].lots
    BY <2>1, WithLevelsType
  <2>4. /\ DOMAIN positions' = DOMAIN positions
        /\ \A j \in DOMAIN positions : positions'[j].lots = positions[j].lots
    <3> HIDE DEF sl, tp
    <3> QED BY <2>2, <2>3 DEF TypeOK, IsContainer
  <2> QED BY <1>7, <2>4, Unmoved DEF ModifyPosition, InFlight, counters
<1> QED
  BY <1>1, <1>2, <1>3, <1>4, <1>5, <1>6, <1>7 DEF Algorithm

\* A step that decides or hands on orders: those in filled get a position,
\* those in refused an outcome and nothing else; no other order is decided,
\* and no open lot is lost or closed twice.
Deciding(filled, refused, outcome) ==
  /\ phase # "ended" /\ phase' # "ended"
  /\ filled \in SUBSET (InFlight \cup Working)
  /\ refused \in SUBSET (InFlight \cup Working)
  /\ filled \cap refused = {}
  /\ outcome \in Outcomes
  /\ InFlight' \cup Working' = (InFlight \cup Working) \ (filled \cup refused)
  /\ InFlight' \cap Working' = {} /\ DOMAIN limits' \cap DOMAIN stops' = {}
  /\ DOMAIN pending' \subseteq DOMAIN pending
  /\ DOMAIN positions' \subseteq DOMAIN positions \cup filled
  /\ results' = [i \in Ids |-> CASE i \in filled -> Append(results[i], "EXECUTED")
                                 [] i \in refused -> Append(results[i], outcome)
                                 [] OTHER -> results[i]]
  /\ UNCHANGED sent
  /\ \A i \in filled : i \in DOMAIN positions' /\ positions'[i].lots = filledLots'[i]
  /\ \A i \in Ids \ filled : filledLots'[i] = filledLots[i]
  /\ \A i \in Ids \ DOMAIN positions : closedLots'[i] = closedLots[i]
  /\ \A i \in DOMAIN positions :
        closedLots'[i] + (IF i \in DOMAIN positions' THEN positions'[i].lots ELSE 0)
          = closedLots[i] + positions[i].lots

\* The lots an undecided order asks for, wherever it is.
OrderLots(i) ==
  IF i \in InFlight THEN pending[i].lots
  ELSE IF i \in DOMAIN limits THEN limits[i].lots ELSE stops[i].lots

\* What such a step does to sizes: an order keeps its lots until they are
\* filled, a position never grows, and only the queue's orders are refused
\* before they reach the book.
Sizing(filled, refused, outcome) ==
  /\ InFlight' \subseteq InFlight
  /\ outcome = "REJECTED" \/ refused \subseteq Working
  /\ \A i \in InFlight' \cup Working' : OrderLots(i)' = OrderLots(i)
  /\ \A i \in filled : filledLots'[i] = OrderLots(i)
  /\ \A i \in DOMAIN positions \cap DOMAIN positions' : positions'[i].lots <= positions[i].lots

\* An order that was sent has an id within the bound.
LEMMA SentIds == TypeOK => Sent \subseteq Ids
<1>1. TypeOK => sent \in 0..MaxOrders
  BY DEF TypeOK
<1> QED BY <1>1, SizeAssumption DEF Sent, Ids

\* Every such step keeps the order invariant.
LEMMA Decided ==
  ASSUME TypeOK, TypeOK', OrderInv,
         NEW filled, NEW refused, NEW outcome, Deciding(filled, refused, outcome)
  PROVE  OrderInv'
<1> USE DEF Deciding
<1> DEFINE live == InFlight \cup Working
<1>1. /\ live \subseteq Ids /\ live \subseteq Sent /\ Sent \subseteq Ids /\ Sent' = Sent
      /\ live \cap DOMAIN positions = {}
      /\ DOMAIN positions \subseteq Ids
  <2>1. live \subseteq Ids /\ DOMAIN positions \subseteq Ids
    BY DEF InFlight, Working, TypeOK, IsContainer
  <2>2. live \subseteq Sent
    BY <2>1 DEF OrderInv, Fresh, InFlight
  <2>3. Sent \subseteq Ids
    BY SentIds, Zenon
  <2> QED BY <2>1, <2>2, <2>3 DEF OrderInv, OneOutcome, Sent
<1>2. \A i \in live : results[i] = <<>>
  BY DEF OrderInv, OneOutcome
<1>3. /\ \A i \in filled : /\ results'[i] = <<"EXECUTED">> /\ results'[i] # <<>>
                           /\ Len(results'[i]) = 1
      /\ \A i \in refused : results'[i] # <<>> /\ Len(results'[i]) = 1
  <2>1. \A i \in filled : results'[i] = Append(<<>>, "EXECUTED")
    BY <1>1, <1>2
  <2>2. \A i \in refused : results'[i] = Append(<<>>, outcome)
    BY <1>1, <1>2
  <2> QED BY <2>1, <2>2, FirstOutcome DEF Outcomes
<1>4. \A i \in Ids \ (filled \cup refused) : results'[i] = results[i]
  OBVIOUS
<1>5. OneOutcome'
  <2>1. \A i \in Ids : results'[i] = <<>> \/ Len(results'[i]) = 1
    BY <1>3, <1>4 DEF OrderInv, OneOutcome
  <2>2. \A i \in InFlight' \cup Working' : results'[i] = <<>>
    BY <1>1, <1>2, <1>4
  <2>3. \A i \in Sent' \ (InFlight' \cup Working') : Len(results'[i]) = 1
    <3>1. \A i \in Sent \ live : Len(results[i]) = 1
      BY DEF OrderInv, OneOutcome
    <3> QED BY <1>1, <1>3, <1>4, <3>1
  <2>4. (InFlight' \cup Working') \cap DOMAIN positions' = {}
    BY <1>1
  <2> QED BY <2>1, <2>2, <2>3, <2>4 DEF OneOutcome
<1>6. Fresh'
  <2>1. \A i \in Ids \ Sent : /\ i \notin DOMAIN pending \cup live \cup DOMAIN positions
                              /\ results[i] = <<>>
    BY <1>1 DEF OrderInv, Fresh
  <2>2. \A i \in Ids \ Sent : i \notin filled \cup refused
    BY <1>1
  <2> QED BY <1>1, <1>4, <2>1, <2>2 DEF Fresh
<1>7. LotsFollowOutcome'
  <2>1. ASSUME NEW i \in Ids, results'[i] = <<>> PROVE filledLots'[i] = 0 /\ closedLots'[i] = 0
    <3>1. i \notin filled \cup refused /\ results[i] = <<>>
      BY <1>3, <1>4, <2>1
    <3>2. i \notin DOMAIN positions
      BY <3>1, FirstOutcome DEF OrderInv, LotsFollowOutcome, Outcomes
    <3> QED BY <3>1, <3>2 DEF OrderInv, LotsFollowOutcome
  <2>2. \A i \in DOMAIN positions' : results'[i] = <<"EXECUTED">>
    <3>1. \A i \in DOMAIN positions : i \in Ids \ (filled \cup refused)
      BY <1>1
    <3> QED BY <1>3, <1>4, <3>1 DEF OrderInv, LotsFollowOutcome
  <2> QED BY <2>1, <2>2 DEF LotsFollowOutcome
<1>8. LotsConserved'
  <2> SUFFICES ASSUME NEW i \in Ids
               PROVE closedLots'[i] + (IF i \in DOMAIN positions' THEN positions'[i].lots ELSE 0)
                       = filledLots'[i]
    BY DEF LotsConserved
  <2>1. /\ closedLots[i] \in Nat /\ filledLots[i] \in Nat
        /\ closedLots'[i] \in Nat /\ filledLots'[i] \in Nat
    BY DEF TypeOK
  <2>2. CASE i \in filled
    <3>1. closedLots'[i] = 0 /\ i \in DOMAIN positions' /\ positions'[i].lots = filledLots'[i]
      BY <1>1, <1>2, <2>2 DEF OrderInv, LotsFollowOutcome
    <3> QED BY <2>1, <3>1
  <2>3. CASE i \in DOMAIN positions
    BY <1>1, <2>1, <2>3 DEF OrderInv, LotsConserved
  <2>4. CASE i \notin filled /\ i \notin DOMAIN positions
    BY <2>1, <2>4 DEF OrderInv, LotsConserved
  <2> QED BY <2>2, <2>3, <2>4
<1>9. CleanShutdown'
  BY DEF CleanShutdown
<1> QED BY <1>5, <1>6, <1>7, <1>8, <1>9 DEF OrderInv

\* A resolved cancellation decides an order of the book, a modification none.
LEMMA ResolveDecides ==
  ASSUME TypeOK, TypeOK', OrderInv, ResolvePendingOperations
  PROVE  \E gone : Deciding({}, gone, "CANCELLED") /\ Sizing({}, gone, "CANCELLED")
<1> DEFINE gone == CancelDue(limits) \cup CancelDue(stops)
<1>1. phase # "ended" /\ phase' # "ended"
  BY DEF ResolvePendingOperations
<1>2. gone \in SUBSET Working
  BY DEF CancelDue, Working
<1>3. /\ DOMAIN limits' = DOMAIN limits \ CancelDue(limits)
      /\ DOMAIN stops' = DOMAIN stops \ CancelDue(stops)
      /\ InFlight' = InFlight /\ pending' = pending
  BY DEF ResolvePendingOperations, Resolved, InFlight
<1>4. /\ InFlight \cap Working = {} /\ DOMAIN limits \cap DOMAIN stops = {}
  BY <1>1 DEF OrderInv, OneOutcome
<1>5. /\ InFlight' \cup Working' = (InFlight \cup Working) \ ({} \cup gone)
      /\ InFlight' \cap Working' = {} /\ DOMAIN limits' \cap DOMAIN stops' = {}
  BY <1>3, <1>4 DEF Working, CancelDue
<1>6. results' = [i \in Ids |-> CASE i \in {} -> Append(results[i], "EXECUTED")
                                  [] i \in gone -> Append(results[i], "CANCELLED")
                                  [] OTHER -> results[i]]
  BY DEF ResolvePendingOperations, Report
<1>7. /\ DOMAIN positions' = DOMAIN positions
      /\ \A i \in DOMAIN positions : positions'[i].lots = positions[i].lots
  <2>1. \A i \in DOMAIN posMods \cap DOMAIN positions :
          WithLevels(positions[i], posMods[i].sl, posMods[i].tp).lots = positions[i].lots
    BY WithLevelsType DEF TypeOK, IsContainer, PositionMod
  <2> QED BY <2>1 DEF ResolvePendingOperations
<1>8. UNCHANGED <<sent, filledLots, closedLots>>
  BY DEF ResolvePendingOperations, counters
<1>9. \A i \in DOMAIN positions :
        closedLots'[i] + (IF i \in DOMAIN positions' THEN positions'[i].lots ELSE 0)
          = closedLots[i] + positions[i].lots
  BY <1>7, <1>8
<1>12. \A f : IsContainer(f, OpenRecord) => \A i \in DOMAIN Resolved(f) : Resolved(f)[i].lots = f[i].lots
  <2>1. \A o \in OpenRecord : Modified(o).lots = o.lots
    BY DEF Modified, OpenRecord
  <2> QED BY <2>1 DEF IsContainer, Resolved
<1>13. \A i \in InFlight' \cup Working' : OrderLots(i)' = OrderLots(i)
  <2>1. limits' = Resolved(limits) /\ stops' = Resolved(stops)
    BY DEF ResolvePendingOperations
  <2>2. /\ \A i \in DOMAIN limits' : limits'[i].lots = limits[i].lots
        /\ \A i \in DOMAIN stops' : stops'[i].lots = stops[i].lots
    BY <1>12, <2>1 DEF TypeOK
  <2> QED BY <1>3, <1>4, <2>2 DEF OrderLots, Working
<1> HIDE DEF gone
<1>10. "CANCELLED" \in Outcomes
  BY DEF Outcomes
<1>11. Deciding({}, gone, "CANCELLED")
  BY <1>1, <1>2, <1>3, <1>5, <1>6, <1>7, <1>8, <1>9, <1>10 DEF Deciding
<1>14. \A i \in DOMAIN positions : positions[i].lots \in Nat
  BY DEF TypeOK, IsContainer, Position
<1>15. Sizing({}, gone, "CANCELLED")
  BY <1>2, <1>3, <1>7, <1>13, <1>14 DEF Sizing
<1> QED BY <1>11, <1>15

\* An entry that leaves the latency queue is filled, refused, put into the
\* book or, if it is a close, applied to its position: one of these.
LEMMA DrainDecides ==
  ASSUME TypeOK, TypeOK', OrderInv, FillResolvedOrders
  PROVE  \E opened, out :
           /\ Deciding(opened, out, "REJECTED") /\ Sizing(opened, out, "REJECTED")
           /\ executed' = executed + Cardinality(opened)
           /\ rejected' = rejected + Cardinality(out)
<1>1. PICK stress \in SUBSET DueOpens :
        \E refused \in SUBSET ToFill(DueOpens \ stress) : FillArrivals(stress, refused)
  BY DEF FillResolvedOrders
<1>2. PICK refused \in SUBSET ToFill(DueOpens \ stress) : FillArrivals(stress, refused)
  BY <1>1
<1> DEFINE S == DueOpens \ stress
           opened == ToFill(S) \ refused
           out == stress \cup refused
           base == PositionsAfterCloses
<1>3. phase # "ended" /\ phase' # "ended" /\ UNCHANGED sent
  BY DEF FillResolvedOrders
<1>4. /\ InFlight \cap Working = {} /\ DOMAIN limits \cap DOMAIN stops = {}
      /\ (InFlight \cup Working) \cap DOMAIN positions = {}
      /\ InFlight \subseteq Ids /\ Working \subseteq Ids
  BY <1>3 DEF OrderInv, OneOutcome, InFlight, Working, TypeOK, IsContainer
<1>5. /\ DueOpens \subseteq InFlight /\ InFlight' = InFlight \ DueOpens
      /\ DOMAIN pending' \subseteq DOMAIN pending
  BY DEF FillResolvedOrders, Without, DueOpens, DueEntries, InFlight
<1>6. /\ ToFill(S) \in SUBSET S /\ ToStops(S) \in SUBSET S /\ ToLimits(S) \in SUBSET S
      /\ S = ToFill(S) \cup ToStops(S) \cup ToLimits(S)
      /\ ToFill(S) \cap ToStops(S) = {} /\ ToFill(S) \cap ToLimits(S) = {}
      /\ ToStops(S) \cap ToLimits(S) = {}
  BY DueFacts
<1>7. /\ DOMAIN limits' = DOMAIN limits \cup ToLimits(S)
      /\ DOMAIN stops' = DOMAIN stops \cup ToStops(S)
  BY <1>2 DEF FillArrivals, Accept
<1>8. /\ opened \in SUBSET (InFlight \cup Working)
      /\ out \in SUBSET (InFlight \cup Working)
      /\ opened \cap out = {}
  BY <1>5, <1>6
<1>9. /\ InFlight' \cup Working' = (InFlight \cup Working) \ (opened \cup out)
      /\ InFlight' \cap Working' = {} /\ DOMAIN limits' \cap DOMAIN stops' = {}
  <2>1. Working' = Working \cup ToLimits(S) \cup ToStops(S)
    BY <1>7 DEF Working
  <2>2. DOMAIN limits \subseteq Working /\ DOMAIN stops \subseteq Working
    BY DEF Working
  <2> HIDE DEF S
  <2>3. S = DueOpens \ stress
    BY DEF S
  <2> QED BY <1>2, <1>4, <1>5, <1>6, <1>7, <2>1, <2>2, <2>3
<1>10. /\ DOMAIN base \subseteq DOMAIN positions
       /\ \A i \in DOMAIN positions \ DOMAIN base : i \in DueCloses /\ Left(i) = 0
       /\ \A i \in DOMAIN base \cap DueCloses : base[i].lots = Left(i)
       /\ \A i \in DOMAIN base \ DueCloses : base[i] = positions[i]
  BY DueFacts DEF PositionsAfterCloses, Position
<1>11. /\ DOMAIN positions' = DOMAIN base \cup opened
       /\ \A i \in opened : positions'[i].lots = filledLots'[i]
       /\ \A i \in Ids \ opened : filledLots'[i] = filledLots[i]
       /\ \A i \in DOMAIN base \ opened : positions'[i] = base[i]
       /\ \A i \in opened : filledLots'[i] = Arriving[i].lots
  <2>1. FillOpenOrders(Arriving, ToFill(S), refused, base)
    BY <1>2 DEF FillArrivals
  <2>2. ToFill(S) \in SUBSET Ids /\ filledLots \in [Ids -> Nat]
    BY <1>4, <1>5, <1>6 DEF TypeOK
  <2> DEFINE F == ToFill(S)
             A == Arriving
  <2>3. refused \in SUBSET F /\ F \in SUBSET Ids /\ FillOpenOrders(A, F, refused, base)
    BY <1>2, <2>1, <2>2
  <2> HIDE DEF base, S, F, A
  <2>4. /\ positions' = Accept(base, [i \in F \ refused |-> NewPosition(A[i])], F \ refused)
        /\ filledLots' = [i \in Ids |-> IF i \in F \ refused THEN A[i].lots ELSE filledLots[i]]
    BY <2>3 DEF FillOpenOrders
  <2>5. DOMAIN positions' = DOMAIN base \cup (F \ refused)
    BY <2>4 DEF Accept
  <2>6. \A i \in F \ refused : positions'[i].lots = filledLots'[i]
    BY <2>3, <2>4 DEF Accept, NewPosition
  <2>7. \A i \in DOMAIN base \ (F \ refused) : positions'[i] = base[i]
    BY <2>4 DEF Accept
  <2>8. \A i \in Ids \ (F \ refused) : filledLots'[i] = filledLots[i]
    BY <2>4
  <2>9. \A i \in F \ refused : filledLots'[i] = A[i].lots
    BY <2>3, <2>4
  <2> QED BY <2>5, <2>6, <2>7, <2>8, <2>9 DEF F, A
<1>12. \A i \in DOMAIN positions : i \notin opened /\ i \in Ids
  BY <1>4, <1>8 DEF TypeOK, IsContainer
<1>13. /\ \A i \in Ids \ DueCloses : closedLots'[i] = closedLots[i]
       /\ \A i \in Ids \cap DueCloses : closedLots'[i] = closedLots[i] + (positions[i].lots - Left(i))
  BY DEF FillResolvedOrders
<1>14. ASSUME NEW i \in DOMAIN positions
       PROVE  closedLots'[i] + (IF i \in DOMAIN positions' THEN positions'[i].lots ELSE 0)
                = closedLots[i] + positions[i].lots
  <2> HIDE DEF base, opened
  <2>1. i \in Ids /\ closedLots[i] \in Nat /\ positions[i].lots \in Nat
    BY <1>12 DEF TypeOK, IsContainer, Position
  <2>2. CASE i \in DueCloses
    <3>1. Left(i) \in Nat
      BY <2>2, DueFacts
    <3>2. CASE i \in DOMAIN base
      BY <1>10, <1>11, <1>12, <1>13, <2>1, <2>2, <3>1, <3>2
    <3>3. CASE i \notin DOMAIN base
      BY <1>10, <1>11, <1>12, <1>13, <2>1, <2>2, <3>1, <3>3
    <3> QED BY <3>2, <3>3
  <2>3. CASE i \notin DueCloses
    BY <1>10, <1>11, <1>12, <1>13, <2>1, <2>3
  <2> QED BY <2>2, <2>3
<1>15. \A i \in Ids \ DOMAIN positions : closedLots'[i] = closedLots[i]
  BY <1>13 DEF DueCloses
<1>16. results' = [i \in Ids |-> CASE i \in opened -> Append(results[i], "EXECUTED")
                                   [] i \in out -> Append(results[i], "REJECTED")
                                   [] OTHER -> results[i]]
  BY <1>2 DEF FillArrivals, Decide
<1>17. /\ DOMAIN positions' \subseteq DOMAIN positions \cup opened
       /\ \A i \in opened : i \in DOMAIN positions' /\ positions'[i].lots = filledLots'[i]
  BY <1>10, <1>11
<1>18. "REJECTED" \in Outcomes
  BY DEF Outcomes
<1>20. /\ executed' = executed + Cardinality(opened)
       /\ rejected' = rejected + Cardinality(out)
  BY <1>2, Zenon DEF FillArrivals
<1>21. \A i \in opened : filledLots'[i] = OrderLots(i)
  <2>1. \A i \in opened : i \in DueOpens /\ i \in InFlight
    BY <1>5, <1>6
  <2>2. \A i \in DueOpens : Arriving[i].lots = pending[i].lots
    BY DueFacts
  <2> HIDE DEF opened
  <2> QED BY <1>11, <2>1, <2>2 DEF OrderLots
<1>22. \A i \in InFlight' \cup Working' : OrderLots(i)' = OrderLots(i)
  <2>1. /\ limits' = Accept(limits, Arriving, ToLimits(S))
        /\ stops' = Accept(stops, Arriving, ToStops(S))
        /\ pending' = Without(pending, DueEntries)
    BY <1>2 DEF FillArrivals, FillResolvedOrders
  <2>2. \A i \in DueOpens : Arriving[i].lots = pending[i].lots
    BY DueFacts
  <2>3. ToLimits(S) \subseteq InFlight /\ ToStops(S) \subseteq InFlight
    BY <1>5, <1>6
  <2>4. ToLimits(S) \subseteq DueOpens /\ ToStops(S) \subseteq DueOpens /\ ToLimits(S) \cap ToStops(S) = {}
    BY <1>6
  <2> HIDE DEF S
  <2>5. ASSUME NEW i \in InFlight' PROVE OrderLots(i)' = OrderLots(i)
    BY <1>5, <2>1 DEF OrderLots, Without, InFlight
  <2>6. ASSUME NEW i \in DOMAIN limits', i \notin InFlight' PROVE OrderLots(i)' = OrderLots(i)
    <3>1. CASE i \in ToLimits(S)
      BY <2>1, <2>2, <2>3, <2>4, <2>6, <3>1 DEF OrderLots, Accept
    <3>2. CASE i \notin ToLimits(S)
      <4>1. i \in DOMAIN limits /\ limits'[i] = limits[i] /\ i \notin InFlight
        BY <1>4, <2>1, <2>6, <3>2 DEF Accept, Working
      <4> QED BY <2>6, <4>1 DEF OrderLots
    <3> QED BY <3>1, <3>2
  <2>7. ASSUME NEW i \in DOMAIN stops', i \notin InFlight', i \notin DOMAIN limits'
        PROVE  OrderLots(i)' = OrderLots(i)
    <3>1. CASE i \in ToStops(S)
      BY <2>1, <2>2, <2>3, <2>4, <2>7, <3>1 DEF OrderLots, Accept
    <3>2. CASE i \notin ToStops(S)
      <4>1. /\ i \in DOMAIN stops /\ stops'[i] = stops[i] /\ i \notin InFlight
            /\ i \notin DOMAIN limits
        BY <1>4, <2>1, <2>7, <3>2 DEF Accept, Working
      <4> QED BY <2>7, <4>1 DEF OrderLots
    <3> QED BY <3>1, <3>2
  <2> QED BY <2>5, <2>6, <2>7 DEF Working
<1>23. \A i \in DOMAIN positions \cap DOMAIN positions' : positions'[i].lots <= positions[i].lots
  <2> SUFFICES ASSUME NEW i \in DOMAIN positions, i \in DOMAIN positions'
               PROVE  positions'[i].lots <= positions[i].lots
    OBVIOUS
  <2>1. positions[i].lots \in Nat
    BY DEF TypeOK, IsContainer, Position
  <2>2. i \in DOMAIN base /\ positions'[i] = base[i]
    BY <1>11, <1>12
  <2>3. CASE i \in DueCloses
    <3>1. Left(i) <= positions[i].lots
      BY <2>3, DueFacts
    <3> HIDE DEF base
    <3> QED BY <1>10, <2>2, <2>3, <3>1
  <2>4. CASE i \notin DueCloses
    <3> HIDE DEF base
    <3> QED BY <1>10, <2>1, <2>2, <2>4
  <2> QED BY <2>3, <2>4
<1> HIDE DEF opened, out, base
<1>19. Deciding(opened, out, "REJECTED")
  BY <1>3, <1>5, <1>8, <1>9, <1>11, <1>14, <1>15, <1>16, <1>17, <1>18 DEF Deciding
<1>24. Sizing(opened, out, "REJECTED")
  BY <1>5, <1>21, <1>22, <1>23 DEF Sizing
<1> QED BY <1>19, <1>20, <1>24

\* Phases 2 and 3: the orders of S leave the working orders and are filled or
\* refused.
LEMMA TriggerDecides ==
  ASSUME TypeOK, TypeOK', OrderInv, phase # "ended", phase' # "ended",
         NEW f, NEW S \in SUBSET Working, Trigger(f, S),
         Working' = Working \ S, DOMAIN limits' \cap DOMAIN stops' = {},
         UNCHANGED <<pending, closedLots>>,
         \A i \in S : f[i].lots = OrderLots(i),
         \A i \in Working' : OrderLots(i)' = OrderLots(i)
  PROVE  \E filled, refused :
           /\ Deciding(filled, refused, "REJECTED") /\ Sizing(filled, refused, "REJECTED")
           /\ executed' = executed + Cardinality(filled)
           /\ rejected' = rejected + Cardinality(refused)
<1>1. PICK refused \in SUBSET S :
        /\ FillOpenOrders(f, S, refused, positions)
        /\ results' = Decide(S \ refused, refused)
        /\ executed' = executed + Cardinality(S \ refused)
        /\ rejected' = rejected + Cardinality(refused)
  BY DEF Trigger
<1>2. /\ InFlight' = InFlight /\ UNCHANGED sent
      /\ InFlight \cap Working = {} /\ Working \cap DOMAIN positions = {}
      /\ Working \subseteq Ids
  BY DEF Trigger, InFlight, Working, OrderInv, OneOutcome, TypeOK, IsContainer
<1>3. /\ DOMAIN positions' = DOMAIN positions \cup (S \ refused)
      /\ \A i \in S \ refused : positions'[i].lots = filledLots'[i]
      /\ \A i \in Ids \ (S \ refused) : filledLots'[i] = filledLots[i]
      /\ \A i \in DOMAIN positions : positions'[i] = positions[i]
      /\ \A i \in S \ refused : filledLots'[i] = f[i].lots
  BY <1>1, <1>2 DEF FillOpenOrders, Accept, NewPosition
<1>4. results' = [i \in Ids |-> CASE i \in S \ refused -> Append(results[i], "EXECUTED")
                                  [] i \in refused -> Append(results[i], "REJECTED")
                                  [] OTHER -> results[i]]
  BY <1>1 DEF Decide
<1>5. \A i \in DOMAIN positions :
        closedLots'[i] + (IF i \in DOMAIN positions' THEN positions'[i].lots ELSE 0)
          = closedLots[i] + positions[i].lots
  BY <1>3
<1>6. "REJECTED" \in Outcomes
  BY DEF Outcomes
<1>7. Deciding(S \ refused, refused, "REJECTED")
  BY <1>1, <1>2, <1>3, <1>4, <1>5, <1>6 DEF Deciding
<1>8. \A i \in InFlight' : OrderLots(i)' = OrderLots(i)
  BY <1>2 DEF OrderLots
<1>9. \A i \in DOMAIN positions : positions'[i].lots <= positions[i].lots
  BY SMTT(30), <1>3 DEF TypeOK, IsContainer, Position
<1>10. Sizing(S \ refused, refused, "REJECTED")
  BY <1>1, <1>2, <1>3, <1>8, <1>9 DEF Sizing
<1> QED BY <1>1, <1>7, <1>10

\* Matching decides the triggered orders, or moves stop-limits to the limits.
LEMMA MonitorDecides ==
  ASSUME TypeOK, TypeOK', OrderInv, MonitorLimits \/ MonitorStops
  PROVE  \E filled, refused :
           /\ Deciding(filled, refused, "REJECTED") /\ Sizing(filled, refused, "REJECTED")
           /\ executed' = executed + Cardinality(filled)
           /\ rejected' = rejected + Cardinality(refused)
<1>1. CASE MonitorLimits
  <2> DEFINE S == {i \in DOMAIN limits : LimitReached(limits[i], tick)}
  <2>1. /\ phase # "ended" /\ phase' # "ended" /\ S \in SUBSET Working
        /\ DOMAIN limits \cap DOMAIN stops = {}
    BY <1>1 DEF MonitorLimits, Working, OrderInv, OneOutcome
  <2>2. /\ Trigger(limits, S) /\ limits' = Without(limits, S)
        /\ UNCHANGED <<stops, pending, closedLots>>
    BY <1>1 DEF MonitorLimits
  <2>3. S \subseteq DOMAIN limits
    OBVIOUS
  <2> HIDE DEF S
  <2>4. Working' = Working \ S /\ DOMAIN limits' \cap DOMAIN stops' = {}
    BY <2>1, <2>2, <2>3 DEF Without, Working
  <2>5. InFlight' = InFlight /\ InFlight \cap Working = {}
    BY <2>1, <2>2 DEF InFlight, OrderInv, OneOutcome
  <2>6. \A i \in S : limits[i].lots = OrderLots(i)
    BY <2>1, <2>3, <2>5 DEF OrderLots
  <2>7. \A i \in Working' : OrderLots(i)' = OrderLots(i)
    BY <2>1, <2>2, <2>3, <2>4, <2>5 DEF OrderLots, Without, Working
  <2> QED BY <2>1, <2>2, <2>4, <2>6, <2>7, TriggerDecides
<1>2. CASE MonitorStops
  <2> DEFINE reached == {i \in DOMAIN stops : StopReached(stops[i], tick)}
             arrived == [i \in reached |-> Arrived(stops[i])]
             fills == {i \in reached : Fillable(arrived[i])}
  <2>1. /\ phase # "ended" /\ phase' # "ended"
        /\ reached \subseteq DOMAIN stops /\ fills \subseteq reached
        /\ DOMAIN limits \cap DOMAIN stops = {}
    BY <1>2 DEF MonitorStops, OrderInv, OneOutcome
  <2>2. /\ Trigger(arrived, fills)
        /\ limits' = Accept(limits, arrived, reached \ fills)
        /\ stops' = Without(stops, reached)
        /\ UNCHANGED <<pending, closedLots>>
    BY <1>2 DEF MonitorStops
  <2> HIDE DEF reached, arrived, fills
  <2>3. /\ DOMAIN limits' = DOMAIN limits \cup (reached \ fills)
        /\ DOMAIN stops' = DOMAIN stops \ reached
    BY <2>2 DEF Accept, Without
  <2>4. /\ Working' = Working \ fills /\ DOMAIN limits' \cap DOMAIN stops' = {}
        /\ fills \in SUBSET Working
    BY <2>1, <2>3 DEF Working
  <2>5. InFlight' = InFlight /\ InFlight \cap Working = {}
    BY <2>1, <2>2 DEF InFlight, OrderInv, OneOutcome
  <2>6. \A i \in reached : arrived[i].lots = stops[i].lots /\ i \notin InFlight /\ i \notin DOMAIN limits
    <3>1. \A i \in DOMAIN stops : stops[i] \in OpenRecord /\ i \in Working
      BY DEF TypeOK, IsContainer, Working
    <3> QED BY <2>1, <2>5, <3>1, ArrivedType DEF arrived
  <2>7. \A i \in fills : arrived[i].lots = OrderLots(i)
    BY <2>1, <2>6 DEF OrderLots
  <2>8. \A i \in Working' : OrderLots(i)' = OrderLots(i)
    <3> SUFFICES ASSUME NEW i \in Working' PROVE OrderLots(i)' = OrderLots(i)
      OBVIOUS
    <3>1. i \notin InFlight /\ i \notin InFlight'
      BY <2>4, <2>5
    <3>2. CASE i \in reached \ fills
      BY <2>2, <2>6, <3>1, <3>2 DEF OrderLots, Accept
    <3>3. CASE i \in DOMAIN limits \ reached
      BY <2>2, <3>1, <3>3 DEF OrderLots, Accept
    <3>4. CASE i \in DOMAIN stops \ reached
      <4>1. i \notin DOMAIN limits /\ i \notin DOMAIN limits' /\ stops'[i] = stops[i]
        BY <2>1, <2>2, <2>3, <3>4 DEF Without
      <4> QED BY <3>1, <4>1 DEF OrderLots
    <3> QED BY <2>1, <2>3, <3>2, <3>3, <3>4 DEF Working
  <2> QED BY <2>1, <2>2, <2>4, <2>7, <2>8, TriggerDecides
<1> QED BY <1>1, <1>2

\* A triggered position is closed in full.
LEMMA SlTpDecides ==
  ASSUME TypeOK, TypeOK', OrderInv, CheckSlTpTriggers
  PROVE  Deciding({}, {}, "REJECTED") /\ Sizing({}, {}, "REJECTED")
<1>1. /\ phase # "ended" /\ phase' # "ended"
      /\ UNCHANGED <<pending, limits, stops, results, filledLots, sent>>
      /\ InFlight' = InFlight /\ Working' = Working
  BY DEF CheckSlTpTriggers, InFlight, Working
<1>2. /\ positions' = Without(positions, SlTpHits)
      /\ closedLots' = [i \in Ids |-> IF i \in SlTpHits THEN closedLots[i] + positions[i].lots
                                                   ELSE closedLots[i]]
      /\ SlTpHits \subseteq DOMAIN positions
  BY DEF CheckSlTpTriggers, SlTpHits
<1>3. /\ InFlight \cap Working = {} /\ DOMAIN limits \cap DOMAIN stops = {}
      /\ DOMAIN positions \subseteq Ids
  BY <1>1 DEF OrderInv, OneOutcome, TypeOK, IsContainer
<1>4. /\ DOMAIN positions' = DOMAIN positions \ SlTpHits
      /\ \A i \in DOMAIN positions \ SlTpHits : positions'[i] = positions[i]
  BY <1>2 DEF Without
<1>5. ASSUME NEW i \in DOMAIN positions
      PROVE  closedLots'[i] + (IF i \in DOMAIN positions' THEN positions'[i].lots ELSE 0)
               = closedLots[i] + positions[i].lots
  <2>1. closedLots[i] \in Nat /\ positions[i].lots \in Nat
    BY <1>3 DEF TypeOK, IsContainer, Position
  <2> QED BY <1>2, <1>3, <1>4, <2>1
<1>6. results' = [i \in Ids |-> CASE i \in {} -> Append(results[i], "EXECUTED")
                                  [] i \in {} -> Append(results[i], "REJECTED")
                                  [] OTHER -> results[i]]
  BY <1>1 DEF TypeOK
<1>7. "REJECTED" \in Outcomes
  BY DEF Outcomes
<1>8. Deciding({}, {}, "REJECTED")
  BY <1>1, <1>2, <1>3, <1>4, <1>5, <1>6, <1>7 DEF Deciding
<1>9. \A i \in InFlight' \cup Working' : OrderLots(i)' = OrderLots(i)
  BY <1>1 DEF OrderLots
<1>10. \A i \in DOMAIN positions' : positions'[i].lots <= positions[i].lots
  BY SMTT(30), <1>4 DEF TypeOK, IsContainer, Position
<1>11. Sizing({}, {}, "REJECTED")
  BY <1>1, <1>9, <1>10 DEF Sizing
<1> QED BY <1>8, <1>11

\* So every phase of on_tick and heartbeat preserves the invariant.
LEMMA ProcessingInv ==
  ASSUME TypeOK, TypeOK', OrderInv, Processing
  PROVE  OrderInv'
<1>1. CASE ResolvePendingOperations
  <2>1. PICK gone : Deciding({}, gone, "CANCELLED")
    BY <1>1, ResolveDecides
  <2> QED BY <2>1, Decided
<1>2. CASE FillResolvedOrders \/ MonitorLimits \/ MonitorStops
  <2>1. PICK filled, refused : Deciding(filled, refused, "REJECTED")
    BY <1>2, DrainDecides, MonitorDecides
  <2> QED BY <2>1, Decided
<1>3. CASE CheckSlTpTriggers
  BY <1>3, SlTpDecides, Decided
<1> QED BY <1>1, <1>2, <1>3 DEF Processing

\* The end of the scenario decides what is left and closes every position.
LEMMA CloseAllInv ==
  ASSUME TypeOK, TypeOK', OrderInv, CloseAllRemainingOrders
  PROVE  OrderInv'
<1>1. /\ phase # "ended" /\ phase' = "ended"
      /\ DOMAIN positions' = {} /\ DOMAIN pending' = {} /\ DOMAIN posMods' = {}
      /\ UNCHANGED <<limits, stops, filledLots, sent>>
  BY DEF CloseAllRemainingOrders, Empty, counters
<1>2. /\ Working' = Working /\ Sent' = Sent
  BY <1>1 DEF Working, Sent
<1>3. results' = [i \in Ids |-> CASE i \in Working -> Append(results[i], "EXPIRED")
                                  [] i \in InFlight -> Append(results[i], "FORCE_CLOSED")
                                  [] OTHER -> results[i]]
  BY DEF CloseAllRemainingOrders, Expiring, Working, InFlight
<1>4. /\ InFlight \cup Working \subseteq Sent /\ Sent \subseteq Ids
      /\ DOMAIN positions \subseteq Ids
  <2>1. InFlight \cup Working \subseteq Ids /\ DOMAIN positions \subseteq Ids
    BY DEF InFlight, Working, TypeOK, IsContainer
  <2>2. InFlight \cup Working \subseteq Sent
    BY <2>1 DEF OrderInv, Fresh, InFlight
  <2>3. Sent \subseteq Ids
    BY SizeAssumption DEF Sent, Ids, TypeOK
  <2> QED BY <2>1, <2>2, <2>3
<1>5. \A i \in InFlight \cup Working : results'[i] # <<>> /\ Len(results'[i]) = 1
  <2>1. \A i \in InFlight \cup Working :
          results'[i] = Append(<<>>, "EXPIRED") \/ results'[i] = Append(<<>>, "FORCE_CLOSED")
    BY <1>1, <1>3, <1>4 DEF OrderInv, OneOutcome
  <2> QED BY <2>1, FirstOutcome DEF Outcomes
<1>6. \A i \in Ids \ (InFlight \cup Working) : results'[i] = results[i]
  BY <1>3
<1>7. \A i \in Sent : Len(results'[i]) = 1
  <2>1. \A i \in Sent \ (InFlight \cup Working) : Len(results[i]) = 1
    BY <1>1 DEF OrderInv, OneOutcome
  <2> QED BY <1>4, <1>5, <1>6, <2>1
<1>8. OneOutcome'
  BY <1>1, <1>5, <1>6 DEF OrderInv, OneOutcome
<1>9. Fresh'
  BY <1>1, <1>2, <1>4, <1>6 DEF OrderInv, Fresh
<1>10. \A i \in Ids : closedLots'[i] = IF i \in DOMAIN positions
                                       THEN closedLots[i] + positions[i].lots
                                       ELSE closedLots[i]
  BY DEF CloseAllRemainingOrders
<1>11. LotsFollowOutcome'
  <2>1. ASSUME NEW i \in Ids, results'[i] = <<>> PROVE filledLots'[i] = 0 /\ closedLots'[i] = 0
    <3>1. i \notin InFlight \cup Working /\ results[i] = <<>>
      BY <1>5, <1>6, <2>1
    <3>2. i \notin DOMAIN positions
      BY <3>1, FirstOutcome DEF OrderInv, LotsFollowOutcome, Outcomes
    <3> QED BY <1>1, <1>10, <3>1, <3>2 DEF OrderInv, LotsFollowOutcome
  <2> QED BY <1>1, <2>1 DEF LotsFollowOutcome
<1>12. LotsConserved'
  <2> SUFFICES ASSUME NEW i \in Ids
               PROVE  closedLots'[i] + (IF i \in DOMAIN positions' THEN positions'[i].lots ELSE 0)
                        = filledLots'[i]
    BY DEF LotsConserved
  <2>1. closedLots'[i] \in Nat /\ closedLots[i] \in Nat
    BY DEF TypeOK
  <2> QED BY <1>1, <1>10, <2>1 DEF OrderInv, LotsConserved
<1>13. CleanShutdown'
  BY <1>1, <1>2, <1>7 DEF CleanShutdown
<1> QED BY <1>8, <1>9, <1>11, <1>12, <1>13 DEF OrderInv

\* A new scenario satisfies the invariant.
LEMMA OrderInit == Init => OrderInv
<1> SUFFICES ASSUME Init PROVE OrderInv
  OBVIOUS
<1>1. /\ DOMAIN pending = {} /\ DOMAIN limits = {} /\ DOMAIN stops = {}
      /\ DOMAIN positions = {} /\ DOMAIN posMods = {}
  BY DEF Init, Empty
<1>2. InFlight = {} /\ Working = {} /\ Sent = {}
  BY <1>1 DEF InFlight, Working, Sent, Init
<1>3. \A i \in Ids : results[i] = <<>> /\ filledLots[i] = 0 /\ closedLots[i] = 0
  BY DEF Init
<1>4. phase # "ended"
  BY DEF Init
<1> QED
  BY <1>1, <1>2, <1>3, <1>4
     DEF OrderInv, OneOutcome, Fresh, LotsFollowOutcome, LotsConserved, CleanShutdown

\* Every step preserves the invariant.
LEMMA OrderStep ==
  ASSUME TypeOK, TypeOK', OrderInv, [Next]_vars
  PROVE  OrderInv'
<1>1. CASE Algorithm
  BY <1>1, AlgorithmInv
<1>2. ASSUME NEW bid \in Bids, NEW msc \in 0..MaxMsc, OnTick(bid, msc) PROVE OrderInv'
  BY <1>2, Unmoved DEF OnTick, InFlight, counters
<1>3. CASE Heartbeat
  BY <1>3, Unmoved DEF Heartbeat, InFlight, counters
<1>4. CASE Processing
  BY <1>4, ProcessingInv
<1>5. CASE CloseAllRemainingOrders
  BY <1>5, CloseAllInv
<1>6. CASE UNCHANGED vars
  BY <1>6 DEF vars, counters, OrderInv, OneOutcome, Fresh, LotsFollowOutcome, LotsConserved,
              CleanShutdown, InFlight, Working, Sent
<1> QED BY <1>1, <1>2, <1>3, <1>4, <1>5, <1>6 DEF Next, Done

\* The invariant holds throughout every scenario.
LEMMA OrderInvariant == Spec => []OrderInv
<1>1. Init => OrderInv
  BY OrderInit
<1>2. TypeOK /\ TypeOK' /\ OrderInv /\ [Next]_vars => OrderInv'
  BY OrderStep
<1> QED BY <1>1, <1>2, TypeCorrect, PTL DEF Spec

\* In every scenario, with any number of orders, latencies, ticks and
\* heartbeats, no order of the simulator is decided twice and none is lost
\* between the latency queue, the active lists and the positions.
THEOREM EveryOrderOneOutcome == Spec => []OneOutcome
<1>1. OrderInv => OneOutcome
  BY DEF OrderInv
<1> QED BY <1>1, OrderInvariant, PTL

\* Every lot _fill_open_order opened is still open or was closed exactly
\* once, whichever of the four ways of closing were used.
THEOREM NoLotLost == Spec => []LotsConserved
<1>1. OrderInv => LotsConserved
  BY DEF OrderInv
<1> QED BY <1>1, OrderInvariant, PTL

\* close_all_remaining_orders always leaves the state check_clean_shutdown
\* asks for, with an outcome for every order that was sent.
THEOREM ScenarioEndsClean == Spec => []CleanShutdown
<1>1. OrderInv => CleanShutdown
  BY DEF OrderInv
<1> QED BY <1>1, OrderInvariant, PTL


-----------------------------------------------------------------------------
(* The minimum volume                                                       *)
(*                                                                          *)
(* NoDust is not inductive: the orders that will become positions must be   *)
(* large enough as well.                                                    *)

\* Every order to open asks for at least volume_min.
OrdersTradable ==
  /\ \A i \in InFlight : pending[i].lots >= VolumeMin
  /\ \A i \in DOMAIN limits : limits[i].lots >= VolumeMin
  /\ \A i \in DOMAIN stops : stops[i].lots >= VolumeMin

DustInv == NoDust /\ OrdersTradable

\* Scheduling, applying and converting leave an order's lots alone.
LEMMA LotsKept ==
  ASSUME NEW o \in OpenRecord
  PROVE  /\ Cancelling(o).lots = o.lots
         /\ Modified(o).lots = o.lots
         /\ Arrived(o).lots = o.lots
         /\ \A m \in Modification :
              /\ Modifying(o, m).lots = o.lots
              /\ [Modifying(o, m) EXCEPT !.mod.limit = None].lots = o.lots
BY DEF Cancelling, Modified, Arrived, Converted, Modifying, OpenRecord

\* New positions are as large as their orders.
LEMMA FillsTradable ==
  ASSUME TypeOK, NEW f, NEW S, NEW refused, NEW base,
         \A i \in S : f[i].lots >= VolumeMin,
         \A i \in DOMAIN base : base[i].lots >= VolumeMin,
         FillOpenOrders(f, S, refused, base)
  PROVE  NoDust'
BY DEF FillOpenOrders, Accept, NewPosition, NoDust

\* The algorithm's calls keep every size tradable.
LEMMA AlgorithmDust ==
  ASSUME TypeOK, DustInv, Algorithm
  PROVE  DustInv'
<1> USE DEF DustInv
<1>1. ASSUME NEW r \in Requests, OpenOrder(r) PROVE DustInv'
  <2>1. /\ UNCHANGED <<limits, stops, positions>>
        /\ \/ UNCHANGED pending
           \/ /\ RequestValid(r)
              /\ \E d \in Delays : pending' = Put(pending, sent + 1, NewOrder(r, tick.msc + d))
    BY <1>1 DEF OpenOrder
  <2>2. RequestValid(r) => r.lots >= VolumeMin
    BY InputAssumption, SizeAssumption DEF RequestValid, Request
  <2>3. \A i \in InFlight' : pending'[i].lots >= VolumeMin
    BY <2>1, <2>2 DEF InFlight, Put, NewOrder, OrdersTradable
  <2> QED BY <2>1, <2>3 DEF NoDust, OrdersTradable
<1>2. ASSUME NEW i \in Ids, NEW lots \in CloseLots, ClosePosition(i, lots) PROVE DustInv'
  BY <1>2 DEF ClosePosition, NoDust, OrdersTradable, InFlight, Put, NewClose
<1>3. ASSUME NEW i \in Ids, CancelLimitOrder(i) PROVE DustInv'
  <2>1. Cancelling(limits[i]).lots = limits[i].lots
    BY <1>3, LotsKept DEF CancelLimitOrder, TypeOK, IsContainer
  <2> QED BY <1>3, <2>1 DEF CancelLimitOrder, NoDust, OrdersTradable, InFlight
<1>4. ASSUME NEW i \in Ids, CancelStopOrder(i) PROVE DustInv'
  <2>1. Cancelling(stops[i]).lots = stops[i].lots
    BY <1>4, LotsKept DEF CancelStopOrder, TypeOK, IsContainer
  <2> QED BY <1>4, <2>1 DEF CancelStopOrder, NoDust, OrdersTradable, InFlight
<1>5. ASSUME NEW i \in Ids, NEW m \in Modifications, ModifyLimitOrder(i, m) PROVE DustInv'
  <2>1. [Modifying(limits[i], m) EXCEPT !.mod.limit = None].lots = limits[i].lots
    BY <1>5, LotsKept, InputAssumption DEF ModifyLimitOrder, TypeOK, IsContainer
  <2> QED BY <1>5, <2>1 DEF ModifyLimitOrder, NoDust, OrdersTradable, InFlight
<1>6. ASSUME NEW i \in Ids, NEW m \in Modifications, ModifyStopOrder(i, m) PROVE DustInv'
  <2>1. Modifying(stops[i], m).lots = stops[i].lots
    BY <1>6, LotsKept, InputAssumption DEF ModifyStopOrder, TypeOK, IsContainer
  <2> QED BY <1>6, <2>1 DEF ModifyStopOrder, NoDust, OrdersTradable, InFlight
<1>7. ASSUME NEW i \in Ids, NEW m \in Modifications, ModifyPosition(i, m) PROVE DustInv'
  <2> DEFINE sl == Effective(m.sl, positions[i].sl)
             tp == Effective(m.tp, positions[i].tp)
  <2>1. positions[i] \in Position /\ sl \in OptPrice /\ tp \in OptPrice
    BY <1>7, InputAssumption
       DEF ModifyPosition, TypeOK, IsContainer, Position, Effective, Modification
  <2>2. positions' = positions \/ positions' = [positions EXCEPT ![i] = WithLevels(@, sl, tp)]
    BY <1>7 DEF ModifyPosition
  <2>3. WithLevels(positions[i], sl, tp).lots = positions[i].lots
    BY <2>1, WithLevelsType
  <2>4. NoDust'
    <3> HIDE DEF sl, tp
    <3> QED BY <2>2, <2>3 DEF NoDust
  <2> QED BY <1>7, <2>4 DEF ModifyPosition, OrdersTradable, InFlight
<1> QED
  BY <1>1, <1>2, <1>3, <1>4, <1>5, <1>6, <1>7 DEF Algorithm

\* Resolving changes levels only.
LEMMA ResolveDust ==
  ASSUME TypeOK, DustInv, ResolvePendingOperations
  PROVE  DustInv'
<1>1. \A f : IsContainer(f, OpenRecord) /\ (\A i \in DOMAIN f : f[i].lots >= VolumeMin)
             => \A i \in DOMAIN Resolved(f) : Resolved(f)[i].lots >= VolumeMin
  BY LotsKept DEF IsContainer, Resolved
<1>2. OrdersTradable'
  BY <1>1 DEF DustInv, OrdersTradable, ResolvePendingOperations, TypeOK, InFlight
<1>3. \A i \in DOMAIN posMods \cap DOMAIN positions :
        WithLevels(positions[i], posMods[i].sl, posMods[i].tp).lots = positions[i].lots
  BY WithLevelsType DEF TypeOK, IsContainer, PositionMod
<1>4. NoDust'
  BY <1>3 DEF DustInv, NoDust, ResolvePendingOperations
<1> QED BY <1>2, <1>4 DEF DustInv

\* A partial close leaves at least volume_min: this is what Remainder is for.
LEMMA DrainDust ==
  ASSUME TypeOK, DustInv, FillResolvedOrders
  PROVE  DustInv'
<1>1. PICK stress \in SUBSET DueOpens :
        \E refused \in SUBSET ToFill(DueOpens \ stress) : FillArrivals(stress, refused)
  BY DEF FillResolvedOrders
<1>2. PICK refused \in SUBSET ToFill(DueOpens \ stress) : FillArrivals(stress, refused)
  BY <1>1
<1> DEFINE S == DueOpens \ stress
<1>3. \A i \in DueOpens : Arriving[i].lots >= VolumeMin
  BY DueFacts DEF DustInv, OrdersTradable, InFlight, DueOpens, DueEntries
<1>4. ToFill(S) \in SUBSET DueOpens /\ ToLimits(S) \in SUBSET DueOpens /\ ToStops(S) \in SUBSET DueOpens
  BY DueFacts
<1>5. \A i \in DOMAIN PositionsAfterCloses : PositionsAfterCloses[i].lots >= VolumeMin
  <2> SUFFICES ASSUME NEW i \in DOMAIN PositionsAfterCloses
               PROVE  PositionsAfterCloses[i].lots >= VolumeMin
    OBVIOUS
  <2>1. i \in DOMAIN positions /\ positions[i] \in Position /\ positions[i].lots >= VolumeMin
    BY DEF PositionsAfterCloses, DustInv, NoDust, TypeOK, IsContainer
  <2>2. CASE i \notin DueCloses
    BY <2>1, <2>2 DEF PositionsAfterCloses
  <2>3. CASE i \in DueCloses
    <3>1. pending[i].lots \in Nat \cup {Unset} /\ positions[i].lots \in Nat
      BY <2>1, <2>3, DueFacts DEF Position
    <3>2. Left(i) \in Nat /\ (Left(i) \in {0, positions[i].lots} \/ Left(i) >= VolumeMin)
      BY <3>1, RemainderType DEF Left
    <3>3. Left(i) > 0 /\ PositionsAfterCloses[i].lots = Left(i)
      BY <2>1, <2>3 DEF PositionsAfterCloses, Position
    <3> QED BY <2>1, <3>2, <3>3
  <2> QED BY <2>2, <2>3
<1>6. NoDust'
  <2>1. FillOpenOrders(Arriving, ToFill(S), refused, PositionsAfterCloses)
    BY <1>2 DEF FillArrivals
  <2> HIDE DEF S
  <2> QED BY <1>3, <1>4, <1>5, <2>1, FillsTradable
<1>7. OrdersTradable'
  <2>1. limits' = Accept(limits, Arriving, ToLimits(S)) /\ stops' = Accept(stops, Arriving, ToStops(S))
    BY <1>2 DEF FillArrivals
  <2> HIDE DEF S
  <2>2. \A i \in DOMAIN limits' : limits'[i].lots >= VolumeMin
    BY <1>3, <1>4, <2>1 DEF DustInv, OrdersTradable, Accept
  <2>3. \A i \in DOMAIN stops' : stops'[i].lots >= VolumeMin
    BY <1>3, <1>4, <2>1 DEF DustInv, OrdersTradable, Accept
  <2>4. \A i \in InFlight' : pending'[i].lots >= VolumeMin
    BY DEF FillResolvedOrders, DustInv, OrdersTradable, InFlight, Without
  <2> QED BY <2>2, <2>3, <2>4 DEF OrdersTradable
<1> QED BY <1>6, <1>7 DEF DustInv

\* Matching turns orders into positions of their size.
LEMMA MonitorDust ==
  ASSUME TypeOK, DustInv, MonitorLimits \/ MonitorStops
  PROVE  DustInv'
<1>1. \A f, T : (\A i \in T : f[i].lots >= VolumeMin) /\ Trigger(f, T) => NoDust'
  BY FillsTradable DEF Trigger, DustInv, NoDust
<1>2. CASE MonitorLimits
  <2> DEFINE reached == {i \in DOMAIN limits : LimitReached(limits[i], tick)}
  <2>1. /\ Trigger(limits, reached) /\ limits' = Without(limits, reached)
        /\ UNCHANGED <<pending, stops>>
    BY <1>2 DEF MonitorLimits
  <2>2. \A i \in reached : limits[i].lots >= VolumeMin
    BY DEF DustInv, OrdersTradable
  <2>3. NoDust'
    <3> HIDE DEF reached
    <3> QED BY <1>1, <2>1, <2>2
  <2>4. OrdersTradable'
    BY <2>1 DEF DustInv, OrdersTradable, Without, InFlight
  <2> QED BY <2>3, <2>4 DEF DustInv
<1>3. CASE MonitorStops
  <2> DEFINE reached == {i \in DOMAIN stops : StopReached(stops[i], tick)}
             arrived == [i \in reached |-> Arrived(stops[i])]
             fills == {i \in reached : Fillable(arrived[i])}
  <2>1. /\ Trigger(arrived, fills) /\ limits' = Accept(limits, arrived, reached \ fills)
        /\ stops' = Without(stops, reached) /\ UNCHANGED pending
    BY <1>3 DEF MonitorStops
  <2>2. \A i \in reached : arrived[i].lots >= VolumeMin
    <3>1. \A i \in DOMAIN stops : stops[i] \in OpenRecord /\ stops[i].lots >= VolumeMin
      BY DEF TypeOK, IsContainer, DustInv, OrdersTradable
    <3> QED BY <3>1, LotsKept
  <2>3. fills \subseteq reached
    OBVIOUS
  <2> HIDE DEF reached, arrived, fills
  <2>4. NoDust'
    BY <1>1, <2>1, <2>2, <2>3
  <2>5. OrdersTradable'
    BY <2>1, <2>2 DEF DustInv, OrdersTradable, Without, Accept, InFlight
  <2> QED BY <2>4, <2>5 DEF DustInv
<1> QED BY <1>2, <1>3

\* Every step keeps every size tradable.
LEMMA DustStep ==
  ASSUME TypeOK, DustInv, [Next]_vars
  PROVE  DustInv'
<1>1. CASE Algorithm
  BY <1>1, AlgorithmDust
<1>2. ASSUME NEW bid \in Bids, NEW msc \in 0..MaxMsc, OnTick(bid, msc) PROVE DustInv'
  BY <1>2 DEF OnTick, DustInv, NoDust, OrdersTradable, InFlight
<1>3. CASE Heartbeat
  BY <1>3 DEF Heartbeat, DustInv, NoDust, OrdersTradable, InFlight
<1>4. CASE CheckSlTpTriggers
  BY <1>4 DEF CheckSlTpTriggers, DustInv, NoDust, OrdersTradable, InFlight, Without
<1>5. CASE CloseAllRemainingOrders
  BY <1>5 DEF CloseAllRemainingOrders, DustInv, NoDust, OrdersTradable, InFlight, Empty
<1>6. CASE UNCHANGED vars
  BY <1>6 DEF vars, DustInv, NoDust, OrdersTradable, InFlight
<1> QED
  BY <1>1, <1>2, <1>3, <1>4, <1>5, <1>6, ResolveDust, DrainDust, MonitorDust
     DEF Next, Done, Processing

\* No sequence of fills and partial closes, whatever lots the algorithm asks
\* for, leaves a position smaller than volume_min: _fill_close_order closes
\* such a rest as well.
THEOREM NoDustEver == Spec => []NoDust
<1>1. Init => DustInv
  BY DEF Init, Empty, DustInv, NoDust, OrdersTradable, InFlight
<1>2. TypeOK /\ DustInv /\ [Next]_vars => DustInv'
  BY DustStep
<1>3. DustInv => NoDust
  BY DEF DustInv
<1> QED BY <1>1, <1>2, <1>3, TypeCorrect, PTL DEF Spec

-----------------------------------------------------------------------------
(* The settled book                                                         *)
(*                                                                          *)
(* BookSettled speaks of the states between ticks and of the matching       *)
(* phases; the invariant says what each phase has established for the next, *)
(* and that a heartbeat, which keeps the tick, finds nothing to resolve.    *)

\* No change asked for before the tick's millisecond still waits.
NoneDue(f) == \A i \in DOMAIN f : f[i].op = "NONE" \/ f[i].applyAt > tick.msc
NothingDue ==
  /\ NoneDue(limits) /\ NoneDue(stops)
  /\ \A i \in DOMAIN posMods : posMods[i].applyAt > tick.msc

\* No resting order is one the tick reaches.
LimitsClear == \A i \in DOMAIN limits : ~LimitReached(limits[i], tick)
StopsClear == \A i \in DOMAIN stops : ~StopReached(stops[i], tick)

\* A heartbeat is being processed: the clock has left the tick.
Beating == clock > tick.msc

SettleInv ==
  /\ clock >= tick.msc
  /\ \A i \in InFlight : pending[i].op = "NONE"
  /\ phase \in {"idle", "drain", "limits", "stops", "sltp"} \/ (phase = "ops" /\ Beating)
       => NothingDue
  /\ phase \in {"idle", "stops", "sltp"} \/ (phase \in {"ops", "drain"} /\ Beating)
       => LimitsClear
  /\ phase \in {"idle", "sltp"} \/ (phase \in {"ops", "drain"} /\ Beating)
       => StopsClear
  /\ phase \in {"limits", "stops", "sltp"} => clock = tick.msc
  /\ SlTpHonoured

\* The invariant is what BookSettled needs.
LEMMA SettleImplies == SettleInv => BookSettled
BY DEF SettleInv, BookSettled, NothingCrossedRests, OpsResolvedBeforeMatching, NothingDue, NoneDue,
       LimitsClear, StopsClear

\* Levels PortfolioManager._validate_sl_tp_levels accepts are not reached by
\* the tick they were checked against.
LEMMA ValidNotTriggered ==
  ASSUME NEW p \in Position, tick \in Tick,
         NEW sl \in OptPrice, NEW tp \in OptPrice,
         ~SlTriggered(p, tick), ~TpTriggered(p, tick)
  PROVE  LET q == WithLevels(p, sl, tp)
         IN ~SlTriggered(q, tick) /\ ~TpTriggered(q, tick)
BY SizeAssumption
   DEF WithLevels, LevelsValid, SlTriggered, TpTriggered, Position, Tick, OptPrice, None, Directions

\* Scheduling a change of a resting order leaves its price, and is not due.
LEMMA ScheduledNotDue ==
  ASSUME TypeOK, NEW f, IsContainer(f, OpenRecord), NoneDue(f),
         NEW i \in DOMAIN f, NEW g,
         \/ g = [f EXCEPT ![i] = Cancelling(@)]
         \/ \E m \in Modification : g = [f EXCEPT ![i] = Modifying(f[i], m)]
         \/ \E m \in Modification :
              g = [f EXCEPT ![i] = [Modifying(f[i], m) EXCEPT !.mod.limit = None]]
  PROVE  /\ \A j \in DOMAIN g : g[j].op = "NONE" \/ g[j].applyAt > tick.msc
         /\ DOMAIN g = DOMAIN f
         /\ \A j \in DOMAIN f : g[j].dir = f[j].dir /\ g[j].price = f[j].price
<1>1. ApplyAt > tick.msc
  BY DEF TypeOK, Tick, ApplyAt
<1>2. f[i] \in OpenRecord
  BY DEF IsContainer
<1>3. \A m \in Modification :
        LET o == Modifying(f[i], m)
            p == [Modifying(f[i], m) EXCEPT !.mod.limit = None]
        IN /\ o.applyAt = ApplyAt /\ o.dir = f[i].dir /\ o.price = f[i].price
           /\ p.applyAt = ApplyAt /\ p.dir = f[i].dir /\ p.price = f[i].price
  BY <1>2 DEF Modifying, OpenRecord
<1>4. LET o == Cancelling(f[i])
      IN o.applyAt = ApplyAt /\ o.dir = f[i].dir /\ o.price = f[i].price
  BY <1>2 DEF Cancelling, OpenRecord
<1>5. PICK x : /\ g = [f EXCEPT ![i] = x]
               /\ x.applyAt = ApplyAt /\ x.dir = f[i].dir /\ x.price = f[i].price
  BY <1>3, <1>4
<1> QED BY <1>1, <1>5 DEF NoneDue

\* The algorithm's calls leave the book settled.
LEMMA AlgorithmSettle ==
  ASSUME TypeOK, SettleInv, Algorithm
  PROVE  SettleInv'
<1> USE DEF SettleInv
<1>0. phase = "idle" /\ UNCHANGED <<tick, clock, phase>>
  BY ZenonT(60) DEF Algorithm, OpenOrder, ClosePosition, CancelLimitOrder, CancelStopOrder,
         ModifyLimitOrder, ModifyStopOrder, ModifyPosition
<1>1. ASSUME NEW r \in Requests, OpenOrder(r) PROVE SettleInv'
  <2>1. /\ UNCHANGED <<limits, stops, positions, posMods>>
        /\ \/ UNCHANGED pending
           \/ \E d \in Delays : pending' = Put(pending, sent + 1, NewOrder(r, tick.msc + d))
    BY <1>1 DEF OpenOrder
  <2>2. \A i \in InFlight' : pending'[i].op = "NONE"
    BY <2>1 DEF InFlight, Put, NewOrder
  <2> QED BY <1>0, <2>1, <2>2 DEF NothingDue, NoneDue, LimitsClear, StopsClear, SlTpHonoured, Beating
<1>2. ASSUME NEW i \in Ids, NEW lots \in CloseLots, ClosePosition(i, lots) PROVE SettleInv'
  <2>1. \A j \in InFlight' : pending'[j].op = "NONE"
    BY <1>2 DEF ClosePosition, InFlight, Put, NewClose
  <2> QED BY <1>0, <1>2, <2>1
     DEF ClosePosition, NothingDue, NoneDue, LimitsClear, StopsClear, SlTpHonoured, Beating
<1>3. ASSUME NEW i \in Ids, CancelLimitOrder(i) \/ \E m \in Modifications : ModifyLimitOrder(i, m)
      PROVE  SettleInv'
  <2>1. /\ i \in DOMAIN limits /\ UNCHANGED <<pending, stops, positions, posMods>>
        /\ \/ limits' = [limits EXCEPT ![i] = Cancelling(@)]
           \/ \E m \in Modification :
                limits' = [limits EXCEPT ![i] = [Modifying(limits[i], m) EXCEPT !.mod.limit = None]]
    BY <1>3, InputAssumption DEF CancelLimitOrder, ModifyLimitOrder
  <2>2. IsContainer(limits, OpenRecord) /\ NoneDue(limits)
    BY <1>0 DEF TypeOK, NothingDue
  <2>3. /\ \A j \in DOMAIN limits' : limits'[j].op = "NONE" \/ limits'[j].applyAt > tick.msc
        /\ DOMAIN limits' = DOMAIN limits
        /\ \A j \in DOMAIN limits : limits'[j].dir = limits[j].dir /\ limits'[j].price = limits[j].price
    BY <2>1, <2>2, ScheduledNotDue
  <2>4. LimitsClear'
    BY <1>0, <2>3 DEF LimitsClear, LimitReached
  <2> QED BY <1>0, <2>1, <2>3, <2>4
     DEF NothingDue, NoneDue, StopsClear, SlTpHonoured, Beating, InFlight
<1>4. ASSUME NEW i \in Ids, CancelStopOrder(i) \/ \E m \in Modifications : ModifyStopOrder(i, m)
      PROVE  SettleInv'
  <2>1. /\ i \in DOMAIN stops /\ UNCHANGED <<pending, limits, positions, posMods>>
        /\ \/ stops' = [stops EXCEPT ![i] = Cancelling(@)]
           \/ \E m \in Modification : stops' = [stops EXCEPT ![i] = Modifying(stops[i], m)]
    BY <1>4, InputAssumption DEF CancelStopOrder, ModifyStopOrder
  <2>2. IsContainer(stops, OpenRecord) /\ NoneDue(stops)
    BY <1>0 DEF TypeOK, NothingDue
  <2>3. /\ \A j \in DOMAIN stops' : stops'[j].op = "NONE" \/ stops'[j].applyAt > tick.msc
        /\ DOMAIN stops' = DOMAIN stops
        /\ \A j \in DOMAIN stops : stops'[j].dir = stops[j].dir /\ stops'[j].price = stops[j].price
    BY <2>1, <2>2, ScheduledNotDue
  <2>4. StopsClear'
    BY <1>0, <2>3 DEF StopsClear, StopReached
  <2> QED BY <1>0, <2>1, <2>3, <2>4
     DEF NothingDue, NoneDue, LimitsClear, SlTpHonoured, Beating, InFlight
<1>5. ASSUME NEW i \in Ids, NEW m \in Modifications, ModifyPosition(i, m) PROVE SettleInv'
  <2> DEFINE sl == Effective(m.sl, positions[i].sl)
             tp == Effective(m.tp, positions[i].tp)
  <2>1. positions[i] \in Position /\ sl \in OptPrice /\ tp \in OptPrice /\ i \in DOMAIN positions
    BY <1>5, InputAssumption
       DEF ModifyPosition, TypeOK, IsContainer, Position, Effective, Modification
  <2>2. /\ UNCHANGED <<pending, limits, stops>>
        /\ \/ /\ positions' = [positions EXCEPT ![i] = WithLevels(@, sl, tp)]
              /\ UNCHANGED posMods
           \/ /\ posMods' = Put(posMods, i, [sl |-> sl, tp |-> tp, applyAt |-> ApplyAt])
              /\ UNCHANGED positions
    BY <1>5 DEF ModifyPosition
  <2>3. SlTpHonoured'
    <3>1. \A p \in Position : ~SlTriggered(p, tick) /\ ~TpTriggered(p, tick) =>
             LET q == WithLevels(p, sl, tp)
             IN ~SlTriggered(q, tick) /\ ~TpTriggered(q, tick)
      BY <2>1, ValidNotTriggered DEF TypeOK
    <3> HIDE DEF sl, tp
    <3>2. DOMAIN positions' = DOMAIN positions
      BY <2>2
    <3>3. \A j \in DOMAIN positions : j # i => positions'[j] = positions[j]
      BY <2>2
    <3>4. positions'[i] = positions[i] \/ positions'[i] = WithLevels(positions[i], sl, tp)
      BY <2>1, <2>2
    <3> QED BY <1>0, <2>1, <3>1, <3>2, <3>3, <3>4 DEF SlTpHonoured
  <2>4. \A j \in DOMAIN posMods' : posMods'[j].applyAt > tick.msc
    <3>1. \A j \in DOMAIN posMods : posMods[j].applyAt > tick.msc
      BY <1>0 DEF NothingDue
    <3>2. ApplyAt > tick.msc
      BY DEF TypeOK, Tick, ApplyAt
    <3> HIDE DEF sl, tp
    <3> QED BY <2>2, <3>1, <3>2 DEF Put
  <2> QED BY <1>0, <2>2, <2>3, <2>4
     DEF NothingDue, NoneDue, LimitsClear, StopsClear, Beating, InFlight
<1> QED
  BY <1>1, <1>2, <1>3, <1>4, <1>5 DEF Algorithm

\* Time moves: a tick starts over, a heartbeat leaves the tick behind.
LEMMA TimeSettle ==
  ASSUME TypeOK, TypeOK', SettleInv,
         Heartbeat \/ \E bid \in Bids, msc \in 0..MaxMsc : OnTick(bid, msc)
  PROVE  SettleInv'
<1> USE DEF SettleInv
<1>1. CASE Heartbeat
  <2>1. HeartbeatMs > 0 /\ HeartbeatMs \in Nat
    BY <1>1, TimeAssumption DEF Heartbeat, HeartbeatsDue
  <2>3. clock \in Nat /\ tick.msc \in Nat /\ clock >= tick.msc
    BY DEF TypeOK, Tick
  <2>4. /\ phase = "idle" /\ phase' = "ops" /\ clock' = clock + HeartbeatMs
        /\ UNCHANGED <<tick, pending, limits, stops, positions, posMods>>
    BY <1>1 DEF Heartbeat
  <2>2. /\ phase = "idle" /\ phase' = "ops" /\ clock' > tick.msc
        /\ UNCHANGED <<tick, pending, limits, stops, positions, posMods>>
    BY <2>1, <2>3, <2>4
  <2> QED BY SMTT(30), <2>2 DEF NothingDue, NoneDue, LimitsClear, StopsClear, SlTpHonoured, Beating, InFlight,
                      TypeOK, Tick
<1>2. ASSUME NEW bid \in Bids, NEW msc \in 0..MaxMsc, OnTick(bid, msc) PROVE SettleInv'
  <2>1. phase' = "ops" /\ clock' = msc /\ tick'.msc = msc /\ UNCHANGED pending
    BY <1>2 DEF OnTick
  <2> QED BY <2>1 DEF SlTpHonoured, Beating, InFlight, TypeOK
<1> QED BY <1>1, <1>2

\* Phase 0 leaves nothing due; on a heartbeat it changes nothing.
LEMMA ResolveSettle ==
  ASSUME TypeOK, SettleInv, ResolvePendingOperations
  PROVE  SettleInv'
<1> USE DEF SettleInv
<1>1. /\ phase = "ops" /\ phase' = "drain" /\ UNCHANGED <<tick, clock, pending>>
      /\ limits' = Resolved(limits) /\ stops' = Resolved(stops)
      /\ posMods' = Without(posMods, {i \in DOMAIN posMods : Due(posMods[i])})
  BY DEF ResolvePendingOperations
<1>2. ASSUME NEW f, IsContainer(f, OpenRecord)
      PROVE  \A i \in DOMAIN Resolved(f) :
               Resolved(f)[i].op = "NONE" \/ Resolved(f)[i].applyAt > tick.msc
  <2> SUFFICES ASSUME NEW i \in DOMAIN Resolved(f)
               PROVE  Resolved(f)[i].op = "NONE" \/ Resolved(f)[i].applyAt > tick.msc
    OBVIOUS
  <2>1. i \in DOMAIN f /\ ~(f[i].op = "PENDING_CANCEL" /\ Due(f[i]))
    BY DEF Resolved, CancelDue
  <2>2. f[i] \in OpenRecord
    BY <2>1, <1>2 DEF IsContainer
  <2>3. CASE f[i].op = "PENDING_MODIFY" /\ Due(f[i])
    <3>1. Resolved(f)[i] = Modified(f[i])
      BY <2>3 DEF Resolved
    <3> QED BY <2>2, <3>1 DEF Modified, OpenRecord
  <2>4. CASE ~(f[i].op = "PENDING_MODIFY" /\ Due(f[i]))
    <3>1. Resolved(f)[i] = f[i]
      BY <2>4 DEF Resolved
    <3>2. f[i].op \in Operations /\ f[i].applyAt \in Nat /\ tick.msc \in Nat
      BY <2>2 DEF OpenRecord, TypeOK, Tick
    <3> QED BY <2>1, <2>4, <3>1, <3>2 DEF Due, Operations
  <2> QED BY <2>3, <2>4
<1>3. NothingDue'
  <2>1. NoneDue(limits)' /\ NoneDue(stops)'
    BY <1>1, <1>2 DEF NoneDue, TypeOK
  <2>2. \A i \in DOMAIN posMods : posMods[i].applyAt \in Nat /\ tick.msc \in Nat
    BY DEF TypeOK, IsContainer, PositionMod, Tick
  <2>3. \A i \in DOMAIN posMods' : posMods'[i].applyAt > tick'.msc
    BY <1>1, <2>2 DEF Without, Due
  <2> QED BY <2>1, <2>3 DEF NothingDue
<1>4. ASSUME NEW f, IsContainer(f, OpenRecord), NoneDue(f) PROVE Resolved(f) = f
  <2>1. \A i \in DOMAIN f : f[i].op = "NONE" \/ ~Due(f[i])
    <3>1. \A i \in DOMAIN f : f[i].applyAt \in Nat /\ tick.msc \in Nat
      BY <1>4 DEF IsContainer, OpenRecord, TypeOK, Tick
    <3> QED BY <1>4, <3>1 DEF NoneDue, Due
  <2>2. CancelDue(f) = {}
    BY <2>1 DEF CancelDue
  <2>3. Resolved(f) = [i \in DOMAIN f |-> f[i]]
    BY <2>1, <2>2 DEF Resolved
  <2>4. f = [i \in DOMAIN f |-> f[i]]
    BY <1>4 DEF IsContainer
  <2> QED BY <2>3, <2>4
<1>5. Beating => limits' = limits /\ stops' = stops
  BY <1>1, <1>4 DEF NothingDue, TypeOK
<1>6. Beating => LimitsClear' /\ StopsClear'
  BY <1>1, <1>5 DEF LimitsClear, StopsClear
<1> QED BY <1>1, <1>3, <1>6 DEF SlTpHonoured, Beating, InFlight

\* What arrives and does not fill at once is not one the tick reaches.
LEMMA ArrivalsClear ==
  ASSUME TypeOK, NEW S \in SUBSET DueOpens
  PROVE  /\ \A i \in ToLimits(S) : ~LimitReached(Arriving[i], tick)
         /\ \A i \in ToStops(S) : ~StopReached(Arriving[i], tick)
<1>1. \A i \in S : /\ pending[i] \in OpenRecord /\ Arriving[i] = Arrived(pending[i])
                   /\ Arriving[i] \in OpenRecord
  BY DueFacts DEF Arriving
<1>2. \A i \in ToLimits(S) : Arriving[i].type = "LIMIT" /\ ~Fillable(Arriving[i])
  BY <1>1 DEF ToLimits, ToStops, ToFill, Fillable, OpenRecord, OrderTypes
<1>3. \A i \in ToStops(S) : /\ Arriving[i].type \in {"STOP", "STOP_LIMIT"}
                            /\ ~Fillable(Arriving[i]) /\ i \in S
  BY DEF ToStops, ToFill
<1>4. ASSUME NEW i \in ToStops(S), StopReached(Arriving[i], tick) PROVE FALSE
  <2>1. CASE Arriving[i].type = "STOP"
    BY <1>3, <1>4, <2>1 DEF Fillable
  <2>2. CASE Arriving[i].type = "STOP_LIMIT"
    <3>1. \A o \in OpenRecord : \/ Arrived(o).type = "LIMIT"
                                \/ Arrived(o) = o /\ (o.type = "STOP_LIMIT" => ~StopTriggered(o))
      BY DEF Arrived, Converted, OpenRecord
    <3>2. Arriving[i] = pending[i] /\ ~StopTriggered(pending[i])
      BY <1>1, <1>3, <2>2, <3>1
    <3> QED BY <1>4, <2>2, <3>2 DEF StopTriggered
  <2> QED BY <1>3, <2>1, <2>2
<1> QED BY <1>2, <1>4 DEF Fillable

\* Phase 1 puts only unreached orders into the book of a heartbeat, and
\* nothing that waits for a change.
LEMMA DrainSettle ==
  ASSUME TypeOK, SettleInv, FillResolvedOrders
  PROVE  SettleInv'
<1> USE DEF SettleInv
<1>1. PICK stress \in SUBSET DueOpens :
        \E refused \in SUBSET ToFill(DueOpens \ stress) : FillArrivals(stress, refused)
  BY DEF FillResolvedOrders
<1>2. PICK refused \in SUBSET ToFill(DueOpens \ stress) : FillArrivals(stress, refused)
  BY <1>1
<1> DEFINE S == DueOpens \ stress
<1>3. /\ phase = "drain" /\ UNCHANGED <<tick, clock, posMods>>
      /\ phase' = IF clock = tick.msc THEN "limits" ELSE "idle"
      /\ pending' = Without(pending, DueEntries)
  BY DEF FillResolvedOrders
<1>4. limits' = Accept(limits, Arriving, ToLimits(S)) /\ stops' = Accept(stops, Arriving, ToStops(S))
  BY <1>2 DEF FillArrivals
<1>5. ToLimits(S) \in SUBSET DueOpens /\ ToStops(S) \in SUBSET DueOpens
  BY DueFacts
<1>6. \A i \in DueOpens : Arriving[i].op = "NONE"
  <2>1. \A o \in OpenRecord : Arrived(o).op = o.op
    BY DEF Arrived, Converted, OpenRecord
  <2>2. \A i \in DueOpens : pending[i] \in OpenRecord /\ pending[i].op = "NONE"
    BY DueFacts DEF DueOpens, DueEntries, InFlight
  <2> QED BY <2>1, <2>2 DEF Arriving
<1>7. /\ \A i \in ToLimits(S) : ~LimitReached(Arriving[i], tick)
      /\ \A i \in ToStops(S) : ~StopReached(Arriving[i], tick)
  BY ArrivalsClear
<1> HIDE DEF S
<1>8. NothingDue'
  <2>1. NothingDue
    BY <1>3
  <2> QED BY <1>3, <1>4, <1>5, <1>6, <2>1 DEF NothingDue, NoneDue, Accept
<1>9. \A i \in InFlight' : pending'[i].op = "NONE"
  BY <1>3 DEF InFlight, Without
<1>10. Beating => LimitsClear' /\ StopsClear'
  BY <1>3, <1>4, <1>7 DEF LimitsClear, StopsClear, Accept
<1>11. clock = tick.msc \/ Beating
  BY DEF Beating, TypeOK, Tick
<1> QED BY <1>3, <1>8, <1>9, <1>10, <1>11 DEF SlTpHonoured, Beating, TypeOK, Tick

\* Phases 2 and 3 leave nothing in the book that the tick reaches.
LEMMA MonitorSettle ==
  ASSUME TypeOK, SettleInv, MonitorLimits \/ MonitorStops
  PROVE  SettleInv'
<1> USE DEF SettleInv
<1>1. CASE MonitorLimits
  <2> DEFINE reached == {i \in DOMAIN limits : LimitReached(limits[i], tick)}
  <2>1. /\ phase = "limits" /\ phase' = "stops" /\ limits' = Without(limits, reached)
        /\ UNCHANGED <<tick, clock, pending, stops, posMods>>
    BY <1>1 DEF MonitorLimits
  <2>2. LimitsClear'
    BY <2>1 DEF LimitsClear, Without
  <2>3. NothingDue'
    BY <2>1 DEF NothingDue, NoneDue, Without
  <2> QED BY <2>1, <2>2, <2>3 DEF SlTpHonoured, Beating, InFlight, TypeOK, Tick
<1>2. CASE MonitorStops
  <2> DEFINE reached == {i \in DOMAIN stops : StopReached(stops[i], tick)}
             arrived == [i \in reached |-> Arrived(stops[i])]
             fills == {i \in reached : Fillable(arrived[i])}
  <2>1. /\ phase = "stops" /\ phase' = "sltp"
        /\ limits' = Accept(limits, arrived, reached \ fills)
        /\ stops' = Without(stops, reached)
        /\ UNCHANGED <<tick, clock, pending, posMods>>
    BY <1>2 DEF MonitorStops
  <2>2. NothingDue /\ LimitsClear
    BY <2>1
  <2>3. StopsClear'
    BY <2>1 DEF StopsClear, Without
  <2>4. \A i \in reached \ fills :
          /\ ~LimitReached(arrived[i], tick)
          /\ arrived[i].op = "NONE" \/ arrived[i].applyAt > tick.msc
    <3> SUFFICES ASSUME NEW i \in reached \ fills
                 PROVE  /\ ~LimitReached(arrived[i], tick)
                        /\ arrived[i].op = "NONE" \/ arrived[i].applyAt > tick.msc
      OBVIOUS
    <3>1. /\ stops[i] \in OpenRecord /\ StopReached(stops[i], tick)
          /\ arrived[i] = Arrived(stops[i]) /\ ~Fillable(Arrived(stops[i]))
          /\ stops[i].op = "NONE" \/ stops[i].applyAt > tick.msc
      BY <2>2 DEF TypeOK, IsContainer, NothingDue, NoneDue
    <3> HIDE DEF arrived, reached, fills
    <3>2. Arrived(stops[i]).op = stops[i].op /\ Arrived(stops[i]).applyAt = stops[i].applyAt
      BY <3>1 DEF Arrived, Converted, OpenRecord
    <3>3. Arrived(stops[i]).type = "LIMIT"
      BY <3>1 DEF Arrived, Converted, OpenRecord, OrderTypes, Fillable, StopTriggered
    <3> QED BY <3>1, <3>2, <3>3 DEF Fillable
  <2> HIDE DEF reached, arrived, fills
  <2>5. LimitsClear'
    BY <2>1, <2>2, <2>4 DEF LimitsClear, Accept
  <2>6. NothingDue'
    BY <2>1, <2>2, <2>4 DEF NothingDue, NoneDue, Accept, Without
  <2> QED BY <2>1, <2>3, <2>5, <2>6 DEF SlTpHonoured, Beating, InFlight, TypeOK, Tick
<1> QED BY <1>1, <1>2

\* The last phase closes every position whose level the tick reaches.
LEMMA SlTpSettle ==
  ASSUME TypeOK, SettleInv, CheckSlTpTriggers
  PROVE  SettleInv'
<1> USE DEF SettleInv
<1>1. /\ phase = "sltp" /\ phase' = "idle" /\ positions' = Without(positions, SlTpHits)
      /\ UNCHANGED <<tick, clock, pending, limits, stops, posMods>>
  BY DEF CheckSlTpTriggers
<1>2. SlTpHonoured'
  BY <1>1 DEF SlTpHonoured, Without, SlTpHits
<1> QED BY <1>1, <1>2 DEF NothingDue, NoneDue, LimitsClear, StopsClear, Beating, InFlight

\* Every step keeps the invariant.
LEMMA SettleStep ==
  ASSUME TypeOK, TypeOK', SettleInv, [Next]_vars
  PROVE  SettleInv'
<1>1. CASE CloseAllRemainingOrders
  <2>1. phase' = "ended" /\ UNCHANGED <<tick, clock>> /\ pending' = Empty
    BY <1>1 DEF CloseAllRemainingOrders
  <2> QED BY <2>1 DEF SettleInv, SlTpHonoured, InFlight, Empty
<1>2. CASE UNCHANGED vars
  BY <1>2 DEF vars, SettleInv, NothingDue, NoneDue, LimitsClear, StopsClear, SlTpHonoured, Beating,
              InFlight
<1> QED
  BY <1>1, <1>2, AlgorithmSettle, TimeSettle, ResolveSettle, DrainSettle, MonitorSettle, SlTpSettle
     DEF Next, Done, Processing

\* Whatever latencies, modifications, conversions and heartbeats come
\* together, the simulator leaves after every tick no resting order and no
\* position that the tick's prices reach, and matches against levels and
\* prices in which every earlier change is in force.
THEOREM BookAlwaysSettled == Spec => []BookSettled
<1>1. Init => SettleInv
  <2> SUFFICES ASSUME Init PROVE SettleInv
    OBVIOUS
  <2>1. /\ DOMAIN pending = {} /\ DOMAIN limits = {} /\ DOMAIN stops = {}
        /\ DOMAIN positions = {} /\ DOMAIN posMods = {} /\ clock = 0 /\ tick.msc = 0
        /\ phase = "idle"
    BY DEF Init, Empty
  <2> QED BY <2>1 DEF SettleInv, NothingDue, NoneDue, LimitsClear, StopsClear, SlTpHonoured, InFlight
<1>2. TypeOK /\ TypeOK' /\ SettleInv /\ [Next]_vars => SettleInv'
  BY SettleStep
<1>3. SettleInv => BookSettled
  BY SettleImplies
<1> QED BY <1>1, <1>2, <1>3, TypeCorrect, PTL DEF Spec

-----------------------------------------------------------------------------
(* The execution statistics                                                 *)
(*                                                                          *)
(* With one outcome per order, the orders that reported an outcome are the  *)
(* ones whose sequence of outcomes is that outcome, which is what the steps *)
(* are easily followed on.                                                  *)

\* The orders decided with outcome o.
DecidedAs(o) == {i \in Ids : results[i] = <<o>>}

\* The counters, by the orders they count.
Tally ==
  /\ executed = Cardinality(DecidedAs("EXECUTED"))
  /\ rejected = Cardinality(DecidedAs("REJECTED"))
  /\ phase # "ended" =>
       sent = Cardinality(InFlight \cup Working) + executed + rejected
                 + Cardinality(DecidedAs("CANCELLED"))

\* An order has reported an outcome if and only if it is decided with it.
LEMMA TallyCounts == TypeOK /\ OneOutcome => (Tally <=> CountersAgree)
<1> SUFFICES ASSUME TypeOK, OneOutcome PROVE Tally <=> CountersAgree
  OBVIOUS
<1>1. ASSUME NEW o, NEW i \in Ids
      PROVE  (\E k \in DOMAIN results[i] : results[i][k] = o) <=> results[i] = <<o>>
  <2>1. results[i] \in Seq(Outcomes) /\ (results[i] = <<>> \/ Len(results[i]) = 1)
    BY DEF TypeOK, OneOutcome
  <2> QED BY <2>1
<1>2. \A o : {i \in Ids : \E k \in DOMAIN results[i] : results[i][k] = o} = DecidedAs(o)
  BY <1>1 DEF DecidedAs
<1> QED BY <1>2 DEF Tally, CountersAgree

\* Two sets of orders without a common one count separately.
LEMMA CountApart ==
  ASSUME NEW S \in SUBSET Ids, NEW T \in SUBSET Ids, S \cap T = {}
  PROVE  /\ Cardinality(S \cup T) = Cardinality(S) + Cardinality(T)
         /\ Cardinality(S) \in Nat /\ Cardinality(T) \in Nat
<1>1. IsFiniteSet(Ids)
  BY FS_Interval, SizeAssumption DEF Ids
<1>2. IsFiniteSet(S) /\ IsFiniteSet(T)
  BY <1>1, FS_Subset
<1>3. Cardinality(S \cap T) = 0
  BY FS_EmptySet
<1>4. Cardinality(S) \in Nat /\ Cardinality(T) \in Nat
  BY CountIds
<1>5. Cardinality(S \cup T) = Cardinality(S) + Cardinality(T) - Cardinality(S \cap T)
  BY <1>2, FS_Union
<1>6. Cardinality(S \cup T) = Cardinality(S) + Cardinality(T) - 0
  BY <1>3, <1>5
<1> QED BY <1>4, <1>6

\* What a deciding step does to the orders decided with each outcome.
LEMMA DecidedAfter ==
  ASSUME TypeOK, OrderInv, NEW filled, NEW refused, NEW outcome \in Outcomes \ {"EXECUTED"},
         Deciding(filled, refused, outcome)
  PROVE  /\ DecidedAs("EXECUTED")' = DecidedAs("EXECUTED") \cup filled
         /\ DecidedAs(outcome)' = DecidedAs(outcome) \cup refused
         /\ \A o \in Outcomes \ {"EXECUTED", outcome} : DecidedAs(o)' = DecidedAs(o)
         /\ \A o : (filled \cup refused) \cap DecidedAs(o) = {}
         /\ filled \in SUBSET Ids /\ refused \in SUBSET Ids
<1>1. /\ filled \subseteq Ids /\ refused \subseteq Ids /\ filled \cap refused = {}
      /\ \A i \in filled \cup refused : results[i] = <<>>
  <2>1. InFlight \cup Working \subseteq Ids
    BY DEF InFlight, Working, TypeOK, IsContainer
  <2> QED BY <2>1 DEF Deciding, OrderInv, OneOutcome
<1>2. /\ \A i \in filled : results'[i] = <<"EXECUTED">>
      /\ \A i \in refused : results'[i] = <<outcome>>
      /\ \A i \in Ids \ (filled \cup refused) : results'[i] = results[i]
  <2>1. /\ \A i \in filled : results'[i] = Append(<<>>, "EXECUTED")
        /\ \A i \in refused : results'[i] = Append(<<>>, outcome)
        /\ \A i \in Ids \ (filled \cup refused) : results'[i] = results[i]
    BY <1>1 DEF Deciding
  <2> QED BY <2>1, FirstOutcome DEF Outcomes
<1>3. \A o : <<o>> # <<>>
  OBVIOUS
<1>4. \A o, p : <<o>> = <<p>> => o = p
  OBVIOUS
<1> QED BY <1>1, <1>2, <1>3, <1>4 DEF DecidedAs

\* Filling and refusing orders keeps the tally.
LEMMA DecidingTally ==
  ASSUME TypeOK, TypeOK', OrderInv, Tally, NEW filled, NEW refused,
         Deciding(filled, refused, "REJECTED"),
         executed' = executed + Cardinality(filled),
         rejected' = rejected + Cardinality(refused)
  PROVE  Tally'
<1> DEFINE live == InFlight \cup Working
           left == live \ (filled \cup refused)
<1>1. /\ DecidedAs("EXECUTED")' = DecidedAs("EXECUTED") \cup filled
      /\ DecidedAs("REJECTED")' = DecidedAs("REJECTED") \cup refused
      /\ DecidedAs("CANCELLED")' = DecidedAs("CANCELLED")
      /\ \A o : (filled \cup refused) \cap DecidedAs(o) = {}
      /\ filled \in SUBSET Ids /\ refused \in SUBSET Ids
  BY DecidedAfter DEF Outcomes
<1>2. \A o : DecidedAs(o) \in SUBSET Ids
  BY DEF DecidedAs
<1>3. /\ executed' = Cardinality(DecidedAs("EXECUTED")')
      /\ rejected' = Cardinality(DecidedAs("REJECTED")')
  BY ZenonT(60), <1>1, <1>2, CountApart DEF Tally
<1>4. /\ phase # "ended" /\ phase' # "ended" /\ sent' = sent
      /\ (InFlight \cup Working)' = left
      /\ live \in SUBSET Ids /\ filled \cup refused \subseteq live /\ filled \cap refused = {}
  BY DEF Deciding, InFlight, Working, TypeOK, IsContainer
<1>5. /\ left \in SUBSET Ids /\ filled \cup refused \in SUBSET Ids
      /\ left \cap (filled \cup refused) = {} /\ live = left \cup (filled \cup refused)
  BY <1>4
<1>6. /\ Cardinality(live) = Cardinality(left) + Cardinality(filled) + Cardinality(refused)
      /\ Cardinality(left) \in Nat /\ Cardinality(filled) \in Nat /\ Cardinality(refused) \in Nat
  <2> HIDE DEF live, left
  <2>1. Cardinality(filled \cup refused) = Cardinality(filled) + Cardinality(refused)
    BY <1>1, <1>4, CountApart
  <2>2. Cardinality(live) = Cardinality(left) + Cardinality(filled \cup refused)
    BY <1>5, CountApart
  <2> QED BY <1>1, <1>5, <2>1, <2>2, CountIds
<1>7. Cardinality(DecidedAs("CANCELLED")) \in Nat
  BY <1>2, CountIds
<1>8. sent = Cardinality(live) + executed + rejected + Cardinality(DecidedAs("CANCELLED"))
  BY <1>4 DEF Tally
<1>9. executed \in Nat /\ rejected \in Nat
  BY DEF TypeOK
<1>10. sent' = Cardinality(left) + executed' + rejected' + Cardinality(DecidedAs("CANCELLED"))
  <2> HIDE DEF live, left
  <2> QED BY <1>4, <1>6, <1>7, <1>8, <1>9
<1> QED BY <1>1, <1>3, <1>4, <1>10 DEF Tally

\* So does cancelling them.
LEMMA ResolveTally ==
  ASSUME TypeOK, TypeOK', OrderInv, Tally, ResolvePendingOperations
  PROVE  Tally'
<1>1. PICK gone : Deciding({}, gone, "CANCELLED")
  BY ResolveDecides
<1> DEFINE live == InFlight \cup Working
           left == live \ gone
<1>2. /\ DecidedAs("EXECUTED")' = DecidedAs("EXECUTED")
      /\ DecidedAs("REJECTED")' = DecidedAs("REJECTED")
      /\ DecidedAs("CANCELLED")' = DecidedAs("CANCELLED") \cup gone
      /\ gone \cap DecidedAs("CANCELLED") = {} /\ gone \in SUBSET Ids
  BY <1>1, DecidedAfter DEF Outcomes
<1>3. \A o : DecidedAs(o) \in SUBSET Ids
  BY DEF DecidedAs
<1>4. /\ phase # "ended" /\ phase' # "ended" /\ sent' = sent
      /\ (InFlight \cup Working)' = left
      /\ live \in SUBSET Ids /\ gone \subseteq live
      /\ executed' = executed /\ rejected' = rejected
  BY <1>1 DEF Deciding, InFlight, Working, TypeOK, IsContainer, ResolvePendingOperations, counters
<1>5. left \in SUBSET Ids /\ left \cap gone = {} /\ live = left \cup gone
  BY <1>4
<1>6. /\ Cardinality(live) = Cardinality(left) + Cardinality(gone)
      /\ Cardinality(left) \in Nat /\ Cardinality(gone) \in Nat
  <2> HIDE DEF live, left
  <2> QED BY <1>2, <1>5, CountApart
<1>7. /\ Cardinality(DecidedAs("CANCELLED")')
           = Cardinality(DecidedAs("CANCELLED")) + Cardinality(gone)
      /\ Cardinality(DecidedAs("CANCELLED")) \in Nat
  BY <1>2, <1>3, CountApart
<1>8. sent = Cardinality(live) + executed + rejected + Cardinality(DecidedAs("CANCELLED"))
  BY <1>4 DEF Tally
<1>9. executed \in Nat /\ rejected \in Nat
  BY DEF TypeOK
<1>10. sent' = Cardinality(left) + executed' + rejected' + Cardinality(DecidedAs("CANCELLED")')
  <2> HIDE DEF live, left
  <2> QED BY <1>4, <1>6, <1>7, <1>8, <1>9
<1> QED BY <1>2, <1>4, <1>10 DEF Tally

\* A new order is counted as sent and as in flight, or as rejected.
LEMMA OpenOrderTally ==
  ASSUME TypeOK, TypeOK', OrderInv, Tally, NEW r \in Requests, OpenOrder(r)
  PROVE  Tally'
<1> DEFINE id == sent + 1
           live == InFlight \cup Working
<1>1. /\ id \in Ids /\ id \notin Sent /\ phase # "ended" /\ phase' # "ended"
      /\ sent' = sent + 1 /\ executed' = executed /\ Working' = Working
  BY DEF OpenOrder, Sent, TypeOK, Working
<1>2. id \notin DOMAIN pending \cup Working /\ results[id] = <<>>
  BY <1>1 DEF OrderInv, Fresh
<1>3. live \in SUBSET Ids /\ {id} \in SUBSET Ids
  BY <1>1 DEF InFlight, Working, TypeOK, IsContainer
<1>4. Cardinality({id}) = 1
  BY FS_Singleton
<1>5. \A o : DecidedAs(o) \in SUBSET Ids
  BY DEF DecidedAs
<1>6. /\ sent = Cardinality(live) + executed + rejected + Cardinality(DecidedAs("CANCELLED"))
      /\ sent \in Nat /\ executed \in Nat /\ rejected \in Nat
      /\ Cardinality(live) \in Nat /\ Cardinality(DecidedAs("CANCELLED")) \in Nat
  <2>1. Cardinality(live) \in Nat
    BY <1>3, CountIds
  <2>2. Cardinality(DecidedAs("CANCELLED")) \in Nat
    BY <1>5, CountIds
  <2>3. sent \in Nat /\ executed \in Nat /\ rejected \in Nat
    BY DEF TypeOK
  <2> QED BY <1>1, <2>1, <2>2, <2>3 DEF Tally
<1>7. CASE RequestValid(r)
  <2>1. PICK d \in Delays : pending' = Put(pending, id, NewOrder(r, tick.msc + d))
    BY <1>7 DEF OpenOrder
  <2>2. /\ (InFlight \cup Working)' = live \cup {id} /\ live \cap {id} = {}
        /\ results' = results /\ rejected' = rejected
    BY <1>1, <1>2, <1>7, <2>1 DEF InFlight, Put, NewOrder, OpenOrder
  <2>3. Cardinality(live \cup {id}) = Cardinality(live) + 1
    <3> HIDE DEF live, id
    <3> QED BY <1>3, <1>4, <2>2, CountApart
  <2>4. \A o : DecidedAs(o)' = DecidedAs(o)
    BY <2>2 DEF DecidedAs
  <2>5. sent' = Cardinality(live \cup {id}) + executed' + rejected'
                  + Cardinality(DecidedAs("CANCELLED"))
    <3> HIDE DEF live, id
    <3> QED BY <1>1, <1>6, <2>2, <2>3
  <2> QED BY <1>1, <2>2, <2>4, <2>5 DEF Tally
<1>8. CASE ~RequestValid(r)
  <2>1. /\ pending' = pending /\ InFlight' = InFlight /\ rejected' = rejected + 1
        /\ results' = Report({id}, "REJECTED")
    BY <1>8 DEF OpenOrder, InFlight
  <2>2. results'[id] = <<"REJECTED">> /\ \A i \in Ids \ {id} : results'[i] = results[i]
    <3>1. results'[id] = Append(<<>>, "REJECTED")
      BY <1>1, <1>2, <2>1 DEF Report
    <3>2. \A i \in Ids \ {id} : results'[i] = results[i]
      BY <2>1 DEF Report
    <3> QED BY <3>1, <3>2, FirstOutcome DEF Outcomes
  <2>3. /\ DecidedAs("REJECTED")' = DecidedAs("REJECTED") \cup {id}
        /\ DecidedAs("REJECTED") \cap {id} = {}
        /\ DecidedAs("EXECUTED")' = DecidedAs("EXECUTED")
        /\ DecidedAs("CANCELLED")' = DecidedAs("CANCELLED")
    <3>1. \A o, p : <<o>> = <<p>> => o = p
      OBVIOUS
    <3>2. \A o : <<o>> # <<>>
      OBVIOUS
    <3> HIDE DEF id
    <3> QED BY <1>1, <1>2, <2>2, <3>1, <3>2 DEF DecidedAs
  <2>4. rejected' = Cardinality(DecidedAs("REJECTED")')
    BY ZenonT(60), <1>3, <1>4, <1>5, <2>1, <2>3, CountApart DEF Tally
  <2>5. sent' = Cardinality(live) + executed' + rejected' + Cardinality(DecidedAs("CANCELLED"))
    <3> HIDE DEF live, id
    <3> QED BY <1>1, <1>6, <2>1
  <2> QED BY <1>1, <2>1, <2>3, <2>4, <2>5 DEF Tally
<1> QED BY <1>7, <1>8

\* A step that leaves outcomes, containers and counters alone.
LEMMA UncountedTally ==
  ASSUME Tally, phase # "ended", phase' # "ended",
         InFlight' = InFlight, Working' = Working,
         UNCHANGED <<results, sent, executed, rejected>>
  PROVE  Tally'
<1>1. \A o : DecidedAs(o)' = DecidedAs(o)
  BY DEF DecidedAs
<1> QED BY <1>1 DEF Tally

\* Every step keeps the tally.
LEMMA TallyStep ==
  ASSUME TypeOK, TypeOK', OrderInv, Tally, [Next]_vars
  PROVE  Tally'
<1>1. ASSUME NEW r \in Requests, OpenOrder(r) PROVE Tally'
  BY <1>1, OpenOrderTally
<1>2. ASSUME NEW i \in Ids, NEW lots \in CloseLots, ClosePosition(i, lots) PROVE Tally'
  <2>1. PICK d \in Delays : pending' = Put(pending, i, NewClose(lots, tick.msc + d))
    BY <1>2 DEF ClosePosition
  <2>2. i \notin InFlight
    BY <1>2 DEF ClosePosition, OrderInv, OneOutcome
  <2>3. InFlight' = InFlight
    BY <2>1, <2>2 DEF InFlight, Put, NewClose
  <2> QED BY <1>2, <2>3, UncountedTally DEF ClosePosition, counters, Working
<1>3. ASSUME NEW i \in Ids, CancelLimitOrder(i) \/ CancelStopOrder(i) PROVE Tally'
  BY <1>3, UncountedTally DEF CancelLimitOrder, CancelStopOrder, InFlight, Working, counters
<1>4. ASSUME NEW i \in Ids, NEW m \in Modifications,
             ModifyLimitOrder(i, m) \/ ModifyStopOrder(i, m) \/ ModifyPosition(i, m)
      PROVE  Tally'
  BY <1>4, UncountedTally
     DEF ModifyLimitOrder, ModifyStopOrder, ModifyPosition, InFlight, Working, counters
<1>5. ASSUME NEW bid \in Bids, NEW msc \in 0..MaxMsc, OnTick(bid, msc) PROVE Tally'
  BY <1>5, UncountedTally DEF OnTick, InFlight, Working, counters
<1>6. CASE Heartbeat
  BY <1>6, UncountedTally DEF Heartbeat, InFlight, Working, counters
<1>7. CASE ResolvePendingOperations
  BY <1>7, ResolveTally
<1>8. CASE FillResolvedOrders \/ MonitorLimits \/ MonitorStops
  BY <1>8, DrainDecides, MonitorDecides, DecidingTally
<1>9. CASE CheckSlTpTriggers
  BY <1>9, UncountedTally DEF CheckSlTpTriggers, InFlight, Working
<1>10. CASE CloseAllRemainingOrders
  <2>1. results' = [i \in Ids |-> CASE i \in Working -> Append(results[i], "EXPIRED")
                                    [] i \in InFlight -> Append(results[i], "FORCE_CLOSED")
                                    [] OTHER -> results[i]]
    BY <1>10 DEF CloseAllRemainingOrders, Expiring, Working, InFlight
  <2>2. \A i \in (InFlight \cup Working) \cap Ids :
          results[i] = <<>> /\ results'[i] \in {<<"EXPIRED">>, <<"FORCE_CLOSED">>}
    <3>1. \A i \in InFlight \cup Working : results[i] = <<>>
      BY <1>10 DEF CloseAllRemainingOrders, OrderInv, OneOutcome
    <3>2. \A i \in (InFlight \cup Working) \cap Ids :
            results'[i] \in {Append(<<>>, "EXPIRED"), Append(<<>>, "FORCE_CLOSED")}
      BY <2>1, <3>1
    <3> QED BY <3>1, <3>2, FirstOutcome DEF Outcomes
  <2>3. \A i \in Ids \ (InFlight \cup Working) : results'[i] = results[i]
    BY <2>1
  <2>4. \A o \in {"EXECUTED", "REJECTED"} : DecidedAs(o)' = DecidedAs(o)
    <3>1. \A o, p : <<o>> = <<p>> => o = p
      OBVIOUS
    <3>2. \A o : <<o>> # <<>>
      OBVIOUS
    <3> QED BY <2>2, <2>3, <3>1, <3>2 DEF DecidedAs
  <2> QED BY <1>10, <2>4 DEF Tally, CloseAllRemainingOrders, counters
<1>11. CASE UNCHANGED vars
  <2>1. \A o : DecidedAs(o)' = DecidedAs(o)
    BY <1>11 DEF vars, DecidedAs
  <2> QED BY <1>11, <2>1 DEF vars, counters, Tally, InFlight, Working
<1> QED
  BY <1>1, <1>2, <1>3, <1>4, <1>5, <1>6, <1>7, <1>8, <1>9, <1>10, <1>11
     DEF Next, Algorithm, Processing, Done

\* The execution statistics of a scenario agree with what was reported about
\* its orders at every moment: each order sent is in flight, working, or
\* counted under exactly one of its outcomes.
THEOREM StatisticsAgree == Spec => []CountersAgree
<1>1. Init => Tally
  <2> SUFFICES ASSUME Init PROVE Tally
    OBVIOUS
  <2>1. \A o : DecidedAs(o) = {}
    <3>1. \A o : <<o>> # <<>>
      OBVIOUS
    <3> QED BY <3>1 DEF Init, DecidedAs
  <2>2. InFlight \cup Working = {}
    BY DEF Init, Empty, InFlight, Working
  <2>3. sent = 0 /\ executed = 0 /\ rejected = 0 /\ Cardinality({}) = 0
    BY FS_EmptySet DEF Init
  <2>4. /\ Cardinality(DecidedAs("EXECUTED")) = 0 /\ Cardinality(DecidedAs("REJECTED")) = 0
        /\ Cardinality(DecidedAs("CANCELLED")) = 0 /\ Cardinality(InFlight \cup Working) = 0
    <3>1. \A T : T = {} => Cardinality(T) = 0
      BY <2>3
    <3> QED BY <2>1, <2>2, <3>1
  <2> QED BY <2>3, <2>4 DEF Tally
<1>2. TypeOK /\ TypeOK' /\ OrderInv /\ Tally /\ [Next]_vars => Tally'
  BY TallyStep
<1>3. TypeOK /\ OrderInv /\ Tally => CountersAgree
  BY TallyCounts DEF OrderInv
<1> QED BY <1>1, <1>2, <1>3, TypeCorrect, OrderInvariant, PTL DEF Spec

-----------------------------------------------------------------------------
(***************************************************************************)
(* The simulator implements OrderLifecycle: under the refinement mapping   *)
(* of TradeSimulator (status, size) every step of the simulator moves each *)
(* order along the life every executor promises, or leaves it where it is. *)
(***************************************************************************)

(* What the mapping says of an order, by where the simulator keeps it *)

\* An order that was not sent, one in flight, one working, and one decided.
Mapped ==
  \A i \in Ids :
    /\ i \notin Sent => status[i] = "unsent" /\ size[i] = 0
    /\ phase # "ended" /\ i \in InFlight => status[i] = "inflight" /\ size[i] = OrderLots(i)
    /\ phase # "ended" /\ i \in Working => status[i] = "working" /\ size[i] = OrderLots(i)
    /\ \A o \in Outcomes : i \in Sent /\ results[i] = <<o>> =>
         /\ o # "EXECUTED" => status[i] = o /\ size[i] = 0
         /\ o = "EXECUTED" /\ i \in DOMAIN positions =>
              status[i] = "open" /\ size[i] = positions[i].lots
         /\ o = "EXECUTED" /\ i \notin DOMAIN positions => status[i] = "closed" /\ size[i] = 0

\* While the scenario runs, every id is unsent, undecided or decided.
LEMMA Places ==
  ASSUME TypeOK, OrderInv, phase # "ended", NEW i \in Ids
  PROVE  \/ i \notin Sent /\ i \notin InFlight \cup Working
         \/ i \in Sent /\ i \in InFlight \cup Working /\ results[i] = <<>>
         \/ /\ i \in Sent /\ i \notin InFlight \cup Working
            /\ \E o \in Outcomes : results[i] = <<o>>
<1>1. i \in InFlight \cup Working => i \in Sent
  BY DEF OrderInv, Fresh, InFlight
<1>2. CASE i \in InFlight \cup Working
  BY <1>1, <1>2 DEF OrderInv, OneOutcome
<1>3. CASE i \in Sent \ (InFlight \cup Working)
  <2>1. Len(results[i]) = 1 /\ results[i] \in Seq(Outcomes)
    BY <1>3 DEF OrderInv, OneOutcome, TypeOK
  <2>2. results[i] = <<results[i][1]>> /\ results[i][1] \in Outcomes
    BY <2>1
  <2> QED BY <1>3, <2>2
<1> QED BY <1>2, <1>3

\* The mapping reads off where the order is.
LEMMA MappedHolds == TypeOK /\ OrderInv => Mapped
<1> SUFFICES ASSUME TypeOK, OrderInv, NEW i \in Ids
             PROVE
    /\ i \notin Sent => status[i] = "unsent" /\ size[i] = 0
    /\ phase # "ended" /\ i \in InFlight => status[i] = "inflight" /\ size[i] = OrderLots(i)
    /\ phase # "ended" /\ i \in Working => status[i] = "working" /\ size[i] = OrderLots(i)
    /\ \A o \in Outcomes : i \in Sent /\ results[i] = <<o>> =>
         /\ o # "EXECUTED" => status[i] = o /\ size[i] = 0
         /\ o = "EXECUTED" /\ i \in DOMAIN positions =>
              status[i] = "open" /\ size[i] = positions[i].lots
         /\ o = "EXECUTED" /\ i \notin DOMAIN positions => status[i] = "closed" /\ size[i] = 0
  BY DEF Mapped
<1>1. size[i] = CASE status[i] = "inflight" -> pending[i].lots
                  [] status[i] = "working" ->
                       IF i \in DOMAIN limits THEN limits[i].lots ELSE stops[i].lots
                  [] status[i] = "open" -> positions[i].lots
                  [] OTHER -> 0
  BY DEF size
<1>2. status[i] = CASE i \notin Sent -> "unsent"
                    [] i \in Sent /\ results[i] = <<>> ->
                         IF i \in InFlight THEN "inflight" ELSE "working"
                    [] OTHER -> IF results[i][1] # "EXECUTED" THEN results[i][1]
                                ELSE IF i \in DOMAIN positions THEN "open" ELSE "closed"
  BY DEF status
<1>3. CASE i \notin Sent
  <2>1. i \notin InFlight \cup Working
    BY <1>3 DEF OrderInv, Fresh, InFlight
  <2> QED BY <1>1, <1>2, <1>3, <2>1
<1>4. CASE i \in Sent /\ phase # "ended" /\ i \in InFlight \cup Working
  <2>1. results[i] = <<>> /\ (i \in InFlight => i \notin Working)
    BY <1>4 DEF OrderInv, OneOutcome
  <2>2. \A o : <<o>> # <<>>
    OBVIOUS
  <2>3. CASE i \in InFlight
    BY <1>1, <1>2, <1>4, <2>1, <2>2, <2>3 DEF OrderLots
  <2>4. CASE i \in Working /\ i \notin InFlight
    BY <1>1, <1>2, <1>4, <2>1, <2>2, <2>4 DEF OrderLots
  <2> QED BY <1>4, <2>3, <2>4
<1>5. CASE i \in Sent /\ ~(phase # "ended" /\ i \in InFlight \cup Working)
  <2> SUFFICES ASSUME NEW o \in Outcomes, results[i] = <<o>>
               PROVE  /\ o # "EXECUTED" => status[i] = o /\ size[i] = 0
                      /\ o = "EXECUTED" /\ i \in DOMAIN positions =>
                           status[i] = "open" /\ size[i] = positions[i].lots
                      /\ o = "EXECUTED" /\ i \notin DOMAIN positions =>
                           status[i] = "closed" /\ size[i] = 0
    BY <1>5
  <2>1. results[i] # <<>> /\ results[i][1] = o
    OBVIOUS
  <2>2. o \notin {"inflight", "working", "open"}
    BY DEF Outcomes
  <2> QED BY <1>1, <1>2, <1>5, <2>1, <2>2
<1> QED BY <1>3, <1>4, <1>5

-----------------------------------------------------------------------------
(* The steps *)

\* An order whose status and size a step leaves alone does not move.
LEMMA Stays ==
  ASSUME NEW i \in Ids, status'[i] = status[i], size'[i] = size[i]
  PROVE  Lifecycle!Moves(status[i], size[i], status'[i], size'[i])
BY DEF Lifecycle!Moves

\* An order that was sent stays sent.
LEMMA SentStays == UNCHANGED sent => Sent' = Sent
BY DEF Sent

\* Deciding or handing on orders moves each of them as promised: the refused
\* ones of the queue are rejected, the refused ones of the book rejected or
\* cancelled, the others fill, reach the book or stay.
LEMMA DecidingMoves ==
  ASSUME TypeOK, TypeOK', OrderInv, OrderInv', Mapped, Mapped',
         NEW filled, NEW refused, NEW outcome \in {"REJECTED", "CANCELLED"},
         Deciding(filled, refused, outcome), Sizing(filled, refused, outcome)
  PROVE  Lifecycle!Next
<1> SUFFICES ASSUME NEW i \in Ids
             PROVE  Lifecycle!Moves(status[i], size[i], status'[i], size'[i])
  BY DEF Lifecycle!Next
<1> DEFINE live == InFlight \cup Working
<1>1. /\ phase # "ended" /\ phase' # "ended" /\ Sent' = Sent
      /\ filled \subseteq live /\ refused \subseteq live /\ filled \cap refused = {}
      /\ (InFlight \cup Working)' = live \ (filled \cup refused)
      /\ InFlight' \cap Working' = {} /\ InFlight' \subseteq InFlight
      /\ outcome = "REJECTED" \/ refused \subseteq Working
      /\ InFlight \cap Working = {}
  BY SentStays DEF Deciding, Sizing, OrderInv, OneOutcome
<1>2. "EXECUTED" \in Outcomes /\ outcome \in Outcomes
  BY DEF Outcomes
<1>3. CASE i \in filled
  <2>1. results[i] = <<>> /\ i \in Sent
    BY <1>1, <1>3, Places
  <2>2. results'[i] = <<"EXECUTED">> /\ i \in DOMAIN positions'
        /\ positions'[i].lots = OrderLots(i)
    BY <1>2, <1>3, <2>1, FirstOutcome DEF Deciding, Sizing
  <2>3. status'[i] = "open" /\ size'[i] = OrderLots(i)
    BY <1>1, <1>2, <2>1, <2>2 DEF Mapped
  <2>4. status[i] \in {"inflight", "working"} /\ size[i] = OrderLots(i)
    BY <1>1, <1>3 DEF Mapped
  <2> QED BY <2>3, <2>4 DEF Lifecycle!Moves, Lifecycle!Fill, Lifecycle!Live
<1>4. CASE i \in refused
  <2>1. results[i] = <<>> /\ i \in Sent
    BY <1>1, <1>4, Places
  <2>2. results'[i] = <<outcome>>
    BY <1>1, <1>2, <1>4, <2>1, FirstOutcome DEF Deciding
  <2>3. status'[i] = outcome /\ size'[i] = 0
    BY <1>1, <1>2, <2>1, <2>2 DEF Mapped
  <2>4. /\ status[i] \in {"inflight", "working"}
        /\ status[i] = "inflight" => outcome = "REJECTED"
    BY <1>1, <1>4 DEF Mapped
  <2> QED
    BY <2>3, <2>4 DEF Lifecycle!Moves, Lifecycle!Refuse, Lifecycle!Live, Lifecycle!Refused
<1>5. CASE i \in live \ (filled \cup refused)
  <2>1. i \in InFlight' \cup Working' /\ OrderLots(i)' = OrderLots(i)
    BY <1>1, <1>5 DEF Sizing
  <2>2. /\ status[i] = IF i \in InFlight THEN "inflight" ELSE "working"
        /\ size[i] = OrderLots(i)
    BY <1>1, <1>5 DEF Mapped
  <2>3. /\ status'[i] = IF i \in InFlight' THEN "inflight" ELSE "working"
        /\ size'[i] = OrderLots(i)
    BY <1>1, <2>1 DEF Mapped
  <2> QED BY <1>1, <2>2, <2>3 DEF Lifecycle!Moves, Lifecycle!Accept
<1>6. CASE i \in Sent /\ i \notin live
  <2>1. PICK o \in Outcomes : results[i] = <<o>>
    BY <1>1, <1>6, Places
  <2>2. results'[i] = <<o>>
    BY <1>1, <1>6, <2>1 DEF Deciding
  <2>3. CASE o # "EXECUTED"
    BY <1>1, <1>6, <2>1, <2>2, <2>3, Stays DEF Mapped
  <2>4. CASE o = "EXECUTED" /\ i \in DOMAIN positions /\ i \in DOMAIN positions'
    <3>1. /\ status[i] = "open" /\ size[i] = positions[i].lots
          /\ status'[i] = "open" /\ size'[i] = positions'[i].lots
      BY <1>1, <1>6, <2>1, <2>2, <2>4 DEF Mapped
    <3>2. positions'[i].lots <= positions[i].lots
      BY <2>4 DEF Sizing
    <3>3. positions[i].lots \in Nat /\ positions'[i].lots \in Nat \ {0}
      BY <2>4 DEF TypeOK, IsContainer, Position
    <3> QED BY <3>1, <3>2, <3>3 DEF Lifecycle!Moves, Lifecycle!Reduce
  <2>5. CASE o = "EXECUTED" /\ i \in DOMAIN positions /\ i \notin DOMAIN positions'
    <3>1. status[i] = "open" /\ status'[i] = "closed" /\ size'[i] = 0
      BY <1>1, <1>6, <2>1, <2>2, <2>5 DEF Mapped
    <3> QED BY <3>1 DEF Lifecycle!Moves, Lifecycle!Close
  <2>6. CASE o = "EXECUTED" /\ i \notin DOMAIN positions
    <3>1. i \notin DOMAIN positions'
      BY <1>1, <1>6, <2>6 DEF Deciding
    <3> QED BY <1>1, <1>6, <2>1, <2>2, <2>6, <3>1, Stays DEF Mapped
  <2> QED BY <2>3, <2>4, <2>5, <2>6
<1>7. CASE i \notin Sent
  BY <1>1, <1>7, Stays DEF Mapped
<1> QED BY <1>1, <1>3, <1>4, <1>5, <1>6, <1>7

\* A step that leaves every order and every lot where it is.
LEMMA Unmoving ==
  ASSUME TypeOK, OrderInv, Mapped, Mapped', phase # "ended", phase' # "ended",
         InFlight' = InFlight, Working' = Working, DOMAIN positions' = DOMAIN positions,
         \A i \in DOMAIN positions : positions'[i].lots = positions[i].lots,
         \A i \in InFlight \cup Working : OrderLots(i)' = OrderLots(i),
         UNCHANGED <<results, sent>>
  PROVE  Lifecycle!Next
<1> SUFFICES ASSUME NEW i \in Ids
             PROVE  Lifecycle!Moves(status[i], size[i], status'[i], size'[i])
  BY DEF Lifecycle!Next
<1>1. Sent' = Sent
  BY SentStays
<1>2. CASE i \notin Sent
  BY <1>1, <1>2, Stays DEF Mapped
<1>3. CASE i \in InFlight \cup Working
  BY <1>3, Stays DEF Mapped
<1>4. CASE i \in Sent /\ \E o \in Outcomes : results[i] = <<o>>
  <2>1. PICK o \in Outcomes : results[i] = <<o>>
    BY <1>4
  <2>2. status'[i] = status[i] /\ size'[i] = size[i]
    BY <1>1, <1>4, <2>1 DEF Mapped
  <2> QED BY <2>2, Stays
<1> QED BY <1>2, <1>3, <1>4, Places

\* A new order is sent, or rejected at once; the others stay.
LEMMA OpenOrderMoves ==
  ASSUME TypeOK, TypeOK', OrderInv, Mapped, Mapped', NEW r \in Requests, OpenOrder(r)
  PROVE  Lifecycle!Next
<1> DEFINE id == sent + 1
<1>1. /\ id \in Ids /\ id \notin Sent /\ Sent' = Sent \cup {id}
      /\ phase # "ended" /\ phase' # "ended"
      /\ UNCHANGED <<limits, stops, positions>> /\ Working' = Working
  BY DEF OpenOrder, Sent, TypeOK, Ids, Working
<1>2. id \notin DOMAIN pending \cup Working /\ results[id] = <<>>
  BY <1>1 DEF OrderInv, Fresh
<1>3. /\ status[id] = "unsent" /\ size[id] = 0
  BY <1>1 DEF Mapped
<1>4. /\ InFlight' \ {id} = InFlight
      /\ \A i \in DOMAIN pending : pending'[i] = pending[i]
      /\ \A i \in Ids \ {id} : results'[i] = results[i]
  <2>1. CASE RequestValid(r)
    <3>1. PICK d \in Delays : pending' = Put(pending, id, NewOrder(r, tick.msc + d))
      BY <2>1 DEF OpenOrder
    <3> QED BY <1>2, <2>1, <3>1 DEF OpenOrder, InFlight, Put
  <2>2. CASE ~RequestValid(r)
    BY <1>2, <2>2 DEF OpenOrder, InFlight, Report
  <2> QED BY <2>1, <2>2
<1>5. Lifecycle!Moves(status[id], size[id], status'[id], size'[id])
  <2>1. CASE RequestValid(r)
    <3>1. PICK d \in Delays : pending' = Put(pending, id, NewOrder(r, tick.msc + d))
      BY <2>1 DEF OpenOrder
    <3>2. id \in InFlight' /\ pending'[id].lots > 0
      <4>1. pending'[id] = NewOrder(r, tick.msc + d) /\ id \in DOMAIN pending'
        BY <3>1 DEF Put
      <4>2. pending'[id].action = "OPEN" /\ pending'[id].lots = r.lots
        BY <4>1 DEF NewOrder
      <4>3. r.lots > 0
        BY <2>1, SizeAssumption DEF RequestValid
      <4> QED BY <4>1, <4>2, <4>3 DEF InFlight
    <3>3. status'[id] = "inflight" /\ size'[id] > 0
      BY <1>1, <3>2 DEF Mapped, OrderLots
    <3> QED BY <1>3, <3>3 DEF Lifecycle!Moves, Lifecycle!Submit, Lifecycle!Live
  <2>2. CASE ~RequestValid(r)
    <3>1. results'[id] = <<"REJECTED">> /\ "REJECTED" \in Outcomes
      <4>1. results'[id] = Append(<<>>, "REJECTED")
        BY <1>1, <1>2, <2>2 DEF OpenOrder, Report
      <4> QED BY <4>1, FirstOutcome DEF Outcomes
    <3>2. status'[id] = "REJECTED" /\ size'[id] = 0
      BY <1>1, <3>1 DEF Mapped
    <3> QED BY <1>3, <3>2 DEF Lifecycle!Moves, Lifecycle!Refuse, Lifecycle!Live, Lifecycle!Refused
  <2> QED BY <2>1, <2>2
<1>6. ASSUME NEW i \in Ids \ {id}
      PROVE  Lifecycle!Moves(status[i], size[i], status'[i], size'[i])
  <2>1. /\ i \in Sent' <=> i \in Sent
        /\ i \in InFlight' <=> i \in InFlight
        /\ results'[i] = results[i]
    BY <1>1, <1>4, <1>6
  <2>2. OrderLots(i)' = OrderLots(i)
    BY <1>1, <1>4, <2>1 DEF OrderLots, InFlight
  <2>3. CASE i \notin Sent
    BY <2>1, <2>3, Stays DEF Mapped
  <2>4. CASE i \in InFlight \cup Working
    BY <1>1, <2>1, <2>2, <2>4, Stays DEF Mapped
  <2>5. CASE i \in Sent /\ \E o \in Outcomes : results[i] = <<o>>
    <3>1. PICK o \in Outcomes : results[i] = <<o>>
      BY <2>5
    <3>2. status'[i] = status[i] /\ size'[i] = size[i]
      BY <1>1, <2>1, <2>5, <3>1 DEF Mapped
    <3> QED BY <3>2, Stays
  <2> QED BY <1>1, <2>3, <2>4, <2>5, Places
<1> HIDE DEF id
<1> QED BY <1>5, <1>6 DEF Lifecycle!Next

\* The other calls of the algorithm only schedule changes, or set levels.
LEMMA AlgorithmMoves ==
  ASSUME TypeOK, TypeOK', OrderInv, Mapped, Mapped', Algorithm
  PROVE  Lifecycle!Next
<1>1. ASSUME NEW r \in Requests, OpenOrder(r) PROVE Lifecycle!Next
  BY <1>1, OpenOrderMoves
<1>2. ASSUME NEW i \in Ids, NEW lots \in CloseLots, ClosePosition(i, lots)
      PROVE  Lifecycle!Next
  <2>1. PICK d \in Delays : pending' = Put(pending, i, NewClose(lots, tick.msc + d))
    BY <1>2 DEF ClosePosition
  <2>2. i \notin InFlight
    BY <1>2 DEF ClosePosition, OrderInv, OneOutcome
  <2>3. InFlight' = InFlight /\ \A j \in InFlight : pending'[j] = pending[j]
    BY <2>1, <2>2 DEF InFlight, Put, NewClose
  <2>4. \A j \in InFlight \cup Working : OrderLots(j)' = OrderLots(j)
    BY <1>2, <2>3 DEF OrderLots, ClosePosition
  <2> QED BY <1>2, <2>3, <2>4, Unmoving DEF ClosePosition, Working, counters
<1>3. ASSUME NEW i \in Ids, CancelLimitOrder(i) PROVE Lifecycle!Next
  <2>1. DOMAIN limits' = DOMAIN limits /\ \A j \in DOMAIN limits : limits'[j].lots = limits[j].lots
    BY <1>3 DEF CancelLimitOrder, Cancelling, TypeOK, IsContainer, OpenRecord
  <2>2. InFlight' = InFlight /\ Working' = Working
    BY <1>3, <2>1 DEF CancelLimitOrder, InFlight, Working
  <2>3. \A j \in InFlight \cup Working : OrderLots(j)' = OrderLots(j)
    BY <1>3, <2>1, <2>2 DEF OrderLots, CancelLimitOrder
  <2> QED BY <1>3, <2>2, <2>3, Unmoving DEF CancelLimitOrder, counters
<1>4. ASSUME NEW i \in Ids, CancelStopOrder(i) PROVE Lifecycle!Next
  <2>1. DOMAIN stops' = DOMAIN stops /\ \A j \in DOMAIN stops : stops'[j].lots = stops[j].lots
    BY <1>4 DEF CancelStopOrder, Cancelling, TypeOK, IsContainer, OpenRecord
  <2>2. InFlight' = InFlight /\ Working' = Working
    BY <1>4, <2>1 DEF CancelStopOrder, InFlight, Working
  <2>3. \A j \in InFlight \cup Working : OrderLots(j)' = OrderLots(j)
    BY <1>4, <2>1, <2>2 DEF OrderLots, CancelStopOrder, Working
  <2> QED BY <1>4, <2>2, <2>3, Unmoving DEF CancelStopOrder, counters
<1>5. ASSUME NEW i \in Ids, NEW m \in Modifications, ModifyLimitOrder(i, m)
      PROVE  Lifecycle!Next
  <2>1. DOMAIN limits' = DOMAIN limits /\ \A j \in DOMAIN limits : limits'[j].lots = limits[j].lots
    BY <1>5 DEF ModifyLimitOrder, Modifying, TypeOK, IsContainer, OpenRecord
  <2>2. InFlight' = InFlight /\ Working' = Working
    BY <1>5, <2>1 DEF ModifyLimitOrder, InFlight, Working
  <2>3. \A j \in InFlight \cup Working : OrderLots(j)' = OrderLots(j)
    BY <1>5, <2>1, <2>2 DEF OrderLots, ModifyLimitOrder
  <2> QED BY <1>5, <2>2, <2>3, Unmoving DEF ModifyLimitOrder, counters
<1>6. ASSUME NEW i \in Ids, NEW m \in Modifications, ModifyStopOrder(i, m)
      PROVE  Lifecycle!Next
  <2>1. DOMAIN stops' = DOMAIN stops /\ \A j \in DOMAIN stops : stops'[j].lots = stops[j].lots
    BY <1>6 DEF ModifyStopOrder, Modifying, TypeOK, IsContainer, OpenRecord
  <2>2. InFlight' = InFlight /\ Working' = Working
    BY <1>6, <2>1 DEF ModifyStopOrder, InFlight, Working
  <2>3. \A j \in InFlight \cup Working : OrderLots(j)' = OrderLots(j)
    BY <1>6, <2>1, <2>2 DEF OrderLots, ModifyStopOrder, Working
  <2> QED BY <1>6, <2>2, <2>3, Unmoving DEF ModifyStopOrder, counters
<1>7. ASSUME NEW i \in Ids, NEW m \in Modifications, ModifyPosition(i, m)
      PROVE  Lifecycle!Next
  <2> DEFINE sl == Effective(m.sl, positions[i].sl)
             tp == Effective(m.tp, positions[i].tp)
  <2>1. positions[i] \in Position /\ sl \in OptPrice /\ tp \in OptPrice
    BY <1>7, InputAssumption
       DEF ModifyPosition, TypeOK, IsContainer, Position, Effective, Modification
  <2>2. positions' = positions \/ positions' = [positions EXCEPT ![i] = WithLevels(@, sl, tp)]
    BY <1>7 DEF ModifyPosition
  <2>3. WithLevels(positions[i], sl, tp).lots = positions[i].lots
    BY <2>1, WithLevelsType
  <2>4. /\ DOMAIN positions' = DOMAIN positions
        /\ \A j \in DOMAIN positions : positions'[j].lots = positions[j].lots
    <3> HIDE DEF sl, tp
    <3> QED BY <2>2, <2>3 DEF TypeOK, IsContainer
  <2>5. InFlight' = InFlight /\ Working' = Working
    BY <1>7 DEF ModifyPosition, InFlight, Working
  <2>6. \A j \in InFlight \cup Working : OrderLots(j)' = OrderLots(j)
    BY <1>7, <2>5 DEF OrderLots, ModifyPosition
  <2> QED BY <1>7, <2>4, <2>5, <2>6, Unmoving DEF ModifyPosition, counters
<1> QED
  BY <1>1, <1>2, <1>3, <1>4, <1>5, <1>6, <1>7 DEF Algorithm

\* The end of the scenario decides every order and closes every position.
LEMMA CloseAllMoves ==
  ASSUME TypeOK, OrderInv, Mapped, Mapped', CloseAllRemainingOrders
  PROVE  Lifecycle!Next
<1> SUFFICES ASSUME NEW i \in Ids
             PROVE  Lifecycle!Moves(status[i], size[i], status'[i], size'[i])
  BY DEF Lifecycle!Next
<1>1. /\ phase # "ended" /\ DOMAIN positions' = {} /\ Sent' = Sent
  BY SentStays DEF CloseAllRemainingOrders, Empty, counters
<1>2. results' = [j \in Ids |-> CASE j \in Working -> Append(results[j], "EXPIRED")
                                  [] j \in InFlight -> Append(results[j], "FORCE_CLOSED")
                                  [] OTHER -> results[j]]
  BY DEF CloseAllRemainingOrders, Expiring, Working, InFlight
<1>3. CASE i \in Working
  <2>1. results[i] = <<>> /\ i \in Sent
    BY <1>1, <1>3, Places
  <2>2. results'[i] = <<"EXPIRED">> /\ "EXPIRED" \in Outcomes
    <3>1. i \notin InFlight
      BY <1>1, <1>3 DEF OrderInv, OneOutcome
    <3>2. results'[i] = Append(<<>>, "EXPIRED")
      BY <1>2, <1>3, <2>1, <3>1
    <3> QED BY <3>2, FirstOutcome DEF Outcomes
  <2>3. status[i] = "working" /\ status'[i] = "EXPIRED" /\ size'[i] = 0
    BY <1>1, <1>3, <2>1, <2>2 DEF Mapped
  <2> QED BY <2>3 DEF Lifecycle!Moves, Lifecycle!Refuse, Lifecycle!Live, Lifecycle!Refused
<1>4. CASE i \in InFlight /\ i \notin Working
  <2>1. results[i] = <<>> /\ i \in Sent
    BY <1>1, <1>4, Places
  <2>2. results'[i] = <<"FORCE_CLOSED">> /\ "FORCE_CLOSED" \in Outcomes
    <3>1. results'[i] = Append(<<>>, "FORCE_CLOSED")
      BY <1>2, <1>4, <2>1
    <3> QED BY <3>1, FirstOutcome DEF Outcomes
  <2>3. status[i] = "inflight" /\ status'[i] = "FORCE_CLOSED" /\ size'[i] = 0
    BY <1>1, <1>4, <2>1, <2>2 DEF Mapped
  <2> QED BY <2>3 DEF Lifecycle!Moves, Lifecycle!Refuse, Lifecycle!Live, Lifecycle!Refused
<1>5. CASE i \in Sent /\ i \notin InFlight \cup Working
  <2>1. PICK o \in Outcomes : results[i] = <<o>>
    BY <1>1, <1>5, Places
  <2>2. results'[i] = <<o>>
    BY <1>2, <1>5, <2>1
  <2>3. CASE o = "EXECUTED" /\ i \in DOMAIN positions
    <3>1. status[i] = "open" /\ status'[i] = "closed" /\ size'[i] = 0
      BY <1>1, <1>5, <2>1, <2>2, <2>3 DEF Mapped
    <3> QED BY <3>1 DEF Lifecycle!Moves, Lifecycle!Close
  <2>4. CASE ~(o = "EXECUTED" /\ i \in DOMAIN positions)
    <3>1. status'[i] = status[i] /\ size'[i] = size[i]
      BY <1>1, <1>5, <2>1, <2>2, <2>4 DEF Mapped
    <3> QED BY <3>1, Stays
  <2> QED BY <2>3, <2>4
<1>6. CASE i \notin Sent
  BY <1>1, <1>6, Stays DEF Mapped
<1> QED BY <1>1, <1>3, <1>4, <1>5, <1>6, Places

\* Every step of the simulator is a step of the lifecycle, or none.
LEMMA StepMoves ==
  ASSUME TypeOK, TypeOK', OrderInv, OrderInv', Mapped, Mapped', [Next]_vars
  PROVE  [Lifecycle!Next]_<<status, size>>
<1>1. CASE Algorithm
  BY <1>1, AlgorithmMoves
<1>2. ASSUME NEW bid \in Bids, NEW msc \in 0..MaxMsc, OnTick(bid, msc) PROVE Lifecycle!Next
  <2>1. \A i \in InFlight \cup Working : OrderLots(i)' = OrderLots(i)
    BY <1>2 DEF OnTick, OrderLots, InFlight
  <2> QED BY <1>2, <2>1, Unmoving DEF OnTick, InFlight, Working, counters
<1>3. CASE Heartbeat
  <2>1. \A i \in InFlight \cup Working : OrderLots(i)' = OrderLots(i)
    BY <1>3 DEF Heartbeat, OrderLots, InFlight
  <2> QED BY <1>3, <2>1, Unmoving DEF Heartbeat, InFlight, Working, counters
<1>4. CASE ResolvePendingOperations
  BY <1>4, ResolveDecides, DecidingMoves
<1>5. CASE FillResolvedOrders \/ MonitorLimits \/ MonitorStops
  BY <1>5, DrainDecides, MonitorDecides, DecidingMoves
<1>6. CASE CheckSlTpTriggers
  BY <1>6, SlTpDecides, DecidingMoves
<1>7. CASE CloseAllRemainingOrders
  BY <1>7, CloseAllMoves
<1>8. CASE UNCHANGED vars
  <2>1. UNCHANGED <<status, size>>
    BY <1>8 DEF vars, counters, stats, status, size, Sent, InFlight
  <2> QED BY <2>1
<1> QED
  BY <1>1, <1>2, <1>3, <1>4, <1>5, <1>6, <1>7, <1>8 DEF Next, Processing, Done

\* A new scenario is a new lifecycle.
LEMMA InitMaps == Init => Lifecycle!Init
<1> SUFFICES ASSUME Init PROVE Lifecycle!Init
  OBVIOUS
<1>1. Sent = {}
  BY DEF Init, Sent
<1>2. \A i \in Ids : status[i] = "unsent"
  BY <1>1 DEF status
<1>3. \A i \in Ids : size[i] = 0
  BY <1>2 DEF size
<1>4. status = [i \in Ids |-> "unsent"]
  BY <1>2 DEF status
<1>5. size = [i \in Ids |-> 0]
  BY <1>3 DEF size
<1> QED BY <1>4, <1>5 DEF Lifecycle!Init

\* The simulator implements the lifecycle of orders: whatever latencies,
\* prices, modifications and refusals meet, an order goes from the queue to
\* the book to exactly one end, its position opens with the size it asked for
\* and only shrinks (trade_simulator.py, abstract_trade_executor.py).
THEOREM SimulatorImplementsLifecycle == Spec => ImplementsLifecycle
<1>1. TypeOK /\ OrderInv => Mapped
  BY MappedHolds
<1>2. TypeOK /\ TypeOK' /\ OrderInv /\ OrderInv' /\ Mapped /\ Mapped' /\ [Next]_vars
        => [Lifecycle!Next]_<<status, size>>
  BY StepMoves
<1> QED
  BY <1>1, <1>2, InitMaps, TypeCorrect, OrderInvariant, PTL
     DEF Spec, ImplementsLifecycle, Lifecycle!Spec

=============================================================================
