----------------------- MODULE LiveTradeExecutor_mirror -----------------------
(***************************************************************************)
(* LiveTradeExecutor's books mirror the broker's, for every number of      *)
(* orders and calls, any prices and stops and whatever answers are lost:   *)
(* every order whose own answers arrived is held and reported as it is     *)
(* there, and every stop loss nobody refused is the broker's.              *)
(***************************************************************************)
EXTENDS LiveTradeExecutor_proofs, FiniteSetTheorems

-----------------------------------------------------------------------------
(* Modifications of positions and submissions of closes: at most one of an  *)
(* order is on the wire.                                                    *)

Class(x) ==
  IF x.kind = "position" THEN "position"
  ELSE IF Submits(x, "CLOSE") THEN "close" ELSE "other"
OfClass(q, c) == {q[k].id : k \in {j \in DOMAIN q : Class(q[j]) = c}}
Lone(q, c) ==
  \A j, k \in DOMAIN q : Class(q[j]) = c /\ Class(q[k]) = c /\ q[j].id = q[k].id => j = k
Wired(c) == OfClass(outbox, c) \cup OfClass(worker, c) \cup OfClass(inbox, c)
Apart(c) ==
  /\ Lone(outbox, c) /\ Lone(worker, c) /\ Lone(inbox, c)
  /\ OfClass(outbox, c) \cap OfClass(worker, c) = {}
  /\ OfClass(outbox, c) \cap OfClass(inbox, c) = {}
  /\ OfClass(worker, c) \cap OfClass(inbox, c) = {}

\* Asking for one more thing.
LEMMA AppendClass ==
  ASSUME NEW S, NEW q \in Seq(S), NEW x, NEW c
  PROVE  /\ OfClass(Append(q, x), c) = OfClass(q, c) \cup (IF Class(x) = c THEN {x.id} ELSE {})
         /\ Items(Append(q, x)) = Items(q) \cup {x}
         /\ Lone(q, c) /\ (Class(x) = c => x.id \notin OfClass(q, c)) => Lone(Append(q, x), c)
<1> DEFINE p == Append(q, x)
<1>1. /\ DOMAIN p = DOMAIN q \cup {Len(q) + 1} /\ p[Len(q) + 1] = x
      /\ \A k \in DOMAIN q : p[k] = q[k]
  OBVIOUS
<1> HIDE DEF p
<1>2. OfClass(p, c) = OfClass(q, c) \cup (IF Class(x) = c THEN {x.id} ELSE {})
  BY <1>1 DEF OfClass
<1>3. Items(p) = Items(q) \cup {x}
  BY <1>1 DEF Items
<1>4. \A k \in DOMAIN q : Class(q[k]) = c => q[k].id \in OfClass(q, c)
  BY DEF OfClass
<1>5. Lone(q, c) /\ (Class(x) = c => x.id \notin OfClass(q, c)) => Lone(p, c)
  BY <1>1, <1>4 DEF Lone
<1> QED BY <1>2, <1>3, <1>5 DEF p

\* Taking the first item away.
LEMMA TailClass ==
  ASSUME NEW S, NEW q \in Seq(S), q # <<>>, NEW c
  PROVE  /\ OfClass(q, c) = OfClass(Tail(q), c) \cup (IF Class(Head(q)) = c THEN {Head(q).id} ELSE {})
         /\ Lone(q, c) => /\ Lone(Tail(q), c)
                          /\ Class(Head(q)) = c => Head(q).id \notin OfClass(Tail(q), c)
<1> DEFINE p == Tail(q)
<1>1. /\ DOMAIN p = 1..(Len(q) - 1) /\ Head(q) = q[1] /\ DOMAIN q = 1..Len(q)
      /\ \A k \in 1..(Len(q) - 1) : p[k] = q[k + 1]
      /\ Len(q) \in Nat /\ Len(q) >= 1
  OBVIOUS
<1> HIDE DEF p
<1>2. ASSUME NEW k \in DOMAIN q, k # 1 PROVE k - 1 \in DOMAIN p /\ p[k - 1] = q[k]
  BY <1>1, <1>2
<1>3. ASSUME NEW k \in DOMAIN p PROVE k + 1 \in DOMAIN q /\ p[k] = q[k + 1] /\ k + 1 # 1 /\ k \in Nat
  BY <1>1, <1>3
<1>4. OfClass(q, c) = OfClass(p, c) \cup (IF Class(Head(q)) = c THEN {Head(q).id} ELSE {})
  <2>1. OfClass(p, c) \subseteq OfClass(q, c)
    BY <1>3 DEF OfClass
  <2>2. Class(Head(q)) = c => Head(q).id \in OfClass(q, c)
    BY <1>1 DEF OfClass
  <2>3. ASSUME NEW k \in DOMAIN q, Class(q[k]) = c
        PROVE  q[k].id \in OfClass(p, c) \/ (Class(Head(q)) = c /\ q[k].id = Head(q).id)
    <3>1. CASE k = 1
      BY <1>1, <2>3, <3>1
    <3>2. CASE k # 1
      BY <1>2, <2>3, <3>2 DEF OfClass
    <3> QED BY <3>1, <3>2
  <2>4. OfClass(q, c) \subseteq OfClass(p, c) \cup (IF Class(Head(q)) = c THEN {Head(q).id} ELSE {})
    BY <2>3 DEF OfClass
  <2> QED BY <2>1, <2>2, <2>4
<1>5. ASSUME Lone(q, c)
      PROVE  Lone(p, c) /\ (Class(Head(q)) = c => Head(q).id \notin OfClass(p, c))
  <2>1. ASSUME NEW j \in DOMAIN p, NEW k \in DOMAIN p,
               Class(p[j]) = c, Class(p[k]) = c, p[j].id = p[k].id
        PROVE  j = k
    <3>1. j + 1 = k + 1
      BY <1>3, <1>5, <2>1 DEF Lone
    <3> QED BY <1>3, <3>1
  <2>2. ASSUME Class(Head(q)) = c, NEW k \in DOMAIN p, Class(p[k]) = c
        PROVE  p[k].id # Head(q).id
    BY <1>1, <1>3, <1>5, <2>2 DEF Lone
  <2> QED BY <2>1, <2>2 DEF Lone, OfClass
<1> QED BY <1>4, <1>5 DEF p

\* A queue of one item, and an empty one.
LEMMA OneClass ==
  ASSUME NEW x, NEW c
  PROVE  /\ OfClass(<<x>>, c) = (IF Class(x) = c THEN {x.id} ELSE {}) /\ OfClass(<<>>, c) = {}
         /\ Lone(<<x>>, c) /\ Lone(<<>>, c)
<1> DEFINE q == <<x>>
<1>1. DOMAIN q = {1} /\ q[1] = x
  OBVIOUS
<1> HIDE DEF q
<1>2. OfClass(q, c) = (IF Class(x) = c THEN {x.id} ELSE {}) /\ Lone(q, c)
  BY <1>1 DEF OfClass, Lone
<1>3. OfClass(<<>>, c) = {} /\ Lone(<<>>, c)
  BY DEF OfClass, Lone
<1> QED BY <1>2, <1>3 DEF q

\* An item is among the orders of its class.
LEMMA ItemsOfClass ==
  ASSUME NEW q, NEW x \in Items(q)
  PROVE  x.id \in OfClass(q, Class(x))
BY DEF Items, OfClass

\* The three ways the wire moves: the main thread asks, the worker takes a
\* job, a job is answered; and an answer is drained.
LEMMA AskedApart ==
  ASSUME WireShapes, NEW c, Apart(c), UNCHANGED worker,
         \/ inbox' = inbox
         \/ inbox # <<>> /\ inbox' = Tail(inbox),
         \/ outbox' = outbox
         \/ \E x : /\ outbox' = Append(outbox, x)
                   /\ Class(x) = c => x.id \notin Wired(c)
  PROVE  /\ Apart(c)'
         /\ OfClass(inbox', c) \subseteq OfClass(inbox, c)
         /\ Items(inbox') \subseteq Items(inbox)
         /\ inbox' # inbox /\ Class(Head(inbox)) = c =>
              Head(inbox).id \notin OfClass(outbox, c) \cup OfClass(worker, c) \cup OfClass(inbox', c)
<1>1. outbox \in Seq(Asked) /\ inbox \in Seq(Answer)
  BY DEF WireShapes
<1>2. /\ OfClass(inbox', c) \subseteq OfClass(inbox, c) /\ Lone(inbox', c)
      /\ Items(inbox') \subseteq Items(inbox)
      /\ inbox' # inbox /\ Class(Head(inbox)) = c =>
           Head(inbox).id \in OfClass(inbox, c) /\ Head(inbox).id \notin OfClass(inbox', c)
  <2>1. CASE inbox' = inbox
    BY <2>1 DEF Apart
  <2>2. CASE inbox # <<>> /\ inbox' = Tail(inbox)
    BY <1>1, <2>2, TailClass, TailRequests DEF Apart
  <2> QED BY <2>1, <2>2
<1>3. CASE outbox' = outbox
  BY <1>2, <1>3 DEF Apart
<1>4. ASSUME NEW x, outbox' = Append(outbox, x), Class(x) = c => x.id \notin Wired(c)
      PROVE  Apart(c)'
  <2>1. /\ OfClass(outbox', c) = OfClass(outbox, c) \cup (IF Class(x) = c THEN {x.id} ELSE {})
        /\ Lone(outbox', c)
    BY <1>1, <1>4, AppendClass DEF Apart, Wired
  <2> QED BY <1>2, <1>4, <2>1 DEF Apart, Wired
<1> QED BY <1>2, <1>3, <1>4 DEF Apart

\* The worker moves an item on: no order has two of a class.
LEMMA WorkerApart ==
  ASSUME Shapes, NEW c, Apart(c), Worker
  PROVE  /\ Apart(c)' /\ Wired(c)' = Wired(c)
<1>1. outbox \in Seq(Asked) /\ inbox \in Seq(Answer)
  BY DEF Shapes, WireShapes
<1>2. CASE WorkerTakes
  <2>1. outbox # <<>> /\ worker = <<>> /\ worker' = <<Head(outbox)>> /\ outbox' = Tail(outbox) /\ inbox' = inbox
    BY <1>2 DEF WorkerTakes
  <2>2. /\ OfClass(outbox, c) = OfClass(outbox', c) \cup (IF Class(Head(outbox)) = c THEN {Head(outbox).id} ELSE {})
        /\ Lone(outbox', c) /\ (Class(Head(outbox)) = c => Head(outbox).id \notin OfClass(outbox', c))
    BY <1>1, <2>1, TailClass DEF Apart
  <2>3. /\ OfClass(worker', c) = (IF Class(Head(outbox)) = c THEN {Head(outbox).id} ELSE {})
        /\ OfClass(worker, c) = {} /\ Lone(worker', c)
    BY <2>1, OneClass
  <2> QED BY <2>1, <2>2, <2>3 DEF Apart, Wired
<1>3. ASSUME NEW job \in Asked, NEW ref \in Nat, NEW st \in Statuses, Answered(job, ref, st)
      PROVE  Apart(c)' /\ Wired(c)' = Wired(c)
  <2>1. PICK m : m = [kind |-> job.kind, id |-> job.id, type |-> job.type,
                      action |-> job.action, ref |-> ref, status |-> st]
    OBVIOUS
  <2>2. worker = <<job>> /\ worker' = <<>> /\ inbox' = Append(inbox, m) /\ outbox' = outbox
        /\ m.id = job.id /\ Class(m) = Class(job)
    BY <1>3, <2>1 DEF Answered, Class, Submits
  <2>3. /\ OfClass(worker, c) = (IF Class(job) = c THEN {job.id} ELSE {})
        /\ OfClass(worker', c) = {} /\ Lone(worker', c)
    BY <2>2, OneClass
  <2>4. Class(job) = c => job.id \notin OfClass(inbox, c) \cup OfClass(outbox, c)
    BY <2>3 DEF Apart
  <2>5. /\ OfClass(inbox', c) = OfClass(inbox, c) \cup (IF Class(m) = c THEN {m.id} ELSE {})
        /\ Lone(inbox', c)
    BY <1>1, <2>2, <2>4, AppendClass DEF Apart
  <2> QED BY <2>2, <2>3, <2>4, <2>5 DEF Apart, Wired
<1> QED BY <1>2, <1>3, WorkerShapes

-----------------------------------------------------------------------------
(* The history only grows, and only an order without an outcome opens a     *)
(* position.                                                                *)

Grows(i) == results'[i] = results[i] \/ \E o \in Outcomes : results'[i] = Append(results[i], o)

\* A report is added to what an order was told.
LEMMA ReportGrows ==
  ASSUME OrderShapes, NEW n, NEW o \in Outcomes, Report(n, o)
  PROVE  \A i \in Ids : Grows(i)
BY DEF OrderShapes, Report, Grows

\* Without a report nothing is added.
LEMMA SameGrows ==
  ASSUME UNCHANGED results
  PROVE  \A i \in Ids : Grows(i)
BY DEF Grows

\* Fills and rejections add to the history, and only an opening adds a position.
LEMMA FillGrows ==
  ASSUME OrderShapes, NEW n, NEW action, NEW ref,
         FillOpen(n, ref) \/ Fill(n, action, ref) \/ Reject(n, action)
  PROVE  /\ \A i \in Ids : Grows(i)
         /\ positions' \subseteq positions \cup {n}
         /\ Fill(n, action, ref) /\ action # "OPEN" => positions' \subseteq positions
         /\ Reject(n, action) => positions' = positions
<1>1. {"EXECUTED", "NO_FUNDS", "REJECTED"} \subseteq Outcomes
  BY DEF Outcomes
<1>2. FillOpen(n, ref) => (\A i \in Ids : Grows(i)) /\ positions' \subseteq positions \cup {n}
  BY <1>1, ReportGrows DEF FillOpen, NoFill
<1>3. Reject(n, action) => (\A i \in Ids : Grows(i)) /\ positions' = positions
  BY <1>1, ReportGrows, SameGrows DEF Reject, NoFill
<1>4. Fill(n, action, ref) /\ ~FillOpen(n, ref) => (\A i \in Ids : Grows(i)) /\ positions' \subseteq positions
  BY SameGrows DEF Fill
<1>5. Fill(n, action, ref) /\ action # "OPEN" => positions' \subseteq positions
  BY DEF Fill
<1> QED BY <1>2, <1>3, <1>4, <1>5

\* An order that has not ended had not ended before.
LEMMA GrowsEnds ==
  ASSUME OrderShapes, NEW i \in Ids, Grows(i)
  PROVE  Ends(i)' = {} => Ends(i) = {}
<1>1. results[i] \in Seq(Outcomes)
  BY DEF OrderShapes
<1>2. CASE results'[i] = results[i]
  BY <1>2 DEF Ends
<1>3. ASSUME NEW o \in Outcomes, results'[i] = Append(results[i], o)
      PROVE  Ends(i)' = {} => Ends(i) = {}
  <2>1. \A k \in DOMAIN results[i] : k \in DOMAIN results'[i] /\ results'[i][k] = results[i][k]
    BY <1>1, <1>3
  <2> QED BY <2>1 DEF Ends
<1> QED BY <1>2, <1>3 DEF Grows

\* An order the executor holds has no outcome yet.
LEMMA HeldOpen ==
  ASSUME LiveInv, InSession, NEW i \in Opening \cup DOMAIN limits
  PROVE  Ends(i) = {} /\ i \in Ids /\ i \notin positions /\ i \in 1..sent
<1>1. i \in Ids /\ i \in Nat /\ sent \in Nat /\ i >= 1
  BY DEF LiveInv, Shapes, OrderShapes, Opening, Ids
<1>2. i <= sent
  <2>1. i \in DOMAIN pending \cup DOMAIN limits
    BY DEF Opening
  <2> QED BY <1>1, <2>1 DEF LiveInv, OrderInv, Unsent
<1> QED BY <1>1, <1>2 DEF LiveInv, OrderInv, EndsOnce

\* Every step adds to the histories, and opens only what has not ended.
LEMMA HistoryGrows ==
  ASSUME LiveInv, [Next]_vars, NEW i \in Ids
  PROVE  /\ Grows(i)
         /\ i \in positions' /\ i \notin positions => Ends(i) = {}
         /\ Ends(i)' = {} => Ends(i) = {}
<1>1. OrderShapes /\ WireShapes /\ OrderInv
  BY DEF LiveInv, Shapes
<1>2. (\A j \in Ids : Grows(j)) /\ (\A j \in positions' \ positions : Ends(j) = {})
  <2>1. ASSUME UNCHANGED results, positions' \subseteq positions
        PROVE  (\A j \in Ids : Grows(j)) /\ (\A j \in positions' \ positions : Ends(j) = {})
    BY <2>1, SameGrows
  <2>2. ASSUME NEW n, NEW o \in Outcomes, Report(n, o), positions' = positions
        PROVE  (\A j \in Ids : Grows(j)) /\ (\A j \in positions' \ positions : Ends(j) = {})
    BY <1>1, <2>2, ReportGrows
  <2>3. CASE Algorithm
    <3>1. positions' = positions
      BY <2>3 DEF Algorithm, OpenOrder, ClosePosition, CancelLimitOrder, ModifyLimitOrder,
                  ModifyPosition, local
    <3>2. UNCHANGED results \/ Report(sent + 1, "REJECTED")
      BY <2>3 DEF Algorithm, OpenOrder, ClosePosition, CancelLimitOrder, ModifyLimitOrder,
                  ModifyPosition, local
    <3> QED BY <2>1, <2>2, <3>1, <3>2 DEF Outcomes
  <2>4. CASE \/ \E tick \in BOOLEAN : StartCycle(tick)
             \/ InboxDrained \/ PendingPolled \/ TimeoutsHandled \/ CycleEnds
             \/ Reconcile \/ StopWorker \/ Done \/ UNCHANGED vars
             \/ \E ref \in DOMAIN book : BrokerFills(ref) \/ BrokerDrops(ref)
             \/ \E j \in Ids : PollActive(j) \/ TimeoutPasses(j)
    BY <2>1, <2>4 DEF StartCycle, InboxDrained, PendingPolled, TimeoutsHandled, CycleEnds, Reconcile,
         StopWorker, Done, vars, BrokerFills, BrokerDrops, local, PollActive, TimeoutPasses
  <2>5. CASE Worker
    <3>1. UNCHANGED <<results, positions>>
      BY <1>1, <2>5, WorkerShapes DEF WorkerTakes, Answered, local, Shapes
    <3> QED BY <2>1, <3>1
  <2>6. CASE CloseAllRemainingOrders
    <3>1. positions' = {}
      BY <2>6 DEF CloseAllRemainingOrders
    <3>2. \A j \in Ids : Grows(j)
      BY <2>6 DEF CloseAllRemainingOrders, Grows, Outcomes
    <3> QED BY <3>1, <3>2
  <2>7. ASSUME NEW j \in Ids, PollPending(j)
        PROVE  (\A k \in Ids : Grows(k)) /\ (\A k \in positions' \ positions : Ends(k) = {})
    <3>1. InSession /\ j \in DOMAIN pending
      BY <2>7 DEF PollPending, InSession, LiveInv, Visits
    <3>2. CASE Fill(j, pending[j].action, pending[j].ref)
      BY <1>1, <3>1, <3>2, FillGrows, HeldOpen DEF Opening
    <3>3. CASE Reject(j, pending[j].action)
      BY <1>1, <3>3, FillGrows
    <3>4. CASE NoFill /\ UNCHANGED results
      BY <2>1, <3>4 DEF NoFill
    <3> QED BY <2>7, <3>2, <3>3, <3>4 DEF PollPending
  <2>8. ASSUME NEW j \in Ids, HandleTimeout(j)
        PROVE  (\A k \in Ids : Grows(k)) /\ (\A k \in positions' \ positions : Ends(k) = {})
    <3>1. Reject(j, pending[j].action) \/ (NoFill /\ UNCHANGED results)
      BY <2>8 DEF HandleTimeout
    <3>2. CASE Reject(j, pending[j].action)
      BY <1>1, <3>2, FillGrows
    <3>3. CASE NoFill /\ UNCHANGED results
      BY <2>1, <3>3 DEF NoFill
    <3> QED BY <3>1, <3>2, <3>3
  <2>9. CASE DrainInbox
    <3>1. PICK m : m = Head(inbox)
      OBVIOUS
    <3>2. InSession /\ inbox # <<>> /\ m \in Items(inbox)
      BY <1>1, <2>9, <3>1, TailRequests DEF DrainInbox, InSession, WireShapes
    <3>3. ASSUME m.id \in Opening \cup DOMAIN limits, NEW ref, FillOpen(m.id, ref)
          PROVE  (\A k \in Ids : Grows(k)) /\ (\A k \in positions' \ positions : Ends(k) = {})
      BY <1>1, <3>2, <3>3, FillGrows, HeldOpen
    <3>4. ASSUME NEW action, Reject(m.id, action)
          PROVE  (\A k \in Ids : Grows(k)) /\ (\A k \in positions' \ positions : Ends(k) = {})
      BY <1>1, <3>4, FillGrows
    <3>5. CASE HandleSubmitResponse(m)
      <4>1. m.action = "OPEN" => m.id \in Opening
        <5>1. m.action = "OPEN" => m.id \in Submitted(inbox, "OPEN")
          BY <3>2, <3>5 DEF HandleSubmitResponse, Submitted, Submits, Items
        <5> QED BY <3>2, <5>1 DEF LiveInv, AnswersDue, Underway
      <4>2. CASE Fill(m.id, m.action, m.ref)
        <5>1. CASE m.action = "OPEN" /\ FillOpen(m.id, m.ref)
          BY <3>3, <4>1, <5>1
        <5>2. CASE positions' = positions \ {m.id} /\ UNCHANGED results
          BY <2>1, <5>2
        <5> QED BY <4>2, <5>1, <5>2 DEF Fill
      <4>3. CASE NoFill /\ UNCHANGED results
        BY <2>1, <4>3 DEF NoFill
      <4> QED BY <3>4, <3>5, <4>2, <4>3 DEF HandleSubmitResponse
    <3>6. CASE HandleLimitSubmitResponse(m)
      BY <2>1, <3>3, <3>4, <3>6 DEF HandleLimitSubmitResponse
    <3>7. CASE HandleModifyResponse(m) \/ HandleCancelResponse(m)
      BY <2>1, <2>2, <3>7 DEF HandleModifyResponse, HandleCancelResponse, NoFill, Outcomes
    <3>8. CASE HandleQueryResponse(m)
      BY <2>1, <3>3, <3>4, <3>8 DEF HandleQueryResponse, NoFill
    <3>9. CASE HandlePositionResponse(m) \/ HandleTradesResponse(m)
      BY <2>1, <3>9 DEF HandlePositionResponse, HandleTradesResponse, NoFill
    <3> QED BY <2>9, <3>1, <3>5, <3>6, <3>7, <3>8, <3>9 DEF DrainInbox
  <2> QED BY <2>3, <2>4, <2>5, <2>6, <2>7, <2>8, <2>9 DEF Next, Cycle
<1> QED BY <1>1, <1>2, GrowsEnds

\* What the main thread and the broker do to the queues.
AsksOther == outbox' = outbox \/ \E x : Class(x) = "other" /\ outbox' = Append(outbox, x)

\* Jobs that neither close a position nor edit its levels.
LEMMA OtherJobs ==
  ASSUME NEW i, NEW ref, NEW price
  PROVE  /\ \A kind \in {"edit", "cancel", "query", "trades"} : Class(OrderJob(kind, i, ref, price)) = "other"
         /\ \A type \in {"MARKET", "LIMIT"} : Class(SubmitJob(i, type, "OPEN", price)) = "other"
BY DEF Class, Submits, OrderJob, SubmitJob

\* A fill asks for nothing of these classes.
LEMMA FillAsks ==
  ASSUME NEW i, NEW action, NEW ref,
         FillOpen(i, ref) \/ Fill(i, action, ref) \/ Reject(i, action) \/ NoFill
  PROVE  AsksOther
BY OtherJobs DEF AsksOther, FillOpen, Fill, Reject, NoFill

\* No handler of an answer does.
LEMMA HandlersAsk ==
  ASSUME NEW m,
         \/ HandleSubmitResponse(m) \/ HandleLimitSubmitResponse(m)
         \/ HandleModifyResponse(m) \/ HandleCancelResponse(m) \/ HandleQueryResponse(m)
         \/ HandlePositionResponse(m) \/ HandleTradesResponse(m)
  PROVE  AsksOther
<1>1. Confirm(m) => AsksOther
  BY OtherJobs DEF Confirm, AsksOther
<1>2. CASE HandleSubmitResponse(m)
  BY <1>2, FillAsks DEF HandleSubmitResponse
<1>3. CASE HandleLimitSubmitResponse(m)
  BY <1>1, <1>3, FillAsks DEF HandleLimitSubmitResponse
<1>4. CASE HandleModifyResponse(m) \/ HandleCancelResponse(m) \/ HandlePositionResponse(m)
  BY <1>4, FillAsks DEF HandleModifyResponse, HandleCancelResponse, HandlePositionResponse
<1>5. CASE HandleQueryResponse(m)
  BY <1>5, FillAsks DEF HandleQueryResponse
<1>6. CASE HandleTradesResponse(m)
  BY <1>6 DEF HandleTradesResponse, AsksOther
<1> QED BY <1>2, <1>3, <1>4, <1>5, <1>6

\* What the main thread may do to the wire.
LEMMA MainWire ==
  ASSUME [Next]_vars, ~Worker
  PROVE  /\ worker' = worker
         /\ inbox' = inbox \/ (DrainInbox /\ inbox # <<>> /\ inbox' = Tail(inbox))
         /\ \/ AsksOther
            \/ \E i \in Ids : ~IsPendingClose(i) /\ ClosePosition(i)
            \/ \E i \in Ids, l \in Levels : ModifyPosition(i, l)
<1>1. CASE Algorithm
  <2>1. worker' = worker /\ inbox' = inbox
    BY <1>1 DEF Algorithm, OpenOrder, ClosePosition, CancelLimitOrder, ModifyLimitOrder, ModifyPosition
  <2>2. ASSUME NEW type \in {"MARKET", "LIMIT"}, NEW p, OpenOrder(type, p) PROVE AsksOther
    BY <2>2, OtherJobs DEF OpenOrder, AsksOther
  <2>3. ASSUME NEW i, CancelLimitOrder(i) PROVE AsksOther
    BY <2>3, OtherJobs DEF CancelLimitOrder, AsksOther
  <2>4. ASSUME NEW i, NEW p, ModifyLimitOrder(i, p) PROVE AsksOther
    BY <2>4, OtherJobs DEF ModifyLimitOrder, AsksOther
  <2> QED BY <1>1, <2>1, <2>2, <2>3, <2>4 DEF Algorithm
<1>2. CASE \/ \E tick \in BOOLEAN : StartCycle(tick)
           \/ InboxDrained \/ PendingPolled \/ TimeoutsHandled \/ CycleEnds
           \/ Reconcile \/ StopWorker \/ Done \/ UNCHANGED vars
           \/ \E ref \in DOMAIN book : BrokerFills(ref) \/ BrokerDrops(ref)
           \/ \E j \in Ids : TimeoutPasses(j)
           \/ CloseAllRemainingOrders
  BY <1>2 DEF StartCycle, InboxDrained, PendingPolled, TimeoutsHandled, CycleEnds, Reconcile,
         StopWorker, Done, vars, BrokerFills, BrokerDrops, queues, TimeoutPasses,
         CloseAllRemainingOrders, AsksOther
<1>3. ASSUME NEW j \in Ids, PollActive(j)
      PROVE  worker' = worker /\ inbox' = inbox /\ AsksOther
  BY <1>3, OtherJobs DEF PollActive, AsksOther
<1>4. ASSUME NEW j \in Ids, PollPending(j)
      PROVE  worker' = worker /\ inbox' = inbox /\ AsksOther
  BY <1>4, FillAsks DEF PollPending
<1>5. ASSUME NEW j \in Ids, HandleTimeout(j)
      PROVE  worker' = worker /\ inbox' = inbox /\ AsksOther
  BY <1>5, FillAsks DEF HandleTimeout
<1>6. CASE DrainInbox
  <2>1. AsksOther
    BY <1>6, HandlersAsk DEF DrainInbox
  <2> QED BY <1>6, <2>1 DEF DrainInbox
<1> QED BY <1>1, <1>2, <1>3, <1>4, <1>5, <1>6 DEF Next, Cycle

-----------------------------------------------------------------------------
(* Stop losses *)

\* No answer about the position was lost, and the portfolio took over what the
\* broker took.
Told(i) == "position" \notin lost[i]
Sure(i) == Told(i) /\ i \notin refused

\* While the modification of a position is on its way, the broker's stop loss
\* is the portfolio's; once it was answered, the answer says which it is.
StopJob(x) ==
  x.kind = "position" =>
    /\ x.id \in DOMAIN mods /\ x.price = mods[x.id]
    /\ x.id \in positions /\ Sure(x.id) => level[x.id] = brokerLevel[x.id]
StopAnswer(m) ==
  m.kind = "position" =>
    /\ m.id \in DOMAIN mods
    /\ m.status = "REJECTED" /\ m.id \in positions /\ Sure(m.id) => brokerLevel[m.id] = level[m.id]
    /\ m.status # "REJECTED" /\ m.id \in positions /\ Told(m.id) => brokerLevel[m.id] = mods[m.id]

\* An order that has not ended has had no modification.
StopOf(i) ==
  /\ i \in positions /\ i \notin DOMAIN mods /\ Sure(i) => level[i] = brokerLevel[i]
  /\ Ends(i) = {} => level[i] = brokerLevel[i] /\ i \notin DOMAIN mods

StopShapes ==
  /\ level \in [Ids -> Nat] /\ brokerLevel \in [Ids -> Nat]
  /\ DOMAIN mods \subseteq Ids /\ mods \in [DOMAIN mods -> Nat]

StopInv ==
  /\ StopShapes /\ Apart("position")
  /\ \A x \in Items(outbox) \cup Items(worker) : StopJob(x)
  /\ \A m \in Items(inbox) : StopAnswer(m)
  /\ \A i \in Ids : StopOf(i)

\* A step that leaves the stop losses alone.
LEMMA StopKept ==
  ASSUME LiveInv, [Next]_vars, StopInv, UNCHANGED stops, LossGrows, UNCHANGED refused, Apart("position")',
         \A x \in Items(outbox') \cup Items(worker') :
           x \in Items(outbox) \cup Items(worker) \/ x.kind # "position",
         \A m \in Items(inbox') : m \in Items(inbox) \/ m.kind # "position"
  PROVE  StopInv'
<1>1. UNCHANGED <<level, mods, brokerLevel>>
  BY DEF stops
<1>2. WireShapes
  BY DEF LiveInv, Shapes
<1>3. \A x \in Items(outbox) \cup Items(worker) \cup Items(inbox) : x.id \in Ids
  BY <1>2, ItemIds
<1>4. \A i \in Ids : i \in DOMAIN mods /\ i \in positions' => i \in positions
  BY HistoryGrows DEF StopInv, StopOf
<1>9. \A i \in Ids : (Sure(i)' => Sure(i)) /\ (Told(i)' => Told(i))
  BY DEF LossGrows, Sure, Told
<1> HIDE DEF Sure, Told
<1>5. \A i \in Ids : StopOf(i)'
  <2>1. SUFFICES ASSUME NEW i \in Ids PROVE StopOf(i)'
    OBVIOUS
  <2>2. /\ StopOf(i) /\ (i \in positions' /\ i \notin positions => Ends(i) = {})
        /\ Ends(i)' = {} => Ends(i) = {}
    BY <2>1, HistoryGrows DEF StopInv
  <2> HIDE DEF Ends
  <2> QED BY <1>1, <1>9, <2>2 DEF StopOf
<1>6. \A x \in Items(outbox) \cup Items(worker) : StopJob(x)'
  BY <1>1, <1>3, <1>4, <1>9 DEF StopInv, StopJob
<1>7. \A m \in Items(inbox) : StopAnswer(m)'
  <2>1. SUFFICES ASSUME NEW m \in Items(inbox), m.kind = "position" PROVE StopAnswer(m)'
    BY DEF StopAnswer
  <2>2. StopAnswer(m) /\ m.id \in Ids
    BY <1>3, <2>1 DEF StopInv
  <2> QED BY <1>1, <1>4, <1>9, <2>1, <2>2 DEF StopAnswer
<1>8. (\A x : x.kind # "position" => StopJob(x)' /\ StopAnswer(x)') /\ StopShapes'
  BY <1>1 DEF StopJob, StopAnswer, StopInv, StopShapes
<1> HIDE DEF StopJob, StopAnswer, StopOf, Apart, StopShapes
<1> QED BY <1>5, <1>6, <1>7, <1>8 DEF StopInv

\* New levels are asked for, one edit at a time.
LEMMA StopModify ==
  ASSUME LiveInv, [Next]_vars, StopInv, NEW i \in Ids, NEW l \in Levels, ModifyPosition(i, l)
  PROVE  StopInv'
<1>1. PICK x : x = [OrderJob("position", i, NoRef, l) EXCEPT !.type = "MARKET"]
  OBVIOUS
<1>2. /\ x.kind = "position" /\ x.id = i /\ x.price = l /\ Class(x) = "position"
      /\ outbox' = Append(outbox, x) /\ UNCHANGED <<worker, inbox, positions, results, level, brokerLevel>>
      /\ i \in positions /\ i \notin DOMAIN mods /\ mods' = Put(mods, i, l) /\ l \in Nat
  BY <1>1, LiveAssumption DEF ModifyPosition, OrderJob, Class, local
<1>3. WireShapes /\ Apart("position") /\ StopShapes
  BY DEF LiveInv, Shapes, StopInv
<1>4. i \notin Wired("position")
  <2>1. \A y \in Items(outbox) \cup Items(worker) \cup Items(inbox) : Class(y) = "position" => y.id # i
    BY <1>2 DEF StopInv, StopJob, StopAnswer, Class, Submits
  <2> QED BY <2>1 DEF Wired, OfClass, Items
<1>5. Apart("position")'
  BY <1>2, <1>3, <1>4, AskedApart
<1>6. Items(outbox') = Items(outbox) \cup {x}
  BY <1>2, <1>3, AskedItems
<1>7. /\ DOMAIN mods' = DOMAIN mods \cup {i} /\ mods'[i] = l
      /\ \A j \in DOMAIN mods \ {i} : mods'[j] = mods[j]
  BY <1>2 DEF Put
<1>8. StopOf(i) /\ Ends(i) # {} /\ \A j \in Ids : Ends(j)' = Ends(j)
  BY <1>2 DEF StopInv, LiveInv, OrderInv, Held, Ends
<1>20. \A j : (Sure(j)' <=> Sure(j)) /\ (Told(j)' <=> Told(j))
  BY DEF ModifyPosition, history, Sure, Told
<1> HIDE DEF Sure, Told
<1>9. \A j \in Ids : StopOf(j)'
  <2>1. SUFFICES ASSUME NEW j \in Ids PROVE StopOf(j)'
    OBVIOUS
  <2>2. StopOf(j)
    BY DEF StopInv
  <2> HIDE DEF Ends
  <2> QED BY <1>2, <1>7, <1>8, <1>20, <2>2 DEF StopOf
<1>10. Sure(i) => level[i] = brokerLevel[i]
  BY <1>2, <1>8 DEF StopOf
<1>11. \A y \in Items(outbox) \cup Items(worker) \cup Items(inbox) : y.kind = "position" => y.id # i
  BY <1>2 DEF StopInv, StopJob, StopAnswer
<1>12. StopJob(x)'
  BY <1>2, <1>7, <1>10, <1>20 DEF StopJob
<1>13. \A y \in Items(outbox) \cup Items(worker) : StopJob(y)'
  BY <1>2, <1>7, <1>11, <1>20 DEF StopInv, StopJob
<1>14. \A y \in Items(inbox) : StopAnswer(y)'
  BY <1>2, <1>7, <1>11, <1>20 DEF StopInv, StopAnswer
<1>15. StopShapes'
  BY <1>2, <1>3, <1>7 DEF StopShapes, Put
<1> HIDE DEF StopJob, StopAnswer, StopOf, Apart, StopShapes
<1> QED BY <1>2, <1>5, <1>6, <1>9, <1>12, <1>13, <1>14, <1>15 DEF StopInv

\* The broker takes the levels over.
LEMMA StopAnswered ==
  ASSUME LiveInv, LossShape, LossGrows, [Next]_vars, StopInv, Dispatch
  PROVE  StopInv'
<1>1. PICK job \in {worker[k] : k \in DOMAIN worker} :
        \/ DispatchSubmit(job) \/ DispatchEdit(job) \/ DispatchCancel(job)
        \/ DispatchQuery(job) \/ DispatchPosition(job) \/ DispatchTrades(job)
  BY DEF Dispatch
<1>2. Shapes /\ WireShapes /\ Worker /\ job \in Items(worker) /\ job.id \in Ids /\ job \in Asked
  BY <1>1, ItemIds DEF LiveInv, Shapes, WireShapes, Worker, Items
<1>3. Apart("position")' /\ Apart("position")
  BY <1>2, WorkerApart DEF StopInv
<1>4. ASSUME NEW ref, NEW st, Answered(job, ref, st)
      PROVE  \E m : /\ m = [kind |-> job.kind, id |-> job.id, type |-> job.type,
                            action |-> job.action, ref |-> ref, status |-> st]
                    /\ m.kind = job.kind /\ m.id = job.id /\ m.status = st
                    /\ Items(inbox') = Items(inbox) \cup {m} /\ Items(worker') = {}
                    /\ Items(worker) = {job}
                    /\ UNCHANGED <<outbox, level, mods, positions, results, refused>>
  <2>1. inbox \in Seq(Answer) /\ worker = <<job>> /\ worker' = <<>>
    BY <1>2, <1>4 DEF WireShapes, Answered
  <2>2. PICK m : m = [kind |-> job.kind, id |-> job.id, type |-> job.type,
                      action |-> job.action, ref |-> ref, status |-> st]
    OBVIOUS
  <2>3. inbox' = Append(inbox, m) /\ UNCHANGED <<outbox, level, mods, positions, results, refused>>
    BY <1>4, <2>2 DEF Answered, local
  <2>4. Items(inbox') = Items(inbox) \cup {m}
    BY <2>1, <2>3, AppendRequests
  <2>5. Items(worker) = {job} /\ Items(worker') = {}
    BY <2>1, OneItem
  <2>6. m.kind = job.kind /\ m.id = job.id /\ m.status = st
    BY <2>2
  <2> QED BY <2>2, <2>3, <2>4, <2>5, <2>6
<1>7. \A i \in Ids : refused' = refused => (Sure(i)' => Sure(i) /\ Told(i)') /\ (Told(i)' => Told(i))
  BY DEF LossGrows, Sure, Told
<1>5. CASE DispatchPosition(job)
  <2>1. PICK st \in {"PENDING", "REJECTED"} :
          /\ Answered(job, job.ref, st)
          /\ \/ brokerLevel' = IF st = "REJECTED" THEN brokerLevel ELSE [brokerLevel EXCEPT ![job.id] = job.price]
             \/ brokerLevel' = [brokerLevel EXCEPT ![job.id] = job.price] /\ Lose(job.id, "position")
    BY <1>5 DEF DispatchPosition, Acknowledged, Refused
  <2>2. PICK m : /\ m.kind = job.kind /\ m.id = job.id /\ m.status = st
                 /\ Items(inbox') = Items(inbox) \cup {m} /\ Items(worker') = {} /\ Items(worker) = {job}
                 /\ UNCHANGED <<outbox, level, mods, positions, results, refused>>
    BY <1>4, <2>1
  <2>12. Lose(job.id, "position") => ~Told(job.id)'
    BY <1>2 DEF Lose, LossShape, Told
  <2> HIDE DEF Sure, Told
  <2>3. StopJob(job) /\ job.kind = "position" /\ Class(job) = "position" /\ StopShapes
    BY <1>2, <1>5 DEF StopInv, DispatchPosition, Class
  <2>4. job.id \in OfClass(worker, "position")
    BY <1>2, <2>3, ItemsOfClass
  <2>5. \A y \in Items(outbox) \cup Items(inbox) : y.kind = "position" => y.id # job.id
    BY <1>3, <2>4, ItemsOfClass DEF Apart, Class
  <2>6. /\ job.id \in DOMAIN mods /\ job.price = mods[job.id] /\ job.price \in Nat
        /\ job.id \in positions /\ Sure(job.id) => level[job.id] = brokerLevel[job.id]
    BY <2>3 DEF StopJob, StopShapes
  <2>7. /\ StopShapes' /\ (\A j \in Ids \ {job.id} : brokerLevel'[j] = brokerLevel[j])
        /\ Told(job.id)' => brokerLevel'[job.id] = IF st = "REJECTED" THEN brokerLevel[job.id] ELSE job.price
    BY <1>2, <2>1, <2>2, <2>3, <2>6, <2>12 DEF StopShapes
  <2>8. StopAnswer(m)'
    BY <1>2, <1>7, <2>2, <2>3, <2>6, <2>7 DEF StopAnswer
  <2>9. \A y \in Items(outbox) : StopJob(y)'
    BY <1>2, <1>7, <2>2, <2>5, <2>7, ItemIds DEF StopInv, StopJob
  <2>10. \A y \in Items(inbox) : StopAnswer(y)'
    <3>1. SUFFICES ASSUME NEW y \in Items(inbox), y.kind = "position" PROVE StopAnswer(y)'
      BY DEF StopAnswer
    <3>2. StopAnswer(y) /\ y.id \in Ids /\ y.id # job.id
      BY <1>2, <2>5, <3>1, ItemIds DEF StopInv
    <3> QED BY <1>7, <2>2, <2>7, <3>1, <3>2 DEF StopAnswer
  <2>11. \A j \in Ids : StopOf(j)'
    <3>1. SUFFICES ASSUME NEW j \in Ids PROVE StopOf(j)'
      OBVIOUS
    <3>2. StopOf(j) /\ StopOf(job.id) /\ Ends(j)' = Ends(j)
      BY <1>2, <2>2 DEF StopInv, Ends
    <3>3. j = job.id => Ends(j) # {} /\ j \in DOMAIN mods
      BY <2>6, <3>2 DEF StopOf
    <3> HIDE DEF Ends
    <3> QED BY <1>7, <2>2, <2>6, <2>7, <3>2, <3>3 DEF StopOf
  <2> HIDE DEF StopJob, StopAnswer, StopOf, Apart, StopShapes
  <2> QED BY <1>3, <2>2, <2>7, <2>8, <2>9, <2>10, <2>11 DEF StopInv
<1>6. CASE ~DispatchPosition(job)
  <2>1. (\E ref, st : Answered(job, ref, st)) /\ brokerLevel' = brokerLevel /\ job.kind # "position"
    BY <1>1, <1>6 DEF DispatchSubmit, DispatchEdit, DispatchCancel, DispatchQuery, DispatchTrades,
                      Acknowledged, Refused
  <2>2. PICK m : /\ m.kind = job.kind
                 /\ Items(inbox') = Items(inbox) \cup {m} /\ Items(worker') = {}
                 /\ UNCHANGED <<outbox, level, mods, refused>>
    BY <1>4, <2>1
  <2> QED BY <1>3, <2>1, <2>2, StopKept DEF stops
<1> QED BY <1>5, <1>6

\* The answer brings the levels home.
LEMMA StopHandled ==
  ASSUME LiveInv, LossGrows, [Next]_vars, StopInv, DrainInbox, NEW m, m = Head(inbox), HandlePositionResponse(m)
  PROVE  StopInv'
<1>1. /\ inbox # <<>> /\ inbox' = Tail(inbox)
      /\ UNCHANGED <<worker, brokerLevel, outbox, positions, results, lost>>
      /\ mods' = Without(mods, {m.id}) /\ m.kind = "position" /\ Class(m) = "position"
      /\ \/ /\ m.id \in positions /\ m.status # "REJECTED"
            /\ level' = [level EXCEPT ![m.id] = mods[m.id]] /\ refused' = refused \ {m.id}
         \/ /\ m.id \in positions /\ m.status # "REJECTED"
            /\ level' = level /\ refused' = refused \cup {m.id}
         \/ /\ m.id \notin positions \/ m.status = "REJECTED"
            /\ level' = level /\ refused' = refused
  BY DEF DrainInbox, HandlePositionResponse, NoFill, Class, TakenByBroker
<1>2. WireShapes /\ Apart("position") /\ StopShapes /\ inbox \in Seq(Answer)
  BY DEF LiveInv, Shapes, StopInv, WireShapes
<1>3. m \in Items(inbox) /\ m.id \in Ids
  BY <1>1, <1>2, TailRequests, ItemIds
<1>4. /\ Apart("position")' /\ Items(inbox') \subseteq Items(inbox)
      /\ m.id \notin OfClass(outbox, "position") \cup OfClass(worker, "position") \cup OfClass(inbox', "position")
  <2>1. inbox' # inbox
    BY <1>1, <1>2
  <2> QED BY <1>1, <1>2, <2>1, AskedApart
<1>5. \A y \in Items(outbox) \cup Items(worker) \cup Items(inbox') : y.kind = "position" => y.id # m.id
  BY <1>4, ItemsOfClass DEF Class
<1>6. /\ m.id \in DOMAIN mods
      /\ m.status = "REJECTED" /\ m.id \in positions /\ Sure(m.id) => brokerLevel[m.id] = level[m.id]
      /\ m.status # "REJECTED" /\ m.id \in positions /\ Told(m.id) => brokerLevel[m.id] = mods[m.id]
  BY <1>1, <1>3 DEF StopInv, StopAnswer
<1>7. /\ DOMAIN mods' = DOMAIN mods \ {m.id} /\ \A j \in DOMAIN mods \ {m.id} : mods'[j] = mods[j]
  BY <1>1 DEF Without
<1>12. \A j \in Ids : (Told(j)' <=> Told(j)) /\ (j # m.id => (Sure(j)' <=> Sure(j)))
  BY <1>1 DEF Told, Sure
<1>8. /\ \A j \in Ids \ {m.id} : level'[j] = level[j]
      /\ m.id \in positions /\ Sure(m.id)' => level'[m.id] = brokerLevel[m.id]
      /\ StopShapes'
  <2>1. mods[m.id] \in Nat
    BY <1>2, <1>6 DEF StopShapes
  <2>2. level' \in [Ids -> Nat] /\ \A j \in Ids \ {m.id} : level'[j] = level[j]
    BY <1>1, <1>2, <1>3, <2>1 DEF StopShapes
  <2>3. m.id \in positions /\ Sure(m.id)' => level'[m.id] = brokerLevel[m.id]
    <3>1. level \in [Ids -> Nat]
      BY <1>2 DEF StopShapes
    <3>2. CASE /\ m.id \in positions /\ m.status # "REJECTED"
               /\ level' = [level EXCEPT ![m.id] = mods[m.id]]
      BY <1>3, <1>6, <1>12, <3>1, <3>2 DEF Sure
    <3>3. CASE refused' = refused \cup {m.id}
      BY <3>3 DEF Sure
    <3>4. CASE m.id \notin positions \/ (m.status = "REJECTED" /\ level' = level /\ refused' = refused)
      BY <1>1, <1>3, <1>6, <1>12, <3>4 DEF Sure
    <3> QED BY <1>1, <3>2, <3>3, <3>4
  <2>4. mods' \in [DOMAIN mods' -> Nat]
    BY <1>1, <1>2 DEF StopShapes, Without
  <2> QED BY <1>1, <1>2, <1>7, <2>2, <2>3, <2>4 DEF StopShapes
<1> HIDE DEF Sure, Told
<1>9. \A y \in Items(outbox) \cup Items(worker) : StopJob(y)'
  <2> SUFFICES ASSUME NEW y \in Items(outbox) \cup Items(worker), y.kind = "position"
               PROVE  StopJob(y)'
    BY DEF StopJob
  <2>1. StopJob(y) /\ y.id \in Ids /\ y.id # m.id
    BY <1>2, <1>5, ItemIds DEF StopInv
  <2>2. /\ y.id \in DOMAIN mods /\ y.price = mods[y.id]
        /\ y.id \in positions /\ Sure(y.id) => level[y.id] = brokerLevel[y.id]
    BY <2>1 DEF StopJob
  <2>3. y.id \in DOMAIN mods' /\ mods'[y.id] = mods[y.id] /\ level'[y.id] = level[y.id]
    BY <1>7, <1>8, <2>1, <2>2
  <2> QED BY <1>1, <1>12, <2>1, <2>2, <2>3 DEF StopJob
<1>10. \A y \in Items(inbox') : StopAnswer(y)'
  <2> SUFFICES ASSUME NEW y \in Items(inbox'), y.kind = "position" PROVE StopAnswer(y)'
    BY DEF StopAnswer
  <2>1. StopAnswer(y) /\ y.id \in Ids /\ y.id # m.id
    BY <1>2, <1>4, <1>5, ItemIds DEF StopInv
  <2>2. /\ y.id \in DOMAIN mods
        /\ y.status = "REJECTED" /\ y.id \in positions /\ Sure(y.id) => brokerLevel[y.id] = level[y.id]
        /\ y.status # "REJECTED" /\ y.id \in positions /\ Told(y.id) => brokerLevel[y.id] = mods[y.id]
    BY <2>1 DEF StopAnswer
  <2>3. y.id \in DOMAIN mods' /\ mods'[y.id] = mods[y.id] /\ level'[y.id] = level[y.id]
    BY <1>7, <1>8, <2>1, <2>2
  <2> QED BY <1>1, <1>12, <2>1, <2>2, <2>3 DEF StopAnswer
<1>11. \A j \in Ids : StopOf(j)'
  <2>1. SUFFICES ASSUME NEW j \in Ids PROVE StopOf(j)'
    OBVIOUS
  <2>2. StopOf(j) /\ StopOf(m.id) /\ Ends(j)' = Ends(j)
    BY <1>1, <1>3 DEF StopInv, Ends
  <2>3. j = m.id => Ends(j) # {}
    BY <1>6, <2>2 DEF StopOf
  <2> HIDE DEF Ends
  <2> QED BY <1>1, <1>3, <1>7, <1>8, <1>12, <2>2, <2>3 DEF StopOf
<1> HIDE DEF StopJob, StopAnswer, StopOf, Apart, StopShapes
<1> QED BY <1>1, <1>4, <1>8, <1>9, <1>10, <1>11 DEF StopInv

\* Every step keeps the levels and the edits on their way together.
LEMMA StopStep ==
  ASSUME LiveInv, LossShape, [Next]_vars, StopInv
  PROVE  StopInv'
<1>1. WireShapes /\ Shapes /\ Apart("position") /\ LossGrows
  BY LossStep DEF LiveInv, Shapes, StopInv
<1>2. CASE Dispatch
  BY <1>1, <1>2, StopAnswered
<1>3. CASE WorkerTakes
  <2>1. Apart("position")'
    BY <1>1, <1>3, WorkerApart DEF Worker
  <2>2. outbox \in Seq(Asked) /\ outbox # <<>> /\ worker' = <<Head(outbox)>> /\ outbox' = Tail(outbox)
        /\ inbox' = inbox /\ UNCHANGED stops /\ refused' = refused
    BY <1>1, <1>3 DEF WorkerTakes, WireShapes, history
  <2>3. Items(outbox') \subseteq Items(outbox) /\ Items(worker') \subseteq Items(outbox)
    <3>1. Items(outbox') \subseteq Items(outbox) /\ Head(outbox) \in Items(outbox)
      BY <2>2, TailRequests
    <3>2. Items(worker') = {Head(outbox)}
      BY <2>2, OneItem
    <3> QED BY <3>1, <3>2
  <2> QED BY <1>1, <2>1, <2>2, <2>3, StopKept
<1>4. CASE ~Worker
  <2>1. /\ worker' = worker
        /\ inbox' = inbox \/ (DrainInbox /\ inbox # <<>> /\ inbox' = Tail(inbox))
        /\ \/ AsksOther
           \/ \E i \in Ids : ~IsPendingClose(i) /\ ClosePosition(i)
           \/ \E i \in Ids, l \in Levels : ModifyPosition(i, l)
    BY <1>4, MainWire
  <2>2. ASSUME NEW i \in Ids, NEW l \in Levels, ModifyPosition(i, l) PROVE StopInv'
    BY <2>2, StopModify
  <2>3. ASSUME DrainInbox, HandlePositionResponse(Head(inbox)) PROVE StopInv'
    BY <1>1, <2>3, StopHandled
  <2>4. ASSUME UNCHANGED stops, UNCHANGED refused,
               outbox' = outbox \/ \E x : x.kind # "position" /\ outbox' = Append(outbox, x)
        PROVE  StopInv'
    <3>1. \A x : x.kind # "position" => Class(x) # "position"
      BY DEF Class
    <3>2. Apart("position")' /\ Items(inbox') \subseteq Items(inbox)
      BY <1>1, <2>1, <2>4, <3>1, AskedApart
    <3>3. \A x \in Items(outbox') : x \in Items(outbox) \/ x.kind # "position"
      BY <1>1, <2>4, AskedItems
    <3> QED BY <1>1, <2>1, <2>4, <3>2, <3>3, StopKept
  <2>5. \A x : Class(x) = "other" => x.kind # "position"
    BY DEF Class
  <2>6. ASSUME UNCHANGED stops, UNCHANGED refused, AsksOther PROVE StopInv'
    BY <2>4, <2>5, <2>6 DEF AsksOther
  <2>7. ASSUME NEW i \in Ids, ClosePosition(i) PROVE StopInv'
    <3>1. SubmitJob(i, "MARKET", "CLOSE", 0).kind # "position"
      BY DEF SubmitJob
    <3> QED BY <2>4, <2>7, <3>1 DEF ClosePosition, history
  <2>8. \/ UNCHANGED stops /\ UNCHANGED refused
        \/ \E i \in Ids, l \in Levels : ModifyPosition(i, l)
        \/ DrainInbox /\ HandlePositionResponse(Head(inbox))
    <3>1. CASE DrainInbox
      BY <3>1 DEF DrainInbox, HandleSubmitResponse, HandleLimitSubmitResponse, HandleModifyResponse,
                  HandleCancelResponse, HandleQueryResponse, HandleTradesResponse, stops
    <3>2. CASE ~DrainInbox
      BY <1>4, <3>2 DEF Next, Algorithm, Cycle, OpenOrder, ClosePosition, CancelLimitOrder, ModifyLimitOrder,
                  StartCycle, InboxDrained, PendingPolled, TimeoutsHandled, CycleEnds, Reconcile,
                  StopWorker, Done, vars, BrokerFills, BrokerDrops, PollActive, TimeoutPasses,
                  PollPending, HandleTimeout, CloseAllRemainingOrders, history
    <3> QED BY <3>1, <3>2
  <2> QED BY <2>1, <2>2, <2>3, <2>6, <2>7, <2>8
<1> QED BY <1>2, <1>3, <1>4 DEF Worker

-----------------------------------------------------------------------------
\* A session that has ended does not go on.
LEMMA StillInSession ==
  ASSUME [Next]_vars, InSession'
  PROVE  InSession
<1>1. SUFFICES ASSUME phase \in {"stopping", "ended"} PROVE phase' \in {"stopping", "ended"}
  BY DEF InSession
<1>2. Algorithm \/ Cycle \/ Reconcile \/ (\E tick \in BOOLEAN : StartCycle(tick)) => FALSE
  BY <1>1 DEF Algorithm, OpenOrder, ClosePosition, CancelLimitOrder, ModifyLimitOrder, ModifyPosition,
       StartCycle, Cycle, DrainInbox, InboxDrained, PendingPolled, TimeoutsHandled, CycleEnds,
       PollPending, HandleTimeout, Reconcile
<1>3. CASE Worker
  <2>1. \A job, ref, st : Answered(job, ref, st) => phase' = phase
    BY DEF Answered
  <2>2. phase' = phase
    BY <1>3, <2>1 DEF Worker, WorkerTakes, Dispatch, DispatchSubmit, DispatchEdit, DispatchCancel, DispatchQuery,
         DispatchPosition, DispatchTrades, Acknowledged, Refused
  <2> QED BY <1>1, <2>2
<1>4. CASE (\E i \in Ids : PollActive(i) \/ TimeoutPasses(i)) \/ StopWorker \/ Done \/ UNCHANGED vars
           \/ CloseAllRemainingOrders \/ \E ref \in DOMAIN book : BrokerFills(ref) \/ BrokerDrops(ref)
  BY <1>1, <1>4 DEF PollActive, TimeoutPasses, StopWorker, Done, vars, CloseAllRemainingOrders, BrokerFills, BrokerDrops
<1> QED BY <1>2, <1>3, <1>4 DEF Next

-----------------------------------------------------------------------------
(* Closes *)

\* A close whose submission or answer is on the wire is tracked without a
\* reference: no reference of an earlier close is overwritten by its answer.
CloseOf(i) == IsPendingClose(i) /\ pending[i].ref = NoRef
CloseInv == InSession => Apart("close") /\ \A i \in Wired("close") : CloseOf(i)

\* A close on its way stays so until its answer is handled.
LEMMA CloseKept ==
  ASSUME LiveInv, [Next]_vars, InSession', NEW i \in Ids, CloseOf(i)
  PROVE  \/ CloseOf(i)'
         \/ DrainInbox /\ Head(inbox).id = i /\ Submits(Head(inbox), "CLOSE")
<1>1. InSession /\ i \in DOMAIN pending /\ pending[i].action = "CLOSE" /\ pending[i].ref = NoRef
  <2>1. InSession
    BY StillInSession
  <2> QED BY <2>1 DEF CloseOf, IsPendingClose
<1>2. OrderShapes /\ Shapes /\ OrderInv /\ AnswersDue /\ Visits
  BY <1>1 DEF LiveInv, Shapes
<1>3. ASSUME pending' = pending PROVE CloseOf(i)'
  BY <1>3 DEF CloseOf, IsPendingClose
<1>4. ASSUME NEW j, j # i, pending' = Without(pending, {j}) PROVE CloseOf(i)'
  BY <1>1, <1>4 DEF CloseOf, IsPendingClose, Without
<1>5. CASE Algorithm
  <2>1. ASSUME NEW type, NEW p, OpenOrder(type, p) PROVE CloseOf(i)'
    <3>1. i # sent + 1
      <4>1. i <= sent /\ i \in Nat /\ sent \in Nat
        BY <1>1, <1>2 DEF OrderInv, Unsent, OrderShapes, Ids
      <4> QED BY <4>1
    <3>2. pending' = pending \/ pending' = Put(pending, sent + 1, NewPending("OPEN"))
      BY <2>1 DEF OpenOrder
    <3> QED BY <1>1, <3>1, <3>2 DEF CloseOf, IsPendingClose, Put
  <2>2. ASSUME NEW j \in Ids, ClosePosition(j) PROVE CloseOf(i)'
    BY <1>1, <2>2 DEF CloseOf, IsPendingClose, Put, ClosePosition, NewPending
  <2>3. ASSUME pending' = pending PROVE CloseOf(i)'
    BY <1>3, <2>3
  <2> QED BY <1>5, <2>1, <2>2, <2>3 DEF Algorithm, CancelLimitOrder, ModifyLimitOrder, ModifyPosition, local
<1>6. CASE Worker
  <2>1. pending' = pending
    BY <1>2, <1>6, WorkerShapes DEF WorkerTakes, Answered, local
  <2> QED BY <1>3, <2>1
<1>7. CASE \/ \E tick \in BOOLEAN : StartCycle(tick)
           \/ InboxDrained \/ PendingPolled \/ TimeoutsHandled \/ CycleEnds
           \/ Reconcile \/ StopWorker \/ Done \/ UNCHANGED vars
           \/ \E ref \in DOMAIN book : BrokerFills(ref) \/ BrokerDrops(ref)
           \/ \E j \in Ids : PollActive(j)
  <2>1. pending' = pending
    BY <1>7 DEF StartCycle, InboxDrained, PendingPolled, TimeoutsHandled, CycleEnds, Reconcile,
         StopWorker, Done, vars, BrokerFills, BrokerDrops, local, PollActive
  <2> QED BY <1>3, <2>1
<1>8. ASSUME NEW j \in Ids, TimeoutPasses(j) PROVE CloseOf(i)'
  BY <1>1, <1>2, <1>8 DEF TimeoutPasses, CloseOf, IsPendingClose, OrderShapes, Tracked0
<1>9. ASSUME NEW j \in Ids, PollPending(j) PROVE CloseOf(i)'
  <2>1. j # i
    BY <1>1, <1>2, <1>9 DEF PollPending, Visits
  <2> QED BY <1>3, <1>4, <1>9, <2>1 DEF PollPending
<1>10. ASSUME NEW j \in Ids, HandleTimeout(j) PROVE CloseOf(i)'
  <2>1. pending[j].ref # NoRef => j # i
    BY <1>1
  <2> QED BY <1>3, <1>4, <1>10, <2>1 DEF HandleTimeout, DropTimedOut
<1>11. CASE DrainInbox
  <2>1. PICK m : m = Head(inbox)
    OBVIOUS
  <2>2. inbox # <<>> /\ m \in Items(inbox) /\ m \in Answer
    BY <1>2, <1>11, <2>1, TailRequests DEF DrainInbox, Shapes, WireShapes, Items
  <2>3. CASE HandleSubmitResponse(m)
    <3>1. CASE m.action = "OPEN"
      <4>1. m.id \in Submitted(inbox, "OPEN")
        BY <2>2, <2>3, <3>1 DEF HandleSubmitResponse, Submitted, Submits, Items
      <4>2. m.id # i
        BY <1>1, <1>2, <4>1 DEF AnswersDue, Underway, Opening
      <4>3. \/ pending' = Without(pending, {m.id})
            \/ pending' = [pending EXCEPT ![m.id].ref = m.ref]
        BY <2>3 DEF HandleSubmitResponse
      <4>4. CASE pending' = [pending EXCEPT ![m.id].ref = m.ref]
        BY <1>1, <4>2, <4>4 DEF CloseOf, IsPendingClose
      <4> QED BY <1>4, <4>2, <4>3, <4>4
    <3>2. CASE m.action = "CLOSE" /\ m.id = i
      BY <1>11, <2>1, <2>3, <3>2 DEF HandleSubmitResponse, Submits
    <3>3. CASE m.action = "CLOSE" /\ m.id # i
      <4>3. \/ pending' = Without(pending, {m.id})
            \/ pending' = [pending EXCEPT ![m.id].ref = m.ref]
        BY <2>3 DEF HandleSubmitResponse
      <4>4. CASE pending' = [pending EXCEPT ![m.id].ref = m.ref]
        BY <1>1, <3>3, <4>4 DEF CloseOf, IsPendingClose
      <4> QED BY <1>4, <3>3, <4>3, <4>4
    <3> QED BY <2>2, <3>1, <3>2, <3>3 DEF Answer
  <2>4. CASE ~HandleSubmitResponse(m)
    <3>1. pending' = pending
      BY <1>11, <2>1, <2>4 DEF DrainInbox, HandleLimitSubmitResponse, HandleModifyResponse,
           HandleCancelResponse, HandleQueryResponse, HandlePositionResponse, HandleTradesResponse
    <3> QED BY <1>3, <3>1
  <2> QED BY <2>3, <2>4
<1>12. ~CloseAllRemainingOrders
  BY DEF CloseAllRemainingOrders, InSession
<1> QED BY <1>5, <1>6, <1>7, <1>8, <1>9, <1>10, <1>11, <1>12 DEF Next, Cycle

\* Every step keeps the closes.
LEMMA CloseStep ==
  ASSUME LiveInv, [Next]_vars, CloseInv
  PROVE  CloseInv'
<1>1. SUFFICES ASSUME InSession' PROVE Apart("close")' /\ \A i \in Wired("close")' : CloseOf(i)'
  BY DEF CloseInv
<1>2. InSession
  BY <1>1, StillInSession
<1>3. Shapes /\ WireShapes /\ Apart("close") /\ \A i \in Wired("close") : CloseOf(i) /\ i \in Ids
  <2>1. WireShapes /\ Shapes
    BY DEF LiveInv, Shapes
  <2>2. \A i \in Wired("close") : i \in Ids
    BY <2>1, ItemIds DEF Wired, OfClass, Items
  <2> QED BY <1>2, <2>1, <2>2 DEF CloseInv
<1>4. CASE Worker
  <2>1. Apart("close")' /\ Wired("close")' = Wired("close")
    BY <1>3, <1>4, WorkerApart
  <2>2. ~DrainInbox
    <3>1. \A x : <<x>> # <<>>
      <4>1. \A x : Items(<<x>>) = {x} /\ Items(<<>>) = {}
        BY OneItem
      <4> QED BY <4>1
    <3>3. WorkerTakes => worker' # worker
      BY <3>1 DEF WorkerTakes
    <3>2. \A job, ref, st : Answered(job, ref, st) => worker' # worker
      BY <3>1 DEF Answered
    <3> QED BY <1>3, <1>4, <3>2, <3>3, WorkerShapes DEF DrainInbox
  <2> QED BY <1>1, <1>3, <2>1, <2>2, CloseKept
<1>5. CASE ~Worker
  <2>1. /\ worker' = worker
        /\ inbox' = inbox \/ (DrainInbox /\ inbox # <<>> /\ inbox' = Tail(inbox))
        /\ \/ AsksOther
           \/ \E i \in Ids : ~IsPendingClose(i) /\ ClosePosition(i)
           \/ \E i \in Ids, l \in Levels : ModifyPosition(i, l)
    BY <1>5, MainWire
  <2>2. ASSUME NEW i \in Ids, ~IsPendingClose(i), ClosePosition(i)
        PROVE  Apart("close")' /\ \A j \in Wired("close")' : CloseOf(j)'
    <3>1. PICK x : x = SubmitJob(i, "MARKET", "CLOSE", 0)
      OBVIOUS
    <3>2. /\ Class(x) = "close" /\ x.id = i /\ outbox' = Append(outbox, x) /\ UNCHANGED <<worker, inbox>>
          /\ pending' = Put(pending, i, NewPending("CLOSE"))
      BY <2>2, <3>1 DEF ClosePosition, SubmitJob, Class, Submits
    <3>3. i \notin Wired("close")
      BY <1>3, <2>2 DEF CloseOf
    <3>4. Apart("close")'
      BY <1>3, <3>2, <3>3, AskedApart
    <3>5. OfClass(outbox', "close") = OfClass(outbox, "close") \cup {i}
      BY <1>3, <3>2, AppendClass DEF WireShapes
    <3>6. \A j \in Wired("close")' : j \in Wired("close") \/ j = i
      BY <3>2, <3>5 DEF Wired
    <3>7. CloseOf(i)'
      BY <3>2 DEF CloseOf, IsPendingClose, Put, NewPending
    <3>8. ~DrainInbox
      BY <2>2 DEF ClosePosition, DrainInbox
    <3> QED BY <1>1, <1>3, <3>4, <3>6, <3>7, <3>8, CloseKept
  <2>3. ASSUME outbox' = outbox \/ \E x : Class(x) # "close" /\ outbox' = Append(outbox, x)
        PROVE  Apart("close")' /\ \A j \in Wired("close")' : CloseOf(j)'
    <3>1. /\ Apart("close")' /\ OfClass(inbox', "close") \subseteq OfClass(inbox, "close")
          /\ inbox' # inbox /\ Class(Head(inbox)) = "close" =>
               Head(inbox).id \notin OfClass(outbox, "close") \cup OfClass(worker, "close") \cup OfClass(inbox', "close")
      BY <1>3, <2>1, <2>3, AskedApart
    <3>2. OfClass(outbox', "close") = OfClass(outbox, "close")
      <4>1. ASSUME NEW x, Class(x) # "close", outbox' = Append(outbox, x)
            PROVE  OfClass(outbox', "close") = OfClass(outbox, "close")
        <5>1. outbox \in Seq(Asked)
          BY <1>3 DEF WireShapes
        <5>2. OfClass(outbox', "close") = OfClass(outbox, "close") \cup (IF Class(x) = "close" THEN {x.id} ELSE {})
          BY <4>1, <5>1, AppendClass
        <5> QED BY <4>1, <5>2
      <4> QED BY <2>3, <4>1
    <3>3. \A j \in Wired("close")' : j \in Wired("close")
      BY <2>1, <3>1, <3>2 DEF Wired
    <3>4. ASSUME DrainInbox, Submits(Head(inbox), "CLOSE") PROVE Head(inbox).id \notin Wired("close")'
      <4>1. Class(Head(inbox)) = "close"
        BY <3>4 DEF Class, Submits
      <4>2. inbox' # inbox
        <5>1. inbox \in Seq(Answer) /\ inbox # <<>> /\ inbox' = Tail(inbox)
          BY <1>3, <3>4 DEF WireShapes, DrainInbox
        <5> QED BY <5>1
      <4> QED BY <2>1, <3>1, <3>2, <4>1, <4>2 DEF Wired
    <3> QED BY <1>1, <1>3, <3>1, <3>3, <3>4, CloseKept
  <2>4. ASSUME NEW i \in Ids, NEW l \in Levels, ModifyPosition(i, l)
        PROVE  \E x : Class(x) # "close" /\ outbox' = Append(outbox, x)
    BY <2>4 DEF ModifyPosition, OrderJob, Class
  <2> QED BY <2>1, <2>2, <2>3, <2>4 DEF AsksOther
<1> QED BY <1>4, <1>5

-----------------------------------------------------------------------------
(* Limit orders *)

\* The broker's limit orders of an order: an order that is edited may have
\* several, one after the other.
Mine(ref, i) == ref \in DOMAIN book /\ book[ref].id = i /\ book[ref].type = "LIMIT"
OnlyGone(i, r) == \A ref \in DOMAIN book : Mine(ref, i) /\ ref # r => book[ref].status = "gone"
NoneOpen(i) == \A ref \in DOMAIN book : Mine(ref, i) => book[ref].status # "open"
At(ref, st) == ref \in DOMAIN book /\ book[ref].status = st
Market(ref, i) ==
  ref \in DOMAIN book /\ book[ref].id = i /\ book[ref].type = "MARKET" /\ book[ref].action = "OPEN"

\* An edit the broker has made and the executor has not heard of yet.
Accepted(m) == m.kind = "edit" /\ m.status # "REJECTED"
Replaced(i) == \E m \in Items(inbox) : Accepted(m) /\ m.id = i

JobAgrees(x) ==
  /\ x.kind = "submit" /\ x.type = "LIMIT" => x.id \in DOMAIN limits /\ OnlyGone(x.id, NoRef)
  /\ x.kind = "edit" => Mine(x.ref, x.id)
  /\ x.kind = "cancel" /\ x.id \in DOMAIN limits => x.ref = limits[x.id].ref
  /\ x.kind = "query" => x.ref \in DOMAIN book

AnswerAgrees(m) ==
  /\ m.kind = "submit" /\ m.type = "LIMIT" =>
       /\ m.id \in DOMAIN limits
       /\ IF m.status = "REJECTED" THEN OnlyGone(m.id, NoRef)
                                   ELSE OnlyGone(m.id, m.ref) /\ Mine(m.ref, m.id)
  /\ m.kind = "submit" /\ m.type = "MARKET" /\ m.action = "OPEN" /\ m.status # "REJECTED" =>
       Market(m.ref, m.id)
  /\ m.kind = "submit" /\ m.status = "FILLED" => At(m.ref, "filled")
  /\ Accepted(m) => m.id \in DOMAIN limits /\ Mine(m.ref, m.id) /\ OnlyGone(m.id, m.ref)
  /\ m.kind = "cancel" /\ m.status # "REJECTED" =>
       At(m.ref, "gone") /\ (m.id \in DOMAIN limits => m.ref = limits[m.id].ref)
  /\ m.kind = "query" =>
       /\ m.status # "REJECTED"
       /\ m.status = "FILLED" => At(m.ref, "filled")
       /\ m.status = "CANCELLED" => At(m.ref, "gone")

\* What the executor tracks, and what it has reported.
Resolved(i, o) ==
  /\ o \in {"EXECUTED", "NO_FUNDS"} =>
       \E ref \in DOMAIN book : Market(ref, i) \/ (Mine(ref, i) /\ At(ref, "filled"))
  /\ o \in {"REJECTED", "CANCELLED"} => OnlyGone(i, NoRef)
OrderAgrees(i) ==
  /\ i \in DOMAIN limits /\ limits[i].ref # NoRef =>
       Mine(limits[i].ref, i) /\ (OnlyGone(i, limits[i].ref) \/ Replaced(i))
  /\ i \notin DOMAIN limits => NoneOpen(i)
  /\ i \in Opening => OnlyGone(i, NoRef) /\ (pending[i].ref # NoRef => Market(pending[i].ref, i))
  /\ i > sent => OnlyGone(i, NoRef)
  /\ \A k \in DOMAIN results[i] : Resolved(i, results[i][k])

\* The answer to a query that overtook an edit says that the order works.
Asking(m, i, orders) == m.kind = "query" /\ m.id = i /\ i \in DOMAIN orders /\ m.ref = orders[i].ref
Ordered(q, orders) ==
  \A j, k \in DOMAIN q :
    k < j /\ Accepted(q[j]) /\ Asking(q[k], q[j].id, orders) => q[k].status = "PENDING"
HeardLimits == [i \in DOMAIN limits \cap Heard |-> limits[i]]
InOrder == Ordered(inbox, HeardLimits)

\* All this of the orders whose every answer arrived.
JobMirrors(x) == x.id \in Heard => JobAgrees(x)
AnswerMirrors(m) == m.id \in Heard => AnswerAgrees(m)
OrderMirrors(i) == i \in Heard => OrderAgrees(i)
FewerHeard == Heard' \subseteq Heard

Mirrors ==
  /\ \A x \in Items(outbox) \cup Items(worker) : JobMirrors(x)
  /\ \A m \in Items(inbox) : AnswerMirrors(m)
  /\ \A i \in Ids : OrderMirrors(i)
  /\ InOrder
MirrorInv == InSession => Mirrors

\* The broker forgets no order and changes none that is decided; a new limit
\* order belongs to n.
BookMoves(n) ==
  /\ \A ref \in DOMAIN book :
       /\ ref \in DOMAIN book' /\ book'[ref].id = book[ref].id
       /\ book'[ref].type = book[ref].type /\ book'[ref].action = book[ref].action
       /\ book[ref].status # "open" => book'[ref].status = book[ref].status
  /\ \A ref \in DOMAIN book' \ DOMAIN book : book'[ref].type = "LIMIT" => book'[ref].id = n

\* What a move of one order leaves true of the book.
LEMMA BookFacts ==
  ASSUME NEW n, BookMoves(n)
  PROVE  /\ \A ref, i : Mine(ref, i) => Mine(ref, i)'
         /\ \A ref, i : Market(ref, i) => Market(ref, i)'
         /\ \A ref : At(ref, "filled") => At(ref, "filled")'
         /\ \A ref : At(ref, "gone") => At(ref, "gone")'
         /\ \A ref : ref \in DOMAIN book => ref \in DOMAIN book'
         /\ \A i, r : i # n /\ OnlyGone(i, r) => OnlyGone(i, r)'
         /\ \A i : i # n /\ NoneOpen(i) => NoneOpen(i)'
         /\ \A i, o : i # n /\ Resolved(i, o) => Resolved(i, o)'
<1>1. \A ref, i : Mine(ref, i) => Mine(ref, i)'
  BY DEF BookMoves, Mine
<1>2. \A ref, i : i # n /\ Mine(ref, i)' => Mine(ref, i)
  BY DEF BookMoves, Mine
<1>3. \A ref, i : Market(ref, i) => Market(ref, i)'
  BY DEF BookMoves, Market
<1>4. \A ref : (At(ref, "filled") => At(ref, "filled")') /\ (At(ref, "gone") => At(ref, "gone")')
  BY DEF BookMoves, At
<1>5. \A i, r : i # n /\ OnlyGone(i, r) => OnlyGone(i, r)'
  BY <1>2 DEF BookMoves, OnlyGone, Mine
<1>6. \A i : i # n /\ NoneOpen(i) => NoneOpen(i)'
  BY <1>2 DEF BookMoves, NoneOpen, Mine
<1>7. \A ref : ref \in DOMAIN book => ref \in DOMAIN book'
  BY DEF BookMoves
<1> HIDE DEF Mine, Market, At, OnlyGone, NoneOpen
<1>8. \A i, o : i # n /\ Resolved(i, o) => Resolved(i, o)'
  BY <1>1, <1>3, <1>4, <1>5, <1>7 DEF Resolved
<1> QED BY <1>1, <1>3, <1>4, <1>5, <1>6, <1>7, <1>8

\* What the executor knows of an order is as before.
SameOrder(i) ==
  /\ i \in DOMAIN limits' <=> i \in DOMAIN limits
  /\ i \in DOMAIN limits => limits'[i].ref = limits[i].ref
  /\ i \in Opening' => i \in Opening /\ pending'[i].ref = pending[i].ref
  /\ results'[i] = results[i]
  /\ i > sent' => i > sent
  /\ Replaced(i) => Replaced(i)'

\* An order nobody touched stays mirrored.
LEMMA MirrorKept ==
  ASSUME NEW n, BookMoves(n), FewerHeard, NEW i, i # n, SameOrder(i)
  PROVE  /\ OrderMirrors(i) => OrderMirrors(i)'
         /\ \A x : x.id = i => /\ JobMirrors(x) => JobMirrors(x)'
                               /\ AnswerMirrors(x) => AnswerMirrors(x)'
<1>1. /\ \A ref : Mine(ref, i) => Mine(ref, i)'
      /\ \A ref : Market(ref, i) => Market(ref, i)'
      /\ \A ref : At(ref, "filled") => At(ref, "filled")'
      /\ \A ref : At(ref, "gone") => At(ref, "gone")'
      /\ \A ref : ref \in DOMAIN book => ref \in DOMAIN book'
      /\ \A r : OnlyGone(i, r) => OnlyGone(i, r)'
      /\ NoneOpen(i) => NoneOpen(i)'
      /\ \A o : Resolved(i, o) => Resolved(i, o)'
  BY BookFacts
<1> HIDE DEF Mine, Market, At, OnlyGone, NoneOpen, Resolved, Replaced, Opening
<1>2. OrderAgrees(i) => OrderAgrees(i)'
  BY <1>1 DEF OrderAgrees, SameOrder
<1>3. ASSUME NEW x, x.id = i, JobAgrees(x) PROVE JobAgrees(x)'
  BY <1>1, <1>3 DEF JobAgrees, SameOrder
<1>4. ASSUME NEW x, x.id = i, AnswerAgrees(x) PROVE AnswerAgrees(x)'
  BY <1>1, <1>4 DEF AnswerAgrees, SameOrder, Accepted
<1>5. \A j : j \in Heard' => j \in Heard
  BY DEF FewerHeard
<1> HIDE DEF Heard, OrderAgrees, JobAgrees, AnswerAgrees
<1> QED BY <1>2, <1>3, <1>4, <1>5 DEF OrderMirrors, JobMirrors, AnswerMirrors

\* A step that concerns order n only.
LEMMA MirrorsOne ==
  ASSUME NEW n, BookMoves(n), WireShapes, Mirrors, FewerHeard, \A i \in Ids \ {n} : SameOrder(i),
         n \in Ids => OrderMirrors(n)',
         \A x \in Items(outbox') \cup Items(worker') :
           (x \in Items(outbox) \cup Items(worker) /\ x.id # n) \/ JobMirrors(x)',
         \A m \in Items(inbox') : (m \in Items(inbox) /\ m.id # n) \/ AnswerMirrors(m)',
         InOrder'
  PROVE  Mirrors'
<1>1. \A x \in Items(outbox) \cup Items(worker) \cup Items(inbox) : x.id \in Ids
  BY ItemIds
<1>2. ASSUME NEW i \in Ids \ {n}
      PROVE  /\ OrderMirrors(i)'
             /\ \A x \in Items(outbox) \cup Items(worker) : x.id = i => JobMirrors(x)'
             /\ \A m \in Items(inbox) : m.id = i => AnswerMirrors(m)'
  BY <1>2, MirrorKept DEF Mirrors
<1> HIDE DEF JobMirrors, AnswerMirrors, OrderMirrors, InOrder
<1>3. \A i \in Ids : OrderMirrors(i)'
  BY <1>2
<1>4. \A x \in Items(outbox') \cup Items(worker') : JobMirrors(x)'
  BY <1>1, <1>2
<1>5. \A m \in Items(inbox') : AnswerMirrors(m)'
  BY <1>1, <1>2
<1> QED BY <1>3, <1>4, <1>5 DEF Mirrors

\* An answer that comes last stays behind those it replaces.
LEMMA OrderedAppend ==
  ASSUME NEW S, NEW q \in Seq(S), NEW orders, Ordered(q, orders), NEW m,
         Accepted(m) => \A a \in Items(q) : Asking(a, m.id, orders) => a.status = "PENDING"
  PROVE  Ordered(Append(q, m), orders)
<1> DEFINE p == Append(q, m)
<1>1. /\ DOMAIN p = DOMAIN q \cup {Len(q) + 1} /\ p[Len(q) + 1] = m
      /\ \A k \in DOMAIN q : p[k] = q[k] /\ k \in Nat /\ k < Len(q) + 1
      /\ Len(q) + 1 \in Nat
  OBVIOUS
<1> HIDE DEF p
<1>2. ASSUME NEW j \in DOMAIN p, NEW k \in DOMAIN p, k < j, Accepted(p[j]), Asking(p[k], p[j].id, orders)
      PROVE  p[k].status = "PENDING"
  <2>1. k \in DOMAIN q
    BY <1>1, <1>2
  <2>2. CASE j \in DOMAIN q
    BY <1>1, <1>2, <2>1, <2>2 DEF Ordered
  <2>3. CASE j = Len(q) + 1
    BY <1>1, <1>2, <2>1, <2>3 DEF Items
  <2> QED BY <1>1, <2>2, <2>3
<1>3. Ordered(p, orders)
  BY <1>2 DEF Ordered
<1> QED BY <1>3 DEF p

\* Handling the first answer keeps the rest in order.
LEMMA OrderedTail ==
  ASSUME NEW S, NEW q \in Seq(S), q # <<>>, NEW orders, Ordered(q, orders)
  PROVE  /\ Ordered(Tail(q), orders)
         /\ \A m \in Items(q) : Accepted(m) /\ Asking(Head(q), m.id, orders) => Head(q).status = "PENDING"
<1> DEFINE p == Tail(q)
<1>1. /\ DOMAIN p = 1..(Len(q) - 1) /\ Head(q) = q[1] /\ DOMAIN q = 1..Len(q)
      /\ \A k \in 1..(Len(q) - 1) : p[k] = q[k + 1]
      /\ Len(q) \in Nat /\ Len(q) >= 1
  OBVIOUS
<1> HIDE DEF p
<1>2. ASSUME NEW k \in DOMAIN p PROVE k + 1 \in DOMAIN q /\ p[k] = q[k + 1] /\ k \in Nat
  BY <1>1, <1>2
<1>3. ASSUME NEW j \in DOMAIN p, NEW k \in DOMAIN p, k < j, Accepted(p[j]), Asking(p[k], p[j].id, orders)
      PROVE  p[k].status = "PENDING"
  <2>1. k + 1 < j + 1
    BY <1>2, <1>3
  <2> QED BY <1>2, <1>3, <2>1 DEF Ordered
<1>4. Ordered(p, orders)
  BY <1>3 DEF Ordered
<1>5. ASSUME NEW k \in DOMAIN q, Accepted(q[k]), Asking(q[1], q[k].id, orders)
      PROVE  q[1].status = "PENDING"
  <2>1. k # 1
    BY <1>5 DEF Accepted, Asking
  <2>2. 1 < k /\ 1 \in DOMAIN q
    BY <1>1, <2>1
  <2> QED BY <1>5, <2>2 DEF Ordered
<1> QED BY <1>1, <1>4, <1>5 DEF p, Items

\* What changed of the orders concerns no edit whose answer is still to come.
LEMMA OrderedElse ==
  ASSUME NEW q, NEW orders, NEW orders2, Ordered(q, orders),
         \A m \in Items(q) : Accepted(m) /\ m.id \in DOMAIN orders2 =>
           m.id \in DOMAIN orders /\ orders2[m.id].ref = orders[m.id].ref
  PROVE  Ordered(q, orders2)
BY DEF Ordered, Items, Asking

\* Answers stay in order when the main thread takes one.
LEMMA StaysInOrder ==
  ASSUME WireShapes, InOrder, FewerHeard, inbox' = inbox \/ (inbox # <<>> /\ inbox' = Tail(inbox)),
         \A i : Replaced(i)' /\ i \in Heard' /\ i \in DOMAIN limits' =>
                  i \in DOMAIN limits /\ limits'[i].ref = limits[i].ref
  PROVE  InOrder'
<1>1. inbox \in Seq(Answer)
  BY DEF WireShapes
<1>2. Ordered(inbox', HeardLimits)
  <2>1. CASE inbox' = inbox
    BY <2>1 DEF InOrder
  <2>2. CASE inbox # <<>> /\ inbox' = Tail(inbox)
    BY <1>1, <2>2, OrderedTail DEF InOrder
  <2> QED BY <2>1, <2>2
<1>3. \A m \in Items(inbox') : Accepted(m) /\ m.id \in DOMAIN HeardLimits' =>
        m.id \in DOMAIN HeardLimits /\ HeardLimits'[m.id].ref = HeardLimits[m.id].ref
  <2>1. \A m \in Items(inbox') : Accepted(m) => Replaced(m.id)'
    BY DEF Replaced
  <2> HIDE DEF Heard, Replaced, Items
  <2> QED BY <2>1 DEF HeardLimits, FewerHeard
<1>4. Ordered(inbox', HeardLimits')
  BY <1>2, <1>3, OrderedElse
<1> QED BY <1>4 DEF InOrder

\* The broker's book is as before, but for orders that worked.
BookStays == BookMoves(0) /\ DOMAIN book' = DOMAIN book

\* A book that stays as it is.
LEMMA BookSame ==
  ASSUME WireShapes
  PROVE  /\ book' = book => BookStays
         /\ BookStays => \A n : BookMoves(n)
BY DEF BookStays, BookMoves

\* A step that asks at most for one thing, and changes nothing the broker has
\* to agree with.
LEMMA MirrorsQuiet ==
  ASSUME WireShapes, Mirrors, FewerHeard, BookStays, \A i \in Ids : SameOrder(i), UNCHANGED worker,
         inbox' = inbox,
         outbox' = outbox \/ \E x : outbox' = Append(outbox, x) /\ JobMirrors(x)'
  PROVE  Mirrors'
<1>1. 0 \notin Ids /\ BookMoves(0) /\ outbox \in Seq(Asked)
  BY ItemIds DEF BookStays, WireShapes
<1>2. \A x \in Items(outbox) \cup Items(worker) \cup Items(inbox) : x.id # 0 /\ x.id \in Ids
  BY ItemIds
<1>3. \A i : Replaced(i)' => i \in Ids
  BY <1>2 DEF Replaced
<1>4. InOrder'
  <2>1. \A i \in Ids : i \in DOMAIN limits' => i \in DOMAIN limits /\ limits'[i].ref = limits[i].ref
    BY DEF SameOrder
  <2> QED BY <1>3, <2>1, StaysInOrder DEF Mirrors
<1>5. \A x \in Items(outbox') : x \in Items(outbox) \/ JobMirrors(x)'
  <2>1. ASSUME NEW x, outbox' = Append(outbox, x) PROVE Items(outbox') = Items(outbox) \cup {x}
    BY <1>1, <2>1, AppendRequests
  <2> HIDE DEF JobMirrors, Items
  <2> QED BY <2>1
<1> HIDE DEF JobMirrors, AnswerMirrors, OrderMirrors, InOrder, SameOrder, Items
<1> QED BY <1>1, <1>2, <1>4, <1>5, MirrorsOne

\* The orders, up to what their shadow state says besides the reference.
SameLimits ==
  /\ DOMAIN limits' = DOMAIN limits
  /\ \A i \in DOMAIN limits : limits'[i].ref = limits[i].ref
SamePending ==
  \A i \in Opening' : i \in Opening /\ pending'[i].ref = pending[i].ref

\* Orders, references and results that stay as they are.
LEMMA SameOrders ==
  ASSUME SameLimits, SamePending, UNCHANGED <<results, sent, inbox>>
  PROVE  \A i \in Ids : SameOrder(i)
<1>1. \A i : Replaced(i)' = Replaced(i)
  BY DEF Replaced
<1> QED BY <1>1 DEF SameOrder, SameLimits, SamePending

\* Unchanged functions.
LEMMA SameParts ==
  /\ limits' = limits => SameLimits
  /\ pending' = pending => SamePending
BY DEF SameLimits, SamePending, Opening

\* The broker fills or drops an order, or some are cancelled.
LEMMA BookChanges ==
  ASSUME WireShapes,
         \/ \E ref \in DOMAIN book : BrokerFills(ref) \/ BrokerDrops(ref)
         \/ \E refs : CancelSync(refs)
         \/ \E ref \in DOMAIN book, st \in {"filled", "gone"} :
              IsOpen(ref) /\ book' = [book EXCEPT ![ref].status = st]
  PROVE  BookStays
<1>1. book \in Seq(BookRecord) /\ \A ref \in DOMAIN book : book[ref] \in BookRecord
  BY DEF WireShapes
<1>2. ASSUME NEW ref \in DOMAIN book, NEW st \in {"filled", "gone"}, IsOpen(ref),
             book' = [book EXCEPT ![ref].status = st]
      PROVE  BookStays
  <2>1. DOMAIN book' = DOMAIN book /\ book'[ref] = [book[ref] EXCEPT !.status = st]
        /\ \A r \in DOMAIN book \ {ref} : book'[r] = book[r]
    BY <1>2
  <2>2. book'[ref].id = book[ref].id /\ book'[ref].type = book[ref].type /\ book'[ref].action = book[ref].action
    BY <1>1, <2>1 DEF BookRecord
  <2> QED BY <1>2, <2>1, <2>2 DEF BookStays, BookMoves, IsOpen
<1>3. ASSUME NEW refs, CancelSync(refs) PROVE BookStays
  <2>1. PICK done \in SUBSET {r \in refs : IsOpen(r)} :
          book' = [r \in DOMAIN book |-> IF r \in done THEN [book[r] EXCEPT !.status = "gone"] ELSE book[r]]
    BY <1>3 DEF CancelSync
  <2>2. DOMAIN book' = DOMAIN book /\ \A r \in DOMAIN book : book'[r] = IF r \in done THEN [book[r] EXCEPT !.status = "gone"] ELSE book[r]
    BY <2>1
  <2>3. \A r \in DOMAIN book : book'[r].id = book[r].id /\ book'[r].type = book[r].type /\ book'[r].action = book[r].action
    BY <1>1, <2>2 DEF BookRecord
  <2>4. \A r \in DOMAIN book : book[r].status # "open" => book'[r] = book[r]
    BY <2>1, <2>2 DEF IsOpen
  <2> QED BY <2>2, <2>3, <2>4 DEF BookStays, BookMoves
<1> QED BY <1>2, <1>3 DEF BrokerFills, BrokerDrops

\* Steps that ask for nothing.
LEMMA QuietMirrors ==
  ASSUME LiveInv, Mirrors,
         \/ \E tick \in BOOLEAN : StartCycle(tick)
         \/ InboxDrained \/ PendingPolled \/ TimeoutsHandled \/ CycleEnds
         \/ Reconcile \/ Done \/ UNCHANGED vars
         \/ \E ref \in DOMAIN book : BrokerFills(ref) \/ BrokerDrops(ref)
         \/ \E i \in Ids : TimeoutPasses(i)
  PROVE  Mirrors'
<1>1. WireShapes /\ OrderShapes
  BY DEF LiveInv, Shapes
<1>2. UNCHANGED <<limits, results, sent, outbox, worker, inbox>>
  BY DEF StartCycle, InboxDrained, PendingPolled, TimeoutsHandled, CycleEnds, Reconcile, Done, vars,
         BrokerFills, BrokerDrops, local, queues, TimeoutPasses
<1>3. BookStays
  <2>1. book' = book \/ \E ref \in DOMAIN book : BrokerFills(ref) \/ BrokerDrops(ref)
    BY DEF StartCycle, InboxDrained, PendingPolled, TimeoutsHandled, CycleEnds, Reconcile, Done, vars,
           TimeoutPasses
  <2> QED BY <1>1, <2>1, BookSame, BookChanges
<1>4. SamePending
  <2>1. ASSUME NEW i \in Ids, TimeoutPasses(i) PROVE SamePending
    BY <1>1, <2>1 DEF TimeoutPasses, SamePending, Opening, OrderShapes, Tracked0
  <2>2. pending' = pending \/ \E i \in Ids : TimeoutPasses(i)
    BY DEF StartCycle, InboxDrained, PendingPolled, TimeoutsHandled, CycleEnds, Reconcile, Done, vars,
           BrokerFills, BrokerDrops, local
  <2> QED BY <2>1, <2>2, SameParts
<1>5. \A i \in Ids : SameOrder(i)
  BY <1>2, <1>4, SameOrders, SameParts
<1>6. FewerHeard
  <2>1. lost' = lost
    BY DEF StartCycle, InboxDrained, PendingPolled, TimeoutsHandled, CycleEnds, Reconcile, Done, vars,
           BrokerFills, BrokerDrops, TimeoutPasses, history
  <2> QED BY <2>1 DEF FewerHeard, Heard
<1> HIDE DEF Mirrors
<1> QED BY <1>1, <1>2, <1>3, <1>5, <1>6, MirrorsQuiet

\* Steps that only ask for something.
LEMMA AskingMirrors ==
  ASSUME LiveInv, Mirrors,
         \/ \E i \in Ids : ClosePosition(i) /\ i \notin Opening
         \/ \E i \in Ids : CancelLimitOrder(i)
         \/ \E i \in Ids, p \in Prices : ModifyLimitOrder(i, p)
         \/ \E i \in Ids, l \in Levels : ModifyPosition(i, l)
         \/ \E i \in Ids : PollActive(i)
  PROVE  Mirrors'
<1>1. WireShapes /\ OrderShapes /\ (DOMAIN limits \subseteq Ids)
  BY DEF LiveInv, Shapes, OrderShapes
<1>2. UNCHANGED <<results, sent, worker, inbox, book>>
  BY DEF ClosePosition, CancelLimitOrder, ModifyLimitOrder, ModifyPosition, PollActive, local
<1>3. BookStays
  BY <1>1, <1>2, BookSame
<1>12. FewerHeard
  <2>1. lost' = lost
    BY DEF ClosePosition, CancelLimitOrder, ModifyLimitOrder, ModifyPosition, PollActive, history
  <2> QED BY <2>1 DEF FewerHeard, Heard
<1>4. \A i \in Ids \cap Heard : i \in DOMAIN limits /\ limits[i].ref # NoRef => Mine(limits[i].ref, i)
  BY DEF Mirrors, OrderMirrors, OrderAgrees
<1>5. \A ref, i : Mine(ref, i) => Mine(ref, i)' /\ ref \in DOMAIN book'
  BY <1>2 DEF Mine
<1>6. ASSUME SameLimits, SamePending, outbox' = outbox \/ \E x : outbox' = Append(outbox, x) /\ JobMirrors(x)'
      PROVE  Mirrors'
  <2>1. \A i \in Ids : SameOrder(i)
    BY <1>2, <1>6, SameOrders
  <2> HIDE DEF Mirrors, JobMirrors
  <2> QED BY <1>1, <1>2, <1>3, <1>6, <1>12, <2>1, MirrorsQuiet
<1>7. ASSUME NEW i \in Ids, ClosePosition(i), i \notin Opening PROVE Mirrors'
  <2>1. PICK x : x = SubmitJob(i, "MARKET", "CLOSE", 0)
    OBVIOUS
  <2>2. outbox' = Append(outbox, x) /\ JobMirrors(x)' /\ limits' = limits
    BY <1>7, <2>1 DEF ClosePosition, SubmitJob, JobMirrors, JobAgrees
  <2>3. SamePending
    BY <1>7 DEF ClosePosition, SamePending, Opening, Put, NewPending
  <2> QED BY <1>6, <2>2, <2>3, SameParts
<1>8. ASSUME NEW i \in Ids, CancelLimitOrder(i) PROVE Mirrors'
  <2>1. SameLimits /\ pending' = pending /\ i \in DOMAIN limits
    <3>1. /\ i \in DOMAIN limits /\ pending' = pending
          /\ \/ limits' = [limits EXCEPT ![i].cancelRequested = TRUE]
             \/ limits' = [limits EXCEPT ![i].op = "PENDING_CANCEL"]
      BY <1>8 DEF CancelLimitOrder
    <3>2. limits[i] \in Resting /\ limits \in [DOMAIN limits -> Resting]
      BY <1>1, <3>1 DEF OrderShapes
    <3>3. CASE limits' = [limits EXCEPT ![i].cancelRequested = TRUE]
      BY <3>1, <3>2, <3>3 DEF SameLimits, Resting
    <3>4. CASE limits' = [limits EXCEPT ![i].op = "PENDING_CANCEL"]
      BY <3>1, <3>2, <3>4 DEF SameLimits, Resting
    <3> QED BY <3>1, <3>3, <3>4
  <2>2. PICK x : x = OrderJob("cancel", i, limits[i].ref, 0)
    OBVIOUS
  <2>3. x.kind = "cancel" /\ x.id = i /\ x.ref = limits[i].ref
    BY <2>2 DEF OrderJob
  <2>4. JobMirrors(x)'
    BY <2>1, <2>3 DEF JobMirrors, JobAgrees, SameLimits
  <2> QED BY <1>6, <1>8, <2>1, <2>2, <2>4, SameParts DEF CancelLimitOrder
<1>9. ASSUME NEW i \in Ids, NEW p \in Prices, ModifyLimitOrder(i, p) PROVE Mirrors'
  <2>1. SameLimits /\ pending' = pending /\ i \in DOMAIN limits /\ limits[i].ref # NoRef
    <3>1. /\ i \in DOMAIN limits /\ limits[i].ref # NoRef /\ pending' = pending
          /\ limits' = [limits EXCEPT ![i].op = "PENDING_MODIFY", ![i].mod = p]
      BY <1>9 DEF ModifyLimitOrder
    <3>2. /\ DOMAIN limits' = DOMAIN limits /\ \A j \in DOMAIN limits \ {i} : limits'[j] = limits[j]
          /\ limits'[i] = [limits[i] EXCEPT !.op = "PENDING_MODIFY", !.mod = p]
      BY <1>1, <3>1 DEF OrderShapes
    <3>3. limits[i] \in Resting
      BY <1>1, <3>1 DEF OrderShapes
    <3>4. limits'[i].ref = limits[i].ref
      BY <3>2, <3>3 DEF Resting
    <3> QED BY <3>1, <3>2, <3>4 DEF SameLimits
  <2>2. PICK x : x = OrderJob("edit", i, limits[i].ref, p)
    OBVIOUS
  <2>3. x.kind = "edit" /\ x.id = i /\ x.ref = limits[i].ref
    BY <2>2 DEF OrderJob
  <2>4. JobMirrors(x)'
    BY <1>4, <1>5, <1>12, <2>1, <2>3 DEF JobMirrors, JobAgrees, FewerHeard
  <2> QED BY <1>6, <1>9, <2>1, <2>2, <2>4, SameParts DEF ModifyLimitOrder
<1>10. ASSUME NEW i \in Ids, NEW l \in Levels, ModifyPosition(i, l) PROVE Mirrors'
  <2>1. PICK x : x = [OrderJob("position", i, NoRef, l) EXCEPT !.type = "MARKET"]
    OBVIOUS
  <2>2. outbox' = Append(outbox, x) /\ JobMirrors(x)' /\ limits' = limits /\ pending' = pending
    BY <1>10, <2>1 DEF ModifyPosition, OrderJob, JobMirrors, JobAgrees, local
  <2> QED BY <1>6, <2>2, SameParts
<1>11. ASSUME NEW i \in Ids, PollActive(i) PROVE Mirrors'
  <2>1. SameLimits /\ pending' = pending /\ i \in DOMAIN limits /\ limits[i].ref # NoRef
    BY <1>1, <1>11 DEF PollActive, SameLimits, OrderShapes, Resting
  <2>2. PICK x : x = OrderJob("query", i, limits[i].ref, 0)
    OBVIOUS
  <2>3. x.kind = "query" /\ x.id = i /\ x.ref = limits[i].ref
    BY <2>2 DEF OrderJob
  <2>4. JobMirrors(x)'
    BY <1>4, <1>5, <1>12, <2>1, <2>3 DEF JobMirrors, JobAgrees, FewerHeard
  <2> QED BY <1>6, <1>11, <2>1, <2>2, <2>4, SameParts DEF PollActive
<1> QED BY <1>7, <1>8, <1>9, <1>10, <1>11

-----------------------------------------------------------------------------
(* One order is touched *)

\* What is no request of a limit order says nothing the executor could change.
LEMMA NoRequest ==
  ASSUME NEW n, BookMoves(n), FewerHeard, NEW x, ~Requests(x)
  PROVE  /\ JobMirrors(x) => JobMirrors(x)'
         /\ AnswerMirrors(x) => AnswerMirrors(x)'
<1>1. /\ \A ref, i : Market(ref, i) => Market(ref, i)'
      /\ \A ref : At(ref, "filled") => At(ref, "filled")'
      /\ \A ref : At(ref, "gone") => At(ref, "gone")'
      /\ \A ref : ref \in DOMAIN book => ref \in DOMAIN book'
  BY BookFacts
<1> HIDE DEF Mine, Market, At, OnlyGone, NoneOpen
<1>2. (JobAgrees(x) => JobAgrees(x)') /\ (AnswerAgrees(x) => AnswerAgrees(x)')
  BY <1>1 DEF JobAgrees, AnswerAgrees, Requests, Accepted
<1>3. x.id \in Heard' => x.id \in Heard
  BY DEF FewerHeard
<1> QED BY <1>2, <1>3 DEF JobMirrors, AnswerMirrors

\* Items of an untouched book stay mirrored.
LEMMA StaysMirrored ==
  ASSUME BookStays, SameLimits, FewerHeard, NEW x, x.id # 0
  PROVE  /\ JobMirrors(x) => JobMirrors(x)'
         /\ AnswerMirrors(x) => AnswerMirrors(x)'
<1>1. /\ \A ref, i : Mine(ref, i) => Mine(ref, i)'
      /\ \A ref, i : Market(ref, i) => Market(ref, i)'
      /\ \A ref : At(ref, "filled") => At(ref, "filled")'
      /\ \A ref : At(ref, "gone") => At(ref, "gone")'
      /\ \A ref : ref \in DOMAIN book => ref \in DOMAIN book'
      /\ \A r : OnlyGone(x.id, r) => OnlyGone(x.id, r)'
  BY BookFacts DEF BookStays
<1> HIDE DEF Mine, Market, At, OnlyGone, NoneOpen
<1>2. JobAgrees(x) => JobAgrees(x)'
  BY <1>1 DEF JobAgrees, SameLimits
<1>3. AnswerAgrees(x) => AnswerAgrees(x)'
  BY <1>1 DEF AnswerAgrees, SameLimits, Accepted
<1>4. x.id \in Heard' => x.id \in Heard
  BY DEF FewerHeard
<1> QED BY <1>2, <1>3, <1>4 DEF JobMirrors, AnswerMirrors

\* One order is touched: the others stay mirrored.
LEMMA MirrorsTouched ==
  ASSUME NEW n \in Ids, BookMoves(n), WireShapes, Mirrors, FewerHeard, \A i \in Ids \ {n} : SameOrder(i),
         OrderMirrors(n)', worker' = worker,
         inbox' = inbox \/ (inbox # <<>> /\ inbox' = Tail(inbox)),
         outbox' = outbox \/ \E x : outbox' = Append(outbox, x) /\ JobMirrors(x)',
         \A x \in Items(outbox) \cup Items(worker) : x.id = n /\ Requests(x) => JobMirrors(x)',
         \A m \in Items(inbox') : m.id = n /\ Requests(m) => AnswerMirrors(m)',
         Replaced(n)' /\ n \in Heard' /\ n \in DOMAIN limits' => n \in DOMAIN limits /\ limits'[n].ref = limits[n].ref
  PROVE  Mirrors'
<1>1. outbox \in Seq(Asked) /\ inbox \in Seq(Answer) /\ Items(inbox') \subseteq Items(inbox)
  BY TailRequests DEF WireShapes
<1>2. \A x \in Items(outbox) \cup Items(worker) \cup Items(inbox) : x.id \in Ids
  BY ItemIds
<1>3. InOrder'
  <2>1. \A i : Replaced(i)' => i \in Ids
    BY <1>1, <1>2 DEF Replaced
  <2>2. \A i \in Ids \ {n} : i \in DOMAIN limits' => i \in DOMAIN limits /\ limits'[i].ref = limits[i].ref
    BY DEF SameOrder
  <2> HIDE DEF Replaced
  <2> QED BY <2>1, <2>2, StaysInOrder DEF Mirrors
<1>4. \A x \in Items(outbox) \cup Items(worker) : x.id = n => JobMirrors(x)'
  <2> HIDE DEF JobMirrors, Requests
  <2> QED BY NoRequest DEF Mirrors
<1>5. \A m \in Items(inbox') : m.id = n => AnswerMirrors(m)'
  <2> HIDE DEF AnswerMirrors, Requests
  <2> QED BY <1>1, NoRequest DEF Mirrors
<1>6. \A x \in Items(outbox') : x \in Items(outbox) \/ JobMirrors(x)'
  <2>1. ASSUME NEW x, outbox' = Append(outbox, x) PROVE Items(outbox') = Items(outbox) \cup {x}
    BY <1>1, <2>1, AppendRequests
  <2> HIDE DEF JobMirrors, Items
  <2> QED BY <2>1
<1> HIDE DEF JobMirrors, AnswerMirrors, OrderMirrors, InOrder, SameOrder, Items
<1>7. \A x \in Items(outbox') \cup Items(worker') :
        (x \in Items(outbox) \cup Items(worker) /\ x.id # n) \/ JobMirrors(x)'
  BY <1>4, <1>6
<1>8. \A m \in Items(inbox') : (m \in Items(inbox) /\ m.id # n) \/ AnswerMirrors(m)'
  BY <1>1, <1>5
<1> QED BY <1>3, <1>7, <1>8, MirrorsOne

\* A market order is touched: what the executor knows of limit orders stays.
LEMMA MirrorsMarket ==
  ASSUME NEW n \in Ids, BookStays, SameLimits, WireShapes, Mirrors, FewerHeard, \A i \in Ids \ {n} : SameOrder(i),
         OrderMirrors(n)', worker' = worker,
         inbox' = inbox \/ (inbox # <<>> /\ inbox' = Tail(inbox)),
         outbox' = outbox \/ \E x : outbox' = Append(outbox, x) /\ JobMirrors(x)'
  PROVE  Mirrors'
<1>1. Items(inbox') \subseteq Items(inbox)
  BY TailRequests DEF WireShapes
<1>2. \A x \in Items(outbox) \cup Items(worker) \cup Items(inbox) : x.id # 0
  BY ItemIds
<1>3. BookMoves(n)
  BY BookSame
<1>4. n \in DOMAIN limits' => n \in DOMAIN limits /\ limits'[n].ref = limits[n].ref
  BY DEF SameLimits
<1>5. \A x \in Items(outbox) \cup Items(worker) : JobMirrors(x)'
  <2> HIDE DEF JobMirrors
  <2> QED BY <1>2, StaysMirrored DEF Mirrors
<1>6. \A m \in Items(inbox') : AnswerMirrors(m)'
  <2> HIDE DEF AnswerMirrors
  <2> QED BY <1>1, <1>2, StaysMirrored DEF Mirrors
<1> HIDE DEF JobMirrors, AnswerMirrors, OrderMirrors, Mirrors, SameOrder, Items, BookStays, BookMoves
<1> QED BY <1>3, <1>4, <1>5, <1>6, MirrorsTouched

\* The parts of OrderMirrors(n)' when only the history or the tracking of a
\* market order changes.
LEMMA ResultAppended ==
  ASSUME NEW n \in Ids, BookStays, OrderShapes, OrderAgrees(n), NEW o, Resolved(n, o)',
         results'[n] = results[n] \/ results'[n] = Append(results[n], o)
  PROVE  (\A k \in DOMAIN results[n] : Resolved(n, results[n][k]))'
<1>1. results[n] \in Seq(Outcomes) /\ n # 0
  BY DEF OrderShapes, Ids
<1>2. \A v : Resolved(n, v) => Resolved(n, v)'
  BY <1>1, BookFacts DEF BookStays
<1>3. \A k \in DOMAIN results[n] : \A v : v = results[n][k] => Resolved(n, v)'
  <2> HIDE DEF Resolved
  <2> QED BY <1>2 DEF OrderAgrees
<1>4. \A k \in DOMAIN results'[n] : (k \in DOMAIN results[n] /\ results'[n][k] = results[n][k]) \/ results'[n][k] = o
  BY <1>1
<1>5. SUFFICES ASSUME NEW k \in DOMAIN results'[n], NEW v, v = results'[n][k] PROVE Resolved(n, v)'
  OBVIOUS
<1> HIDE DEF Resolved
<1> QED BY <1>3, <1>4, <1>5

\* The items of a queue and of its tail.
LEMMA TailItems ==
  ASSUME NEW S, NEW q \in Seq(S), q # <<>>
  PROVE  Items(q) = Items(Tail(q)) \cup {Head(q)}
<1> DEFINE p == Tail(q)
<1>1. /\ DOMAIN p = 1..(Len(q) - 1) /\ Head(q) = q[1] /\ DOMAIN q = 1..Len(q)
      /\ \A k \in 1..(Len(q) - 1) : p[k] = q[k + 1]
      /\ Len(q) \in Nat /\ Len(q) >= 1
  OBVIOUS
<1> HIDE DEF p
<1>2. ASSUME NEW k \in DOMAIN q, k # 1 PROVE k - 1 \in DOMAIN p /\ p[k - 1] = q[k]
  BY <1>1, <1>2
<1>3. ASSUME NEW x \in Items(q) PROVE x \in Items(p) \/ x = Head(q)
  <2>1. PICK k \in DOMAIN q : x = q[k]
    BY <1>3 DEF Items
  <2>2. CASE k = 1
    BY <1>1, <2>1, <2>2
  <2>3. CASE k # 1
    BY <1>2, <2>1, <2>3 DEF Items
  <2> QED BY <2>2, <2>3
<1>4. Head(q) \in Items(q) /\ Items(p) \subseteq Items(q)
  BY TailRequests DEF p
<1> QED BY <1>3, <1>4 DEF p

\* An answer is drained: only what its order's accepted edit said is forgotten.
LEMMA StillReplaced ==
  ASSUME WireShapes, NEW i, Replaced(i),
         inbox' = inbox \/ (inbox # <<>> /\ inbox' = Tail(inbox) /\ (Accepted(Head(inbox)) => Head(inbox).id # i))
  PROVE  Replaced(i)'
<1>1. inbox \in Seq(Answer)
  BY DEF WireShapes
<1>2. PICK m \in Items(inbox) : Accepted(m) /\ m.id = i
  BY DEF Replaced
<1>3. m \in Items(inbox')
  <2>1. CASE inbox' = inbox
    BY <2>1
  <2>2. CASE inbox # <<>> /\ inbox' = Tail(inbox) /\ (Accepted(Head(inbox)) => Head(inbox).id # i)
    BY <1>1, <1>2, <2>2, TailItems
  <2> QED BY <2>1, <2>2
<1> QED BY <1>2, <1>3 DEF Replaced

\* A market order after its report.
LEMMA MarketAfter ==
  ASSUME NEW n \in Ids, BookStays, SameLimits, OrderShapes, OrderAgrees(n),
         Replaced(n) => Replaced(n)', n > sent' => n > sent, NEW o, Resolved(n, o)',
         results'[n] = results[n] \/ results'[n] = Append(results[n], o),
         NEW r, n \in Opening' => OnlyGone(n, NoRef) /\ pending'[n].ref = r /\ (r # NoRef => Market(r, n))
  PROVE  OrderAgrees(n)'
<1>1. n # 0
  BY DEF Ids
<1>2. /\ \A ref : Mine(ref, n) => Mine(ref, n)'
      /\ \A ref : Market(ref, n) => Market(ref, n)'
      /\ \A ref : OnlyGone(n, ref) => OnlyGone(n, ref)'
      /\ NoneOpen(n) => NoneOpen(n)'
  BY <1>1, BookFacts DEF BookStays
<1>3. (\A k \in DOMAIN results[n] : Resolved(n, results[n][k]))'
  BY ResultAppended
<1> HIDE DEF Mine, Market, OnlyGone, NoneOpen, Resolved, Replaced, Opening
<1> QED BY <1>2, <1>3 DEF OrderAgrees, SameLimits

\* A report concerns one order.
LEMMA ReportOne ==
  ASSUME OrderShapes, NEW n \in Ids, NEW o, Report(n, o)
  PROVE  results'[n] = Append(results[n], o) /\ \A i \in Ids \ {n} : results'[i] = results[i]
BY DEF OrderShapes, Report

\* What a fill or a rejection asks for and reports.
LEMMA FillMirrors ==
  ASSUME OrderShapes, NEW n \in Ids, NEW action, NEW ref,
         Fill(n, action, ref) \/ Reject(n, action) \/ FillOpen(n, ref) \/ (NoFill /\ UNCHANGED results)
  PROVE  /\ outbox' = outbox \/ \E x : outbox' = Append(outbox, x) /\ JobMirrors(x)'
         /\ \A i \in Ids \ {n} : results'[i] = results[i]
         /\ \/ results'[n] = results[n]
            \/ /\ (Fill(n, action, ref) /\ action = "OPEN") \/ FillOpen(n, ref)
               /\ \E o \in {"EXECUTED", "NO_FUNDS"} : results'[n] = Append(results[n], o)
            \/ Reject(n, action) /\ action = "OPEN" /\ results'[n] = Append(results[n], "REJECTED")
<1>1. outbox' = outbox \/ \E x : outbox' = Append(outbox, x) /\ JobMirrors(x)'
  <2>1. PICK x : x = OrderJob("trades", n, ref, 0)
    OBVIOUS
  <2>2. JobMirrors(x)'
    BY <2>1 DEF JobMirrors, JobAgrees, OrderJob
  <2> HIDE DEF JobMirrors
  <2> QED BY <2>1, <2>2 DEF Fill, FillOpen, Reject, NoFill
<1>2. FillOpen(n, ref) =>
        /\ \A i \in Ids \ {n} : results'[i] = results[i]
        /\ \E o \in {"EXECUTED", "NO_FUNDS"} : results'[n] = Append(results[n], o)
  BY ReportOne DEF FillOpen
<1>3. Reject(n, action) =>
        /\ \A i \in Ids \ {n} : results'[i] = results[i]
        /\ results'[n] = results[n] \/ (action = "OPEN" /\ results'[n] = Append(results[n], "REJECTED"))
  BY ReportOne DEF Reject
<1>4. Fill(n, action, ref) => (action = "OPEN" /\ FillOpen(n, ref)) \/ UNCHANGED results
  BY DEF Fill
<1> HIDE DEF JobMirrors
<1> QED BY <1>1, <1>2, <1>3, <1>4

\* A poll of a pending order.
LEMMA PollMirrors ==
  ASSUME LiveInv, LossShape, InSession, Mirrors, FewerHeard, NEW n \in Ids, PollPending(n)
  PROVE  Mirrors'
<1>1. WireShapes /\ OrderShapes /\ n \in DOMAIN pending /\ OrderMirrors(n)
  BY DEF LiveInv, Shapes, PollPending, Visits, Mirrors
<1>2. /\ UNCHANGED <<limits, sent, worker, inbox, book>>
      /\ \/ pending' = Without(pending, {n}) /\ Fill(n, pending[n].action, pending[n].ref)
         \/ pending' = Without(pending, {n}) /\ Reject(n, pending[n].action) /\ Lose(n, "query")
         \/ pending' = pending /\ NoFill /\ UNCHANGED results
  BY DEF PollPending
<1>3. BookStays /\ SameLimits
  BY <1>1, <1>2, BookSame, SameParts
<1>4. /\ outbox' = outbox \/ \E x : outbox' = Append(outbox, x) /\ JobMirrors(x)'
      /\ \A i \in Ids \ {n} : results'[i] = results[i]
      /\ n \in Heard' =>
           \/ results'[n] = results[n]
           \/ /\ pending[n].action = "OPEN"
              /\ \E o \in {"EXECUTED", "NO_FUNDS"} : results'[n] = Append(results[n], o)
  <2>1. CASE Fill(n, pending[n].action, pending[n].ref)
    <3>1. /\ outbox' = outbox \/ \E x : outbox' = Append(outbox, x) /\ JobMirrors(x)'
          /\ \A i \in Ids \ {n} : results'[i] = results[i]
      BY <1>1, <2>1, FillMirrors
    <3>2. \/ UNCHANGED results
          \/ /\ pending[n].action = "OPEN"
             /\ \E o \in {"EXECUTED", "NO_FUNDS"} : Report(n, o)
      BY <2>1 DEF Fill, FillOpen
    <3> QED BY <1>1, <3>1, <3>2, ReportOne
  <2>2. CASE NoFill /\ UNCHANGED results
    BY <2>2 DEF NoFill
  <2>3. CASE Reject(n, pending[n].action) /\ Lose(n, "query")
    <3>1. /\ outbox' = outbox \/ \E x : outbox' = Append(outbox, x) /\ JobMirrors(x)'
          /\ \A i \in Ids \ {n} : results'[i] = results[i]
      BY <1>1, <2>3, FillMirrors
    <3>2. n \notin Heard'
      BY <2>3 DEF Lose, LossShape, Heard
    <3> QED BY <3>1, <3>2
  <2> QED BY <1>2, <2>1, <2>2, <2>3
<1>5. SamePending
  BY <1>2 DEF SamePending, Opening, Without
<1>6. \A i : Replaced(i) => Replaced(i)'
  BY <1>2 DEF Replaced
<1>7. \A i \in Ids \ {n} : SameOrder(i)
  BY <1>2, <1>4, <1>5, <1>6 DEF SameOrder, SamePending
<1>9. pending[n].ref # NoRef
  BY DEF LiveInv, PollPending, Visits
<1>10. PICK r : r = pending[n].ref
  OBVIOUS
<1>12. ASSUME n \in Heard' PROVE OrderAgrees(n)'
  <2>4. OrderAgrees(n)
    BY <1>1, <1>12 DEF OrderMirrors, FewerHeard
  <2>5. n \in Opening => OnlyGone(n, NoRef) /\ (pending[n].ref # NoRef => Market(pending[n].ref, n))
    BY <2>4 DEF OrderAgrees
  <2>6. n \in Opening' => OnlyGone(n, NoRef) /\ pending'[n].ref = r /\ (r # NoRef => Market(r, n))
    BY <1>5, <1>10, <2>5 DEF SamePending
  <2>1. ASSUME NEW o, Resolved(n, o)', results'[n] = results[n] \/ results'[n] = Append(results[n], o)
        PROVE  OrderAgrees(n)'
    BY <1>1, <1>2, <1>3, <1>6, <2>1, <2>4, <2>6, MarketAfter
  <2>2. Resolved(n, "EXPIRED")'
    BY DEF Resolved
  <2>3. pending[n].action = "OPEN" => Resolved(n, "EXECUTED")' /\ Resolved(n, "NO_FUNDS")'
    <3>1. pending[n].action = "OPEN" => Market(r, n)' /\ r \in DOMAIN book'
      BY <1>1, <1>2, <1>9, <1>10, <2>5 DEF Opening, Market
    <3> HIDE DEF Market
    <3> QED BY <3>1 DEF Resolved
  <2> HIDE DEF Resolved, OrderAgrees
  <2> QED BY <1>4, <1>12, <2>1, <2>2, <2>3
<1>13. OrderMirrors(n)'
  BY <1>12 DEF OrderMirrors
<1> HIDE DEF Mirrors, OrderMirrors, SameOrder, BookStays, JobMirrors
<1> QED BY <1>1, <1>2, <1>3, <1>4, <1>7, <1>13, MirrorsMarket

\* A timeout of a pending order.
LEMMA TimeoutMirrors ==
  ASSUME LiveInv, InSession, Mirrors, FewerHeard, NEW n \in Ids, HandleTimeout(n)
  PROVE  Mirrors'
<1>1. WireShapes /\ OrderShapes /\ n \in DOMAIN pending /\ OrderMirrors(n)
  BY DEF LiveInv, Shapes, HandleTimeout, Visits, Mirrors
<1>2. /\ UNCHANGED <<limits, sent, worker, inbox>> /\ CancelSync({pending[n].ref})
      /\ pending' = Without(pending, {n}) \/ pending' = pending
      /\ Reject(n, pending[n].action) \/ UNCHANGED results
      /\ outbox' = outbox
  BY DEF HandleTimeout, DropTimedOut, Reject, NoFill
<1>3. BookStays /\ SameLimits
  BY <1>1, <1>2, BookChanges, SameParts
<1>4. UNCHANGED results \/ (pending[n].action = "OPEN" /\ Report(n, "REJECTED"))
  BY <1>2 DEF Reject
<1>5. /\ \A i \in Ids \ {n} : results'[i] = results[i]
      /\ \/ results'[n] = results[n]
         \/ pending[n].action = "OPEN" /\ results'[n] = Append(results[n], "REJECTED")
  BY <1>1, <1>4, ReportOne
<1>6. SamePending /\ \A i : Replaced(i) => Replaced(i)'
  BY <1>2 DEF SamePending, Opening, Without, Replaced
<1>7. \A i \in Ids \ {n} : SameOrder(i)
  BY <1>2, <1>5, <1>6 DEF SameOrder, SamePending
<1>10. PICK r : r = pending[n].ref
  OBVIOUS
<1>12. ASSUME n \in Heard' PROVE OrderAgrees(n)'
  <2>4. OrderAgrees(n)
    BY <1>1, <1>12 DEF OrderMirrors, FewerHeard
  <2>5. n \in Opening => OnlyGone(n, NoRef) /\ (pending[n].ref # NoRef => Market(pending[n].ref, n))
    BY <2>4 DEF OrderAgrees
  <2>6. n \in Opening' => OnlyGone(n, NoRef) /\ pending'[n].ref = r /\ (r # NoRef => Market(r, n))
    BY <1>6, <1>10, <2>5 DEF SamePending
  <2>1. ASSUME NEW o, Resolved(n, o)', results'[n] = results[n] \/ results'[n] = Append(results[n], o)
        PROVE  OrderAgrees(n)'
    BY <1>1, <1>2, <1>3, <1>6, <2>1, <2>4, <2>6, MarketAfter
  <2>2. Resolved(n, "EXPIRED")'
    BY DEF Resolved
  <2>3. pending[n].action = "OPEN" => Resolved(n, "REJECTED")'
    <3>1. pending[n].action = "OPEN" => OnlyGone(n, NoRef)'
      BY <1>1, <1>3, <2>5, BookFacts DEF Opening, BookStays, Ids
    <3> HIDE DEF OnlyGone
    <3> QED BY <3>1 DEF Resolved
  <2> HIDE DEF Resolved, OrderAgrees
  <2> QED BY <1>5, <2>1, <2>2, <2>3
<1>13. OrderMirrors(n)'
  BY <1>12 DEF OrderMirrors
<1> HIDE DEF Mirrors, OrderMirrors, SameOrder, BookStays, JobMirrors
<1> QED BY <1>1, <1>2, <1>3, <1>7, <1>13, MirrorsMarket

\* A new order.
LEMMA OpenMirrors ==
  ASSUME LiveInv, PriceInv, Mirrors, FewerHeard, NEW type, NEW price, OpenOrder(type, price)
  PROVE  Mirrors'
<1>1. PICK n : n = sent + 1
  OBVIOUS
<1>2. /\ WireShapes /\ OrderShapes /\ n \in Ids /\ n \in Nat /\ sent \in Nat /\ n > sent /\ sent' = n
      /\ UNCHANGED <<worker, inbox, book>> /\ OrderMirrors(n) /\ (n \in Heard => OnlyGone(n, NoRef))
  BY <1>1 DEF LiveInv, Shapes, OrderShapes, OpenOrder, Mirrors, OrderMirrors, OrderAgrees, Ids
<1>3. n \notin DOMAIN pending \cup DOMAIN limits /\ results[n] = <<>>
  BY <1>2 DEF LiveInv, OrderInv, Unsent
<1>4. /\ BookStays /\ BookMoves(n) /\ (\A i : Replaced(i) => Replaced(i)')
      /\ n \in Heard' => n \in Heard /\ OnlyGone(n, NoRef)'
      /\ \A i \in Ids : i > sent' => i > sent
  BY <1>2, BookSame DEF Replaced, OnlyGone, Mine, Ids, FewerHeard
<1>5. ASSUME limits' = limits, \A i \in Ids \ {n} : results'[i] = results[i],
             results'[n] = results[n] \/ results'[n] = Append(results[n], "REJECTED"),
             \A i \in Opening' : (i \in Opening /\ pending'[i].ref = pending[i].ref) \/ (i = n /\ pending'[i].ref = NoRef),
             outbox' = outbox \/ \E x : outbox' = Append(outbox, x) /\ JobMirrors(x)'
      PROVE  Mirrors'
  <2>1. SameLimits
    BY <1>5, SameParts
  <2>2. \A i \in Ids \ {n} : SameOrder(i)
    BY <1>4, <1>5 DEF SameOrder
  <2>4. PICK r : r = NoRef
    OBVIOUS
  <2>3. ASSUME n \in Heard' PROVE OrderAgrees(n)'
    <3>1. OrderAgrees(n) /\ OnlyGone(n, NoRef) /\ OnlyGone(n, NoRef)'
      BY <1>2, <1>4, <2>3 DEF OrderMirrors
    <3>2. Resolved(n, "REJECTED")'
      BY <3>1 DEF Resolved
    <3>3. n \in Opening' => OnlyGone(n, NoRef) /\ pending'[n].ref = r /\ (r # NoRef => Market(r, n))
      BY <1>2, <1>3, <1>5, <2>4, <3>1 DEF Opening
    <3> QED BY <1>2, <1>4, <1>5, <2>1, <3>1, <3>2, <3>3, MarketAfter
  <2>6. OrderMirrors(n)'
    BY <2>3 DEF OrderMirrors
  <2> HIDE DEF Mirrors, OrderMirrors, SameOrder, BookStays, JobMirrors
  <2> QED BY <1>2, <1>4, <1>5, <2>1, <2>2, <2>6, MirrorsMarket
<1>6. CASE /\ pending' = Put(pending, n, NewPending("OPEN")) /\ UNCHANGED <<limits, results>>
           /\ outbox' = Append(outbox, SubmitJob(n, "MARKET", "OPEN", 0))
  <2>1. PICK x : x = SubmitJob(n, "MARKET", "OPEN", 0)
    OBVIOUS
  <2>2. JobMirrors(x)'
    BY <2>1 DEF JobMirrors, JobAgrees, SubmitJob
  <2>3. \A i \in Opening' : (i \in Opening /\ pending'[i].ref = pending[i].ref) \/ (i = n /\ pending'[i].ref = NoRef)
    BY <1>6 DEF Opening, Put, NewPending
  <2> HIDE DEF JobMirrors, Mirrors
  <2> QED BY <1>5, <1>6, <2>1, <2>2, <2>3
<1>7. CASE Report(n, "REJECTED") /\ UNCHANGED <<pending, limits, outbox>>
  <2>1. results'[n] = Append(results[n], "REJECTED") /\ \A i \in Ids \ {n} : results'[i] = results[i]
    BY <1>2, <1>7, ReportOne
  <2>2. Opening' = Opening
    BY <1>7 DEF Opening
  <2> HIDE DEF JobMirrors, Mirrors
  <2> QED BY <1>5, <1>7, <2>1, <2>2
<1>8. CASE /\ limits' = Put(limits, n, NewLimit(price)) /\ UNCHANGED <<pending, results>>
           /\ outbox' = Append(outbox, SubmitJob(n, "LIMIT", "OPEN", price))
  <2>1. PICK x : x = SubmitJob(n, "LIMIT", "OPEN", price)
    OBVIOUS
  <2>2. /\ DOMAIN limits' = DOMAIN limits \cup {n} /\ limits'[n].ref = NoRef
        /\ \A i \in DOMAIN limits : i # n => limits'[i] = limits[i]
    BY <1>8 DEF Put, NewLimit
  <2>3. JobMirrors(x)'
    BY <1>4, <2>1, <2>2 DEF JobMirrors, JobAgrees, SubmitJob
  <2>4. Opening' = Opening
    BY <1>8 DEF Opening
  <2>5. \A i \in Ids \ {n} : SameOrder(i)
    BY <1>3, <1>4, <1>8, <2>2, <2>4 DEF SameOrder, Opening
  <2>6. n \notin Opening'
    BY <1>3, <2>4 DEF Opening
  <2>7. OrderMirrors(n)'
    BY <1>2, <1>3, <1>8, <2>2, <2>6 DEF OrderMirrors, OrderAgrees
  <2>8. \A y \in Items(outbox) \cup Items(worker) \cup Items(inbox) : Requests(y) => y.id # n
    BY <1>2, ItemIds DEF PriceInv, JobTrue, AnswerTrue, Ids
  <2>9. ~Replaced(n)'
    BY <1>2, <2>8 DEF Replaced, Requests, Accepted
  <2> HIDE DEF Mirrors, OrderMirrors, SameOrder, BookStays, BookMoves, JobMirrors, AnswerMirrors, Requests, Replaced
  <2> QED BY <1>2, <1>4, <1>8, <2>1, <2>3, <2>5, <2>7, <2>8, <2>9, MirrorsTouched
<1> QED BY <1>1, <1>6, <1>7, <1>8 DEF OpenOrder

\* The worker takes a job.
LEMMA TakesMirrors ==
  ASSUME WireShapes, Mirrors, FewerHeard, WorkerTakes
  PROVE  Mirrors'
<1>1. /\ UNCHANGED <<limits, pending, results, sent, inbox, book>>
      /\ worker' = <<Head(outbox)>> /\ outbox' = Tail(outbox) /\ outbox # <<>> /\ outbox \in Seq(Asked)
  BY DEF WorkerTakes, local, WireShapes
<1>2. Items(outbox') \subseteq Items(outbox) /\ Items(worker') \subseteq Items(outbox)
  <2>1. Items(outbox') \subseteq Items(outbox) /\ Head(outbox) \in Items(outbox)
    BY <1>1, TailRequests
  <2>2. Items(worker') = {Head(outbox)}
    BY <1>1, OneItem
  <2> QED BY <2>1, <2>2
<1>3. BookMoves(0) /\ \A i \in Ids : SameOrder(i)
  BY <1>1, BookSame, SameOrders, SameParts DEF BookStays
<1>4. InOrder'
  <2>1. \A i : i \in DOMAIN limits' => i \in DOMAIN limits /\ limits'[i].ref = limits[i].ref
    BY <1>1
  <2> QED BY <1>1, <2>1, StaysInOrder DEF Mirrors
<1>5. 0 \notin Ids /\ \A x \in Items(outbox) \cup Items(worker) \cup Items(inbox) : x.id # 0
  BY ItemIds
<1> HIDE DEF Mirrors, JobMirrors, AnswerMirrors, OrderMirrors, SameOrder, InOrder, Items, BookMoves
<1> QED BY <1>1, <1>2, <1>3, <1>4, <1>5, MirrorsOne

-----------------------------------------------------------------------------
(* The worker's calls *)

AnswerTo(job, ref, st) ==
  [kind |-> job.kind, id |-> job.id, type |-> job.type, action |-> job.action, ref |-> ref, status |-> st]

\* A job is answered and the answer is true.
LEMMA AnsweredMirrors ==
  ASSUME WireShapes, PriceInv, Mirrors, FewerHeard, NEW job, job.id \in Ids, NEW ref, NEW st, Answered(job, ref, st),
         NEW n, BookMoves(n), n = 0 \/ (n = job.id /\ Requests(job)), n \in Ids => OrderMirrors(n)',
         NEW m, m = AnswerTo(job, ref, st), AnswerMirrors(m)',
         Accepted(m) /\ m.id \in Heard' =>
           \A a \in Items(inbox) : Asking(a, m.id, limits) => a.status = "PENDING"
  PROVE  Mirrors'
<1>1. /\ worker = <<job>> /\ worker' = <<>> /\ inbox' = Append(inbox, m) /\ inbox \in Seq(Answer)
      /\ UNCHANGED <<limits, pending, results, sent, outbox>>
  BY DEF Answered, local, WireShapes, AnswerTo
<1>2. Items(inbox') = Items(inbox) \cup {m} /\ Items(worker) = {job} /\ Items(worker') = {}
  <2>1. Items(inbox') = Items(inbox) \cup {m}
    BY <1>1, AppendRequests
  <2>2. Items(worker) = {job} /\ Items(worker') = {}
    BY <1>1, OneItem
  <2> QED BY <2>1, <2>2
<1>3. InOrder'
  <2>1. \A i \in DOMAIN HeardLimits' :
          i \in DOMAIN HeardLimits /\ HeardLimits'[i].ref = HeardLimits[i].ref
    <3> HIDE DEF Heard
    <3> QED BY <1>1 DEF HeardLimits, FewerHeard
  <2>2. Ordered(inbox, HeardLimits')
    BY <2>1, OrderedElse DEF InOrder, Mirrors
  <2>3. \A a : Asking(a, m.id, HeardLimits') => m.id \in Heard' /\ Asking(a, m.id, limits)
    <3> HIDE DEF Heard
    <3> QED BY <1>1 DEF Asking, HeardLimits
  <2>4. Ordered(inbox', HeardLimits')
    BY <1>1, <2>2, <2>3, OrderedAppend
  <2> QED BY <2>4 DEF InOrder
<1>4. \A i : Replaced(i) => Replaced(i)'
  BY <1>2 DEF Replaced
<1>5. \A i \in Ids : SameOrder(i)
  <2>1. Opening' = Opening
    BY <1>1 DEF Opening
  <2> QED BY <1>1, <1>4, <2>1 DEF SameOrder, Opening
<1>6. 0 \notin Ids /\ \A x \in Items(outbox) \cup Items(worker) \cup Items(inbox) : x.id # 0
  BY ItemIds
<1>7. \A x \in Items(outbox) \cup Items(inbox) : x.id = n => ~Requests(x)
  <2>1. SUFFICES ASSUME NEW x \in Items(outbox) \cup Items(inbox), x.id = n, Requests(x) PROVE FALSE
    OBVIOUS
  <2>2. n = job.id /\ Requests(job)
    BY <1>6, <2>1
  <2>3. job.id \in Requested(worker)
    BY <1>2, <2>2, ItemsRequested
  <2>4. x.id \in Requested(outbox) \cup Requested(inbox)
    BY <2>1, ItemsRequested
  <2> QED BY <2>1, <2>2, <2>3, <2>4 DEF PriceInv, RequestedOnce
<1>8. \A x \in Items(outbox) : x.id # n \/ JobMirrors(x)'
  <2> HIDE DEF JobMirrors
  <2> QED BY <1>7, NoRequest DEF Mirrors
<1>9. \A x \in Items(inbox) : x.id # n \/ AnswerMirrors(x)'
  <2> HIDE DEF AnswerMirrors
  <2> QED BY <1>7, NoRequest DEF Mirrors
<1> HIDE DEF Mirrors, JobMirrors, AnswerMirrors, OrderMirrors, SameOrder, InOrder, Items, BookMoves
<1>10. \A x \in Items(outbox') \cup Items(worker') :
         (x \in Items(outbox) \cup Items(worker) /\ x.id # n) \/ JobMirrors(x)'
  BY <1>1, <1>2, <1>8
<1>11. \A x \in Items(inbox') : (x \in Items(inbox) /\ x.id # n) \/ AnswerMirrors(x)'
  BY <1>2, <1>9
<1> QED BY <1>3, <1>5, <1>10, <1>11, MirrorsOne

\* Of an order that was not heard of nothing has to be shown.
LEMMA UnheardAnswered ==
  ASSUME WireShapes, PriceInv, Mirrors, FewerHeard, NEW job, job.id \in Ids, job.id \notin Heard',
         NEW ref, NEW st, Answered(job, ref, st),
         NEW n, BookMoves(n), n = 0 \/ (n = job.id /\ Requests(job))
  PROVE  Mirrors'
<1>1. PICK m : m = AnswerTo(job, ref, st)
  OBVIOUS
<1>2. m.id = job.id /\ 0 \notin Ids
  BY <1>1, ItemIds DEF AnswerTo
<1> HIDE DEF Mirrors, Heard, BookMoves, Requests
<1>3. AnswerMirrors(m)' /\ (n \in Ids => OrderMirrors(n)')
  BY <1>2 DEF AnswerMirrors, OrderMirrors
<1> QED BY <1>1, <1>2, <1>3, AnsweredMirrors

\* An answer that was not lost is the broker's.
LEMMA HeardAnswer ==
  ASSUME LossShape, NEW job, job.id \in Ids, job.id \in Heard', NEW ref, NEW st, Acknowledged(job, ref, st)
  PROVE  Answered(job, ref, st)
BY DEF Acknowledged, Lose, Heard, LossShape

\* Any answer answers the job.
LEMMA SomeAnswer ==
  ASSUME NEW job, NEW ref, NEW st, Acknowledged(job, ref, st) \/ Answered(job, ref, st) \/ Refused(job)
  PROVE  \E r, t : Answered(job, r, t)
BY DEF Acknowledged, Refused

\* An order is put into the broker's book.
LEMMA BookAppended ==
  ASSUME WireShapes, NEW b, NEW r, b \in Seq(BookRecord), Len(b) = Len(book), book' = Append(b, r)
  PROVE  /\ DOMAIN book' = DOMAIN b \cup {Len(book) + 1} /\ DOMAIN b = DOMAIN book
         /\ book'[Len(book) + 1] = r
         /\ \A ref \in DOMAIN book : book'[ref] = b[ref]
         /\ Len(book) + 1 \notin DOMAIN book /\ Len(book) + 1 \in Nat \ {0}
<1>1. book \in Seq(BookRecord)
  BY DEF WireShapes
<1> QED BY <1>1

\* A limit order that is tracked has no outcome, and is no market order.
LEMMA LimitHeld ==
  ASSUME LiveInv, InSession, NEW n \in DOMAIN limits
  PROVE  n \notin Opening /\ \A k \in DOMAIN results[n] : results[n][k] = "MODIFY_REJECTED"
<1>1. Ends(n) = {}
  BY HeldOpen
<1>2. n \notin Opening
  BY DEF LiveInv, OrderInv, EndsOnce
<1> QED BY <1>1, <1>2 DEF Ends

\* A submission adds at most the order to the broker's book.
LEMMA SubmitMoves ==
  ASSUME WireShapes, NEW job \in Items(worker), DispatchSubmit(job)
  PROVE  \E n, ref, st : Answered(job, ref, st) /\ BookMoves(n) /\ (n = 0 \/ (n = job.id /\ Requests(job)))
<1>1. job \in Asked /\ job.kind = "submit"
  BY DEF WireShapes, Items, DispatchSubmit
<1>2. CASE Refused(job)
  <2>1. BookMoves(0)
    BY <1>2, BookSame DEF Refused, BookStays
  <2> QED BY <1>2, <2>1 DEF Refused
<1>3. ASSUME NEW st \in {"open", "filled"},
             book' = Append(book, [id |-> job.id, type |-> job.type, action |-> job.action,
                                   status |-> st, price |-> job.price])
      PROVE  \E n : BookMoves(n) /\ (n = 0 \/ (n = job.id /\ Requests(job)))
  <2>1. PICK r : r = [id |-> job.id, type |-> job.type, action |-> job.action,
                      status |-> st, price |-> job.price]
    OBVIOUS
  <2>2. PICK ref : ref = Len(book) + 1
    OBVIOUS
  <2>3. /\ DOMAIN book' = DOMAIN book \cup {ref} /\ ref \notin DOMAIN book
        /\ book'[ref] = r /\ \A k \in DOMAIN book : book'[k] = book[k]
    <3>1. book \in Seq(BookRecord) /\ Len(book) = Len(book) /\ book' = Append(book, r)
      BY <1>3, <2>1 DEF WireShapes
    <3> QED BY <2>2, <3>1, BookAppended
  <2>4. r.id = job.id /\ r.type = job.type
    BY <2>1
  <2>5. CASE job.type = "MARKET"
    <3>1. BookMoves(0)
      BY <2>3, <2>4, <2>5 DEF BookMoves
    <3> QED BY <3>1
  <2>6. CASE job.type = "LIMIT"
    <3>1. BookMoves(job.id) /\ Requests(job)
      BY <1>1, <2>3, <2>4, <2>6 DEF BookMoves, Requests
    <3> QED BY <3>1
  <2> QED BY <1>1, <2>5, <2>6 DEF Asked
<1>4. CASE ~Refused(job)
  <2>1. /\ \E r, t : Answered(job, r, t)
        /\ \E st \in {"open", "filled"} :
             book' = Append(book, [id |-> job.id, type |-> job.type, action |-> job.action,
                                   status |-> st, price |-> job.price])
    BY <1>4, SomeAnswer DEF DispatchSubmit
  <2> HIDE DEF BookMoves, Requests
  <2> QED BY <1>3, <2>1
<1> QED BY <1>2, <1>4

\* A submission reaches the broker.
LEMMA SubmitMirrors ==
  ASSUME LiveInv, LossShape, InSession, PriceInv, Mirrors, FewerHeard, NEW job \in Items(worker), DispatchSubmit(job)
  PROVE  Mirrors'
<1>0. SUFFICES ASSUME job.id \in Heard' PROVE Mirrors'
  <2>1. WireShapes /\ job.id \in Ids
    BY ItemIds DEF LiveInv, Shapes
  <2> HIDE DEF Mirrors, BookMoves, Requests
  <2> QED BY <2>1, SubmitMoves, UnheardAnswered
<1>1. WireShapes /\ OrderShapes /\ job \in Asked /\ job.id \in Ids /\ job.id # 0 /\ JobAgrees(job) /\ 0 \notin Ids
  BY <1>0, ItemIds DEF LiveInv, Shapes, WireShapes, Items, Mirrors, JobMirrors, FewerHeard
<1>2. job.kind = "submit"
  BY DEF DispatchSubmit
<1>3. CASE Refused(job)
  <2>1. Answered(job, job.ref, "REJECTED") /\ book' = book /\ limits' = limits
    BY <1>3 DEF Refused, Answered, local
  <2>2. PICK m : m = AnswerTo(job, job.ref, "REJECTED")
    OBVIOUS
  <2>3. /\ m.kind = "submit" /\ m.id = job.id /\ m.type = job.type /\ m.status = "REJECTED" /\ ~Accepted(m)
    BY <1>2, <2>2 DEF AnswerTo, Accepted
  <2>4. AnswerMirrors(m)'
    BY <1>1, <1>2, <2>1, <2>3 DEF AnswerMirrors, AnswerAgrees, JobAgrees, OnlyGone, Mine
  <2>5. BookMoves(0)
    BY <1>1, <2>1, BookSame DEF BookStays
  <2> HIDE DEF Mirrors, AnswerMirrors, BookMoves
  <2> QED BY <1>1, <2>1, <2>2, <2>3, <2>4, <2>5, AnsweredMirrors
<1>4. ASSUME NEW st \in {"open", "filled"},
             book' = Append(book, [id |-> job.id, type |-> job.type, action |-> job.action,
                                   status |-> st, price |-> job.price]),
             Answered(job, Len(book) + 1, IF st = "open" THEN "PENDING" ELSE "FILLED")
      PROVE  Mirrors'
  <2>1. PICK r : r = [id |-> job.id, type |-> job.type, action |-> job.action,
                      status |-> st, price |-> job.price]
    OBVIOUS
  <2>2. PICK ref : ref = Len(book) + 1
    OBVIOUS
  <2>3. /\ DOMAIN book' = DOMAIN book \cup {ref} /\ ref \notin DOMAIN book /\ ref # 0
        /\ book'[ref] = r /\ \A k \in DOMAIN book : book'[k] = book[k]
    <3>1. book \in Seq(BookRecord) /\ Len(book) = Len(book) /\ book' = Append(book, r)
      BY <1>1, <1>4, <2>1 DEF WireShapes
    <3> QED BY <1>1, <2>2, <3>1, BookAppended
  <2>4. r.id = job.id /\ r.type = job.type /\ r.action = job.action /\ r.status = st
    BY <2>1
  <2>5. PICK m : m = AnswerTo(job, ref, IF st = "open" THEN "PENDING" ELSE "FILLED")
    OBVIOUS
  <2>6. /\ m.kind = "submit" /\ m.id = job.id /\ m.type = job.type /\ m.action = job.action /\ m.ref = ref
        /\ m.status = (IF st = "open" THEN "PENDING" ELSE "FILLED") /\ ~Accepted(m) /\ m.status # "REJECTED"
    BY <1>2, <2>5 DEF AnswerTo, Accepted
  <2>7. limits' = limits /\ Answered(job, ref, IF st = "open" THEN "PENDING" ELSE "FILLED")
    BY <1>4, <2>2 DEF Answered, local
  <2>8. m.status = "FILLED" => At(ref, "filled")'
    BY <2>3, <2>4, <2>6 DEF At
  <2>9. CASE job.type = "MARKET"
    <3>1. BookMoves(0)
      BY <2>3, <2>4, <2>9 DEF BookMoves
    <3>2. m.action = "OPEN" => Market(ref, m.id)'
      BY <2>3, <2>4, <2>6, <2>9 DEF Market
    <3>3. AnswerMirrors(m)'
      BY <2>6, <2>8, <2>9, <3>2 DEF AnswerMirrors, AnswerAgrees
    <3> HIDE DEF Mirrors, AnswerMirrors, BookMoves
    <3> QED BY <1>1, <2>5, <2>6, <2>7, <3>1, <3>3, AnsweredMirrors
  <2>10. CASE job.type = "LIMIT"
    <3>1. PICK n : n = job.id
      OBVIOUS
    <3>2. n \in DOMAIN limits /\ OnlyGone(n, NoRef) /\ Requests(job) /\ n \in Ids
      BY <1>1, <1>2, <2>10, <3>1 DEF JobAgrees, Requests
    <3>3. limits[n].ref = NoRef /\ n <= sent
      BY <1>2, <3>1, <3>2 DEF PriceInv, JobTrue, JobOf
    <3>4. BookMoves(n)
      BY <2>3, <2>4, <3>1 DEF BookMoves
    <3>5. Mine(ref, n)' /\ OnlyGone(n, ref)'
      <4>1. Mine(ref, n)'
        BY <2>3, <2>4, <2>10, <3>1 DEF Mine
      <4>2. \A k \in DOMAIN book : Mine(k, n) => book[k].status = "gone"
        <5>1. book \in Seq(BookRecord)
          BY <1>1 DEF WireShapes
        <5> QED BY <3>2, <5>1 DEF OnlyGone, NoRef
      <4>3. \A k \in DOMAIN book' : k # ref /\ Mine(k, n)' => k \in DOMAIN book /\ Mine(k, n)
        BY <2>3 DEF Mine
      <4> QED BY <2>3, <4>1, <4>2, <4>3 DEF OnlyGone
    <3>6. AnswerMirrors(m)'
      BY <2>6, <2>7, <2>8, <2>10, <3>1, <3>2, <3>5 DEF AnswerMirrors, AnswerAgrees
    <3>7. OrderMirrors(n)'
      <4>1. UNCHANGED <<pending, results, sent>>
        BY <2>7 DEF Answered, local
      <4>2. n \notin Opening /\ n \notin Opening'
        BY <3>2, <4>1, LimitHeld DEF Opening
      <4>3. \A k \in DOMAIN results[n] : results[n][k] = "MODIFY_REJECTED"
        BY <3>2, LimitHeld
      <4>4. (\A k \in DOMAIN results[n] : Resolved(n, results[n][k]))'
        BY <4>1, <4>3 DEF Resolved
      <4>5. ~(n > sent)'
        BY <3>2, <3>3, <4>1 DEF LiveInv, Shapes, OrderShapes, Ids
      <4> QED BY <2>7, <3>2, <3>3, <4>2, <4>4, <4>5 DEF OrderMirrors, OrderAgrees
    <3> HIDE DEF Mirrors, AnswerMirrors, BookMoves, OrderMirrors, Requests
    <3> QED BY <1>1, <2>5, <2>6, <2>7, <3>1, <3>2, <3>4, <3>6, <3>7, AnsweredMirrors
  <2> QED BY <1>1, <2>9, <2>10 DEF Asked
<1>5. \A ref, st : Acknowledged(job, ref, st) => Answered(job, ref, st)
  BY <1>0, <1>1, HeardAnswer
<1> QED BY <1>3, <1>4, <1>5 DEF DispatchSubmit

\* An edit adds at most the order under its new reference.
LEMMA EditMoves ==
  ASSUME WireShapes, PriceInv, NEW job \in Items(worker), DispatchEdit(job)
  PROVE  \E ref, st : Answered(job, ref, st) /\ BookMoves(job.id) /\ Requests(job)
<1>1. /\ job \in Asked /\ job.kind = "edit" /\ Requests(job) /\ book \in Seq(BookRecord)
      /\ Owns(job.ref, job.id)
  BY DEF WireShapes, Items, DispatchEdit, Requests, PriceInv, JobTrue
<1>2. \E ref, st : Answered(job, ref, st)
  BY SomeAnswer DEF DispatchEdit
<1>3. CASE book' = book
  <2>1. BookMoves(job.id)
    BY <1>3, BookSame
  <2> QED BY <1>1, <1>2, <2>1
<1>4. ASSUME IsOpen(job.ref) PROVE job.ref \in DOMAIN book /\ book[job.ref] \in BookRecord /\ book[job.ref].id = job.id
  BY <1>1, <1>4 DEF IsOpen, Owns
<1>5. CASE IsOpen(job.ref) /\ book' = [book EXCEPT ![job.ref].price = job.price]
  <2>1. /\ DOMAIN book' = DOMAIN book /\ \A k \in DOMAIN book \ {job.ref} : book'[k] = book[k]
        /\ book'[job.ref] = [book[job.ref] EXCEPT !.price = job.price]
    BY <1>4, <1>5
  <2>2. /\ book'[job.ref].status = book[job.ref].status /\ book'[job.ref].id = book[job.ref].id
        /\ book'[job.ref].type = book[job.ref].type /\ book'[job.ref].action = book[job.ref].action
    BY <1>4, <1>5, <2>1 DEF BookRecord
  <2>3. BookMoves(job.id)
    BY <2>1, <2>2 DEF BookMoves
  <2> QED BY <1>1, <1>2, <2>3
<1>6. CASE /\ IsOpen(job.ref)
           /\ book' = Append([book EXCEPT ![job.ref].status = "gone"], [book[job.ref] EXCEPT !.price = job.price])
  <2>1. PICK b : b = [book EXCEPT ![job.ref].status = "gone"]
    OBVIOUS
  <2>2. PICK r : r = [book[job.ref] EXCEPT !.price = job.price]
    OBVIOUS
  <2>3. PICK ref : ref = Len(book) + 1
    OBVIOUS
  <2>4. b \in Seq(BookRecord) /\ Len(b) = Len(book) /\ DOMAIN b = DOMAIN book
    <3>1. b \in Seq(BookRecord) /\ DOMAIN b = DOMAIN book
      BY <1>1, <1>6, <2>1, BookShape DEF IsOpen
    <3> QED BY <1>1, <3>1
  <2>5. /\ DOMAIN book' = DOMAIN book \cup {ref} /\ ref \notin DOMAIN book
        /\ book'[ref] = r /\ \A k \in DOMAIN book : book'[k] = b[k]
    <3>1. book' = Append(b, r)
      BY <1>6, <2>1, <2>2
    <3> QED BY <2>3, <2>4, <3>1, BookAppended
  <2>6. r.id = job.id
    BY <1>4, <1>6, <2>2 DEF BookRecord
  <2>7. /\ \A k \in DOMAIN book \ {job.ref} : b[k] = book[k]
        /\ b[job.ref].status = "gone" /\ b[job.ref].id = book[job.ref].id
        /\ b[job.ref].type = book[job.ref].type /\ b[job.ref].action = book[job.ref].action
    BY <1>1, <1>4, <1>6, <2>1 DEF BookRecord
  <2>8. BookMoves(job.id)
    BY <1>6, <2>5, <2>6, <2>7 DEF BookMoves, IsOpen
  <2> QED BY <1>1, <1>2, <2>8
<1> QED BY <1>3, <1>5, <1>6 DEF DispatchEdit, Refused

\* An edit replaces the order there.
LEMMA EditMirrors ==
  ASSUME LiveInv, LossShape, InSession, PriceInv, Mirrors, FewerHeard, NEW job \in Items(worker), DispatchEdit(job)
  PROVE  Mirrors'
<1>0. SUFFICES ASSUME job.id \in Heard' PROVE Mirrors'
  <2>1. WireShapes /\ job.id \in Ids
    BY ItemIds DEF LiveInv, Shapes
  <2> HIDE DEF Mirrors, BookMoves, Requests
  <2> QED BY <2>1, EditMoves, UnheardAnswered
<1>1. /\ WireShapes /\ OrderShapes /\ job \in Asked /\ job.id \in Ids /\ job.id # 0 /\ JobAgrees(job) /\ 0 \notin Ids
      /\ job.id \in Heard
  BY <1>0, ItemIds DEF LiveInv, Shapes, WireShapes, Items, Mirrors, JobMirrors, FewerHeard
<1>2. job.kind = "edit" /\ Requests(job) /\ Mine(job.ref, job.id)
  BY <1>1 DEF DispatchEdit, Requests, JobAgrees
<1>3. CASE Refused(job)
  <2>1. Answered(job, job.ref, "REJECTED") /\ book' = book
    BY <1>3 DEF Refused, Answered, local
  <2>2. PICK m : m = AnswerTo(job, job.ref, "REJECTED")
    OBVIOUS
  <2>3. /\ m.kind = "edit" /\ m.status = "REJECTED" /\ ~Accepted(m)
    BY <1>2, <2>2 DEF AnswerTo, Accepted
  <2>4. AnswerMirrors(m)'
    BY <2>3 DEF AnswerMirrors, AnswerAgrees
  <2>5. BookMoves(0)
    BY <1>1, <2>1, BookSame DEF BookStays
  <2> HIDE DEF Mirrors, AnswerMirrors, BookMoves
  <2> QED BY <1>1, <2>1, <2>2, <2>3, <2>4, <2>5, AnsweredMirrors
<1>4. PICK n : n = job.id
  OBVIOUS
<1>5. ASSUME IsOpen(job.ref)
      PROVE  /\ n \in DOMAIN limits /\ limits[n].ref = job.ref /\ limits[n].ref # NoRef /\ n <= sent
             /\ OnlyGone(n, job.ref) /\ n \in Ids
             /\ \A a \in Items(inbox) : Asking(a, n, limits) => a.status = "PENDING"
  <2>1. n \in Ids /\ OrderAgrees(n)
    BY <1>1, <1>4 DEF Mirrors, OrderMirrors
  <2>2. n \in DOMAIN limits
    BY <1>2, <1>4, <1>5, <2>1 DEF OrderAgrees, NoneOpen, IsOpen
  <2>3. limits[n].ref = job.ref /\ n <= sent
    BY <1>2, <1>4, <2>2 DEF PriceInv, JobTrue, JobOf
  <2>4. job.ref # NoRef
    <3>1. book \in Seq(BookRecord)
      BY <1>1 DEF WireShapes
    <3> QED BY <1>5, <3>1 DEF IsOpen, NoRef
  <2>5. ~Replaced(n)
    <3>1. n \in Requested(worker)
      BY <1>2, <1>4, ItemsRequested
    <3>2. ASSUME NEW a \in Items(inbox), Accepted(a), a.id = n PROVE a.id \in Requested(inbox)
      BY <3>2, ItemsRequested DEF Accepted, Requests
    <3> QED BY <3>1, <3>2 DEF Replaced, PriceInv, RequestedOnce
  <2>6. OnlyGone(n, job.ref)
    BY <2>1, <2>2, <2>3, <2>4, <2>5 DEF OrderAgrees
  <2>7. ASSUME NEW a \in Items(inbox), Asking(a, n, limits) PROVE a.status = "PENDING"
    <3>1. a.kind = "query" /\ a.ref = job.ref /\ AnswerAgrees(a) /\ a.status \in Statuses
      <4>1. inbox \in Seq(Answer) /\ a \in Answer
        BY <1>1 DEF WireShapes, Items
      <4>2. a.status \in Statuses
        BY <4>1 DEF Answer
      <4> QED BY <1>1, <1>4, <2>3, <2>7, <4>2 DEF Asking, Mirrors, AnswerMirrors
    <3>2. ~At(job.ref, "filled") /\ ~At(job.ref, "gone")
      BY <1>5 DEF IsOpen, At
    <3> QED BY <3>1, <3>2 DEF AnswerAgrees, Statuses
  <2> QED BY <2>1, <2>2, <2>3, <2>4, <2>6, <2>7
<1>6. ASSUME IsOpen(job.ref), NEW ref, Answered(job, ref, "PENDING"), BookMoves(n),
             Mine(ref, n)', OnlyGone(n, ref)'
      PROVE  Mirrors'
  <2>1. PICK m : m = AnswerTo(job, ref, "PENDING")
    OBVIOUS
  <2>2. m.kind = "edit" /\ m.status = "PENDING" /\ m.id = n /\ m.ref = ref /\ Accepted(m)
    BY <1>2, <1>4, <2>1 DEF AnswerTo, Accepted
  <2>3. UNCHANGED <<limits, pending, results, sent>> /\ inbox' = Append(inbox, m) /\ inbox \in Seq(Answer)
    BY <1>1, <1>6, <2>1 DEF Answered, local, WireShapes, AnswerTo
  <2>4. AnswerMirrors(m)'
    BY <1>5, <1>6, <2>2, <2>3 DEF AnswerMirrors, AnswerAgrees
  <2>5. Replaced(n)'
    <3>1. Items(inbox') = Items(inbox) \cup {m}
      BY <2>3, AppendRequests
    <3> QED BY <2>2, <3>1 DEF Replaced
  <2>6. Mine(limits[n].ref, n)'
    <3>1. Mine(job.ref, n)'
      BY <1>2, <1>4, <1>6, BookFacts
    <3> QED BY <1>5, <1>6, <2>3, <3>1 DEF Mine
  <2>7. OrderMirrors(n)'
    <3>1. n \notin Opening' /\ \A k \in DOMAIN results[n] : results[n][k] = "MODIFY_REJECTED"
      BY <1>5, <1>6, <2>3, LimitHeld DEF Opening
    <3>2. (\A k \in DOMAIN results[n] : Resolved(n, results[n][k]))'
      BY <2>3, <3>1 DEF Resolved
    <3>3. ~(n > sent)'
      BY <1>1, <1>5, <1>6, <2>3 DEF OrderShapes, Ids
    <3> HIDE DEF Mine, OnlyGone, NoneOpen, Replaced, Opening, Resolved
    <3> QED BY <1>5, <1>6, <2>3, <2>5, <2>6, <3>1, <3>2, <3>3 DEF OrderMirrors, OrderAgrees
  <2> HIDE DEF Mirrors, AnswerMirrors, BookMoves, OrderMirrors, Requests, Asking, Accepted
  <2> QED BY <1>1, <1>2, <1>4, <1>5, <1>6, <2>1, <2>2, <2>4, <2>7, AnsweredMirrors
<1>7. book \in Seq(BookRecord) /\ (IsOpen(job.ref) => job.ref \in DOMAIN book /\ book[job.ref] \in BookRecord)
  BY <1>1 DEF WireShapes, IsOpen
<1>8. CASE /\ IsOpen(job.ref)
           /\ book' = Append([book EXCEPT ![job.ref].status = "gone"], [book[job.ref] EXCEPT !.price = job.price])
           /\ Answered(job, Len(book) + 1, "PENDING")
  <2>1. PICK b : b = [book EXCEPT ![job.ref].status = "gone"]
    OBVIOUS
  <2>2. PICK r : r = [book[job.ref] EXCEPT !.price = job.price]
    OBVIOUS
  <2>3. PICK ref : ref = Len(book) + 1
    OBVIOUS
  <2>4. b \in Seq(BookRecord) /\ Len(b) = Len(book) /\ DOMAIN b = DOMAIN book
    <3>1. b \in Seq(BookRecord) /\ DOMAIN b = DOMAIN book
      BY <1>7, <1>8, <2>1, BookShape
    <3> QED BY <1>7, <3>1
  <2>5. /\ DOMAIN book' = DOMAIN book \cup {ref} /\ ref \notin DOMAIN book
        /\ book'[ref] = r /\ \A k \in DOMAIN book : book'[k] = b[k]
    <3>1. book' = Append(b, r)
      BY <1>8, <2>1, <2>2
    <3> QED BY <1>1, <2>3, <2>4, <3>1, BookAppended
  <2>6. r.id = n /\ r.type = "LIMIT"
    BY <1>2, <1>4, <1>7, <1>8, <2>2 DEF BookRecord, Mine
  <2>7. /\ \A k \in DOMAIN book \ {job.ref} : b[k] = book[k]
        /\ b[job.ref].status = "gone" /\ b[job.ref].id = book[job.ref].id
        /\ b[job.ref].type = book[job.ref].type /\ b[job.ref].action = book[job.ref].action
    BY <1>7, <1>8, <2>1 DEF BookRecord
  <2>8. BookMoves(n)
    BY <1>8, <2>5, <2>6, <2>7 DEF BookMoves, IsOpen
  <2>9. Mine(ref, n)'
    BY <2>5, <2>6 DEF Mine
  <2>10. OnlyGone(n, ref)'
    <3>1. \A k \in DOMAIN book' : k # ref /\ Mine(k, n)' => k \in DOMAIN book /\ Mine(k, n)
      BY <2>5, <2>7 DEF Mine
    <3>2. \A k \in DOMAIN book : Mine(k, n) => b[k].status = "gone"
      BY <1>5, <1>8, <2>7 DEF OnlyGone
    <3> QED BY <2>5, <3>1, <3>2 DEF OnlyGone
  <2> QED BY <1>6, <1>8, <2>3, <2>8, <2>9, <2>10
<1>9. CASE /\ IsOpen(job.ref) /\ book' = [book EXCEPT ![job.ref].price = job.price]
           /\ Answered(job, job.ref, "PENDING")
  <2>1. /\ DOMAIN book' = DOMAIN book /\ \A k \in DOMAIN book \ {job.ref} : book'[k] = book[k]
        /\ book'[job.ref] = [book[job.ref] EXCEPT !.price = job.price]
    BY <1>7, <1>9
  <2>2. /\ book'[job.ref].status = book[job.ref].status /\ book'[job.ref].id = book[job.ref].id
        /\ book'[job.ref].type = book[job.ref].type /\ book'[job.ref].action = book[job.ref].action
    BY <1>7, <1>9, <2>1 DEF BookRecord
  <2>3. BookMoves(0) /\ BookMoves(n) /\ n # 0
    BY <1>1, <1>4, <2>1, <2>2 DEF BookMoves
  <2>4. PICK ref : ref = job.ref
    OBVIOUS
  <2>5. Mine(ref, n)' /\ OnlyGone(n, ref)'
    BY <1>2, <1>4, <1>5, <1>9, <2>3, <2>4, BookFacts
  <2> QED BY <1>6, <1>9, <2>3, <2>4, <2>5
<1>10. \A ref, st : Acknowledged(job, ref, st) => Answered(job, ref, st)
  BY <1>0, <1>1, HeardAnswer
<1> QED BY <1>3, <1>8, <1>9, <1>10 DEF DispatchEdit

\* A cancel, a query, a change of levels or a trades query reaches the broker.
LEMMA CancelMirrors ==
  ASSUME LiveInv, LossShape, PriceInv, Mirrors, FewerHeard, NEW job \in Items(worker),
         DispatchCancel(job) \/ DispatchQuery(job) \/ DispatchPosition(job) \/ DispatchTrades(job)
  PROVE  Mirrors'
<1>0. SUFFICES ASSUME job.id \in Heard' PROVE Mirrors'
  <2>1. WireShapes /\ job.id \in Ids
    BY ItemIds DEF LiveInv, Shapes
  <2>2. \E ref, st : Answered(job, ref, st)
    BY SomeAnswer DEF DispatchCancel, DispatchQuery, DispatchPosition, DispatchTrades
  <2>3. \/ book' = book
        \/ \E ref \in DOMAIN book, st \in {"filled", "gone"} :
             IsOpen(ref) /\ book' = [book EXCEPT ![ref].status = st]
    BY DEF DispatchCancel, DispatchQuery, DispatchPosition, DispatchTrades, Refused, IsOpen
  <2>4. BookMoves(0)
    BY <2>1, <2>3, BookSame, BookChanges DEF BookStays
  <2> HIDE DEF Mirrors, BookMoves, Requests
  <2> QED BY <2>1, <2>2, <2>4, UnheardAnswered
<1>1. WireShapes /\ OrderShapes /\ job \in Asked /\ job.id \in Ids /\ job.id # 0 /\ JobAgrees(job) /\ 0 \notin Ids
  BY <1>0, ItemIds DEF LiveInv, Shapes, WireShapes, Items, Mirrors, JobMirrors, FewerHeard
<1>2. ASSUME NEW st, Answered(job, job.ref, st), BookStays, job.kind \notin {"submit", "edit"},
             NEW m, m = AnswerTo(job, job.ref, st), AnswerMirrors(m)'
      PROVE  Mirrors'
  <2>1. ~Accepted(m) /\ BookMoves(0)
    BY <1>2 DEF AnswerTo, Accepted, BookStays
  <2> HIDE DEF Mirrors, AnswerMirrors, BookMoves, BookStays
  <2> QED BY <1>1, <1>2, <2>1, AnsweredMirrors
<1>3. \A ref, st : Acknowledged(job, ref, st) => Answered(job, ref, st)
  BY <1>0, <1>1, HeardAnswer
<1>4. book' = book => BookStays
  BY <1>1, BookSame
<1>5. CASE DispatchCancel(job)
  <2>1. CASE Refused(job)
    <3>1. PICK m : m = AnswerTo(job, job.ref, "REJECTED")
      OBVIOUS
    <3>2. AnswerMirrors(m)' /\ job.kind = "cancel"
      BY <1>5, <3>1 DEF AnswerTo, AnswerMirrors, AnswerAgrees, Accepted, DispatchCancel
    <3> QED BY <1>2, <1>4, <2>1, <3>1, <3>2 DEF Refused
  <2>2. CASE IsOpen(job.ref) /\ book' = [book EXCEPT ![job.ref].status = "gone"] /\ Answered(job, job.ref, "CANCELLED")
    <3>1. BookStays
      BY <1>1, <2>2, BookChanges DEF IsOpen
    <3>2. PICK m : m = AnswerTo(job, job.ref, "CANCELLED")
      OBVIOUS
    <3>3. m.kind = "cancel" /\ m.id = job.id /\ m.ref = job.ref /\ job.kind = "cancel" /\ limits' = limits
      BY <1>5, <2>2, <3>2 DEF AnswerTo, DispatchCancel, Answered, local
    <3>4. \E r : r = job.ref /\ At(r, "gone")'
      <4>1. book \in Seq(BookRecord) /\ job.ref \in DOMAIN book /\ book[job.ref] \in BookRecord
        BY <1>1, <2>2 DEF WireShapes, IsOpen
      <4> QED BY <2>2, <4>1 DEF At, BookRecord
    <3>5. AnswerMirrors(m)'
      BY <1>1, <3>3, <3>4 DEF AnswerMirrors, AnswerAgrees, Accepted, JobAgrees
    <3> QED BY <1>2, <2>2, <3>1, <3>2, <3>3, <3>5
  <2> QED BY <1>3, <1>5, <2>1, <2>2 DEF DispatchCancel
<1>6. CASE DispatchQuery(job)
  <2>1. PICK st : st = QueryStatus(job.ref)
    OBVIOUS
  <2>2. Answered(job, job.ref, st) /\ job.kind = "query" /\ book' = book /\ BookStays
    BY <1>3, <1>4, <1>6, <2>1 DEF DispatchQuery
  <2>3. PICK m : m = AnswerTo(job, job.ref, st)
    OBVIOUS
  <2>4. m.kind = "query" /\ m.ref = job.ref /\ m.status = st
    BY <2>2, <2>3 DEF AnswerTo
  <2>5. job.ref \in DOMAIN book /\ book[job.ref].status \in {"open", "filled", "gone"}
    <3>1. job.ref \in DOMAIN book /\ book \in Seq(BookRecord)
      BY <1>1, <2>2 DEF JobAgrees, WireShapes
    <3>2. book[job.ref] \in BookRecord
      BY <3>1
    <3> QED BY <3>1, <3>2 DEF BookRecord
  <2>6. /\ st # "REJECTED" /\ (st = "FILLED" => book[job.ref].status = "filled")
        /\ (st = "CANCELLED" => book[job.ref].status = "gone")
    BY <2>1, <2>5 DEF QueryStatus
  <2>7. AnswerMirrors(m)'
    BY <2>2, <2>4, <2>5, <2>6 DEF AnswerMirrors, AnswerAgrees, Accepted, At
  <2> QED BY <1>2, <2>2, <2>3, <2>7
<1>7. CASE DispatchPosition(job) \/ DispatchTrades(job)
  <2>1. PICK st : Answered(job, job.ref, st) /\ book' = book /\ job.kind \in {"position", "trades"}
    BY <1>3, <1>7 DEF DispatchPosition, DispatchTrades, Refused
  <2>2. PICK m : m = AnswerTo(job, job.ref, st)
    OBVIOUS
  <2>3. AnswerMirrors(m)'
    BY <2>1, <2>2 DEF AnswerTo, AnswerMirrors, AnswerAgrees, Accepted
  <2> QED BY <1>2, <1>4, <2>1, <2>2, <2>3
<1> QED BY <1>5, <1>6, <1>7

-----------------------------------------------------------------------------
(* Draining the inbox *)

\* The one request of an order is the answer that is drained.
LEMMA HeadAlone ==
  ASSUME WireShapes, PriceInv, inbox # <<>>, NEW m, m = Head(inbox), Requests(m)
  PROVE  \A x \in Items(outbox) \cup Items(worker) \cup Items(Tail(inbox)) : x.id = m.id => ~Requests(x)
<1>1. inbox \in Seq(Answer) /\ RequestedOnce
  BY DEF WireShapes, PriceInv
<1>2. m.id \in Requested(inbox) /\ m.id \notin Requested(Tail(inbox))
  BY <1>1, TailRequests DEF RequestedOnce
<1>3. m.id \notin Requested(outbox) \cup Requested(worker)
  BY <1>1, <1>2 DEF RequestedOnce
<1> HIDE DEF Requests
<1> QED BY <1>2, <1>3, ItemsRequested

\* What every round of drain_inbox leaves alone.
Drained(m) ==
  /\ inbox # <<>> /\ m = Head(inbox) /\ inbox' = Tail(inbox)
  /\ UNCHANGED <<sent, worker, book>>

\* What is known of the answer being handled.
LEMMA DrainFacts ==
  ASSUME LiveInv, Mirrors, FewerHeard, NEW m, Drained(m)
  PROVE  /\ WireShapes /\ OrderShapes /\ m \in Items(inbox) /\ m \in Answer /\ m.id \in Ids
         /\ m.id \in Heard => AnswerAgrees(m) /\ OrderAgrees(m.id)
         /\ BookStays /\ Items(inbox') \subseteq Items(inbox)
         /\ \A n : BookMoves(n)
         /\ \A i : Replaced(i) /\ (i # m.id \/ ~Accepted(m)) => Replaced(i)'
<1>1. WireShapes /\ OrderShapes /\ inbox \in Seq(Answer)
  BY DEF LiveInv, Shapes, WireShapes
<1>2. m \in Items(inbox) /\ Items(inbox') \subseteq Items(inbox)
  BY <1>1, TailRequests DEF Drained
<1>3. m \in Answer /\ m.id \in Ids
  BY <1>1, <1>2, ItemIds DEF Items
<1>4. m.id \in Heard => AnswerAgrees(m) /\ OrderAgrees(m.id)
  BY <1>2, <1>3 DEF Mirrors, AnswerMirrors, OrderMirrors
<1>5. BookStays /\ \A n : BookMoves(n)
  BY <1>1, BookSame DEF Drained
<1>6. \A i : Replaced(i) /\ (i # m.id \/ ~Accepted(m)) => Replaced(i)'
  BY <1>1, StillReplaced DEF Drained
<1> QED BY <1>1, <1>2, <1>3, <1>4, <1>5, <1>6

\* The answer changes nothing the broker has to agree with.
LEMMA DrainSame ==
  ASSUME LiveInv, Mirrors, FewerHeard, NEW m, Drained(m), m.id \in Heard, ~Accepted(m), SameLimits, UNCHANGED <<pending, outbox>>,
         \A i \in Ids \ {m.id} : results'[i] = results[i],
         results'[m.id] = results[m.id] \/ results'[m.id] = Append(results[m.id], "MODIFY_REJECTED")
  PROVE  Mirrors'
<1>1. PICK n : n = m.id
  OBVIOUS
<1>2. /\ WireShapes /\ OrderShapes /\ n \in Ids /\ OrderAgrees(n) /\ BookStays
      /\ \A i : Replaced(i) => Replaced(i)'
      /\ inbox # <<>> /\ inbox' = Tail(inbox) /\ UNCHANGED <<sent, worker>>
  BY <1>1, DrainFacts DEF Drained
<1>3. Opening' = Opening
  BY DEF Opening
<1>4. \A i \in Ids \ {n} : SameOrder(i)
  BY <1>1, <1>2, <1>3 DEF SameOrder, SameLimits
<1>5. Resolved(n, "MODIFY_REJECTED")'
  BY DEF Resolved
<1>6. PICK r : r = pending[n].ref
  OBVIOUS
<1>7. n \in Opening' => OnlyGone(n, NoRef) /\ pending'[n].ref = r /\ (r # NoRef => Market(r, n))
  BY <1>2, <1>3, <1>6 DEF OrderMirrors, OrderAgrees
<1>8. OrderMirrors(n)'
  <2>1. OrderAgrees(n)'
    BY <1>1, <1>2, <1>5, <1>7, MarketAfter
  <2> QED BY <2>1 DEF OrderMirrors
<1> HIDE DEF Mirrors, OrderMirrors, SameOrder, BookStays, JobMirrors
<1> QED BY <1>2, <1>4, <1>8, MirrorsMarket

\* The answer changes nothing at all of the orders.
LEMMA DrainQuiet ==
  ASSUME LiveInv, Mirrors, FewerHeard, NEW m, Drained(m), ~Accepted(m), SameLimits,
         UNCHANGED <<pending, results, outbox>>
  PROVE  Mirrors'
<1>1. /\ WireShapes /\ m.id \in Ids /\ BookMoves(0) /\ (\A i : Replaced(i) => Replaced(i)')
      /\ inbox # <<>> /\ inbox' = Tail(inbox) /\ UNCHANGED <<sent, worker>>
      /\ Items(inbox') \subseteq Items(inbox)
  BY DrainFacts DEF Drained
<1>2. \A i \in Ids : SameOrder(i)
  BY <1>1 DEF SameOrder, SameLimits, Opening
<1>3. InOrder'
  <2>1. \A i : i \in DOMAIN limits' => i \in DOMAIN limits /\ limits'[i].ref = limits[i].ref
    BY DEF SameLimits
  <2> QED BY <1>1, <2>1, StaysInOrder DEF Mirrors
<1>4. 0 \notin Ids /\ \A x \in Items(outbox) \cup Items(worker) \cup Items(inbox) : x.id # 0
  BY <1>1, ItemIds
<1> HIDE DEF Mirrors, JobMirrors, AnswerMirrors, OrderMirrors, SameOrder, InOrder, Items, BookMoves
<1> QED BY <1>1, <1>2, <1>3, <1>4, MirrorsOne

\* A limit order gets its outcome.
LEMMA DrainDecides ==
  ASSUME LiveInv, InSession, Mirrors, FewerHeard, NEW m, Drained(m), m.id \in Heard, UNCHANGED pending, m.id \in DOMAIN limits,
         limits' = Without(limits, {m.id}), NoneOpen(m.id), NEW o, Resolved(m.id, o),
         \A i \in Ids \ {m.id} : results'[i] = results[i],
         results'[m.id] = Append(results[m.id], o),
         outbox' = outbox \/ \E x : outbox' = Append(outbox, x) /\ JobMirrors(x)',
         \A x \in Items(outbox) \cup Items(worker) : x.id = m.id => ~(x.kind = "submit" /\ x.type = "LIMIT"),
         \A x \in Items(inbox') : x.id = m.id => ~(x.kind = "submit" /\ x.type = "LIMIT") /\ ~Accepted(x)
  PROVE  Mirrors'
<1>1. PICK n : n = m.id
  OBVIOUS
<1>2. /\ WireShapes /\ OrderShapes /\ n \in Ids /\ OrderAgrees(n) /\ BookStays /\ BookMoves(n)
      /\ \A i : i # n /\ Replaced(i) => Replaced(i)'
      /\ inbox # <<>> /\ inbox' = Tail(inbox) /\ UNCHANGED <<sent, worker>>
      /\ Items(inbox') \subseteq Items(inbox)
  BY <1>1, DrainFacts DEF Drained
<1>3. Opening' = Opening /\ n \notin Opening /\ n <= sent /\ n # 0
  BY <1>1, LimitHeld, HeldOpen DEF Opening, Ids
<1>4. n \notin DOMAIN limits' /\ \A i : i # n => (i \in DOMAIN limits' <=> i \in DOMAIN limits)
  BY <1>1 DEF Without
<1>5. \A i \in DOMAIN limits : i # n => limits'[i] = limits[i]
  BY <1>1 DEF Without
<1>6. \A i \in Ids \ {n} : SameOrder(i)
  BY <1>1, <1>2, <1>3, <1>4, <1>5 DEF SameOrder
<1>7. /\ NoneOpen(n)' /\ Resolved(n, o)' /\ \A ref : Mine(ref, n) => Mine(ref, n)'
      /\ \A ref : (At(ref, "gone") => At(ref, "gone")') /\ (ref \in DOMAIN book => ref \in DOMAIN book')
      /\ \A ref : At(ref, "filled") => At(ref, "filled")'
      /\ \A ref : Market(ref, n) => Market(ref, n)'
  BY <1>1, <1>2, <1>3, BookFacts DEF BookStays
<1>8. OrderMirrors(n)'
  <2>1. (\A k \in DOMAIN results[n] : Resolved(n, results[n][k]))'
    BY <1>1, <1>2, <1>7, ResultAppended
  <2>2. ~(n > sent)'
    BY <1>1, <1>2, <1>3 DEF OrderShapes, Ids
  <2> QED BY <1>3, <1>4, <1>7, <2>1, <2>2 DEF OrderMirrors, OrderAgrees
<1> HIDE DEF Mine, At, Market, NoneOpen, OnlyGone
<1>9. \A x \in Items(outbox) \cup Items(worker) : x.id = n /\ Requests(x) => JobMirrors(x)'
  BY <1>1, <1>4, <1>7 DEF Mirrors, JobMirrors, JobAgrees, Requests
<1>10. \A x \in Items(inbox') : x.id = n /\ Requests(x) => AnswerMirrors(x)'
  <2>1. SUFFICES ASSUME NEW x \in Items(inbox'), x.id = n, Requests(x) PROVE AnswerMirrors(x)'
    OBVIOUS
  <2>2. AnswerAgrees(x) /\ ~(x.kind = "submit" /\ x.type = "LIMIT") /\ ~Accepted(x)
    BY <1>1, <1>2, <2>1 DEF Mirrors, AnswerMirrors
  <2> QED BY <1>4, <1>7, <2>1, <2>2 DEF AnswerMirrors, AnswerAgrees, Requests, Accepted
<1> HIDE DEF Mirrors, OrderMirrors, SameOrder, BookStays, BookMoves, JobMirrors, AnswerMirrors, Requests, Replaced
<1> QED BY <1>2, <1>4, <1>6, <1>8, <1>9, <1>10, MirrorsTouched

\* A limit order gets its reference, or a new one.
LEMMA DrainRenames ==
  ASSUME LiveInv, InSession, PriceInv, Mirrors, FewerHeard, NEW m, Drained(m), m.id \in Heard, Requests(m),
         UNCHANGED <<pending, results>>, m.id \in DOMAIN limits,
         DOMAIN limits' = DOMAIN limits, \A i \in DOMAIN limits : i # m.id => limits'[i] = limits[i],
         limits'[m.id].ref = m.ref, Mine(m.ref, m.id), OnlyGone(m.id, m.ref),
         outbox' = outbox \/ \E x : outbox' = Append(outbox, x) /\ JobMirrors(x)'
  PROVE  Mirrors'
<1>1. PICK n : n = m.id
  OBVIOUS
<1>2. PICK r : r = m.ref
  OBVIOUS
<1>3. /\ WireShapes /\ OrderShapes /\ n \in Ids /\ OrderAgrees(n) /\ BookStays /\ BookMoves(n)
      /\ \A i : i # n /\ Replaced(i) => Replaced(i)'
      /\ inbox # <<>> /\ inbox' = Tail(inbox) /\ UNCHANGED <<sent, worker>>
      /\ Items(inbox') \subseteq Items(inbox)
  BY <1>1, DrainFacts DEF Drained
<1>4. Opening' = Opening /\ n \notin Opening /\ n <= sent /\ n # 0
  BY <1>1, LimitHeld, HeldOpen DEF Opening, Ids
<1>5. \A i \in Ids \ {n} : SameOrder(i)
  BY <1>1, <1>3, <1>4 DEF SameOrder
<1>6. Mine(r, n)' /\ OnlyGone(n, r)'
  BY <1>1, <1>2, <1>3, <1>4, BookFacts DEF BookStays
<1>7. \A x \in Items(outbox) \cup Items(worker) \cup Items(inbox') : x.id = n => ~Requests(x)
  BY <1>1, <1>3, HeadAlone DEF Drained
<1>8. OrderMirrors(n)'
  <2>1. (\A k \in DOMAIN results[n] : Resolved(n, results[n][k]))'
    <3>1. \A k \in DOMAIN results[n] : results[n][k] = "MODIFY_REJECTED"
      BY <1>1, LimitHeld
    <3> QED BY <3>1 DEF Resolved
  <2>2. ~(n > sent)'
    BY <1>1, <1>3, <1>4 DEF OrderShapes, Ids
  <2>3. limits'[n].ref = r
    BY <1>1, <1>2
  <2> HIDE DEF Mine, OnlyGone, NoneOpen, Resolved, Replaced, Opening
  <2> QED BY <1>1, <1>4, <1>6, <2>1, <2>2, <2>3 DEF OrderMirrors, OrderAgrees
<1>9. ~Replaced(n)'
  BY <1>7 DEF Replaced, Requests, Accepted
<1> HIDE DEF Mirrors, OrderMirrors, SameOrder, BookStays, BookMoves, JobMirrors, AnswerMirrors, Requests, Replaced
<1> QED BY <1>3, <1>5, <1>7, <1>8, <1>9, MirrorsTouched

\* The answer to a market submission.
LEMMA SubmitDrained ==
  ASSUME LiveInv, InSession, Mirrors, FewerHeard, NEW m, Drained(m), m.id \in Heard, HandleSubmitResponse(m)
  PROVE  Mirrors'
<1>1. PICK n : n = m.id
  OBVIOUS
<1>2. /\ WireShapes /\ OrderShapes /\ n \in Ids /\ OrderAgrees(n) /\ BookStays /\ AnswerAgrees(m)
      /\ inbox # <<>> /\ inbox' = Tail(inbox) /\ UNCHANGED <<sent, worker, book>>
      /\ m \in Items(inbox) /\ m \in Answer
  BY <1>1, DrainFacts DEF Drained
<1>3. m.kind = "submit" /\ m.type = "MARKET" /\ n \in DOMAIN pending /\ limits' = limits /\ ~Accepted(m)
  BY <1>1 DEF HandleSubmitResponse, Accepted
<1>4. SameLimits /\ \A i : Replaced(i) => Replaced(i)'
  BY <1>3, SameParts, DrainFacts
<1>5. /\ m.action = "OPEN" => n \in Opening
      /\ m.action # "OPEN" => n \notin Opening
  <2>1. m.action = "OPEN" => n \in Submitted(inbox, "OPEN")
    BY <1>1, <1>2, <1>3 DEF Submitted, Submits, Items
  <2>2. m.action # "OPEN" => n \in Submitted(inbox, "CLOSE")
    BY <1>1, <1>2, <1>3 DEF Submitted, Submits, Items, Answer
  <2>3. n \in Opening => Ends(n) = {}
    BY HeldOpen
  <2>4. m.action # "OPEN" => Ends(n) # {}
    BY <2>2 DEF LiveInv, AnswersDue, Underway
  <2>5. m.action = "OPEN" => n \in Opening
    BY <2>1 DEF LiveInv, AnswersDue, Underway
  <2> QED BY <2>3, <2>4, <2>5
<1>6. \A i \in Opening' : i # n => i \in Opening /\ pending'[i] = pending[i]
  BY <1>1, <1>2 DEF HandleSubmitResponse, Opening, Without, OrderShapes
<1>7. /\ n \in Opening' => n \in Opening /\ m.status = "PENDING" /\ pending'[n].ref = m.ref
  BY <1>1, <1>2, <1>3 DEF HandleSubmitResponse, Opening, Without, OrderShapes, Tracked0
<1>8. /\ outbox' = outbox \/ \E x : outbox' = Append(outbox, x) /\ JobMirrors(x)'
      /\ \A i \in Ids \ {n} : results'[i] = results[i]
      /\ \/ results'[n] = results[n]
         \/ /\ m.status # "REJECTED" /\ m.action = "OPEN"
            /\ \E o \in {"EXECUTED", "NO_FUNDS"} : results'[n] = Append(results[n], o)
         \/ m.action = "OPEN" /\ results'[n] = Append(results[n], "REJECTED")
  <2>1. CASE m.status = "REJECTED" /\ Reject(n, m.action)
    <3>1. UNCHANGED results \/ (m.action = "OPEN" /\ Report(n, "REJECTED"))
      BY <2>1 DEF Reject
    <3>2. outbox' = outbox
      BY <2>1 DEF Reject, NoFill
    <3> QED BY <1>2, <3>1, <3>2, ReportOne
  <2>2. CASE m.status = "FILLED" /\ Fill(n, m.action, m.ref)
    <3>1. outbox' = outbox \/ \E x : outbox' = Append(outbox, x) /\ JobMirrors(x)'
      BY <1>2, <2>2, FillMirrors
    <3>2. \/ UNCHANGED results
          \/ m.action = "OPEN" /\ \E o \in {"EXECUTED", "NO_FUNDS"} : Report(n, o)
      BY <2>2 DEF Fill, FillOpen
    <3> HIDE DEF JobMirrors
    <3> QED BY <1>2, <2>2, <3>1, <3>2, ReportOne
  <2>3. CASE NoFill /\ UNCHANGED results
    BY <2>3 DEF NoFill
  <2> HIDE DEF JobMirrors
  <2> QED BY <1>1, <2>1, <2>2, <2>3 DEF HandleSubmitResponse
<1>9. \A i \in Ids \ {n} : SameOrder(i)
  BY <1>2, <1>3, <1>4, <1>6, <1>8 DEF SameOrder
<1>10. n \in Opening => OnlyGone(n, NoRef)
  BY <1>2 DEF OrderMirrors, OrderAgrees
<1>11. m.action = "OPEN" /\ m.status # "REJECTED" => Market(m.ref, n)
  BY <1>1, <1>2, <1>3 DEF AnswerMirrors, AnswerAgrees
<1>12. PICK r : r = m.ref
  OBVIOUS
<1>13. n \in Opening' => OnlyGone(n, NoRef) /\ pending'[n].ref = r /\ (r # NoRef => Market(r, n))
  BY <1>5, <1>7, <1>10, <1>11, <1>12
<1>14. OrderMirrors(n)'
  <2>1. ASSUME NEW o, Resolved(n, o)', results'[n] = results[n] \/ results'[n] = Append(results[n], o)
        PROVE  OrderMirrors(n)'
    <3>1. OrderAgrees(n)'
      BY <1>2, <1>4, <1>13, <2>1, MarketAfter
    <3> QED BY <3>1 DEF OrderMirrors
  <2>2. Resolved(n, "EXPIRED")'
    BY DEF Resolved
  <2>3. m.action = "OPEN" => Resolved(n, "REJECTED")'
    <3>1. m.action = "OPEN" => OnlyGone(n, NoRef)'
      BY <1>2, <1>5, <1>10, BookFacts DEF BookStays, Ids
    <3> HIDE DEF OnlyGone
    <3> QED BY <3>1 DEF Resolved
  <2>4. m.action = "OPEN" /\ m.status # "REJECTED" => Resolved(n, "EXECUTED")' /\ Resolved(n, "NO_FUNDS")'
    <3>1. m.action = "OPEN" /\ m.status # "REJECTED" => Market(r, n)' /\ r \in DOMAIN book'
      BY <1>2, <1>11, <1>12 DEF Market
    <3> HIDE DEF Market
    <3> QED BY <3>1 DEF Resolved
  <2> HIDE DEF Resolved, OrderMirrors
  <2> QED BY <1>8, <2>1, <2>2, <2>3, <2>4
<1> HIDE DEF Mirrors, OrderMirrors, SameOrder, BookStays, JobMirrors
<1> QED BY <1>2, <1>4, <1>8, <1>9, <1>14, MirrorsMarket

\* What is reported of a limit order that is no longer tracked.
LEMMA LimitReported ==
  ASSUME OrderShapes, NEW n \in Ids, NEW ref, FillOpen(n, ref) \/ Reject(n, "OPEN") \/ (Report(n, "CANCELLED") /\ NoFill)
  PROVE  \E o \in {"EXECUTED", "NO_FUNDS", "REJECTED", "CANCELLED"} :
           /\ FillOpen(n, ref) => o \in {"EXECUTED", "NO_FUNDS"}
           /\ \A i \in Ids \ {n} : results'[i] = results[i]
           /\ results'[n] = Append(results[n], o)
           /\ outbox' = outbox \/ \E x : outbox' = Append(outbox, x) /\ JobMirrors(x)'
<1>1. outbox' = outbox \/ \E x : outbox' = Append(outbox, x) /\ JobMirrors(x)'
  <2>1. FillOpen(n, ref) \/ Reject(n, "OPEN") => outbox' = outbox \/ \E x : outbox' = Append(outbox, x) /\ JobMirrors(x)'
    BY FillMirrors
  <2> HIDE DEF JobMirrors
  <2> QED BY <2>1 DEF NoFill
<1>2. CASE FillOpen(n, ref)
  <2>1. PICK o \in {"EXECUTED", "NO_FUNDS"} : Report(n, o)
    BY <1>2 DEF FillOpen
  <2> HIDE DEF JobMirrors
  <2> QED BY <1>1, <2>1, ReportOne
<1>3. CASE ~FillOpen(n, ref)
  <2>1. PICK o \in {"REJECTED", "CANCELLED"} : Report(n, o)
    BY <1>3 DEF Reject
  <2> HIDE DEF JobMirrors
  <2> QED BY <1>1, <1>3, <2>1, ReportOne
<1> QED BY <1>2, <1>3

\* What is gone or filled is not open.
LEMMA Decided ==
  ASSUME WireShapes, NEW i, NEW ref, OnlyGone(i, ref)
  PROVE  /\ At(ref, "gone") \/ ref = NoRef => OnlyGone(i, NoRef) /\ NoneOpen(i)
         /\ At(ref, "filled") => NoneOpen(i)
         /\ At(ref, "filled") /\ Mine(ref, i) => Resolved(i, "EXECUTED") /\ Resolved(i, "NO_FUNDS")
         /\ OnlyGone(i, NoRef) => Resolved(i, "REJECTED") /\ Resolved(i, "CANCELLED")
<1>1. book \in Seq(BookRecord) /\ NoRef \notin DOMAIN book
  BY DEF WireShapes, NoRef
<1>2. OnlyGone(i, NoRef) => NoneOpen(i)
  BY <1>1 DEF OnlyGone, NoneOpen
<1>3. At(ref, "gone") \/ ref = NoRef => OnlyGone(i, NoRef)
  BY <1>1 DEF At, OnlyGone
<1>4. At(ref, "filled") => NoneOpen(i)
  BY DEF At, OnlyGone, NoneOpen
<1>5. At(ref, "filled") /\ Mine(ref, i) => Resolved(i, "EXECUTED") /\ Resolved(i, "NO_FUNDS")
  BY DEF Resolved, Mine
<1>6. OnlyGone(i, NoRef) => Resolved(i, "REJECTED") /\ Resolved(i, "CANCELLED")
  BY DEF Resolved
<1> QED BY <1>2, <1>3, <1>4, <1>5, <1>6

\* The answer to a limit submission.
LEMMA LimitSubmitDrained ==
  ASSUME LiveInv, InSession, PriceInv, Mirrors, FewerHeard, NEW m, Drained(m), m.id \in Heard, HandleLimitSubmitResponse(m)
  PROVE  Mirrors'
<1>1. /\ WireShapes /\ OrderShapes /\ m.id \in Ids /\ AnswerAgrees(m) /\ inbox' = Tail(inbox) /\ inbox # <<>> /\ m = Head(inbox)
  BY DrainFacts DEF Drained
<1>2. m.kind = "submit" /\ m.type = "LIMIT" /\ m.id \in DOMAIN limits /\ pending' = pending /\ Requests(m)
  BY DEF HandleLimitSubmitResponse, Requests
<1>3. IF m.status = "REJECTED" THEN OnlyGone(m.id, NoRef) ELSE OnlyGone(m.id, m.ref) /\ Mine(m.ref, m.id)
  BY <1>1, <1>2 DEF AnswerMirrors, AnswerAgrees
<1>4. m.status = "FILLED" => At(m.ref, "filled")
  BY <1>1, <1>2 DEF AnswerMirrors, AnswerAgrees
<1>5. /\ \A x \in Items(outbox) \cup Items(worker) : x.id = m.id => ~(x.kind = "submit" /\ x.type = "LIMIT")
      /\ \A x \in Items(inbox') : x.id = m.id => ~(x.kind = "submit" /\ x.type = "LIMIT") /\ ~Accepted(x)
  BY <1>1, <1>2, HeadAlone DEF Requests, Accepted
<1>6. CASE m.status = "REJECTED" /\ limits' = Without(limits, {m.id}) /\ Reject(m.id, "OPEN")
  <2>1. PICK o \in {"EXECUTED", "NO_FUNDS", "REJECTED", "CANCELLED"} : Report(m.id, o) /\ o = "REJECTED"
    BY <1>6 DEF Reject
  <2>2. /\ \A i \in Ids \ {m.id} : results'[i] = results[i]
        /\ results'[m.id] = Append(results[m.id], o) /\ outbox' = outbox
    BY <1>1, <1>6, <2>1, ReportOne DEF Reject, NoFill
  <2>3. NoneOpen(m.id) /\ Resolved(m.id, o)
    BY <1>1, <1>3, <1>6, <2>1, Decided
  <2> HIDE DEF Mirrors, NoneOpen, Resolved, JobMirrors, Accepted
  <2> QED BY <1>2, <1>5, <1>6, <2>2, <2>3, DrainDecides
<1>7. CASE m.status = "FILLED" /\ limits' = Without(limits, {m.id}) /\ FillOpen(m.id, m.ref)
  <2>1. PICK o \in {"EXECUTED", "NO_FUNDS"} :
          /\ \A i \in Ids \ {m.id} : results'[i] = results[i]
          /\ results'[m.id] = Append(results[m.id], o)
          /\ outbox' = outbox \/ \E x : outbox' = Append(outbox, x) /\ JobMirrors(x)'
    BY <1>1, <1>7, LimitReported
  <2>2. NoneOpen(m.id) /\ Resolved(m.id, o)
    BY <1>1, <1>3, <1>4, <1>7, Decided
  <2> HIDE DEF Mirrors, NoneOpen, Resolved, JobMirrors, Accepted
  <2> QED BY <1>2, <1>5, <1>7, <2>1, <2>2, DrainDecides
<1>8. CASE m.status = "PENDING" /\ Confirm(m) /\ UNCHANGED results
  <2>1. /\ DOMAIN limits' = DOMAIN limits /\ (\A i \in DOMAIN limits : i # m.id => limits'[i] = limits[i])
        /\ limits'[m.id].ref = m.ref
    <3>1. limits \in [DOMAIN limits -> Resting] /\ limits[m.id] \in Resting
      BY <1>1, <1>2 DEF OrderShapes
    <3>2. CASE limits' = [limits EXCEPT ![m.id].ref = m.ref]
      BY <1>2, <3>1, <3>2 DEF Resting
    <3>3. CASE limits' = [limits EXCEPT ![m.id].ref = m.ref, ![m.id].op = "PENDING_CANCEL",
                                        ![m.id].cancelRequested = FALSE]
      <4>1. limits'[m.id] = [limits[m.id] EXCEPT !.ref = m.ref, !.op = "PENDING_CANCEL", !.cancelRequested = FALSE]
        BY <1>2, <3>1, <3>3
      <4>2. limits'[m.id].ref = m.ref
        BY <3>1, <4>1 DEF Resting
      <4> QED BY <1>2, <3>1, <3>3, <4>2
    <3> QED BY <1>8, <3>2, <3>3 DEF Confirm
  <2>2. outbox' = outbox \/ \E x : outbox' = Append(outbox, x) /\ JobMirrors(x)'
    <3>1. PICK x : x = OrderJob("cancel", m.id, m.ref, 0)
      OBVIOUS
    <3>2. JobMirrors(x)'
      BY <2>1, <3>1 DEF JobMirrors, JobAgrees, OrderJob
    <3> HIDE DEF JobMirrors
    <3> QED BY <1>8, <3>1, <3>2 DEF Confirm
  <2>3. Mine(m.ref, m.id) /\ OnlyGone(m.id, m.ref)
    BY <1>3, <1>8
  <2> HIDE DEF Mirrors, Mine, OnlyGone, JobMirrors, Requests
  <2> QED BY <1>2, <1>8, <2>1, <2>2, <2>3, DrainRenames
<1> QED BY <1>6, <1>7, <1>8 DEF HandleLimitSubmitResponse

\* The answer to an edit.
LEMMA ModifyDrained ==
  ASSUME LiveInv, InSession, PriceInv, Mirrors, FewerHeard, NEW m, Drained(m), m.id \in Heard, HandleModifyResponse(m)
  PROVE  Mirrors'
<1>1. WireShapes /\ OrderShapes /\ m.id \in Ids /\ AnswerAgrees(m)
  BY DrainFacts
<1>2. m.kind = "edit" /\ pending' = pending /\ outbox' = outbox /\ Requests(m)
  BY DEF HandleModifyResponse, NoFill, Requests
<1>3. CASE m.id \notin DOMAIN limits
  <2>1. UNCHANGED <<limits, results>> /\ ~Accepted(m)
    BY <1>1, <1>3 DEF HandleModifyResponse, AnswerMirrors, AnswerAgrees
  <2> HIDE DEF Mirrors
  <2> QED BY <1>2, <2>1, SameParts, DrainSame
<1>4. ASSUME m.id \in DOMAIN limits
      PROVE  /\ DOMAIN limits' = DOMAIN limits /\ (\A i \in DOMAIN limits : i # m.id => limits'[i] = limits[i])
             /\ limits'[m.id].ref = (IF m.status = "REJECTED" THEN limits[m.id].ref ELSE m.ref)
  <2>1. limits \in [DOMAIN limits -> Resting] /\ limits[m.id] \in Resting
    BY <1>1, <1>4 DEF OrderShapes
  <2>2. limits' = [limits EXCEPT ![m.id] = Modified(limits[m.id], m)]
    BY <1>4 DEF HandleModifyResponse
  <2>3. Modified(limits[m.id], m).ref = (IF m.status = "REJECTED" THEN limits[m.id].ref ELSE m.ref)
    BY <2>1 DEF Modified, Resting
  <2> QED BY <1>4, <2>1, <2>2, <2>3
<1>5. CASE m.id \in DOMAIN limits /\ m.status = "REJECTED"
  <2>1. Report(m.id, "MODIFY_REJECTED") /\ ~Accepted(m)
    BY <1>5 DEF HandleModifyResponse, Accepted
  <2>2. SameLimits
    BY <1>4, <1>5 DEF SameLimits
  <2>3. /\ \A i \in Ids \ {m.id} : results'[i] = results[i]
        /\ results'[m.id] = Append(results[m.id], "MODIFY_REJECTED")
    BY <1>1, <2>1, ReportOne
  <2> HIDE DEF Mirrors
  <2> QED BY <1>2, <2>1, <2>2, <2>3, DrainSame
<1>6. CASE m.id \in DOMAIN limits /\ m.status # "REJECTED"
  <2>1. UNCHANGED results /\ Accepted(m)
    BY <1>2, <1>6 DEF HandleModifyResponse, Accepted
  <2>2. Mine(m.ref, m.id) /\ OnlyGone(m.id, m.ref)
    BY <1>1, <2>1 DEF AnswerMirrors, AnswerAgrees
  <2>3. limits'[m.id].ref = m.ref
    BY <1>4, <1>6
  <2> HIDE DEF Mirrors, Mine, OnlyGone, JobMirrors, Requests
  <2> QED BY <1>2, <1>4, <1>6, <2>1, <2>2, <2>3, DrainRenames
<1> QED BY <1>3, <1>5, <1>6

\* The answer to a cancel.
LEMMA CancelDrained ==
  ASSUME LiveInv, InSession, PriceInv, Mirrors, FewerHeard, NEW m, Drained(m), m.id \in Heard, HandleCancelResponse(m)
  PROVE  Mirrors'
<1>1. /\ WireShapes /\ OrderShapes /\ m.id \in Ids /\ AnswerAgrees(m) /\ OrderAgrees(m.id)
      /\ inbox' = Tail(inbox) /\ inbox # <<>> /\ m = Head(inbox) /\ m \in Items(inbox)
  BY DrainFacts DEF Drained
<1>2. m.kind = "cancel" /\ pending' = pending /\ outbox' = outbox /\ Requests(m) /\ ~Accepted(m)
  BY DEF HandleCancelResponse, NoFill, Requests, Accepted
<1>3. CASE UNCHANGED <<limits, results>>
  <2> HIDE DEF Mirrors
  <2> QED BY <1>2, <1>3, SameParts, DrainSame
<1>4. CASE m.id \in DOMAIN limits /\ limits' = [limits EXCEPT ![m.id].op = "NONE"] /\ UNCHANGED results
  <2>1. limits \in [DOMAIN limits -> Resting] /\ limits[m.id] \in Resting
    BY <1>1, <1>4 DEF OrderShapes
  <2>2. SameLimits
    BY <1>4, <2>1 DEF SameLimits, Resting
  <2> HIDE DEF Mirrors
  <2> QED BY <1>2, <1>4, <2>2, DrainSame
<1>5. CASE m.id \in DOMAIN limits /\ m.status # "REJECTED" /\ limits' = Without(limits, {m.id}) /\ Report(m.id, "CANCELLED")
  <2>1. At(m.ref, "gone") /\ m.ref = limits[m.id].ref
    BY <1>1, <1>2, <1>5 DEF AnswerMirrors, AnswerAgrees
  <2>2. limits[m.id].ref # NoRef
    BY <1>1, <1>2, <1>5 DEF PriceInv, AnswerTrue, AnswerOf
  <2>3. \A x \in Items(outbox) \cup Items(worker) \cup Items(inbox') : x.id = m.id => ~Requests(x)
    BY <1>1, <1>2, HeadAlone
  <2>4. ~Replaced(m.id)
    <3>1. inbox \in Seq(Answer) /\ Items(inbox) = Items(inbox') \cup {m}
      BY <1>1, TailItems DEF WireShapes
    <3> QED BY <1>2, <2>3, <3>1 DEF Replaced, Accepted, Requests
  <2>5. OnlyGone(m.id, m.ref)
    BY <1>1, <1>5, <2>1, <2>2, <2>4 DEF OrderMirrors, OrderAgrees
  <2>6. PICK o : o = "CANCELLED"
    OBVIOUS
  <2>7. NoneOpen(m.id) /\ Resolved(m.id, o)
    BY <1>1, <2>1, <2>5, <2>6, Decided
  <2>8. /\ \A i \in Ids \ {m.id} : results'[i] = results[i]
        /\ results'[m.id] = Append(results[m.id], o)
    BY <1>1, <1>5, <2>6, ReportOne
  <2>9. /\ \A x \in Items(outbox) \cup Items(worker) : x.id = m.id => ~(x.kind = "submit" /\ x.type = "LIMIT")
        /\ \A x \in Items(inbox') : x.id = m.id => ~(x.kind = "submit" /\ x.type = "LIMIT") /\ ~Accepted(x)
    BY <2>3 DEF Requests, Accepted
  <2> HIDE DEF Mirrors, NoneOpen, Resolved, JobMirrors, Accepted
  <2> QED BY <1>2, <1>5, <2>7, <2>8, <2>9, DrainDecides
<1> QED BY <1>3, <1>4, <1>5 DEF HandleCancelResponse

\* The answer to a query.
LEMMA QueryDrained ==
  ASSUME LiveInv, InSession, PriceInv, Mirrors, FewerHeard, NEW m, Drained(m), m.id \in Heard, HandleQueryResponse(m)
  PROVE  Mirrors'
<1>1. /\ WireShapes /\ OrderShapes /\ m.id \in Ids /\ AnswerAgrees(m) /\ OrderAgrees(m.id)
      /\ inbox' = Tail(inbox) /\ inbox # <<>> /\ m = Head(inbox) /\ m \in Items(inbox)
      /\ Items(inbox') \subseteq Items(inbox)
  BY DrainFacts DEF Drained
<1>2. m.kind = "query" /\ pending' = pending /\ ~Accepted(m)
  BY DEF HandleQueryResponse, Accepted
<1>3. CASE NoFill /\ UNCHANGED <<limits, results>>
  <2> HIDE DEF Mirrors
  <2> QED BY <1>2, <1>3, SameParts, DrainSame DEF NoFill
<1>4. CASE m.id \in DOMAIN limits /\ limits' = [limits EXCEPT ![m.id] = AskAgain(limits[m.id], m)]
           /\ NoFill /\ UNCHANGED results
  <2>1. limits \in [DOMAIN limits -> Resting] /\ limits[m.id] \in Resting
    BY <1>1, <1>4 DEF OrderShapes
  <2>2. AskAgain(limits[m.id], m).ref = limits[m.id].ref
    BY <2>1 DEF AskAgain, Resting
  <2>3. SameLimits
    BY <1>4, <2>1, <2>2 DEF SameLimits
  <2> HIDE DEF Mirrors
  <2> QED BY <1>2, <1>4, <2>3, DrainSame DEF NoFill
<1>5. ASSUME m.id \in DOMAIN limits, Current(limits[m.id], m), m.status \in {"FILLED", "REJECTED", "CANCELLED"}
      PROVE  /\ At(m.ref, IF m.status = "FILLED" THEN "filled" ELSE "gone") /\ OnlyGone(m.id, m.ref)
             /\ Mine(m.ref, m.id) /\ m.status # "REJECTED"
             /\ \A x \in Items(outbox) \cup Items(worker) : x.id = m.id => ~(x.kind = "submit" /\ x.type = "LIMIT")
             /\ \A x \in Items(inbox') : x.id = m.id => ~(x.kind = "submit" /\ x.type = "LIMIT") /\ ~Accepted(x)
  <2>1. m.ref = limits[m.id].ref /\ m.status # "REJECTED" /\ At(m.ref, IF m.status = "FILLED" THEN "filled" ELSE "gone")
    BY <1>1, <1>2, <1>5 DEF Current, AnswerMirrors, AnswerAgrees
  <2>2. limits[m.id].ref # NoRef
    <3>1. book \in Seq(BookRecord)
      BY <1>1 DEF WireShapes
    <3> QED BY <2>1, <3>1 DEF At, NoRef
  <2>3. \A a \in Items(inbox) : Accepted(a) => a.id # m.id
    <3>1. inbox \in Seq(Answer) /\ Ordered(inbox, HeardLimits)
      BY <1>1 DEF WireShapes, Mirrors, InOrder
    <3>2. \A a \in Items(inbox) : Accepted(a) /\ Asking(m, a.id, HeardLimits) => m.status = "PENDING"
      BY <1>1, <3>1, OrderedTail
    <3>3. Asking(m, m.id, HeardLimits)
      <4> HIDE DEF Heard
      <4> QED BY <1>2, <1>5, <2>1 DEF Asking, HeardLimits
    <3> QED BY <1>5, <3>2, <3>3
  <2>4. ~Replaced(m.id)
    BY <2>3 DEF Replaced
  <2>5. Mine(m.ref, m.id) /\ OnlyGone(m.id, m.ref)
    BY <1>1, <1>5, <2>1, <2>2, <2>4 DEF OrderMirrors, OrderAgrees
  <2>6. \A x \in Items(outbox) \cup Items(worker) : x.id = m.id => ~(x.kind = "submit" /\ x.type = "LIMIT")
    BY <1>5, <2>2 DEF PriceInv, JobTrue, JobOf, Requests
  <2>7. \A x \in Items(inbox) : x.id = m.id => ~(x.kind = "submit" /\ x.type = "LIMIT")
    BY <1>5, <2>2 DEF PriceInv, AnswerTrue, AnswerOf, Requests
  <2> QED BY <1>1, <2>1, <2>3, <2>5, <2>6, <2>7
<1>6. CASE m.id \in DOMAIN limits /\ Current(limits[m.id], m) /\ m.status = "FILLED"
           /\ limits' = Without(limits, {m.id}) /\ FillOpen(m.id, m.ref)
  <2>1. PICK o \in {"EXECUTED", "NO_FUNDS"} :
          /\ \A i \in Ids \ {m.id} : results'[i] = results[i]
          /\ results'[m.id] = Append(results[m.id], o)
          /\ outbox' = outbox \/ \E x : outbox' = Append(outbox, x) /\ JobMirrors(x)'
    BY <1>1, <1>6, LimitReported
  <2>2. NoneOpen(m.id) /\ Resolved(m.id, o)
    BY <1>1, <1>5, <1>6, Decided
  <2> HIDE DEF Mirrors, NoneOpen, Resolved, JobMirrors, Accepted
  <2> QED BY <1>2, <1>5, <1>6, <2>1, <2>2, DrainDecides
<1>7. CASE m.id \in DOMAIN limits /\ Current(limits[m.id], m) /\ m.status \in {"REJECTED", "CANCELLED"}
           /\ limits' = Without(limits, {m.id}) /\ Reject(m.id, "OPEN")
  <2>1. PICK o : Report(m.id, o) /\ o = "REJECTED"
    BY <1>7 DEF Reject
  <2>2. /\ \A i \in Ids \ {m.id} : results'[i] = results[i]
        /\ results'[m.id] = Append(results[m.id], o) /\ outbox' = outbox
    BY <1>1, <1>7, <2>1, ReportOne DEF Reject, NoFill
  <2>3. NoneOpen(m.id) /\ Resolved(m.id, o)
    BY <1>1, <1>5, <1>7, <2>1, Decided
  <2> HIDE DEF Mirrors, NoneOpen, Resolved, JobMirrors, Accepted
  <2> QED BY <1>2, <1>5, <1>7, <2>2, <2>3, DrainDecides
<1> QED BY <1>3, <1>4, <1>6, <1>7 DEF HandleQueryResponse

\* What a handler touches is the order the answer is about.
LEMMA HandlersTouch ==
  ASSUME OrderShapes, NEW m, m.id \in Ids,
         \/ HandleSubmitResponse(m) \/ HandleLimitSubmitResponse(m)
         \/ HandleModifyResponse(m) \/ HandleCancelResponse(m) \/ HandleQueryResponse(m)
  PROVE  /\ \A i \in Ids \ {m.id} :
              /\ i \in DOMAIN limits' <=> i \in DOMAIN limits
              /\ i \in DOMAIN limits => limits'[i] = limits[i]
              /\ i \in DOMAIN pending' <=> i \in DOMAIN pending
              /\ i \in DOMAIN pending => pending'[i] = pending[i]
              /\ results'[i] = results[i]
         /\ outbox' = outbox \/ \E x : outbox' = Append(outbox, x) /\ x.id = m.id
<1>1. PICK n : n = m.id
  OBVIOUS
<1>2. \/ limits' = limits \/ limits' = Without(limits, {n})
      \/ /\ n \in DOMAIN limits /\ DOMAIN limits' = DOMAIN limits
         /\ \A i \in DOMAIN limits : i # n => limits'[i] = limits[i]
  BY <1>1 DEF HandleSubmitResponse, HandleLimitSubmitResponse, HandleModifyResponse, HandleCancelResponse,
              HandleQueryResponse, Confirm, OrderShapes
<1>3. \/ pending' = pending \/ pending' = Without(pending, {n})
      \/ /\ DOMAIN pending' = DOMAIN pending
         /\ \A i \in DOMAIN pending : i # n => pending'[i] = pending[i]
  BY <1>1 DEF HandleSubmitResponse, HandleLimitSubmitResponse, HandleModifyResponse, HandleCancelResponse,
              HandleQueryResponse, OrderShapes
<1>4. results' = results \/ \E o : Report(n, o)
  BY <1>1 DEF HandleSubmitResponse, HandleLimitSubmitResponse, HandleModifyResponse, HandleCancelResponse,
              HandleQueryResponse, Fill, FillOpen, Reject
<1>5. \A i \in Ids \ {n} : results'[i] = results[i]
  BY <1>1, <1>4, ReportOne
<1>6. outbox' = outbox \/ \E x : outbox' = Append(outbox, x) /\ x.id = n
  BY <1>1 DEF HandleSubmitResponse, HandleLimitSubmitResponse, HandleModifyResponse, HandleCancelResponse,
              HandleQueryResponse, Fill, FillOpen, Reject, NoFill, Confirm, OrderJob
<1>7. \A i : i # n => (i \in DOMAIN limits' <=> i \in DOMAIN limits) /\ (i \in DOMAIN limits => limits'[i] = limits[i])
  BY <1>2 DEF Without
<1>8. \A i : i # n => (i \in DOMAIN pending' <=> i \in DOMAIN pending) /\ (i \in DOMAIN pending => pending'[i] = pending[i])
  BY <1>3 DEF Without
<1> QED BY <1>1, <1>5, <1>6, <1>7, <1>8

\* Of an order that was not heard of nothing has to be shown.
LEMMA UnheardDrained ==
  ASSUME LiveInv, Mirrors, FewerHeard, NEW m, Drained(m), m.id \notin Heard',
         \/ HandleSubmitResponse(m) \/ HandleLimitSubmitResponse(m)
         \/ HandleModifyResponse(m) \/ HandleCancelResponse(m) \/ HandleQueryResponse(m)
  PROVE  Mirrors'
<1>1. PICK n : n = m.id
  OBVIOUS
<1>2. /\ WireShapes /\ OrderShapes /\ n \in Ids /\ BookMoves(n)
      /\ \A i : i # n /\ Replaced(i) => Replaced(i)'
      /\ inbox # <<>> /\ inbox' = Tail(inbox) /\ UNCHANGED <<sent, worker>>
  BY <1>1, DrainFacts DEF Drained
<1>3. /\ \A i \in Ids \ {n} :
           /\ i \in DOMAIN limits' <=> i \in DOMAIN limits
           /\ i \in DOMAIN limits => limits'[i] = limits[i]
           /\ i \in DOMAIN pending' <=> i \in DOMAIN pending
           /\ i \in DOMAIN pending => pending'[i] = pending[i]
           /\ results'[i] = results[i]
      /\ outbox' = outbox \/ \E x : outbox' = Append(outbox, x) /\ x.id = n
  BY <1>1, <1>2, HandlersTouch
<1>4. \A i \in Ids \ {n} : i \in Opening' => i \in Opening /\ pending'[i] = pending[i]
  BY <1>3 DEF Opening
<1>5. \A i \in Ids \ {n} : SameOrder(i)
  BY <1>2, <1>3, <1>4 DEF SameOrder
<1> HIDE DEF Heard
<1>6. OrderMirrors(n)' /\ \A x : x.id = n => JobMirrors(x)' /\ AnswerMirrors(x)'
  BY <1>1 DEF OrderMirrors, JobMirrors, AnswerMirrors
<1>7. n \notin Heard'
  BY <1>1
<1> HIDE DEF Mirrors, OrderMirrors, SameOrder, BookMoves, JobMirrors, AnswerMirrors, Requests, Replaced
<1> QED BY <1>2, <1>3, <1>5, <1>6, <1>7, MirrorsTouched

\* An answer is handled.
LEMMA DrainMirrors ==
  ASSUME LiveInv, InSession, PriceInv, Mirrors, FewerHeard, DrainInbox
  PROVE  Mirrors'
<1>1. PICK m : m = Head(inbox)
  OBVIOUS
<1>2. Drained(m)
  BY <1>1 DEF DrainInbox, Drained
<1>4. Heard' = Heard
  BY DEF DrainInbox, Heard
<1>3. CASE HandlePositionResponse(m) \/ HandleTradesResponse(m)
  <2>1. UNCHANGED <<limits, pending, results, outbox>> /\ ~Accepted(m)
    BY <1>3 DEF HandlePositionResponse, HandleTradesResponse, NoFill, Accepted
  <2> HIDE DEF Mirrors
  <2> QED BY <1>2, <2>1, SameParts, DrainQuiet
<1> HIDE DEF Mirrors, Heard
<1>5. CASE m.id \in Heard /\ ~(HandlePositionResponse(m) \/ HandleTradesResponse(m))
  BY <1>1, <1>2, <1>5, SubmitDrained, LimitSubmitDrained, ModifyDrained, CancelDrained, QueryDrained DEF DrainInbox
<1>6. CASE m.id \notin Heard /\ ~(HandlePositionResponse(m) \/ HandleTradesResponse(m))
  BY <1>1, <1>2, <1>4, <1>6, UnheardDrained DEF DrainInbox
<1> QED BY <1>3, <1>5, <1>6

\* Every step keeps the mirror.
LEMMA MirrorStep ==
  ASSUME LiveInv, PriceInv, LossShape, [Next]_vars, MirrorInv
  PROVE  MirrorInv'
<1>1. SUFFICES ASSUME InSession' PROVE Mirrors'
  BY DEF MirrorInv
<1>2. InSession /\ Mirrors /\ WireShapes /\ FewerHeard
  <2>1. LossGrows
    BY LossStep DEF LiveInv
  <2>2. FewerHeard
    BY <2>1 DEF LossGrows, FewerHeard, Heard
  <2> QED BY <1>1, <2>2, StillInSession DEF MirrorInv, LiveInv, Shapes
<1>3. CASE Algorithm
  <2>1. \A i \in Ids : ClosePosition(i) => i \notin Opening
    BY <1>2 DEF ClosePosition, LiveInv, OrderInv, EndsOnce
  <2> HIDE DEF Mirrors, Opening
  <2> QED BY <1>2, <1>3, <2>1, OpenMirrors, AskingMirrors DEF Algorithm
<1>4. CASE Worker
  <2>1. CASE Dispatch
    <3>1. PICK job \in Items(worker) :
            \/ DispatchSubmit(job) \/ DispatchEdit(job) \/ DispatchCancel(job)
            \/ DispatchQuery(job) \/ DispatchPosition(job) \/ DispatchTrades(job)
      BY <2>1 DEF Dispatch, Items
    <3> HIDE DEF Mirrors
    <3> QED BY <1>2, <3>1, SubmitMirrors, EditMirrors, CancelMirrors
  <2> HIDE DEF Mirrors
  <2> QED BY <1>2, <1>4, <2>1, TakesMirrors DEF Worker
<1>5. CASE Cycle
  <2> HIDE DEF Mirrors
  <2> QED BY <1>2, <1>5, DrainMirrors, QuietMirrors, PollMirrors, TimeoutMirrors DEF Cycle
<1>6. ~CloseAllRemainingOrders /\ ~StopWorker
  BY <1>1, <1>2 DEF CloseAllRemainingOrders, StopWorker, InSession
<1> HIDE DEF Mirrors
<1> QED BY <1>2, <1>3, <1>4, <1>5, <1>6, QuietMirrors, AskingMirrors DEF Next

-----------------------------------------------------------------------------
(* Nothing is forgotten *)

\* The answer tells the main thread of this order of the broker.
Tells(m, ref) == m.kind \in {"submit", "edit"} /\ m.ref = ref /\ m.status # "REJECTED"

\* Where a reference is known to the program.
LEMMA TrackedBy ==
  ASSUME NEW ref
  PROVE  Tracked(ref) <=> \/ \E i \in DOMAIN limits : limits[i].ref = ref
                          \/ \E i \in DOMAIN pending : pending[i].ref = ref
                          \/ \E m \in Items(inbox) : Tells(m, ref)
BY DEF Tracked, Tells, Items

\* An order that is open at the broker was, or its answer has just arrived.
LEMMA OldOrTold ==
  ASSUME LiveInv, PriceInv, LossShape, [Next]_vars, NEW ref, IsOpen(ref)', book'[ref].id \in Heard'
  PROVE  IsOpen(ref) \/ \E m \in Items(inbox') : Tells(m, ref)
<1>1. WireShapes /\ book \in Seq(BookRecord) /\ inbox \in Seq(Answer)
  BY DEF LiveInv, Shapes, WireShapes
<1>2. ASSUME BookStays PROVE IsOpen(ref)
  BY <1>2 DEF BookStays, BookMoves, IsOpen
<1>3. book' = book => BookStays
  BY <1>1, BookSame
<1>4. CASE Dispatch
  <2>1. PICK job \in Items(worker) :
          \/ DispatchSubmit(job) \/ DispatchEdit(job) \/ DispatchCancel(job)
          \/ DispatchQuery(job) \/ DispatchPosition(job) \/ DispatchTrades(job)
    BY <1>4 DEF Dispatch, Items
  <2>2. job.id \in Ids /\ (job.id \in Heard' => \A r, st : Acknowledged(job, r, st) => Answered(job, r, st))
    BY <1>1, <2>1, ItemIds, HeardAnswer
  <2>3. ASSUME NEW b, b \in Seq(BookRecord), Len(b) = Len(book), NEW r, book' = Append(b, r), r.id = job.id,
               \A k \in DOMAIN book : b[k].status = "open" => book[k].status = "open",
               NEW st, st # "REJECTED", Acknowledged(job, Len(book) + 1, st), job.kind \in {"submit", "edit"}
        PROVE  IsOpen(ref) \/ \E m \in Items(inbox') : Tells(m, ref)
    <3>1. /\ DOMAIN book' = DOMAIN book \cup {Len(book) + 1}
          /\ \A k \in DOMAIN book : book'[k] = b[k]
      BY <1>1, <2>3, BookAppended
    <3>2. CASE ref \in DOMAIN book
      BY <2>3, <3>1, <3>2 DEF IsOpen
    <3>3. CASE ref = Len(book) + 1
      <4>1. PICK m : m = AnswerTo(job, ref, st)
        OBVIOUS
      <4>5. Answered(job, ref, st)
        <5>1. book'[ref] = r
          BY <2>3, <3>3
        <5> HIDE DEF Heard
        <5> QED BY <2>2, <2>3, <3>3, <5>1
      <4>2. inbox' = Append(inbox, m)
        BY <4>1, <4>5 DEF Answered, AnswerTo
      <4>3. Items(inbox') = Items(inbox) \cup {m}
        BY <1>1, <4>2, AppendRequests
      <4>4. Tells(m, ref)
        BY <2>3, <4>1 DEF Tells, AnswerTo
      <4> QED BY <4>3, <4>4
    <3> QED BY <3>1, <3>2, <3>3 DEF IsOpen
  <2>4. CASE DispatchSubmit(job)
    <3>1. CASE book' = book
      BY <1>2, <1>3, <3>1
    <3>2. CASE book' # book
      <4>1. PICK r, st : /\ book' = Append(book, r) /\ st \in {"PENDING", "FILLED"} /\ r.id = job.id
                         /\ Acknowledged(job, Len(book) + 1, st) /\ job.kind = "submit"
        BY <2>4, <3>2 DEF DispatchSubmit, Refused
      <4>2. PICK b : b = book
        OBVIOUS
      <4> QED BY <1>1, <2>3, <4>1, <4>2
    <3> QED BY <3>1, <3>2
  <2>5. CASE DispatchEdit(job)
    <3>1. CASE book' = book
      BY <1>2, <1>3, <3>1
    <3>2. CASE IsOpen(job.ref) /\ book' = [book EXCEPT ![job.ref].price = job.price]
      <4>1. job.ref \in DOMAIN book /\ book[job.ref] \in BookRecord
        BY <1>1, <3>2 DEF IsOpen
      <4>2. DOMAIN book' = DOMAIN book /\ \A k \in DOMAIN book : k # job.ref => book'[k] = book[k]
        BY <1>1, <3>2
      <4> QED BY <3>2, <4>1, <4>2 DEF IsOpen
    <3>3. CASE /\ IsOpen(job.ref)
               /\ book' = Append([book EXCEPT ![job.ref].status = "gone"], [book[job.ref] EXCEPT !.price = job.price])
               /\ Acknowledged(job, Len(book) + 1, "PENDING")
      <4>1. PICK b : b = [book EXCEPT ![job.ref].status = "gone"]
        OBVIOUS
      <4>2. job.ref \in DOMAIN book /\ book[job.ref] \in BookRecord
        BY <1>1, <3>3 DEF IsOpen
      <4>3. b \in Seq(BookRecord) /\ DOMAIN b = DOMAIN book /\ \A k \in DOMAIN book : k # job.ref => b[k] = book[k]
        BY <1>1, <4>1, <4>2, BookShape
      <4>4. b[job.ref].status = "gone"
        BY <1>1, <4>1, <4>2 DEF BookRecord
      <4>5. Len(b) = Len(book)
        BY <1>1, <4>3
      <4>8. book[job.ref].id = job.id
        BY <2>1, <2>5 DEF DispatchEdit, PriceInv, JobTrue, Requests, Owns
      <4>6. PICK r : book' = Append(b, r) /\ r.id = job.id
        BY <3>3, <4>1, <4>2, <4>8 DEF BookRecord
      <4>7. job.kind = "edit" /\ \A k \in DOMAIN book : b[k].status = "open" => book[k].status = "open"
        BY <2>5, <4>3, <4>4 DEF DispatchEdit
      <4> QED BY <2>3, <3>3, <4>3, <4>5, <4>6, <4>7
    <3> QED BY <2>5, <3>1, <3>2, <3>3 DEF DispatchEdit, Refused
  <2>6. CASE DispatchCancel(job)
    <3>1. BookStays
      BY <1>1, <1>3, <2>6, BookChanges DEF DispatchCancel, Refused, IsOpen
    <3> QED BY <1>2, <3>1
  <2>7. CASE DispatchQuery(job) \/ DispatchPosition(job) \/ DispatchTrades(job)
    BY <1>2, <1>3, <2>7 DEF DispatchQuery, DispatchPosition, DispatchTrades, Refused
  <2> QED BY <2>1, <2>4, <2>5, <2>6, <2>7
<1>5. CASE \/ \E r \in DOMAIN book : BrokerFills(r) \/ BrokerDrops(r)
           \/ CloseAllRemainingOrders \/ \E i \in Ids : HandleTimeout(i)
  <2>1. BookStays
    BY <1>1, <1>5, BookChanges DEF CloseAllRemainingOrders, HandleTimeout
  <2> QED BY <1>2, <2>1
<1>6. CASE \/ Algorithm \/ (\E tick \in BOOLEAN : StartCycle(tick))
           \/ InboxDrained \/ PendingPolled \/ TimeoutsHandled \/ CycleEnds \/ DrainInbox
           \/ Reconcile \/ StopWorker \/ Done \/ UNCHANGED vars \/ WorkerTakes
           \/ \E i \in Ids : PollActive(i) \/ TimeoutPasses(i) \/ PollPending(i)
  <2>1. book' = book
    BY <1>6 DEF Algorithm, OpenOrder, ClosePosition, CancelLimitOrder, ModifyLimitOrder, ModifyPosition,
         StartCycle, InboxDrained, PendingPolled, TimeoutsHandled, CycleEnds, DrainInbox, Reconcile,
         StopWorker, Done, vars, WorkerTakes, PollActive, TimeoutPasses, PollPending
  <2> QED BY <1>2, <1>3, <2>1
<1> QED BY <1>4, <1>5, <1>6 DEF Next, Cycle, Worker

\* The answer that gives a limit order its reference, or a new one.
Names(m, i) ==
  /\ m \in Items(inbox) /\ m = Head(inbox) /\ DrainInbox /\ m.id = i
  /\ \/ m.kind = "edit" /\ m.status # "REJECTED"
     \/ m.kind = "submit" /\ m.type = "LIMIT" /\ m.status = "PENDING"

\* Where the reference of a limit order comes from.
LEMMA LimitRefs ==
  ASSUME LiveInv, [Next]_vars, NEW i \in DOMAIN limits'
  PROVE  \/ i \in DOMAIN limits /\ limits'[i].ref = limits[i].ref
         \/ i \notin DOMAIN limits /\ limits'[i].ref = NoRef
         \/ \E m : Names(m, i) /\ limits'[i].ref = m.ref
<1>1. /\ limits \in [DOMAIN limits -> Resting] /\ inbox \in Seq(Answer)
      /\ \A j \in DOMAIN limits : limits[j] \in Resting
  BY DEF LiveInv, Shapes, OrderShapes, WireShapes
<1>2. CASE limits' = limits
  BY <1>2
<1>3. ASSUME NEW j, NEW r, \/ j \in DOMAIN limits /\ limits' = [limits EXCEPT ![j] = r] /\ r.ref = limits[j].ref
                           \/ limits' = Without(limits, {j})
                           \/ j \notin DOMAIN limits /\ limits' = Put(limits, j, r) /\ r.ref = NoRef
      PROVE  \/ i \in DOMAIN limits /\ limits'[i].ref = limits[i].ref
             \/ i \notin DOMAIN limits /\ limits'[i].ref = NoRef
  BY <1>1, <1>3 DEF Without, Put
<1>4. CASE Algorithm \/ \E j \in Ids : PollActive(j)
  <2>1. ASSUME NEW p, OpenOrder("LIMIT", p) \/ OpenOrder("MARKET", p)
        PROVE  limits' = limits \/ \E j, r : j \notin DOMAIN limits /\ limits' = Put(limits, j, r) /\ r.ref = NoRef
    <3>1. sent + 1 \in Ids /\ sent + 1 > sent => sent + 1 \notin DOMAIN limits
      BY DEF LiveInv, OrderInv, Unsent
    <3>2. sent + 1 > sent
      BY DEF LiveInv, Shapes, OrderShapes
    <3> QED BY <2>1, <3>1, <3>2 DEF OpenOrder, NewLimit
  <2>2. ASSUME NEW j \in DOMAIN limits,
               \/ limits' = [limits EXCEPT ![j].op = "PENDING_CANCEL"]
               \/ limits' = [limits EXCEPT ![j].cancelRequested = TRUE]
               \/ limits' = [limits EXCEPT ![j].query = TRUE]
               \/ \E p : limits' = [limits EXCEPT ![j].op = "PENDING_MODIFY", ![j].mod = p]
        PROVE  \E r : limits' = [limits EXCEPT ![j] = r] /\ r.ref = limits[j].ref
    <3>1. limits[j] \in Resting
      BY <1>1
    <3>2. CASE limits' = [limits EXCEPT ![j].op = "PENDING_CANCEL"]
      <4>1. [limits[j] EXCEPT !.op = "PENDING_CANCEL"].ref = limits[j].ref
        BY <3>1 DEF Resting
      <4> QED BY <3>2, <4>1
    <3>3. CASE limits' = [limits EXCEPT ![j].cancelRequested = TRUE]
      <4>1. [limits[j] EXCEPT !.cancelRequested = TRUE].ref = limits[j].ref
        BY <3>1 DEF Resting
      <4> QED BY <3>3, <4>1
    <3>4. CASE limits' = [limits EXCEPT ![j].query = TRUE]
      <4>1. [limits[j] EXCEPT !.query = TRUE].ref = limits[j].ref
        BY <3>1 DEF Resting
      <4> QED BY <3>4, <4>1
    <3>5. ASSUME NEW p, limits' = [limits EXCEPT ![j].op = "PENDING_MODIFY", ![j].mod = p]
          PROVE  \E r : limits' = [limits EXCEPT ![j] = r] /\ r.ref = limits[j].ref
      <4>1. [limits[j] EXCEPT !.op = "PENDING_MODIFY", !.mod = p].ref = limits[j].ref
        BY <3>1 DEF Resting
      <4>2. limits' = [limits EXCEPT ![j] = [limits[j] EXCEPT !.op = "PENDING_MODIFY", !.mod = p]]
        BY <1>1, <3>5
      <4> QED BY <4>1, <4>2
    <3> QED BY <2>2, <3>2, <3>3, <3>4, <3>5
  <2>3. CASE \E j \in Ids : PollActive(j) \/ CancelLimitOrder(j) \/ \E p \in Prices : ModifyLimitOrder(j, p)
    <3>1. PICK j \in Ids : PollActive(j) \/ CancelLimitOrder(j) \/ \E p \in Prices : ModifyLimitOrder(j, p)
      BY <2>3
    <3>2. /\ j \in DOMAIN limits
          /\ \/ limits' = [limits EXCEPT ![j].op = "PENDING_CANCEL"]
             \/ limits' = [limits EXCEPT ![j].cancelRequested = TRUE]
             \/ limits' = [limits EXCEPT ![j].query = TRUE]
             \/ \E p : limits' = [limits EXCEPT ![j].op = "PENDING_MODIFY", ![j].mod = p]
      BY <3>1, Zenon DEF PollActive, CancelLimitOrder, ModifyLimitOrder
    <3>3. PICK r : limits' = [limits EXCEPT ![j] = r] /\ r.ref = limits[j].ref
      BY <3>2, <2>2
    <3> QED BY <1>3, <3>2, <3>3
  <2>4. CASE \E j \in Ids : ClosePosition(j) \/ \E l \in Levels : ModifyPosition(j, l)
    BY <1>2, <2>4 DEF ClosePosition, ModifyPosition, local
  <2> QED BY <1>2, <1>3, <1>4, <2>1, <2>3, <2>4 DEF Algorithm
<1>5. CASE DrainInbox
  <2>1. PICK m : m = Head(inbox)
    OBVIOUS
  <2>2. inbox # <<>> /\ m \in Items(inbox)
    BY <1>1, <1>5, <2>1, TailRequests DEF DrainInbox
  <2>3. CASE HandleSubmitResponse(m) \/ HandlePositionResponse(m) \/ HandleTradesResponse(m)
    BY <1>2, <2>3 DEF HandleSubmitResponse, HandlePositionResponse, HandleTradesResponse
  <2>4. CASE HandleLimitSubmitResponse(m)
    <3>1. CASE limits' = Without(limits, {m.id})
      BY <1>3, <3>1
    <3>2. CASE m.status = "PENDING" /\ Confirm(m) /\ m.id \in DOMAIN limits
      <4>1. DOMAIN limits' = DOMAIN limits /\ \A j \in DOMAIN limits : j # m.id => limits'[j] = limits[j]
        BY <1>1, <3>2 DEF Confirm
      <4>2. limits'[m.id].ref = m.ref
        <5>1. limits[m.id] \in Resting
          BY <1>1, <3>2
        <5>2. CASE limits' = [limits EXCEPT ![m.id].ref = m.ref]
          BY <1>1, <3>2, <5>1, <5>2 DEF Resting
        <5>3. CASE limits' = [limits EXCEPT ![m.id].ref = m.ref, ![m.id].op = "PENDING_CANCEL",
                                            ![m.id].cancelRequested = FALSE]
          <6>1. limits'[m.id] = [limits[m.id] EXCEPT !.ref = m.ref, !.op = "PENDING_CANCEL", !.cancelRequested = FALSE]
            BY <1>1, <3>2, <5>3
          <6> QED BY <5>1, <6>1 DEF Resting
        <5> QED BY <3>2, <5>2, <5>3 DEF Confirm
      <4>3. m.kind = "submit" /\ m.type = "LIMIT"
        BY <2>4 DEF HandleLimitSubmitResponse
      <4> QED BY <1>5, <2>1, <2>2, <3>2, <4>1, <4>2, <4>3 DEF Names
    <3> QED BY <2>4, <3>1, <3>2 DEF HandleLimitSubmitResponse
  <2>5. CASE HandleModifyResponse(m)
    <3>1. CASE m.id \notin DOMAIN limits
      BY <1>2, <2>5, <3>1 DEF HandleModifyResponse
    <3>2. CASE m.id \in DOMAIN limits
      <4>1. limits' = [limits EXCEPT ![m.id] = Modified(limits[m.id], m)]
        BY <2>5, <3>2 DEF HandleModifyResponse
      <4>2. Modified(limits[m.id], m).ref = (IF m.status = "REJECTED" THEN limits[m.id].ref ELSE m.ref)
        BY <1>1, <3>2 DEF Modified, Resting
      <4>3. m.kind = "edit"
        BY <2>5 DEF HandleModifyResponse
      <4>4. DOMAIN limits' = DOMAIN limits /\ (\A j \in DOMAIN limits : j # m.id => limits'[j] = limits[j])
            /\ limits'[m.id].ref = (IF m.status = "REJECTED" THEN limits[m.id].ref ELSE m.ref)
        BY <1>1, <3>2, <4>1, <4>2
      <4> QED BY <1>5, <2>1, <2>2, <3>2, <4>3, <4>4 DEF Names
    <3> QED BY <3>1, <3>2
  <2>6. CASE HandleCancelResponse(m)
    <3>1. m.id \in DOMAIN limits => [limits[m.id] EXCEPT !.op = "NONE"].ref = limits[m.id].ref
      BY <1>1 DEF Resting
    <3> QED BY <1>2, <1>3, <2>6, <3>1 DEF HandleCancelResponse
  <2>7. CASE HandleQueryResponse(m)
    <3>1. m.id \in DOMAIN limits => AskAgain(limits[m.id], m).ref = limits[m.id].ref
      BY <1>1 DEF Resting, AskAgain
    <3> QED BY <1>2, <1>3, <2>7, <3>1 DEF HandleQueryResponse
  <2> QED BY <1>5, <2>1, <2>3, <2>4, <2>5, <2>6, <2>7 DEF DrainInbox
<1>6. CASE \/ \E tick \in BOOLEAN : StartCycle(tick)
           \/ InboxDrained \/ PendingPolled \/ TimeoutsHandled \/ CycleEnds
           \/ Reconcile \/ StopWorker \/ Done \/ UNCHANGED vars
           \/ \E ref \in DOMAIN book : BrokerFills(ref) \/ BrokerDrops(ref)
           \/ \E j \in Ids : TimeoutPasses(j) \/ PollPending(j) \/ HandleTimeout(j)
           \/ CloseAllRemainingOrders \/ WorkerTakes
  BY <1>2, <1>6 DEF StartCycle, InboxDrained, PendingPolled, TimeoutsHandled, CycleEnds, Reconcile,
         StopWorker, Done, vars, BrokerFills, BrokerDrops, local, TimeoutPasses, PollPending, HandleTimeout,
         CloseAllRemainingOrders, WorkerTakes
<1>7. CASE Dispatch
  <2>1. \A job, ref, st : Answered(job, ref, st) => limits' = limits
    BY DEF Answered, local
  <2> QED BY <1>2, <1>7, <2>1 DEF Dispatch, DispatchSubmit, DispatchEdit, DispatchCancel, DispatchQuery,
         DispatchPosition, DispatchTrades, Acknowledged, Refused
<1> QED BY <1>4, <1>5, <1>6, <1>7 DEF Next, Cycle, Worker

\* The answer that gives a market order or a close its reference.
Confirms(m, i) ==
  /\ m \in Items(inbox) /\ m = Head(inbox) /\ DrainInbox /\ m.id = i
  /\ m.kind = "submit" /\ m.type = "MARKET" /\ m.status = "PENDING"

\* What a step does to the orders that are pending.
LEMMA PendingChanges ==
  ASSUME LiveInv, [Next]_vars
  PROVE  \/ pending' = pending
         \/ \E j \in DOMAIN pending : TimeoutPasses(j) /\ pending' = [pending EXCEPT ![j].late = TRUE]
         \/ \E j : pending' = Put(pending, j, NewPending("OPEN")) /\ j \notin DOMAIN pending
         \/ \E j \in Ids : ~IsPendingClose(j) /\ ClosePosition(j)
         \/ \E m \in Items(inbox) : m = Head(inbox) /\ DrainInbox /\ HandleSubmitResponse(m)
         \/ \E j \in Ids : PollPending(j) \/ HandleTimeout(j)
         \/ CloseAllRemainingOrders
<1>1. ASSUME NEW type, NEW p, OpenOrder(type, p)
      PROVE  pending' = pending \/ \E j : pending' = Put(pending, j, NewPending("OPEN")) /\ j \notin DOMAIN pending
  <2>1. sent + 1 \in Ids /\ sent + 1 > sent => sent + 1 \notin DOMAIN pending
    BY DEF LiveInv, OrderInv, Unsent
  <2>2. sent + 1 > sent
    BY DEF LiveInv, Shapes, OrderShapes
  <2> QED BY <1>1, <2>1, <2>2 DEF OpenOrder
<1>2. CASE Algorithm
  <2>1. CASE \E j \in Ids : \/ CancelLimitOrder(j) \/ (\E p \in Prices : ModifyLimitOrder(j, p))
                            \/ \E l \in Levels : ModifyPosition(j, l)
    BY <2>1 DEF CancelLimitOrder, ModifyLimitOrder, ModifyPosition, local
  <2> QED BY <1>1, <1>2, <2>1 DEF Algorithm
<1>3. CASE DrainInbox
  <2>1. PICK m : m = Head(inbox)
    OBVIOUS
  <2>2. m \in Items(inbox)
    BY <1>3, <2>1, TailRequests DEF DrainInbox, LiveInv, Shapes, WireShapes
  <2>3. HandleSubmitResponse(m) \/ pending' = pending
    BY <1>3, <2>1 DEF DrainInbox, HandleLimitSubmitResponse, HandleModifyResponse, HandleCancelResponse,
         HandleQueryResponse, HandlePositionResponse, HandleTradesResponse
  <2> QED BY <1>3, <2>1, <2>2, <2>3
<1>4. ASSUME NEW j, TimeoutPasses(j)
      PROVE  j \in DOMAIN pending /\ pending' = [pending EXCEPT ![j].late = TRUE]
  BY <1>4 DEF TimeoutPasses
<1>5. CASE \/ \E tick \in BOOLEAN : StartCycle(tick)
           \/ InboxDrained \/ PendingPolled \/ TimeoutsHandled \/ CycleEnds
           \/ Reconcile \/ StopWorker \/ Done \/ UNCHANGED vars
           \/ \E ref \in DOMAIN book : BrokerFills(ref) \/ BrokerDrops(ref)
           \/ WorkerTakes \/ \E j \in Ids : PollActive(j)
  BY <1>5 DEF StartCycle, InboxDrained, PendingPolled, TimeoutsHandled, CycleEnds, Reconcile,
         StopWorker, Done, vars, BrokerFills, BrokerDrops, local, WorkerTakes, PollActive
<1>6. CASE Dispatch
  <2>1. \A job, ref, st : Answered(job, ref, st) => pending' = pending
    BY DEF Answered, local
  <2> QED BY <1>6, <2>1 DEF Dispatch, DispatchSubmit, DispatchEdit, DispatchCancel, DispatchQuery,
         DispatchPosition, DispatchTrades, Acknowledged, Refused
<1> QED BY <1>2, <1>3, <1>4, <1>5, <1>6 DEF Next, Cycle, Worker

\* Where the reference of a market order or a close comes from.
LEMMA PendingRefs ==
  ASSUME LiveInv, [Next]_vars, NEW i \in DOMAIN pending'
  PROVE  \/ i \in DOMAIN pending /\ pending'[i].ref = pending[i].ref
         \/ pending'[i].ref = NoRef
         \/ \E m : Confirms(m, i) /\ pending'[i].ref = m.ref
<1>1. pending \in [DOMAIN pending -> Tracked0] /\ \A j \in DOMAIN pending : pending[j] \in Tracked0
  BY DEF LiveInv, Shapes, OrderShapes
<1>2. CASE pending' = pending
  BY <1>2
<1>3. ASSUME NEW j \in DOMAIN pending, pending' = [pending EXCEPT ![j].late = TRUE]
      PROVE  i \in DOMAIN pending /\ pending'[i].ref = pending[i].ref
  BY <1>1, <1>3 DEF Tracked0
<1>4. ASSUME NEW j, NEW action, pending' = Put(pending, j, NewPending(action))
      PROVE  (i \in DOMAIN pending /\ pending'[i].ref = pending[i].ref) \/ pending'[i].ref = NoRef
  BY <1>4 DEF Put, NewPending
<1>5. ASSUME NEW j, pending' = Without(pending, {j})
      PROVE  i \in DOMAIN pending /\ pending'[i].ref = pending[i].ref
  BY <1>5 DEF Without
<1>6. ASSUME NEW m \in Items(inbox), m = Head(inbox), DrainInbox, HandleSubmitResponse(m)
      PROVE  \/ i \in DOMAIN pending /\ pending'[i].ref = pending[i].ref
             \/ Confirms(m, i) /\ pending'[i].ref = m.ref
  <2>1. CASE m.status = "PENDING" /\ pending' = [pending EXCEPT ![m.id].ref = m.ref]
    <3>1. m.kind = "submit" /\ m.type = "MARKET" /\ m.id \in DOMAIN pending
      BY <1>6 DEF HandleSubmitResponse
    <3>2. DOMAIN pending' = DOMAIN pending /\ \A j \in DOMAIN pending : j # m.id => pending'[j] = pending[j]
      BY <1>1, <2>1
    <3>3. pending'[m.id].ref = m.ref
      BY <1>1, <2>1, <3>1 DEF Tracked0
    <3> QED BY <1>6, <2>1, <3>1, <3>2, <3>3 DEF Confirms
  <2> QED BY <1>5, <1>6, <2>1 DEF HandleSubmitResponse
<1>7. ASSUME NEW j, PollPending(j) \/ HandleTimeout(j)
      PROVE  i \in DOMAIN pending /\ pending'[i].ref = pending[i].ref
  BY <1>2, <1>5, <1>7 DEF PollPending, HandleTimeout, DropTimedOut
<1>8. ~CloseAllRemainingOrders
  BY DEF CloseAllRemainingOrders, Empty
<1> QED BY <1>2, <1>3, <1>4, <1>6, <1>7, <1>8, PendingChanges DEF ClosePosition

\* A pending order whose reference works at the broker keeps it.
LEMMA PendingStays ==
  ASSUME LiveInv, LossShape, [Next]_vars, InSession', CloseInv, NEW i \in DOMAIN pending, i \in Heard',
         NEW ref, ref = pending[i].ref, ref # NoRef, Owns(ref, i), IsOpen(ref)'
  PROVE  i \in DOMAIN pending' /\ pending'[i].ref = ref
<1>1. /\ pending \in [DOMAIN pending -> Tracked0] /\ \A j \in DOMAIN pending : pending[j] \in Tracked0
      /\ WireShapes /\ inbox \in Seq(Answer)
  BY DEF LiveInv, Shapes, OrderShapes, WireShapes
<1>2. InSession /\ AnswersDue /\ (\A j \in Wired("close") : CloseOf(j)) /\ Opening \cap positions = {}
  BY StillInSession DEF CloseInv, LiveInv, OrderInv, EndsOnce
<1>3. ASSUME NEW j, j # i,
             \/ j \in DOMAIN pending /\ \E r : pending' = [pending EXCEPT ![j] = r]
             \/ \E r : pending' = Put(pending, j, r)
             \/ pending' = Without(pending, {j})
      PROVE  i \in DOMAIN pending' /\ pending'[i] = pending[i]
  BY <1>1, <1>3 DEF Put, Without
<1>4. ASSUME NEW j \in DOMAIN pending, pending' = [pending EXCEPT ![j].late = TRUE]
      PROVE  i \in DOMAIN pending' /\ pending'[i].ref = ref
  BY <1>1, <1>4 DEF Tracked0
<1>5. ASSUME NEW j, pending' = Put(pending, j, NewPending("OPEN")), j \notin DOMAIN pending
      PROVE  i \in DOMAIN pending' /\ pending'[i].ref = ref
  BY <1>3, <1>5
<1>6. ASSUME NEW j \in Ids, ~IsPendingClose(j), ClosePosition(j)
      PROVE  i \in DOMAIN pending' /\ pending'[i].ref = ref
  <2>1. j # i
    <3>1. j \in positions
      BY <1>6 DEF ClosePosition
    <3>2. j \in DOMAIN pending => pending[j].action = "OPEN"
      BY <1>1, <1>6 DEF IsPendingClose, Tracked0
    <3> QED BY <1>2, <3>1, <3>2 DEF Opening
  <2> QED BY <1>3, <1>6, <2>1 DEF ClosePosition
<1>7. ASSUME NEW m \in Items(inbox), HandleSubmitResponse(m)
      PROVE  i \in DOMAIN pending' /\ pending'[i].ref = ref
  <2>1. m.kind = "submit" /\ m.type = "MARKET" /\ m.id \in DOMAIN pending
    BY <1>7 DEF HandleSubmitResponse
  <2>2. m \in Answer /\ m.action \in {"OPEN", "CLOSE"}
    <3>1. m \in Answer
      BY <1>1 DEF Items
    <3> QED BY <3>1 DEF Answer
  <2>3. ASSUME m.action = "OPEN" PROVE pending[m.id].ref = NoRef
    <3>1. m.id \in Submitted(inbox, "OPEN")
      BY <2>1, <2>3 DEF Submitted, Submits, Items
    <3> QED BY <1>2, <3>1 DEF AnswersDue, Underway
  <2>4. ASSUME m.action = "CLOSE" PROVE pending[m.id].ref = NoRef
    <3>1. Class(m) = "close"
      BY <2>1, <2>4 DEF Class, Submits
    <3>2. m.id \in OfClass(inbox, "close")
      BY <3>1, ItemsOfClass
    <3> QED BY <1>2, <3>2 DEF Wired, CloseOf
  <2>5. m.id # i
    BY <2>2, <2>3, <2>4
  <2>6. pending' = Without(pending, {m.id}) \/ \E r : pending' = [pending EXCEPT ![m.id] = r]
    BY <1>7 DEF HandleSubmitResponse
  <2> QED BY <1>3, <2>1, <2>5, <2>6
<1>8. ASSUME NEW j, PollPending(j)
      PROVE  i \in DOMAIN pending' /\ pending'[i].ref = ref
  <2>1. CASE pending' = pending
    BY <2>1
  <2>2. CASE book[pending[j].ref].status = "filled" /\ pending' = Without(pending, {j})
    <3>1. book' = book
      BY <1>8 DEF PollPending
    <3>2. i # j
      BY <2>2, <3>1 DEF IsOpen
    <3> QED BY <1>3, <2>2, <3>2
  <2>3. CASE pending' = Without(pending, {j}) /\ Lose(j, "query")
    <3>1. i # j
      BY <2>3 DEF Lose, Heard, LossShape
    <3> QED BY <1>3, <2>3, <3>1
  <2> QED BY <1>8, <2>1, <2>2, <2>3 DEF PollPending
<1>9. ASSUME NEW j, HandleTimeout(j)
      PROVE  i \in DOMAIN pending' /\ pending'[i].ref = ref
  <2>1. i # j
    <3>1. ASSUME i = j PROVE FALSE
      <4>5. PICK done \in SUBSET {r \in {ref} : IsOpen(r)} :
              /\ lost' = [n \in Ids |-> IF \E r \in {ref} \ done : IsOpen(r) /\ book[r].id = n
                                        THEN lost[n] \cup {"cancel"} ELSE lost[n]]
              /\ book' = [r \in DOMAIN book |-> IF r \in done THEN [book[r] EXCEPT !.status = "gone"] ELSE book[r]]
        BY <1>9, <3>1 DEF HandleTimeout, CancelSync
      <4>6. IsOpen(ref) => ref \in done
        BY <4>5 DEF Owns, Heard
      <4>1. book' = [r \in DOMAIN book |-> IF r \in {s \in {ref} : IsOpen(s)}
                                           THEN [book[r] EXCEPT !.status = "gone"] ELSE book[r]]
        BY <4>5, <4>6
      <4>2. ref \in DOMAIN book /\ book[ref] \in BookRecord
        BY <1>1, <4>1 DEF IsOpen, WireShapes
      <4>3. CASE IsOpen(ref)
        <5>1. book'[ref] = [book[ref] EXCEPT !.status = "gone"]
          BY <4>1, <4>2, <4>3
        <5>2. book'[ref].status = "gone"
          BY <4>2, <5>1 DEF BookRecord
        <5> QED BY <5>2 DEF IsOpen
      <4>4. CASE ~IsOpen(ref)
        <5>1. book'[ref] = book[ref]
          BY <4>1, <4>2, <4>4
        <5> QED BY <4>2, <4>4, <5>1 DEF IsOpen
      <4> QED BY <4>3, <4>4
    <3> QED BY <3>1
  <2> QED BY <1>3, <1>9, <2>1 DEF HandleTimeout, DropTimedOut
<1>10. ~CloseAllRemainingOrders
  BY DEF CloseAllRemainingOrders, InSession
<1>11. pending' = pending => i \in DOMAIN pending' /\ pending'[i].ref = ref
  OBVIOUS
<1> HIDE DEF IsOpen
<1> QED BY <1>4, <1>5, <1>6, <1>7, <1>8, <1>9, <1>10, <1>11, PendingChanges

\* What the broker has once taken it keeps; a job adds at most one order.
BookLasts ==
  \A ref \in DOMAIN book :
    /\ ref \in DOMAIN book' /\ book'[ref].id = book[ref].id
    /\ book'[ref].type = book[ref].type /\ book'[ref].action = book[ref].action
Spends(x) == x.kind \in {"submit", "edit"}

\* The book only grows, and by a call that was paid for.
LEMMA BookSteps ==
  ASSUME WireShapes, [Next]_vars
  PROVE  /\ BookLasts
         /\ \/ Len(book') = Len(book)
            \/ /\ Len(book') = Len(book) + 1
               /\ \E job : worker = <<job>> /\ Spends(job) /\ worker' = <<>> /\ UNCHANGED <<outbox, calls>>
<1>1. book \in Seq(BookRecord) /\ \A ref \in DOMAIN book : book[ref] \in BookRecord
  BY DEF WireShapes
<1>2. ASSUME BookStays PROVE BookLasts
  BY <1>2 DEF BookStays, BookMoves, BookLasts
<1>3. book' = book => BookLasts /\ Len(book') = Len(book)
  BY <1>1, <1>2, BookSame
<1>4. CASE Dispatch
  <2>1. PICK job \in Items(worker) :
          \/ DispatchSubmit(job) \/ DispatchEdit(job) \/ DispatchCancel(job)
          \/ DispatchQuery(job) \/ DispatchPosition(job) \/ DispatchTrades(job)
    BY <1>4 DEF Dispatch, Items
  <2>2. \A ref, st : Acknowledged(job, ref, st) \/ Answered(job, ref, st) =>
          worker = <<job>> /\ worker' = <<>> /\ UNCHANGED <<outbox, calls>>
    BY DEF Acknowledged, Answered
  <2>3. ASSUME NEW b \in Seq(BookRecord), NEW r, book' = Append(b, r), Len(b) = Len(book),
               \A ref \in DOMAIN book : /\ b[ref].id = book[ref].id /\ b[ref].type = book[ref].type
                                        /\ b[ref].action = book[ref].action
        PROVE  BookLasts /\ Len(book') = Len(book) + 1
    <3>1. /\ DOMAIN book' = DOMAIN book \cup {Len(book) + 1}
          /\ \A k \in DOMAIN book : book'[k] = b[k]
      BY <1>1, <2>3, BookAppended
    <3>2. Len(book') = Len(book) + 1
      BY <1>1, <2>3
    <3> QED BY <2>3, <3>1, <3>2 DEF BookLasts
  <2>4. CASE DispatchSubmit(job)
    <3>1. book' = book \/ \E r : book' = Append(book, r) /\ \E ref, st : Acknowledged(job, ref, st)
      BY <2>4 DEF DispatchSubmit, Refused
    <3>2. Spends(job)
      BY <2>4 DEF DispatchSubmit, Spends
    <3> QED BY <1>1, <1>3, <2>2, <2>3, <3>1, <3>2
  <2>5. CASE DispatchEdit(job)
    <3>1. CASE book' = book
      BY <1>3, <3>1
    <3>2. CASE IsOpen(job.ref) /\ book' = [book EXCEPT ![job.ref].price = job.price]
      <4>1. job.ref \in DOMAIN book
        BY <3>2 DEF IsOpen
      <4>2. Len(book') = Len(book) /\ DOMAIN book' = DOMAIN book
        BY <1>1, <3>2, <4>1
      <4>3. \A k \in DOMAIN book : k # job.ref => book'[k] = book[k]
        BY <1>1, <3>2
      <4>4. /\ book'[job.ref].id = book[job.ref].id /\ book'[job.ref].type = book[job.ref].type
            /\ book'[job.ref].action = book[job.ref].action
        BY <1>1, <3>2, <4>1 DEF BookRecord
      <4> QED BY <4>2, <4>3, <4>4 DEF BookLasts
    <3>3. CASE /\ IsOpen(job.ref) /\ \E ref, st : Acknowledged(job, ref, st)
               /\ book' = Append([book EXCEPT ![job.ref].status = "gone"], [book[job.ref] EXCEPT !.price = job.price])
      <4>1. PICK b : b = [book EXCEPT ![job.ref].status = "gone"]
        OBVIOUS
      <4>2. job.ref \in DOMAIN book
        BY <3>3 DEF IsOpen
      <4>3. b \in Seq(BookRecord) /\ DOMAIN b = DOMAIN book /\ \A k \in DOMAIN book : k # job.ref => b[k] = book[k]
        BY <1>1, <4>1, <4>2, BookShape
      <4>4. /\ b[job.ref].id = book[job.ref].id /\ b[job.ref].type = book[job.ref].type
            /\ b[job.ref].action = book[job.ref].action
        BY <1>1, <4>1, <4>2 DEF BookRecord
      <4>5. Len(b) = Len(book)
        BY <1>1, <4>3
      <4>6. Spends(job) /\ \E r : book' = Append(b, r)
        BY <2>5, <3>3, <4>1 DEF DispatchEdit, Spends
      <4> QED BY <2>2, <2>3, <3>3, <4>3, <4>4, <4>5, <4>6
    <3> QED BY <2>5, <3>1, <3>2, <3>3 DEF DispatchEdit, Refused
  <2>6. CASE DispatchCancel(job)
    <3>1. BookStays
      BY <1>1, <2>6, BookSame, BookChanges DEF DispatchCancel, Refused, IsOpen
    <3>2. Len(book') = Len(book)
      BY <1>1, <2>6 DEF DispatchCancel, Refused
    <3> QED BY <1>2, <3>1, <3>2
  <2>7. CASE DispatchQuery(job) \/ DispatchPosition(job) \/ DispatchTrades(job)
    BY <1>3, <2>7 DEF DispatchQuery, DispatchPosition, DispatchTrades, Refused
  <2> QED BY <2>1, <2>4, <2>5, <2>6, <2>7
<1>5. CASE \/ \E r \in DOMAIN book : BrokerFills(r) \/ BrokerDrops(r)
           \/ CloseAllRemainingOrders \/ \E i \in Ids : HandleTimeout(i)
  <2>1. BookStays
    BY <1>1, <1>5, BookChanges DEF CloseAllRemainingOrders, HandleTimeout
  <2>2. book' \in Seq(BookRecord)
    BY <1>5, <1>1, CancelSyncShape, BookShape DEF CloseAllRemainingOrders, HandleTimeout, BrokerFills, BrokerDrops
  <2>3. Len(book') = Len(book)
    BY <1>1, <2>1, <2>2 DEF BookStays
  <2> QED BY <1>2, <2>1, <2>3
<1>6. CASE \/ Algorithm \/ (\E tick \in BOOLEAN : StartCycle(tick))
           \/ InboxDrained \/ PendingPolled \/ TimeoutsHandled \/ CycleEnds \/ DrainInbox
           \/ Reconcile \/ StopWorker \/ Done \/ UNCHANGED vars \/ WorkerTakes
           \/ \E i \in Ids : PollActive(i) \/ TimeoutPasses(i) \/ PollPending(i)
  <2>1. book' = book
    BY <1>6 DEF Algorithm, OpenOrder, ClosePosition, CancelLimitOrder, ModifyLimitOrder, ModifyPosition,
         StartCycle, InboxDrained, PendingPolled, TimeoutsHandled, CycleEnds, DrainInbox, Reconcile,
         StopWorker, Done, vars, WorkerTakes, PollActive, TimeoutPasses, PollPending
  <2> QED BY <1>3, <2>1
<1> QED BY <1>4, <1>5, <1>6 DEF Next, Cycle, Worker

\* A reference a market order or a close holds, or an answer brings, is the
\* order's own.
OwnedInv ==
  /\ \A i \in DOMAIN pending : pending[i].ref # NoRef => Owns(pending[i].ref, i)
  /\ \A m \in Items(inbox) : Spends(m) /\ m.status # "REJECTED" => Owns(m.ref, m.id)

\* Every step keeps the references with their owners.
LEMMA OwnedStep ==
  ASSUME LiveInv, PriceInv, [Next]_vars, OwnedInv
  PROVE  OwnedInv'
<1>1. WireShapes /\ book \in Seq(BookRecord) /\ inbox \in Seq(Answer)
  BY DEF LiveInv, Shapes, WireShapes
<1> DEFINE Owned(r, n) == r \in DOMAIN book' /\ book'[r].id = n
<1>2. \A ref, i : Owns(ref, i) => Owned(ref, i)
  BY <1>1, BookSteps DEF BookLasts, Owns
<1>3. ASSUME NEW i \in DOMAIN pending', NEW ref, ref = pending'[i].ref, ref # NoRef PROVE Owned(ref, i)
  <2>1. i \in DOMAIN pending /\ ref = pending[i].ref => Owns(ref, i)
    BY <1>3 DEF OwnedInv
  <2>2. ASSUME NEW m, Confirms(m, i), ref = m.ref PROVE Owns(ref, i)
    BY <2>2 DEF Confirms, OwnedInv, Spends
  <2> HIDE DEF Owns, Owned, Confirms
  <2> QED BY <1>2, <1>3, <2>1, <2>2, PendingRefs
<1>4. ASSUME NEW m \in Items(inbox'), Spends(m), m.status # "REJECTED" PROVE Owned(m.ref, m.id)
  <2>1. CASE m \in Items(inbox)
    BY <1>2, <1>4, <2>1 DEF OwnedInv
  <2>2. CASE ~Worker
    <3>1. inbox' = inbox \/ (inbox # <<>> /\ inbox' = Tail(inbox))
      BY <2>2, MainWire
    <3>2. Items(inbox') \subseteq Items(inbox)
      BY <1>1, <3>1, TailRequests
    <3> QED BY <2>1, <3>2
  <2>3. CASE WorkerTakes
    BY <2>1, <2>3 DEF WorkerTakes
  <2>4. CASE Dispatch
    <3>1. PICK job \in Items(worker) :
            \/ DispatchSubmit(job) \/ DispatchEdit(job) \/ DispatchCancel(job)
            \/ DispatchQuery(job) \/ DispatchPosition(job) \/ DispatchTrades(job)
      BY <2>4 DEF Dispatch, Items
    <3>2. ASSUME NEW ref, NEW st, Answered(job, ref, st), m \notin Items(inbox),
                 Spends(job) /\ st # "REJECTED" => Owned(ref, job.id)
          PROVE  Owned(m.ref, m.id)
      <4>1. PICK a : a = AnswerTo(job, ref, st)
        OBVIOUS
      <4>2. inbox' = Append(inbox, a)
        BY <3>2, <4>1 DEF Answered, AnswerTo
      <4>3. m = a
        BY <1>1, <1>4, <3>2, <4>2, AppendRequests
      <4>4. a.kind = job.kind /\ a.id = job.id /\ a.ref = ref /\ a.status = st
        BY <4>1 DEF AnswerTo
      <4> HIDE DEF Owned
      <4> QED BY <1>4, <3>2, <4>3, <4>4 DEF Spends
    <3>3. ASSUME NEW b \in Seq(BookRecord), NEW r, book' = Append(b, r), Len(b) = Len(book), r.id = job.id
          PROVE  Owned(Len(book) + 1, job.id)
      BY <1>1, <3>3, BookAppended
    <3>4. ASSUME NEW ref, NEW st, Acknowledged(job, ref, st), Owned(ref, job.id)
          PROVE  \E r, t : Answered(job, r, t) /\ (Spends(job) /\ t # "REJECTED" => Owned(r, job.id))
      BY <3>4 DEF Acknowledged
    <3>5. ASSUME Refused(job)
          PROVE  \E r, t : Answered(job, r, t) /\ (Spends(job) /\ t # "REJECTED" => Owned(r, job.id))
      BY <3>5 DEF Refused
    <3>6. \E r, t : Answered(job, r, t) /\ (Spends(job) /\ t # "REJECTED" => Owned(r, job.id))
      <4>1. CASE DispatchSubmit(job) /\ ~Refused(job)
        <5>1. PICK r, st : book' = Append(book, r) /\ r.id = job.id /\ Acknowledged(job, Len(book) + 1, st)
          BY <4>1 DEF DispatchSubmit
        <5>2. PICK b : b = book
          OBVIOUS
        <5>3. Owned(Len(book) + 1, job.id)
          BY <1>1, <3>3, <5>1, <5>2
        <5> QED BY <3>4, <5>1, <5>3
      <4>2. CASE DispatchEdit(job) /\ ~Refused(job)
        <5>1. job.ref \in DOMAIN book /\ book[job.ref].id = job.id /\ book[job.ref] \in BookRecord
          BY <1>1, <3>1, <4>2 DEF DispatchEdit, PriceInv, JobTrue, Requests, Owns
        <5>2. CASE book' = [book EXCEPT ![job.ref].price = job.price] /\ Acknowledged(job, job.ref, "PENDING")
          <6>1. Owns(job.ref, job.id)
            BY <5>1 DEF Owns
          <6> QED BY <1>2, <3>4, <5>2, <6>1
        <5>3. CASE /\ book' = Append([book EXCEPT ![job.ref].status = "gone"], [book[job.ref] EXCEPT !.price = job.price])
                   /\ Acknowledged(job, Len(book) + 1, "PENDING")
          <6>1. PICK b : b = [book EXCEPT ![job.ref].status = "gone"]
            OBVIOUS
          <6>2. b \in Seq(BookRecord) /\ DOMAIN b = DOMAIN book
            BY <1>1, <5>1, <6>1, BookShape
          <6>3. Len(b) = Len(book)
            BY <1>1, <6>2
          <6>4. PICK r : book' = Append(b, r) /\ r.id = job.id
            BY <5>1, <5>3, <6>1 DEF BookRecord
          <6>5. Owned(Len(book) + 1, job.id)
            BY <3>3, <6>2, <6>3, <6>4
          <6> QED BY <3>4, <5>3, <6>5
        <5> QED BY <4>2, <5>2, <5>3 DEF DispatchEdit
      <4>3. CASE DispatchCancel(job) \/ DispatchQuery(job) \/ DispatchPosition(job) \/ DispatchTrades(job)
        <5>1. ~Spends(job)
          BY <4>3 DEF DispatchCancel, DispatchQuery, DispatchPosition, DispatchTrades, Spends
        <5>2. \E r, t : Answered(job, r, t)
          BY <4>3, SomeAnswer DEF DispatchCancel, DispatchQuery, DispatchPosition, DispatchTrades
        <5> QED BY <5>1, <5>2
      <4> QED BY <3>1, <3>5, <4>1, <4>2, <4>3
    <3> HIDE DEF Owned, Spends
    <3> QED BY <2>1, <3>2, <3>6
  <2> QED BY <2>2, <2>3, <2>4 DEF Worker
<1> QED BY <1>3, <1>4 DEF OwnedInv, Owns

\* An answer that is drained tells nothing the main thread does not take over.
LEMMA DrainedTells ==
  ASSUME LiveInv, InSession, PriceInv, Mirrors, FewerHeard, DrainInbox,
         NEW m, m = Head(inbox), m.id \in Heard, NEW r, Tells(m, r), IsOpen(r)
  PROVE  \/ \E i \in DOMAIN limits' : limits'[i].ref = r
         \/ \E i \in DOMAIN pending' : pending'[i].ref = r
<1>1. Drained(m)
  BY DEF DrainInbox, Drained
<1>2. /\ m \in Items(inbox) /\ AnswerAgrees(m) /\ OrderShapes /\ m \in Answer
  BY <1>1, DrainFacts DEF AnswerMirrors
<1>3. m.ref = r /\ m.status # "REJECTED" /\ m.kind \in {"submit", "edit"} /\ m.status \in Statuses
  BY <1>2 DEF Tells, Answer
<1>4. m.kind = "submit" => m.status # "FILLED"
  BY <1>2, <1>3 DEF AnswerAgrees, At, IsOpen
<1>5. CASE HandleSubmitResponse(m)
  <2>1. m.id \in DOMAIN pending /\ pending[m.id] \in Tracked0 /\ m.kind = "submit"
    BY <1>2, <1>5 DEF HandleSubmitResponse, OrderShapes
  <2>2. pending' = [pending EXCEPT ![m.id].ref = m.ref]
    BY <1>3, <1>4, <1>5, <2>1 DEF HandleSubmitResponse
  <2>3. m.id \in DOMAIN pending' /\ pending'[m.id].ref = r
    BY <1>2, <1>3, <2>1, <2>2 DEF Tracked0, OrderShapes
  <2> QED BY <2>3
<1>6. ASSUME m.id \in DOMAIN limits, NEW o, limits' = [limits EXCEPT ![m.id] = o], o.ref = r
      PROVE  \E i \in DOMAIN limits' : limits'[i].ref = r
  BY <1>2, <1>6 DEF OrderShapes
<1>7. CASE HandleLimitSubmitResponse(m)
  <2>1. m.id \in DOMAIN limits /\ limits[m.id] \in Resting /\ m.kind = "submit"
    BY <1>2, <1>7 DEF HandleLimitSubmitResponse, OrderShapes
  <2>2. Confirm(m)
    BY <1>3, <1>4, <1>7, <2>1 DEF HandleLimitSubmitResponse
  <2>3. CASE limits' = [limits EXCEPT ![m.id].ref = m.ref]
    <3>1. [limits[m.id] EXCEPT !.ref = m.ref].ref = r
      BY <1>3, <2>1 DEF Resting
    <3> QED BY <1>6, <2>1, <2>3, <3>1
  <2>4. CASE limits' = [limits EXCEPT ![m.id].ref = m.ref, ![m.id].op = "PENDING_CANCEL",
                                      ![m.id].cancelRequested = FALSE]
    <3>1. [limits[m.id] EXCEPT !.ref = m.ref, !.op = "PENDING_CANCEL", !.cancelRequested = FALSE].ref = r
      BY <1>3, <2>1 DEF Resting
    <3>2. limits' = [limits EXCEPT ![m.id] = [limits[m.id] EXCEPT !.ref = m.ref, !.op = "PENDING_CANCEL", !.cancelRequested = FALSE]]
      BY <1>2, <2>1, <2>4 DEF OrderShapes
    <3> QED BY <1>6, <2>1, <3>1, <3>2
  <2> QED BY <2>2, <2>3, <2>4 DEF Confirm
<1>8. CASE HandleModifyResponse(m)
  <2>1. m.id \in DOMAIN limits /\ m.kind = "edit"
    BY <1>2, <1>3, <1>8 DEF HandleModifyResponse, AnswerAgrees, Accepted
  <2>2. limits' = [limits EXCEPT ![m.id] = Modified(limits[m.id], m)]
    BY <1>8, <2>1 DEF HandleModifyResponse
  <2>3. Modified(limits[m.id], m).ref = r
    BY <1>2, <1>3, <2>1 DEF Modified, Resting, OrderShapes
  <2> QED BY <1>6, <2>1, <2>2, <2>3
<1>9. ~HandleCancelResponse(m) /\ ~HandleQueryResponse(m) /\ ~HandlePositionResponse(m) /\ ~HandleTradesResponse(m)
  BY <1>3 DEF HandleCancelResponse, HandleQueryResponse, HandlePositionResponse, HandleTradesResponse
<1> QED BY <1>5, <1>7, <1>8, <1>9 DEF DrainInbox

\* An answer stays in the inbox until it is drained.
LEMMA InboxStays ==
  ASSUME WireShapes, [Next]_vars, NEW m \in Items(inbox), m \notin Items(inbox')
  PROVE  DrainInbox /\ m = Head(inbox)
<1>1. inbox \in Seq(Answer)
  BY DEF WireShapes
<1>2. CASE Worker
  <2>1. \A job, ref, st : Answered(job, ref, st) => \E a : inbox' = Append(inbox, a)
    BY DEF Answered
  <2>2. inbox' = inbox \/ \E a : inbox' = Append(inbox, a)
    BY <1>2, <2>1 DEF Worker, WorkerTakes, Dispatch, DispatchSubmit, DispatchEdit, DispatchCancel, DispatchQuery,
         DispatchPosition, DispatchTrades, Acknowledged, Refused
  <2>3. ASSUME NEW a, inbox' = Append(inbox, a) PROVE Items(inbox') = Items(inbox) \cup {a}
    BY <1>1, <2>3, AppendRequests
  <2> QED BY <2>2, <2>3
<1>3. CASE ~Worker
  <2>1. DrainInbox /\ inbox # <<>> /\ inbox' = Tail(inbox)
    BY <1>3, MainWire
  <2>2. Items(inbox) = Items(Tail(inbox)) \cup {Head(inbox)}
    BY <1>1, <2>1, TailItems
  <2> QED BY <2>1, <2>2
<1> QED BY <1>2, <1>3

\* What the main thread knows of the broker's orders, or will be told, it
\* still knows after every step.
LEMMA ForgottenStep ==
  ASSUME LiveInv, LiveInv', PriceInv, LossShape, FewerHeard, [Next]_vars, MirrorInv, MirrorInv', CloseInv,
         OwnedInv, NothingForgotten
  PROVE  NothingForgotten'
<1>1. SUFFICES ASSUME InSession', NEW r, IsOpen(r)', book'[r].id \in Heard' PROVE Tracked(r)'
  BY DEF NothingForgotten
<1>2. InSession /\ Mirrors /\ Mirrors' /\ WireShapes /\ inbox \in Seq(Answer) /\ book \in Seq(BookRecord)
  BY <1>1, StillInSession DEF MirrorInv, LiveInv, Shapes, WireShapes
<1> DEFINE Learnt == \/ \E i \in DOMAIN limits' : limits'[i].ref = r
                     \/ \E i \in DOMAIN pending' : pending'[i].ref = r
                     \/ \E m \in Items(inbox') : Tells(m, r)
<1>3. Learnt => Tracked(r)'
  <2>1. Tracked(r)' <=> Learnt
    BY DEF Tracked, Tells, Items
  <2> QED BY <2>1
<1>4. CASE ~IsOpen(r)
  <2>1. \E m \in Items(inbox') : Tells(m, r)
    BY <1>1, <1>2, <1>4, OldOrTold
  <2> QED BY <1>3, <2>1
<1>5. CASE IsOpen(r)
  <2>7. r \in DOMAIN book /\ r # NoRef /\ book[r].id = book'[r].id /\ book[r].id \in Heard
    BY <1>1, <1>2, <1>5, BookSteps DEF BookLasts, IsOpen, NoRef, FewerHeard
  <2>1. Tracked(r) /\ r \in DOMAIN book /\ r # NoRef
    BY <1>2, <1>5, <2>7 DEF NothingForgotten
  <2>8. \A i : Owns(r, i) => i = book[r].id /\ i \in Heard /\ i \in Heard' /\ i \in Ids
    BY <1>1, <2>7 DEF Owns, Heard
  <2>2. \A i : Mine(r, i) => Mine(r, i)' /\ Owns(r, i)
    BY <1>2, <2>1, BookSteps DEF BookLasts, Mine, Owns
  <2>3. ASSUME NEW i \in Ids, Mine(r, i), i \in DOMAIN limits' => limits'[i].ref # NoRef
        PROVE  Tracked(r)'
    <3>1. Mine(r, i)' /\ OrderAgrees(i)' /\ r \in DOMAIN book' /\ book'[r].status = "open"
      BY <1>1, <1>2, <2>2, <2>3, <2>8 DEF Mirrors, OrderMirrors, IsOpen
    <3>2. i \in DOMAIN limits'
      BY <3>1 DEF OrderAgrees, NoneOpen
    <3>3. OnlyGone(i, limits[i].ref)' \/ Replaced(i)'
      BY <2>3, <3>1, <3>2 DEF OrderAgrees
    <3>4. CASE OnlyGone(i, limits[i].ref)'
      <4>1. r = limits'[i].ref
        BY <3>1, <3>4 DEF OnlyGone
      <4> QED BY <1>3, <3>2, <4>1
    <3>5. CASE Replaced(i)'
      <4>1. PICK m \in Items(inbox') : Accepted(m) /\ m.id = i
        BY <3>5 DEF Replaced
      <4>2. AnswerAgrees(m)'
        BY <1>2, <2>2, <2>3, <2>8, <4>1 DEF Mirrors, AnswerMirrors
      <4>3. OnlyGone(m.id, m.ref)'
        BY <4>1, <4>2 DEF AnswerAgrees
      <4>4. r = m.ref
        BY <3>1, <4>1, <4>3 DEF OnlyGone
      <4>5. Tells(m, r)
        BY <4>1, <4>4 DEF Tells, Accepted
      <4> QED BY <1>3, <4>1, <4>5
    <3> QED BY <3>3, <3>4, <3>5
  <2>4. ASSUME NEW i \in DOMAIN limits, limits[i].ref = r PROVE Tracked(r)'
    <3>3. i \in Ids /\ Owns(r, i)
      BY <2>1, <2>4 DEF LiveInv, Shapes, OrderShapes, PriceInv, RefTrue
    <3>1. i \in Ids /\ Mine(r, i)
      BY <1>2, <2>1, <2>4, <2>8, <3>3 DEF Mirrors, OrderMirrors, OrderAgrees
    <3>2. i \in DOMAIN limits' => limits'[i].ref # NoRef
      <4>1. ASSUME NEW m, Names(m, i) PROVE m.ref # NoRef
        <5>1. Mine(m.ref, i)
          BY <1>2, <2>8, <3>3, <4>1 DEF Names, Mirrors, AnswerMirrors, AnswerAgrees, Accepted
        <5> QED BY <1>2, <5>1 DEF Mine, NoRef
      <4> HIDE DEF Names
      <4> QED BY <2>1, <2>4, <4>1, LimitRefs
    <3> QED BY <2>3, <3>1, <3>2
  <2>5. ASSUME NEW i \in DOMAIN pending, pending[i].ref = r PROVE Tracked(r)'
    <3>2. Owns(r, i) /\ i \in Heard'
      BY <2>1, <2>5, <2>8 DEF OwnedInv
    <3>1. i \in DOMAIN pending' /\ pending'[i].ref = r
      BY <1>1, <2>1, <2>5, <3>2, PendingStays
    <3> QED BY <1>3, <3>1
  <2>6. ASSUME NEW m \in Items(inbox), Tells(m, r) PROVE Tracked(r)'
    <3>1. CASE m \in Items(inbox')
      BY <1>3, <2>6, <3>1
    <3>2. CASE m \notin Items(inbox')
      <4>1. DrainInbox /\ m = Head(inbox)
        BY <1>2, <3>2, InboxStays
      <4>3. m.id \in Heard
        BY <2>6, <2>8 DEF OwnedInv, Tells, Spends
      <4>2. \/ \E i \in DOMAIN limits' : limits'[i].ref = r
            \/ \E i \in DOMAIN pending' : pending'[i].ref = r
        BY <1>2, <1>5, <2>6, <4>1, <4>3, DrainedTells
      <4> QED BY <1>3, <4>2
    <3> QED BY <3>1, <3>2
  <2> QED BY <2>1, <2>4, <2>5, <2>6, TrackedBy
<1> QED BY <1>4, <1>5

-----------------------------------------------------------------------------
(* Every order of the broker's book, and every job that can add one, was    *)
(* counted in calls.                                                        *)

SpendsAt(q) == {k \in DOMAIN q : Spends(q[k])}
Count(q) == Cardinality(SpendsAt(q))

\* One more call on its way.
LEMMA CountAppend ==
  ASSUME NEW S, NEW q \in Seq(S), NEW x
  PROVE  /\ Count(q) \in Nat
         /\ Count(Append(q, x)) = Count(q) + (IF Spends(x) THEN 1 ELSE 0)
<1> DEFINE p == Append(q, x)
<1>1. /\ DOMAIN p = DOMAIN q \cup {Len(q) + 1} /\ p[Len(q) + 1] = x
      /\ \A k \in DOMAIN q : p[k] = q[k]
      /\ Len(q) + 1 \notin DOMAIN q /\ DOMAIN q = 1..Len(q) /\ Len(q) \in Nat
  OBVIOUS
<1> HIDE DEF p
<1>2. IsFiniteSet(SpendsAt(q))
  <2>1. IsFiniteSet(1..Len(q))
    BY <1>1, FS_Interval
  <2> QED BY <1>1, <2>1, FS_Subset DEF SpendsAt
<1>3. Count(q) \in Nat
  BY <1>2, FS_CardinalityType DEF Count
<1>4. CASE Spends(x)
  <2>1. SpendsAt(p) = SpendsAt(q) \cup {Len(q) + 1} /\ Len(q) + 1 \notin SpendsAt(q)
    BY <1>1, <1>4 DEF SpendsAt
  <2> QED BY <1>2, <1>3, <1>4, <2>1, FS_AddElement DEF Count, p
<1>5. CASE ~Spends(x)
  <2>1. SpendsAt(p) = SpendsAt(q)
    BY <1>1, <1>5 DEF SpendsAt
  <2> QED BY <1>3, <1>5, <2>1 DEF Count, p
<1> QED BY <1>4, <1>5, <1>3

\* One call less.
LEMMA CountTail ==
  ASSUME NEW S, NEW q \in Seq(S), q # <<>>
  PROVE  Count(q) = Count(Tail(q)) + (IF Spends(Head(q)) THEN 1 ELSE 0) /\ Count(Tail(q)) \in Nat
<1> DEFINE p == Tail(q)
<1>1. /\ DOMAIN p = 1..(Len(q) - 1) /\ Head(q) = q[1] /\ DOMAIN q = 1..Len(q)
      /\ \A k \in 1..(Len(q) - 1) : p[k] = q[k + 1]
      /\ Len(q) \in Nat /\ Len(q) >= 1
  OBVIOUS
<1> HIDE DEF p
<1> DEFINE rest == SpendsAt(q) \ {1}
<1>2. IsFiniteSet(SpendsAt(q)) /\ IsFiniteSet(rest)
  <2>1. IsFiniteSet(1..Len(q))
    BY <1>1, FS_Interval
  <2> QED BY <1>1, <2>1, FS_Subset DEF SpendsAt
<1>3. IsFiniteSet(SpendsAt(p)) /\ Cardinality(SpendsAt(p)) = Cardinality(rest)
  <2> DEFINE f == [k \in rest |-> k - 1]
  <2>1. \A k \in rest : k \in Int /\ k - 1 \in SpendsAt(p)
    BY <1>1 DEF SpendsAt
  <2>2. \A j \in SpendsAt(p) : j + 1 \in rest /\ (j + 1) - 1 = j
    BY <1>1 DEF SpendsAt
  <2>3. f \in [rest -> SpendsAt(p)]
    BY <2>1
  <2>4. \A a, b \in rest : f[a] = f[b] => a = b
    BY <2>1
  <2>5. \A j \in SpendsAt(p) : \E k \in rest : f[k] = j
    <3>1. SUFFICES ASSUME NEW j \in SpendsAt(p) PROVE \E k \in rest : f[k] = j
      OBVIOUS
    <3>2. j + 1 \in rest /\ f[j + 1] = j
      BY <2>2
    <3> QED BY <3>2
  <2> HIDE DEF f, rest
  <2>6. DOMAIN f = rest
    BY <2>3
  <2>7. f \in Bijection(rest, SpendsAt(p))
    BY <2>3, <2>4, <2>5, <2>6 DEF Bijection, Injection, Surjection, IsInjective
  <2> QED BY <1>2, <2>7, FS_Bijection DEF ExistsBijection
<1>4. Cardinality(rest) \in Nat
  BY <1>2, FS_CardinalityType
<1>5. 1 \in SpendsAt(q) <=> Spends(Head(q))
  BY <1>1 DEF SpendsAt
<1>6. Cardinality(rest) = IF 1 \in SpendsAt(q) THEN Cardinality(SpendsAt(q)) - 1 ELSE Cardinality(SpendsAt(q))
  BY <1>2, FS_RemoveElement
<1>7. Cardinality(SpendsAt(q)) \in Nat
  BY <1>2, FS_CardinalityType
<1> HIDE DEF rest
<1> QED BY <1>3, <1>4, <1>5, <1>6, <1>7 DEF Count, p

\* A queue of one call.
LEMMA CountOne ==
  ASSUME NEW x
  PROVE  Count(<<>>) = 0 /\ Count(<<x>>) = (IF Spends(x) THEN 1 ELSE 0)
<1>1. SpendsAt(<<>>) = {}
  BY DEF SpendsAt
<1>2. Count(<<>>) = 0
  BY <1>1, FS_EmptySet DEF Count
<1>3. PICK q : q = <<>>
  OBVIOUS
<1>4. q \in Seq({x}) /\ Append(q, x) = <<x>>
  BY <1>3
<1>5. Count(Append(q, x)) = Count(q) + (IF Spends(x) THEN 1 ELSE 0)
  BY <1>4, CountAppend
<1> QED BY <1>2, <1>3, <1>4, <1>5

CountInv ==
  /\ calls \in Nat /\ calls <= MaxCalls
  /\ Len(book) + Count(outbox) + Count(worker) <= calls

\* The jobs of a step are counted.
LEMMA CallsCounted ==
  ASSUME [Next]_vars
  PROVE  \/ WorkerTakes
         \/ UNCHANGED <<outbox, calls>> /\ (worker' = worker \/ \E job : worker = <<job>> /\ worker' = <<>>)
         \/ /\ worker' = worker
            /\ \E x : /\ outbox' = Append(outbox, x)
                      /\ (~Spends(x) /\ calls' = calls) \/ (calls < MaxCalls /\ calls' = calls + 1)
<1>1. ASSUME NEW i, NEW ref, NEW price, NEW kind, kind \in {"cancel", "query", "trades"}
      PROVE  ~Spends(OrderJob(kind, i, ref, price))
  BY <1>1 DEF Spends, OrderJob
<1> DEFINE Free == UNCHANGED <<worker, calls>> /\ (outbox' = outbox \/ \E x : ~Spends(x) /\ outbox' = Append(outbox, x))
<1>2. CASE Algorithm
  <2>1. ASSUME NEW i, CancelLimitOrder(i) PROVE Free
    BY <1>1, <2>1 DEF CancelLimitOrder
  <2>2. ASSUME NEW type, NEW p, OpenOrder(type, p)
        PROVE  worker' = worker /\ (UNCHANGED <<outbox, calls>> \/ (calls < MaxCalls /\ calls' = calls + 1 /\ \E x : outbox' = Append(outbox, x)))
    BY <2>2 DEF OpenOrder
  <2>3. ASSUME NEW i, ClosePosition(i) \/ (\E p \in Prices : ModifyLimitOrder(i, p)) \/ (\E l \in Levels : ModifyPosition(i, l))
        PROVE  worker' = worker /\ calls < MaxCalls /\ calls' = calls + 1 /\ \E x : outbox' = Append(outbox, x)
    BY <2>3 DEF ClosePosition, ModifyLimitOrder, ModifyPosition
  <2> QED BY <1>2, <2>1, <2>2, <2>3 DEF Algorithm
<1>3. ASSUME NEW i, NEW action, NEW ref, FillOpen(i, ref) \/ Fill(i, action, ref) \/ Reject(i, action) \/ NoFill
      PROVE  outbox' = outbox \/ \E x : ~Spends(x) /\ outbox' = Append(outbox, x)
  BY <1>1, <1>3 DEF FillOpen, Fill, Reject, NoFill
<1>4. CASE DrainInbox
  <2>1. PICK m : m = Head(inbox)
    OBVIOUS
  <2>2. Confirm(m) => outbox' = outbox \/ \E x : ~Spends(x) /\ outbox' = Append(outbox, x)
    BY <1>1 DEF Confirm
  <2>3. outbox' = outbox \/ \E x : ~Spends(x) /\ outbox' = Append(outbox, x)
    <3>1. CASE HandleSubmitResponse(m)
      BY <1>3, <3>1 DEF HandleSubmitResponse
    <3>2. CASE HandleLimitSubmitResponse(m)
      BY <1>3, <2>2, <3>2 DEF HandleLimitSubmitResponse
    <3>3. CASE HandleModifyResponse(m) \/ HandleCancelResponse(m) \/ HandlePositionResponse(m) \/ HandleTradesResponse(m)
      BY <1>3, <3>3 DEF HandleModifyResponse, HandleCancelResponse, HandlePositionResponse, HandleTradesResponse
    <3>4. CASE HandleQueryResponse(m)
      BY <1>3, <3>4 DEF HandleQueryResponse
    <3> QED BY <1>4, <2>1, <3>1, <3>2, <3>3, <3>4 DEF DrainInbox
  <2>4. UNCHANGED <<worker, calls>>
    BY <1>4 DEF DrainInbox
  <2> QED BY <2>3, <2>4
<1>5. ASSUME NEW j, PollPending(j) PROVE Free
  BY <1>3, <1>5 DEF PollPending
<1>6. ASSUME NEW j, HandleTimeout(j) PROVE Free
  BY <1>3, <1>6 DEF HandleTimeout
<1>7. ASSUME NEW j, PollActive(j) PROVE Free
  BY <1>1, <1>7 DEF PollActive
<1>8. CASE \/ \E tick \in BOOLEAN : StartCycle(tick)
           \/ InboxDrained \/ PendingPolled \/ TimeoutsHandled \/ CycleEnds
           \/ Reconcile \/ StopWorker \/ Done \/ UNCHANGED vars
           \/ \E ref \in DOMAIN book : BrokerFills(ref) \/ BrokerDrops(ref)
           \/ \E j \in Ids : TimeoutPasses(j)
           \/ CloseAllRemainingOrders
  BY <1>8 DEF StartCycle, InboxDrained, PendingPolled, TimeoutsHandled, CycleEnds, Reconcile,
         StopWorker, Done, vars, BrokerFills, BrokerDrops, queues, TimeoutPasses, CloseAllRemainingOrders
<1>9. CASE Dispatch
  <2>1. \A job, ref, st : Answered(job, ref, st) => worker = <<job>> /\ worker' = <<>> /\ UNCHANGED <<outbox, calls>>
    BY DEF Answered
  <2> QED BY <1>9, <2>1 DEF Dispatch, DispatchSubmit, DispatchEdit, DispatchCancel, DispatchQuery,
         DispatchPosition, DispatchTrades, Acknowledged, Refused
<1> QED BY <1>2, <1>4, <1>5, <1>6, <1>7, <1>8, <1>9 DEF Next, Cycle, Worker

\* Every step keeps the count of calls.
LEMMA CountStep ==
  ASSUME WireShapes, [Next]_vars, CountInv
  PROVE  CountInv'
<1>1. /\ outbox \in Seq(Asked) /\ worker \in Seq(Asked) /\ book \in Seq(BookRecord) /\ Len(book) \in Nat
      /\ MaxCalls \in Nat /\ calls \in Nat /\ calls <= MaxCalls
  BY LiveAssumption DEF WireShapes, CountInv
<1>2. Count(outbox) \in Nat /\ Count(worker) \in Nat
  BY <1>1, CountAppend
<1>3. Len(book) + Count(outbox) + Count(worker) <= calls
  BY DEF CountInv
<1>4. CASE Len(book') = Len(book)
  <2>1. CASE WorkerTakes
    <3>1. outbox # <<>> /\ worker = <<>> /\ worker' = <<Head(outbox)>> /\ outbox' = Tail(outbox) /\ calls' = calls
      BY <2>1 DEF WorkerTakes
    <3>2. Count(outbox) = Count(outbox') + Count(worker') /\ Count(outbox') \in Nat /\ Count(worker) = 0 /\ Count(worker') \in Nat
      BY <1>1, <3>1, CountTail, CountOne
    <3> QED BY <1>1, <1>2, <1>3, <1>4, <3>1, <3>2 DEF CountInv
  <2>2. CASE UNCHANGED <<outbox, calls>> /\ worker' = worker
    BY <1>1, <1>3, <1>4, <2>2 DEF CountInv
  <2>3. ASSUME UNCHANGED <<outbox, calls>>, NEW job, worker = <<job>>, worker' = <<>> PROVE CountInv'
    <3>1. Count(worker') = 0 /\ Count(outbox') = Count(outbox)
      BY <2>3, CountOne
    <3> QED BY <1>1, <1>2, <1>3, <1>4, <2>3, <3>1 DEF CountInv
  <2>4. ASSUME worker' = worker, NEW x, outbox' = Append(outbox, x),
               (~Spends(x) /\ calls' = calls) \/ (calls < MaxCalls /\ calls' = calls + 1)
        PROVE  CountInv'
    <3>1. Count(outbox') = Count(outbox) + (IF Spends(x) THEN 1 ELSE 0)
      BY <1>1, <2>4, CountAppend
    <3>2. Count(worker') = Count(worker)
      BY <2>4
    <3> QED BY SMTT(30), <1>1, <1>2, <1>3, <1>4, <2>4, <3>1, <3>2 DEF CountInv
  <2> QED BY <2>1, <2>2, <2>3, <2>4, CallsCounted
<1>5. ASSUME Len(book') = Len(book) + 1, NEW job, worker = <<job>>, Spends(job), worker' = <<>>, UNCHANGED <<outbox, calls>>
      PROVE  CountInv'
  <2>1. Count(worker) = 1 /\ Count(worker') = 0 /\ Count(outbox') = Count(outbox)
    BY <1>5, CountOne
  <2> QED BY <1>1, <1>2, <1>3, <1>5, <2>1 DEF CountInv
<1> QED BY <1>4, <1>5, BookSteps

-----------------------------------------------------------------------------
(* Every reference the executor holds, sends or is told is one the broker   *)
(* has given out.                                                           *)

Known(ref) == ref = NoRef \/ ref \in DOMAIN book
AuditsKnown(f) ==
  f = [j \in DOMAIN f |-> f[j]] /\ DOMAIN f \subseteq Ids /\ \A j \in DOMAIN f : Known(f[j])
ReconKnown(r) == \E g, o \in SUBSET (DOMAIN book) : r = [ghosts |-> g, orphans |-> o]

RefsKnown ==
  /\ \A i \in DOMAIN limits : Known(limits[i].ref)
  /\ \A i \in DOMAIN pending : Known(pending[i].ref)
  /\ \A x \in Items(outbox) \cup Items(worker) \cup Items(inbox) : Known(x.ref)
  /\ AuditsKnown(audits) /\ ReconKnown(recon)

AsksKnown == outbox' = outbox \/ \E x : Known(x.ref) /\ outbox' = Append(outbox, x)

\* A fill asks for the trades of a known reference.
LEMMA FillKnown ==
  ASSUME AuditsKnown(audits), NEW i \in Ids, NEW action, NEW ref, Known(ref),
         FillOpen(i, ref) \/ Fill(i, action, ref) \/ Reject(i, action) \/ NoFill
  PROVE  AsksKnown /\ AuditsKnown(audits')
<1>1. CASE UNCHANGED <<outbox, audits>>
  BY <1>1 DEF AsksKnown
<1>2. CASE audits' = AuditBegins(i, ref) /\ outbox' = Append(outbox, OrderJob("trades", i, ref, 0))
  <2>1. OrderJob("trades", i, ref, 0).ref = ref
    BY DEF OrderJob
  <2>2. AuditsKnown(AuditBegins(i, ref))
    BY DEF AuditsKnown, AuditBegins
  <2> QED BY <1>2, <2>1, <2>2 DEF AsksKnown
<1> QED BY <1>1, <1>2 DEF FillOpen, Fill, Reject, NoFill

\* The main thread asks only for references it knows.
LEMMA MainKnown ==
  ASSUME LiveInv, RefsKnown, [Next]_vars, ~Worker
  PROVE  AsksKnown /\ AuditsKnown(audits') /\ (recon' = recon \/ ReconKnown(recon'))
<1>1. /\ AuditsKnown(audits) /\ OrderShapes /\ WireShapes
  BY DEF RefsKnown, LiveInv, Shapes
<1>2. ASSUME NEW i, NEW ref, NEW price, NEW kind, Known(ref)
      PROVE  Known(OrderJob(kind, i, ref, price).ref)
  BY <1>2 DEF OrderJob
<1>3. CASE Algorithm
  <2>1. UNCHANGED <<audits, recon>>
    BY <1>3 DEF Algorithm, OpenOrder, ClosePosition, CancelLimitOrder, ModifyLimitOrder, ModifyPosition, audit
  <2>2. ASSUME NEW i, NEW type, NEW action, NEW price PROVE Known(SubmitJob(i, type, action, price).ref)
    BY DEF SubmitJob, Known
  <2>3. ASSUME NEW i, NEW l PROVE Known([OrderJob("position", i, NoRef, l) EXCEPT !.type = "MARKET"].ref)
    BY DEF OrderJob, Known
  <2>4. \A i \in DOMAIN limits : Known(limits[i].ref)
    BY DEF RefsKnown
  <2> HIDE DEF Known
  <2>5. ASSUME NEW type, NEW p, OpenOrder(type, p) PROVE AsksKnown
    BY <2>2, <2>5 DEF OpenOrder, AsksKnown
  <2>6. ASSUME NEW i, ClosePosition(i) PROVE AsksKnown
    BY <2>2, <2>6 DEF ClosePosition, AsksKnown
  <2>7. ASSUME NEW i, CancelLimitOrder(i) PROVE AsksKnown
    BY <1>2, <2>4, <2>7 DEF CancelLimitOrder, AsksKnown
  <2>8. ASSUME NEW i, NEW p, ModifyLimitOrder(i, p) PROVE AsksKnown
    BY <1>2, <2>4, <2>8 DEF ModifyLimitOrder, AsksKnown
  <2>9. ASSUME NEW i, NEW l, ModifyPosition(i, l) PROVE AsksKnown
    BY <2>3, <2>9 DEF ModifyPosition, AsksKnown
  <2> QED BY <1>1, <1>3, <2>1, <2>5, <2>6, <2>7, <2>8, <2>9 DEF Algorithm
<1>4. CASE DrainInbox
  <2>1. PICK m : m = Head(inbox)
    OBVIOUS
  <2>2. m \in Items(inbox) /\ inbox \in Seq(Answer)
    BY <1>1, <1>4, <2>1, TailRequests DEF DrainInbox, WireShapes
  <2>3. Known(m.ref) /\ m.id \in Ids
    BY <1>1, <2>2, ItemIds DEF RefsKnown
  <2>4. recon' = recon
    BY <1>4 DEF DrainInbox
  <2> HIDE DEF Known, AuditsKnown
  <2>5. Confirm(m) => AsksKnown
    BY <1>2, <2>3 DEF Confirm, AsksKnown
  <2>6. CASE HandleSubmitResponse(m)
    BY <1>1, <2>3, <2>4, <2>6, FillKnown DEF HandleSubmitResponse
  <2>7. CASE HandleLimitSubmitResponse(m)
    BY <1>1, <2>3, <2>4, <2>5, <2>7, FillKnown DEF HandleLimitSubmitResponse
  <2>8. CASE HandleModifyResponse(m) \/ HandleCancelResponse(m) \/ HandlePositionResponse(m)
    BY <1>1, <2>3, <2>4, <2>8, FillKnown DEF HandleModifyResponse, HandleCancelResponse, HandlePositionResponse
  <2>9. CASE HandleQueryResponse(m)
    BY <1>1, <2>3, <2>4, <2>9, FillKnown DEF HandleQueryResponse
  <2>10. CASE HandleTradesResponse(m)
    <3>1. audits' = [j \in DOMAIN audits \ {m.id} |-> audits[j]] /\ outbox' = outbox
      BY <2>10 DEF HandleTradesResponse, AuditEnds
    <3>2. AuditsKnown(audits')
      BY <1>1, <3>1 DEF AuditsKnown
    <3> QED BY <2>4, <3>1, <3>2 DEF AsksKnown
  <2> QED BY <1>4, <2>1, <2>6, <2>7, <2>8, <2>9, <2>10 DEF DrainInbox
<1>5. ASSUME NEW j \in Ids, PollPending(j)
      PROVE  AsksKnown /\ AuditsKnown(audits') /\ recon' = recon
  <2>1. j \in DOMAIN pending
    <3>1. InSession /\ phase = "poll" /\ j \in todo
      BY <1>5 DEF PollPending, InSession
    <3> QED BY <3>1 DEF LiveInv, Visits
  <2>2. Known(pending[j].ref) /\ recon' = recon
    BY <1>5, <2>1 DEF RefsKnown, PollPending
  <2> HIDE DEF Known, AuditsKnown
  <2> QED BY <1>1, <1>5, <2>2, FillKnown DEF PollPending
<1>6. ASSUME NEW j \in Ids, HandleTimeout(j)
      PROVE  AsksKnown /\ AuditsKnown(audits') /\ recon' = recon
  <2>1. Known(NoRef) /\ recon' = recon
    BY <1>6 DEF Known, HandleTimeout
  <2> HIDE DEF Known, AuditsKnown
  <2> QED BY <1>1, <1>6, <2>1, FillKnown DEF HandleTimeout
<1>7. ASSUME NEW j \in Ids, PollActive(j)
      PROVE  AsksKnown /\ UNCHANGED <<audits, recon>>
  <2>1. Known(limits[j].ref) /\ UNCHANGED <<audits, recon>>
    BY <1>7 DEF PollActive, RefsKnown, audit
  <2> HIDE DEF Known
  <2> QED BY <1>2, <1>7, <2>1 DEF PollActive, AsksKnown
<1>8. CASE \/ \E tick \in BOOLEAN : StartCycle(tick)
           \/ InboxDrained \/ PendingPolled \/ TimeoutsHandled \/ CycleEnds
           \/ StopWorker \/ Done \/ UNCHANGED vars
           \/ \E ref \in DOMAIN book : BrokerFills(ref) \/ BrokerDrops(ref)
           \/ \E j \in Ids : TimeoutPasses(j)
  <2>1. UNCHANGED <<outbox, audits, recon>>
    BY <1>8 DEF StartCycle, InboxDrained, PendingPolled, TimeoutsHandled, CycleEnds,
         StopWorker, Done, vars, BrokerFills, BrokerDrops, queues, TimeoutPasses, audit
  <2> QED BY <1>1, <2>1 DEF AsksKnown
<1>9. CASE CloseAllRemainingOrders
  <2>1. outbox' = outbox /\ recon' = recon /\ audits' = [i \in {} |-> 0]
    BY <1>9 DEF CloseAllRemainingOrders, queues, NoAudits
  <2>2. AuditsKnown(audits')
    BY <2>1 DEF AuditsKnown
  <2> QED BY <2>1, <2>2 DEF AsksKnown
<1>10. CASE Reconcile
  <2>1. UNCHANGED <<outbox, audits>> /\ recon' = Diff(BrokerOrders, LocalRefs)
    BY <1>10 DEF Reconcile, ReconcileWith, queues
  <2>2. DOMAIN BrokerOrders \subseteq DOMAIN book /\ LocalRefs \subseteq DOMAIN book
    BY DEF BrokerOrders, LocalRefs, RefsKnown, Known
  <2>3. ReconKnown(recon')
    BY <2>1, <2>2 DEF ReconKnown, Diff, GhostOrders, OrphanOrders
  <2> QED BY <1>1, <2>1, <2>3 DEF AsksKnown
<1> QED BY <1>1, <1>3, <1>4, <1>5, <1>6, <1>7, <1>8, <1>9, <1>10 DEF Next, Cycle

\* The worker hands references on.
LEMMA WorkerKnown ==
  ASSUME WireShapes, RefsKnown, Worker
  PROVE  /\ UNCHANGED <<audits, recon>>
         /\ Items(outbox') \cup Items(worker') \subseteq Items(outbox) \cup Items(worker)
         /\ \A m \in Items(inbox') : m \in Items(inbox) \/ Known(m.ref) \/ m.ref \in DOMAIN book'
<1>1. outbox \in Seq(Asked) /\ inbox \in Seq(Answer) /\ book \in Seq(BookRecord)
  BY DEF WireShapes
<1>2. CASE WorkerTakes
  <2>1. outbox # <<>> /\ worker' = <<Head(outbox)>> /\ outbox' = Tail(outbox) /\ UNCHANGED <<inbox, audits, recon>>
    BY <1>2 DEF WorkerTakes, audit
  <2>2. Items(outbox') \subseteq Items(outbox) /\ Head(outbox) \in Items(outbox) /\ Items(worker') = {Head(outbox)}
    BY <1>1, <2>1, TailRequests, OneItem
  <2> QED BY <2>1, <2>2
<1>3. ASSUME NEW job, NEW ref, NEW st, Answered(job, ref, st), ref = job.ref \/ ref \in DOMAIN book'
      PROVE  /\ UNCHANGED <<audits, recon>>
             /\ Items(outbox') \cup Items(worker') \subseteq Items(outbox) \cup Items(worker)
             /\ \A m \in Items(inbox') : m \in Items(inbox) \/ Known(m.ref) \/ m.ref \in DOMAIN book'
  <2>1. PICK a : a = AnswerTo(job, ref, st)
    OBVIOUS
  <2>2. /\ worker = <<job>> /\ worker' = <<>> /\ inbox' = Append(inbox, a) /\ UNCHANGED <<outbox, audits, recon>>
    BY <1>3, <2>1 DEF Answered, AnswerTo, audit
  <2>3. Items(inbox') = Items(inbox) \cup {a} /\ Items(worker') = {} /\ Items(worker) = {job}
    BY <1>1, <2>2, AppendRequests, OneItem
  <2>4. a.ref = ref /\ Known(job.ref)
    BY <2>1, <2>3 DEF AnswerTo, RefsKnown
  <2> QED BY <1>3, <2>2, <2>3, <2>4
<1>4. CASE Dispatch
  <2>1. PICK job \in Items(worker) :
          \/ DispatchSubmit(job) \/ DispatchEdit(job) \/ DispatchCancel(job)
          \/ DispatchQuery(job) \/ DispatchPosition(job) \/ DispatchTrades(job)
    BY <1>4 DEF Dispatch, Items
  <2>2. ASSUME NEW b, b \in Seq(BookRecord), Len(b) = Len(book), NEW r, book' = Append(b, r)
        PROVE  Len(book) + 1 \in DOMAIN book'
    BY <1>1, <2>2, BookAppended
  <2>3. \E ref, st : Answered(job, ref, st) /\ (ref = job.ref \/ ref \in DOMAIN book')
    <3>1. CASE DispatchSubmit(job)
      <4>1. ASSUME NEW r, book' = Append(book, r) PROVE Len(book) + 1 \in DOMAIN book'
        <5>1. PICK b : b = book
          OBVIOUS
        <5> QED BY <1>1, <2>2, <4>1, <5>1
      <4> QED BY <3>1, <4>1 DEF DispatchSubmit, Acknowledged, Refused
    <3>2. CASE DispatchEdit(job)
      <4>1. ASSUME IsOpen(job.ref), book' = Append([book EXCEPT ![job.ref].status = "gone"], [book[job.ref] EXCEPT !.price = job.price])
            PROVE  Len(book) + 1 \in DOMAIN book'
        <5>1. PICK b : b = [book EXCEPT ![job.ref].status = "gone"]
          OBVIOUS
        <5>2. job.ref \in DOMAIN book
          BY <4>1 DEF IsOpen
        <5>3. b \in Seq(BookRecord) /\ DOMAIN b = DOMAIN book
          BY <1>1, <5>1, <5>2, BookShape
        <5>4. Len(b) = Len(book)
          BY <1>1, <5>3
        <5> QED BY <2>2, <4>1, <5>1, <5>3, <5>4
      <4> QED BY <3>2, <4>1 DEF DispatchEdit, Acknowledged, Refused
    <3>3. CASE DispatchCancel(job) \/ DispatchQuery(job) \/ DispatchPosition(job) \/ DispatchTrades(job)
      BY <3>3 DEF DispatchCancel, DispatchQuery, DispatchPosition, DispatchTrades, Acknowledged, Refused
    <3> QED BY <2>1, <3>1, <3>2, <3>3
  <2> QED BY <1>3, <2>3
<1> QED BY <1>2, <1>4 DEF Worker

\* Every step keeps the references known.
LEMMA KnownStep ==
  ASSUME LiveInv, [Next]_vars, RefsKnown
  PROVE  RefsKnown'
<1>1. WireShapes /\ outbox \in Seq(Asked) /\ inbox \in Seq(Answer) /\ BookLasts
  BY BookSteps DEF LiveInv, Shapes, WireShapes
<1>2. \A ref : (Known(ref) => Known(ref)') /\ (ref \in DOMAIN book' => Known(ref)')
  BY <1>1 DEF Known, BookLasts
<1>3. DOMAIN book \subseteq DOMAIN book'
  BY <1>1 DEF BookLasts
<1>4. \A m : m \in Items(inbox) => Known(m.ref)
  BY DEF RefsKnown
<1>5. \A i \in DOMAIN limits' : Known(limits'[i].ref)
  <2>1. SUFFICES ASSUME NEW i \in DOMAIN limits' PROVE Known(limits'[i].ref)
    OBVIOUS
  <2>2. Known(NoRef) /\ (i \in DOMAIN limits => Known(limits[i].ref)) /\ \A m : Names(m, i) => Known(m.ref)
    BY <1>4 DEF RefsKnown, Known, Names
  <2> HIDE DEF Known, Names
  <2> QED BY <2>2, LimitRefs
<1>6. \A i \in DOMAIN pending' : Known(pending'[i].ref)
  <2>1. SUFFICES ASSUME NEW i \in DOMAIN pending' PROVE Known(pending'[i].ref)
    OBVIOUS
  <2>2. Known(NoRef) /\ (i \in DOMAIN pending => Known(pending[i].ref)) /\ \A m : Confirms(m, i) => Known(m.ref)
    BY <1>4 DEF RefsKnown, Known, Confirms
  <2> HIDE DEF Known, Confirms
  <2> QED BY <2>2, PendingRefs
<1>7. /\ \A x \in Items(outbox') \cup Items(worker') \cup Items(inbox') : Known(x.ref) \/ x.ref \in DOMAIN book'
      /\ AuditsKnown(audits') /\ ReconKnown(recon')
  <2>1. CASE Worker
    BY <1>1, <2>1, WorkerKnown DEF RefsKnown
  <2>2. CASE ~Worker
    <3>1. AsksKnown /\ AuditsKnown(audits') /\ (recon' = recon \/ ReconKnown(recon'))
      BY <2>2, MainKnown
    <3>2. worker' = worker /\ (inbox' = inbox \/ (inbox # <<>> /\ inbox' = Tail(inbox)))
      BY <2>2, MainWire
    <3>3. Items(inbox') \subseteq Items(inbox)
      BY <1>1, <3>2, TailRequests
    <3>4. \A x \in Items(outbox') : x \in Items(outbox) \/ Known(x.ref)
      <4>1. ASSUME NEW x, outbox' = Append(outbox, x) PROVE Items(outbox') = Items(outbox) \cup {x}
        BY <1>1, <4>1, AppendRequests
      <4> HIDE DEF Known
      <4> QED BY <3>1, <4>1 DEF AsksKnown
    <3> HIDE DEF Known, AuditsKnown, ReconKnown
    <3> QED BY <3>1, <3>2, <3>3, <3>4 DEF RefsKnown
  <2> QED BY <2>1, <2>2
<1>8. AuditsKnown(audits)' /\ ReconKnown(recon)'
  BY <1>2, <1>3, <1>7 DEF AuditsKnown, ReconKnown
<1> HIDE DEF Known, AuditsKnown, ReconKnown
<1> QED BY <1>2, <1>5, <1>6, <1>7, <1>8 DEF RefsKnown

-----------------------------------------------------------------------------
LoopShapes ==
  /\ phase \in {"idle", "drain", "poll", "timeouts", "active", "stopping", "ended"}
  /\ onTick \in BOOLEAN /\ todo \subseteq Ids /\ Len(worker) <= 1
  /\ premature \cup refused \subseteq Ids

\* Every step keeps the shapes of the loop.
LEMMA LoopStep ==
  ASSUME LiveInv, [Next]_vars, LoopShapes
  PROVE  LoopShapes'
<1>1. DOMAIN pending \subseteq Ids
  BY DEF LiveInv, Shapes, OrderShapes
<1> USE DEF LoopShapes
<1>2. CASE Algorithm
  BY <1>2 DEF Algorithm, OpenOrder, ClosePosition, CancelLimitOrder, ModifyLimitOrder, ModifyPosition, history
<1>3. CASE \/ \E tick \in BOOLEAN : StartCycle(tick)
           \/ InboxDrained \/ PendingPolled \/ TimeoutsHandled \/ CycleEnds
           \/ Reconcile \/ StopWorker
  BY <1>1, <1>3 DEF StartCycle, InboxDrained, PendingPolled, TimeoutsHandled, CycleEnds, Reconcile, StopWorker,
         queues, TimedOut, history
<1>4. CASE \/ Done \/ UNCHANGED vars
           \/ \E ref \in DOMAIN book : BrokerFills(ref) \/ BrokerDrops(ref)
           \/ \E j \in Ids : TimeoutPasses(j) \/ PollActive(j)
  BY <1>4 DEF Done, vars, BrokerFills, BrokerDrops, queues, TimeoutPasses, PollActive, history
<1>6. CASE CloseAllRemainingOrders \/ \E j \in Ids : HandleTimeout(j)
  BY <1>6 DEF CloseAllRemainingOrders, HandleTimeout, queues
<1>7. CASE \E j \in Ids : PollPending(j)
  BY <1>7 DEF PollPending
<1>8. CASE DrainInbox
  <2>1. UNCHANGED <<phase, onTick, todo, worker, premature>>
    BY <1>8 DEF DrainInbox
  <2>2. \A m : HandlePositionResponse(m) => refused' \subseteq Ids
    BY DEF HandlePositionResponse, LiveInv, Shapes, OrderShapes
  <2>3. refused' \subseteq Ids
    BY <1>8, <2>2 DEF DrainInbox, HandleSubmitResponse, HandleLimitSubmitResponse, HandleModifyResponse,
         HandleCancelResponse, HandleQueryResponse, HandleTradesResponse
  <2> QED BY <2>1, <2>3
<1>9. CASE WorkerTakes
  <2>1. Len(worker') = 1
    BY <1>9 DEF WorkerTakes
  <2> QED BY <1>9, <2>1 DEF WorkerTakes, history
<1>10. CASE Dispatch
  <2>1. ASSUME NEW job, NEW ref, NEW st, Answered(job, ref, st)
        PROVE  UNCHANGED <<phase, onTick, todo, premature, refused>> /\ Len(worker') = 0
    BY <2>1 DEF Answered
  <2>2. ASSUME NEW job, NEW ref, NEW st, Acknowledged(job, ref, st)
        PROVE  UNCHANGED <<phase, onTick, todo, premature, refused>> /\ Len(worker') = 0
    BY <2>1, <2>2 DEF Acknowledged
  <2>3. ASSUME NEW job, Refused(job)
        PROVE  UNCHANGED <<phase, onTick, todo, premature, refused>> /\ Len(worker') = 0
    BY <2>1, <2>3 DEF Refused
  <2>4. UNCHANGED <<phase, onTick, todo, premature, refused>> /\ Len(worker') = 0
    BY <1>10, <2>1, <2>2, <2>3 DEF Dispatch, DispatchSubmit, DispatchEdit, DispatchCancel, DispatchQuery,
         DispatchPosition, DispatchTrades
  <2> QED BY <2>4
<1> QED BY <1>2, <1>3, <1>4, <1>6, <1>7, <1>8, <1>9, <1>10 DEF Next, Cycle, Worker

\* The shapes, the count and what is known of references are TypeOK.
LEMMA WellFormed ==
  ASSUME Shapes, StopShapes, LossShape, LoopShapes, CountInv, RefsKnown
  PROVE  TypeOK
<1>1. /\ book \in Seq(BookRecord) /\ Len(book) \in Nat /\ DOMAIN book = 1..Len(book) /\ MaxCalls \in Nat
      /\ outbox \in Seq(Asked) /\ worker \in Seq(Asked) /\ inbox \in Seq(Answer)
  BY LiveAssumption DEF Shapes, WireShapes
<1>2. Len(book) <= MaxCalls /\ calls \in 0..MaxCalls
  <2>1. Count(outbox) \in Nat /\ Count(worker) \in Nat
    BY <1>1, CountAppend
  <2> QED BY <1>1, <2>1 DEF CountInv
<1>3. \A ref : Known(ref) => ref \in Refs
  BY <1>1, <1>2 DEF Known, Refs, NoRef
<1>4. pending \in [DOMAIN pending -> PendingRecord] /\ DOMAIN pending \subseteq Ids
  <2>1. \A i \in DOMAIN pending : pending[i] \in Tracked0 /\ pending[i].ref \in Refs
    BY <1>3 DEF RefsKnown, Shapes, OrderShapes
  <2>2. \A p \in Tracked0 : p.ref \in Refs => p \in PendingRecord
    BY DEF Tracked0, PendingRecord
  <2> QED BY <2>1, <2>2 DEF Shapes, OrderShapes
<1>5. limits \in [DOMAIN limits -> LimitRecord] /\ DOMAIN limits \subseteq Ids
  <2>1. \A i \in DOMAIN limits : limits[i] \in Resting /\ limits[i].ref \in Refs
    BY <1>3 DEF RefsKnown, Shapes, OrderShapes
  <2>2. \A p \in Resting : p.ref \in Refs => p \in LimitRecord
    BY DEF Resting, LimitRecord
  <2> QED BY <2>1, <2>2 DEF Shapes, OrderShapes
<1>6. outbox \in Seq(Job) /\ worker \in Seq(Job) /\ inbox \in Seq(Response)
  <2>1. \A x \in Asked : x.ref \in Refs => x \in Job
    BY DEF Asked, Job
  <2>2. \A x \in Answer : x.ref \in Refs => x \in Response
    BY DEF Answer, Response
  <2>3. \A x \in Items(outbox) \cup Items(worker) \cup Items(inbox) : x.ref \in Refs
    BY <1>3 DEF RefsKnown
  <2>4. /\ \A k \in DOMAIN outbox : outbox[k] \in Asked /\ outbox[k] \in Items(outbox)
        /\ \A k \in DOMAIN worker : worker[k] \in Asked /\ worker[k] \in Items(worker)
        /\ \A k \in DOMAIN inbox : inbox[k] \in Answer /\ inbox[k] \in Items(inbox)
    BY <1>1 DEF Items
  <2>5. /\ \A k \in DOMAIN outbox : outbox[k] \in Job
        /\ \A k \in DOMAIN worker : worker[k] \in Job
        /\ \A k \in DOMAIN inbox : inbox[k] \in Response
    BY <2>1, <2>2, <2>3, <2>4
  <2>6. ASSUME NEW S, NEW T, NEW q \in Seq(S), \A k \in DOMAIN q : q[k] \in T PROVE q \in Seq(T)
    BY <2>6
  <2> QED BY <1>1, <2>5, <2>6
<1>7. recon \in [ghosts : SUBSET Refs, orphans : SUBSET Refs]
  <2>1. PICK g, o \in SUBSET (DOMAIN book) : recon = [ghosts |-> g, orphans |-> o]
    BY DEF RefsKnown, ReconKnown
  <2>2. DOMAIN book \subseteq Refs
    BY <1>1, <1>2 DEF Refs
  <2> QED BY <2>1, <2>2
<1>8. DOMAIN audits \subseteq Ids /\ audits \in [DOMAIN audits -> Refs]
  BY <1>3 DEF RefsKnown, AuditsKnown
<1>9. {level, brokerLevel} \subseteq [Ids -> Nat] /\ DOMAIN mods \subseteq Ids /\ mods \in [DOMAIN mods -> Nat]
  BY DEF StopShapes
<1>10. positions \subseteq Ids /\ results \in [Ids -> Seq(Outcomes)] /\ sent \in 0..MaxOrders
  BY DEF Shapes, OrderShapes
<1>11. /\ phase \in {"idle", "drain", "poll", "timeouts", "active", "stopping", "ended"}
       /\ onTick \in BOOLEAN /\ todo \subseteq Ids /\ Len(worker) <= 1
       /\ lost \in [Ids -> SUBSET Kinds] /\ premature \cup refused \subseteq Ids
  BY DEF LoopShapes, LossShape
<1> QED BY <1>1, <1>2, <1>4, <1>5, <1>6, <1>7, <1>8, <1>9, <1>10, <1>11 DEF TypeOK

-----------------------------------------------------------------------------
MirroredInv ==
  /\ LiveInv /\ PriceInv /\ LossShape /\ StopInv /\ CloseInv /\ MirrorInv
  /\ OwnedInv /\ NothingForgotten /\ LoopShapes /\ CountInv /\ RefsKnown

\* Nothing was sent yet.
LEMMA InitMirrored ==
  ASSUME Init
  PROVE  MirroredInv
<1>1. LiveInv
  BY InitGood
<1>2. /\ outbox = <<>> /\ worker = <<>> /\ inbox = <<>> /\ book = <<>> /\ DOMAIN limits = {} /\ DOMAIN pending = {}
      /\ DOMAIN mods = {} /\ positions = {} /\ results = [i \in Ids |-> <<>>] /\ sent = 0 /\ calls = 0
      /\ level = [i \in Ids |-> 0] /\ brokerLevel = [i \in Ids |-> 0] /\ mods = [i \in {} |-> i]
      /\ audits = [i \in {} |-> 0] /\ recon = [ghosts |-> {}, orphans |-> {}]
      /\ phase = "idle" /\ onTick = FALSE /\ todo = {} /\ lost = [i \in Ids |-> {}]
      /\ premature = {} /\ refused = {}
  BY DEF Init, ProcessorInit, Empty, NoAudits, NothingReported
<1>3. Items(<<>>) = {} /\ Requested(<<>>) = {} /\ Single(<<>>)
  BY DEF Items, Requested, Single
<1>4. \A c : OfClass(<<>>, c) = {} /\ Lone(<<>>, c)
  BY DEF OfClass, Lone
<1>5. PriceInv
  BY <1>2, <1>3 DEF PriceInv, RequestedOnce, RefTrue
<1>6. StopInv
  <2>1. Apart("position")
    BY <1>2, <1>4 DEF Apart
  <2>2. StopShapes /\ \A i \in Ids : StopOf(i)
    BY <1>2 DEF StopShapes, StopOf
  <2> QED BY <1>2, <1>3, <2>1, <2>2 DEF StopInv
<1>7. CloseInv
  BY <1>2, <1>4 DEF CloseInv, Apart, Wired
<1>8. DOMAIN book = {} /\ Len(book) = 0
  BY <1>2
<1>9. MirrorInv /\ NothingForgotten
  <2>1. \A i \in Ids : DOMAIN results[i] = {}
    BY <1>2
  <2>2. \A i \in Ids : OrderAgrees(i)
    BY <1>2, <1>8, <2>1 DEF OrderAgrees, OnlyGone, NoneOpen, Opening
  <2>5. \A i \in Ids : OrderMirrors(i)
    BY <2>2 DEF OrderMirrors
  <2>3. InOrder
    BY <1>2 DEF InOrder, Ordered
  <2>4. NothingForgotten
    BY <1>8 DEF NothingForgotten
  <2> HIDE DEF OrderMirrors, InOrder, NothingForgotten
  <2> QED BY <1>2, <1>3, <2>3, <2>4, <2>5 DEF MirrorInv, Mirrors
<1>10. LoopShapes
  <2>1. Len(worker) <= 1
    BY <1>2
  <2>2. onTick \in BOOLEAN /\ todo \subseteq Ids /\ premature \cup refused \subseteq Ids
    BY <1>2, Zenon
  <2> QED BY <1>2, <2>1, <2>2, Zenon DEF LoopShapes
<1>11. CountInv
  <2>1. Count(outbox) = 0 /\ Count(worker) = 0
    BY <1>2, CountOne
  <2>2. MaxCalls \in Nat
    BY LiveAssumption
  <2> QED BY <1>2, <1>8, <2>1, <2>2 DEF CountInv
<1>12. RefsKnown
  <2>1. AuditsKnown(audits)
    BY <1>2 DEF AuditsKnown
  <2>2. ReconKnown(recon)
    BY <1>2 DEF ReconKnown
  <2> QED BY <1>2, <1>3, <2>1, <2>2 DEF RefsKnown
<1>13. LossShape /\ OwnedInv
  BY <1>2, <1>3 DEF LossShape, OwnedInv
<1> QED BY <1>1, <1>5, <1>6, <1>7, <1>9, <1>10, <1>11, <1>12, <1>13 DEF MirroredInv

\* Every step keeps the whole invariant.
LEMMA MirroredStep ==
  ASSUME MirroredInv, [Next]_vars
  PROVE  MirroredInv'
<1> USE DEF MirroredInv
<1>1. LiveInv /\ PriceInv /\ LossShape /\ LiveInv' /\ PriceInv' /\ LossShape' /\ WireShapes
  BY PriceStep DEF LiveInv, Shapes
<1>7. FewerHeard
  <2>1. LossGrows
    BY <1>1, LossStep DEF LiveInv
  <2> QED BY <2>1 DEF LossGrows, FewerHeard, Heard
<1> HIDE DEF LiveInv, PriceInv
<1>2. StopInv'
  BY <1>1, StopStep
<1>3. CloseInv'
  BY <1>1, CloseStep
<1>4. MirrorInv'
  BY <1>1, MirrorStep
<1>5. NothingForgotten' /\ OwnedInv'
  BY <1>1, <1>4, <1>7, ForgottenStep, OwnedStep
<1>6. LoopShapes' /\ CountInv' /\ RefsKnown'
  BY <1>1, LoopStep, CountStep, KnownStep
<1> QED BY <1>1, <1>2, <1>3, <1>4, <1>5, <1>6

\* What the executor reports of a limit order and holds of a position is the
\* broker's.
LEMMA MirrorsTell ==
  ASSUME MirroredInv
  PROVE  BrokerMirrored
<1>1. TypeOK
  BY WellFormed DEF MirroredInv, LiveInv, StopInv
<1>2. InSession => \A i \in Heard : OutcomesTrue(i)
  <2>1. SUFFICES ASSUME InSession, NEW i \in Heard, NEW k \in DOMAIN results[i]
        PROVE  /\ results[i][k] \in {"EXECUTED", "NO_FUNDS"} =>
                    \/ \E ref \in DOMAIN book : book[ref].id = i /\ book[ref].type = "LIMIT" /\ book[ref].status = "filled"
                    \/ \E ref \in DOMAIN book : book[ref].id = i /\ book[ref].type = "MARKET" /\ book[ref].action = "OPEN"
               /\ results[i][k] \in {"REJECTED", "CANCELLED"} =>
                    \A ref \in DOMAIN book : book[ref].id = i /\ book[ref].type = "LIMIT" =>
                                               book[ref].status # "open" /\ book[ref].status # "filled"
    BY DEF OutcomesTrue
  <2>2. Resolved(i, results[i][k]) /\ book \in Seq(BookRecord)
    BY <2>1 DEF Heard, MirroredInv, MirrorInv, Mirrors, OrderMirrors, OrderAgrees, LiveInv, Shapes, WireShapes
  <2>3. NoRef \notin DOMAIN book
    BY <2>2 DEF NoRef
  <2>4. OnlyGone(i, NoRef) => \A ref \in DOMAIN book : book[ref].id = i /\ book[ref].type = "LIMIT" => book[ref].status = "gone"
    BY <2>3 DEF OnlyGone, Mine
  <2> QED BY <2>2, <2>4 DEF Resolved, Market, Mine, At
<1>3. StopLevelTrue
  BY DEF MirroredInv, StopInv, StopOf, Sure, Told, StopLevelTrue, LiveInv, Shapes, OrderShapes
<1> QED BY <1>1, <1>2, <1>3 DEF BrokerMirrored, MirroredInv

\* However polls, fills, drops, edits that replace the reference, parked
\* cancels, timeouts, closes, lost answers and stop modifications overlap: of
\* an order whose own answers all arrived, none works at the broker that the
\* executor does not know of or is about to be told of, and the outcome it
\* reports of a limit order is what became of it at the broker; a position has
\* the broker's stop loss unless a modification is on its way, an answer to
\* one was lost, or the portfolio itself refused the level; and orders, jobs
\* and answers stay well-formed (live_request_processor.py, _worker_loop;
\* live_trade_executor.py).
THEOREM LiveMirrorsBroker == Spec => []BrokerMirrored
<1>1. Init => MirroredInv
  BY InitMirrored
<1>2. MirroredInv /\ [Next]_vars => MirroredInv'
  BY MirroredStep
<1>3. MirroredInv => BrokerMirrored
  BY MirrorsTell
<1> QED BY <1>1, <1>2, <1>3, PTL DEF Spec

=============================================================================
