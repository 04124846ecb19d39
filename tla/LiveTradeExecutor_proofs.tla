----------------------- MODULE LiveTradeExecutor_proofs -----------------------
(***************************************************************************)
(* Theorems about LiveTradeExecutor, for every number of orders and calls, *)
(* every set of prices and stops, and whichever answers of the broker get  *)
(* lost: one outcome per order, the order lifecycle implemented, and the   *)
(* local price of a resting order the broker's, unless the answer to an    *)
(* edit of that very order was lost.                                       *)
(***************************************************************************)
EXTENDS LiveTradeExecutor, TLAPS

-----------------------------------------------------------------------------
(* Shapes: the part of TypeOK the argument needs.  References are any       *)
(* number here: LiveTradeExecutor_mirror has that they are the book's.       *)

Tracked0 == [action: {"OPEN", "CLOSE"}, ref: Nat, late: BOOLEAN]
Resting == [ref: Nat, price: Nat, op: {"NONE", "PENDING_MODIFY", "PENDING_CANCEL"},
            mod: Nat, cancelRequested: BOOLEAN, query: BOOLEAN]
Asked == [kind: Kinds, id: Ids, type: {"MARKET", "LIMIT"},
          action: {"OPEN", "CLOSE"}, ref: Nat, price: Nat]
Answer == [kind: Kinds, id: Ids, type: {"MARKET", "LIMIT"},
           action: {"OPEN", "CLOSE"}, ref: Nat, status: Statuses]

OrderShapes ==
  /\ DOMAIN pending \subseteq Ids /\ pending \in [DOMAIN pending -> Tracked0]
  /\ DOMAIN limits \subseteq Ids /\ limits \in [DOMAIN limits -> Resting]
  /\ positions \subseteq Ids
  /\ results \in [Ids -> Seq(Outcomes)]
  /\ sent \in 0..MaxOrders

WireShapes ==
  /\ outbox \in Seq(Asked) /\ worker \in Seq(Asked) /\ inbox \in Seq(Answer)
  /\ book \in Seq(BookRecord)

Shapes == OrderShapes /\ WireShapes

\* A job of the algorithm, of the polls or of the auditor is well-formed.
LEMMA JobShape ==
  ASSUME NEW i \in Ids
  PROVE  /\ \A kind \in Kinds, ref \in Nat, price \in Nat :
              OrderJob(kind, i, ref, price) \in Asked
         /\ \A type \in {"MARKET", "LIMIT"}, action \in {"OPEN", "CLOSE"}, price \in Nat :
              SubmitJob(i, type, action, price) \in Asked
         /\ \A ref \in Nat, price \in Nat :
              [OrderJob("position", i, ref, price) EXCEPT !.type = "MARKET"] \in Asked
BY DEF OrderJob, SubmitJob, Asked, Kinds, NoRef

\* A reported outcome keeps the history well-formed.
LEMMA ReportShape ==
  ASSUME OrderShapes, NEW i \in Ids, NEW o \in Outcomes, Report(i, o)
  PROVE  results' \in [Ids -> Seq(Outcomes)]
BY DEF Shapes, OrderShapes, WireShapes, Report

\* Removing entries keeps a container well-formed.
LEMMA WithoutShape ==
  ASSUME NEW S, NEW f, DOMAIN f \subseteq Ids, f \in [DOMAIN f -> S], NEW D
  PROVE  /\ DOMAIN Without(f, D) \subseteq Ids
         /\ Without(f, D) \in [DOMAIN Without(f, D) -> S]
BY DEF Without

\* An order of the broker's book may change.
LEMMA BookShape ==
  ASSUME NEW s \in Seq(BookRecord), NEW ref \in DOMAIN s
  PROVE  /\ \A st \in {"open", "filled", "gone"} :
              [s EXCEPT ![ref].status = st] \in Seq(BookRecord)
         /\ \A price \in Nat : [s EXCEPT ![ref].price = price] \in Seq(BookRecord)
<1>1. s[ref] \in BookRecord
  OBVIOUS
<1>2. \A x \in BookRecord : [s EXCEPT ![ref] = x] \in Seq(BookRecord)
  OBVIOUS
<1>3. \A st \in {"open", "filled", "gone"} : [s[ref] EXCEPT !.status = st] \in BookRecord
  BY <1>1 DEF BookRecord
<1>4. \A price \in Nat : [s[ref] EXCEPT !.price = price] \in BookRecord
  BY <1>1 DEF BookRecord
<1> QED BY <1>2, <1>3, <1>4

\* The algorithm's calls keep the shapes.
LEMMA AlgorithmShapes ==
  ASSUME Shapes, Algorithm
  PROVE  Shapes'
<1> USE LiveAssumption
<1>1. ASSUME NEW type \in {"MARKET", "LIMIT"}, NEW price \in Nat, OpenOrder(type, price)
      PROVE  Shapes'
  <2> DEFINE id == sent + 1
  <2>1. id \in Ids /\ sent' = id /\ id \in 0..MaxOrders
    BY <1>1 DEF OpenOrder, Ids, Shapes, OrderShapes, WireShapes
  <2>2. CASE type = "MARKET" /\ pending' = Put(pending, id, NewPending("OPEN"))
               /\ outbox' = Append(outbox, SubmitJob(id, "MARKET", "OPEN", 0))
               /\ UNCHANGED <<limits, results>>
    <3>1. SubmitJob(id, "MARKET", "OPEN", 0) \in Asked
      BY <2>1, JobShape
    <3>2. NewPending("OPEN") \in Tracked0
      BY DEF NewPending, Tracked0, NoRef
    <3> HIDE DEF id
    <3> QED BY <1>1, <2>1, <2>2, <3>1, <3>2 DEF OpenOrder, Shapes, OrderShapes, WireShapes, Put
  <2>3. CASE type = "LIMIT" /\ limits' = Put(limits, id, NewLimit(price))
               /\ outbox' = Append(outbox, SubmitJob(id, "LIMIT", "OPEN", price))
               /\ UNCHANGED <<pending, results>>
    <3>1. SubmitJob(id, "LIMIT", "OPEN", price) \in Asked
      BY <2>1, JobShape
    <3>2. NewLimit(price) \in Resting
      BY DEF NewLimit, Resting, NoRef
    <3> HIDE DEF id
    <3> QED BY <1>1, <2>1, <2>3, <3>1, <3>2 DEF OpenOrder, Shapes, OrderShapes, WireShapes, Put
  <2>4. CASE Report(id, "REJECTED") /\ UNCHANGED <<pending, limits, outbox, calls>>
    <3>1. results' \in [Ids -> Seq(Outcomes)]
      BY <2>1, <2>4, ReportShape DEF Outcomes, Shapes
    <3> QED BY <1>1, <2>1, <2>4, <3>1 DEF OpenOrder, Shapes, OrderShapes, WireShapes
  <2> QED BY <1>1, <2>2, <2>3, <2>4 DEF OpenOrder
<1>2. ASSUME NEW i \in Ids, ClosePosition(i) PROVE Shapes'
  <2>1. SubmitJob(i, "MARKET", "CLOSE", 0) \in Asked
    BY JobShape
  <2>2. NewPending("CLOSE") \in Tracked0
    BY DEF NewPending, Tracked0, NoRef
  <2> QED BY <1>2, <2>1, <2>2 DEF ClosePosition, Shapes, OrderShapes, WireShapes, Put
<1>3. ASSUME NEW i \in Ids, CancelLimitOrder(i) PROVE Shapes'
  <2>1. limits[i] \in Resting
    BY <1>3 DEF CancelLimitOrder, Shapes, OrderShapes, WireShapes
  <2>2. OrderJob("cancel", i, limits[i].ref, 0) \in Asked
    BY <2>1, JobShape DEF Kinds, Resting
  <2>3. /\ [limits[i] EXCEPT !.cancelRequested = TRUE] \in Resting
        /\ [limits[i] EXCEPT !.op = "PENDING_CANCEL"] \in Resting
    BY <2>1 DEF Resting
  <2>4. \E x \in Resting : limits' = [limits EXCEPT ![i] = x]
    BY <1>3, <2>3 DEF CancelLimitOrder
  <2>5. limits' \in [DOMAIN limits' -> Resting] /\ DOMAIN limits' = DOMAIN limits
    BY <1>3, <2>4 DEF Shapes, OrderShapes, WireShapes
  <2>6. outbox' = outbox \/ outbox' = Append(outbox, OrderJob("cancel", i, limits[i].ref, 0))
    BY <1>3 DEF CancelLimitOrder
  <2>7. outbox \in Seq(Asked)
    BY DEF Shapes, OrderShapes, WireShapes
  <2>8. outbox' \in Seq(Asked)
    BY <2>2, <2>6, <2>7
  <2> QED BY <1>3, <2>5, <2>8 DEF CancelLimitOrder, Shapes, OrderShapes, WireShapes
<1>4. ASSUME NEW i \in Ids, NEW p \in Prices, ModifyLimitOrder(i, p) PROVE Shapes'
  <2>1. limits[i] \in Resting /\ p \in Nat
    BY <1>4 DEF ModifyLimitOrder, Shapes, OrderShapes, WireShapes
  <2>2. OrderJob("edit", i, limits[i].ref, p) \in Asked
    BY <2>1, JobShape DEF Kinds, Resting
  <2>3. limits' \in [DOMAIN limits' -> Resting] /\ DOMAIN limits' = DOMAIN limits
    BY <1>4, <2>1 DEF ModifyLimitOrder, Resting, Shapes, OrderShapes, WireShapes
  <2> QED BY <1>4, <2>2, <2>3 DEF ModifyLimitOrder, Shapes, OrderShapes, WireShapes
<1>5. ASSUME NEW i \in Ids, NEW l \in Levels, ModifyPosition(i, l) PROVE Shapes'
  <2>1. [OrderJob("position", i, NoRef, l) EXCEPT !.type = "MARKET"] \in Asked
    BY JobShape DEF NoRef
  <2> QED BY <1>5, <2>1 DEF ModifyPosition, Shapes, OrderShapes, WireShapes, local
<1> QED BY <1>1, <1>2, <1>3, <1>4, <1>5 DEF Algorithm

\* The worker hands on well-formed jobs and answers, and the broker's book
\* stays well-formed.
LEMMA WorkerShapes ==
  ASSUME Shapes, Worker
  PROVE  /\ Shapes'
         /\ \/ WorkerTakes
            \/ \E job \in Asked, ref \in Nat, st \in Statuses : Answered(job, ref, st)
<1>1. CASE WorkerTakes
  <2>1. Head(outbox) \in Asked /\ Tail(outbox) \in Seq(Asked)
    BY <1>1 DEF WorkerTakes, Shapes, OrderShapes, WireShapes
  <2> QED BY <1>1, <2>1 DEF WorkerTakes, Shapes, OrderShapes, WireShapes, local
<1>2. ASSUME NEW job \in {worker[k] : k \in DOMAIN worker},
             DispatchSubmit(job) \/ DispatchEdit(job) \/ DispatchCancel(job)
             \/ DispatchQuery(job) \/ DispatchPosition(job) \/ DispatchTrades(job)
      PROVE  /\ Shapes'
             /\ \E j \in Asked, ref \in Nat, st \in Statuses : Answered(j, ref, st)
  <2>1. job \in Asked /\ Len(book) + 1 \in Nat
    BY DEF Shapes, OrderShapes, WireShapes
  <2>2. ASSUME NEW ref \in Nat, NEW st \in Statuses, Answered(job, ref, st)
        PROVE  /\ inbox' \in Seq(Answer) /\ worker' \in Seq(Asked)
               /\ UNCHANGED <<pending, limits, positions, results, sent, outbox>>
    <3>1. [kind |-> job.kind, id |-> job.id, type |-> job.type,
           action |-> job.action, ref |-> ref, status |-> st] \in Answer
      BY <2>1 DEF Asked, Answer
    <3> QED BY <2>2, <3>1 DEF Answered, Shapes, OrderShapes, WireShapes, local
  <2>3. ASSUME NEW ref \in Nat, NEW st \in Statuses, Acknowledged(job, ref, st)
        PROVE  \E r \in Nat, s \in Statuses : Answered(job, r, s)
    BY <2>1, <2>3 DEF Acknowledged, Asked, Statuses
  <2>4. Refused(job) => \E r \in Nat, s \in Statuses : Answered(job, r, s)
    BY <2>1 DEF Refused, Asked, Statuses
  <2>5. (\E r \in Nat, s \in Statuses : Answered(job, r, s)) /\ book' \in Seq(BookRecord)
    <3>1. CASE DispatchSubmit(job)
      <4>1. \A s \in {"open", "filled", "gone"} :
              [id |-> job.id, type |-> job.type, action |-> job.action, status |-> s,
               price |-> job.price] \in BookRecord
        BY <2>1 DEF Asked, BookRecord
      <4>2. book' \in Seq(BookRecord)
        <5>1. book \in Seq(BookRecord)
          BY DEF Shapes, OrderShapes, WireShapes
        <5>2. book' = book \/ \E x \in BookRecord : book' = Append(book, x)
          BY <3>1, <4>1 DEF DispatchSubmit, Refused
        <5> QED BY <5>1, <5>2
      <4>3. Refused(job) \/ Acknowledged(job, Len(book) + 1, "PENDING")
            \/ Acknowledged(job, Len(book) + 1, "FILLED")
        BY <3>1 DEF DispatchSubmit
      <4> QED BY <2>1, <2>3, <2>4, <4>2, <4>3 DEF Statuses
    <3>2. CASE DispatchEdit(job)
      <4>1. job.ref \in Nat /\ job.price \in Nat /\ book \in Seq(BookRecord)
        BY <2>1 DEF Asked, Shapes, OrderShapes, WireShapes
      <4>2. CASE IsOpen(job.ref) /\ Acknowledged(job, Len(book) + 1, "PENDING")
                 /\ book' = Append([book EXCEPT ![job.ref].status = "gone"],
                                   [book[job.ref] EXCEPT !.price = job.price])
        <5>1. [book EXCEPT ![job.ref].status = "gone"] \in Seq(BookRecord)
          BY <4>1, <4>2, BookShape DEF IsOpen
        <5>2. book[job.ref] \in BookRecord
          BY <4>1, <4>2 DEF IsOpen
        <5>3. [book[job.ref] EXCEPT !.price = job.price] \in BookRecord
          BY <4>1, <5>2 DEF BookRecord
        <5> QED BY <2>1, <2>3, <4>2, <5>1, <5>3 DEF Statuses
      <4>3. CASE IsOpen(job.ref) /\ Acknowledged(job, job.ref, "PENDING")
                 /\ book' = [book EXCEPT ![job.ref].price = job.price]
        <5>1. book' \in Seq(BookRecord)
          BY <4>1, <4>3, BookShape DEF IsOpen
        <5> QED BY <2>3, <4>1, <4>3, <5>1 DEF Statuses
      <4>4. CASE Refused(job)
        BY <2>4, <4>1, <4>4 DEF Refused
      <4> QED BY <3>2, <4>2, <4>3, <4>4 DEF DispatchEdit
    <3>3. CASE DispatchCancel(job)
      <4>1. job.ref \in Nat /\ book \in Seq(BookRecord)
        BY <2>1 DEF Asked, Shapes, OrderShapes, WireShapes
      <4>2. CASE IsOpen(job.ref) /\ Acknowledged(job, job.ref, "CANCELLED")
                 /\ book' = [book EXCEPT ![job.ref].status = "gone"]
        <5>1. book' \in Seq(BookRecord)
          BY <4>1, <4>2, BookShape DEF IsOpen
        <5> QED BY <2>3, <4>1, <4>2, <5>1 DEF Statuses
      <4>3. CASE Refused(job)
        BY <2>4, <4>1, <4>3 DEF Refused
      <4> QED BY <3>3, <4>2, <4>3 DEF DispatchCancel
    <3>4. CASE DispatchQuery(job) \/ DispatchPosition(job) \/ DispatchTrades(job)
      <4>1. job.ref \in Nat /\ QueryStatus(job.ref) \in Statuses
        BY <2>1 DEF Asked, QueryStatus, Statuses
      <4>2. book' = book
        BY <3>4 DEF DispatchQuery, DispatchPosition, DispatchTrades, Refused
      <4> QED BY <2>3, <2>4, <3>4, <4>1, <4>2
              DEF DispatchQuery, DispatchPosition, DispatchTrades, Statuses, Shapes, OrderShapes, WireShapes
    <3> QED BY <1>2, <3>1, <3>2, <3>3, <3>4
  <2> QED BY <2>1, <2>2, <2>5 DEF Shapes, OrderShapes, WireShapes
<1> QED BY <1>1, <1>2 DEF Worker, Dispatch

-----------------------------------------------------------------------------
(* The invariant *)

Final == Outcomes \ {"MODIFY_REJECTED"}

\* Submissions and answers of market orders and of closes, by order.
Submits(x, action) == x.kind = "submit" /\ x.type = "MARKET" /\ x.action = action
Submitted(q, action) == {q[k].id : k \in {j \in DOMAIN q : Submits(q[j], action)}}
Once(q) ==
  \A j, k \in DOMAIN q :
    Submits(q[j], "OPEN") /\ Submits(q[k], "OPEN") /\ q[j].id = q[k].id => j = k

\* The orders and closes with a submission or its answer on the way.
Underway(action) ==
  Submitted(outbox, action) \cup Submitted(worker, action) \cup Submitted(inbox, action)

\* A market order is submitted, or answered, at most once.
SubmittedOnce ==
  /\ Once(outbox) /\ Once(worker) /\ Once(inbox)
  /\ Submitted(outbox, "OPEN") \cap Submitted(worker, "OPEN") = {}
  /\ Submitted(outbox, "OPEN") \cap Submitted(inbox, "OPEN") = {}
  /\ Submitted(worker, "OPEN") \cap Submitted(inbox, "OPEN") = {}

\* A market order whose answer is due is tracked without a reference, and a
\* close under way is one of a filled order.
AnswersDue ==
  /\ SubmittedOnce
  /\ \A i \in Underway("OPEN") : i \in Opening /\ pending[i].ref = NoRef
  /\ \A i \in Underway("CLOSE") : Ends(i) # {}

\* What the loops over the tracked orders still have to visit is there.
Visits ==
  /\ phase = "poll" => \A i \in todo : i \in DOMAIN pending /\ pending[i].ref # NoRef
  /\ phase = "timeouts" => \A i \in todo : i \in DOMAIN pending /\ pending[i].late

\* An order that was not sent is nowhere.
Unsent ==
  \A i \in Ids : i > sent =>
    results[i] = <<>> /\ i \notin DOMAIN pending \cup DOMAIN limits \cup positions

\* A position is one of an order that was reported filled.
Held == \A i \in positions : Ends(i) # {} /\ Outcome(i) = "EXECUTED"

OrderInv == EndsOnce /\ Unsent /\ Held

LiveInv == Shapes /\ OrderInv /\ (InSession => AnswersDue /\ Visits)

-----------------------------------------------------------------------------
(* Queues *)

\* A job put at the end of a queue is the one more that was submitted.
LEMMA AppendSubmits ==
  ASSUME NEW S, NEW q \in Seq(S), NEW x, NEW action
  PROVE  Submitted(Append(q, x), action) =
           Submitted(q, action) \cup (IF Submits(x, action) THEN {x.id} ELSE {})
<1> DEFINE p == Append(q, x)
<1>1. /\ DOMAIN p = DOMAIN q \cup {Len(q) + 1} /\ p[Len(q) + 1] = x
      /\ \A k \in DOMAIN q : p[k] = q[k]
  OBVIOUS
<1> HIDE DEF p
<1>2. Submitted(p, action) = Submitted(q, action) \cup (IF Submits(x, action) THEN {x.id} ELSE {})
  BY <1>1 DEF Submitted
<1> QED BY <1>2 DEF p

LEMMA AppendOnce ==
  ASSUME NEW S, NEW q \in Seq(S), NEW x, Once(q),
         Submits(x, "OPEN") => x.id \notin Submitted(q, "OPEN")
  PROVE  Once(Append(q, x))
<1> DEFINE p == Append(q, x)
<1>1. /\ DOMAIN p = DOMAIN q \cup {Len(q) + 1} /\ p[Len(q) + 1] = x
      /\ \A k \in DOMAIN q : p[k] = q[k]
  OBVIOUS
<1> HIDE DEF p
<1>2. \A k \in DOMAIN q : Submits(q[k], "OPEN") => q[k].id \in Submitted(q, "OPEN")
  BY DEF Submitted
<1>3. Once(p)
  BY <1>1, <1>2 DEF Once
<1> QED BY <1>3 DEF p

\* The rest of a queue has what its head does not stand for.
LEMMA TailSubmits ==
  ASSUME NEW S, NEW q \in Seq(S), q # <<>>, NEW action
  PROVE  Submitted(q, action) =
           Submitted(Tail(q), action) \cup (IF Submits(Head(q), action) THEN {Head(q).id} ELSE {})
<1> DEFINE p == Tail(q)
<1>1. /\ DOMAIN p = 1..(Len(q) - 1) /\ Head(q) = q[1] /\ DOMAIN q = 1..Len(q)
      /\ \A k \in 1..(Len(q) - 1) : p[k] = q[k + 1]
      /\ Len(q) \in Nat /\ Len(q) >= 1
  OBVIOUS
<1> HIDE DEF p
<1>2. ASSUME NEW k \in DOMAIN q, k # 1 PROVE k - 1 \in DOMAIN p /\ p[k - 1] = q[k]
  BY <1>1, <1>2
<1>3. ASSUME NEW k \in DOMAIN p PROVE k + 1 \in DOMAIN q /\ p[k] = q[k + 1]
  BY <1>1, <1>3
<1>4. Submitted(p, action) \subseteq Submitted(q, action)
  BY <1>3 DEF Submitted
<1>5. Submits(Head(q), action) => Head(q).id \in Submitted(q, action)
  BY <1>1 DEF Submitted
<1>6. ASSUME NEW k \in DOMAIN q, Submits(q[k], action)
      PROVE  \/ q[k].id \in Submitted(p, action)
             \/ Submits(Head(q), action) /\ q[k].id = Head(q).id
  <2>1. CASE k = 1
    BY <1>1, <1>6, <2>1
  <2>2. CASE k # 1
    BY <1>2, <1>6, <2>2 DEF Submitted
  <2> QED BY <2>1, <2>2
<1>7. Submitted(q, action) \subseteq
        Submitted(p, action) \cup (IF Submits(Head(q), action) THEN {Head(q).id} ELSE {})
  BY <1>6 DEF Submitted
<1> QED BY <1>4, <1>5, <1>7 DEF p

LEMMA TailOnce ==
  ASSUME NEW S, NEW q \in Seq(S), q # <<>>, Once(q)
  PROVE  /\ Once(Tail(q))
         /\ Submits(Head(q), "OPEN") => Head(q).id \notin Submitted(Tail(q), "OPEN")
<1> DEFINE p == Tail(q)
<1>1. /\ DOMAIN p = 1..(Len(q) - 1) /\ Head(q) = q[1] /\ DOMAIN q = 1..Len(q)
      /\ \A k \in 1..(Len(q) - 1) : p[k] = q[k + 1]
      /\ Len(q) \in Nat /\ Len(q) >= 1
  OBVIOUS
<1> HIDE DEF p
<1>2. ASSUME NEW k \in DOMAIN p PROVE k + 1 \in DOMAIN q /\ p[k] = q[k + 1] /\ k + 1 # 1 /\ k \in Nat
  BY <1>1, <1>2
<1>3. Once(p)
  <2> SUFFICES ASSUME NEW j \in DOMAIN p, NEW k \in DOMAIN p,
                      Submits(p[j], "OPEN"), Submits(p[k], "OPEN"), p[j].id = p[k].id
               PROVE  j = k
    BY DEF Once
  <2>1. j + 1 = k + 1
    BY <1>2 DEF Once
  <2> QED BY <1>2, <2>1
<1>4. ASSUME Submits(Head(q), "OPEN"), NEW k \in DOMAIN p, Submits(p[k], "OPEN")
      PROVE  p[k].id # Head(q).id
  BY <1>1, <1>2, <1>4 DEF Once
<1> QED BY <1>3, <1>4 DEF p, Submitted

-----------------------------------------------------------------------------
(* Traffic that concerns no market order's submission *)

\* The main thread asks for nothing, or for something else than the
\* submission of a market order or a close.
Asks ==
  \/ outbox' = outbox
  \/ \E x \in Asked : ~(x.kind = "submit" /\ x.type = "MARKET") /\ outbox' = Append(outbox, x)

NothingNewSubmitted ==
  /\ SubmittedOnce'
  /\ Underway("OPEN")' \subseteq Underway("OPEN")
  /\ Underway("CLOSE")' \subseteq Underway("CLOSE")

LEMMA AskingOnly ==
  ASSUME WireShapes, Once(outbox), Asks
  PROVE  /\ Once(outbox')
         /\ \A action \in {"OPEN", "CLOSE"} : Submitted(outbox', action) = Submitted(outbox, action)
<1>1. outbox \in Seq(Asked)
  BY DEF WireShapes
<1>2. ASSUME NEW x \in Asked, ~(x.kind = "submit" /\ x.type = "MARKET")
      PROVE  \A action \in {"OPEN", "CLOSE"} : ~Submits(x, action)
  BY <1>2 DEF Submits
<1>3. ASSUME NEW x \in Asked, ~(x.kind = "submit" /\ x.type = "MARKET"),
             outbox' = Append(outbox, x)
      PROVE  /\ Once(outbox')
             /\ \A action \in {"OPEN", "CLOSE"} : Submitted(outbox', action) = Submitted(outbox, action)
  <2>1. Once(outbox')
    BY <1>1, <1>2, <1>3, AppendOnce
  <2>2. \A action : Submitted(outbox', action) =
          Submitted(outbox, action) \cup (IF Submits(x, action) THEN {x.id} ELSE {})
    BY <1>1, <1>3, AppendSubmits
  <2> QED BY <1>2, <1>3, <2>1, <2>2
<1> QED BY <1>3 DEF Asks

LEMMA AskingShape ==
  ASSUME WireShapes, Asks
  PROVE  outbox' \in Seq(Asked)
<1>1. outbox \in Seq(Asked)
  BY DEF WireShapes
<1>2. \A x \in Asked : Append(outbox, x) \in Seq(Asked)
  BY <1>1
<1> QED BY <1>1, <1>2 DEF Asks

LEMMA AskingKeeps ==
  ASSUME WireShapes, SubmittedOnce, Asks, UNCHANGED <<worker, inbox>>
  PROVE  NothingNewSubmitted
BY AskingOnly DEF SubmittedOnce, NothingNewSubmitted, Underway

\* An answer is taken out of the inbox.
LEMMA DrainingKeeps ==
  ASSUME WireShapes, SubmittedOnce, inbox # <<>>, inbox' = Tail(inbox), Asks, UNCHANGED worker
  PROVE  /\ NothingNewSubmitted
         /\ Submits(Head(inbox), "OPEN") => Head(inbox).id \notin Underway("OPEN")'
<1>1. inbox \in Seq(Answer)
  BY DEF WireShapes
<1>2. \A action : Submitted(inbox, action) =
        Submitted(inbox', action)
          \cup (IF Submits(Head(inbox), action) THEN {Head(inbox).id} ELSE {})
  BY <1>1, TailSubmits
<1>3. /\ Once(inbox')
      /\ Submits(Head(inbox), "OPEN") => Head(inbox).id \notin Submitted(inbox', "OPEN")
  BY <1>1, TailOnce DEF SubmittedOnce
<1>4. Submits(Head(inbox), "OPEN") => Head(inbox).id \in Submitted(inbox, "OPEN")
  BY <1>2
<1>5. /\ Submitted(inbox', "OPEN") \subseteq Submitted(inbox, "OPEN")
      /\ Submitted(inbox', "CLOSE") \subseteq Submitted(inbox, "CLOSE")
  BY <1>2
<1>6. Once(outbox') /\ \A action \in {"OPEN", "CLOSE"} :
        Submitted(outbox', action) = Submitted(outbox, action)
  BY AskingOnly DEF SubmittedOnce
<1> QED BY <1>3, <1>4, <1>5, <1>6 DEF SubmittedOnce, NothingNewSubmitted, Underway

\* The worker only passes on what was submitted.
LEMMA WorkerKeeps ==
  ASSUME Shapes, SubmittedOnce, Worker
  PROVE  NothingNewSubmitted
<1>1. /\ outbox \in Seq(Asked) /\ inbox \in Seq(Answer)
      /\ \A action : Submitted(<<>>, action) = {}
      /\ Once(<<>>)
  BY DEF Shapes, WireShapes, Submitted, Once
<1>2. ASSUME NEW x \in Asked
      PROVE  /\ Once(<<x>>)
             /\ \A action : Submitted(<<x>>, action) = IF Submits(x, action) THEN {x.id} ELSE {}
  <2> DEFINE q == <<x>>
  <2>1. DOMAIN q = {1} /\ q[1] = x
    OBVIOUS
  <2> HIDE DEF q
  <2>2. Once(q) /\ \A action : Submitted(q, action) = IF Submits(x, action) THEN {x.id} ELSE {}
    BY <2>1 DEF Submitted, Once
  <2> QED BY <2>2 DEF q
<1>3. CASE WorkerTakes
  <2>1. outbox # <<>> /\ worker = <<>> /\ worker' = <<Head(outbox)>> /\ outbox' = Tail(outbox)
        /\ inbox' = inbox /\ Head(outbox) \in Asked
    BY <1>1, <1>3 DEF WorkerTakes
  <2>2. \A action : Submitted(outbox, action) =
          Submitted(outbox', action)
            \cup (IF Submits(Head(outbox), action) THEN {Head(outbox).id} ELSE {})
    BY <1>1, <2>1, TailSubmits
  <2>3. /\ Once(outbox')
        /\ Submits(Head(outbox), "OPEN") => Head(outbox).id \notin Submitted(outbox', "OPEN")
    BY <1>1, <2>1, TailOnce DEF SubmittedOnce
  <2>4. Once(worker') /\ \A action :
          Submitted(worker', action) = IF Submits(Head(outbox), action) THEN {Head(outbox).id} ELSE {}
    BY <1>2, <2>1
  <2>5. \A action : Submitted(worker, action) = {}
    BY <1>1, <2>1
  <2>6. \A action : Submitted(outbox, action) = Submitted(outbox', action) \cup Submitted(worker', action)
    BY <2>2, <2>4
  <2>7. Submitted(outbox', "OPEN") \cap Submitted(worker', "OPEN") = {}
    BY <2>3, <2>4
  <2> QED BY <2>1, <2>3, <2>4, <2>5, <2>6, <2>7 DEF SubmittedOnce, NothingNewSubmitted, Underway
<1>4. ASSUME NEW job \in Asked, NEW ref \in Nat, NEW st \in Statuses, Answered(job, ref, st)
      PROVE  NothingNewSubmitted
  <2> DEFINE m == [kind |-> job.kind, id |-> job.id, type |-> job.type,
                   action |-> job.action, ref |-> ref, status |-> st]
  <2>1. worker = <<job>> /\ worker' = <<>> /\ inbox' = Append(inbox, m) /\ outbox' = outbox
    BY <1>4 DEF Answered
  <2>2. m.id = job.id /\ \A action : Submits(m, action) <=> Submits(job, action)
    BY DEF Submits
  <2> HIDE DEF m
  <2>3. Once(worker) /\ \A action :
          Submitted(worker, action) = IF Submits(m, action) THEN {m.id} ELSE {}
    BY <1>2, <2>1, <2>2
  <2>4. \A action : Submitted(inbox', action) =
          Submitted(inbox, action) \cup (IF Submits(m, action) THEN {m.id} ELSE {})
    BY <1>1, <2>1, AppendSubmits
  <2>5. Submits(m, "OPEN") => m.id \notin Submitted(inbox, "OPEN")
    BY <2>3 DEF SubmittedOnce
  <2>6. Once(inbox')
    BY <1>1, <2>1, <2>5, AppendOnce DEF SubmittedOnce
  <2>7. Once(worker') /\ \A action : Submitted(worker', action) = {}
    BY <1>1, <2>1
  <2>8. \A action : Submitted(inbox', action) = Submitted(inbox, action) \cup Submitted(worker, action)
    BY <2>3, <2>4
  <2> QED BY <2>1, <2>6, <2>7, <2>8 DEF SubmittedOnce, NothingNewSubmitted, Underway
<1> QED BY <1>3, <1>4, WorkerShapes

-----------------------------------------------------------------------------
(* Histories *)

\* The history of an order says the same about its end.
SameEnds(i) == Ends(i)' = Ends(i) /\ (Ends(i) # {} => Outcome(i)' = Outcome(i))

\* A refused modification ends nothing; another outcome ends an order that
\* had not ended.
LEMMA Ending ==
  ASSUME NEW i \in Ids, NEW o, results[i] \in Seq(Outcomes), results'[i] = Append(results[i], o)
  PROVE  /\ o = "MODIFY_REJECTED" => SameEnds(i)
         /\ o # "MODIFY_REJECTED" /\ Ends(i) = {} =>
              /\ Ends(i)' # {} /\ Outcome(i)' = o
              /\ \A j, k \in Ends(i)' : j = k
<1> DEFINE n == Len(results[i]) + 1
<1>3. /\ DOMAIN results'[i] = DOMAIN results[i] \cup {n} /\ n \notin DOMAIN results[i]
      /\ results'[i][n] = o /\ \A k \in DOMAIN results[i] : results'[i][k] = results[i][k]
  OBVIOUS
<1> HIDE DEF n
<1>4. Ends(i)' = {k \in DOMAIN results'[i] : results'[i][k] # "MODIFY_REJECTED"}
  BY DEF Ends
<1>5. CASE o = "MODIFY_REJECTED"
  <2>1. Ends(i)' = Ends(i)
    BY <1>3, <1>4, <1>5 DEF Ends
  <2>2. ASSUME Ends(i) # {} PROVE Outcome(i)' = Outcome(i)
    <3>1. PICK k \in Ends(i) : k = CHOOSE x \in Ends(i) : TRUE
      BY <2>2
    <3>2. results'[i][k] = results[i][k]
      BY <1>3, <3>1 DEF Ends
    <3> QED BY <2>1, <3>1, <3>2 DEF Outcome
  <2> QED BY <1>5, <2>1, <2>2 DEF SameEnds
<1>6. CASE o # "MODIFY_REJECTED" /\ Ends(i) = {}
  <2>1. Ends(i)' = {n}
    BY <1>3, <1>4, <1>6 DEF Ends
  <2>2. Outcome(i)' = results'[i][n]
    BY <2>1 DEF Outcome
  <2> QED BY <1>3, <1>6, <2>1, <2>2
<1> QED BY <1>5, <1>6

\* A report is about one order.
LEMMA Reporting ==
  ASSUME OrderShapes, NEW i \in Ids, NEW o \in Outcomes, Report(i, o)
  PROVE  /\ \A j \in Ids \ {i} : results'[j] = results[j]
         /\ o = "MODIFY_REJECTED" => SameEnds(i)
         /\ o # "MODIFY_REJECTED" /\ Ends(i) = {} =>
              /\ Ends(i)' # {} /\ Outcome(i)' = o
              /\ \A j, k \in Ends(i)' : j = k
<1>1. /\ results[i] \in Seq(Outcomes) /\ results'[i] = Append(results[i], o)
      /\ \A j \in Ids \ {i} : results'[j] = results[j]
  BY DEF OrderShapes, Report
<1> QED BY <1>1, Ending

\* An order whose history is left alone.
LEMMA Unreported ==
  ASSUME NEW i \in Ids, results'[i] = results[i]
  PROVE  SameEnds(i)
BY DEF SameEnds, Ends, Outcome

-----------------------------------------------------------------------------
(* What a step of a running session may do to the orders *)

\* No order is decided: positions may close or be asked to, and a refused
\* modification may be reported.
Keeps ==
  /\ Opening' = Opening /\ DOMAIN limits' = DOMAIN limits
  /\ DOMAIN pending' \subseteq DOMAIN pending \cup positions
  /\ positions' \subseteq positions /\ UNCHANGED sent
  /\ UNCHANGED results \/ \E i \in DOMAIN limits : Report(i, "MODIFY_REJECTED")

\* One tracked order is decided, reported and tracked no longer.
Decides(i, o) ==
  /\ i \in Opening \cup DOMAIN limits
  /\ Report(i, o)
  /\ i \in Opening => o \in {"EXECUTED", "NO_FUNDS", "REJECTED"}
  /\ i \in DOMAIN limits => o \in {"EXECUTED", "NO_FUNDS", "REJECTED", "CANCELLED"}
  /\ positions' = IF o = "EXECUTED" THEN positions \cup {i} ELSE positions
  /\ Opening' = Opening \ {i} /\ DOMAIN limits' = DOMAIN limits \ {i}
  /\ DOMAIN pending' \subseteq DOMAIN pending /\ UNCHANGED sent

LEMMA KeepsEnds ==
  ASSUME OrderShapes, Keeps, NEW i \in Ids
  PROVE  SameEnds(i)
<1>1. CASE UNCHANGED results
  BY <1>1, Unreported
<1>2. ASSUME NEW j \in DOMAIN limits, Report(j, "MODIFY_REJECTED")
      PROVE  SameEnds(i)
  <2>1. j \in Ids /\ "MODIFY_REJECTED" \in Outcomes
    BY DEF OrderShapes, Outcomes
  <2>2. \A k \in Ids \ {j} : results'[k] = results[k]
    BY <1>2, <2>1, Reporting
  <2>3. SameEnds(j)
    BY <1>2, <2>1, Reporting
  <2> QED BY <2>2, <2>3, Unreported
<1> QED BY <1>1, <1>2 DEF Keeps

LEMMA KeepsOrders ==
  ASSUME OrderShapes, OrderInv, Keeps, InSession' => InSession
  PROVE  OrderInv'
<1>1. \A i \in Ids : Ends(i)' = Ends(i) /\ (Ends(i) # {} => Outcome(i)' = Outcome(i))
  BY KeepsEnds DEF SameEnds
<1>2. EndsOnce'
  <2>1. \A i \in Ids : \A j, k \in Ends(i)' : j = k
    BY <1>1 DEF OrderInv, EndsOnce
  <2>2. 1..sent \subseteq Ids
    BY LiveAssumption DEF OrderShapes, Ids
  <2>3. InSession' =>
          /\ Opening' \cap DOMAIN limits' = {}
          /\ (Opening' \cup DOMAIN limits') \cap positions' = {}
          /\ \A i \in 1..sent : Ends(i)' = {} <=> i \in Opening' \cup DOMAIN limits'
    BY <1>1, <2>2 DEF OrderInv, EndsOnce, Keeps
  <2>4. sent' = sent
    BY DEF Keeps
  <2> QED BY <2>1, <2>3, <2>4 DEF EndsOnce
<1>3. Unsent'
  <2> SUFFICES ASSUME NEW i \in Ids, i > sent
               PROVE  /\ results'[i] = <<>>
                      /\ i \notin DOMAIN pending' \cup DOMAIN limits' \cup positions'
    BY DEF Unsent, Keeps
  <2>1. results[i] = <<>> /\ i \notin DOMAIN pending \cup DOMAIN limits \cup positions
    BY DEF OrderInv, Unsent
  <2>2. i \notin DOMAIN pending' \cup DOMAIN limits' \cup positions'
    BY <2>1 DEF Keeps
  <2>3. results'[i] = results[i]
    BY <2>1 DEF Keeps, Report, OrderShapes
  <2> QED BY <2>1, <2>2, <2>3
<1>4. Held'
  BY <1>1 DEF Held, OrderInv, Keeps, OrderShapes
<1> QED BY <1>2, <1>3, <1>4 DEF OrderInv

\* An order whose end is decided had none, and all others are left alone.
LEMMA DecidesEnds ==
  ASSUME OrderShapes, OrderInv, InSession, NEW i, NEW o \in Final, Decides(i, o)
  PROVE  /\ i \in Ids /\ i <= sent /\ Ends(i) = {}
         /\ Ends(i)' # {} /\ Outcome(i)' = o /\ \A j, k \in Ends(i)' : j = k
         /\ \A j \in Ids \ {i} : results'[j] = results[j] /\ SameEnds(j)
<1>1. i \in Ids /\ i \in DOMAIN pending \cup DOMAIN limits /\ sent \in Nat
  BY DEF Decides, OrderShapes, Opening
<1>2. i <= sent
  BY <1>1 DEF OrderInv, Unsent, Ids
<1>3. i \in 1..sent
  BY <1>1, <1>2 DEF Ids
<1>4. Ends(i) = {}
  BY <1>3 DEF OrderInv, EndsOnce, Decides
<1>5. o \in Outcomes /\ o # "MODIFY_REJECTED" /\ Report(i, o)
  BY DEF Final, Decides
<1>6. /\ Ends(i)' # {} /\ Outcome(i)' = o /\ \A j, k \in Ends(i)' : j = k
      /\ \A j \in Ids \ {i} : results'[j] = results[j]
  BY <1>1, <1>4, <1>5, Reporting
<1>7. \A j \in Ids \ {i} : SameEnds(j)
  BY <1>6, Unreported
<1> QED BY <1>1, <1>2, <1>4, <1>6, <1>7

LEMMA DecidesOrders ==
  ASSUME OrderShapes, OrderInv, InSession, NEW i, NEW o \in Final, Decides(i, o)
  PROVE  OrderInv'
<1>1. /\ i \in Ids /\ i <= sent /\ Ends(i) = {}
      /\ Ends(i)' # {} /\ Outcome(i)' = o /\ \A j, k \in Ends(i)' : j = k
      /\ \A j \in Ids \ {i} : results'[j] = results[j]
  BY DecidesEnds
<1>2. \A j \in Ids \ {i} : Ends(j)' = Ends(j) /\ (Ends(j) # {} => Outcome(j)' = Outcome(j))
  BY DecidesEnds DEF SameEnds
<1>3. EndsOnce'
  <2>1. \A n \in Ids : \A j, k \in Ends(n)' : j = k
    BY <1>1, <1>2 DEF OrderInv, EndsOnce
  <2>2. 1..sent \subseteq Ids
    BY LiveAssumption DEF OrderShapes, Ids
  <2>3. /\ Opening' \cap DOMAIN limits' = {}
        /\ (Opening' \cup DOMAIN limits') \cap positions' = {}
    BY DEF OrderInv, EndsOnce, Decides
  <2>4. \A n \in 1..sent : Ends(n)' = {} <=> n \in Opening' \cup DOMAIN limits'
    BY <1>1, <1>2, <2>2 DEF OrderInv, EndsOnce, Decides
  <2>5. sent' = sent
    BY DEF Decides
  <2> QED BY <2>1, <2>3, <2>4, <2>5 DEF EndsOnce
<1>4. Unsent'
  <2> SUFFICES ASSUME NEW j \in Ids, j > sent
               PROVE  /\ results'[j] = <<>>
                      /\ j \notin DOMAIN pending' \cup DOMAIN limits' \cup positions'
    BY DEF Unsent, Decides
  <2>1. results[j] = <<>> /\ j \notin DOMAIN pending \cup DOMAIN limits \cup positions
    BY DEF OrderInv, Unsent
  <2>2. j # i
    BY <1>1 DEF OrderShapes, Ids
  <2>3. j \notin DOMAIN pending' \cup DOMAIN limits' \cup positions'
    BY <2>1, <2>2 DEF Decides
  <2> QED BY <1>1, <2>1, <2>2, <2>3
<1>5. Held'
  <2> SUFFICES ASSUME NEW j \in positions' PROVE Ends(j)' # {} /\ Outcome(j)' = "EXECUTED"
    BY DEF Held
  <2>1. CASE j = i /\ o = "EXECUTED"
    BY <1>1, <2>1
  <2>2. CASE j \in positions
    <3>1. i \notin positions /\ j \in Ids /\ Ends(j) # {} /\ Outcome(j) = "EXECUTED"
      BY <2>2 DEF OrderInv, EndsOnce, Decides, Held, OrderShapes
    <3> QED BY <1>2, <2>2, <3>1
  <2> QED BY <2>1, <2>2 DEF Decides
<1> QED BY <1>3, <1>4, <1>5 DEF OrderInv

-----------------------------------------------------------------------------
(* What such a step does to the mapped state *)

\* Where an order stands, and its size there.
Standing(unsent, ended, resting, open, outcome) ==
  IF unsent THEN "unsent"
  ELSE IF ~ended THEN IF resting THEN "working" ELSE "inflight"
  ELSE IF outcome = "EXECUTED" THEN IF open THEN "open" ELSE "closed"
  ELSE IF outcome = "NO_FUNDS" THEN "REJECTED" ELSE outcome

SizeAt(standing) == IF standing \in {"inflight", "working", "open"} THEN 1 ELSE 0

\* The mapping, read off for one order before and after a step.
LEMMA MappedOrder ==
  ASSUME NEW i \in Nat, i \in Ids, sent \in Nat, sent' \in Nat
  PROVE  /\ status[i] =
              Standing(i > sent, Ends(i) # {}, i \in DOMAIN limits, i \in positions, Outcome(i))
         /\ status'[i] =
              Standing(i > sent', Ends(i)' # {}, i \in DOMAIN limits', i \in positions', Outcome(i)')
         /\ size[i] = SizeAt(status[i]) /\ size'[i] = SizeAt(status'[i])
<1>1. /\ status[i] = CASE i > sent -> "unsent"
                        [] i <= sent /\ Ends(i) = {} ->
                             IF i \in DOMAIN limits THEN "working" ELSE "inflight"
                        [] OTHER -> CASE Outcome(i) = "EXECUTED" ->
                                             IF i \in positions THEN "open" ELSE "closed"
                                      [] Outcome(i) = "NO_FUNDS" -> "REJECTED"
                                      [] OTHER -> Outcome(i)
      /\ size[i] = SizeAt(status[i])
  BY DEF status, size, SizeAt
<1>2. /\ status'[i] = CASE i > sent' -> "unsent"
                         [] i <= sent' /\ Ends(i)' = {} ->
                              IF i \in DOMAIN limits' THEN "working" ELSE "inflight"
                         [] OTHER -> CASE Outcome(i)' = "EXECUTED" ->
                                              IF i \in positions' THEN "open" ELSE "closed"
                                       [] Outcome(i)' = "NO_FUNDS" -> "REJECTED"
                                       [] OTHER -> Outcome(i)'
      /\ size'[i] = SizeAt(status'[i])
  BY DEF status, size, SizeAt
<1> QED BY <1>1, <1>2 DEF Standing

\* An order that a step leaves where it is, and one whose position closes.
LEMMA LeftAlone ==
  ASSUME NEW i \in Nat, i \in Ids, UNCHANGED sent, SameEnds(i),
         i \in DOMAIN limits' <=> i \in DOMAIN limits,
         i \in positions' => i \in positions,
         sent \in Nat
  PROVE  Lifecycle!Moves(status[i], size[i], status'[i], size'[i])
<1>1. /\ status[i] =
           Standing(i > sent, Ends(i) # {}, i \in DOMAIN limits, i \in positions, Outcome(i))
      /\ status'[i] =
           Standing(i > sent', Ends(i)' # {}, i \in DOMAIN limits', i \in positions', Outcome(i)')
      /\ size[i] = SizeAt(status[i]) /\ size'[i] = SizeAt(status'[i])
  BY MappedOrder
<1> HIDE DEF status, size
<1>2. CASE ~(i > sent) /\ Ends(i) # {} /\ Outcome(i) = "EXECUTED"
           /\ i \in positions /\ i \notin positions'
  <2>1. status[i] = "open" /\ status'[i] = "closed"
    BY <1>1, <1>2 DEF SameEnds, Standing
  <2>2. size[i] = 1 /\ size'[i] = 0
    BY <1>1, <2>1 DEF SizeAt
  <2> QED BY <2>1, <2>2 DEF Lifecycle!Moves, Lifecycle!Close
<1>3. CASE ~(/\ ~(i > sent) /\ Ends(i) # {} /\ Outcome(i) = "EXECUTED"
             /\ i \in positions /\ i \notin positions')
  <2>1. status'[i] = status[i]
    BY <1>1, <1>3 DEF SameEnds, Standing
  <2> QED BY <1>1, <2>1 DEF Lifecycle!Moves
<1> QED BY <1>2, <1>3

LEMMA KeepsMoves ==
  ASSUME OrderShapes, Keeps
  PROVE  Lifecycle!Next
<1> SUFFICES ASSUME NEW i \in Ids
             PROVE  Lifecycle!Moves(status[i], size[i], status'[i], size'[i])
  BY DEF Lifecycle!Next
<1>1. SameEnds(i)
  BY KeepsEnds
<1>2. sent \in Nat /\ i \in Nat
  BY DEF OrderShapes, Ids
<1> QED BY <1>1, <1>2, LeftAlone DEF Keeps

LEMMA DecidesMoves ==
  ASSUME OrderShapes, OrderInv, InSession, NEW n, NEW o \in Final, Decides(n, o)
  PROVE  Lifecycle!Next
<1> SUFFICES ASSUME NEW i \in Ids
             PROVE  Lifecycle!Moves(status[i], size[i], status'[i], size'[i])
  BY DEF Lifecycle!Next
<1>1. /\ n \in Ids /\ n <= sent /\ Ends(n) = {}
      /\ Ends(n)' # {} /\ Outcome(n)' = o
      /\ \A j \in Ids \ {n} : SameEnds(j)
  BY DecidesEnds
<1>2. sent \in Nat /\ i \in Nat /\ n \in Nat /\ sent' = sent /\ ~(n > sent) /\ ~(n > sent')
  BY <1>1 DEF OrderShapes, Ids, Decides
<1>3. CASE i # n
  <2>1. /\ i \in DOMAIN limits' <=> i \in DOMAIN limits
        /\ i \in positions' => i \in positions
    BY <1>3 DEF Decides
  <2> QED BY <1>1, <1>2, <1>3, <2>1, LeftAlone
<1>4. CASE i = n
  <2> HIDE DEF status, size
  <2>1. /\ status[n] =
             Standing(n > sent, Ends(n) # {}, n \in DOMAIN limits, n \in positions, Outcome(n))
        /\ status'[n] =
             Standing(n > sent', Ends(n)' # {}, n \in DOMAIN limits', n \in positions', Outcome(n)')
        /\ size[n] = SizeAt(status[n]) /\ size'[n] = SizeAt(status'[n])
    BY <1>1, <1>2, MappedOrder
  <2>2. /\ status[n] = IF n \in DOMAIN limits THEN "working" ELSE "inflight"
        /\ o = "EXECUTED" => status'[n] = "open"
        /\ o = "NO_FUNDS" => status'[n] = "REJECTED"
        /\ o \in {"REJECTED", "CANCELLED"} => status'[n] = o
    BY <1>1, <1>2, <2>1 DEF Standing, Decides
  <2>3. /\ o \in {"EXECUTED", "NO_FUNDS", "REJECTED", "CANCELLED"}
        /\ o = "CANCELLED" => n \in DOMAIN limits
    BY DEF Decides, OrderInv, EndsOnce
  <2>4. size[n] = 1 /\ size'[n] = IF o = "EXECUTED" THEN 1 ELSE 0
    BY <2>1, <2>2, <2>3 DEF SizeAt
  <2> QED BY <1>4, <2>2, <2>3, <2>4
          DEF Lifecycle!Moves, Lifecycle!Fill, Lifecycle!Refuse, Lifecycle!Live, Lifecycle!Refused
<1> QED BY <1>3, <1>4

-----------------------------------------------------------------------------
(* A new order *)

\* A new order is tracked, as a market or as a limit order, or refused.
Enters(id) ==
  /\ id = sent + 1 /\ id \in Ids /\ sent' = id /\ UNCHANGED positions
  /\ \/ /\ Opening' = Opening \cup {id} /\ DOMAIN pending' = DOMAIN pending \cup {id}
        /\ DOMAIN limits' = DOMAIN limits /\ UNCHANGED results
     \/ /\ DOMAIN limits' = DOMAIN limits \cup {id}
        /\ Opening' = Opening /\ DOMAIN pending' = DOMAIN pending /\ UNCHANGED results
     \/ /\ Report(id, "REJECTED")
        /\ Opening' = Opening /\ DOMAIN pending' = DOMAIN pending /\ DOMAIN limits' = DOMAIN limits

\* What became of the new order, and that nothing happened to the others.
LEMMA EntersEnds ==
  ASSUME OrderShapes, OrderInv, NEW id, Enters(id)
  PROVE  /\ results[id] = <<>> /\ Ends(id) = {}
         /\ id \notin DOMAIN pending \cup DOMAIN limits \cup positions
         /\ \A j \in Ids \ {id} : results'[j] = results[j] /\ SameEnds(j)
         /\ \/ Ends(id)' = {} /\ id \in Opening' /\ id \notin DOMAIN limits'
            \/ Ends(id)' = {} /\ id \notin Opening' /\ id \in DOMAIN limits'
            \/ /\ Ends(id)' # {} /\ Outcome(id)' = "REJECTED"
               /\ \A j, k \in Ends(id)' : j = k
               /\ id \notin Opening' /\ id \notin DOMAIN limits'
<1>1. id \in Ids /\ id > sent
  BY DEF Enters, OrderShapes
<1>2. results[id] = <<>> /\ id \notin DOMAIN pending \cup DOMAIN limits \cup positions
  BY <1>1 DEF OrderInv, Unsent
<1>3. Ends(id) = {} /\ id \notin Opening
  BY <1>2 DEF Ends, Opening
<1>4. CASE /\ UNCHANGED results
           /\ \/ Opening' = Opening \cup {id} /\ DOMAIN limits' = DOMAIN limits
              \/ DOMAIN limits' = DOMAIN limits \cup {id} /\ Opening' = Opening
  <2>1. \A j \in Ids : SameEnds(j)
    BY <1>4, Unreported
  <2>2. Ends(id)' = {}
    BY <1>1, <1>3, <2>1 DEF SameEnds
  <2>3. \/ id \in Opening' /\ id \notin DOMAIN limits'
        \/ id \notin Opening' /\ id \in DOMAIN limits'
    BY <1>2, <1>3, <1>4
  <2> QED BY <1>2, <1>3, <1>4, <2>1, <2>2, <2>3
<1>5. CASE /\ Report(id, "REJECTED") /\ Opening' = Opening /\ DOMAIN pending' = DOMAIN pending
           /\ DOMAIN limits' = DOMAIN limits
  <2>1. "REJECTED" \in Outcomes
    BY DEF Outcomes
  <2>2. /\ Ends(id)' # {} /\ Outcome(id)' = "REJECTED" /\ \A j, k \in Ends(id)' : j = k
        /\ \A j \in Ids \ {id} : results'[j] = results[j]
    BY <1>1, <1>3, <1>5, <2>1, Reporting
  <2> QED BY <1>2, <1>3, <1>5, <2>2, Unreported
<1> QED BY <1>4, <1>5 DEF Enters

LEMMA EntersOrders ==
  ASSUME OrderShapes, OrderInv, InSession, NEW id, Enters(id)
  PROVE  OrderInv'
<1>1. /\ id = sent + 1 /\ id \in Ids /\ sent \in Nat /\ sent' = id /\ positions' = positions
      /\ Ids \subseteq Nat /\ positions \subseteq Ids
  BY DEF Enters, OrderShapes, Ids
<1>2. /\ Ends(id) = {} /\ id \notin DOMAIN pending \cup DOMAIN limits \cup positions
      /\ \A j \in Ids \ {id} : results'[j] = results[j]
      /\ \/ Ends(id)' = {} /\ id \in Opening' /\ id \notin DOMAIN limits'
         \/ Ends(id)' = {} /\ id \notin Opening' /\ id \in DOMAIN limits'
         \/ /\ Ends(id)' # {} /\ \A j, k \in Ends(id)' : j = k
            /\ id \notin Opening' /\ id \notin DOMAIN limits'
  BY EntersEnds
<1>3. \A j \in Ids \ {id} : Ends(j)' = Ends(j) /\ (Ends(j) # {} => Outcome(j)' = Outcome(j))
  BY EntersEnds DEF SameEnds
<1>4. /\ Opening' \ {id} = Opening /\ DOMAIN limits' \ {id} = DOMAIN limits
      /\ DOMAIN pending' \ {id} = DOMAIN pending
  BY SMTT(30), ZenonT(60), <1>2 DEF Enters, Opening
<1>5. EndsOnce'
  <2>1. \A n \in Ids : \A j, k \in Ends(n)' : j = k
    BY <1>2, <1>3 DEF OrderInv, EndsOnce
  <2>2. /\ Opening' \cap DOMAIN limits' = {}
        /\ (Opening' \cup DOMAIN limits') \cap positions' = {}
    BY <1>1, <1>2, <1>4 DEF OrderInv, EndsOnce
  <2>3. ASSUME NEW n \in 1..sent'
        PROVE  Ends(n)' = {} <=> n \in Opening' \cup DOMAIN limits'
    <3>1. CASE n = id
      BY <1>2, <3>1
    <3>2. CASE n # id
      <4>1. n \in 1..sent /\ n \in Ids
        <5>1. n \in Nat /\ 1 <= n /\ n <= sent + 1 /\ n # sent + 1
          BY <1>1, <3>2
        <5>2. sent + 1 <= MaxOrders /\ MaxOrders \in Nat
          BY <1>1, LiveAssumption DEF Ids
        <5> QED BY <1>1, <5>1, <5>2 DEF Ids
      <4>2. Ends(n) = {} <=> n \in Opening \cup DOMAIN limits
        BY <4>1 DEF OrderInv, EndsOnce
      <4> QED BY <1>3, <1>4, <3>2, <4>1, <4>2
    <3> QED BY <3>1, <3>2
  <2> QED BY <2>1, <2>2, <2>3 DEF EndsOnce
<1>6. Unsent'
  <2> SUFFICES ASSUME NEW i \in Ids, i > sent'
               PROVE  /\ results'[i] = <<>>
                      /\ i \notin DOMAIN pending' \cup DOMAIN limits' \cup positions'
    BY DEF Unsent
  <2>1. i > sent /\ i # id
    BY <1>1
  <2>2. results[i] = <<>> /\ i \notin DOMAIN pending \cup DOMAIN limits \cup positions
    BY <2>1 DEF OrderInv, Unsent
  <2> QED BY <1>1, <1>2, <1>4, <2>1, <2>2
<1>7. Held'
  BY <1>1, <1>2, <1>3 DEF Held, OrderInv
<1> QED BY <1>5, <1>6, <1>7 DEF OrderInv

LEMMA EntersMoves ==
  ASSUME OrderShapes, OrderInv, InSession, NEW id, Enters(id)
  PROVE  Lifecycle!Next
<1> SUFFICES ASSUME NEW i \in Ids
             PROVE  Lifecycle!Moves(status[i], size[i], status'[i], size'[i])
  BY DEF Lifecycle!Next
<1>1. /\ id = sent + 1 /\ id \in Ids /\ sent \in Nat /\ sent' = id /\ positions' = positions
      /\ i \in Nat
  BY DEF Enters, OrderShapes, Ids
<1>2. /\ id \notin DOMAIN limits
      /\ \A j \in Ids \ {id} : SameEnds(j)
      /\ \/ Ends(id)' = {}
         \/ Ends(id)' # {} /\ Outcome(id)' = "REJECTED"
  BY EntersEnds
<1>3. /\ status[i] =
           Standing(i > sent, Ends(i) # {}, i \in DOMAIN limits, i \in positions, Outcome(i))
      /\ status'[i] =
           Standing(i > sent', Ends(i)' # {}, i \in DOMAIN limits', i \in positions', Outcome(i)')
      /\ size[i] = SizeAt(status[i]) /\ size'[i] = SizeAt(status'[i])
  BY <1>1, MappedOrder
<1> HIDE DEF status, size
<1>4. CASE i = id
  <2>1. status[i] = "unsent" /\ status'[i] \in {"working", "inflight", "REJECTED"}
    BY <1>1, <1>2, <1>3, <1>4 DEF Standing
  <2>2. size[i] = 0 /\ size'[i] = IF status'[i] = "REJECTED" THEN 0 ELSE 1
    BY <1>3, <2>1 DEF SizeAt
  <2> QED BY <2>1, <2>2 DEF Lifecycle!Moves, Lifecycle!Submit, Lifecycle!Refuse,
                           Lifecycle!Live, Lifecycle!Refused
<1>5. CASE i # id
  <2>1. /\ (i > sent') = (i > sent)
        /\ i \in DOMAIN limits' <=> i \in DOMAIN limits
    BY <1>1, <1>5 DEF Enters
  <2>2. status'[i] = status[i]
    BY <1>1, <1>2, <1>3, <1>5, <2>1 DEF Standing, SameEnds
  <2> QED BY <1>3, <2>2 DEF Lifecycle!Moves
<1> QED BY <1>4, <1>5

-----------------------------------------------------------------------------
(* The end of the session *)

\* A synchronous cancel keeps the broker's book well-formed.
LEMMA CancelSyncShape ==
  ASSUME book \in Seq(BookRecord), NEW refs, CancelSync(refs)
  PROVE  book' \in Seq(BookRecord)
<1>1. PICK done : book' = [r \in DOMAIN book |->
                  IF r \in done THEN [book[r] EXCEPT !.status = "gone"] ELSE book[r]]
  BY DEF CancelSync
<1>2. /\ DOMAIN book' = 1..Len(book) /\ Len(book) \in Nat
      /\ \A r \in 1..Len(book) : book[r] \in BookRecord
  BY <1>1
<1>3. \A x \in BookRecord : [x EXCEPT !.status = "gone"] \in BookRecord
  BY DEF BookRecord
<1>4. \A r \in 1..Len(book) : book'[r] \in BookRecord
  BY <1>1, <1>2, <1>3
<1>5. book' \in [1..Len(book) -> BookRecord]
  BY <1>1, <1>2, <1>4
<1> QED BY <1>2, <1>5

\* What the end of the session makes of every order.
LEMMA ClosingEnds ==
  ASSUME OrderShapes, OrderInv, CloseAllRemainingOrders, NEW i \in Ids
  PROVE  /\ i \in DOMAIN limits =>
              Ends(i) = {} /\ Ends(i)' # {} /\ Outcome(i)' = "EXPIRED"
         /\ i \in Opening =>
              /\ Ends(i) = {} /\ Ends(i)' # {} /\ Outcome(i)' = "FORCE_CLOSED"
              /\ i \notin DOMAIN limits
         /\ i \in DOMAIN limits \cup Opening => \A j, k \in Ends(i)' : j = k
         /\ i \notin DOMAIN limits \cup Opening => results'[i] = results[i] /\ SameEnds(i)
         /\ i \in DOMAIN limits \cup Opening => i \in 1..sent
         /\ results'[i] \in Seq(Outcomes)
<1>1. /\ results[i] \in Seq(Outcomes)
      /\ results'[i] = CASE i \in DOMAIN limits -> Append(results[i], "EXPIRED")
                         [] i \in Opening -> Append(results[i], "FORCE_CLOSED")
                         [] OTHER -> results[i]
  BY DEF OrderShapes, CloseAllRemainingOrders
<1>2. InSession /\ Opening \cap DOMAIN limits = {}
  BY DEF CloseAllRemainingOrders, InSession, OrderInv, EndsOnce
<1>3. ASSUME i \in DOMAIN limits \cup Opening
      PROVE  i \in 1..sent /\ Ends(i) = {}
  <2>1. i \in DOMAIN pending \cup DOMAIN limits
    BY <1>3 DEF Opening
  <2>2. i \in 1..sent
    BY <2>1 DEF OrderInv, Unsent, OrderShapes, Ids
  <2> QED BY <1>2, <1>3, <2>2 DEF OrderInv, EndsOnce
<1>4. CASE i \in DOMAIN limits
  <2>1. results'[i] = Append(results[i], "EXPIRED")
    BY <1>1, <1>2, <1>4
  <2>2. results'[i] \in Seq(Outcomes)
    BY <1>1, <2>1 DEF Outcomes
  <2>3. Ends(i) = {} /\ i \in 1..sent
    BY <1>3, <1>4
  <2>4. Ends(i)' # {} /\ Outcome(i)' = "EXPIRED" /\ \A j, k \in Ends(i)' : j = k
    <3>1. results[i] \in Seq(Outcomes)
      BY <1>1
    <3>2. results'[i] = Append(results[i], "EXPIRED") /\ Ends(i) = {} /\ "EXPIRED" # "MODIFY_REJECTED"
      BY <2>1, <2>3
    <3> QED BY <3>1, <3>2, Ending
  <2> QED BY <1>2, <1>4, <2>1, <2>2, <2>3, <2>4
<1>5. CASE i \in Opening
  <2>1. results'[i] = Append(results[i], "FORCE_CLOSED") /\ i \notin DOMAIN limits
    BY <1>1, <1>2, <1>5
  <2>2. results'[i] \in Seq(Outcomes)
    BY <1>1, <2>1 DEF Outcomes
  <2>3. Ends(i) = {} /\ i \in 1..sent
    BY <1>3, <1>5
  <2>4. Ends(i)' # {} /\ Outcome(i)' = "FORCE_CLOSED" /\ \A j, k \in Ends(i)' : j = k
    <3>1. results[i] \in Seq(Outcomes)
      BY <1>1
    <3>2. results'[i] = Append(results[i], "FORCE_CLOSED") /\ Ends(i) = {} /\ "FORCE_CLOSED" # "MODIFY_REJECTED"
      BY <2>1, <2>3
    <3> QED BY <3>1, <3>2, Ending
  <2> QED BY <1>2, <1>5, <2>1, <2>2, <2>3, <2>4
<1>6. CASE i \notin DOMAIN limits \cup Opening
  BY <1>1, <1>6, Unreported
<1> QED BY <1>4, <1>5, <1>6

LEMMA ClosingOrders ==
  ASSUME Shapes, OrderInv, CloseAllRemainingOrders
  PROVE  Shapes' /\ OrderInv' /\ Lifecycle!Next
<1>1. /\ sent' = sent /\ limits' = limits /\ positions' = {} /\ pending' = Empty
      /\ DOMAIN pending' = {} /\ ~InSession'
  BY DEF CloseAllRemainingOrders, InSession, Empty
<1>2. \A i \in Ids : i \notin DOMAIN limits \cup Opening =>
        /\ results'[i] = results[i] /\ Ends(i)' = Ends(i)
        /\ Ends(i) # {} => Outcome(i)' = Outcome(i)
  BY ClosingEnds DEF SameEnds, Shapes
<1>3. Shapes'
  <2>1. results' \in [Ids -> Seq(Outcomes)]
    <3>1. \A i \in Ids : results'[i] \in Seq(Outcomes)
      BY ClosingEnds DEF Shapes
    <3>2. \E f : results' = [i \in Ids |-> f[i]]
      <4> DEFINE f == [i \in Ids |->
            CASE i \in DOMAIN limits -> Append(results[i], "EXPIRED")
              [] i \in {n \in DOMAIN pending : pending[n].action = "OPEN"} ->
                   Append(results[i], "FORCE_CLOSED")
              [] OTHER -> results[i]]
      <4>1. results' = f
        BY DEF CloseAllRemainingOrders
      <4>2. f = [i \in Ids |-> f[i]]
        OBVIOUS
      <4> QED BY <4>1, <4>2
    <3> QED BY <3>1, <3>2
  <2>2. book' \in Seq(BookRecord)
    <3>1. book \in Seq(BookRecord)
      BY DEF Shapes, WireShapes
    <3>2. CancelSync({limits[i].ref : i \in DOMAIN limits})
      BY DEF CloseAllRemainingOrders
    <3> QED BY <3>1, <3>2, CancelSyncShape
  <2>3. OrderShapes'
    BY <1>1, <2>1 DEF Shapes, OrderShapes, Empty
  <2>4. WireShapes'
    BY <2>2 DEF Shapes, WireShapes, CloseAllRemainingOrders, queues
  <2> QED BY <2>3, <2>4 DEF Shapes
<1>4. OrderInv'
  <2>1. \A i \in Ids : \A j, k \in Ends(i)' : j = k
    BY <1>2, ClosingEnds DEF OrderInv, EndsOnce, Shapes
  <2>2. EndsOnce'
    BY <1>1, <2>1 DEF EndsOnce
  <2>3. Unsent'
    <3> SUFFICES ASSUME NEW i \in Ids, i > sent
                 PROVE  results'[i] = <<>> /\ i \notin DOMAIN limits
      BY <1>1 DEF Unsent
    <3>1. results[i] = <<>> /\ i \notin DOMAIN limits \cup Opening
      BY DEF OrderInv, Unsent, Opening
    <3> QED BY <1>2, <3>1
  <2>4. Held'
    BY <1>1 DEF Held
  <2> QED BY <2>2, <2>3, <2>4 DEF OrderInv
<1>5. Lifecycle!Next
  <2> SUFFICES ASSUME NEW i \in Ids
               PROVE  Lifecycle!Moves(status[i], size[i], status'[i], size'[i])
    BY DEF Lifecycle!Next
  <2>1. sent \in Nat /\ i \in Nat
    BY DEF Shapes, OrderShapes, Ids
  <2>2. CASE i \notin DOMAIN limits \cup Opening
    <3>1. SameEnds(i)
      BY <2>2, ClosingEnds DEF Shapes
    <3> QED BY <1>1, <2>1, <3>1, LeftAlone
  <2>3. CASE i \in DOMAIN limits \cup Opening
    <3> HIDE DEF status, size
    <3>1. /\ status[i] =
               Standing(i > sent, Ends(i) # {}, i \in DOMAIN limits, i \in positions, Outcome(i))
          /\ status'[i] =
               Standing(i > sent', Ends(i)' # {}, i \in DOMAIN limits', i \in positions', Outcome(i)')
          /\ size[i] = SizeAt(status[i]) /\ size'[i] = SizeAt(status'[i])
      BY <1>1, <2>1, MappedOrder
    <3>2. /\ ~(i > sent) /\ Ends(i) = {} /\ Ends(i)' # {}
          /\ \/ i \in DOMAIN limits /\ Outcome(i)' = "EXPIRED"
             \/ i \notin DOMAIN limits /\ Outcome(i)' = "FORCE_CLOSED"
      BY <2>1, <2>3, ClosingEnds DEF Shapes
    <3>3. \/ status[i] = "working" /\ status'[i] = "EXPIRED"
          \/ status[i] = "inflight" /\ status'[i] = "FORCE_CLOSED"
      BY <1>1, <3>1, <3>2 DEF Standing
    <3>4. size[i] = 1 /\ size'[i] = 0
      BY <3>1, <3>3 DEF SizeAt
    <3> QED BY <3>3, <3>4 DEF Lifecycle!Moves, Lifecycle!Refuse, Lifecycle!Live, Lifecycle!Refused
  <2> QED BY <2>2, <2>3
<1> QED BY <1>3, <1>4, <1>5

-----------------------------------------------------------------------------
(* What an answer does *)

\* The first order of a step that decides at most that one, and what else it
\* leaves alone.
Responds(m) ==
  /\ OrderShapes' /\ Asks
  /\ \/ Keeps
     \/ /\ \E o \in Final : Decides(m.id, o)
        /\ m.id \in Opening => Submits(m, "OPEN")
  /\ \A j \in Opening' :
       \/ pending'[j] = pending[j]
       \/ j = m.id /\ Submits(m, "OPEN")

\* A fill is reported as such, or refused for lack of funds.
LEMMA FillOpenReports ==
  ASSUME OrderShapes, NEW i \in Ids, NEW ref \in Nat, FillOpen(i, ref)
  PROVE  /\ Asks
         /\ \E o \in {"EXECUTED", "NO_FUNDS"} :
              /\ Report(i, o)
              /\ positions' = IF o = "EXECUTED" THEN positions \cup {i} ELSE positions
<1>1. OrderJob("trades", i, ref, 0) \in Asked /\ OrderJob("trades", i, ref, 0).kind # "submit"
  BY JobShape DEF Kinds, OrderJob
<1>2. Asks
  BY <1>1 DEF FillOpen, NoFill, Asks
<1>3. \E o \in {"EXECUTED", "NO_FUNDS"} :
        /\ Report(i, o)
        /\ positions' = IF o = "EXECUTED" THEN positions \cup {i} ELSE positions
  BY DEF FillOpen, NoFill
<1> QED BY <1>2, <1>3

\* A tracked market order or close is taken out.
LEMMA PendingWithout ==
  ASSUME OrderShapes, NEW i \in DOMAIN pending, pending' = Without(pending, {i})
  PROVE  /\ DOMAIN pending' = DOMAIN pending \ {i} /\ DOMAIN pending' \subseteq Ids
         /\ pending' \in [DOMAIN pending' -> Tracked0]
         /\ Opening' = Opening \ {i}
         /\ \A j \in DOMAIN pending' : pending'[j] = pending[j]
BY DEF OrderShapes, Without, Opening

\* A limit order is decided.
LEMMA LimitDecided ==
  ASSUME OrderShapes, OrderInv, InSession, NEW i \in DOMAIN limits,
         limits' = Without(limits, {i}), UNCHANGED <<pending, sent>>, Asks,
         NEW o \in {"EXECUTED", "NO_FUNDS", "REJECTED", "CANCELLED"}, Report(i, o),
         positions' = IF o = "EXECUTED" THEN positions \cup {i} ELSE positions,
         NEW m, m.id = i
  PROVE  Responds(m)
<1>1. i \in Ids /\ i \notin Opening /\ o \in Outcomes /\ o \in Final
  BY DEF OrderShapes, OrderInv, EndsOnce, Outcomes, Final
<1>2. /\ DOMAIN limits' = DOMAIN limits \ {i} /\ DOMAIN limits' \subseteq Ids
      /\ limits' \in [DOMAIN limits' -> Resting]
  BY DEF OrderShapes, Without
<1>3. Opening' = Opening
  BY DEF Opening
<1>4. results' \in [Ids -> Seq(Outcomes)]
  BY <1>1, ReportShape
<1>5. OrderShapes'
  BY <1>1, <1>2, <1>4 DEF OrderShapes
<1>6. Decides(i, o)
  BY <1>1, <1>2, <1>3 DEF Decides
<1> QED BY <1>1, <1>3, <1>5, <1>6 DEF Responds

\* A limit order is updated, or nothing at all is.
LEMMA LimitUpdated ==
  ASSUME OrderShapes, DOMAIN limits' = DOMAIN limits, limits' \in [DOMAIN limits -> Resting],
         UNCHANGED <<pending, positions, sent>>, Asks, NEW m,
         UNCHANGED results \/ (m.id \in DOMAIN limits /\ Report(m.id, "MODIFY_REJECTED"))
  PROVE  Responds(m)
<1>1. results' \in [Ids -> Seq(Outcomes)]
  <2>1. CASE m.id \in DOMAIN limits /\ Report(m.id, "MODIFY_REJECTED")
    BY <2>1, ReportShape DEF OrderShapes, Outcomes
  <2> QED BY <2>1 DEF OrderShapes
<1>2. OrderShapes'
  BY <1>1 DEF OrderShapes
<1>3. Opening' = Opening
  BY DEF Opening
<1>4. Keeps
  BY <1>3 DEF Keeps
<1> QED BY <1>2, <1>3, <1>4 DEF Responds

\* A market order, or a close, is answered for.
LEMMA MarketDecided ==
  ASSUME OrderShapes, OrderInv, InSession, NEW i \in DOMAIN pending,
         pending' = Without(pending, {i}), UNCHANGED <<limits, sent>>,
         NEW action \in {"OPEN", "CLOSE"}, action = pending[i].action,
         Reject(i, action) \/ \E ref \in Nat : Fill(i, action, ref)
  PROVE  /\ OrderShapes' /\ Asks
         /\ action = "OPEN" => \E o \in Final : Decides(i, o)
         /\ action = "CLOSE" => Keeps
         /\ \A j \in Opening' : pending'[j] = pending[j]
<1>1. /\ i \in Ids /\ DOMAIN pending' = DOMAIN pending \ {i} /\ DOMAIN pending' \subseteq Ids
      /\ pending' \in [DOMAIN pending' -> Tracked0]
      /\ Opening' = Opening \ {i}
      /\ \A j \in DOMAIN pending' : pending'[j] = pending[j]
  BY PendingWithout DEF OrderShapes
<1>2. Opening' \subseteq DOMAIN pending'
  BY DEF Opening
<1>3. CASE action = "OPEN"
  <2>1. i \in Opening /\ i \notin DOMAIN limits
    BY <1>3 DEF Opening, OrderInv, EndsOnce
  <2>2. Asks /\ \E o \in {"EXECUTED", "NO_FUNDS", "REJECTED"} :
          /\ Report(i, o)
          /\ positions' = IF o = "EXECUTED" THEN positions \cup {i} ELSE positions
    <3>1. CASE Reject(i, action)
      BY <1>3, <3>1 DEF Reject, NoFill, Asks
    <3>2. ASSUME NEW ref \in Nat, Fill(i, action, ref)
          PROVE  FillOpen(i, ref)
      BY <1>3, <3>2 DEF Fill
    <3> QED BY <1>1, <3>1, <3>2, FillOpenReports
  <2>3. PICK o \in {"EXECUTED", "NO_FUNDS", "REJECTED"} :
          /\ Report(i, o)
          /\ positions' = IF o = "EXECUTED" THEN positions \cup {i} ELSE positions
    BY <2>2
  <2>4. o \in Outcomes /\ o \in Final
    BY DEF Outcomes, Final
  <2>5. OrderShapes'
    BY <1>1, <2>3, <2>4, ReportShape DEF OrderShapes
  <2>6. Decides(i, o)
    BY <1>1, <2>1, <2>3 DEF Decides
  <2> QED BY <1>1, <1>2, <1>3, <2>2, <2>4, <2>5, <2>6
<1>4. CASE action = "CLOSE"
  <2>1. Opening' = Opening
    BY <1>1, <1>4 DEF Opening
  <2>2. Asks /\ UNCHANGED results /\ positions' \subseteq positions
    BY <1>4 DEF Reject, Fill, NoFill, Asks
  <2>3. OrderShapes'
    BY <1>1, <2>2 DEF OrderShapes
  <2>4. Keeps
    BY <1>1, <2>1, <2>2 DEF Keeps
  <2> QED BY <1>1, <1>2, <1>4, <2>2, <2>3, <2>4
<1> QED BY <1>3, <1>4

\* Every answer, whatever its kind.
LEMMA MarketAnswer ==
  ASSUME OrderShapes, OrderInv, InSession, UNCHANGED sent, NEW m \in Answer,
         Submits(m, "OPEN") => m.id \in Opening,
         Submits(m, "CLOSE") => m.id \notin Opening,
         HandleSubmitResponse(m)
  PROVE  Responds(m)
<1>1. /\ m.id \in DOMAIN pending /\ m.id \in Ids /\ m.ref \in Nat /\ m.action \in {"OPEN", "CLOSE"}
      /\ pending[m.id] \in Tracked0 /\ limits' = limits /\ DOMAIN pending \subseteq Ids
  BY DEF HandleSubmitResponse, OrderShapes, Answer
<1>2. /\ m.action = pending[m.id].action
      /\ Submits(m, "OPEN") <=> m.action = "OPEN"
  BY <1>1 DEF HandleSubmitResponse, Submits, Opening, Tracked0
<1>3. CASE /\ pending' = Without(pending, {m.id})
           /\ Reject(m.id, m.action) \/ Fill(m.id, m.action, m.ref)
  <2>1. /\ OrderShapes' /\ Asks
        /\ m.action = "OPEN" => \E o \in Final : Decides(m.id, o)
        /\ m.action = "CLOSE" => Keeps
        /\ \A j \in Opening' : pending'[j] = pending[j]
    BY <1>1, <1>2, <1>3, MarketDecided
  <2> QED BY <1>1, <1>2, <2>1 DEF Responds
<1>4. CASE /\ pending' = [pending EXCEPT ![m.id].ref = m.ref]
           /\ NoFill /\ UNCHANGED results
  <2>1. [pending[m.id] EXCEPT !.ref = m.ref] \in Tracked0
    BY <1>1 DEF Tracked0
  <2>2. /\ DOMAIN pending' = DOMAIN pending /\ pending' \in [DOMAIN pending' -> Tracked0]
        /\ \A j \in DOMAIN pending \ {m.id} : pending'[j] = pending[j]
        /\ pending'[m.id] = [pending[m.id] EXCEPT !.ref = m.ref]
    BY <1>1, <1>4, <2>1 DEF OrderShapes
  <2>3. pending'[m.id].action = pending[m.id].action
    BY <1>1, <2>2 DEF Tracked0
  <2>4. Opening' = Opening
    BY <1>1, <2>2, <2>3 DEF Opening
  <2>5. OrderShapes' /\ Asks
    BY <1>1, <1>4, <2>2 DEF OrderShapes, NoFill, Asks
  <2>6. Keeps
    BY <1>1, <1>4, <2>2, <2>4 DEF Keeps, NoFill
  <2>7. m.id \in Opening => Submits(m, "OPEN")
    BY <1>2 DEF Opening
  <2> QED BY <2>2, <2>3, <2>4, <2>5, <2>6, <2>7 DEF Responds, Opening
<1> QED BY <1>3, <1>4 DEF HandleSubmitResponse

LEMMA LimitSubmitAnswer ==
  ASSUME OrderShapes, OrderInv, InSession, UNCHANGED sent, NEW m \in Answer,
         HandleLimitSubmitResponse(m)
  PROVE  Responds(m)
<1>1. /\ m.id \in DOMAIN limits /\ m.id \in Ids /\ m.ref \in Nat /\ UNCHANGED pending
      /\ limits[m.id] \in Resting
  BY DEF HandleLimitSubmitResponse, OrderShapes, Answer
<1>2. CASE limits' = Without(limits, {m.id}) /\ Reject(m.id, "OPEN")
  BY <1>1, <1>2, LimitDecided DEF Reject, NoFill, Asks
<1>3. CASE limits' = Without(limits, {m.id}) /\ FillOpen(m.id, m.ref)
  <2>1. Asks /\ \E o \in {"EXECUTED", "NO_FUNDS"} :
          /\ Report(m.id, o)
          /\ positions' = IF o = "EXECUTED" THEN positions \cup {m.id} ELSE positions
    BY <1>1, <1>3, FillOpenReports
  <2> QED BY <1>1, <1>3, <2>1, LimitDecided
<1>4. CASE Confirm(m) /\ UNCHANGED <<positions, results, audits>>
  <2>1. /\ [limits[m.id] EXCEPT !.ref = m.ref] \in Resting
        /\ [limits[m.id] EXCEPT !.ref = m.ref, !.op = "PENDING_CANCEL",
                               !.cancelRequested = FALSE] \in Resting
    BY <1>1 DEF Resting
  <2>2. \E x \in Resting : limits' = [limits EXCEPT ![m.id] = x]
    BY <1>4, <2>1 DEF Confirm
  <2>3. DOMAIN limits' = DOMAIN limits /\ limits' \in [DOMAIN limits -> Resting]
    BY <2>2 DEF OrderShapes
  <2>4. Asks
    <3>1. OrderJob("cancel", m.id, m.ref, 0) \in Asked /\ OrderJob("cancel", m.id, m.ref, 0).kind # "submit"
      BY <1>1, JobShape DEF Kinds, OrderJob
    <3>2. outbox' = outbox \/ outbox' = Append(outbox, OrderJob("cancel", m.id, m.ref, 0))
      BY <1>4 DEF Confirm
    <3> QED BY <3>1, <3>2 DEF Asks
  <2> QED BY <1>1, <1>4, <2>3, <2>4, LimitUpdated
<1> QED BY <1>2, <1>3, <1>4 DEF HandleLimitSubmitResponse

LEMMA ModifyAnswer ==
  ASSUME OrderShapes, UNCHANGED sent, NEW m \in Answer, HandleModifyResponse(m)
  PROVE  Responds(m)
<1>1. UNCHANGED <<pending, positions>> /\ Asks
  BY DEF HandleModifyResponse, NoFill, Asks
<1>2. CASE m.id \in DOMAIN limits
  <2>1. limits[m.id] \in Resting /\ m.ref \in Nat
    BY <1>2 DEF OrderShapes, Answer
  <2>2. Modified(limits[m.id], m) \in Resting
    BY <2>1 DEF Modified, Resting
  <2>3. limits' = [limits EXCEPT ![m.id] = Modified(limits[m.id], m)]
    BY <1>2 DEF HandleModifyResponse
  <2>4. DOMAIN limits' = DOMAIN limits /\ limits' \in [DOMAIN limits -> Resting]
    BY <2>2, <2>3 DEF OrderShapes
  <2>5. UNCHANGED results \/ Report(m.id, "MODIFY_REJECTED")
    BY <1>2 DEF HandleModifyResponse
  <2> QED BY <1>1, <1>2, <2>4, <2>5, LimitUpdated
<1>3. CASE m.id \notin DOMAIN limits
  BY <1>1, <1>3, LimitUpdated DEF HandleModifyResponse, OrderShapes
<1> QED BY <1>2, <1>3

LEMMA CancelAnswer ==
  ASSUME OrderShapes, OrderInv, InSession, UNCHANGED sent, NEW m \in Answer, HandleCancelResponse(m)
  PROVE  Responds(m)
<1>1. UNCHANGED <<pending, positions>> /\ Asks
  BY DEF HandleCancelResponse, NoFill, Asks
<1>2. CASE m.id \notin DOMAIN limits /\ UNCHANGED <<limits, results>>
  BY <1>1, <1>2, LimitUpdated DEF OrderShapes
<1>3. CASE m.id \in DOMAIN limits /\ limits' = [limits EXCEPT ![m.id].op = "NONE"]
           /\ UNCHANGED results
  <2>1. limits[m.id] \in Resting
    BY <1>3 DEF OrderShapes
  <2>2. [limits[m.id] EXCEPT !.op = "NONE"] \in Resting
    BY <2>1 DEF Resting
  <2>3. DOMAIN limits' = DOMAIN limits /\ limits' \in [DOMAIN limits -> Resting]
    BY <1>3, <2>2 DEF OrderShapes
  <2> QED BY <1>1, <1>3, <2>3, LimitUpdated
<1>4. CASE m.id \in DOMAIN limits /\ limits' = Without(limits, {m.id})
           /\ Report(m.id, "CANCELLED")
  BY <1>1, <1>4, LimitDecided
<1> QED BY <1>2, <1>3, <1>4 DEF HandleCancelResponse

LEMMA QueryAnswer ==
  ASSUME OrderShapes, OrderInv, InSession, UNCHANGED sent, NEW m \in Answer, HandleQueryResponse(m)
  PROVE  Responds(m)
<1>1. UNCHANGED pending /\ m.id \in Ids /\ m.ref \in Nat
  BY DEF HandleQueryResponse, Answer
<1>2. CASE m.id \notin DOMAIN limits /\ NoFill /\ UNCHANGED <<limits, results>>
  BY <1>1, <1>2, LimitUpdated DEF OrderShapes, NoFill, Asks
<1>3. CASE m.id \in DOMAIN limits /\ limits' = [limits EXCEPT ![m.id] = AskAgain(@, m)]
           /\ NoFill /\ UNCHANGED results
  <2>1. limits[m.id] \in Resting
    BY <1>3 DEF OrderShapes
  <2>2. AskAgain(limits[m.id], m) \in Resting
    BY <2>1 DEF Resting, AskAgain
  <2>3. limits' = [limits EXCEPT ![m.id] = AskAgain(limits[m.id], m)]
    BY <1>3
  <2>4. DOMAIN limits' = DOMAIN limits /\ limits' \in [DOMAIN limits -> Resting]
    BY <2>2, <2>3 DEF OrderShapes
  <2>5. UNCHANGED positions /\ Asks
    BY <1>3 DEF NoFill, Asks
  <2> QED BY <1>1, <1>3, <2>4, <2>5, LimitUpdated
<1>4. CASE m.id \in DOMAIN limits /\ limits' = Without(limits, {m.id}) /\ FillOpen(m.id, m.ref)
  <2>1. Asks /\ \E o \in {"EXECUTED", "NO_FUNDS"} :
          /\ Report(m.id, o)
          /\ positions' = IF o = "EXECUTED" THEN positions \cup {m.id} ELSE positions
    BY <1>1, <1>4, FillOpenReports
  <2> QED BY <1>1, <1>4, <2>1, LimitDecided
<1>5. CASE m.id \in DOMAIN limits /\ limits' = Without(limits, {m.id}) /\ Reject(m.id, "OPEN")
  BY <1>1, <1>5, LimitDecided DEF Reject, NoFill, Asks
<1> QED BY <1>2, <1>3, <1>4, <1>5 DEF HandleQueryResponse

LEMMA OtherAnswer ==
  ASSUME OrderShapes, UNCHANGED sent, NEW m \in Answer,
         HandlePositionResponse(m) \/ HandleTradesResponse(m)
  PROVE  Responds(m)
<1>1. UNCHANGED <<pending, limits, positions, results>> /\ Asks
  BY DEF HandlePositionResponse, HandleTradesResponse, NoFill, Asks
<1> QED BY <1>1, LimitUpdated DEF OrderShapes

-----------------------------------------------------------------------------
(* The steps of a running session *)

\* A step that decides at most order i, and submits at most closes of
\* positions, leads to a good state and moves every order as promised.
LEMMA TouchesOne ==
  ASSUME Shapes, OrderInv, InSession, AnswersDue, NEW i,
         SubmittedOnce', Underway("OPEN")' \subseteq Underway("OPEN"),
         Underway("CLOSE")' \subseteq Underway("CLOSE") \cup positions,
         Keeps \/ (i \notin Underway("OPEN")' /\ \E o \in Final : Decides(i, o)),
         \A j \in Opening' :
           \/ pending'[j].ref = pending[j].ref
           \/ j = i /\ i \notin Underway("OPEN")'
  PROVE  OrderInv' /\ AnswersDue' /\ Lifecycle!Next
<1>1. OrderInv' /\ Lifecycle!Next /\ \A j \in Ids : Ends(j) # {} => Ends(j)' # {}
  <2>1. CASE Keeps
    BY <2>1, KeepsOrders, KeepsMoves, KeepsEnds DEF Shapes, SameEnds
  <2>2. ASSUME NEW o \in Final, Decides(i, o)
        PROVE  OrderInv' /\ Lifecycle!Next /\ \A j \in Ids : Ends(j) # {} => Ends(j)' # {}
    <3>1. OrderInv' /\ Lifecycle!Next
      BY <2>2, DecidesOrders, DecidesMoves DEF Shapes
    <3>2. \A j \in Ids \ {i} : Ends(j)' = Ends(j)
      BY <2>2, DecidesEnds DEF Shapes, SameEnds
    <3>3. Ends(i)' # {}
      BY <2>2, DecidesEnds DEF Shapes
    <3> QED BY <3>1, <3>2, <3>3
  <2> QED BY <2>1, <2>2
<1>2. ASSUME NEW j \in Underway("OPEN")'
      PROVE  j \in Opening' /\ pending'[j].ref = NoRef
  <2>1. j \in Opening /\ pending[j].ref = NoRef
    BY <1>2 DEF AnswersDue
  <2>2. j \in Opening'
    BY <1>2, <2>1 DEF Keeps, Decides
  <2> QED BY <1>2, <2>1, <2>2
<1>3. ASSUME NEW j \in Underway("CLOSE")' PROVE Ends(j)' # {}
  <2>1. Ends(j) # {}
    BY <1>3 DEF AnswersDue, OrderInv, Held
  <2>2. /\ \A x \in Asked \cup Answer : x.id \in Ids
        /\ outbox \in Seq(Asked) /\ worker \in Seq(Asked) /\ inbox \in Seq(Answer)
    BY DEF Shapes, WireShapes, Asked, Answer
  <2>3. /\ Submitted(outbox, "CLOSE") \subseteq Ids /\ Submitted(worker, "CLOSE") \subseteq Ids
        /\ Submitted(inbox, "CLOSE") \subseteq Ids
    BY <2>2 DEF Submitted
  <2>4. j \in Ids
    BY <1>3, <2>3 DEF Shapes, OrderShapes, Underway
  <2> QED BY <1>1, <2>1, <2>4
<1>4. AnswersDue'
  BY <1>2, <1>3 DEF AnswersDue
<1> QED BY <1>1, <1>4

\* The executor leaves its orders alone, whoever steps.
LEMMA OrdersUntouched ==
  ASSUME Shapes, OrderInv, InSession => AnswersDue, UNCHANGED local, InSession' => InSession,
         InSession => NothingNewSubmitted
  PROVE  OrderInv' /\ Lifecycle!Next /\ (InSession' => AnswersDue')
<1>1. Keeps /\ Opening' = Opening /\ pending' = pending
  BY DEF local, Keeps, Opening
<1>2. CASE InSession
  BY <1>1, <1>2, TouchesOne DEF NothingNewSubmitted
<1>3. CASE ~InSession
  BY <1>1, <1>3, KeepsOrders, KeepsMoves DEF Shapes
<1> QED BY <1>2, <1>3

LEMMA QuietWire ==
  ASSUME SubmittedOnce, UNCHANGED queues
  PROVE  NothingNewSubmitted
BY DEF NothingNewSubmitted, SubmittedOnce, Underway, queues

\* What a step leads to.
Good == Shapes' /\ OrderInv' /\ (InSession' => AnswersDue' /\ Visits') /\ Lifecycle!Next

\* Everybody but the main thread's handlers.
LEMMA OthersStep ==
  ASSUME LiveInv,
         \/ \E tick \in BOOLEAN : StartCycle(tick)
         \/ InboxDrained \/ PendingPolled \/ TimeoutsHandled \/ CycleEnds
         \/ Reconcile \/ StopWorker \/ Done \/ UNCHANGED vars
         \/ \E ref \in DOMAIN book : BrokerFills(ref) \/ BrokerDrops(ref)
  PROVE  Good
<1>1. UNCHANGED <<local, queues>> /\ (InSession' => InSession)
  BY DEF StartCycle, InboxDrained, PendingPolled, TimeoutsHandled, CycleEnds, Reconcile,
         StopWorker, Done, vars, BrokerFills, BrokerDrops, InSession
<1>2. OrderInv' /\ Lifecycle!Next /\ (InSession' => AnswersDue')
  <2>1. InSession => NothingNewSubmitted
    BY <1>1, QuietWire DEF LiveInv, AnswersDue
  <2> QED BY <1>1, <2>1, OrdersUntouched DEF LiveInv
<1>3. book' \in Seq(BookRecord)
  <2>1. book \in Seq(BookRecord)
    BY DEF LiveInv, Shapes, WireShapes
  <2>2. ASSUME NEW ref \in DOMAIN book, BrokerFills(ref) \/ BrokerDrops(ref)
        PROVE  book' \in Seq(BookRecord)
    BY ZenonT(60), <2>1, <2>2, BookShape DEF BrokerFills, BrokerDrops
  <2>3. (\A ref \in DOMAIN book : ~(BrokerFills(ref) \/ BrokerDrops(ref))) => book' = book
    BY DEF StartCycle, InboxDrained, PendingPolled, TimeoutsHandled, CycleEnds, Reconcile,
           StopWorker, Done, vars
  <2> QED BY <2>1, <2>2, <2>3
<1>4. Shapes'
  BY <1>1, <1>3 DEF LiveInv, Shapes, OrderShapes, WireShapes, local, queues
<1>5. ASSUME InSession' PROVE Visits'
  <2>1. pending' = pending /\ Visits
    BY <1>1, <1>5 DEF local, LiveInv
  <2> QED BY <1>5, <2>1 DEF Visits, StartCycle, InboxDrained, PendingPolled, TimeoutsHandled,
             CycleEnds, Reconcile, StopWorker, Done, vars, BrokerFills, BrokerDrops, TimedOut,
             InSession
<1> QED BY <1>2, <1>4, <1>5 DEF Good

LEMMA WorkerStep ==
  ASSUME LiveInv, Worker
  PROVE  Good
<1>1. Shapes' /\ UNCHANGED <<phase, todo, local>>
  BY WorkerShapes DEF LiveInv, WorkerTakes, Answered
<1>2. InSession => NothingNewSubmitted
  BY WorkerKeeps DEF LiveInv, AnswersDue
<1>3. OrderInv' /\ Lifecycle!Next /\ (InSession' => AnswersDue')
  BY <1>1, <1>2, OrdersUntouched DEF LiveInv, InSession
<1>4. InSession' => Visits'
  BY <1>1 DEF LiveInv, InSession, Visits, local
<1> QED BY <1>1, <1>3, <1>4 DEF Good

\* Draining one answer.
LEMMA DrainStep ==
  ASSUME LiveInv, DrainInbox
  PROVE  Good
<1> DEFINE m == Head(inbox)
<1>1. /\ inbox # <<>> /\ inbox' = Tail(inbox) /\ UNCHANGED <<sent, worker, book, phase, todo>>
      /\ phase = "drain"
  BY DEF DrainInbox
<1>2. InSession /\ AnswersDue /\ Shapes /\ OrderInv /\ OrderShapes /\ WireShapes
  BY <1>1 DEF LiveInv, InSession, Shapes
<1>3. m \in Answer /\ inbox \in Seq(Answer)
  BY <1>1, <1>2 DEF WireShapes
<1>4. \A action : Submits(m, action) => m.id \in Underway(action)
  BY <1>1, <1>3, TailSubmits DEF Underway
<1>5. /\ Submits(m, "OPEN") => m.id \in Opening /\ pending[m.id].ref = NoRef
      /\ Submits(m, "CLOSE") => m.id \notin Opening
  <2>1. Submits(m, "OPEN") => m.id \in Opening /\ pending[m.id].ref = NoRef
    BY <1>2, <1>4 DEF AnswersDue
  <2>2. Submits(m, "CLOSE") => Ends(m.id) # {} /\ m.id \in Ids
    BY <1>2, <1>3, <1>4 DEF AnswersDue, Answer
  <2>3. m.id \in Opening => Ends(m.id) = {}
    <3>1. m.id \in Opening => m.id \in Ids /\ ~(m.id > sent) /\ sent \in Nat
      BY <1>2 DEF OrderShapes, OrderInv, Unsent, Opening
    <3>2. m.id \in Opening => m.id \in 1..sent
      BY <3>1 DEF Ids
    <3> QED BY <1>2, <3>2 DEF OrderInv, EndsOnce
  <2> QED BY <2>1, <2>2, <2>3
<1>6. Responds(m)
  BY <1>1, <1>2, <1>3, <1>5, MarketAnswer, LimitSubmitAnswer, ModifyAnswer, CancelAnswer,
     QueryAnswer, OtherAnswer DEF DrainInbox
<1>7. NothingNewSubmitted /\ (Submits(m, "OPEN") => m.id \notin Underway("OPEN")')
  BY <1>1, <1>2, <1>6, DrainingKeeps DEF Responds, AnswersDue
<1>8. ASSUME NEW o \in Final, Decides(m.id, o), m.id \in Opening => Submits(m, "OPEN")
      PROVE  m.id \notin Underway("OPEN")'
  BY <1>2, <1>7, <1>8 DEF NothingNewSubmitted, AnswersDue
<1> HIDE DEF m
<1>9. \A j \in Opening' :
        \/ pending'[j].ref = pending[j].ref
        \/ j = m.id /\ m.id \notin Underway("OPEN")'
  BY <1>6, <1>7 DEF Responds
<1>10. OrderInv' /\ AnswersDue' /\ Lifecycle!Next
  BY <1>2, <1>6, <1>7, <1>8, <1>9, TouchesOne DEF Responds, NothingNewSubmitted
<1>11. WireShapes'
  <2>1. Tail(inbox) \in Seq(Answer)
    BY <1>1, <1>3
  <2>2. outbox' \in Seq(Asked)
    BY <1>2, <1>6, AskingShape DEF Responds
  <2> QED BY <1>1, <1>2, <2>1, <2>2 DEF WireShapes
<1> QED BY <1>1, <1>6, <1>10, <1>11 DEF Good, Responds, Shapes, Visits

\* Polling one market order or close.
LEMMA PollPendingStep ==
  ASSUME LiveInv, NEW i \in Ids, PollPending(i)
  PROVE  Good
<1>1. /\ phase = "poll" /\ phase' = phase /\ i \in todo /\ todo' = todo \ {i}
      /\ UNCHANGED <<limits, sent, worker, inbox, book>>
  BY DEF PollPending
<1>2. InSession /\ AnswersDue /\ Visits /\ Shapes /\ OrderInv /\ OrderShapes /\ WireShapes
  BY <1>1 DEF LiveInv, InSession, Shapes
<1>3. /\ i \in DOMAIN pending /\ pending[i].ref # NoRef /\ pending[i] \in Tracked0
      /\ pending[i].action \in {"OPEN", "CLOSE"} /\ pending[i].ref \in Nat
      /\ i \notin Underway("OPEN")
  BY <1>1, <1>2 DEF Visits, OrderShapes, Tracked0, AnswersDue
<1>4. CASE /\ pending' = Without(pending, {i})
           /\ \/ Reject(i, pending[i].action)
              \/ Fill(i, pending[i].action, pending[i].ref)
  <2>1. /\ OrderShapes' /\ Asks
        /\ Keeps \/ \E o \in Final : Decides(i, o)
        /\ \A j \in Opening' : pending'[j] = pending[j]
    BY <1>1, <1>2, <1>3, <1>4, MarketDecided
  <2>2. NothingNewSubmitted
    BY <1>1, <1>2, <2>1, AskingKeeps DEF AnswersDue
  <2>3. i \notin Underway("OPEN")'
    BY <1>3, <2>2 DEF NothingNewSubmitted
  <2>4. OrderInv' /\ AnswersDue' /\ Lifecycle!Next
    BY <1>2, <2>1, <2>2, <2>3, TouchesOne DEF NothingNewSubmitted
  <2>5. WireShapes'
    BY <1>1, <1>2, <2>1, AskingShape DEF WireShapes
  <2>6. Visits'
    <3>1. \A j \in DOMAIN pending \ {i} : j \in DOMAIN pending' /\ pending'[j] = pending[j]
      BY <1>2, <1>3, <1>4, PendingWithout
    <3> QED BY <1>1, <1>2, <3>1 DEF Visits
  <2> QED BY <2>1, <2>4, <2>5, <2>6 DEF Good, Shapes
<1>5. CASE NoFill /\ UNCHANGED <<pending, results>>
  <2>1. UNCHANGED <<local, queues>> /\ InSession'
    BY <1>1, <1>5 DEF NoFill, local, queues, InSession
  <2>2. OrderInv' /\ Lifecycle!Next /\ AnswersDue'
    BY <1>2, <2>1, OrdersUntouched, QuietWire DEF AnswersDue
  <2>3. Shapes' /\ Visits'
    BY <1>1, <1>2, <2>1 DEF Shapes, OrderShapes, WireShapes, local, queues, Visits
  <2> QED BY <2>2, <2>3 DEF Good
<1> QED BY <1>4, <1>5 DEF PollPending

\* Giving up one order or close that is late.
LEMMA HandleTimeoutStep ==
  ASSUME LiveInv, NEW i \in Ids, HandleTimeout(i)
  PROVE  Good
<1>1. /\ phase = "timeouts" /\ phase' = phase /\ i \in todo /\ todo' = todo \ {i}
      /\ UNCHANGED <<limits, sent, worker, inbox>> /\ DropTimedOut(i) /\ CancelSync({pending[i].ref})
      /\ \/ pending[i].ref # NoRef /\ Reject(i, pending[i].action)
         \/ pending[i].ref = NoRef /\ NoFill /\ UNCHANGED results
  BY DEF HandleTimeout
<1>2. InSession /\ AnswersDue /\ Visits /\ Shapes /\ OrderInv /\ OrderShapes /\ WireShapes
  BY <1>1 DEF LiveInv, InSession, Shapes
<1>3. /\ i \in DOMAIN pending /\ pending[i].late /\ pending[i] \in Tracked0
      /\ pending[i].action \in {"OPEN", "CLOSE"} /\ pending[i].ref \in Nat
  BY <1>1, <1>2 DEF Visits, OrderShapes, Tracked0
<1>4. WireShapes'
  <2>1. book' \in Seq(BookRecord)
    BY <1>1, <1>2, CancelSyncShape DEF WireShapes
  <2> QED BY <1>1, <1>2, <2>1 DEF WireShapes, Reject, NoFill
<1>5. CASE pending[i].ref # NoRef
  <2>1. pending' = Without(pending, {i}) /\ i \notin Underway("OPEN")
    BY <1>1, <1>2, <1>5 DEF DropTimedOut, AnswersDue
  <2>2. /\ OrderShapes' /\ Asks
        /\ Keeps \/ \E o \in Final : Decides(i, o)
        /\ \A j \in Opening' : pending'[j] = pending[j]
    BY <1>1, <1>2, <1>3, <1>5, <2>1, MarketDecided
  <2>3. NothingNewSubmitted
    BY <1>1, <1>2, <2>2, AskingKeeps DEF AnswersDue
  <2>4. i \notin Underway("OPEN")'
    BY <2>1, <2>3 DEF NothingNewSubmitted
  <2>5. OrderInv' /\ AnswersDue' /\ Lifecycle!Next
    BY <1>2, <2>2, <2>3, <2>4, TouchesOne DEF NothingNewSubmitted
  <2>6. Visits'
    <3>1. \A j \in DOMAIN pending \ {i} : j \in DOMAIN pending' /\ pending'[j] = pending[j]
      BY <1>2, <1>3, <2>1, PendingWithout
    <3> QED BY <1>1, <1>2, <3>1 DEF Visits
  <2> QED BY <1>4, <2>2, <2>5, <2>6 DEF Good, Shapes
<1>6. CASE pending[i].ref = NoRef
  <2>1. UNCHANGED <<local, queues>> /\ InSession'
    BY <1>1, <1>6 DEF DropTimedOut, NoFill, local, queues, InSession
  <2>2. OrderInv' /\ Lifecycle!Next /\ AnswersDue'
    BY <1>2, <2>1, OrdersUntouched, QuietWire DEF AnswersDue
  <2>3. OrderShapes' /\ Visits'
    BY <1>1, <1>2, <2>1 DEF OrderShapes, local, Visits
  <2> QED BY <1>4, <2>2, <2>3 DEF Good, Shapes
<1> QED BY <1>5, <1>6

\* A limit order is polled.
LEMMA PollActiveStep ==
  ASSUME LiveInv, NEW i \in Ids, PollActive(i)
  PROVE  Good
<1>1. /\ phase = "active" /\ i \in DOMAIN limits /\ UNCHANGED <<phase, todo>>
      /\ UNCHANGED <<pending, positions, results, sent, worker, inbox, book>>
      /\ outbox' = Append(outbox, OrderJob("query", i, limits[i].ref, 0))
      /\ limits' = [limits EXCEPT ![i].query = TRUE]
  BY DEF PollActive
<1>2. InSession /\ AnswersDue /\ Visits /\ Shapes /\ OrderInv /\ OrderShapes /\ WireShapes
  BY <1>1 DEF LiveInv, InSession, Shapes
<1>3. limits[i] \in Resting
  BY <1>1, <1>2 DEF OrderShapes
<1>4. OrderJob("query", i, limits[i].ref, 0) \in Asked
      /\ OrderJob("query", i, limits[i].ref, 0).kind # "submit"
  BY <1>3, JobShape DEF Resting, Kinds, OrderJob
<1>5. Asks
  BY <1>1, <1>4 DEF Asks
<1>6. [limits[i] EXCEPT !.query = TRUE] \in Resting
  BY <1>3 DEF Resting
<1>7. DOMAIN limits' = DOMAIN limits /\ limits' \in [DOMAIN limits -> Resting]
  BY <1>1, <1>2, <1>6 DEF OrderShapes
<1>8. OrderShapes' /\ WireShapes'
  BY <1>1, <1>2, <1>4, <1>7 DEF OrderShapes, WireShapes
<1>9. Keeps /\ Opening' = Opening
  BY <1>1, <1>7 DEF Keeps, Opening
<1>10. NothingNewSubmitted
  BY <1>1, <1>2, <1>5, AskingKeeps DEF AnswersDue
<1>11. OrderInv' /\ AnswersDue' /\ Lifecycle!Next
  BY <1>1, <1>2, <1>9, <1>10, TouchesOne DEF NothingNewSubmitted
<1> QED BY <1>1, <1>2, <1>8, <1>11 DEF Good, Shapes, Visits

\* A market order or close becomes late, be its reference known or not.
LEMMA TimeoutPassesStep ==
  ASSUME LiveInv, NEW i \in Ids, TimeoutPasses(i)
  PROVE  Good
<1>1. /\ i \in DOMAIN pending
      /\ pending' = [pending EXCEPT ![i].late = TRUE]
      /\ UNCHANGED <<phase, todo, limits, positions, results, sent, queues, book>>
  BY DEF TimeoutPasses
<1>2. Shapes /\ OrderInv /\ OrderShapes /\ WireShapes
  BY DEF LiveInv, Shapes
<1>3. pending[i] \in Tracked0
  BY <1>1, <1>2 DEF OrderShapes
<1>4. [pending[i] EXCEPT !.late = TRUE] \in Tracked0
  BY <1>3 DEF Tracked0
<1>5. /\ DOMAIN pending' = DOMAIN pending /\ pending' \in [DOMAIN pending' -> Tracked0]
      /\ \A j \in DOMAIN pending \ {i} : pending'[j] = pending[j]
      /\ pending'[i] = [pending[i] EXCEPT !.late = TRUE]
  BY <1>1, <1>2, <1>4 DEF OrderShapes
<1>6. /\ pending'[i].action = pending[i].action /\ pending'[i].ref = pending[i].ref
      /\ pending'[i].late
  BY <1>3, <1>5 DEF Tracked0
<1>7. Opening' = Opening
  BY <1>1, <1>5, <1>6 DEF Opening
<1>8. Keeps
  BY <1>1, <1>5, <1>7 DEF Keeps
<1>9. Shapes'
  BY <1>1, <1>2, <1>5 DEF Shapes, OrderShapes, WireShapes, queues
<1>10. InSession' <=> InSession
  BY <1>1 DEF InSession
<1>11. CASE InSession
  <2>1. AnswersDue /\ Visits
    BY <1>11 DEF LiveInv
  <2>2. NothingNewSubmitted
    BY <1>1, <2>1, QuietWire DEF AnswersDue
  <2>3. \A j \in Opening' : pending'[j].ref = pending[j].ref
    BY <1>5, <1>6, <1>7 DEF Opening
  <2>4. OrderInv' /\ AnswersDue' /\ Lifecycle!Next
    BY <1>2, <1>8, <1>11, <2>1, <2>2, <2>3, TouchesOne DEF NothingNewSubmitted
  <2>5. Visits'
    BY <1>1, <1>5, <1>6, <2>1 DEF Visits
  <2> QED BY <1>9, <2>4, <2>5 DEF Good
<1>12. CASE ~InSession
  <2>1. OrderInv' /\ Lifecycle!Next
    BY <1>2, <1>8, <1>10, KeepsOrders, KeepsMoves
  <2> QED BY <1>9, <1>10, <1>12, <2>1 DEF Good
<1> QED BY <1>11, <1>12

-----------------------------------------------------------------------------
(* The algorithm's calls, and all steps together *)

\* A new order.
LEMMA OpenOrderStep ==
  ASSUME LiveInv, NEW type \in {"MARKET", "LIMIT"}, NEW price \in Nat, OpenOrder(type, price), Shapes'
  PROVE  Good
<1> DEFINE id == sent + 1
<1>1. /\ phase = "idle" /\ UNCHANGED <<phase, todo, positions, worker, inbox>>
      /\ id \in Ids /\ sent' = id
  BY DEF OpenOrder
<1>2. InSession /\ InSession' /\ AnswersDue /\ Visits /\ Shapes /\ OrderInv /\ OrderShapes /\ WireShapes
  BY <1>1 DEF LiveInv, InSession, Shapes
<1>3. id \notin DOMAIN pending \cup DOMAIN limits \cup positions /\ id > sent
  BY <1>1, <1>2 DEF OrderInv, Unsent, OrderShapes
<1> HIDE DEF id
<1>4. id = sent + 1
  BY DEF id
<1>5. Visits'
  BY <1>1 DEF Visits
<1>6. CASE /\ pending' = Put(pending, id, NewPending("OPEN"))
           /\ outbox' = Append(outbox, SubmitJob(id, "MARKET", "OPEN", 0))
           /\ UNCHANGED <<limits, results>>
  <2>1. /\ DOMAIN pending' = DOMAIN pending \cup {id} /\ pending'[id] = NewPending("OPEN")
        /\ \A j \in DOMAIN pending : pending'[j] = pending[j]
    BY <1>3, <1>6 DEF Put
  <2>2. Opening' = Opening \cup {id}
    BY <1>3, <2>1 DEF Opening, NewPending
  <2>3. Enters(id)
    BY <1>1, <1>4, <1>6, <2>1, <2>2 DEF Enters
  <2>4. OrderInv' /\ Lifecycle!Next
    BY <1>2, <2>3, EntersOrders, EntersMoves
  <2> DEFINE x == SubmitJob(id, "MARKET", "OPEN", 0)
  <2>5. x.id = id /\ Submits(x, "OPEN") /\ ~Submits(x, "CLOSE")
    BY DEF Submits, SubmitJob
  <2> HIDE DEF x
  <2>6. outbox \in Seq(Asked) /\ outbox' = Append(outbox, x) /\ id \notin Underway("OPEN")
    BY <1>2, <1>3, <1>6 DEF WireShapes, x, AnswersDue, Opening
  <2>7. /\ Submitted(outbox', "OPEN") = Submitted(outbox, "OPEN") \cup {id}
        /\ Submitted(outbox', "CLOSE") = Submitted(outbox, "CLOSE")
    <3>1. \A action : Submitted(outbox', action) =
            Submitted(outbox, action) \cup (IF Submits(x, action) THEN {x.id} ELSE {})
      BY <2>6, AppendSubmits
    <3> QED BY <2>5, <3>1
  <2>8. Once(outbox')
    <3>1. Once(outbox) /\ id \notin Submitted(outbox, "OPEN")
      BY <1>2, <2>6 DEF AnswersDue, SubmittedOnce, Underway
    <3> QED BY <2>5, <2>6, <3>1, AppendOnce
  <2>9. SubmittedOnce'
    BY <1>1, <1>2, <2>6, <2>7, <2>8 DEF AnswersDue, SubmittedOnce, Underway
  <2>10. Underway("OPEN")' = Underway("OPEN") \cup {id} /\ Underway("CLOSE")' = Underway("CLOSE")
    BY <1>1, <2>7 DEF Underway
  <2>11. \A j \in Underway("CLOSE") : Ends(j)' # {}
    BY <1>2, <1>6 DEF Ends, AnswersDue
  <2>12. AnswersDue'
    <3>1. \A j \in Underway("OPEN")' : j \in Opening' /\ pending'[j].ref = NoRef
      BY <1>2, <2>1, <2>2, <2>10 DEF AnswersDue, NewPending, Opening
    <3> QED BY <2>9, <2>10, <2>11, <3>1 DEF AnswersDue
  <2> QED BY <1>5, <2>4, <2>12 DEF Good
<1>7. CASE /\ UNCHANGED <<pending, results>> /\ DOMAIN limits' = DOMAIN limits \cup {id}
           /\ outbox' = Append(outbox, SubmitJob(id, "LIMIT", "OPEN", price))
  <2>1. Opening' = Opening
    BY <1>7 DEF Opening
  <2>2. Enters(id)
    BY <1>1, <1>4, <1>7, <2>1 DEF Enters
  <2>3. OrderInv' /\ Lifecycle!Next
    BY <1>2, <2>2, EntersOrders, EntersMoves
  <2>4. Asks
    <3>1. SubmitJob(id, "LIMIT", "OPEN", price) \in Asked
      BY <1>1, JobShape
    <3>2. SubmitJob(id, "LIMIT", "OPEN", price).type # "MARKET"
      BY DEF SubmitJob
    <3> QED BY <1>7, <3>1, <3>2 DEF Asks
  <2>5. NothingNewSubmitted
    BY <1>1, <1>2, <2>4, AskingKeeps DEF AnswersDue
  <2>6. \A j \in Underway("CLOSE") : Ends(j)' # {}
    BY <1>2, <1>7 DEF Ends, AnswersDue
  <2>7. AnswersDue'
    BY <1>2, <1>7, <2>1, <2>5, <2>6 DEF AnswersDue, NothingNewSubmitted
  <2> QED BY <1>5, <2>3, <2>7 DEF Good
<1>8. CASE Report(id, "REJECTED") /\ UNCHANGED <<pending, limits, outbox>>
  <2>1. Opening' = Opening
    BY <1>8 DEF Opening
  <2>2. Enters(id)
    BY <1>1, <1>4, <1>8, <2>1 DEF Enters
  <2>3. OrderInv' /\ Lifecycle!Next
    BY <1>2, <2>2, EntersOrders, EntersMoves
  <2>4. SubmittedOnce' /\ \A action : Underway(action)' = Underway(action)
    BY <1>1, <1>2, <1>8 DEF AnswersDue, SubmittedOnce, Underway
  <2>5. \A j \in Underway("CLOSE") : Ends(j)' # {}
    <3>1. /\ Ends(id) = {} /\ \A j \in Ids \ {id} : results'[j] = results[j]
      BY <1>2, <2>2, EntersEnds
    <3>2. \A j \in Underway("CLOSE") : Ends(j) # {} /\ j \in Ids
      <4>1. /\ \A x \in Asked \cup Answer : x.id \in Ids
            /\ outbox \in Seq(Asked) /\ worker \in Seq(Asked) /\ inbox \in Seq(Answer)
        BY <1>2 DEF WireShapes, Asked, Answer
      <4>2. /\ Submitted(outbox, "CLOSE") \subseteq Ids /\ Submitted(worker, "CLOSE") \subseteq Ids
            /\ Submitted(inbox, "CLOSE") \subseteq Ids
        BY <4>1 DEF Submitted
      <4> QED BY <1>2, <4>2 DEF AnswersDue, Underway
    <3> QED BY <3>1, <3>2 DEF Ends
  <2>6. AnswersDue'
    BY <1>2, <1>8, <2>1, <2>4, <2>5 DEF AnswersDue
  <2> QED BY <1>5, <2>3, <2>6 DEF Good
<1> QED
  <2>1. \/ /\ pending' = Put(pending, id, NewPending("OPEN"))
           /\ outbox' = Append(outbox, SubmitJob(id, "MARKET", "OPEN", 0))
           /\ UNCHANGED <<limits, results>>
        \/ /\ limits' = Put(limits, id, NewLimit(price))
           /\ outbox' = Append(outbox, SubmitJob(id, "LIMIT", "OPEN", price))
           /\ UNCHANGED <<pending, results>>
        \/ Report(id, "REJECTED") /\ UNCHANGED <<pending, limits, outbox>>
    BY DEF OpenOrder, id
  <2>2. limits' = Put(limits, id, NewLimit(price)) => DOMAIN limits' = DOMAIN limits \cup {id}
    BY DEF Put
  <2> QED BY <1>6, <1>7, <1>8, <2>1, <2>2

\* A close of a position.
LEMMA ClosePositionStep ==
  ASSUME LiveInv, NEW i \in Ids, ClosePosition(i), Shapes'
  PROVE  Good
<1> DEFINE x == SubmitJob(i, "MARKET", "CLOSE", 0)
<1>1. /\ phase = "idle" /\ i \in positions /\ pending' = Put(pending, i, NewPending("CLOSE"))
      /\ outbox' = Append(outbox, x)
      /\ UNCHANGED <<phase, todo, limits, positions, results, sent, worker, inbox>>
  BY DEF ClosePosition
<1>2. InSession /\ InSession' /\ AnswersDue /\ Shapes /\ OrderInv /\ OrderShapes /\ WireShapes
  BY <1>1 DEF LiveInv, InSession, Shapes
<1>3. x.id = i /\ ~Submits(x, "OPEN") /\ Submits(x, "CLOSE")
  BY DEF Submits, SubmitJob
<1> HIDE DEF x
<1>4. /\ DOMAIN pending' = DOMAIN pending \cup {i} /\ pending'[i] = NewPending("CLOSE")
      /\ \A j \in DOMAIN pending \ {i} : pending'[j] = pending[j]
  BY <1>1 DEF Put
<1>5. i \notin Opening
  BY <1>1, <1>2 DEF OrderInv, EndsOnce
<1>6. Opening' = Opening /\ \A j \in Opening' : pending'[j] = pending[j]
  BY <1>4, <1>5 DEF Opening, NewPending
<1>7. Keeps
  BY <1>1, <1>4, <1>6 DEF Keeps
<1>8. outbox \in Seq(Asked)
  BY <1>2 DEF WireShapes
<1>9. /\ Submitted(outbox', "OPEN") = Submitted(outbox, "OPEN")
      /\ Submitted(outbox', "CLOSE") = Submitted(outbox, "CLOSE") \cup {i}
  <2>1. \A action : Submitted(outbox', action) =
          Submitted(outbox, action) \cup (IF Submits(x, action) THEN {x.id} ELSE {})
    BY <1>1, <1>8, AppendSubmits
  <2> QED BY <1>3, <2>1
<1>10. Once(outbox')
  <2>1. Once(outbox)
    BY <1>2 DEF AnswersDue, SubmittedOnce
  <2> QED BY <1>1, <1>3, <1>8, <2>1, AppendOnce
<1>11. /\ SubmittedOnce' /\ Underway("OPEN")' \subseteq Underway("OPEN")
       /\ Underway("CLOSE")' \subseteq Underway("CLOSE") \cup positions
  BY <1>1, <1>2, <1>9, <1>10 DEF AnswersDue, SubmittedOnce, Underway
<1>12. OrderInv' /\ AnswersDue' /\ Lifecycle!Next
  BY <1>2, <1>6, <1>7, <1>11, TouchesOne
<1> QED BY <1>1, <1>12 DEF Good, Visits

\* The algorithm's other calls only ask for something.
LEMMA OtherCallStep ==
  ASSUME LiveInv, Shapes', NEW i \in Ids,
         \/ CancelLimitOrder(i)
         \/ \E p \in Prices : ModifyLimitOrder(i, p)
         \/ \E l \in Levels : ModifyPosition(i, l)
  PROVE  Good
<1>1. /\ phase = "idle" /\ DOMAIN limits' = DOMAIN limits
      /\ UNCHANGED <<phase, todo, pending, positions, results, sent, worker, inbox>>
  BY DEF CancelLimitOrder, ModifyLimitOrder, ModifyPosition, local
<1>2. InSession /\ InSession' /\ AnswersDue /\ Shapes /\ OrderInv /\ OrderShapes /\ WireShapes
  BY <1>1 DEF LiveInv, InSession, Shapes
<1>3. Asks
  <2>1. CASE CancelLimitOrder(i)
    <3>1. CASE outbox' = Append(outbox, OrderJob("cancel", i, limits[i].ref, 0)) /\ i \in DOMAIN limits
      <4>1. OrderJob("cancel", i, limits[i].ref, 0) \in Asked
        BY <1>2, <3>1, JobShape DEF OrderShapes, Resting, Kinds
      <4>2. OrderJob("cancel", i, limits[i].ref, 0).kind # "submit"
        BY DEF OrderJob
      <4> QED BY <3>1, <4>1, <4>2 DEF Asks
    <3> QED BY <2>1, <3>1 DEF CancelLimitOrder, Asks
  <2>2. ASSUME NEW p \in Prices, ModifyLimitOrder(i, p) PROVE Asks
    <3>1. p \in Nat /\ limits[i].ref \in Nat
      BY <1>2, <2>2, LiveAssumption DEF ModifyLimitOrder, OrderShapes, Resting
    <3>2. OrderJob("edit", i, limits[i].ref, p) \in Asked
      BY <3>1, JobShape DEF Kinds
    <3>3. OrderJob("edit", i, limits[i].ref, p).kind # "submit"
      BY DEF OrderJob
    <3> QED BY <2>2, <3>2, <3>3 DEF ModifyLimitOrder, Asks
  <2>3. ASSUME NEW l \in Levels, ModifyPosition(i, l) PROVE Asks
    <3>1. l \in Nat /\ NoRef \in Nat
      BY LiveAssumption DEF NoRef
    <3>2. [OrderJob("position", i, NoRef, l) EXCEPT !.type = "MARKET"] \in Asked
      BY <3>1, JobShape
    <3>3. [OrderJob("position", i, NoRef, l) EXCEPT !.type = "MARKET"].kind # "submit"
      BY DEF OrderJob
    <3> QED BY <2>3, <3>2, <3>3 DEF ModifyPosition, Asks
  <2> QED BY <2>1, <2>2, <2>3
<1>4. Keeps /\ Opening' = Opening
  BY <1>1 DEF Keeps, Opening
<1>5. NothingNewSubmitted
  BY <1>1, <1>2, <1>3, AskingKeeps DEF AnswersDue
<1>6. OrderInv' /\ AnswersDue' /\ Lifecycle!Next
  BY <1>1, <1>2, <1>4, <1>5, TouchesOne DEF NothingNewSubmitted
<1> QED BY <1>1, <1>6 DEF Good, Visits

LEMMA AlgorithmStep ==
  ASSUME LiveInv, Algorithm
  PROVE  Good
<1>1. Shapes'
  BY AlgorithmShapes DEF LiveInv
<1>2. \A p \in OpenPrices : p \in Nat
  BY LiveAssumption
<1>3. CASE OpenOrder("MARKET", 0) \/ \E p \in OpenPrices : OpenOrder("LIMIT", p)
  BY <1>1, <1>2, <1>3, OpenOrderStep
<1>4. ASSUME NEW i \in Ids, ClosePosition(i) PROVE Good
  BY <1>1, <1>4, ClosePositionStep
<1>5. ASSUME NEW i \in Ids,
             \/ CancelLimitOrder(i)
             \/ \E p \in Prices : ModifyLimitOrder(i, p)
             \/ \E l \in Levels : ModifyPosition(i, l)
      PROVE  Good
  BY <1>1, <1>5, OtherCallStep
<1> QED BY <1>3, <1>4, <1>5 DEF Algorithm

LEMMA EveryStep ==
  ASSUME LiveInv, [Next]_vars
  PROVE  Good
<1>1. CASE CloseAllRemainingOrders
  BY <1>1, ClosingOrders DEF LiveInv, Good, InSession, CloseAllRemainingOrders
<1> QED BY <1>1, AlgorithmStep, OthersStep, WorkerStep, DrainStep, PollPendingStep,
           HandleTimeoutStep, PollActiveStep, TimeoutPassesStep DEF Next, Cycle

LEMMA InitGood == Init => LiveInv /\ Lifecycle!Init
<1> SUFFICES ASSUME Init PROVE LiveInv /\ Lifecycle!Init
  OBVIOUS
<1>1. /\ DOMAIN pending = {} /\ DOMAIN limits = {} /\ positions = {} /\ sent = 0 /\ phase = "idle"
      /\ outbox = <<>> /\ worker = <<>> /\ inbox = <<>> /\ book = <<>> /\ todo = {}
      /\ \A i \in Ids : results[i] = <<>>
  BY DEF Init, ProcessorInit, Empty
<1>2. \A i \in Ids : Ends(i) = {} /\ i > sent /\ i \in Nat
  BY <1>1 DEF Ends, Ids
<1>3. Shapes
  BY <1>1, LiveAssumption DEF Shapes, OrderShapes, WireShapes, Init, ProcessorInit, Empty
<1>4. OrderInv
  BY <1>1, <1>2 DEF OrderInv, EndsOnce, Unsent, Held, Opening
<1>5. AnswersDue /\ Visits
  <2>1. \A action : Underway(action) = {}
    BY <1>1 DEF Underway, Submitted
  <2> QED BY <1>1, <2>1 DEF AnswersDue, SubmittedOnce, Once, Submitted, Visits, Opening
<1>6. Lifecycle!Init
  <2>1. \A i \in Ids : status[i] = "unsent"
    <3>1. \A i \in Ids : i > sent /\ ~(i <= sent)
      BY <1>1 DEF Ids
    <3> QED BY <3>1 DEF status
  <2>2. status = [i \in Ids |-> status[i]]
    BY DEF status
  <2> HIDE DEF status
  <2>3. status = [i \in Ids |-> "unsent"]
    BY <2>1, <2>2
  <2>4. size = [i \in Ids |-> 0]
    BY <2>1 DEF size
  <2> QED BY <2>3, <2>4 DEF Lifecycle!Init
<1> QED BY <1>3, <1>4, <1>5, <1>6 DEF LiveInv

\* The rejections reported ahead of an order's end: the orders they are about
\* were sent, are no limit orders, and are late for as long as they open.
EarlyInv ==
  /\ EarlyReportsLate
  /\ \A i \in premature \cap Ids : i <= sent

\* In a step that opens nothing, rejects nothing early and lets no order
\* come back in time, the early reports stay what they are.
LEMMA EarlyKept ==
  ASSUME EarlyInv, UNCHANGED premature, OrderShapes, sent' \in Nat, sent <= sent',
         \A i \in DOMAIN limits' : i \in DOMAIN limits \/ (i \in Ids /\ i > sent),
         \A i \in Opening' :
           \/ i \in Opening /\ pending'[i].late = pending[i].late
           \/ i \in Opening /\ pending'[i].late
           \/ i \in Ids /\ i > sent
  PROVE  EarlyInv'
<1>1. sent \in Nat /\ \A i \in Ids : i \in Nat
  BY DEF OrderShapes, Ids
<1>2. \A i \in premature \cap Ids : ~(i > sent) /\ i <= sent'
  BY <1>1 DEF EarlyInv
<1>3. premature' \cap DOMAIN limits' = {}
  BY <1>2 DEF EarlyInv, EarlyReportsLate
<1>4. premature' \cap Opening' \subseteq TimedOut'
  BY <1>2 DEF EarlyInv, EarlyReportsLate, TimedOut, Opening
<1> QED BY <1>2, <1>3, <1>4 DEF EarlyInv, EarlyReportsLate

\* Every step keeps the early reports.
LEMMA EarlyStep ==
  ASSUME LiveInv, EarlyInv, [Next]_vars
  PROVE  EarlyInv'
<1>1. OrderShapes /\ OrderShapes' /\ OrderInv /\ sent \in Nat /\ sent' \in Nat
  BY EveryStep DEF Good, LiveInv, Shapes, OrderShapes
<1>2. ASSUME NEW type \in {"MARKET", "LIMIT"}, NEW price, OpenOrder(type, price) PROVE EarlyInv'
  <2>1. /\ sent' = sent + 1 /\ sent + 1 \in Ids /\ UNCHANGED premature
        /\ \/ /\ limits' = limits
              /\ pending' = pending \/ pending' = Put(pending, sent + 1, NewPending("OPEN"))
           \/ limits' = Put(limits, sent + 1, NewLimit(price)) /\ pending' = pending
    BY <1>2 DEF OpenOrder, history
  <2> DEFINE id == sent + 1
  <2>2. id \in Ids /\ id > sent /\ sent <= sent'
    BY <1>1, <2>1
  <2>3. \A i \in DOMAIN limits' : i \in DOMAIN limits \/ i = id
    BY <2>1 DEF Put
  <2>4. \A i \in DOMAIN pending' : (i \in DOMAIN pending /\ pending'[i] = pending[i]) \/ i = id
    BY <2>1 DEF Put
  <2> HIDE DEF id
  <2>5. \A i \in Opening' : (i \in Opening /\ pending'[i] = pending[i]) \/ i = id
    BY <2>4 DEF Opening
  <2> QED BY <1>1, <2>1, <2>2, <2>3, <2>5, EarlyKept
<1>3. ASSUME NEW i \in Ids, ClosePosition(i) PROVE EarlyInv'
  <2>1. /\ pending' = Put(pending, i, NewPending("CLOSE")) /\ UNCHANGED <<premature, sent, limits>>
    BY <1>3 DEF ClosePosition, history
  <2>2. \A j \in Opening' : j \in Opening /\ pending'[j] = pending[j]
    BY <2>1 DEF Opening, Put, NewPending
  <2> QED BY <1>1, <2>1, <2>2, EarlyKept
<1>4. ASSUME NEW i \in Ids, HandleTimeout(i) PROVE EarlyInv'
  <2>1. /\ phase = "timeouts" /\ i \in todo /\ UNCHANGED <<limits, sent>> /\ DropTimedOut(i)
        /\ \/ pending[i].ref # NoRef /\ UNCHANGED premature
           \/ pending[i].ref = NoRef /\ premature' = premature \cup ({i} \cap Opening)
    BY <1>4 DEF HandleTimeout
  <2>2. InSession /\ i \in DOMAIN pending /\ pending[i].late
    BY <2>1 DEF LiveInv, InSession, Visits
  <2>3. \A j \in DOMAIN pending' : j \in DOMAIN pending /\ pending'[j] = pending[j]
    BY <2>1 DEF DropTimedOut, Without
  <2>4. \A j \in Opening' : j \in Opening /\ pending'[j] = pending[j]
    BY <2>3 DEF Opening
  <2>5. CASE UNCHANGED premature
    BY <1>1, <2>1, <2>4, <2>5, EarlyKept
  <2>6. CASE premature' = premature \cup ({i} \cap Opening)
    <3>1. i \in Opening => i \notin DOMAIN limits /\ i <= sent
      BY <1>1, <2>2 DEF OrderInv, EndsOnce, Unsent, Opening, Ids
    <3>2. \A j \in TimedOut : j \in DOMAIN pending' => j \in TimedOut'
      BY <2>3 DEF TimedOut
    <3>3. i \in TimedOut
      BY <2>2 DEF TimedOut
    <3>4. Opening' \subseteq DOMAIN pending'
      BY DEF Opening
    <3> QED BY <2>1, <2>4, <2>6, <3>1, <3>2, <3>3, <3>4 DEF EarlyInv, EarlyReportsLate
  <2> QED BY <2>1, <2>5, <2>6
<1>5. ASSUME NEW i \in Ids, TimeoutPasses(i) PROVE EarlyInv'
  <2>1. /\ i \in DOMAIN pending /\ pending' = [pending EXCEPT ![i].late = TRUE]
        /\ UNCHANGED <<premature, sent, limits>> /\ pending[i] \in Tracked0
    BY <1>1, <1>5 DEF TimeoutPasses, history, OrderShapes
  <2>2. /\ DOMAIN pending' = DOMAIN pending /\ pending'[i] = [pending[i] EXCEPT !.late = TRUE]
        /\ \A j \in DOMAIN pending \ {i} : pending'[j] = pending[j]
    BY <2>1
  <2>3. pending'[i].action = pending[i].action /\ pending'[i].late
    BY <2>1, <2>2 DEF Tracked0
  <2>4. \A j \in Opening' : j \in Opening /\ (pending'[j].late = pending[j].late \/ pending'[j].late)
    BY <2>2, <2>3 DEF Opening
  <2>5. \A j \in Opening' :
          \/ j \in Opening /\ pending'[j].late = pending[j].late
          \/ j \in Opening /\ pending'[j].late
          \/ j \in Ids /\ j > sent
    BY <2>4
  <2>6. sent <= sent' /\ UNCHANGED premature /\ limits' = limits
    BY <1>1, <2>1
  <2> QED BY <1>1, <2>5, <2>6, EarlyKept
<1>6. ASSUME DrainInbox PROVE EarlyInv'
  <2> DEFINE m == Head(inbox)
  <2>1. /\ UNCHANGED <<premature, sent>> /\ m \in Answer
    BY <1>6 DEF DrainInbox, LiveInv, Shapes, WireShapes
  <2>2. /\ DOMAIN limits' \subseteq DOMAIN limits
        /\ \/ pending' = pending \/ pending' = Without(pending, {m.id})
           \/ m.id \in DOMAIN pending /\ pending' = [pending EXCEPT ![m.id].ref = m.ref]
    BY <1>6 DEF DrainInbox, HandleSubmitResponse, HandleLimitSubmitResponse, Confirm,
       HandleModifyResponse, HandleCancelResponse, HandleQueryResponse, HandlePositionResponse,
       HandleTradesResponse, Without
  <2> HIDE DEF m
  <2>3. m.id \in DOMAIN pending =>
          LET p == [pending[m.id] EXCEPT !.ref = m.ref]
          IN  p.action = pending[m.id].action /\ p.late = pending[m.id].late
    BY <1>1 DEF OrderShapes, Tracked0
  <2>4. \A j \in DOMAIN pending' : /\ j \in DOMAIN pending
          /\ pending'[j].action = pending[j].action /\ pending'[j].late = pending[j].late
    BY <2>2, <2>3 DEF Without
  <2>5. \A j \in Opening' : j \in Opening /\ pending'[j].late = pending[j].late
    BY <2>4 DEF Opening
  <2> QED BY <1>1, <2>1, <2>2, <2>5, EarlyKept
<1>7. ASSUME UNCHANGED <<premature, sent>>, DOMAIN limits' \subseteq DOMAIN limits,
             \A j \in DOMAIN pending' : j \in DOMAIN pending /\ pending'[j] = pending[j]
      PROVE  EarlyInv'
  <2>1. \A j \in Opening' : j \in Opening /\ pending'[j] = pending[j]
    BY <1>7 DEF Opening
  <2> QED BY <1>1, <1>7, <2>1, EarlyKept
<1>8. ASSUME NEW i \in Ids, PollPending(i) PROVE EarlyInv'
  BY <1>7, <1>8 DEF PollPending, Without
<1>9. ASSUME NEW i \in Ids, PollActive(i) \/ CancelLimitOrder(i) \/ (\E p \in Prices : ModifyLimitOrder(i, p))
      PROVE  EarlyInv'
  BY <1>7, <1>9 DEF PollActive, CancelLimitOrder, ModifyLimitOrder, history
<1>10. CASE CloseAllRemainingOrders
  BY <1>7, <1>10 DEF CloseAllRemainingOrders, Empty
<1>11. CASE \/ \E tick \in BOOLEAN : StartCycle(tick)
            \/ InboxDrained \/ PendingPolled \/ TimeoutsHandled \/ CycleEnds
            \/ Reconcile \/ StopWorker \/ Done \/ UNCHANGED vars \/ WorkerTakes
            \/ \E ref \in DOMAIN book : BrokerFills(ref) \/ BrokerDrops(ref)
            \/ \E i \in Ids, l \in Levels : ModifyPosition(i, l)
  <2>1. UNCHANGED <<premature, local>>
    BY <1>11 DEF StartCycle, InboxDrained, PendingPolled, TimeoutsHandled, CycleEnds, Reconcile,
         StopWorker, Done, vars, WorkerTakes, BrokerFills, BrokerDrops, ModifyPosition, history
  <2> QED BY <1>7, <2>1 DEF local
<1>12. CASE Dispatch
  <2>1. PICK job \in {worker[k] : k \in DOMAIN worker} :
          \/ DispatchSubmit(job) \/ DispatchEdit(job) \/ DispatchCancel(job)
          \/ DispatchQuery(job) \/ DispatchPosition(job) \/ DispatchTrades(job)
    BY <1>12 DEF Dispatch
  <2>2. PICK ref, st : Answered(job, ref, st)
    <3>1. CASE DispatchSubmit(job)
      BY <3>1 DEF DispatchSubmit, Acknowledged, Refused
    <3>2. CASE DispatchEdit(job) \/ DispatchCancel(job)
      BY <3>2 DEF DispatchEdit, DispatchCancel, Acknowledged, Refused
    <3>3. CASE DispatchQuery(job) \/ DispatchPosition(job) \/ DispatchTrades(job)
      BY <3>3 DEF DispatchQuery, DispatchPosition, DispatchTrades, Acknowledged, Refused
    <3> QED BY <2>1, <3>1, <3>2, <3>3
  <2>3. UNCHANGED <<premature, local>>
    BY <2>2 DEF Answered
  <2> QED BY <1>7, <2>3 DEF local
<1> QED BY <1>2, <1>3, <1>4, <1>5, <1>6, <1>8, <1>9, <1>10, <1>11, <1>12
        DEF Next, Algorithm, Cycle, Worker

\* However answers, polls, timeouts and cancels overlap, an order of the live
\* executor is tracked in one place until it is reported once; a rejection
\* reported ahead of that is one of a market order that timed out before its
\* submission was answered (live_trade_executor.py, the handlers of the
\* drained answers and _handle_timeout).
THEOREM LiveOneOutcome ==
  Spec => []OneOutcome
<1>1. Init => LiveInv
  BY InitGood
<1>2. Init => EarlyInv
  BY DEF Init, EarlyInv, EarlyReportsLate
<1>3. LiveInv /\ EarlyInv /\ [Next]_vars => LiveInv' /\ EarlyInv'
  BY EveryStep, EarlyStep DEF Good, LiveInv
<1>4. LiveInv /\ EarlyInv => OneOutcome
  BY DEF LiveInv, OrderInv, EarlyInv, OneOutcome
<1> QED BY <1>1, <1>2, <1>3, <1>4, PTL DEF Spec

\* The live executor keeps the same promise about every order as the
\* simulator: it implements OrderLifecycle (live_trade_executor.py against
\* abstract_trade_executor.py's common contract).
THEOREM LiveImplementsLifecycle ==
  Spec => ImplementsLifecycle
<1>1. Init => LiveInv /\ Lifecycle!Init
  BY InitGood
<1>2. LiveInv /\ [Next]_vars => LiveInv' /\ Lifecycle!Next
  BY EveryStep DEF Good, LiveInv
<1> QED BY <1>1, <1>2, PTL DEF Spec, ImplementsLifecycle, Lifecycle!Spec

-----------------------------------------------------------------------------
(* The local price of a resting order                                       *)
(*                                                                          *)
(* A request is the submission, an edit or a cancel of a limit order, or    *)
(* the answer to one.  There is at most one of an order on the wire, and it *)
(* says what its order is waiting for.                                      *)

Requests(x) == x.kind \in {"edit", "cancel"} \/ (x.kind = "submit" /\ x.type = "LIMIT")
Requested(q) == {q[k].id : k \in {j \in DOMAIN q : Requests(q[j])}}
Single(q) ==
  \A j, k \in DOMAIN q : Requests(q[j]) /\ Requests(q[k]) /\ q[j].id = q[k].id => j = k
Items(q) == {q[k] : k \in DOMAIN q}

RequestedOnce ==
  /\ Single(outbox) /\ Single(worker) /\ Single(inbox)
  /\ Requested(outbox) \cap Requested(worker) = {}
  /\ Requested(outbox) \cap Requested(inbox) = {}
  /\ Requested(worker) \cap Requested(inbox) = {}

\* The broker's order has this id and, in the second form, this price, of
\* which nothing is known once the answer to an edit of the order was lost.
Owns(ref, i) == ref \in DOMAIN book /\ book[ref].id = i
OwnsAt(ref, i, price) == Owns(ref, i) /\ ("edit" \in lost[i] \/ book[ref].price = price)

\* What a request that was not made yet says of its order.
JobOf(x, o) ==
  /\ x.kind = "submit" => o.ref = NoRef /\ o.op = "NONE" /\ o.price = x.price
  /\ x.kind = "edit" =>
       /\ o.ref = x.ref /\ o.op = "PENDING_MODIFY" /\ o.mod = x.price
       /\ OwnsAt(o.ref, x.id, o.price)
  /\ x.kind = "cancel" => o.ref # NoRef /\ o.op = "PENDING_CANCEL"

\* What its answer says.
AnswerOf(m, o) ==
  /\ m.kind = "submit" =>
       o.ref = NoRef /\ o.op = "NONE" /\ (m.status = "PENDING" => OwnsAt(m.ref, m.id, o.price))
  /\ m.kind = "edit" =>
       /\ o.ref # NoRef /\ o.op = "PENDING_MODIFY"
       /\ IF m.status = "REJECTED" THEN OwnsAt(o.ref, m.id, o.price)
                                   ELSE OwnsAt(m.ref, m.id, o.mod)
  /\ m.kind = "cancel" => o.ref # NoRef /\ o.op = "PENDING_CANCEL"

JobTrue(x) ==
  Requests(x) =>
    /\ x.id <= sent
    /\ x.kind = "edit" => Owns(x.ref, x.id)
    /\ x.id \in DOMAIN limits => JobOf(x, limits[x.id])
AnswerTrue(m) ==
  Requests(m) =>
    /\ m.id <= sent
    /\ m.id \in DOMAIN limits => AnswerOf(m, limits[m.id])

\* A confirmed order is its broker's, at the price the executor believes.
RefTrue(i) ==
  i \in DOMAIN limits /\ limits[i].ref # NoRef =>
    /\ Owns(limits[i].ref, i)
    /\ limits[i].op # "PENDING_MODIFY" => OwnsAt(limits[i].ref, i, limits[i].price)

PriceInv ==
  /\ RequestedOnce
  /\ \A x \in Items(outbox) \cup Items(worker) : JobTrue(x)
  /\ \A m \in Items(inbox) : AnswerTrue(m)
  /\ \A i \in Ids : RefTrue(i)

-----------------------------------------------------------------------------
(* Queues of requests *)

LEMMA AppendRequests ==
  ASSUME NEW S, NEW q \in Seq(S), NEW x
  PROVE  /\ Requested(Append(q, x)) = Requested(q) \cup (IF Requests(x) THEN {x.id} ELSE {})
         /\ Items(Append(q, x)) = Items(q) \cup {x}
         /\ Single(q) /\ (Requests(x) => x.id \notin Requested(q)) => Single(Append(q, x))
<1> DEFINE p == Append(q, x)
<1>1. /\ DOMAIN p = DOMAIN q \cup {Len(q) + 1} /\ p[Len(q) + 1] = x
      /\ \A k \in DOMAIN q : p[k] = q[k]
  OBVIOUS
<1> HIDE DEF p
<1>2. Requested(p) = Requested(q) \cup (IF Requests(x) THEN {x.id} ELSE {})
  BY <1>1 DEF Requested
<1>3. Items(p) = Items(q) \cup {x}
  BY <1>1 DEF Items
<1>4. \A k \in DOMAIN q : Requests(q[k]) => q[k].id \in Requested(q)
  BY DEF Requested
<1>5. Single(q) /\ (Requests(x) => x.id \notin Requested(q)) => Single(p)
  BY <1>1, <1>4 DEF Single
<1> QED BY <1>2, <1>3, <1>5 DEF p

LEMMA TailRequests ==
  ASSUME NEW S, NEW q \in Seq(S), q # <<>>
  PROVE  /\ Head(q) \in Items(q)
         /\ Items(Tail(q)) \subseteq Items(q)
         /\ Requested(q) = Requested(Tail(q)) \cup (IF Requests(Head(q)) THEN {Head(q).id} ELSE {})
         /\ Single(q) => /\ Single(Tail(q))
                         /\ Requests(Head(q)) => Head(q).id \notin Requested(Tail(q))
<1> DEFINE p == Tail(q)
<1>1. /\ DOMAIN p = 1..(Len(q) - 1) /\ Head(q) = q[1] /\ DOMAIN q = 1..Len(q)
      /\ \A k \in 1..(Len(q) - 1) : p[k] = q[k + 1]
      /\ Len(q) \in Nat /\ Len(q) >= 1
  OBVIOUS
<1> HIDE DEF p
<1>2. ASSUME NEW k \in DOMAIN q, k # 1 PROVE k - 1 \in DOMAIN p /\ p[k - 1] = q[k]
  BY <1>1, <1>2
<1>3. ASSUME NEW k \in DOMAIN p PROVE k + 1 \in DOMAIN q /\ p[k] = q[k + 1] /\ k + 1 # 1 /\ k \in Nat
  BY <1>1, <1>3
<1>4. Head(q) \in Items(q) /\ Items(p) \subseteq Items(q)
  BY <1>1, <1>3 DEF Items
<1>5. Requested(q) = Requested(p) \cup (IF Requests(Head(q)) THEN {Head(q).id} ELSE {})
  <2>1. Requested(p) \subseteq Requested(q)
    BY <1>3 DEF Requested
  <2>2. Requests(Head(q)) => Head(q).id \in Requested(q)
    BY <1>1 DEF Requested
  <2>3. ASSUME NEW k \in DOMAIN q, Requests(q[k])
        PROVE  q[k].id \in Requested(p) \/ (Requests(Head(q)) /\ q[k].id = Head(q).id)
    <3>1. CASE k = 1
      BY <1>1, <2>3, <3>1
    <3>2. CASE k # 1
      BY <1>2, <2>3, <3>2 DEF Requested
    <3> QED BY <3>1, <3>2
  <2>4. Requested(q) \subseteq Requested(p) \cup (IF Requests(Head(q)) THEN {Head(q).id} ELSE {})
    BY <2>3 DEF Requested
  <2> QED BY <2>1, <2>2, <2>4
<1>6. ASSUME Single(q)
      PROVE  Single(p) /\ (Requests(Head(q)) => Head(q).id \notin Requested(p))
  <2>1. ASSUME NEW j \in DOMAIN p, NEW k \in DOMAIN p,
               Requests(p[j]), Requests(p[k]), p[j].id = p[k].id
        PROVE  j = k
    <3>1. j + 1 = k + 1
      BY <1>3, <1>6, <2>1 DEF Single
    <3> QED BY <1>3, <3>1
  <2>2. ASSUME Requests(Head(q)), NEW k \in DOMAIN p, Requests(p[k])
        PROVE  p[k].id # Head(q).id
    BY <1>1, <1>3, <1>6, <2>2 DEF Single
  <2> QED BY <2>1, <2>2 DEF Single, Requested
<1> QED BY <1>4, <1>5, <1>6 DEF p

LEMMA OneItem ==
  ASSUME NEW x
  PROVE  /\ Items(<<x>>) = {x} /\ Items(<<>>) = {}
         /\ Requested(<<x>>) = (IF Requests(x) THEN {x.id} ELSE {}) /\ Requested(<<>>) = {}
         /\ Single(<<x>>) /\ Single(<<>>)
<1> DEFINE q == <<x>>
<1>1. DOMAIN q = {1} /\ q[1] = x
  OBVIOUS
<1> HIDE DEF q
<1>2. Items(q) = {x} /\ Requested(q) = (IF Requests(x) THEN {x.id} ELSE {}) /\ Single(q)
  BY <1>1 DEF Items, Requested, Single
<1>3. Items(<<>>) = {} /\ Requested(<<>>) = {} /\ Single(<<>>)
  BY DEF Items, Requested, Single
<1> QED BY <1>2, <1>3 DEF q

\* A request of an item of a queue is requested there.
LEMMA ItemsRequested ==
  ASSUME NEW q, NEW x \in Items(q), Requests(x)
  PROVE  x.id \in Requested(q)
BY DEF Items, Requested

\* What is on the wire concerns an order; no order has the id 0.
LEMMA ItemIds ==
  ASSUME WireShapes
  PROVE  /\ 0 \notin Ids
         /\ \A x \in Items(outbox) \cup Items(worker) \cup Items(inbox) : x.id \in Ids /\ x.id # 0
<1>1. outbox \in Seq(Asked) /\ worker \in Seq(Asked) /\ inbox \in Seq(Answer)
  BY DEF WireShapes
<1>2. 0 \notin Ids /\ \A x \in Asked \cup Answer : x.id \in Ids
  BY DEF Asked, Answer, Ids
<1>3. Items(outbox) \subseteq Asked /\ Items(worker) \subseteq Asked /\ Items(inbox) \subseteq Answer
  BY <1>1 DEF Items
<1> QED BY <1>2, <1>3

-----------------------------------------------------------------------------
(* One order is touched *)

\* What the executor believes of an order, and the prices of the broker's
\* orders with that id, are as before; the order may be gone.
Untouched(i) ==
  /\ i \in DOMAIN limits' =>
       /\ i \in DOMAIN limits
       /\ limits'[i].ref = limits[i].ref /\ limits'[i].price = limits[i].price
       /\ limits'[i].op = limits[i].op /\ limits'[i].mod = limits[i].mod
  /\ \A ref \in DOMAIN book : book[ref].id = i => book'[ref].price = book[ref].price

\* The broker forgets no order.
BookGrows ==
  \A ref \in DOMAIN book : ref \in DOMAIN book' /\ book'[ref].id = book[ref].id

\* An answer that was lost stays lost.
LossShape == lost \in [Ids -> SUBSET Kinds]
LossGrows == \A i \in Ids : lost[i] \subseteq lost'[i]

\* Losing an answer, or failing to cancel, is all that happens to them.
LEMMA LossStep ==
  ASSUME Shapes, LossShape, [Next]_vars
  PROVE  LossShape' /\ LossGrows
<1>1. ASSUME NEW i \in Ids, NEW kind \in Kinds, Lose(i, kind) PROVE LossShape' /\ LossGrows
  BY <1>1 DEF Lose, LossShape, LossGrows
<1>2. ASSUME NEW refs, CancelSync(refs) PROVE LossShape' /\ LossGrows
  <2>1. PICK done : lost' = [i \in Ids |-> IF \E r \in refs \ done : IsOpen(r) /\ book[r].id = i
                                          THEN lost[i] \cup {"cancel"} ELSE lost[i]]
    BY <1>2 DEF CancelSync
  <2>2. "cancel" \in Kinds
    BY DEF Kinds
  <2> QED BY <2>1, <2>2 DEF LossShape, LossGrows
<1>3. ASSUME UNCHANGED lost PROVE LossShape' /\ LossGrows
  BY <1>3 DEF LossShape, LossGrows
<1>4. CASE Dispatch
  <2>1. PICK job \in {worker[k] : k \in DOMAIN worker} :
          \/ DispatchSubmit(job) \/ DispatchEdit(job) \/ DispatchCancel(job)
          \/ DispatchQuery(job) \/ DispatchPosition(job) \/ DispatchTrades(job)
    BY <1>4 DEF Dispatch
  <2>2. job.id \in Ids /\ job.kind \in Kinds
    <3>1. worker \in Seq(Asked)
      BY DEF Shapes, WireShapes
    <3>2. job \in Asked
      BY <2>1, <3>1
    <3> QED BY <3>2 DEF Asked
  <2>3. UNCHANGED lost \/ Lose(job.id, job.kind)
    BY <2>1 DEF DispatchSubmit, DispatchEdit, DispatchCancel, DispatchQuery, DispatchPosition,
       DispatchTrades, Acknowledged, Refused
  <2> QED BY <1>1, <1>3, <2>2, <2>3
<1>5. ASSUME NEW i \in Ids, PollPending(i) PROVE LossShape' /\ LossGrows
  <2>1. UNCHANGED lost \/ Lose(i, "query")
    BY <1>5 DEF PollPending
  <2> QED BY <1>1, <1>3, <2>1 DEF Kinds
<1>6. CASE CloseAllRemainingOrders \/ \E i \in Ids : HandleTimeout(i)
  BY <1>2, <1>6 DEF CloseAllRemainingOrders, HandleTimeout
<1>7. CASE Algorithm \/ DrainInbox \/ WorkerTakes
  BY <1>3, <1>7 DEF Algorithm, OpenOrder, ClosePosition, CancelLimitOrder, ModifyLimitOrder,
     ModifyPosition, DrainInbox, WorkerTakes, history
<1>8. CASE \/ \E tick \in BOOLEAN : StartCycle(tick)
           \/ InboxDrained \/ PendingPolled \/ TimeoutsHandled \/ CycleEnds
           \/ Reconcile \/ StopWorker \/ Done \/ UNCHANGED vars
           \/ \E ref \in DOMAIN book : BrokerFills(ref) \/ BrokerDrops(ref)
           \/ \E i \in Ids : PollActive(i) \/ TimeoutPasses(i)
  BY <1>3, <1>8 DEF StartCycle, InboxDrained, PendingPolled, TimeoutsHandled, CycleEnds, Reconcile,
     StopWorker, Done, vars, BrokerFills, BrokerDrops, PollActive, TimeoutPasses, history
<1> QED BY <1>4, <1>5, <1>6, <1>7, <1>8 DEF Next, Cycle, Worker

LEMMA OwnsKept ==
  ASSUME BookGrows, LossGrows, NEW ref, NEW i \in Ids
  PROVE  /\ Owns(ref, i) => Owns(ref, i)'
         /\ Untouched(i) => \A price : OwnsAt(ref, i, price) => OwnsAt(ref, i, price)'
BY DEF BookGrows, LossGrows, Untouched, Owns, OwnsAt

LEMMA RequestKept ==
  ASSUME BookGrows, LossGrows, sent \in Nat, sent' \in Nat, sent <= sent', NEW x, x.id \in Ids,
         x.id \in Nat, Untouched(x.id)
  PROVE  /\ JobTrue(x) => JobTrue(x)'
         /\ AnswerTrue(x) => AnswerTrue(x)'
<1>1. x.id <= sent => x.id <= sent'
  OBVIOUS
<1>2. \A ref : Owns(ref, x.id) => Owns(ref, x.id)'
  BY OwnsKept
<1>3. \A ref, price : OwnsAt(ref, x.id, price) => OwnsAt(ref, x.id, price)'
  BY OwnsKept
<1>4. CASE x.id \in DOMAIN limits'
  <2>1. /\ x.id \in DOMAIN limits
        /\ limits'[x.id].ref = limits[x.id].ref /\ limits'[x.id].price = limits[x.id].price
        /\ limits'[x.id].op = limits[x.id].op /\ limits'[x.id].mod = limits[x.id].mod
    BY <1>4 DEF Untouched
  <2> HIDE DEF Owns, OwnsAt
  <2>2. JobOf(x, limits[x.id]) => JobOf(x, limits[x.id])'
    BY <1>3, <2>1 DEF JobOf
  <2>3. AnswerOf(x, limits[x.id]) => AnswerOf(x, limits[x.id])'
    BY <1>3, <2>1 DEF AnswerOf
  <2> QED BY <1>1, <1>2, <2>1, <2>2, <2>3 DEF JobTrue, AnswerTrue
<1>5. CASE x.id \notin DOMAIN limits'
  BY <1>1, <1>2, <1>5 DEF JobTrue, AnswerTrue
<1> QED BY <1>4, <1>5

LEMMA RefKept ==
  ASSUME BookGrows, LossGrows, NEW i \in Ids, Untouched(i), RefTrue(i)
  PROVE  RefTrue(i)'
<1>1. \A ref : Owns(ref, i) => Owns(ref, i)'
  BY OwnsKept
<1>2. \A ref, price : OwnsAt(ref, i, price) => OwnsAt(ref, i, price)'
  BY OwnsKept
<1> QED BY <1>1, <1>2 DEF RefTrue, Untouched

\* A step that touches order n only, and puts nothing on the wire but what
\* is true of the next state.
LEMMA TouchesOrder ==
  ASSUME Shapes, Shapes', PriceInv, LossGrows, RequestedOnce', sent <= sent', BookGrows, NEW n,
         \A i \in Ids \ {n} : Untouched(i),
         \A x \in Items(outbox') \cup Items(worker') :
           \/ x \in Items(outbox) \cup Items(worker) /\ (Requests(x) => x.id # n)
           \/ JobTrue(x)',
         \A m \in Items(inbox') :
           \/ m \in Items(inbox) /\ (Requests(m) => m.id # n)
           \/ AnswerTrue(m)',
         n \in Ids => RefTrue(n)'
  PROVE  PriceInv'
<1>1. sent \in Nat /\ sent' \in Nat /\ Ids \subseteq Nat
  BY DEF Shapes, OrderShapes, Ids
<1>2. \A x \in Items(outbox) \cup Items(worker) \cup Items(inbox) : x.id \in Ids
  BY ItemIds DEF Shapes
<1>3. ASSUME NEW x \in Items(outbox') \cup Items(worker') PROVE JobTrue(x)'
  <2>1. CASE x \in Items(outbox) \cup Items(worker) /\ x.id # n
    <3>1. JobTrue(x) /\ x.id \in Ids /\ x.id \in Nat /\ Untouched(x.id)
      BY <1>1, <1>2, <2>1 DEF PriceInv
    <3> QED BY <1>1, <3>1, RequestKept
  <2>2. CASE ~Requests(x)
    BY <2>2 DEF JobTrue
  <2> QED BY <1>3, <2>1, <2>2
<1>4. ASSUME NEW m \in Items(inbox') PROVE AnswerTrue(m)'
  <2>1. CASE m \in Items(inbox) /\ m.id # n
    <3>1. AnswerTrue(m) /\ m.id \in Ids /\ m.id \in Nat /\ Untouched(m.id)
      BY <1>1, <1>2, <2>1 DEF PriceInv
    <3> QED BY <1>1, <3>1, RequestKept
  <2>2. CASE ~Requests(m)
    BY <2>2 DEF AnswerTrue
  <2> QED BY <1>4, <2>1, <2>2
<1>5. \A i \in Ids : RefTrue(i)'
  BY RefKept DEF PriceInv
<1> HIDE DEF JobTrue, AnswerTrue, RefTrue
<1> QED BY <1>3, <1>4, <1>5 DEF PriceInv

-----------------------------------------------------------------------------
(* The steps *)

\* The main thread asks for nothing, or for something that may be asked.
LEMMA AskedOnce ==
  ASSUME WireShapes, RequestedOnce, UNCHANGED worker, Single(inbox'),
         Requested(inbox') \subseteq Requested(inbox),
         \/ outbox' = outbox
         \/ \E x : /\ outbox' = Append(outbox, x)
                   /\ Requests(x) =>
                        x.id \notin Requested(outbox) \cup Requested(worker) \cup Requested(inbox')
  PROVE  RequestedOnce'
<1>1. CASE outbox' = outbox
  BY <1>1 DEF RequestedOnce
<1>2. ASSUME NEW x, outbox' = Append(outbox, x),
             Requests(x) =>
               x.id \notin Requested(outbox) \cup Requested(worker) \cup Requested(inbox')
      PROVE  RequestedOnce'
  <2>1. outbox \in Seq(Asked)
    BY DEF WireShapes
  <2>2. /\ Requested(outbox') = Requested(outbox) \cup (IF Requests(x) THEN {x.id} ELSE {})
        /\ Single(outbox')
    BY <1>2, <2>1, AppendRequests DEF RequestedOnce
  <2> QED BY <1>2, <2>2 DEF RequestedOnce
<1> QED BY <1>1, <1>2

LEMMA AskedItems ==
  ASSUME WireShapes, NEW x, outbox' = Append(outbox, x)
  PROVE  Items(outbox') = Items(outbox) \cup {x}
BY AppendRequests DEF WireShapes

\* Nobody touches a limit order, and no request is made.
AsksElse ==
  \/ outbox' = outbox
  \/ \E x : ~Requests(x) /\ outbox' = Append(outbox, x)

LEMMA QuietStep ==
  ASSUME Shapes, Shapes', PriceInv, LossGrows, sent <= sent', BookGrows, \A i \in Ids : Untouched(i),
         AsksElse, UNCHANGED worker,
         inbox' = inbox \/ (inbox # <<>> /\ inbox' = Tail(inbox))
  PROVE  PriceInv'
<1>1. WireShapes /\ inbox \in Seq(Answer) /\ RequestedOnce
  BY DEF Shapes, WireShapes, PriceInv
<1>2. Items(inbox') \subseteq Items(inbox) /\ Single(inbox') /\ Requested(inbox') \subseteq Requested(inbox)
  <2>1. Single(inbox)
    BY <1>1 DEF RequestedOnce
  <2>2. CASE inbox' = inbox
    BY <2>1, <2>2
  <2>3. CASE inbox # <<>> /\ inbox' = Tail(inbox)
    BY <1>1, <2>1, <2>3, TailRequests
  <2> QED BY <2>2, <2>3
<1>3. RequestedOnce'
  BY <1>1, <1>2, AskedOnce DEF AsksElse
<1>4. \A x \in Items(outbox') : x \in Items(outbox) \/ ~Requests(x)
  BY <1>1, AskedItems DEF AsksElse
<1>5. 0 \notin Ids
  BY <1>1, ItemIds
<1>6. \A x : ~Requests(x) => JobTrue(x)'
  BY DEF JobTrue
<1>7. \A x \in Items(outbox) \cup Items(worker) \cup Items(inbox) : x.id # 0
  BY <1>1, ItemIds
<1>8. /\ \A x \in Items(outbox') \cup Items(worker') :
           \/ x \in Items(outbox) \cup Items(worker) /\ (Requests(x) => x.id # 0)
           \/ JobTrue(x)'
      /\ \A m \in Items(inbox') :
           \/ m \in Items(inbox) /\ (Requests(m) => m.id # 0)
           \/ AnswerTrue(m)'
  BY <1>2, <1>4, <1>6, <1>7
<1> HIDE DEF JobTrue, AnswerTrue, RefTrue, Untouched, BookGrows, RequestedOnce, PriceInv
<1> QED BY <1>3, <1>5, <1>8, TouchesOrder

\* The book is as it was, but for the status of some orders.
LEMMA SameBook ==
  ASSUME book \in Seq(BookRecord), DOMAIN book' = DOMAIN book,
         \A ref \in DOMAIN book :
           book'[ref] = book[ref] \/ \E st : book'[ref] = [book[ref] EXCEPT !.status = st]
  PROVE  BookGrows /\ \A ref \in DOMAIN book : book'[ref].price = book[ref].price
<1>1. ASSUME NEW ref \in DOMAIN book
      PROVE  book'[ref].id = book[ref].id /\ book'[ref].price = book[ref].price
  <2>1. book[ref] \in BookRecord
    BY <1>1
  <2>2. ASSUME NEW st, book'[ref] = [book[ref] EXCEPT !.status = st]
        PROVE  book'[ref].id = book[ref].id /\ book'[ref].price = book[ref].price
    BY <2>1, <2>2 DEF BookRecord
  <2> QED BY <1>1, <2>2
<1> QED BY <1>1 DEF BookGrows

\* A fill asks for the trades at most, a rejection for nothing.
LEMMA FillsElse ==
  ASSUME NEW i, NEW action, NEW ref,
         FillOpen(i, ref) \/ Fill(i, action, ref) \/ Reject(i, action) \/ NoFill
  PROVE  AsksElse
<1>1. ~Requests(OrderJob("trades", i, ref, 0))
  BY DEF Requests, OrderJob
<1> QED BY <1>1 DEF AsksElse, FillOpen, Fill, Reject, NoFill

\* Statuses may change at the broker, and limit orders disappear or be asked
\* about.
LEMMA StatusStep ==
  ASSUME Shapes, Shapes', PriceInv, LossGrows, sent <= sent', AsksElse, UNCHANGED worker,
         inbox' = inbox \/ (inbox # <<>> /\ inbox' = Tail(inbox)),
         DOMAIN book' = DOMAIN book,
         \A ref \in DOMAIN book :
           book'[ref] = book[ref] \/ \E st : book'[ref] = [book[ref] EXCEPT !.status = st],
         \A i \in DOMAIN limits' :
           /\ i \in DOMAIN limits
           /\ limits'[i].ref = limits[i].ref /\ limits'[i].price = limits[i].price
           /\ limits'[i].op = limits[i].op /\ limits'[i].mod = limits[i].mod
  PROVE  PriceInv'
<1>1. book \in Seq(BookRecord)
  BY DEF Shapes, WireShapes
<1>2. BookGrows /\ \A ref \in DOMAIN book : book'[ref].price = book[ref].price
  BY <1>1, SameBook
<1>3. \A i \in Ids : Untouched(i)
  BY <1>2 DEF Untouched
<1> QED BY <1>2, <1>3, QuietStep

\* Everybody but the algorithm, the worker and the handlers of answers.
LEMMA OthersPrice ==
  ASSUME Shapes, Shapes', PriceInv, LossGrows,
         \/ \E tick \in BOOLEAN : StartCycle(tick)
         \/ InboxDrained \/ PendingPolled \/ TimeoutsHandled \/ CycleEnds
         \/ Reconcile \/ StopWorker \/ Done \/ UNCHANGED vars
         \/ \E ref \in DOMAIN book : BrokerFills(ref) \/ BrokerDrops(ref)
  PROVE  PriceInv'
<1>1. UNCHANGED <<limits, sent, outbox, worker, inbox>> /\ AsksElse
  BY DEF StartCycle, InboxDrained, PendingPolled, TimeoutsHandled, CycleEnds, Reconcile,
         StopWorker, Done, vars, BrokerFills, BrokerDrops, local, queues, AsksElse
<1>2. /\ DOMAIN book' = DOMAIN book
      /\ \A ref \in DOMAIN book :
           book'[ref] = book[ref] \/ \E st : book'[ref] = [book[ref] EXCEPT !.status = st]
  <2>1. ASSUME NEW r \in DOMAIN book, BrokerFills(r) \/ BrokerDrops(r)
        PROVE  /\ DOMAIN book' = DOMAIN book
               /\ \A ref \in DOMAIN book :
                    book'[ref] = book[ref] \/ \E st : book'[ref] = [book[ref] EXCEPT !.status = st]
    <3>1. PICK st : book' = [book EXCEPT ![r].status = st]
      BY <2>1 DEF BrokerFills, BrokerDrops
    <3>2. DOMAIN book' = DOMAIN book /\ book'[r] = [book[r] EXCEPT !.status = st]
          /\ \A ref \in DOMAIN book \ {r} : book'[ref] = book[ref]
      BY <3>1
    <3> QED BY <3>2
  <2>2. (\A ref \in DOMAIN book : ~(BrokerFills(ref) \/ BrokerDrops(ref))) => book' = book
    BY DEF StartCycle, InboxDrained, PendingPolled, TimeoutsHandled, CycleEnds, Reconcile,
           StopWorker, Done, vars
  <2> QED BY <2>1, <2>2
<1>3. sent <= sent' /\ \A i \in DOMAIN limits' :
        /\ i \in DOMAIN limits
        /\ limits'[i].ref = limits[i].ref /\ limits'[i].price = limits[i].price
        /\ limits'[i].op = limits[i].op /\ limits'[i].mod = limits[i].mod
  BY <1>1 DEF Shapes, OrderShapes
<1> QED BY <1>1, <1>2, <1>3, StatusStep

\* Synchronous polls and timeouts of market orders, and the end.
LEMMA MarketPrice ==
  ASSUME Shapes, Shapes', PriceInv, LossGrows,
         \/ \E i \in Ids : PollPending(i) \/ HandleTimeout(i) \/ TimeoutPasses(i)
         \/ CloseAllRemainingOrders
  PROVE  PriceInv'
<1>1. UNCHANGED <<limits, sent, worker, inbox>>
  BY DEF PollPending, HandleTimeout, TimeoutPasses, CloseAllRemainingOrders, queues
<1>2. AsksElse
  <2>1. ASSUME NEW i \in Ids, PollPending(i) PROVE AsksElse
    BY <2>1, FillsElse DEF PollPending
  <2>2. ASSUME NEW i \in Ids, HandleTimeout(i) PROVE AsksElse
    BY <2>2, FillsElse DEF HandleTimeout
  <2>3. ASSUME outbox' = outbox PROVE AsksElse
    BY <2>3 DEF AsksElse
  <2> QED BY <2>1, <2>2, <2>3 DEF TimeoutPasses, CloseAllRemainingOrders, queues
<1>3. /\ DOMAIN book' = DOMAIN book
      /\ \A ref \in DOMAIN book :
           book'[ref] = book[ref] \/ \E st : book'[ref] = [book[ref] EXCEPT !.status = st]
  <2>1. ASSUME NEW refs, CancelSync(refs)
        PROVE  /\ DOMAIN book' = DOMAIN book
               /\ \A ref \in DOMAIN book :
                    book'[ref] = book[ref] \/ \E st : book'[ref] = [book[ref] EXCEPT !.status = st]
    <3>1. PICK done : book' = [r \in DOMAIN book |->
                        IF r \in done THEN [book[r] EXCEPT !.status = "gone"] ELSE book[r]]
      BY <2>1 DEF CancelSync
    <3> QED BY <3>1
  <2>2. book' = book \/ \E refs : CancelSync(refs)
    BY DEF PollPending, HandleTimeout, TimeoutPasses, CloseAllRemainingOrders
  <2> QED BY <2>1, <2>2
<1>4. sent <= sent' /\ \A i \in DOMAIN limits' :
        /\ i \in DOMAIN limits
        /\ limits'[i].ref = limits[i].ref /\ limits'[i].price = limits[i].price
        /\ limits'[i].op = limits[i].op /\ limits'[i].mod = limits[i].mod
  BY <1>1 DEF Shapes, OrderShapes
<1> QED BY <1>1, <1>2, <1>3, <1>4, StatusStep

\* A limit order without a pending change is not being asked about anything
\* that would change it, and neither is an order that was not sent.
LEMMA NothingAsked ==
  ASSUME PriceInv, NEW i \in Requested(outbox) \cup Requested(worker) \cup Requested(inbox)
  PROVE  /\ i <= sent
         /\ i \in DOMAIN limits => limits[i].ref = NoRef \/ limits[i].op # "NONE"
<1>1. CASE i \in Requested(outbox) \cup Requested(worker)
  <2>1. PICK x \in Items(outbox) \cup Items(worker) : Requests(x) /\ x.id = i
    BY <1>1 DEF Requested, Items
  <2>2. JobTrue(x)
    BY <2>1 DEF PriceInv
  <2> QED BY <2>1, <2>2 DEF JobTrue, JobOf, Requests
<1>2. CASE i \in Requested(inbox)
  <2>1. PICK x \in Items(inbox) : Requests(x) /\ x.id = i
    BY <1>2 DEF Requested, Items
  <2>2. AnswerTrue(x)
    BY <2>1 DEF PriceInv
  <2> QED BY <2>1, <2>2 DEF AnswerTrue, AnswerOf, Requests
<1> QED BY <1>1, <1>2

\* A request is made, of an order of which there is none on the wire.
LEMMA NewRequest ==
  ASSUME Shapes, Shapes', PriceInv, LossGrows, NEW n, NEW x, x.id = n, outbox' = Append(outbox, x),
         UNCHANGED <<worker, inbox, book>>, sent <= sent',
         n \notin Requested(outbox) \cup Requested(worker) \cup Requested(inbox),
         \A i \in DOMAIN limits' \ {n} : i \in DOMAIN limits /\ limits'[i] = limits[i],
         JobTrue(x)', RefTrue(n)'
  PROVE  PriceInv'
<1>1. WireShapes /\ RequestedOnce
  BY DEF Shapes, PriceInv
<1>2. RequestedOnce'
  BY <1>1, AskedOnce DEF RequestedOnce
<1>3. BookGrows /\ \A i \in Ids \ {n} : Untouched(i)
  BY DEF BookGrows, Untouched
<1>4. \A y \in Items(outbox) \cup Items(worker) \cup Items(inbox) : Requests(y) => y.id # n
  BY ItemsRequested
<1>5. Items(outbox') = Items(outbox) \cup {x}
  BY <1>1, AskedItems
<1> HIDE DEF JobTrue, AnswerTrue, RefTrue, Untouched, BookGrows, RequestedOnce, PriceInv
<1>6. /\ \A y \in Items(outbox') \cup Items(worker') :
           \/ y \in Items(outbox) \cup Items(worker) /\ (Requests(y) => y.id # n)
           \/ JobTrue(y)'
      /\ \A m \in Items(inbox') :
           \/ m \in Items(inbox) /\ (Requests(m) => m.id # n)
           \/ AnswerTrue(m)'
  BY <1>4, <1>5
<1> QED BY <1>2, <1>3, <1>6, TouchesOrder

LEMMA OpenPrice ==
  ASSUME Shapes, Shapes', PriceInv, LossGrows, NEW type \in {"MARKET", "LIMIT"}, NEW price \in Nat,
         OpenOrder(type, price)
  PROVE  PriceInv'
<1>1. PICK id : id = sent + 1
  OBVIOUS
<1>2. id \in Ids /\ sent' = id /\ UNCHANGED <<worker, inbox, book>> /\ sent \in Nat /\ sent <= sent'
      /\ ~(id <= sent) /\ id <= sent'
  BY <1>1 DEF OpenOrder, Shapes, OrderShapes
<1>3. CASE type = "LIMIT" /\ limits' = Put(limits, id, NewLimit(price))
               /\ outbox' = Append(outbox, SubmitJob(id, "LIMIT", "OPEN", price))
  <2>1. PICK x : x = SubmitJob(id, "LIMIT", "OPEN", price)
    OBVIOUS
  <2>2. /\ x.id = id /\ x.kind = "submit" /\ x.price = price /\ outbox' = Append(outbox, x)
        /\ NewLimit(price).ref = NoRef /\ NewLimit(price).op = "NONE" /\ NewLimit(price).price = price
    BY <1>3, <2>1 DEF SubmitJob, NewLimit
  <2>3. id \notin Requested(outbox) \cup Requested(worker) \cup Requested(inbox)
    BY <1>2, NothingAsked
  <2>4. /\ id \in DOMAIN limits' /\ limits'[id] = NewLimit(price)
        /\ \A i \in DOMAIN limits' \ {id} : i \in DOMAIN limits /\ limits'[i] = limits[i]
    BY <1>3 DEF Put
  <2>5. JobTrue(x)' /\ RefTrue(id)'
    BY <1>2, <2>2, <2>4 DEF JobTrue, JobOf, RefTrue
  <2> HIDE DEF JobTrue, RefTrue, PriceInv
  <2> QED BY <1>2, <2>2, <2>3, <2>4, <2>5, NewRequest
<1>4. CASE limits' = limits /\ (outbox' = outbox \/ outbox' = Append(outbox, SubmitJob(id, "MARKET", "OPEN", 0)))
  <2>1. AsksElse
    BY <1>4 DEF AsksElse, Requests, SubmitJob
  <2> QED BY <1>2, <1>4, <2>1, StatusStep DEF Shapes, OrderShapes
<1> QED BY <1>1, <1>3, <1>4 DEF OpenOrder

LEMMA CallPrice ==
  ASSUME Shapes, Shapes', Unsent, PriceInv, LossGrows, NEW i \in Ids,
         \/ ClosePosition(i) \/ CancelLimitOrder(i) \/ PollActive(i)
         \/ \E p \in Prices : ModifyLimitOrder(i, p)
         \/ \E l \in Levels : ModifyPosition(i, l)
  PROVE  PriceInv'
<1>1. UNCHANGED <<worker, inbox, book, sent, lost>> /\ sent <= sent'
  <2>1. UNCHANGED <<worker, inbox, book, sent, lost>>
    BY DEF ClosePosition, CancelLimitOrder, PollActive, ModifyLimitOrder, ModifyPosition, local, history
  <2> QED BY <2>1 DEF Shapes, OrderShapes
<1>2. ASSUME limits' = limits, AsksElse PROVE PriceInv'
  BY <1>1, <1>2, StatusStep
<1>3. ASSUME NEW r, i \in DOMAIN limits, limits' = [limits EXCEPT ![i] = r], AsksElse,
             r.ref = limits[i].ref, r.price = limits[i].price, r.op = limits[i].op,
             r.mod = limits[i].mod
      PROVE  PriceInv'
  <2>1. \A j \in DOMAIN limits' :
          /\ j \in DOMAIN limits
          /\ limits'[j].ref = limits[j].ref /\ limits'[j].price = limits[j].price
          /\ limits'[j].op = limits[j].op /\ limits'[j].mod = limits[j].mod
    BY <1>3
  <2> QED BY <1>1, <1>3, <2>1, StatusStep
<1>4. ASSUME NEW r, NEW kind \in {"edit", "cancel"}, NEW price,
             i \in DOMAIN limits, limits[i].ref # NoRef, limits[i].op = "NONE",
             limits' = [limits EXCEPT ![i] = r],
             outbox' = Append(outbox, OrderJob(kind, i, limits[i].ref, price)),
             r.ref = limits[i].ref, r.price = limits[i].price,
             kind = "edit" => r.op = "PENDING_MODIFY" /\ r.mod = price,
             kind = "cancel" => r.op = "PENDING_CANCEL"
      PROVE  PriceInv'
  <2>1. PICK x : x = OrderJob(kind, i, limits[i].ref, price)
    OBVIOUS
  <2>2. /\ x.id = i /\ x.kind = kind /\ x.ref = limits[i].ref /\ x.price = price
        /\ outbox' = Append(outbox, x)
    BY <1>4, <2>1 DEF OrderJob
  <2>3. i \notin Requested(outbox) \cup Requested(worker) \cup Requested(inbox)
    BY <1>4, NothingAsked
  <2>4. Owns(limits[i].ref, i) /\ OwnsAt(limits[i].ref, i, limits[i].price)
    BY <1>4 DEF PriceInv, RefTrue
  <2>5. i <= sent
    BY <1>4 DEF Unsent, Shapes, OrderShapes, Ids
  <2>6. /\ i \in DOMAIN limits' /\ limits'[i] = r
        /\ \A j \in DOMAIN limits' \ {i} : j \in DOMAIN limits /\ limits'[j] = limits[j]
    BY <1>4
  <2>7. JobTrue(x)' /\ RefTrue(i)'
    BY <1>1, <1>4, <2>2, <2>4, <2>5, <2>6 DEF JobTrue, JobOf, RefTrue, Owns, OwnsAt
  <2> HIDE DEF JobTrue, RefTrue, PriceInv
  <2> QED BY <1>1, <2>2, <2>3, <2>6, <2>7, NewRequest
<1>5. CASE ClosePosition(i)
  BY <1>2, <1>5 DEF ClosePosition, AsksElse, Requests, SubmitJob
<1>6. ASSUME NEW l \in Levels, ModifyPosition(i, l) PROVE PriceInv'
  <2>1. [OrderJob("position", i, NoRef, l) EXCEPT !.type = "MARKET"].kind = "position"
    BY DEF OrderJob
  <2> QED BY <1>2, <1>6, <2>1 DEF ModifyPosition, AsksElse, Requests, local
<1>7. \A j \in DOMAIN limits : limits[j] \in Resting
  BY DEF Shapes, OrderShapes
<1>8. CASE PollActive(i)
  <2>1. PICK r : r = [limits[i] EXCEPT !.query = TRUE]
    OBVIOUS
  <2>2. /\ i \in DOMAIN limits /\ limits' = [limits EXCEPT ![i] = r]
        /\ r.ref = limits[i].ref /\ r.price = limits[i].price /\ r.op = limits[i].op
        /\ r.mod = limits[i].mod
    BY <1>7, <1>8, <2>1 DEF PollActive, Resting
  <2>3. AsksElse
    BY <1>8 DEF PollActive, AsksElse, Requests, OrderJob
  <2> QED BY <1>3, <2>2, <2>3
<1>9. CASE CancelLimitOrder(i)
  <2>1. CASE limits' = [limits EXCEPT ![i].cancelRequested = TRUE] /\ UNCHANGED outbox
    <3>1. PICK r : r = [limits[i] EXCEPT !.cancelRequested = TRUE]
      OBVIOUS
    <3>2. /\ i \in DOMAIN limits /\ limits' = [limits EXCEPT ![i] = r]
          /\ r.ref = limits[i].ref /\ r.price = limits[i].price /\ r.op = limits[i].op
          /\ r.mod = limits[i].mod
      BY <1>7, <1>9, <2>1, <3>1 DEF CancelLimitOrder, Resting
    <3> QED BY <1>3, <2>1, <3>2 DEF AsksElse
  <2>2. CASE /\ limits[i].ref # NoRef /\ limits[i].op = "NONE"
             /\ limits' = [limits EXCEPT ![i].op = "PENDING_CANCEL"]
             /\ outbox' = Append(outbox, OrderJob("cancel", i, limits[i].ref, 0))
    <3>1. PICK r : r = [limits[i] EXCEPT !.op = "PENDING_CANCEL"]
      OBVIOUS
    <3>2. /\ i \in DOMAIN limits /\ limits' = [limits EXCEPT ![i] = r]
          /\ r.ref = limits[i].ref /\ r.price = limits[i].price /\ r.op = "PENDING_CANCEL"
      BY <1>7, <1>9, <2>2, <3>1 DEF CancelLimitOrder, Resting
    <3> QED BY <1>4, <2>2, <3>2
  <2> QED BY <1>9, <2>1, <2>2 DEF CancelLimitOrder
<1>10. ASSUME NEW p \in Prices, ModifyLimitOrder(i, p) PROVE PriceInv'
  <2>1. PICK r : r = [limits[i] EXCEPT !.op = "PENDING_MODIFY", !.mod = p]
    OBVIOUS
  <2>2. /\ i \in DOMAIN limits /\ limits' = [limits EXCEPT ![i] = r]
        /\ limits[i].ref # NoRef /\ limits[i].op = "NONE"
        /\ outbox' = Append(outbox, OrderJob("edit", i, limits[i].ref, p))
        /\ r.ref = limits[i].ref /\ r.price = limits[i].price /\ r.op = "PENDING_MODIFY" /\ r.mod = p
    BY <1>7, <1>10, <2>1 DEF ModifyLimitOrder, Resting
  <2> QED BY <1>4, <2>2
<1> QED BY <1>5, <1>6, <1>8, <1>9, <1>10

\* The worker takes a job, and everything on the wire stays there.
LEMMA TakesPrice ==
  ASSUME Shapes, Shapes', PriceInv, LossGrows, WorkerTakes
  PROVE  PriceInv'
<1>1. /\ outbox # <<>> /\ worker = <<>> /\ worker' = <<Head(outbox)>> /\ outbox' = Tail(outbox)
      /\ UNCHANGED <<inbox, book, limits, sent>> /\ outbox \in Seq(Asked) /\ RequestedOnce
      /\ sent <= sent' /\ worker \in Seq(Asked) /\ inbox \in Seq(Answer)
  BY DEF WorkerTakes, Shapes, OrderShapes, WireShapes, local, PriceInv
<1>2. /\ Head(outbox) \in Items(outbox) /\ Items(outbox') \subseteq Items(outbox)
      /\ Requested(outbox) = Requested(outbox') \cup (IF Requests(Head(outbox)) THEN {Head(outbox).id} ELSE {})
      /\ Single(outbox')
      /\ Requests(Head(outbox)) => Head(outbox).id \notin Requested(outbox')
  BY <1>1, TailRequests DEF RequestedOnce
<1>3. /\ Items(worker') = {Head(outbox)} /\ Single(worker')
      /\ Requested(worker') = (IF Requests(Head(outbox)) THEN {Head(outbox).id} ELSE {})
  BY <1>1, OneItem
<1>4. RequestedOnce'
  BY <1>1, <1>2, <1>3 DEF RequestedOnce
<1>5. BookGrows /\ \A i \in Ids : Untouched(i)
  BY <1>1 DEF BookGrows, Untouched
<1>6. 0 \notin Ids
  BY ItemIds DEF Shapes
<1>7. \A x \in Items(outbox) \cup Items(inbox) : x.id # 0
  BY ItemIds DEF Shapes
<1> HIDE DEF JobTrue, AnswerTrue, RefTrue, Untouched, BookGrows, RequestedOnce, PriceInv
<1>8. /\ \A x \in Items(outbox') \cup Items(worker') :
           \/ x \in Items(outbox) \cup Items(worker) /\ (Requests(x) => x.id # 0)
           \/ JobTrue(x)'
      /\ \A m \in Items(inbox') :
           \/ m \in Items(inbox) /\ (Requests(m) => m.id # 0)
           \/ AnswerTrue(m)'
  BY <1>1, <1>2, <1>3, <1>7
<1> QED BY <1>1, <1>4, <1>5, <1>6, <1>8, TouchesOrder

\* The worker's job is answered, and the answer is true of what the broker
\* did.
LEMMA AnsweredPrice ==
  ASSUME Shapes, Shapes', PriceInv, LossGrows, NEW job \in Asked, NEW ref \in Nat, NEW st \in Statuses,
         Answered(job, ref, st), BookGrows, \A i \in Ids \ {job.id} : Untouched(i),
         NEW m, m = [kind |-> job.kind, id |-> job.id, type |-> job.type,
                     action |-> job.action, ref |-> ref, status |-> st],
         IF Requests(job) THEN AnswerTrue(m)' /\ RefTrue(job.id)' ELSE Untouched(job.id)
  PROVE  PriceInv'
<1>1. /\ worker = <<job>> /\ worker' = <<>> /\ inbox' = Append(inbox, m)
      /\ UNCHANGED <<outbox, limits, sent>> /\ outbox \in Seq(Asked) /\ inbox \in Seq(Answer)
      /\ RequestedOnce /\ sent <= sent' /\ job.id \in Ids
  BY DEF Answered, Shapes, OrderShapes, WireShapes, local, PriceInv, Asked
<1>2. m.id = job.id /\ (Requests(m) <=> Requests(job))
  BY DEF Requests
<1>3. /\ Items(worker) = {job} /\ Items(worker') = {}
      /\ Requested(worker) = (IF Requests(job) THEN {job.id} ELSE {})
      /\ Requested(worker') = {} /\ Single(worker')
  BY <1>1, OneItem
<1>4. Requests(job) => job.id \notin Requested(outbox) \cup Requested(inbox)
  BY <1>1, <1>3 DEF RequestedOnce
<1>5. /\ Requested(inbox') = Requested(inbox) \cup (IF Requests(m) THEN {m.id} ELSE {})
      /\ Items(inbox') = Items(inbox) \cup {m} /\ Single(inbox')
  BY <1>1, <1>2, <1>4, AppendRequests DEF RequestedOnce
<1>6. RequestedOnce'
  BY <1>1, <1>2, <1>3, <1>4, <1>5 DEF RequestedOnce
<1>7. \A x \in Items(outbox) : Requests(x) /\ Requests(job) => x.id # job.id
  BY <1>4, ItemsRequested
<1>8. \A x \in Items(inbox) : Requests(x) /\ Requests(job) => x.id # job.id
  BY <1>4, ItemsRequested
<1>9. ~Requests(m) => AnswerTrue(m)'
  BY DEF AnswerTrue
<1> HIDE DEF JobTrue, AnswerTrue, RefTrue, Untouched, BookGrows, RequestedOnce, PriceInv
<1>10. CASE Requests(job)
  <2>1. /\ \A x \in Items(outbox') \cup Items(worker') :
             \/ x \in Items(outbox) \cup Items(worker) /\ (Requests(x) => x.id # job.id)
             \/ JobTrue(x)'
        /\ \A y \in Items(inbox') :
             \/ y \in Items(inbox) /\ (Requests(y) => y.id # job.id)
             \/ AnswerTrue(y)'
    BY <1>1, <1>3, <1>5, <1>7, <1>8, <1>10
  <2> QED BY <1>1, <1>6, <1>10, <2>1, TouchesOrder
<1>11. CASE ~Requests(job)
  <2>1. 0 \notin Ids
    BY ItemIds DEF Shapes
  <2>2. \A x \in Items(outbox) \cup Items(inbox) : x.id # 0
    BY ItemIds DEF Shapes
  <2>3. \A i \in Ids \ {0} : Untouched(i)
    BY <1>11
  <2>4. /\ \A x \in Items(outbox') \cup Items(worker') :
             \/ x \in Items(outbox) \cup Items(worker) /\ (Requests(x) => x.id # 0)
             \/ JobTrue(x)'
        /\ \A y \in Items(inbox') :
             \/ y \in Items(inbox) /\ (Requests(y) => y.id # 0)
             \/ AnswerTrue(y)'
    BY <1>1, <1>2, <1>3, <1>5, <1>9, <1>11, <2>2
  <2> QED BY <1>1, <1>6, <2>1, <2>3, <2>4, TouchesOrder
<1> QED BY <1>10, <1>11

\* What the worker does with its job, be its answer lost or not.
LEMMA DispatchPrice ==
  ASSUME Shapes, Shapes', PriceInv, LossShape, LossGrows, Dispatch
  PROVE  PriceInv'
<1>1. PICK job \in {worker[k] : k \in DOMAIN worker} :
        \/ DispatchSubmit(job) \/ DispatchEdit(job) \/ DispatchCancel(job)
        \/ DispatchQuery(job) \/ DispatchPosition(job) \/ DispatchTrades(job)
  BY DEF Dispatch
<1>2. /\ job \in Asked /\ job.id \in Ids /\ job.ref \in Nat /\ job.price \in Nat
      /\ JobTrue(job) /\ RefTrue(job.id) /\ book \in Seq(BookRecord) /\ "REJECTED" \in Statuses
  <2>1. worker \in Seq(Asked) /\ book \in Seq(BookRecord)
    BY DEF Shapes, WireShapes
  <2>2. job \in Asked /\ job \in Items(worker)
    BY <1>1, <2>1 DEF Items
  <2>3. job.id \in Ids /\ job.ref \in Nat /\ job.price \in Nat
    BY <2>2 DEF Asked
  <2>4. JobTrue(job) /\ RefTrue(job.id)
    BY <2>2, <2>3 DEF PriceInv
  <2> QED BY <2>1, <2>2, <2>3, <2>4 DEF Statuses
<1>3. NoRef \notin DOMAIN book
  BY <1>2 DEF NoRef
<1>4. ASSUME NEW ref \in Nat, NEW st \in Statuses, Answered(job, ref, st), BookGrows,
             \A r \in DOMAIN book : book'[r].price = book[r].price,
             job.kind = "edit" => st = "REJECTED",
             job.kind = "submit" /\ st = "PENDING" => OwnsAt(ref, job.id, job.price)'
      PROVE  PriceInv'
  <2>1. limits' = limits /\ sent' = sent
    BY <1>4 DEF Answered, local
  <2>2. \A i : Untouched(i)
    BY <1>4, <2>1 DEF Untouched
  <2>3. PICK m : m = [kind |-> job.kind, id |-> job.id, type |-> job.type,
                      action |-> job.action, ref |-> ref, status |-> st]
    OBVIOUS
  <2>4. m.kind = job.kind /\ m.id = job.id /\ m.type = job.type /\ m.ref = ref /\ m.status = st
    BY <2>3
  <2>5. RefTrue(job.id)'
    BY <1>2, <1>4, <2>2, RefKept
  <2>6. \A r, price : OwnsAt(r, job.id, price) => OwnsAt(r, job.id, price)' /\ r # NoRef
    <3>1. \A r, price : OwnsAt(r, job.id, price) => OwnsAt(r, job.id, price)'
      BY <1>2, <1>4, <2>2, OwnsKept
    <3> QED BY <1>3, <3>1 DEF OwnsAt, Owns
  <2>7. Requests(job) => AnswerTrue(m)'
    <3>1. SUFFICES ASSUME Requests(job) PROVE AnswerTrue(m)'
      OBVIOUS
    <3>2. job.id <= sent /\ (job.id \in DOMAIN limits => JobOf(job, limits[job.id]))
      BY <1>2, <3>1 DEF JobTrue
    <3>3. job.id \in DOMAIN limits => AnswerOf(m, limits[job.id])'
      BY <1>4, <2>1, <2>4, <2>6, <3>2 DEF AnswerOf, JobOf
    <3> QED BY <2>1, <2>4, <3>2, <3>3 DEF AnswerTrue
  <2> HIDE DEF JobTrue, AnswerTrue, RefTrue, Untouched, BookGrows, RequestedOnce, PriceInv
  <2> QED BY <1>2, <1>4, <2>2, <2>3, <2>5, <2>7, AnsweredPrice
<1>5. \/ BookGrows /\ \A r \in DOMAIN book : book'[r].price = book[r].price
      \/ book' # book
  BY DEF BookGrows
<1>6. Refused(job) => PriceInv'
  BY <1>2, <1>4, <1>5 DEF Refused
<1>7. CASE DispatchSubmit(job)
  <2>1. PICK ref : ref = Len(book) + 1
    OBVIOUS
  <2>2. ASSUME NEW x \in BookRecord, book' = Append(book, x), x.id = job.id, x.price = job.price,
               NEW st \in {"PENDING", "FILLED"}, Acknowledged(job, ref, st), job.kind = "submit"
        PROVE  PriceInv'
    <3>1. /\ ref \in Nat /\ ref \in DOMAIN book' /\ book'[ref] = x
          /\ \A r \in DOMAIN book : r \in DOMAIN book' /\ book'[r] = book[r]
      BY <1>2, <2>1, <2>2
    <3>2. BookGrows /\ (\A r \in DOMAIN book : book'[r].price = book[r].price)
          /\ OwnsAt(ref, job.id, job.price)'
      BY <2>2, <3>1 DEF BookGrows, OwnsAt, Owns
    <3>3. Answered(job, ref, st) \/ Answered(job, job.ref, "REJECTED")
      BY <2>2 DEF Acknowledged
    <3>4. st \in Statuses
      BY <2>2 DEF Statuses
    <3> QED BY <1>2, <1>4, <2>2, <3>1, <3>2, <3>3, <3>4
  <2>3. \A s \in {"open", "filled", "gone"} :
          /\ [id |-> job.id, type |-> job.type, action |-> job.action, status |-> s,
              price |-> job.price] \in BookRecord
          /\ [id |-> job.id, type |-> job.type, action |-> job.action, status |-> s,
              price |-> job.price].id = job.id
          /\ [id |-> job.id, type |-> job.type, action |-> job.action, status |-> s,
              price |-> job.price].price = job.price
    BY <1>2 DEF Asked, BookRecord
  <2> HIDE DEF PriceInv
  <2> QED BY <1>6, <1>7, <2>1, <2>2, <2>3 DEF DispatchSubmit
<1>8. CASE DispatchEdit(job)
  <2>1. CASE Refused(job)
    BY <1>6, <2>1
  <2>2. ASSUME IsOpen(job.ref), NEW ref \in Nat, NEW st \in {"PENDING", "REJECTED"},
               Answered(job, ref, st), BookGrows,
               \A r \in DOMAIN book \ {job.ref} : book'[r].price = book[r].price,
               IF st = "PENDING" THEN OwnsAt(ref, job.id, job.price)'
                                 ELSE "edit" \in lost'[job.id]
        PROVE  PriceInv'
    <3>1. limits' = limits /\ sent' = sent
      BY <2>2 DEF Answered, local
    <3>2. job.kind = "edit" /\ Requests(job)
      BY <1>8 DEF DispatchEdit, Requests
    <3>3. job.id <= sent /\ Owns(job.ref, job.id)
          /\ (job.id \in DOMAIN limits => JobOf(job, limits[job.id]))
      BY <1>2, <3>2 DEF JobTrue
    <3>4. \A i \in Ids \ {job.id} : Untouched(i)
      BY <2>2, <3>1, <3>3 DEF Untouched, Owns
    <3>5. PICK m : m = [kind |-> job.kind, id |-> job.id, type |-> job.type,
                        action |-> job.action, ref |-> ref, status |-> st]
      OBVIOUS
    <3>6. m.kind = "edit" /\ m.id = job.id /\ m.ref = ref /\ m.status = st
      BY <3>2, <3>5
    <3>7. AnswerTrue(m)'
      <4>1. job.id \in DOMAIN limits =>
              limits[job.id].ref # NoRef /\ limits[job.id].op = "PENDING_MODIFY"
              /\ limits[job.id].mod = job.price
        BY <1>3, <3>2, <3>3 DEF JobOf, OwnsAt, Owns
      <4>3. ASSUME job.id \in DOMAIN limits, st = "REJECTED"
            PROVE  OwnsAt(limits[job.id].ref, job.id, limits[job.id].price)'
        <5>1. Owns(limits[job.id].ref, job.id)
          BY <3>2, <3>3, <4>3 DEF JobOf, OwnsAt
        <5>2. Owns(limits[job.id].ref, job.id)'
          BY <2>2, <3>1, <5>1 DEF BookGrows, Owns
        <5> QED BY <2>2, <3>1, <4>3, <5>2 DEF OwnsAt
      <4> HIDE DEF OwnsAt, Owns
      <4>2. job.id \in DOMAIN limits => AnswerOf(m, limits[job.id])'
        BY <2>2, <3>1, <3>6, <4>1, <4>3 DEF AnswerOf
      <4> QED BY <3>1, <3>3, <3>6, <4>2 DEF AnswerTrue
    <3>8. RefTrue(job.id)'
      <4>1. job.id \in DOMAIN limits => limits[job.id].op = "PENDING_MODIFY" /\ Owns(limits[job.id].ref, job.id)
        BY <3>2, <3>3 DEF JobOf, OwnsAt
      <4>2. \A r : Owns(r, job.id) => Owns(r, job.id)'
        BY <1>2, <2>2, OwnsKept
      <4> HIDE DEF OwnsAt, Owns
      <4> QED BY <3>1, <4>1, <4>2 DEF RefTrue
    <3>9. st \in Statuses
      BY <2>2 DEF Statuses
    <3> HIDE DEF JobTrue, AnswerTrue, RefTrue, Untouched, BookGrows, RequestedOnce, PriceInv
    <3> QED BY <1>2, <2>2, <3>2, <3>4, <3>5, <3>7, <3>8, <3>9, AnsweredPrice
  <2>3. ASSUME NEW ref, Acknowledged(job, ref, "PENDING")
        PROVE  \/ Answered(job, ref, "PENDING")
               \/ Answered(job, job.ref, "REJECTED") /\ "edit" \in lost'[job.id]
    BY <1>2, <1>8, <2>3 DEF Acknowledged, DispatchEdit, Lose, LossShape
  <2>4. IsOpen(job.ref) => book[job.ref] \in BookRecord /\ job.ref \in DOMAIN book
                           /\ Owns(job.ref, job.id)
    BY <1>2, <1>8 DEF IsOpen, JobTrue, Requests, DispatchEdit
  <2>5. CASE /\ IsOpen(job.ref) /\ Acknowledged(job, Len(book) + 1, "PENDING")
             /\ book' = Append([book EXCEPT ![job.ref].status = "gone"],
                               [book[job.ref] EXCEPT !.price = job.price])
    <3>1. PICK ref : ref = Len(book) + 1
      OBVIOUS
    <3>2. PICK b : b = [book EXCEPT ![job.ref].status = "gone"]
      OBVIOUS
    <3>3. PICK x : x = [book[job.ref] EXCEPT !.price = job.price]
      OBVIOUS
    <3>4. x.id = job.id /\ x.price = job.price
      BY <2>4, <2>5, <3>3 DEF Owns, BookRecord
    <3>5. b \in Seq(BookRecord) /\ Len(b) = Len(book) /\ DOMAIN b = DOMAIN book
          /\ \A r \in DOMAIN book : b[r].id = book[r].id /\ b[r].price = book[r].price
      <4>1. b \in Seq(BookRecord)
        BY <1>2, <2>4, <2>5, <3>2, BookShape
      <4>2. DOMAIN b = DOMAIN book
        BY <3>2
      <4>3. Len(b) = Len(book)
        BY <1>2, <4>1, <4>2
      <4>4. ASSUME NEW r \in DOMAIN book PROVE b[r].id = book[r].id /\ b[r].price = book[r].price
        BY <2>4, <2>5, <3>2, <4>4 DEF BookRecord
      <4> QED BY <4>1, <4>2, <4>3, <4>4
    <3>6. book' = Append(b, x)
      BY <2>5, <3>2, <3>3
    <3>7. /\ ref \in Nat /\ ref \in DOMAIN book' /\ book'[ref] = x
          /\ \A r \in DOMAIN book : r \in DOMAIN book' /\ book'[r] = b[r]
      <4>1. DOMAIN book' = 1..(Len(b) + 1) /\ book'[Len(b) + 1] = x /\ Len(b) \in Nat
            /\ DOMAIN b = 1..Len(b) /\ \A r \in 1..Len(b) : book'[r] = b[r]
        BY <3>5, <3>6
      <4> QED BY <3>1, <3>5, <4>1
    <3>8. BookGrows /\ (\A r \in DOMAIN book : book'[r].price = book[r].price)
          /\ OwnsAt(ref, job.id, job.price)'
      BY <3>4, <3>5, <3>7 DEF BookGrows, OwnsAt, Owns
    <3> HIDE DEF PriceInv
    <3>9. Acknowledged(job, ref, "PENDING")
      BY <2>5, <3>1
    <3>10. CASE Answered(job, ref, "PENDING")
      BY <2>2, <2>5, <3>7, <3>8, <3>10
    <3>11. CASE Answered(job, job.ref, "REJECTED") /\ "edit" \in lost'[job.id]
      BY <1>2, <2>2, <2>5, <3>8, <3>11
    <3> QED BY <2>3, <3>9, <3>10, <3>11
  <2>6. CASE /\ IsOpen(job.ref) /\ Acknowledged(job, job.ref, "PENDING")
             /\ book' = [book EXCEPT ![job.ref].price = job.price]
    <3>1. /\ DOMAIN book' = DOMAIN book /\ \A r \in DOMAIN book \ {job.ref} : book'[r] = book[r]
          /\ book'[job.ref].id = book[job.ref].id /\ book'[job.ref].price = job.price
      BY <2>4, <2>6 DEF BookRecord
    <3>2. BookGrows /\ OwnsAt(job.ref, job.id, job.price)'
      BY <2>4, <2>6, <3>1 DEF BookGrows, OwnsAt, Owns
    <3> QED BY <1>2, <2>2, <2>3, <2>6, <3>1, <3>2
  <2> QED BY <1>8, <2>1, <2>5, <2>6 DEF DispatchEdit
<1>9. CASE DispatchCancel(job)
  <2>1. CASE Refused(job)
    BY <1>6, <2>1
  <2>2. CASE /\ IsOpen(job.ref) /\ Acknowledged(job, job.ref, "CANCELLED")
             /\ book' = [book EXCEPT ![job.ref].status = "gone"]
    <3>1. DOMAIN book' = DOMAIN book /\ \A r \in DOMAIN book :
            book'[r] = book[r] \/ \E s : book'[r] = [book[r] EXCEPT !.status = s]
      BY <2>2
    <3>2. BookGrows /\ \A r \in DOMAIN book : book'[r].price = book[r].price
      BY <1>2, <3>1, SameBook
    <3>3. Answered(job, job.ref, "CANCELLED") \/ Answered(job, job.ref, "REJECTED")
      BY <2>2 DEF Acknowledged
    <3>4. "CANCELLED" \in Statuses /\ job.kind = "cancel"
      BY <1>9 DEF Statuses, DispatchCancel
    <3> QED BY <1>2, <1>4, <3>2, <3>3, <3>4
  <2> QED BY <1>9, <2>1, <2>2 DEF DispatchCancel
<1>10. CASE DispatchQuery(job) \/ DispatchPosition(job) \/ DispatchTrades(job)
  <2>1. book' = book /\ job.kind \notin {"edit", "submit"}
    BY <1>10 DEF DispatchQuery, DispatchPosition, DispatchTrades, Refused
  <2>2. \E st \in Statuses : Answered(job, job.ref, st)
    <3>1. QueryStatus(job.ref) \in Statuses
      BY DEF QueryStatus, Statuses
    <3> QED BY <1>2, <1>10, <3>1 DEF DispatchQuery, DispatchPosition, DispatchTrades, Refused,
                                     Acknowledged, Statuses
  <2> QED BY <1>2, <1>4, <1>5, <2>1, <2>2
<1> QED BY <1>1, <1>7, <1>8, <1>9, <1>10

\* An answer that is no request's.
LEMMA OtherAnswerPrice ==
  ASSUME Shapes, Shapes', PriceInv, LossGrows, inbox # <<>>, inbox' = Tail(inbox),
         UNCHANGED <<sent, worker, book>>, NEW m,
         \/ HandleSubmitResponse(m) \/ HandleQueryResponse(m)
         \/ HandlePositionResponse(m) \/ HandleTradesResponse(m)
  PROVE  PriceInv'
<1>1. AsksElse
  BY FillsElse DEF HandleSubmitResponse, HandleQueryResponse, HandlePositionResponse,
                   HandleTradesResponse, AsksElse
<1>2. \A i \in DOMAIN limits' :
        /\ i \in DOMAIN limits
        /\ limits'[i].ref = limits[i].ref /\ limits'[i].price = limits[i].price
        /\ limits'[i].op = limits[i].op /\ limits'[i].mod = limits[i].mod
  <2>1. CASE limits' = limits
    BY <2>1
  <2>2. CASE limits' = Without(limits, {m.id})
    BY <2>2 DEF Without
  <2>3. CASE m.id \in DOMAIN limits /\ limits' = [limits EXCEPT ![m.id] = AskAgain(@, m)]
    <3>1. limits[m.id] \in Resting
      BY <2>3 DEF Shapes, OrderShapes
    <3>2. PICK r : r = AskAgain(limits[m.id], m)
      OBVIOUS
    <3>3. /\ r.ref = limits[m.id].ref /\ r.price = limits[m.id].price
          /\ r.op = limits[m.id].op /\ r.mod = limits[m.id].mod
      BY <3>1, <3>2 DEF AskAgain, Resting
    <3>4. limits' = [limits EXCEPT ![m.id] = r]
      BY <2>3, <3>2
    <3> QED BY <2>3, <3>3, <3>4
  <2> QED BY <2>1, <2>2, <2>3 DEF HandleSubmitResponse, HandleQueryResponse,
                                 HandlePositionResponse, HandleTradesResponse
<1>3. sent <= sent'
  BY DEF Shapes, OrderShapes
<1> QED BY <1>1, <1>2, <1>3, StatusStep

\* The answer to a request, after which none of its order is on the wire but
\* a cancel that was parked.
LEMMA RequestAnswered ==
  ASSUME Shapes, Shapes', PriceInv, LossGrows, inbox # <<>>, NEW m, m = Head(inbox), inbox' = Tail(inbox),
         UNCHANGED <<sent, worker, book>>, Requests(m),
         \A i \in DOMAIN limits' \ {m.id} : i \in DOMAIN limits /\ limits'[i] = limits[i],
         RefTrue(m.id)',
         \/ AsksElse
         \/ \E x : x.id = m.id /\ outbox' = Append(outbox, x) /\ JobTrue(x)'
  PROVE  PriceInv'
<1>1. WireShapes /\ RequestedOnce /\ inbox \in Seq(Answer) /\ sent <= sent'
  BY DEF Shapes, OrderShapes, WireShapes, PriceInv
<1>2. /\ Items(inbox') \subseteq Items(inbox) /\ Single(inbox')
      /\ Requested(inbox) = Requested(inbox') \cup {m.id} /\ m.id \notin Requested(inbox')
  BY <1>1, TailRequests DEF RequestedOnce
<1>3. m.id \notin Requested(outbox) \cup Requested(worker) \cup Requested(inbox')
  BY <1>1, <1>2 DEF RequestedOnce
<1>4. \A y \in Items(outbox) \cup Items(worker) \cup Items(inbox') : Requests(y) => y.id # m.id
  BY <1>3, ItemsRequested
<1>5. BookGrows /\ \A i \in Ids \ {m.id} : Untouched(i)
  BY DEF BookGrows, Untouched
<1>6. RequestedOnce'
  BY <1>1, <1>2, <1>3, AskedOnce DEF AsksElse
<1>7. \A x : ~Requests(x) => JobTrue(x)'
  BY DEF JobTrue
<1>8. \A x \in Items(outbox') : x \in Items(outbox) \/ JobTrue(x)'
  <2>1. CASE AsksElse
    BY <1>1, <1>7, <2>1, AskedItems DEF AsksElse
  <2>2. ASSUME NEW x, outbox' = Append(outbox, x), JobTrue(x)'
        PROVE  \A y \in Items(outbox') : y \in Items(outbox) \/ JobTrue(y)'
    BY <1>1, <2>2, AskedItems
  <2> QED BY <2>1, <2>2
<1> HIDE DEF JobTrue, AnswerTrue, RefTrue, Untouched, BookGrows, RequestedOnce, PriceInv
<1>9. /\ \A y \in Items(outbox') \cup Items(worker') :
           \/ y \in Items(outbox) \cup Items(worker) /\ (Requests(y) => y.id # m.id)
           \/ JobTrue(y)'
      /\ \A y \in Items(inbox') :
           \/ y \in Items(inbox) /\ (Requests(y) => y.id # m.id)
           \/ AnswerTrue(y)'
  BY <1>2, <1>4, <1>8
<1> QED BY <1>1, <1>5, <1>6, <1>9, TouchesOrder

LEMMA DrainPrice ==
  ASSUME Shapes, Shapes', PriceInv, LossGrows, DrainInbox
  PROVE  PriceInv'
<1>1. PICK m : m = Head(inbox)
  OBVIOUS
<1>2. /\ inbox # <<>> /\ inbox' = Tail(inbox) /\ UNCHANGED <<sent, worker, book, lost>>
      /\ inbox \in Seq(Answer) /\ book \in Seq(BookRecord) /\ \A i \in DOMAIN limits : limits[i] \in Resting
  BY DEF DrainInbox, Shapes, OrderShapes, WireShapes
<1>3. m \in Items(inbox) /\ m.id \in Ids
  BY <1>1, <1>2, TailRequests, ItemIds DEF Shapes
<1>4. AnswerTrue(m) /\ RefTrue(m.id)
  BY <1>3 DEF PriceInv
<1>5. CASE \/ HandleSubmitResponse(m) \/ HandleQueryResponse(m)
           \/ HandlePositionResponse(m) \/ HandleTradesResponse(m)
  BY <1>2, <1>5, OtherAnswerPrice
<1>6. ASSUME Requests(m), AsksElse, limits' = limits \/ limits' = Without(limits, {m.id}),
             RefTrue(m.id)
      PROVE  PriceInv'
  <2>1. /\ \A i \in DOMAIN limits' \ {m.id} : i \in DOMAIN limits /\ limits'[i] = limits[i]
        /\ m.id \in DOMAIN limits' => limits' = limits
    BY <1>6 DEF Without
  <2>2. RefTrue(m.id)'
    BY <1>2, <1>6, <2>1 DEF RefTrue, Owns, OwnsAt
  <2> QED BY <1>1, <1>2, <1>6, <2>1, <2>2, RequestAnswered
<1>7. ASSUME Requests(m), AsksElse, m.id \in DOMAIN limits, NEW r,
             limits' = [limits EXCEPT ![m.id] = r],
             r.ref # NoRef => OwnsAt(r.ref, m.id, r.price)
      PROVE  PriceInv'
  <2>1. /\ \A i \in DOMAIN limits' \ {m.id} : i \in DOMAIN limits /\ limits'[i] = limits[i]
        /\ limits'[m.id] = r
    BY <1>7
  <2>2. RefTrue(m.id)'
    BY <1>2, <1>7, <2>1 DEF RefTrue, Owns, OwnsAt
  <2> QED BY <1>1, <1>2, <1>7, <2>1, <2>2, RequestAnswered
<1>8. CASE HandleLimitSubmitResponse(m)
  <2>1. Requests(m) /\ m.id \in DOMAIN limits /\ m.kind = "submit"
    BY <1>8 DEF HandleLimitSubmitResponse, Requests
  <2>2. CASE limits' = Without(limits, {m.id}) /\ (Reject(m.id, "OPEN") \/ FillOpen(m.id, m.ref))
    BY <1>4, <1>6, <2>1, <2>2, FillsElse
  <2>3. CASE m.status = "PENDING" /\ Confirm(m)
    <3>1. /\ limits[m.id].op = "NONE" /\ OwnsAt(m.ref, m.id, limits[m.id].price)
          /\ m.id <= sent /\ m.ref # NoRef /\ limits[m.id] \in Resting
      BY <1>2, <1>4, <2>1, <2>3 DEF AnswerTrue, AnswerOf, OwnsAt, Owns, NoRef
    <3>2. CASE limits[m.id].cancelRequested
      <4>1. PICK r : r = [limits[m.id] EXCEPT !.ref = m.ref, !.op = "PENDING_CANCEL",
                                              !.cancelRequested = FALSE]
        OBVIOUS
      <4>2. PICK x : x = OrderJob("cancel", m.id, m.ref, 0)
        OBVIOUS
      <4>3. /\ r.ref = m.ref /\ r.op = "PENDING_CANCEL" /\ r.price = limits[m.id].price
            /\ x.id = m.id /\ x.kind = "cancel"
        BY <3>1, <4>1, <4>2 DEF Resting, OrderJob
      <4>4. limits' = [limits EXCEPT ![m.id] = r] /\ outbox' = Append(outbox, x)
        BY <2>3, <3>2, <4>1, <4>2 DEF Confirm
      <4>5. /\ \A i \in DOMAIN limits' \ {m.id} : i \in DOMAIN limits /\ limits'[i] = limits[i]
            /\ limits'[m.id] = r /\ m.id \in DOMAIN limits'
        BY <2>1, <4>4
      <4>6. RefTrue(m.id)' /\ JobTrue(x)'
        BY <1>2, <3>1, <4>3, <4>5 DEF RefTrue, JobTrue, JobOf, Owns, OwnsAt
      <4> HIDE DEF RefTrue, JobTrue, PriceInv
      <4> QED BY <1>1, <1>2, <2>1, <4>3, <4>4, <4>5, <4>6, RequestAnswered
    <3>3. CASE ~limits[m.id].cancelRequested
      <4>1. PICK r : r = [limits[m.id] EXCEPT !.ref = m.ref]
        OBVIOUS
      <4>2. r.ref = m.ref /\ r.op = "NONE" /\ r.price = limits[m.id].price
        BY <3>1, <4>1 DEF Resting
      <4>3. limits' = [limits EXCEPT ![m.id] = r] /\ AsksElse
        BY <2>3, <3>3, <4>1 DEF Confirm, AsksElse
      <4> QED BY <1>7, <2>1, <3>1, <4>2, <4>3
    <3> QED BY <3>2, <3>3
  <2> QED BY <1>8, <2>2, <2>3 DEF HandleLimitSubmitResponse
<1>9. CASE HandleModifyResponse(m)
  <2>1. Requests(m) /\ m.kind = "edit" /\ AsksElse
    BY <1>9, FillsElse DEF HandleModifyResponse, Requests
  <2>2. CASE m.id \notin DOMAIN limits
    BY <1>4, <1>6, <1>9, <2>1, <2>2 DEF HandleModifyResponse
  <2>3. CASE m.id \in DOMAIN limits
    <3>1. PICK r : r = Modified(limits[m.id], m)
      OBVIOUS
    <3>2. limits' = [limits EXCEPT ![m.id] = r]
      BY <1>9, <2>3, <3>1 DEF HandleModifyResponse
    <3>3. IF m.status = "REJECTED" THEN r.ref = limits[m.id].ref /\ r.price = limits[m.id].price
                                   ELSE r.ref = m.ref /\ r.price = limits[m.id].mod
      BY <1>2, <2>3, <3>1 DEF Modified, Resting
    <3>4. OwnsAt(r.ref, m.id, r.price)
      BY <1>4, <2>1, <2>3, <3>3 DEF AnswerTrue, AnswerOf
    <3> QED BY <1>7, <2>1, <2>3, <3>2, <3>4
  <2> QED BY <2>2, <2>3
<1>10. CASE HandleCancelResponse(m)
  <2>1. Requests(m) /\ m.kind = "cancel" /\ AsksElse
    BY <1>10, FillsElse DEF HandleCancelResponse, Requests
  <2>2. CASE limits' = limits \/ limits' = Without(limits, {m.id})
    BY <1>4, <1>6, <2>1, <2>2
  <2>3. CASE m.id \in DOMAIN limits /\ limits' = [limits EXCEPT ![m.id].op = "NONE"]
    <3>1. PICK r : r = [limits[m.id] EXCEPT !.op = "NONE"]
      OBVIOUS
    <3>2. r.ref = limits[m.id].ref /\ r.price = limits[m.id].price
          /\ limits' = [limits EXCEPT ![m.id] = r]
      BY <1>2, <2>3, <3>1 DEF Resting
    <3>3. limits[m.id].ref # NoRef /\ limits[m.id].op # "PENDING_MODIFY"
      BY <1>4, <2>1, <2>3 DEF AnswerTrue, AnswerOf
    <3>4. OwnsAt(r.ref, m.id, r.price)
      BY <1>4, <2>3, <3>2, <3>3 DEF RefTrue
    <3> QED BY <1>7, <2>1, <2>3, <3>2, <3>4
  <2> QED BY <1>10, <2>2, <2>3 DEF HandleCancelResponse
<1> QED BY <1>1, <1>5, <1>8, <1>9, <1>10 DEF DrainInbox

LEMMA PriceStep ==
  ASSUME LiveInv, PriceInv, LossShape, [Next]_vars
  PROVE  LiveInv' /\ PriceInv' /\ LossShape'
<1>1. LiveInv'
  BY EveryStep DEF Good, LiveInv
<1>2. Shapes /\ Shapes' /\ Unsent /\ LossShape' /\ LossGrows
  BY <1>1, LossStep DEF LiveInv, OrderInv
<1>3. CASE Algorithm
  <2>1. \A p \in OpenPrices : p \in Nat
    BY LiveAssumption
  <2> HIDE DEF PriceInv
  <2> QED BY <1>1, <1>2, <1>3, <2>1, OpenPrice, CallPrice DEF Algorithm
<1>4. CASE Worker
  BY <1>1, <1>2, <1>4, TakesPrice, DispatchPrice DEF Worker
<1>5. CASE DrainInbox
  BY <1>1, <1>2, <1>5, DrainPrice
<1>6. ASSUME NEW i \in Ids, PollActive(i) PROVE PriceInv'
  BY <1>2, <1>6, CallPrice
<1> HIDE DEF PriceInv
<1>7. CASE \/ \E i \in Ids : PollPending(i) \/ HandleTimeout(i) \/ TimeoutPasses(i)
           \/ CloseAllRemainingOrders
  BY <1>1, <1>2, <1>7, MarketPrice
<1>8. CASE \/ \E tick \in BOOLEAN : StartCycle(tick)
           \/ InboxDrained \/ PendingPolled \/ TimeoutsHandled \/ CycleEnds
           \/ Reconcile \/ StopWorker \/ Done \/ UNCHANGED vars
           \/ \E ref \in DOMAIN book : BrokerFills(ref) \/ BrokerDrops(ref)
  BY <1>1, <1>2, <1>8, OthersPrice
<1> QED BY <1>1, <1>2, <1>3, <1>4, <1>5, <1>6, <1>7, <1>8 DEF Next, Cycle

\* A confirmed limit order has the broker's price whenever no modification of
\* it is on its way, however polls, fills, edits that replace the reference
\* and parked cancels overlap, unless the answer to an edit of that order was
\* lost (live_trade_executor.py, _handle_modify_response).
THEOREM LivePriceTrue ==
  Spec => []ShadowPriceTrue
<1>1. Init => LiveInv /\ PriceInv /\ LossShape
  <2> SUFFICES ASSUME Init PROVE PriceInv /\ LossShape
    BY InitGood
  <2>1. outbox = <<>> /\ worker = <<>> /\ inbox = <<>> /\ DOMAIN limits = {}
    BY DEF Init, ProcessorInit, Empty
  <2>2. Items(<<>>) = {} /\ Requested(<<>>) = {} /\ Single(<<>>)
    BY OneItem
  <2>3. LossShape
    BY DEF Init, LossShape
  <2> QED BY <2>1, <2>2, <2>3 DEF PriceInv, RequestedOnce, RefTrue
<1>2. LiveInv /\ PriceInv /\ LossShape /\ [Next]_vars => LiveInv' /\ PriceInv' /\ LossShape'
  BY PriceStep
<1>3. LiveInv /\ PriceInv => ShadowPriceTrue
  BY DEF LiveInv, Shapes, OrderShapes, PriceInv, RefTrue, OwnsAt, ShadowPriceTrue
<1> QED BY <1>1, <1>2, <1>3, PTL DEF Spec

=============================================================================
