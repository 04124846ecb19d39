---------------------------- MODULE Broker_proofs ----------------------------
(***************************************************************************)
(* Proofs about the boundary to the broker: the pre-trade guard for any     *)
(* directions, cooldown, threshold and number of orders in flight; the      *)
(* adapter for any placements, pairs, rate limit and number of calls; and   *)
(* the start of a session for every set of profiles and markets and any     *)
(* number of days, sessions and crashes.                                    *)
(***************************************************************************)
EXTENDS OrderGuard, BrokerAdapter, SessionBoot, FiniteSetTheorems, TLAPS

(***************************************************************************)
(* The pre-trade guard.                                                     *)
(***************************************************************************)

\* What the guard knows never exceeds the order history.
WithinHistory ==
  \A d \in Directions :
    /\ count[d] <= streak[d]
    /\ cooldown[d] > 0 => streak[d] = MaxRejections /\ cooldown[d] <= Cooldown - age[d]

\* While no rejection was missed it is all of it.
FollowsHistory ==
  \A d \in Directions : ~missed[d] =>
    /\ count[d] = streak[d]
    /\ cooldown[d] = IF streak[d] = MaxRejections THEN Cooldown - age[d] ELSE 0

\* Every variable keeps its type: counters and ages are capped where record_rejection
\* and validate stop telling their values apart.
THEOREM GuardTypeCorrect == Spec => []TypeOK
<1>1. Init => TypeOK
  <2> SUFFICES ASSUME Init PROVE TypeOK
    OBVIOUS
  <2>1. 0 \in 0..MaxRejections /\ 0 \in 0..Cooldown /\ Cooldown \in 0..Cooldown
        /\ 0 \in 0..MaxInFlight
    BY GuardAssumption
  <2>2. stale \in BOOLEAN
    BY DEF Init
  <2> QED BY <2>1, <2>2, Zenon DEF Init, TypeOK
<1>2. TypeOK /\ [Next]_vars => TypeOK'
  <2> SUFFICES ASSUME TypeOK, [Next]_vars PROVE TypeOK'
    OBVIOUS
  <2> USE GuardAssumption DEF TypeOK
  <2>1. ASSUME NEW d \in Directions, SendOrder(d) PROVE TypeOK'
    BY <2>1 DEF SendOrder, guard, history
  <2>2. ASSUME NEW d \in Directions, OutcomeRejected(d) PROVE TypeOK'
    BY <2>2 DEF OutcomeRejected, Rejected, RecordRejection, AtMost
  <2>3. ASSUME NEW d \in Directions, StressTestRejected(d) PROVE TypeOK'
    BY <2>3 DEF StressTestRejected, Rejected, AtMost, guard
  <2>4. ASSUME NEW d \in Directions, OutcomeExecuted(d) PROVE TypeOK'
    BY <2>4 DEF OutcomeExecuted, RecordSuccess
  <2>5. ASSUME NEW d \in Directions, Cancelled(d) PROVE TypeOK'
    BY <2>5 DEF Cancelled, guard, history
  <2>6. ASSUME NEW gap \in 1..MaxGap, ClockAdvances(gap) PROVE TypeOK'
    BY <2>6 DEF ClockAdvances, AtMost
  <2>7. CASE MarketDataChanges
    BY <2>7 DEF MarketDataChanges, guard, history
  <2>8. CASE UNCHANGED vars
    BY <2>8 DEF vars, guard, history
  <2> QED BY <2>1, <2>2, <2>3, <2>4, <2>5, <2>6, <2>7, <2>8 DEF Next, Clock
<1> QED BY <1>1, <1>2, PTL DEF Spec

\* A direction is blocked only on what the order history justifies, with or
\* without stress-test rejections and in whatever order outcomes arrive.
THEOREM BlocksAreJustified == Spec => []BlockJustified
<1>1. Init => WithinHistory
  <2> SUFFICES ASSUME Init, NEW d \in Directions
               PROVE  count[d] <= streak[d] /\ ~(cooldown[d] > 0)
    BY Zenon DEF WithinHistory
  <2>1. count[d] = 0 /\ streak[d] = 0 /\ cooldown[d] = 0
    BY DEF Init
  <2> QED BY <2>1
<1>2. TypeOK /\ WithinHistory /\ [Next]_vars => WithinHistory'
  <2> SUFFICES ASSUME TypeOK, WithinHistory, [Next]_vars PROVE WithinHistory'
    OBVIOUS
  <2> USE GuardAssumption DEF TypeOK, WithinHistory
  <2>1. ASSUME NEW d \in Directions, SendOrder(d) PROVE WithinHistory'
    BY <2>1 DEF SendOrder, guard, history
  <2>2. ASSUME NEW d \in Directions, OutcomeRejected(d) PROVE WithinHistory'
    BY <2>2 DEF OutcomeRejected, Rejected, RecordRejection, AtMost
  <2>3. ASSUME NEW d \in Directions, StressTestRejected(d) PROVE WithinHistory'
    BY <2>3 DEF StressTestRejected, Rejected, AtMost, guard
  <2>4. ASSUME NEW d \in Directions, OutcomeExecuted(d) PROVE WithinHistory'
    BY <2>4 DEF OutcomeExecuted, RecordSuccess
  <2>5. ASSUME NEW d \in Directions, Cancelled(d) PROVE WithinHistory'
    BY <2>5 DEF Cancelled, guard, history
  <2>6. ASSUME NEW gap \in 1..MaxGap, ClockAdvances(gap) PROVE WithinHistory'
    BY <2>6 DEF ClockAdvances, AtMost
  <2>7. CASE MarketDataChanges
    BY <2>7 DEF MarketDataChanges, guard, history
  <2>8. CASE UNCHANGED vars
    BY <2>8 DEF vars, guard, history
  <2> QED BY <2>1, <2>2, <2>3, <2>4, <2>5, <2>6, <2>7, <2>8 DEF Next, Clock
<1>3. TypeOK /\ WithinHistory => BlockJustified
  BY GuardAssumption DEF TypeOK, WithinHistory, BlockJustified, IsDirectionBlocked, Due
<1> QED BY <1>1, <1>2, <1>3, GuardTypeCorrect, PTL DEF Spec

\* As long as rejections are notified, the guard blocks exactly what the order
\* history says it should.
THEOREM GuardIsExact == Spec => []GuardMatchesHistory
<1>1. Init => FollowsHistory
  BY GuardAssumption DEF Init, FollowsHistory
<1>2. TypeOK /\ FollowsHistory /\ [Next]_vars => FollowsHistory'
  <2> SUFFICES ASSUME TypeOK, FollowsHistory, [Next]_vars PROVE FollowsHistory'
    OBVIOUS
  <2> USE GuardAssumption DEF TypeOK, FollowsHistory
  <2>1. ASSUME NEW d \in Directions, SendOrder(d) PROVE FollowsHistory'
    BY <2>1 DEF SendOrder, guard, history
  <2>2. ASSUME NEW d \in Directions, OutcomeRejected(d) PROVE FollowsHistory'
    BY <2>2 DEF OutcomeRejected, Rejected, RecordRejection, AtMost
  <2>3. ASSUME NEW d \in Directions, StressTestRejected(d) PROVE FollowsHistory'
    BY <2>3 DEF StressTestRejected, Rejected, AtMost, guard
  <2>4. ASSUME NEW d \in Directions, OutcomeExecuted(d) PROVE FollowsHistory'
    BY <2>4 DEF OutcomeExecuted, RecordSuccess
  <2>5. ASSUME NEW d \in Directions, Cancelled(d) PROVE FollowsHistory'
    BY <2>5 DEF Cancelled, guard, history
  <2>6. ASSUME NEW gap \in 1..MaxGap, ClockAdvances(gap) PROVE FollowsHistory'
    BY <2>6 DEF ClockAdvances, AtMost
  <2>7. CASE MarketDataChanges
    BY <2>7 DEF MarketDataChanges, guard, history
  <2>8. CASE UNCHANGED vars
    BY <2>8 DEF vars, guard, history
  <2> QED BY <2>1, <2>2, <2>3, <2>4, <2>5, <2>6, <2>7, <2>8 DEF Next, Clock
<1>3. TypeOK /\ FollowsHistory => GuardMatchesHistory
  <2> SUFFICES ASSUME TypeOK, FollowsHistory, NEW d \in Directions, ~missed[d]
               PROVE  cooldown[d] > 0 <=> streak[d] >= MaxRejections /\ age[d] < Cooldown
    BY DEF GuardMatchesHistory, IsDirectionBlocked, Due
  <2>1. streak[d] \in 0..MaxRejections /\ age[d] \in 0..Cooldown
    BY DEF TypeOK
  <2>2. CASE streak[d] = MaxRejections
    BY <2>1, <2>2, GuardAssumption DEF FollowsHistory
  <2>3. CASE streak[d] # MaxRejections
    BY <2>1, <2>3, GuardAssumption DEF FollowsHistory
  <2> QED BY <2>2, <2>3
<1> QED BY <1>1, <1>2, <1>3, GuardTypeCorrect, PTL DEF Spec

-----------------------------------------------------------------------------
(***************************************************************************)
(* The adapter: one lock, two threads, two clocks, an exchange that fills    *)
(* and a simulator that answers in its place.                               *)
(***************************************************************************)

\* What the adapter's state is made of.
Pcs == {"idle", "lock", "sleep", "post", "parse"}
Ops == {"submit", "querytrades"} \cup OrderOps \cup AccountOps
Statuses == {"open", "closed", "canceled"}
Edits == {BuildModifyPayload(0), BuildModifyPayload(3)}
Bodies == [pair : {ResolveKrakenPair(s) : s \in DOMAIN Pairs}, type : {"buy", "sell"},
           ordertype : {"market", "limit"}, volume : Nat, price : Nat]
VenueOrders == [body : Bodies, status : Statuses]
Replies == [status : {"PENDING", "FILLED", "CANCELLED"}, lots : Nat, price : Nat]
SimOrders == [lots : Nat, price : Nat, polls : Int]
Requests == [op : Ops, validate : BOOLEAN, nonce : Int, at : Int]

\* The body of an order as one of the placements made it, its price edited or not.
BodyOf(b, p) ==
    /\ b.pair = ResolveKrakenPair(p.symbol)
    /\ b.type = (IF p.dir = "LONG" THEN "buy" ELSE "sell")
    /\ b.ordertype = (IF p.type = "MARKET" THEN "market" ELSE "limit")
    /\ b.volume = p.lots /\ (b.price = p.price \/ b.price = 3)
Placed(b) == b \in Bodies /\ \E p \in Placements : BodyOf(b, p)

\* A call has these fields.
IsCall(c) == c = [pc |-> c.pc, op |-> c.op, ref |-> c.ref, body |-> c.body, until |-> c.until, home |-> c.home, raw |-> c.raw]

\* What was read of an order can only have ended since.
Snapshot(o, w) ==
    o \in VenueOrders /\ o.body.volume = w.body.volume /\ (o.status # "open" => w.status = o.status)

\* What the exchange answered to a call that is about to be parsed.
RawTrue(c) ==
    /\ c.op = "submit" => c.raw[1] \in DOMAIN venue
    /\ c.op = "query" => Snapshot(c.raw[1], venue[c.ref])
    /\ c.op = "cancel" => venue[c.ref].status = "canceled"
    /\ c.op = "openorders" => \A r \in c.raw[1] : Placed(c.raw[2][r])

\* A call in progress stays home exactly in a dry run, names an order that was
\* told of, and its answer is true.
CallTrue(c) ==
    /\ IsCall(c) /\ c.pc \in Pcs
    /\ c.pc # "idle" =>
         /\ c.op \in Ops /\ c.home = dryRun
         /\ c.op = "submit" => \E p \in Placements : c.body = BuildSubmitPayload(p)
         /\ c.op = "modify" => c.body \in Edits
         /\ c.op \in OrderOps => c.ref \in DOMAIN told
         /\ dryRun /\ c.pc # "parse" => c.op = "submit"
         /\ ~dryRun /\ c.pc = "parse" => RawTrue(c)

CallsInv == dryRun \in BOOLEAN /\ call = [t \in Threads |-> call[t]] /\ \A t \in Threads : CallTrue(call[t])

\* The lock and the clocks.
TimeInv ==
    /\ mono \in Int /\ wall \in Int /\ lastRequest \in Int /\ lastNonce \in Int
    /\ lock \in Threads \cup {Nobody}
    /\ \A t \in Threads : call[t].pc \in {"sleep", "post"} <=> lock = t
    /\ \A t \in Threads : call[t].pc = "sleep" => call[t].until \in Int /\ call[t].until >= lastRequest + Interval

\* The last two requests.
Latest(r) == r.nonce = lastNonce /\ r.at = lastRequest
Harmless(r) == dryRun => r.op = "submit" /\ r.validate
Precedes(q, r) == q.nonce < r.nonce /\ r.at - q.at >= Interval
WireInv ==
    \/ wire = <<>>
    \/ \E r \in Requests : wire = <<r>> /\ Latest(r) /\ Harmless(r)
    \/ \E q, r \in Requests : wire = <<q, r>> /\ Latest(r) /\ Harmless(q) /\ Harmless(r) /\ Precedes(q, r)

\* The orders of the exchange: bodies of placements under references in a row.
BookOf(v) ==
    /\ v = [r \in DOMAIN v |-> v[r]] /\ IsFiniteSet(DOMAIN v)
    /\ \A r \in DOMAIN v :
         /\ v[r] \in VenueOrders /\ Placed(v[r].body)
         /\ r[1] = "venue" /\ r[2] \in 1 .. Cardinality(DOMAIN v)
    /\ dryRun => v = <<>>
BookInv == BookOf(venue)

\* No order disappears there, changes its volume or comes back once it ended.
Grown(v, w) ==
    /\ DOMAIN v \subseteq DOMAIN w
    /\ \A r \in DOMAIN v : w[r].body.volume = v[r].body.volume /\ (v[r].status # "open" => w[r].status = v[r].status)

\* The last price an order acknowledged in the first n replies, 0 without one.
Priced(x) == x.status = "PENDING" /\ x.price > 0
PricedTo(s, n, price) ==
    \/ price = 0 /\ \A k \in 1 .. n : ~Priced(s[k])
    \/ \E k \in 1 .. n : Priced(s[k]) /\ s[k].price = price /\ \A m \in k + 1 .. n : ~Priced(s[m])
Unfilled(s, n) == \A k \in 1 .. n : s[k].lots = 0 /\ s[k].status = "PENDING"
FillsTrue(s) == \A i \in 1 .. Len(s) : s[i].lots > 0 => Unfilled(s, i - 1) /\ PricedTo(s, i - 1, s[i].price)

\* What is told of an order: by the simulator, or of the exchange.
ReplyTrue(w, x) ==
    /\ x.status = "FILLED" => w.status = "closed" /\ x.lots = w.body.volume
    /\ x.status = "CANCELLED" => w.status = "canceled"

ToldTrue(r) ==
    /\ told[r] \in Seq(Replies)
    /\ dryRun => r[1] = "DRYRUN" /\ FillsTrue(told[r])
    /\ ~dryRun => r \in DOMAIN venue /\ \A i \in 1 .. Len(told[r]) : ReplyTrue(venue[r], told[r][i])

\* An order the simulator still holds was only acknowledged.
SimTrue(r) ==
    /\ dryRun /\ r \in DOMAIN told /\ simulated[r] \in SimOrders
    /\ Unfilled(told[r], Len(told[r])) /\ PricedTo(told[r], Len(told[r]), simulated[r].price)

ToldInv ==
    /\ told = [r \in DOMAIN told |-> told[r]] /\ \A r \in DOMAIN told : ToldTrue(r)
    /\ simulated = [r \in DOMAIN simulated |-> simulated[r]] /\ \A r \in DOMAIN simulated : SimTrue(r)

AdapterInv == CallsInv /\ TimeInv /\ WireInv /\ BookInv /\ ToldInv /\ OrdersReadBack

-----------------------------------------------------------------------------
\* A payload for a submission is the body of its placement.
LEMMA SubmitPlaced ==
  ASSUME NEW p \in Placements
  PROVE  Placed(BuildSubmitPayload(p)) /\ BuildSubmitPayload(p).volume \in Nat /\ BuildSubmitPayload(p).price \in Nat
<1>1. BuildSubmitPayload(p) \in Bodies
  BY AdapterConstants DEF BuildSubmitPayload, Bodies
<1>2. BodyOf(BuildSubmitPayload(p), p)
  BY AdapterConstants DEF BuildSubmitPayload, BodyOf
<1> QED BY <1>1, <1>2 DEF Placed, Bodies

\* A body read back from the account is a placement in the terms of the program.
LEMMA ReadBack ==
  ASSUME NEW b, Placed(b), NEW r
  PROVE  \E p \in Placements :
           /\ BrokerOrder(r, b).symbol = p.symbol /\ BrokerOrder(r, b).dir = p.dir
           /\ BrokerOrder(r, b).type = p.type /\ BrokerOrder(r, b).lots = p.lots
           /\ BrokerOrder(r, b).price = p.price \/ BrokerOrder(r, b).price = 3
<1>1. PICK p \in Placements : BodyOf(b, p)
  BY DEF Placed
<1>2. p.symbol \in DOMAIN Pairs /\ p.dir \in {"LONG", "SHORT"} /\ p.type \in {"MARKET", "LIMIT"}
  BY AdapterConstants
<1>3. ResolveSymbolFromPair(b.pair) = p.symbol
  <2>1. b.pair = IF Pairs[p.symbol] # "" THEN Pairs[p.symbol] ELSE p.symbol
    BY <1>1 DEF BodyOf, ResolveKrakenPair
  <2>2. \A s \in DOMAIN Pairs : Pairs[s] = b.pair => s = p.symbol
    BY <1>2, <2>1, AdapterConstants
  <2>3. CASE \E s \in DOMAIN Pairs : Pairs[s] = b.pair
    <3>1. PICK s \in DOMAIN Pairs : Pairs[s] = b.pair
      BY <2>3
    <3>2. Pairs[p.symbol] = b.pair
      BY <3>1, <2>2
    <3>3. (CHOOSE z \in DOMAIN Pairs : Pairs[z] = b.pair) = p.symbol
      BY <3>2, <2>2, <1>2, Zenon
    <3> QED BY <2>3, <3>3, Zenon DEF ResolveSymbolFromPair
  <2>4. CASE ~ \E s \in DOMAIN Pairs : Pairs[s] = b.pair
    <3>1. b.pair = p.symbol
      BY <2>1, <2>4, <1>2
    <3> QED BY <2>4, <3>1, Zenon DEF ResolveSymbolFromPair
  <2> QED BY <2>3, <2>4
<1> QED BY <1>1, <1>2, <1>3 DEF BrokerOrder, BodyOf

\* The wire.
LEMMA WireSound ==
  ASSUME WireInv, TimeInv
  PROVE  NoncesRise /\ RequestsSpaced /\ (dryRun => \A i \in DOMAIN wire : wire[i].op = "submit" /\ wire[i].validate)
<1>1. CASE wire = <<>>
  BY <1>1 DEF NoncesRise, RequestsSpaced
<1>2. ASSUME NEW r \in Requests, wire = <<r>>, Harmless(r)
      PROVE NoncesRise /\ RequestsSpaced /\ (dryRun => \A i \in DOMAIN wire : wire[i].op = "submit" /\ wire[i].validate)
  <2>1. DOMAIN wire = {1} /\ Len(wire) = 1 /\ wire[1] = r
    BY <1>2
  <2> QED BY <1>2, <2>1 DEF NoncesRise, RequestsSpaced, Harmless
<1>3. ASSUME NEW q \in Requests, NEW r \in Requests, wire = <<q, r>>, Harmless(q), Harmless(r), Precedes(q, r)
      PROVE NoncesRise /\ RequestsSpaced /\ (dryRun => \A i \in DOMAIN wire : wire[i].op = "submit" /\ wire[i].validate)
  <2>1. DOMAIN wire = {1, 2} /\ Len(wire) = 2 /\ wire[1] = q /\ wire[2] = r
    BY <1>3
  <2>2. NoncesRise
    BY <1>3, <2>1 DEF NoncesRise, Precedes
  <2>3. RequestsSpaced
    <3>1. 2 .. Len(wire) = {2}
      BY <2>1
    <3> QED BY <1>3, <2>1, <3>1 DEF RequestsSpaced, Precedes
  <2> QED BY <1>3, <2>1, <2>2, <2>3 DEF Harmless
<1> QED BY <1>1, <1>2, <1>3 DEF WireInv

\* Replies.
LEMMA FillsFound ==
  ASSUME NEW s, NEW n \in Nat, NEW price, PricedTo(s, n, price), \A k \in 1 .. n : s[k].price \in Nat
  PROVE  LET priced == {k \in 1 .. n : s[k].status = "PENDING" /\ s[k].price > 0} IN
         price = IF priced = {} THEN 0 ELSE s[CHOOSE k \in priced : \A m \in priced : m <= k].price
<1> DEFINE priced == {k \in 1 .. n : s[k].status = "PENDING" /\ s[k].price > 0}
<1>1. CASE price = 0 /\ \A k \in 1 .. n : ~Priced(s[k])
  <2>1. priced = {}
    BY <1>1 DEF Priced
  <2> QED BY <1>1, <2>1
<1>2. ASSUME NEW k \in 1 .. n, Priced(s[k]), s[k].price = price, \A m \in k + 1 .. n : ~Priced(s[m])
      PROVE  price = IF priced = {} THEN 0 ELSE s[CHOOSE j \in priced : \A m \in priced : m <= j].price
  <2>1. k \in priced
    BY <1>2 DEF Priced
  <2>2. \A m \in priced : m <= k
    BY <1>2 DEF Priced
  <2>3. \A j \in priced : (\A m \in priced : m <= j) => j = k
    BY <2>1, <2>2
  <2>4. (CHOOSE j \in priced : \A m \in priced : m <= j) = k
    <3> HIDE DEF priced
    <3> QED BY <2>1, <2>2, <2>3
  <2>5. s[CHOOSE j \in priced : \A m \in priced : m <= j].price = price
    BY <1>2, <2>4, Zenon
  <2>6. priced # {}
    BY <2>1, Zenon
  <2> HIDE DEF priced
  <2> QED BY <2>5, <2>6
<1> QED BY <1>1, <1>2 DEF PricedTo

\* One more reply leaves the earlier ones where they are.
LEMMA AppendTo ==
  ASSUME NEW s \in Seq(Replies), NEW x \in Replies
  PROVE  /\ Append(s, x) \in Seq(Replies) /\ Len(Append(s, x)) = Len(s) + 1 /\ Len(s) \in Nat
         /\ \A k \in 1 .. Len(s) : Append(s, x)[k] = s[k] /\ s[k] \in Replies
         /\ Append(s, x)[Len(s) + 1] = x
OBVIOUS

\* A reply that fills nothing keeps the fills true.
LEMMA FillsKept ==
  ASSUME NEW s \in Seq(Replies), NEW x \in Replies, FillsTrue(s),
         x.lots > 0 => Unfilled(s, Len(s)) /\ PricedTo(s, Len(s), x.price)
  PROVE  FillsTrue(Append(s, x))
<1> DEFINE a == Append(s, x)
<1>1. a \in Seq(Replies) /\ Len(a) = Len(s) + 1 /\ Len(s) \in Nat /\ a[Len(s) + 1] = x
      /\ \A k \in 1 .. Len(s) : a[k] = s[k] /\ s[k] \in Replies
  BY AppendTo
<1> HIDE DEF a
<1>2. ASSUME NEW i \in 1 .. Len(s) + 1
      PROVE /\ Unfilled(s, i - 1) => Unfilled(a, i - 1)
            /\ \A price : PricedTo(s, i - 1, price) => PricedTo(a, i - 1, price)
  <2>1. \A k \in 1 .. i - 1 : a[k] = s[k]
    BY <1>1
  <2>2. \A k \in 1 .. i - 1 : \A m \in k + 1 .. i - 1 : a[m] = s[m]
    BY <1>1
  <2>3. Unfilled(s, i - 1) => Unfilled(a, i - 1)
    BY <2>1 DEF Unfilled
  <2>4. ASSUME NEW price, PricedTo(s, i - 1, price) PROVE PricedTo(a, i - 1, price)
    BY <2>1, <2>2, <2>4 DEF PricedTo
  <2> QED BY <2>3, <2>4
<1>3. ASSUME NEW i \in 1 .. Len(a), a[i].lots > 0 PROVE Unfilled(a, i - 1) /\ PricedTo(a, i - 1, a[i].price)
  <2>1. CASE i = Len(s) + 1
    <3>1. i - 1 = Len(s) /\ a[i] = x
      BY <1>1, <2>1
    <3> QED BY <1>1, <1>2, <1>3, <3>1
  <2>2. CASE i \in 1 .. Len(s)
    <3>1. a[i] = s[i] /\ s[i].lots > 0
      BY <1>1, <1>3, <2>2
    <3>2. Unfilled(s, i - 1) /\ PricedTo(s, i - 1, s[i].price)
      BY <3>1, <2>2 DEF FillsTrue
    <3> QED BY <1>1, <1>2, <3>1, <3>2, <2>2
  <2> QED BY <1>1, <2>1, <2>2
<1> QED BY <1>1, <1>3 DEF FillsTrue, a

\* An acknowledgement without lots moves the last price to its own, if it has one.
LEMMA PricedNext ==
  ASSUME NEW s \in Seq(Replies), NEW x \in Replies, NEW price \in Nat, NEW new \in Nat,
         Unfilled(s, Len(s)), PricedTo(s, Len(s), price), x.lots = 0, x.status = "PENDING",
         new = IF x.price > 0 THEN x.price ELSE price
  PROVE  Unfilled(Append(s, x), Len(s) + 1) /\ PricedTo(Append(s, x), Len(s) + 1, new)
<1> DEFINE a == Append(s, x)
<1>1. a \in Seq(Replies) /\ Len(a) = Len(s) + 1 /\ Len(s) \in Nat /\ a[Len(s) + 1] = x
      /\ \A k \in 1 .. Len(s) : a[k] = s[k] /\ s[k] \in Replies
  BY AppendTo
<1> HIDE DEF a
<1>2. Unfilled(a, Len(s) + 1)
  <2> SUFFICES ASSUME NEW k \in 1 .. Len(s) + 1 PROVE a[k].lots = 0 /\ a[k].status = "PENDING"
    BY DEF Unfilled
  <2>1. CASE k = Len(s) + 1
    BY <2>1, <1>1
  <2>2. CASE k \in 1 .. Len(s)
    BY <2>2, <1>1 DEF Unfilled
  <2> QED BY <1>1, <2>1, <2>2
<1>3. PricedTo(a, Len(s) + 1, new)
  <2>1. CASE x.price > 0
    <3>1. Priced(a[Len(s) + 1]) /\ a[Len(s) + 1].price = new /\ Len(s) + 1 \in 1 .. Len(s) + 1
      BY <1>1, <2>1 DEF Priced
    <3>2. (Len(s) + 1) + 1 .. Len(s) + 1 = {}
      BY <1>1
    <3> QED BY <3>1, <3>2 DEF PricedTo
  <2>2. CASE ~(x.price > 0)
    <3>1. new = price /\ ~Priced(a[Len(s) + 1])
      BY <1>1, <2>2 DEF Priced
    <3>2. CASE price = 0 /\ \A k \in 1 .. Len(s) : ~Priced(s[k])
      <4>1. \A k \in 1 .. Len(s) + 1 : ~Priced(a[k])
        BY <1>1, <3>1, <3>2
      <4> QED BY <3>1, <3>2, <4>1 DEF PricedTo
    <3>3. ASSUME NEW k \in 1 .. Len(s), Priced(s[k]), s[k].price = price, \A m \in k + 1 .. Len(s) : ~Priced(s[m])
          PROVE PricedTo(a, Len(s) + 1, new)
      <4>1. k \in 1 .. Len(s) + 1 /\ a[k] = s[k]
        BY <1>1
      <4>2. \A m \in k + 1 .. Len(s) + 1 : ~Priced(a[m])
        BY <1>1, <3>1, <3>3
      <4> QED BY <3>1, <3>3, <4>1, <4>2 DEF PricedTo
    <3> QED BY <3>2, <3>3 DEF PricedTo
  <2> QED BY <2>1, <2>2
<1> QED BY <1>2, <1>3 DEF a

\* An open order may be edited or ended.
LEMMA OrderEdited ==
  ASSUME BookInv, NEW r \in DOMAIN venue, NEW o \in VenueOrders, Placed(o.body),
         o.body.volume = venue[r].body.volume, venue[r].status = "open"
  PROVE  BookOf([venue EXCEPT ![r] = o]) /\ Grown(venue, [venue EXCEPT ![r] = o])
<1> DEFINE v == [venue EXCEPT ![r] = o]
<1>1. DOMAIN v = DOMAIN venue /\ v = [x \in DOMAIN v |-> v[x]]
      /\ \A x \in DOMAIN venue : v[x] = IF x = r THEN o ELSE venue[x]
  BY DEF BookInv, BookOf
<1>2. ~dryRun
  BY DEF BookInv, BookOf
<1> HIDE DEF v
<1>3. BookOf(v)
  BY <1>1, <1>2 DEF BookInv, BookOf
<1>4. Grown(venue, v)
  BY <1>1 DEF Grown
<1> QED BY <1>3, <1>4 DEF v

\* A new order gets a reference no order has.
LEMMA OrderAdded ==
  ASSUME BookInv, ~dryRun, NEW b, Placed(b)
  PROVE  LET v == With(venue, NewVenueRef, [body |-> b, status |-> "open"]) IN
         BookOf(v) /\ Grown(venue, v) /\ NewVenueRef \in DOMAIN v
<1> DEFINE k == NewVenueRef
           o == [body |-> b, status |-> "open"]
           v == With(venue, k, o)
           n == Cardinality(DOMAIN venue)
<1>1. n \in Nat /\ k[1] = "venue" /\ k[2] = n + 1
  BY FS_CardinalityType DEF BookInv, BookOf, NewVenueRef
<1>2. k \notin DOMAIN venue
  BY <1>1 DEF BookInv, BookOf
<1>3. DOMAIN v = DOMAIN venue \cup {k} /\ v = [x \in DOMAIN v |-> v[x]] /\ v[k] = o
      /\ \A x \in DOMAIN venue : v[x] = venue[x]
  BY <1>2 DEF With
<1>4. IsFiniteSet(DOMAIN v) /\ Cardinality(DOMAIN v) = n + 1
  <2>1. IsFiniteSet(DOMAIN venue)
    BY DEF BookInv, BookOf
  <2> HIDE DEF k, v
  <2> QED BY <1>2, <1>3, <2>1, FS_AddElement
<1>5. o \in VenueOrders /\ o.body = b
  BY DEF VenueOrders, Placed, Statuses
<1> HIDE DEF k, v, o, n
<1>6. BookOf(v)
  <2>1. ASSUME NEW r \in DOMAIN v
        PROVE v[r] \in VenueOrders /\ Placed(v[r].body) /\ r[1] = "venue" /\ r[2] \in 1 .. n + 1
    <3>1. CASE r = k
      BY <3>1, <1>1, <1>3, <1>5
    <3>2. CASE r \in DOMAIN venue
      <4>1. venue[r] \in VenueOrders /\ Placed(venue[r].body) /\ r[1] = "venue" /\ r[2] \in 1 .. n
        BY <3>2 DEF BookInv, BookOf, n
      <4> QED BY <4>1, <3>2, <1>1, <1>3
    <3> QED BY <2>1, <1>3, <3>1, <3>2
  <2> QED BY <2>1, <1>3, <1>4 DEF BookOf
<1>7. Grown(venue, v)
  BY <1>3 DEF Grown
<1> QED BY <1>3, <1>6, <1>7 DEF k, v, o

\* What a request does at the exchange keeps the book in order and takes nothing back.
LEMMA ExecutedSound ==
  ASSUME BookInv, NEW c, CallTrue(c), c.pc = "post"
  PROVE  /\ BookOf(Executed(c)) /\ Grown(venue, Executed(c))
         /\ c.op = "submit" /\ ~dryRun => NewVenueRef \in DOMAIN Executed(c)
         /\ c.op = "cancel" /\ IsOpen(c.ref) => Executed(c)[c.ref].status = "canceled"
         /\ c.op \notin {"submit", "cancel", "modify"} => Executed(c) = venue
<1>1. CASE c.op = "submit" /\ ~dryRun
  <2>1. PICK p \in Placements : c.body = BuildSubmitPayload(p)
    BY <1>1 DEF CallTrue
  <2>2. Placed(c.body)
    BY <2>1, SubmitPlaced
  <2>3. Executed(c) = With(venue, NewVenueRef, [body |-> c.body, status |-> "open"])
    BY <1>1 DEF Executed
  <2> QED BY <1>1, <2>2, <2>3, OrderAdded
<1>2. CASE c.op = "cancel" /\ IsOpen(c.ref)
  <2>1. c.ref \in DOMAIN venue /\ venue[c.ref].status = "open" /\ venue[c.ref] \in VenueOrders /\ Placed(venue[c.ref].body)
        /\ venue = [x \in DOMAIN venue |-> venue[x]]
    BY <1>2 DEF IsOpen, BookInv, BookOf
  <2>2. PICK o : o = [venue[c.ref] EXCEPT !.status = "canceled"]
    OBVIOUS
  <2>3. o \in VenueOrders /\ o.body = venue[c.ref].body /\ o.status = "canceled"
    BY <2>1, <2>2 DEF VenueOrders, Statuses
  <2>4. Executed(c) = [venue EXCEPT ![c.ref] = o]
    BY <1>2, <2>1, <2>2 DEF Executed
  <2>5. BookOf([venue EXCEPT ![c.ref] = o]) /\ Grown(venue, [venue EXCEPT ![c.ref] = o])
    BY <2>1, <2>3, OrderEdited
  <2>6. [venue EXCEPT ![c.ref] = o][c.ref] = o
    BY <2>1
  <2> QED BY <1>2, <2>3, <2>4, <2>5, <2>6
<1>3. CASE c.op = "modify" /\ IsOpen(c.ref) /\ c.body.limit_price # 0
  <2>1. c.ref \in DOMAIN venue /\ venue[c.ref].status = "open" /\ venue[c.ref] \in VenueOrders /\ Placed(venue[c.ref].body)
        /\ venue = [x \in DOMAIN venue |-> venue[x]]
    BY <1>3 DEF IsOpen, BookInv, BookOf
  <2>2. c.body.limit_price = 3
    BY <1>3 DEF CallTrue, Edits, BuildModifyPayload
  <2>3. PICK b : b = [venue[c.ref].body EXCEPT !.price = 3]
    OBVIOUS
  <2>4. venue[c.ref].body \in Bodies
    BY <2>1 DEF Placed
  <2>5. b \in Bodies /\ b.pair = venue[c.ref].body.pair /\ b.type = venue[c.ref].body.type
        /\ b.ordertype = venue[c.ref].body.ordertype /\ b.volume = venue[c.ref].body.volume /\ b.price = 3
    BY <2>3, <2>4 DEF Bodies
  <2>6. Placed(b)
    BY <2>1, <2>5 DEF Placed, BodyOf
  <2>7. PICK o : o = [venue[c.ref] EXCEPT !.body = b]
    OBVIOUS
  <2>8. o \in VenueOrders /\ o.body = b
    BY <2>1, <2>5, <2>7 DEF VenueOrders
  <2>9. Executed(c) = [venue EXCEPT ![c.ref] = o]
    BY <1>3, <2>1, <2>2, <2>3, <2>7 DEF Executed
  <2>10. BookOf([venue EXCEPT ![c.ref] = o]) /\ Grown(venue, [venue EXCEPT ![c.ref] = o])
    BY <2>1, <2>5, <2>6, <2>8, OrderEdited
  <2> QED BY <1>3, <2>9, <2>10
<1>4. CASE ~(c.op = "submit" /\ ~dryRun) /\ ~(c.op = "cancel" /\ IsOpen(c.ref))
           /\ ~(c.op = "modify" /\ IsOpen(c.ref) /\ c.body.limit_price # 0)
  <2>1. Executed(c) = venue
    BY <1>4 DEF Executed
  <2> QED BY <1>4, <2>1 DEF BookInv, Grown
<1> QED BY <1>1, <1>2, <1>3, <1>4

\* What is known of a call stays true while the exchange goes on and more is told.
LEMMA CallKept ==
  ASSUME AdapterInv, NEW c, CallTrue(c), dryRun' = dryRun, DOMAIN told \subseteq DOMAIN told', Grown(venue, venue')
  PROVE  CallTrue(c)'
<1>1. CASE c.pc = "idle"
  BY <1>1 DEF CallTrue, IsCall
<1>2. CASE c.pc # "idle"
  <2>1. c.op \in OrderOps /\ ~dryRun => c.ref \in DOMAIN venue
    BY <1>2 DEF CallTrue, AdapterInv, ToldInv, ToldTrue
  <2>2. ~dryRun /\ c.pc = "parse" => RawTrue(c)'
    <3> SUFFICES ASSUME ~dryRun, c.pc = "parse" PROVE RawTrue(c)'
      OBVIOUS
    <3>1. RawTrue(c)
      BY <1>2 DEF CallTrue
    <3>2. c.op = "query" => Snapshot(c.raw[1], venue[c.ref])'
      <4> SUFFICES ASSUME c.op = "query" PROVE Snapshot(c.raw[1], venue[c.ref])'
        OBVIOUS
      <4>1. c.ref \in DOMAIN venue
        BY <2>1 DEF OrderOps
      <4>2. Snapshot(c.raw[1], venue[c.ref])
        BY <3>1 DEF RawTrue
      <4> QED BY <4>1, <4>2 DEF Snapshot, Grown
    <3>3. c.op = "cancel" => venue'[c.ref].status = "canceled"
      BY <2>1, <3>1 DEF RawTrue, Grown, OrderOps
    <3>4. (c.op = "submit" => c.raw[1] \in DOMAIN venue')
      BY <3>1 DEF RawTrue, Grown
    <3> QED BY <3>1, <3>2, <3>3, <3>4 DEF RawTrue
  <2> QED BY <1>2, <2>2 DEF CallTrue, IsCall
<1> QED BY <1>1, <1>2

\* One thread takes its step and the other is left alone.
LEMMA CallsStep ==
  ASSUME AdapterInv, NEW t \in Threads, NEW d, call' = [call EXCEPT ![t] = d], CallTrue(d)',
         dryRun' = dryRun, DOMAIN told \subseteq DOMAIN told', Grown(venue, venue')
  PROVE  CallsInv' /\ call'[t] = d /\ \A s \in Threads : s # t => call'[s] = call[s]
<1>1. call' = [s \in Threads |-> call'[s]] /\ call'[t] = d /\ \A s \in Threads : s # t => call'[s] = call[s]
  BY DEF AdapterInv, CallsInv
<1>2. ASSUME NEW s \in Threads PROVE CallTrue(call[s])'
  <2>1. CASE s = t
    BY <2>1, <1>1
  <2>2. CASE s # t
    <3>1. PICK c : c = call[s]
      OBVIOUS
    <3>2. CallTrue(c)
      BY <3>1 DEF AdapterInv, CallsInv
    <3>3. CallTrue(c)'
      BY <3>2, CallKept
    <3>4. c = call'[s]
      BY <1>1, <2>2, <3>1
    <3> QED BY <3>3, <3>4
  <2> QED BY <2>1, <2>2
<1>3. dryRun' \in BOOLEAN
  BY DEF AdapterInv, CallsInv
<1> QED BY <1>1, <1>2, <1>3 DEF CallsInv

\* The exchange, the clocks and the other thread disturb no call.
LEMMA CallsStay ==
  ASSUME AdapterInv, call' = call, dryRun' = dryRun, DOMAIN told \subseteq DOMAIN told', Grown(venue, venue')
  PROVE  CallsInv'
<1>1. ASSUME NEW s \in Threads PROVE CallTrue(call[s])'
  <2>1. PICK c : c = call[s]
    OBVIOUS
  <2>2. CallTrue(c)
    BY <2>1 DEF AdapterInv, CallsInv
  <2>3. CallTrue(c)'
    BY <2>2, CallKept
  <2> QED BY <2>1, <2>3
<1>2. dryRun' \in BOOLEAN /\ call' = [t \in Threads |-> call'[t]]
  BY DEF AdapterInv, CallsInv
<1> QED BY <1>1, <1>2 DEF CallsInv

\* The numbers among the constants.
LEMMA AdapterNumbers == Interval \in Nat /\ PollsUntilFill \in Nat /\ MaxStepBack \in Nat
BY AdapterConstants

\* What was told of an order stays true while the exchange goes on.
LEMMA ToldKept ==
  ASSUME AdapterInv, dryRun' = dryRun, told' = told, simulated' = simulated, Grown(venue, venue')
  PROVE  ToldInv'
<1>1. ASSUME NEW r \in DOMAIN told PROVE ToldTrue(r)'
  <2>1. ToldTrue(r)
    BY DEF AdapterInv, ToldInv
  <2>2. ASSUME ~dryRun, NEW i \in 1 .. Len(told[r]) PROVE ReplyTrue(venue[r], told[r][i])'
    <3>1. r \in DOMAIN venue /\ ReplyTrue(venue[r], told[r][i])
      BY <2>1, <2>2 DEF ToldTrue
    <3> QED BY <3>1 DEF ReplyTrue, Grown
  <2>3. ~dryRun => r \in DOMAIN venue'
    BY <2>1 DEF ToldTrue, Grown
  <2>4. dryRun => FillsTrue(told[r])'
    BY <2>1 DEF ToldTrue, FillsTrue, Unfilled, PricedTo, Priced
  <2> QED BY <2>1, <2>2, <2>3, <2>4 DEF ToldTrue
<1>2. ASSUME NEW r \in DOMAIN simulated PROVE SimTrue(r)'
  BY DEF AdapterInv, ToldInv, SimTrue, Unfilled, PricedTo, Priced
<1> QED BY <1>1, <1>2 DEF AdapterInv, ToldInv

\* The requests seen stay as they are without a new one.
LEMMA WireKept ==
  ASSUME AdapterInv, dryRun' = dryRun, wire' = wire, lastNonce' = lastNonce, lastRequest' = lastRequest
  PROVE  WireInv'
BY DEF AdapterInv, WireInv, Latest, Harmless, Precedes

\* Orders that were read back stay placements.
LEMMA ViewKept ==
  ASSUME AdapterInv, view' = view
  PROVE  OrdersReadBack'
BY DEF AdapterInv, OrdersReadBack

\* An exchange that stays as it is.
LEMMA BookKept ==
  ASSUME AdapterInv, dryRun' = dryRun, venue' = venue
  PROVE  BookInv' /\ Grown(venue, venue')
BY DEF AdapterInv, BookInv, BookOf, Grown, Placed

\* A call begins: at home in a dry run, unless it is a submission.
LEMMA BeginCallStep ==
  ASSUME AdapterInv, NEW t \in Threads, NEW op \in Ops \ {"querytrades"}, NEW ref, NEW body,
         op = "submit" => \E p \in Placements : body = BuildSubmitPayload(p),
         op = "modify" => body \in Edits, op \in OrderOps => ref \in DOMAIN told,
         BeginCall(t, op, ref, body)
  PROVE  AdapterInv'
<1>1. PICK d : d = [pc |-> IF StaysHome(op, ref) THEN "parse" ELSE "lock", op |-> op, ref |-> ref, body |-> body,
                    until |-> 0, home |-> StaysHome(op, ref) \/ (op = "submit" /\ dryRun), raw |-> <<>>]
  OBVIOUS
<1>2. call' = [call EXCEPT ![t] = d] /\ call[t].pc = "idle"
      /\ UNCHANGED <<dryRun, mono, wall, lock, lastRequest, lastNonce, wire, venue, simulated, counter, told, view>>
  BY <1>1 DEF BeginCall
<1>3. op \in OrderOps => (ref[1] = "DRYRUN" <=> dryRun)
  <2>1. ASSUME op \in OrderOps PROVE ToldTrue(ref)
    BY <2>1 DEF AdapterInv, ToldInv
  <2> QED BY <2>1 DEF ToldTrue, AdapterInv, BookInv, BookOf
<1>4. dryRun \in BOOLEAN
  BY DEF AdapterInv, CallsInv
<1>5. StaysHome(op, ref) <=> op # "submit" /\ dryRun
  BY <1>3, <1>4 DEF StaysHome, Ops, OrderOps, AccountOps
<1>6. IsCall(d) /\ d.op = op /\ d.ref = ref /\ d.body = body /\ d.pc = (IF op # "submit" /\ dryRun THEN "parse" ELSE "lock")
  BY <1>1, <1>5 DEF IsCall
<1>7. d.home = dryRun
  <2>1. d.home = (StaysHome(op, ref) \/ (op = "submit" /\ dryRun))
    BY <1>1
  <2> QED BY <2>1, <1>4, <1>5
<1>8. CallTrue(d)
  BY <1>6, <1>7, <1>4 DEF CallTrue, Pcs
<1>9. BookInv' /\ Grown(venue, venue')
  BY <1>2, BookKept
<1>10. CallTrue(d)'
  BY <1>8, <1>9, <1>2, CallKept
<1>11. CallsInv' /\ call'[t] = d /\ \A s \in Threads : s # t => call'[s] = call[s]
  BY <1>2, <1>9, <1>10, CallsStep
<1>12. TimeInv'
  <2>1. d.pc \in {"parse", "lock"}
    BY <1>6
  <2> QED BY <2>1, <1>2, <1>11 DEF AdapterInv, TimeInv
<1>13. ToldInv' /\ WireInv' /\ OrdersReadBack'
  BY <1>2, <1>9, ToldKept, WireKept, ViewKept
<1> QED BY <1>9, <1>11, <1>12, <1>13 DEF AdapterInv

\* A thread gets the lock and sleeps until the rate limit is over.
LEMMA EnterPrivateStep ==
  ASSUME AdapterInv, NEW t \in Threads, EnterPrivate(t)
  PROVE  AdapterInv'
<1>1. PICK c : c = call[t]
  OBVIOUS
<1>2. CallTrue(c) /\ IsCall(c) /\ call = [s \in Threads |-> call[s]]
  BY <1>1 DEF AdapterInv, CallsInv, CallTrue
<1>3. PICK d : d = [c EXCEPT !.pc = "sleep", !.until = mono + RateLimitWait]
  OBVIOUS
<1>4. IsCall(d) /\ d.op = c.op /\ d.ref = c.ref /\ d.body = c.body /\ d.pc = "sleep" /\ d.home = c.home
      /\ d.until = mono + RateLimitWait
  BY <1>2, <1>3 DEF IsCall
<1>5. call' = [call EXCEPT ![t] = d] /\ c.pc = "lock" /\ lock = Nobody /\ lock' = t
      /\ UNCHANGED <<dryRun, mono, wall, lastRequest, lastNonce, made, wire, venue, simulated, counter, told, view>>
  BY <1>1, <1>2, <1>3 DEF EnterPrivate
<1>6. CallTrue(d)
  BY <1>2, <1>4, <1>5 DEF CallTrue, Pcs
<1>7. BookInv' /\ Grown(venue, venue')
  BY <1>5, BookKept
<1>8. CallTrue(d)'
  BY <1>5, <1>6, <1>7, CallKept
<1>9. CallsInv' /\ call'[t] = d /\ \A s \in Threads : s # t => call'[s] = call[s]
  BY <1>5, <1>7, <1>8, CallsStep
<1>10. TimeInv'
  <2>1. d.until \in Int /\ d.until >= lastRequest + Interval
    <3>1. mono \in Int /\ lastRequest \in Int /\ Interval \in Int
      BY AdapterNumbers DEF AdapterInv, TimeInv
    <3> QED BY <1>4, <3>1 DEF RateLimitWait, Larger
  <2>2. \A s \in Threads : call[s].pc \notin {"sleep", "post"} /\ s # Nobody
    BY <1>5 DEF AdapterInv, TimeInv, Threads, Nobody
  <2> QED BY <2>1, <2>2, <1>4, <1>5, <1>9 DEF AdapterInv, TimeInv
<1>11. ToldInv' /\ WireInv' /\ OrdersReadBack'
  BY <1>5, <1>7, ToldKept, WireKept, ViewKept
<1> QED BY <1>7, <1>9, <1>10, <1>11 DEF AdapterInv

\* The holder of the lock signs: a later nonce, and far enough from the last request.
LEMMA SignAndPostStep ==
  ASSUME AdapterInv, NEW t \in Threads, SignAndPost(t)
  PROVE  AdapterInv'
<1>1. PICK c : c = call[t]
  OBVIOUS
<1>2. CallTrue(c) /\ IsCall(c) /\ call = [s \in Threads |-> call[s]] /\ dryRun \in BOOLEAN
  BY <1>1 DEF AdapterInv, CallsInv, CallTrue
<1>3. PICK d : d = [c EXCEPT !.pc = "post"]
  OBVIOUS
<1>4. IsCall(d) /\ d.op = c.op /\ d.ref = c.ref /\ d.body = c.body /\ d.pc = "post" /\ d.home = c.home
  BY <1>2, <1>3 DEF IsCall
<1>5. call' = [call EXCEPT ![t] = d] /\ c.pc = "sleep" /\ mono >= c.until
      /\ lastRequest' = mono /\ lastNonce' = NextNonce
      /\ UNCHANGED <<dryRun, mono, wall, lock, made, venue, simulated, counter, told, view>>
  BY <1>1, <1>2, <1>3 DEF SignAndPost, Stamp
<1>6. CallTrue(d)
  BY <1>2, <1>4, <1>5 DEF CallTrue, Pcs
<1>7. BookInv' /\ Grown(venue, venue')
  BY <1>5, BookKept
<1>8. CallTrue(d)'
  BY <1>5, <1>6, <1>7, CallKept
<1>9. CallsInv' /\ call'[t] = d /\ \A s \in Threads : s # t => call'[s] = call[s]
  BY <1>5, <1>7, <1>8, CallsStep
<1>10. NextNonce \in Int /\ NextNonce > lastNonce
  BY DEF NextNonce, Larger, AdapterInv, TimeInv
<1>11. lock = t /\ c.until \in Int /\ c.until >= lastRequest + Interval
  BY <1>1, <1>5 DEF AdapterInv, TimeInv
<1>12. TimeInv'
  <2>1. \A s \in Threads : s # t => call[s].pc \notin {"sleep", "post"}
    BY <1>11 DEF AdapterInv, TimeInv
  <2>2. call'[t].pc = "post" /\ lock' = t /\ lock' \in Threads \cup {Nobody}
    BY <1>4, <1>5, <1>9, <1>11
  <2>3. mono' \in Int /\ wall' \in Int /\ lastRequest' \in Int /\ lastNonce' \in Int
    BY <1>5, <1>10 DEF AdapterInv, TimeInv
  <2>4. \A s \in Threads : call'[s].pc \in {"sleep", "post"} <=> lock' = s
    BY <2>1, <2>2, <1>9
  <2>5. \A s \in Threads : call'[s].pc # "sleep"
    BY <2>1, <2>2, <1>9
  <2> QED BY <2>2, <2>3, <2>4, <2>5 DEF TimeInv
<1>13. WireInv'
  <2>1. PICK r : r = [op |-> c.op, validate |-> dryRun, nonce |-> NextNonce, at |-> mono]
    OBVIOUS
  <2>2. c.op \in Ops /\ (dryRun => c.op = "submit")
    BY <1>2, <1>5 DEF CallTrue
  <2>3. r \in Requests /\ r.op = c.op /\ r.validate = dryRun /\ r.nonce = NextNonce /\ r.at = mono
    BY <2>1, <2>2, <1>2, <1>10 DEF Requests, AdapterInv, TimeInv
  <2>4. Latest(r)' /\ Harmless(r)'
    BY <2>2, <2>3, <1>5 DEF Latest, Harmless
  <2>5. wire' = LastTwo(wire, r)
    BY <1>1, <2>1 DEF SignAndPost
  <2>6. CASE wire = <<>>
    BY <2>3, <2>4, <2>5, <2>6 DEF LastTwo, WireInv
  <2>7. ASSUME NEW q \in Requests, Latest(q), Harmless(q), wire' = <<q, r>> PROVE WireInv'
    <3>1. Precedes(q, r) /\ Harmless(q)'
      <4>1. mono \in Int /\ lastRequest \in Int /\ lastNonce \in Int /\ Interval \in Int
        BY AdapterNumbers DEF AdapterInv, TimeInv
      <4>2. Precedes(q, r)
        BY <2>3, <2>7, <1>5, <1>10, <1>11, <4>1 DEF Precedes, Latest
      <4> QED BY <4>2, <2>7, <1>5 DEF Harmless
    <3> QED BY <3>1, <2>3, <2>4, <2>7 DEF WireInv, Precedes
  <2>8. ASSUME NEW q \in Requests, Latest(q), Harmless(q), wire = <<q>> PROVE WireInv'
    <3>1. wire' = <<q, r>>
      BY <2>5, <2>8 DEF LastTwo
    <3> QED BY <2>7, <2>8, <3>1
  <2>9. ASSUME NEW z \in Requests, NEW q \in Requests, Latest(q), Harmless(q), wire = <<z, q>> PROVE WireInv'
    <3>1. wire' = <<q, r>>
      BY <2>5, <2>9 DEF LastTwo
    <3> QED BY <2>7, <2>9, <3>1
  <2> QED BY <2>6, <2>8, <2>9 DEF AdapterInv, WireInv
<1>14. ToldInv' /\ OrdersReadBack'
  BY <1>5, <1>7, ToldKept, ViewKept
<1> QED BY <1>7, <1>9, <1>12, <1>13, <1>14 DEF AdapterInv

\* The answer, an error or a timeout: the lock is free and the answer is true.
LEMMA AnsweredStep ==
  ASSUME AdapterInv, NEW t \in Threads, Answered(t)
  PROVE  AdapterInv'
<1>1. PICK c : c = call[t]
  OBVIOUS
<1>2. CallTrue(c) /\ IsCall(c) /\ call = [s \in Threads |-> call[s]] /\ dryRun \in BOOLEAN
  BY <1>1 DEF AdapterInv, CallsInv, CallTrue
<1>3. c.pc = "post" /\ lock' = Nobody
      /\ UNCHANGED <<dryRun, mono, wall, lastRequest, lastNonce, made, wire, simulated, counter, told, view>>
  BY <1>1 DEF Answered
<1>4. BookOf(Executed(c)) /\ Grown(venue, Executed(c))
      /\ (c.op = "submit" /\ ~dryRun => NewVenueRef \in DOMAIN Executed(c))
      /\ (c.op = "cancel" /\ IsOpen(c.ref) => Executed(c)[c.ref].status = "canceled")
      /\ (c.op \notin {"submit", "cancel", "modify"} => Executed(c) = venue)
  BY <1>2, <1>3, ExecutedSound DEF AdapterInv
<1>5. BookOf(venue) /\ Grown(venue, venue)
  BY DEF AdapterInv, BookInv, Grown
<1>6. ASSUME NEW d, call' = [call EXCEPT ![t] = d], d.pc \in {"lock", "parse", "idle"}, CallTrue(d)',
             venue' = venue \/ venue' = Executed(c)
      PROVE  AdapterInv'
  <2>1. Grown(venue, venue') /\ BookOf(venue')
    BY <1>4, <1>5, <1>6
  <2>2. BookInv'
    BY <2>1, <1>3 DEF BookInv, BookOf, Placed
  <2>3. CallsInv' /\ call'[t] = d /\ \A s \in Threads : s # t => call'[s] = call[s]
    BY <1>3, <1>6, <2>1, CallsStep
  <2>4. TimeInv'
    <3>1. lock = t
      BY <1>1, <1>3 DEF AdapterInv, TimeInv
    <3>2. \A s \in Threads : call'[s].pc \notin {"sleep", "post"} /\ s # Nobody
      BY <3>1, <2>3, <1>6 DEF AdapterInv, TimeInv, Threads, Nobody
    <3> QED BY <3>2, <1>3 DEF AdapterInv, TimeInv
  <2>5. ToldInv' /\ WireInv' /\ OrdersReadBack'
    BY <1>3, <2>1, ToldKept, WireKept, ViewKept
  <2> QED BY <2>2, <2>3, <2>4, <2>5 DEF AdapterInv
<1>7. CASE Accepts(c) /\ HasTrades(c) /\ call' = [call EXCEPT ![t].pc = "lock", ![t].op = "querytrades"] /\ venue' = venue
  <2>1. PICK d : d = [c EXCEPT !.pc = "lock", !.op = "querytrades"]
    OBVIOUS
  <2>2. IsCall(d) /\ d.op = "querytrades" /\ d.pc = "lock" /\ d.home = c.home
    BY <1>2, <2>1 DEF IsCall
  <2>3. call' = [call EXCEPT ![t] = d]
    BY <1>1, <1>2, <1>7, <2>1
  <2>4. ~dryRun
    BY <1>2, <1>3, <1>7 DEF HasTrades, CallTrue
  <2>5. CallTrue(d)
    BY <1>2, <1>3, <2>2, <2>4 DEF CallTrue, Ops, OrderOps, AccountOps, Pcs
  <2>6. CallTrue(d)'
    BY <2>5, <1>3, <1>5, <1>7, CallKept
  <2> QED BY <1>6, <1>7, <2>2, <2>3, <2>6
<1>8. CASE /\ Accepts(c) /\ ~HasTrades(c) /\ venue' = Executed(c)
           /\ call' = [call EXCEPT ![t].pc = "parse", ![t].raw = VenueAnswer(c)]
  <2>1. PICK d : d = [c EXCEPT !.pc = "parse", !.raw = VenueAnswer(c)]
    OBVIOUS
  <2>2. IsCall(d) /\ d.op = c.op /\ d.pc = "parse" /\ d.home = c.home /\ d.ref = c.ref /\ d.body = c.body
        /\ d.raw = VenueAnswer(c)
    BY <1>2, <2>1 DEF IsCall
  <2>3. call' = [call EXCEPT ![t] = d]
    BY <1>1, <1>2, <1>8, <2>1
  <2>4. ~dryRun => RawTrue(d)'
    <3> SUFFICES ASSUME ~dryRun PROVE RawTrue(d)'
      OBVIOUS
    <3>1. c.op \in OrderOps => c.ref \in DOMAIN venue
      BY <1>2, <1>3 DEF CallTrue, AdapterInv, ToldInv, ToldTrue
    <3>2. c.op = "submit" => d.raw[1] \in DOMAIN venue'
      BY <1>4, <1>8, <2>2 DEF VenueAnswer
    <3>3. c.op = "query" => Snapshot(d.raw[1], venue[d.ref])'
      <4> SUFFICES ASSUME c.op = "query" PROVE Snapshot(d.raw[1], venue[d.ref])'
        OBVIOUS
      <4>1. d.raw[1] = venue[c.ref] /\ venue' = venue
        BY <1>4, <1>8, <2>2 DEF VenueAnswer
      <4>2. venue[c.ref] \in VenueOrders
        BY <3>1, <1>5 DEF BookOf, OrderOps
      <4> QED BY <4>1, <4>2, <2>2 DEF Snapshot
    <3>4. c.op = "cancel" => venue'[d.ref].status = "canceled"
      BY <1>4, <1>8, <2>2 DEF Accepts
    <3>5. c.op = "openorders" => \A r \in d.raw[1] : Placed(d.raw[2][r])
      <4> SUFFICES ASSUME c.op = "openorders", NEW r \in d.raw[1] PROVE Placed(d.raw[2][r])
        OBVIOUS
      <4>1. d.raw = <<{x \in DOMAIN venue : IsOpen(x)}, [x \in DOMAIN venue |-> venue[x].body]>>
        BY <2>2 DEF VenueAnswer
      <4>2. r \in DOMAIN venue /\ d.raw[2][r] = venue[r].body
        BY <4>1
      <4> QED BY <4>2, <1>5 DEF BookOf
    <3> QED BY <2>2, <3>2, <3>3, <3>4, <3>5 DEF RawTrue, Placed
  <2>5. CallTrue(d)'
    BY <1>2, <1>3, <2>2, <2>4 DEF CallTrue, Pcs, IsCall
  <2> QED BY <1>6, <1>8, <2>2, <2>3, <2>5
<1>9. CASE call' = [call EXCEPT ![t] = Idle] /\ venue' \in {venue, Executed(c)}
  <2>1. PICK d : d = Idle
    OBVIOUS
  <2>2. d.pc = "idle" /\ IsCall(d)
    BY <2>1 DEF Idle, IsCall
  <2>3. CallTrue(d)'
    BY <2>2 DEF CallTrue, Pcs, IsCall
  <2> QED BY <1>6, <1>9, <2>1, <2>2, <2>3
<1> QED BY <1>1, <1>7, <1>8, <1>9 DEF Answered

\* Telling of one order leaves the others.
LEMMA TellOne ==
  ASSUME AdapterInv, NEW r \in DOMAIN told, NEW x \in Replies, told' = [told EXCEPT ![r] = Append(@, x)]
  PROVE  /\ DOMAIN told' = DOMAIN told /\ told' = [k \in DOMAIN told' |-> told'[k]]
         /\ told'[r] = Append(told[r], x) /\ \A k \in DOMAIN told : k # r => told'[k] = told[k]
         /\ told[r] \in Seq(Replies) /\ told'[r] \in Seq(Replies) /\ Len(told[r]) \in Nat /\ Len(told'[r]) = Len(told[r]) + 1
<1>1. told = [k \in DOMAIN told |-> told[k]] /\ told[r] \in Seq(Replies)
  BY DEF AdapterInv, ToldInv, ToldTrue
<1>2. DOMAIN told' = DOMAIN told /\ told' = [k \in DOMAIN told' |-> told'[k]]
      /\ told'[r] = Append(told[r], x) /\ \A k \in DOMAIN told : k # r => told'[k] = told[k]
  BY <1>1
<1> QED BY <1>1, <1>2, AppendTo

\* What a reply of the simulator leaves of its orders.
DryReply(r, x) ==
    /\ x.lots > 0 => r \in DOMAIN simulated /\ x.price = simulated[r].price
    /\ simulated' = [k \in DOMAIN simulated' |-> simulated'[k]] /\ DOMAIN simulated' \subseteq DOMAIN simulated
    /\ \A k \in DOMAIN simulated' : k # r => simulated'[k] = simulated[k]
    /\ r \in DOMAIN simulated' =>
         /\ x.lots = 0 /\ x.status = "PENDING" /\ simulated'[r] \in SimOrders
         /\ simulated'[r].price = IF x.price > 0 THEN x.price ELSE simulated[r].price

\* A reply of the simulator.
LEMMA DryTold ==
  ASSUME AdapterInv, dryRun, dryRun' = dryRun, NEW r \in DOMAIN told, NEW x \in Replies,
         told' = [told EXCEPT ![r] = Append(@, x)],
         DryReply(r, x)
  PROVE  ToldInv' /\ DOMAIN told' = DOMAIN told
<1>1. /\ DOMAIN told' = DOMAIN told /\ told' = [k \in DOMAIN told' |-> told'[k]]
      /\ told'[r] = Append(told[r], x) /\ \A k \in DOMAIN told : k # r => told'[k] = told[k]
      /\ told[r] \in Seq(Replies) /\ told'[r] \in Seq(Replies) /\ Len(told[r]) \in Nat /\ Len(told'[r]) = Len(told[r]) + 1
  BY TellOne
<1>2. \A k \in DOMAIN told : ToldTrue(k)
  BY DEF AdapterInv, ToldInv
<1>3. \A k \in DOMAIN simulated : SimTrue(k)
  BY DEF AdapterInv, ToldInv
<1>4. ASSUME NEW k \in DOMAIN told PROVE ToldTrue(k)'
  <2>1. CASE k = r
    <3>1. FillsTrue(told[r]) /\ r[1] = "DRYRUN"
      BY <1>2 DEF ToldTrue
    <3>2. x.lots > 0 => Unfilled(told[r], Len(told[r])) /\ PricedTo(told[r], Len(told[r]), x.price)
      BY <1>3 DEF SimTrue, DryReply
    <3>3. FillsTrue(Append(told[r], x))
      BY <1>1, <3>1, <3>2, FillsKept
    <3>4. FillsTrue(told[r])'
      BY ZenonT(60), <1>1, <3>3 DEF FillsTrue, Unfilled, PricedTo, Priced
    <3> QED BY <1>1, <2>1, <3>1, <3>4 DEF ToldTrue
  <2>2. CASE k # r
    BY <1>1, <1>2, <2>2 DEF ToldTrue, FillsTrue, Unfilled, PricedTo, Priced
  <2> QED BY <2>1, <2>2
<1>5. ASSUME NEW k \in DOMAIN simulated' PROVE SimTrue(k)'
  <2>1. k \in DOMAIN simulated /\ SimTrue(k)
    BY <1>3, <1>5 DEF DryReply
  <2>2. CASE k = r
    <3>1. simulated[r].price \in Nat /\ simulated'[r] \in SimOrders /\ simulated'[r].price \in Nat
      BY <2>1, <2>2, <1>5 DEF SimTrue, SimOrders, DryReply
    <3>2. Unfilled(Append(told[r], x), Len(told[r]) + 1) /\ PricedTo(Append(told[r], x), Len(told[r]) + 1, simulated'[r].price)
      <4>1. Unfilled(told[r], Len(told[r])) /\ PricedTo(told[r], Len(told[r]), simulated[r].price)
        BY <2>1, <2>2 DEF SimTrue
      <4>2. x.lots = 0 /\ x.status = "PENDING"
            /\ simulated'[r].price = IF x.price > 0 THEN x.price ELSE simulated[r].price
        BY <1>5, <2>2 DEF DryReply
      <4> QED BY <1>1, <3>1, <4>1, <4>2, PricedNext
    <3>3. Unfilled(told[r], Len(told[r]))' /\ PricedTo(told[r], Len(told[r]), simulated[r].price)'
      BY <1>1, <3>2 DEF Unfilled, PricedTo, Priced
    <3> QED BY <1>1, <1>5, <2>1, <2>2, <3>1, <3>3 DEF SimTrue
  <2>3. CASE k # r
    BY <1>1, <1>5, <2>1, <2>3 DEF DryReply, SimTrue, Unfilled, PricedTo, Priced
  <2> QED BY <2>2, <2>3
<1> QED BY <1>1, <1>4, <1>5 DEF ToldInv, DryReply

\* A reply of the exchange.
LEMMA LiveTold ==
  ASSUME AdapterInv, ~dryRun, dryRun' = dryRun, venue' = venue, simulated' = simulated,
         NEW r \in DOMAIN told, NEW x \in Replies, ReplyTrue(venue[r], x),
         told' = [told EXCEPT ![r] = Append(@, x)]
  PROVE  ToldInv' /\ DOMAIN told' = DOMAIN told
<1>1. /\ DOMAIN told' = DOMAIN told /\ told' = [k \in DOMAIN told' |-> told'[k]]
      /\ told'[r] = Append(told[r], x) /\ \A k \in DOMAIN told : k # r => told'[k] = told[k]
      /\ told[r] \in Seq(Replies) /\ told'[r] \in Seq(Replies) /\ Len(told[r]) \in Nat /\ Len(told'[r]) = Len(told[r]) + 1
  BY TellOne
<1>2. \A k \in DOMAIN told : ToldTrue(k)
  BY DEF AdapterInv, ToldInv
<1>3. DOMAIN simulated = {}
  BY DEF AdapterInv, ToldInv, SimTrue
<1>4. ASSUME NEW k \in DOMAIN told PROVE ToldTrue(k)'
  <2>1. CASE k = r
    <3>1. r \in DOMAIN venue /\ \A i \in 1 .. Len(told[r]) : ReplyTrue(venue[r], told[r][i])
      BY <1>2 DEF ToldTrue
    <3>2. ASSUME NEW i \in 1 .. Len(told'[r]) PROVE ReplyTrue(venue[r], told'[r][i])
      <4>1. CASE i = Len(told[r]) + 1
        BY <4>1, <1>1, AppendTo
      <4>2. CASE i \in 1 .. Len(told[r])
        BY <4>2, <1>1, <3>1, AppendTo
      <4> QED BY <1>1, <4>1, <4>2
    <3> QED BY <1>1, <2>1, <3>1, <3>2 DEF ToldTrue, ReplyTrue
  <2>2. CASE k # r
    BY <1>1, <1>2, <2>2 DEF ToldTrue, ReplyTrue
  <2> QED BY <2>1, <2>2
<1> QED BY <1>1, <1>3, <1>4 DEF ToldInv, AdapterInv

\* The first reply to a submission.
LEMMA FirstReply ==
  ASSUME NEW price \in Nat
  PROVE  LET s == <<Reply("PENDING", 0, price)>> IN
         s \in Seq(Replies) /\ Len(s) = 1 /\ s[1].status = "PENDING" /\ FillsTrue(s) /\ Unfilled(s, 1) /\ PricedTo(s, 1, price)
<1> DEFINE x == Reply("PENDING", 0, price)
           s == <<x>>
<1>1. x \in Replies /\ x.status = "PENDING" /\ x.lots = 0 /\ x.price = price
  BY DEF Reply, Replies
<1> HIDE DEF x
<1>2. s \in Seq(Replies) /\ Len(s) = 1 /\ s[1] = x
  BY <1>1
<1> HIDE DEF s
<1>3. FillsTrue(s)
  BY <1>1, <1>2 DEF FillsTrue
<1>4. Unfilled(s, 1)
  BY <1>1, <1>2 DEF Unfilled
<1>5. PricedTo(s, 1, price)
  <2>1. CASE price > 0
    BY <1>1, <1>2, <2>1 DEF PricedTo, Priced
  <2>2. CASE price = 0
    BY <1>1, <1>2, <2>2 DEF PricedTo, Priced
  <2> QED BY <2>1, <2>2
<1> QED BY <1>1, <1>2, <1>3, <1>4, <1>5 DEF s, x

\* A submission is told once, at the price it was made with.
LEMMA SubmitTold ==
  ASSUME AdapterInv, dryRun' = dryRun, venue' = venue, NEW k, NEW price \in Nat,
         told' = With(told, k, <<Reply("PENDING", 0, price)>>),
         \/ dryRun /\ k[1] = "DRYRUN" /\ \E o \in SimOrders : o.price = price /\ simulated' = With(simulated, k, o)
         \/ ~dryRun /\ k \in DOMAIN venue /\ simulated' = simulated
  PROVE  ToldInv' /\ DOMAIN told \subseteq DOMAIN told'
<1>1. PICK s : s = <<Reply("PENDING", 0, price)>>
  OBVIOUS
<1>2. s \in Seq(Replies) /\ Len(s) = 1 /\ s[1].status = "PENDING" /\ FillsTrue(s) /\ Unfilled(s, 1) /\ PricedTo(s, 1, price)
  BY <1>1, FirstReply
<1>3. DOMAIN told' = DOMAIN told \cup {k} /\ told'[k] = s /\ told' = [r \in DOMAIN told' |-> told'[r]]
      /\ \A r \in DOMAIN told : r # k => told'[r] = told[r]
  <2>1. told' = With(told, k, s)
    BY <1>1
  <2> QED BY <2>1 DEF With
<1>4. ASSUME NEW r \in DOMAIN told' PROVE ToldTrue(r)'
  <2>1. CASE r = k
    <3>1. FillsTrue(told[k])'
      BY <1>2, <1>3 DEF FillsTrue, Unfilled, PricedTo, Priced
    <3>2. \A i \in 1 .. Len(told'[k]) : told'[k][i].status = "PENDING"
      BY <1>2, <1>3
    <3> QED BY <1>2, <1>3, <2>1, <3>1, <3>2 DEF ToldTrue, ReplyTrue
  <2>2. CASE r # k
    <3>1. r \in DOMAIN told /\ ToldTrue(r) /\ told'[r] = told[r]
      BY <1>3, <1>4, <2>2 DEF AdapterInv, ToldInv
    <3> QED BY SMTT(30), <3>1 DEF ToldTrue, FillsTrue, Unfilled, PricedTo, Priced, ReplyTrue
  <2> QED BY <2>1, <2>2
<1>5. CASE dryRun /\ k[1] = "DRYRUN" /\ \E o \in SimOrders : o.price = price /\ simulated' = With(simulated, k, o)
  <2>1. PICK o \in SimOrders : o.price = price /\ simulated' = With(simulated, k, o)
    BY <1>5
  <2>2. DOMAIN simulated' = DOMAIN simulated \cup {k} /\ simulated'[k] = o /\ simulated' = [r \in DOMAIN simulated' |-> simulated'[r]]
        /\ \A r \in DOMAIN simulated : r # k => simulated'[r] = simulated[r]
    BY <2>1 DEF With
  <2>3. ASSUME NEW r \in DOMAIN simulated' PROVE SimTrue(r)'
    <3>1. CASE r = k
      <4>1. Unfilled(told[k], Len(told[k]))' /\ PricedTo(told[k], Len(told[k]), simulated[k].price)'
        <5>1. told'[k] = s /\ Len(told'[k]) = 1 /\ simulated'[k].price = price
          BY <1>2, <1>3, <2>1, <2>2
        <5> QED BY <1>2, <5>1 DEF Unfilled, PricedTo, Priced
      <4> QED BY <1>3, <1>5, <2>1, <2>2, <3>1, <4>1 DEF SimTrue
    <3>2. CASE r # k
      <4>1. r \in DOMAIN simulated /\ SimTrue(r) /\ simulated'[r] = simulated[r]
        BY <2>2, <2>3, <3>2 DEF AdapterInv, ToldInv
      <4>2. told'[r] = told[r] /\ r \in DOMAIN told'
        BY <4>1, <3>2, <1>3 DEF SimTrue
      <4> QED BY ZenonT(60), <1>5, <4>1, <4>2 DEF SimTrue, Unfilled, PricedTo, Priced
    <3> QED BY <3>1, <3>2
  <2> QED BY <1>3, <1>4, <2>2, <2>3 DEF ToldInv
<1>6. CASE ~dryRun /\ k \in DOMAIN venue /\ simulated' = simulated
  <2>1. DOMAIN simulated = {} /\ simulated = [r \in DOMAIN simulated |-> simulated[r]]
    BY <1>6 DEF AdapterInv, ToldInv, SimTrue
  <2> QED BY <1>3, <1>4, <1>6, <2>1 DEF ToldInv
<1> QED BY <1>5, <1>6

\* The parts of a reply.
LEMMA ReplyMade ==
  ASSUME NEW status \in {"PENDING", "FILLED", "CANCELLED"}, NEW lots \in Nat, NEW price \in Nat
  PROVE  Reply(status, lots, price) \in Replies /\ Reply(status, lots, price).status = status
         /\ Reply(status, lots, price).lots = lots /\ Reply(status, lots, price).price = price
BY DEF Reply, Replies

\* An order the simulator lets go of.
LEMMA DroppedOne ==
  ASSUME NEW r, simulated' = [k \in DOMAIN simulated \ {r} |-> simulated[k]]
  PROVE  /\ simulated' = [k \in DOMAIN simulated' |-> simulated'[k]] /\ DOMAIN simulated' \subseteq DOMAIN simulated
         /\ r \notin DOMAIN simulated' /\ \A k \in DOMAIN simulated' : simulated'[k] = simulated[k]
OBVIOUS

\* The simulator takes an order in.
LEMMA SimulateSubmitStep ==
  ASSUME AdapterInv, dryRun, dryRun' = dryRun, venue' = venue, NEW c, c.body.volume \in Nat, c.body.price \in Nat,
         SimulateSubmit(c)
  PROVE  ToldInv' /\ DOMAIN told \subseteq DOMAIN told'
<1>1. PICK k : k = <<"DRYRUN", counter + 1>>
  OBVIOUS
<1>2. PICK o : o = [lots |-> c.body.volume, price |-> c.body.price, polls |-> PollsUntilFill]
  OBVIOUS
<1>3. o \in SimOrders /\ o.price = c.body.price
  BY <1>2, AdapterNumbers DEF SimOrders
<1>4. k[1] = "DRYRUN" /\ simulated' = With(simulated, k, o) /\ told' = With(told, k, <<Reply("PENDING", 0, c.body.price)>>)
  BY <1>1, <1>2 DEF SimulateSubmit
<1> QED BY <1>3, <1>4, SubmitTold

\* The simulator fills at the last poll, once, at the last price.
LEMMA SimulateQueryStep ==
  ASSUME AdapterInv, dryRun, dryRun' = dryRun, NEW r \in DOMAIN told, SimulateQuery(r)
  PROVE  ToldInv' /\ DOMAIN told' = DOMAIN told
<1>1. simulated = [k \in DOMAIN simulated |-> simulated[k]] /\ \A k \in DOMAIN simulated : simulated[k] \in SimOrders
  BY DEF AdapterInv, ToldInv, SimTrue
<1>2. CASE r \notin DOMAIN simulated
  <2>1. PICK x : x = Reply("FILLED", 0, 0)
    OBVIOUS
  <2>2. x \in Replies /\ x.lots = 0
    BY <2>1, ReplyMade
  <2>3. told' = [told EXCEPT ![r] = Append(@, x)] /\ simulated' = simulated
    BY <1>2, <2>1 DEF SimulateQuery, Tell
  <2>4. DryReply(r, x)
    BY <1>1, <1>2, <2>2, <2>3 DEF DryReply
  <2> QED BY <1>1, <1>2, <2>2, <2>3, <2>4, DryTold
<1>3. CASE r \in DOMAIN simulated /\ simulated[r].polls > 1
  <2>1. PICK x : x = Reply("PENDING", 0, 0)
    OBVIOUS
  <2>2. x \in Replies /\ x.lots = 0 /\ x.status = "PENDING" /\ x.price = 0
    BY <2>1, ReplyMade
  <2>3. told' = [told EXCEPT ![r] = Append(@, x)]
    BY <1>3, <2>1 DEF SimulateQuery, Tell
  <2>4. PICK o : o = [simulated[r] EXCEPT !.polls = @ - 1]
    OBVIOUS
  <2>5. o \in SimOrders /\ o.price = simulated[r].price
    BY <1>1, <1>3, <2>4 DEF SimOrders
  <2>6. simulated' = [simulated EXCEPT ![r] = o]
    BY <1>1, <1>3, <2>4 DEF SimulateQuery
  <2>7. simulated' = [k \in DOMAIN simulated' |-> simulated'[k]] /\ DOMAIN simulated' = DOMAIN simulated /\ simulated'[r] = o
        /\ \A k \in DOMAIN simulated' : k # r => simulated'[k] = simulated[k]
    BY <1>1, <1>3, <2>6
  <2>8. DryReply(r, x)
    BY <2>2, <2>3, <2>5, <2>7 DEF DryReply
  <2> QED BY <2>2, <2>3, <2>5, <2>7, <2>8, DryTold
<1>4. CASE r \in DOMAIN simulated /\ ~(simulated[r].polls > 1)
  <2>1. PICK x : x = Reply("FILLED", simulated[r].lots, simulated[r].price)
    OBVIOUS
  <2>2. x \in Replies /\ x.price = simulated[r].price
    BY <1>1, <1>4, <2>1, ReplyMade DEF SimOrders
  <2>3. told' = [told EXCEPT ![r] = Append(@, x)] /\ simulated' = [k \in DOMAIN simulated \ {r} |-> simulated[k]]
    BY <1>4, <2>1 DEF SimulateQuery, Tell
  <2>4. /\ simulated' = [k \in DOMAIN simulated' |-> simulated'[k]] /\ DOMAIN simulated' \subseteq DOMAIN simulated
        /\ r \notin DOMAIN simulated' /\ \A k \in DOMAIN simulated' : simulated'[k] = simulated[k]
    BY <2>3, DroppedOne
  <2>5. DryReply(r, x)
    BY <1>4, <2>2, <2>3, <2>4 DEF DryReply
  <2> QED BY <1>4, <2>2, <2>3, <2>4, <2>5, DryTold
<1> QED BY <1>2, <1>3, <1>4

\* The simulator cancels whatever it is asked to.
LEMMA SimulateCancelStep ==
  ASSUME AdapterInv, dryRun, dryRun' = dryRun, NEW r \in DOMAIN told, SimulateCancel(r)
  PROVE  ToldInv' /\ DOMAIN told' = DOMAIN told
<1>1. PICK x : x = Reply("CANCELLED", 0, 0)
  OBVIOUS
<1>2. x \in Replies /\ x.lots = 0
  BY <1>1, ReplyMade
<1>3. told' = [told EXCEPT ![r] = Append(@, x)] /\ simulated' = [k \in DOMAIN simulated \ {r} |-> simulated[k]]
  BY <1>1 DEF SimulateCancel, Tell
<1>4. /\ simulated' = [k \in DOMAIN simulated' |-> simulated'[k]] /\ DOMAIN simulated' \subseteq DOMAIN simulated
      /\ r \notin DOMAIN simulated' /\ \A k \in DOMAIN simulated' : simulated'[k] = simulated[k]
  BY <1>3, DroppedOne
<1>5. DryReply(r, x)
  BY <1>2, <1>3, <1>4 DEF DryReply
<1> QED BY <1>2, <1>3, <1>4, <1>5, DryTold

\* The simulator takes a new price.
LEMMA SimulateModifyStep ==
  ASSUME AdapterInv, dryRun, dryRun' = dryRun, NEW r \in DOMAIN told, NEW price \in Nat, SimulateModify(r, price)
  PROVE  ToldInv' /\ DOMAIN told' = DOMAIN told
<1>1. simulated = [k \in DOMAIN simulated |-> simulated[k]] /\ \A k \in DOMAIN simulated : simulated[k] \in SimOrders
  BY DEF AdapterInv, ToldInv, SimTrue
<1>2. PICK x : x = Reply("PENDING", 0, price)
  OBVIOUS
<1>3. x \in Replies /\ x.lots = 0 /\ x.status = "PENDING" /\ x.price = price
  BY <1>2, ReplyMade
<1>4. told' = [told EXCEPT ![r] = Append(@, x)]
  BY <1>2 DEF SimulateModify, Tell
<1>5. CASE r \in DOMAIN simulated /\ price # 0
  <2>1. PICK o : o = [simulated[r] EXCEPT !.price = price]
    OBVIOUS
  <2>2. o \in SimOrders /\ o.price = price
    BY <1>1, <1>5, <2>1 DEF SimOrders
  <2>3. simulated' = [simulated EXCEPT ![r] = o]
    BY <1>1, <1>5, <2>1 DEF SimulateModify
  <2>4. simulated' = [k \in DOMAIN simulated' |-> simulated'[k]] /\ DOMAIN simulated' = DOMAIN simulated /\ simulated'[r] = o
        /\ \A k \in DOMAIN simulated' : k # r => simulated'[k] = simulated[k]
    BY <1>1, <1>5, <2>3
  <2>5. DryReply(r, x)
    BY <1>3, <1>4, <1>5, <2>2, <2>4 DEF DryReply
  <2> QED BY <1>3, <1>4, <1>5, <2>2, <2>4, <2>5, DryTold
<1>6. CASE ~(r \in DOMAIN simulated /\ price # 0)
  <2>1. simulated' = simulated
    BY <1>6 DEF SimulateModify
  <2>2. DryReply(r, x)
    BY <1>1, <1>3, <1>4, <1>6, <2>1 DEF DryReply
  <2> QED BY <1>1, <1>3, <1>4, <1>6, <2>1, <2>2, DryTold
<1> QED BY <1>5, <1>6

\* What parsing an answer tells.
LEMMA ParseTells ==
  ASSUME AdapterInv, NEW t \in Threads, Parse(t)
  PROVE  ToldInv' /\ DOMAIN told \subseteq DOMAIN told' /\ OrdersReadBack'
<1>1. PICK c : c = call[t]
  OBVIOUS
<1>2. CallTrue(c) /\ c.pc = "parse" /\ dryRun \in BOOLEAN
  BY <1>1 DEF AdapterInv, CallsInv, Parse
<1>3. c.op \in Ops /\ c.home = dryRun /\ (c.op = "submit" => \E p \in Placements : c.body = BuildSubmitPayload(p))
      /\ (c.op = "modify" => c.body \in Edits) /\ (c.op \in OrderOps => c.ref \in DOMAIN told) /\ (~dryRun => RawTrue(c))
  BY <1>2 DEF CallTrue
<1>4. dryRun' = dryRun /\ venue' = venue
  BY DEF Parse
<1>5. ASSUME c.op \in OrderOps, ~dryRun PROVE c.ref \in DOMAIN venue
  BY <1>3, <1>5 DEF AdapterInv, ToldInv, ToldTrue
<1>6. Grown(venue, venue')
  BY <1>4, BookKept
<1>7. CASE c.op = "submit"
  <2>1. ParseSubmit(c) /\ view' = view
    BY <1>1, <1>7 DEF Parse
  <2>2. c.body.volume \in Nat /\ c.body.price \in Nat
    BY <1>3, <1>7, SubmitPlaced
  <2>3. CASE dryRun
    BY <1>3, <1>4, <2>1, <2>2, <2>3, SimulateSubmitStep, ViewKept DEF ParseSubmit
  <2>4. CASE ~dryRun
    <3>1. c.raw[1] \in DOMAIN venue /\ told' = With(told, c.raw[1], <<Reply("PENDING", 0, c.body.price)>>) /\ simulated' = simulated
      BY <1>3, <1>7, <2>1, <2>4 DEF ParseSubmit, RawTrue
    <3>2. ToldInv' /\ DOMAIN told \subseteq DOMAIN told'
      BY <1>4, <2>2, <2>4, <3>1, SubmitTold
    <3> QED BY <2>1, <3>2, ViewKept
  <2> QED BY <1>2, <2>3, <2>4
<1>8. CASE c.op = "query"
  <2>1. ParseQuery(c) /\ view' = view /\ c.ref \in DOMAIN told
    BY <1>1, <1>3, <1>8 DEF Parse, OrderOps
  <2>2. CASE dryRun
    <3>1. SimulateQuery(c.ref)
      BY <1>3, <2>1, <2>2 DEF ParseQuery
    <3> QED BY <1>4, <2>1, <2>2, <3>1, SimulateQueryStep, ViewKept
  <2>3. CASE ~dryRun
    <3>1. PICK o : o = c.raw[1]
      OBVIOUS
    <3>2. Snapshot(o, venue[c.ref])
      BY <1>3, <1>8, <2>3, <3>1 DEF RawTrue
    <3>3. o.status \in Statuses /\ o.body.volume \in Nat /\ o.body.price \in Nat
          /\ o.body.volume = venue[c.ref].body.volume /\ (o.status # "open" => venue[c.ref].status = o.status)
      BY <3>2 DEF Snapshot, VenueOrders, Bodies
    <3>4. StatusMap[o.status] = (CASE o.status = "open" -> "PENDING" [] o.status = "closed" -> "FILLED" [] o.status = "canceled" -> "CANCELLED")
      BY <3>3 DEF StatusMap, Statuses
    <3>5. PICK x : x = Reply(StatusMap[o.status], IF StatusMap[o.status] = "FILLED" THEN o.body.volume ELSE 0,
                             IF StatusMap[o.status] = "FILLED" THEN o.body.price ELSE 0)
      OBVIOUS
    <3>6. x \in Replies /\ x.status = StatusMap[o.status] /\ x.lots = (IF StatusMap[o.status] = "FILLED" THEN o.body.volume ELSE 0)
      BY SMTT(30), <3>3, <3>4, <3>5, ReplyMade DEF Statuses
    <3>7. ReplyTrue(venue[c.ref], x)
      BY <3>3, <3>4, <3>6 DEF ReplyTrue, Statuses
    <3>8. told' = [told EXCEPT ![c.ref] = Append(@, x)] /\ simulated' = simulated
      BY <1>3, <2>1, <2>3, <3>1, <3>5 DEF ParseQuery, Tell
    <3>9. ToldInv' /\ DOMAIN told' = DOMAIN told
      BY <1>4, <2>1, <2>3, <3>6, <3>7, <3>8, LiveTold
    <3> QED BY <2>1, <3>9, ViewKept
  <2> QED BY <1>2, <2>2, <2>3
<1>9. CASE c.op = "cancel"
  <2>1. ParseCancel(c) /\ view' = view /\ c.ref \in DOMAIN told
    BY <1>1, <1>3, <1>9 DEF Parse, OrderOps
  <2>2. CASE dryRun
    <3>1. SimulateCancel(c.ref)
      BY <1>3, <2>1, <2>2 DEF ParseCancel
    <3> QED BY <1>4, <2>1, <2>2, <3>1, SimulateCancelStep, ViewKept
  <2>3. CASE ~dryRun
    <3>1. PICK x : x = Reply("CANCELLED", 0, 0)
      OBVIOUS
    <3>2. x \in Replies /\ x.status = "CANCELLED"
      BY <3>1, ReplyMade
    <3>3. ReplyTrue(venue[c.ref], x)
      BY <1>3, <1>9, <2>3, <3>2 DEF ReplyTrue, RawTrue
    <3>4. told' = [told EXCEPT ![c.ref] = Append(@, x)] /\ simulated' = simulated
      BY <1>3, <2>1, <2>3, <3>1 DEF ParseCancel, Tell
    <3>5. ToldInv' /\ DOMAIN told' = DOMAIN told
      BY <1>4, <2>1, <2>3, <3>2, <3>3, <3>4, LiveTold
    <3> QED BY <2>1, <3>5, ViewKept
  <2> QED BY <1>2, <2>2, <2>3
<1>10. CASE c.op = "modify"
  <2>1. ParseModify(c) /\ view' = view /\ c.ref \in DOMAIN told
    BY <1>1, <1>3, <1>10 DEF Parse, OrderOps
  <2>2. c.body.limit_price \in Nat
    BY <1>3, <1>10 DEF Edits, BuildModifyPayload
  <2>3. CASE dryRun
    <3>1. SimulateModify(c.ref, c.body.limit_price)
      BY <1>3, <2>1, <2>3 DEF ParseModify
    <3> QED BY <1>4, <2>1, <2>2, <2>3, <3>1, SimulateModifyStep, ViewKept
  <2>4. CASE ~dryRun
    <3>1. PICK x : x = Reply("PENDING", 0, c.body.limit_price)
      OBVIOUS
    <3>2. x \in Replies /\ x.status = "PENDING"
      BY <2>2, <3>1, ReplyMade
    <3>3. ReplyTrue(venue[c.ref], x)
      BY <3>2 DEF ReplyTrue
    <3>4. told' = [told EXCEPT ![c.ref] = Append(@, x)] /\ simulated' = simulated
      BY <1>3, <2>1, <2>4, <3>1 DEF ParseModify, Tell
    <3>5. ToldInv' /\ DOMAIN told' = DOMAIN told
      BY <1>4, <2>1, <2>4, <3>2, <3>3, <3>4, LiveTold
    <3> QED BY <2>1, <3>5, ViewKept
  <2> QED BY <1>2, <2>3, <2>4
<1>11. CASE c.op = "openorders"
  <2>1. ParseOpenOrders(c) /\ told' = told /\ simulated' = simulated
    BY <1>1, <1>11 DEF Parse
  <2>2. OrdersReadBack'
    <3>1. CASE dryRun
      <4>1. view' = {}
        BY <1>3, <2>1, <3>1 DEF ParseOpenOrders
      <4> QED BY <4>1 DEF OrdersReadBack
    <3>2. CASE ~dryRun
      <4>1. view' = {BrokerOrder(r, c.raw[2][r]) : r \in c.raw[1]}
        BY <1>3, <2>1, <3>2 DEF ParseOpenOrders
      <4>2. \A r \in c.raw[1] : Placed(c.raw[2][r])
        BY <1>3, <1>11, <3>2 DEF RawTrue
      <4>3. ASSUME NEW o \in view'
            PROVE \E p \in Placements : /\ o.symbol = p.symbol /\ o.dir = p.dir /\ o.type = p.type /\ o.lots = p.lots
                                        /\ o.price = p.price \/ o.price = 3
        <5>1. PICK r \in c.raw[1] : o = BrokerOrder(r, c.raw[2][r])
          BY <4>1, <4>3
        <5> QED BY <4>2, <5>1, ReadBack
      <4> QED BY <4>3 DEF OrdersReadBack
    <3> QED BY <1>2, <3>1, <3>2
  <2> QED BY <1>4, <1>6, <2>1, <2>2, ToldKept
<1>12. CASE c.op \notin {"submit", "query", "cancel", "modify", "openorders"}
  <2>1. told' = told /\ simulated' = simulated /\ view' = view
    BY <1>1, <1>12 DEF Parse
  <2> QED BY <1>4, <1>6, <2>1, ToldKept, ViewKept
<1> QED BY <1>7, <1>8, <1>9, <1>10, <1>11, <1>12

\* An answer is parsed and the call is over.
LEMMA ParseStep ==
  ASSUME AdapterInv, NEW t \in Threads, Parse(t)
  PROVE  AdapterInv'
<1>1. ToldInv' /\ DOMAIN told \subseteq DOMAIN told' /\ OrdersReadBack'
  BY ParseTells
<1>2. call' = [call EXCEPT ![t] = Idle] /\ call[t].pc = "parse"
      /\ UNCHANGED <<dryRun, mono, wall, lock, lastRequest, lastNonce, made, wire, venue>>
  BY DEF Parse
<1>3. BookInv' /\ Grown(venue, venue')
  BY <1>2, BookKept
<1>4. PICK d : d = Idle
  OBVIOUS
<1>5. d.pc = "idle" /\ IsCall(d)
  BY <1>4 DEF Idle, IsCall
<1>6. CallTrue(d)'
  BY <1>5 DEF CallTrue, Pcs, IsCall
<1>7. CallsInv' /\ call'[t] = d /\ \A s \in Threads : s # t => call'[s] = call[s]
  BY <1>1, <1>2, <1>3, <1>4, <1>6, CallsStep
<1>8. TimeInv'
  BY <1>2, <1>5, <1>7 DEF AdapterInv, TimeInv
<1> QED BY <1>1, <1>2, <1>3, <1>7, <1>8, WireKept DEF AdapterInv

\* The exchange fills an order by itself.
LEMMA VenueFillsStep ==
  ASSUME AdapterInv, VenueFills
  PROVE  AdapterInv'
<1>1. PICK r \in DOMAIN venue : IsOpen(r) /\ venue' = [venue EXCEPT ![r].status = "closed"]
  BY DEF VenueFills
<1>2. UNCHANGED <<dryRun, mono, wall, lock, lastRequest, lastNonce, call, made, wire, simulated, counter, told, view>>
  BY DEF VenueFills
<1>3. venue[r] \in VenueOrders /\ Placed(venue[r].body) /\ venue = [x \in DOMAIN venue |-> venue[x]] /\ venue[r].status = "open"
  BY <1>1 DEF AdapterInv, BookInv, BookOf, IsOpen
<1>4. PICK o : o = [venue[r] EXCEPT !.status = "closed"]
  OBVIOUS
<1>5. o \in VenueOrders /\ o.body = venue[r].body
  BY <1>3, <1>4 DEF VenueOrders, Statuses
<1>6. venue' = [venue EXCEPT ![r] = o]
  BY <1>1, <1>3, <1>4
<1>7. BookOf(venue') /\ Grown(venue, venue')
  BY <1>3, <1>5, <1>6, OrderEdited DEF AdapterInv
<1>8. BookInv'
  BY <1>2, <1>7 DEF BookInv, BookOf, Placed
<1>9. CallsInv' /\ ToldInv' /\ WireInv' /\ OrdersReadBack'
  BY <1>2, <1>7, CallsStay, ToldKept, WireKept, ViewKept
<1>10. TimeInv'
  BY <1>2 DEF AdapterInv, TimeInv
<1> QED BY <1>8, <1>9, <1>10 DEF AdapterInv

\* Time passes, or the wall clock is set back.
LEMMA ClockStep ==
  ASSUME AdapterInv, ClockTick \/ WallSetBack
  PROVE  AdapterInv'
<1>1. UNCHANGED <<dryRun, lock, lastRequest, lastNonce, call, made, wire, venue, simulated, counter, told, view>>
  BY DEF ClockTick, WallSetBack
<1>2. mono' \in Int /\ wall' \in Int
  <2>1. MaxStepBack \in Int
    BY AdapterNumbers
  <2> QED BY <2>1 DEF ClockTick, WallSetBack, AdapterInv, TimeInv
<1>3. BookInv' /\ Grown(venue, venue')
  BY <1>1, BookKept
<1>4. CallsInv' /\ ToldInv' /\ WireInv' /\ OrdersReadBack'
  BY <1>1, <1>3, CallsStay, ToldKept, WireKept, ViewKept
<1>5. TimeInv'
  BY <1>1, <1>2 DEF AdapterInv, TimeInv
<1> QED BY <1>3, <1>4, <1>5 DEF AdapterInv

\* Nothing was asked or told yet.
LEMMA AdapterInitial == AdapterInit => AdapterInv
<1> SUFFICES ASSUME AdapterInit PROVE AdapterInv
  OBVIOUS
<1>1. IsCall(Idle) /\ Idle.pc = "idle"
  BY DEF Idle, IsCall
<1>2. CallTrue(Idle)
  BY <1>1 DEF CallTrue, Pcs
<1>3. call = [t \in Threads |-> Idle] /\ dryRun \in BOOLEAN
  BY DEF AdapterInit
<1>4. CallsInv
  BY <1>2, <1>3 DEF CallsInv
<1>5. TimeInv
  <2>1. \A t \in Threads : call[t].pc = "idle" /\ t # Nobody
    BY <1>1, <1>3 DEF Threads, Nobody
  <2>2. lock = Nobody /\ mono \in Int /\ wall \in Int /\ lastRequest \in Int /\ lastNonce \in Int
    BY AdapterNumbers DEF AdapterInit
  <2> QED BY <2>1, <2>2 DEF TimeInv
<1>6. WireInv /\ OrdersReadBack
  BY DEF AdapterInit, WireInv, OrdersReadBack
<1>7. DOMAIN venue = {} /\ DOMAIN told = {} /\ DOMAIN simulated = {} /\ venue = <<>> /\ told = <<>> /\ simulated = <<>>
  BY DEF AdapterInit
<1>8. BookInv
  BY <1>7, FS_EmptySet DEF BookInv, BookOf
<1>9. ToldInv
  BY <1>7 DEF ToldInv
<1> QED BY <1>4, <1>5, <1>6, <1>8, <1>9 DEF AdapterInv

\* Every step keeps the invariant.
LEMMA AdapterSteps == AdapterInv /\ [AdapterNext]_adapterVars => AdapterInv'
<1> SUFFICES ASSUME AdapterInv, [AdapterNext]_adapterVars PROVE AdapterInv'
  OBVIOUS
<1>1. ASSUME NEW t \in Threads, BeginSubmit(t) PROVE AdapterInv'
  <2>1. PICK p \in Placements : BeginCall(t, "submit", NoRef, BuildSubmitPayload(p))
    BY <1>1 DEF BeginSubmit
  <2>2. "submit" \in Ops \ {"querytrades"} /\ "submit" \notin OrderOps
    BY DEF Ops, OrderOps
  <2>3. \E q \in Placements : BuildSubmitPayload(p) = BuildSubmitPayload(q)
    OBVIOUS
  <2> QED BY <2>1, <2>2, <2>3, BeginCallStep
<1>2. ASSUME NEW t \in Threads, BeginOrderOp(t) PROVE AdapterInv'
  <2>1. PICK ref \in DOMAIN told :
           \/ \E op \in {"query", "cancel", "trades"} : BeginCall(t, op, ref, <<>>)
           \/ \E price \in {0, 3} : BeginCall(t, "modify", ref, BuildModifyPayload(price))
    BY <1>2 DEF BeginOrderOp, KnownRefs
  <2>2. ASSUME NEW op \in {"query", "cancel", "trades"}, BeginCall(t, op, ref, <<>>) PROVE AdapterInv'
    <3>1. op \in Ops \ {"querytrades"} /\ op # "submit" /\ op # "modify"
      BY DEF Ops, OrderOps
    <3> QED BY <2>2, <3>1, BeginCallStep
  <2>3. ASSUME NEW price \in {0, 3}, BeginCall(t, "modify", ref, BuildModifyPayload(price)) PROVE AdapterInv'
    <3>1. "modify" \in Ops \ {"querytrades"} /\ BuildModifyPayload(price) \in Edits
      BY DEF Ops, OrderOps, Edits
    <3> QED BY <2>3, <3>1, BeginCallStep
  <2> QED BY <2>1, <2>2, <2>3
<1>3. ASSUME NEW t \in Threads, BeginAccountRead(t) PROVE AdapterInv'
  <2>1. PICK op \in AccountOps : BeginCall(t, op, NoRef, <<>>)
    BY <1>3 DEF BeginAccountRead
  <2>2. op \in Ops \ {"querytrades"} /\ op # "submit" /\ op # "modify" /\ op \notin OrderOps
    BY DEF Ops, OrderOps, AccountOps
  <2> QED BY <2>1, <2>2, BeginCallStep
<1>4. ASSUME NEW t \in Threads, Serve(t) PROVE AdapterInv'
  BY <1>4, EnterPrivateStep, SignAndPostStep, AnsweredStep, ParseStep DEF Serve
<1>5. CASE VenueFills
  BY <1>5, VenueFillsStep
<1>6. CASE ClockTick \/ WallSetBack
  BY <1>6, ClockStep
<1>7. CASE UNCHANGED adapterVars
  <2>1. UNCHANGED <<dryRun, mono, wall, lock, lastRequest, lastNonce, call, made, wire, venue, simulated, counter, told, view>>
    BY <1>7 DEF adapterVars
  <2>2. BookInv' /\ Grown(venue, venue')
    BY <2>1, BookKept
  <2>3. CallsInv' /\ ToldInv' /\ WireInv' /\ OrdersReadBack'
    BY <2>1, <2>2, CallsStay, ToldKept, WireKept, ViewKept
  <2>4. TimeInv'
    BY <2>1 DEF AdapterInv, TimeInv
  <2> QED BY <2>2, <2>3, <2>4 DEF AdapterInv
<1> QED BY <1>1, <1>2, <1>3, <1>4, <1>5, <1>6, <1>7 DEF AdapterNext

\* The invariant says what the run checks.
LEMMA AdapterInvSound == AdapterInv => AdapterSound
<1> SUFFICES ASSUME AdapterInv PROVE AdapterSound
  OBVIOUS
<1>1. NoncesRise /\ RequestsSpaced /\ DryRunHarmless
  BY WireSound DEF AdapterInv, DryRunHarmless, BookInv, BookOf
<1>2. DryFillTrue
  <2> SUFFICES ASSUME NEW ref \in DOMAIN told, ref[1] = "DRYRUN", NEW i \in DOMAIN told[ref], told[ref][i].lots > 0
               PROVE  LET priced == {k \in 1 .. i - 1 : told[ref][k].status = "PENDING" /\ told[ref][k].price > 0} IN
                      /\ \A k \in 1 .. i - 1 : told[ref][k].lots = 0 /\ told[ref][k].status = "PENDING"
                      /\ told[ref][i].price = IF priced = {} THEN 0
                                              ELSE told[ref][CHOOSE k \in priced : \A m \in priced : m <= k].price
    BY DEF DryFillTrue
  <2>1. ToldTrue(ref) /\ dryRun
    BY DEF AdapterInv, ToldInv, ToldTrue, BookInv, BookOf
  <2>2. told[ref] \in Seq(Replies) /\ FillsTrue(told[ref])
    BY <2>1 DEF ToldTrue
  <2>3. i \in 1 .. Len(told[ref]) /\ i - 1 \in Nat
    BY <2>2
  <2>4. Unfilled(told[ref], i - 1) /\ PricedTo(told[ref], i - 1, told[ref][i].price)
    BY <2>2, <2>3 DEF FillsTrue
  <2>5. \A k \in 1 .. i - 1 : told[ref][k].price \in Nat
    <3>1. \A k \in 1 .. Len(told[ref]) : told[ref][k] \in Replies
      BY <2>2
    <3> QED BY <2>3, <3>1 DEF Replies
  <2> QED BY <2>3, <2>4, <2>5, FillsFound DEF Unfilled
<1>3. RepliesTrue
  <2> SUFFICES ASSUME NEW ref \in DOMAIN told, ref[1] = "venue", NEW i \in DOMAIN told[ref]
               PROVE  ReplyTrue(venue[ref], told[ref][i])
    BY DEF RepliesTrue, ReplyTrue
  <2>1. ToldTrue(ref)
    BY DEF AdapterInv, ToldInv
  <2>2. ~dryRun /\ i \in 1 .. Len(told[ref])
    BY <2>1 DEF ToldTrue
  <2> QED BY <2>1, <2>2 DEF ToldTrue
<1> QED BY <1>1, <1>2, <1>3 DEF AdapterSound, AdapterInv

\* Whatever the two threads, the clocks and the exchange do, and however many calls
\* there are: nonces rise, requests keep the rate limit, a dry run stays harmless,
\* and what is reported of an order is what became of it (_fetch_private,
\* _parse_query_response, DryRunOrderSimulator).
THEOREM AdapterKeepsFaith == AdapterInit /\ [][AdapterNext]_adapterVars => []AdapterSound
<1>1. AdapterInit => AdapterInv
  BY AdapterInitial
<1>2. AdapterInv /\ [AdapterNext]_adapterVars => AdapterInv'
  BY AdapterSteps
<1>3. AdapterInv => AdapterSound
  BY AdapterInvSound
<1> QED BY <1>1, <1>2, <1>3, PTL

-----------------------------------------------------------------------------
(***************************************************************************)
(* The start of a session, wherever it fails, whatever the cache file was    *)
(* left as.                                                                 *)
(***************************************************************************)

BootFields == {"config", "had", "live", "dry", "balances", "currency", "bars", "executor", "components", "outcome"}

-----------------------------------------------------------------------------
(* The inductive invariant, by what each stage has settled. *)

Early == {"data", "broker", "config"}
Flown == {"transport", "source", "loop"}
Built == {"pipeline", "checks", "study"} \cup Flown

\* Specifications that were read from the exchange's listing, none of them
\* after the given day.
Fetched(specs, d) ==
    \A s \in DOMAIN specs : specs[s].version > 0 /\ specs[s].at \in Nat /\ specs[s].at <= d

Shapes ==
    /\ DOMAIN session = {"pc", "profile"} /\ DOMAIN boot = BootFields
    /\ ~On("off") => P \in Profiles
    /\ day \in Nat /\ listing \in [DOMAIN Markets -> Nat]

\* A cache file that can be read holds fetched specifications.
CacheTrue ==
    cache.kind = "good" => cache.at \in Nat /\ cache.at <= day /\ Fetched(cache.specs, cache.at)

\* The configuration on its way to the file and to the adapter.
ConfigTrue ==
    /\ On("write") => Fetched(boot.config, day) /\ AsksBroker
    /\ On("config") => AsksBroker
    /\ On("adapter") /\ AsksBroker => Fetched(boot.config, day)

\* Nothing is remembered before the cache was looked at.
HadTrue == (session.pc \in Early => boot.had = {}) /\ CacheRemembers

\* From the adapter on the session knows its symbol.
SymbolTrue ==
    session.pc \in {"executor"} \cup Built =>
        /\ P.symbol \in DOMAIN boot.config
        /\ boot.live => boot.config[P.symbol].version > 0

\* From the executor on the account has a balance.
FundsTrue ==
    session.pc \in Built => boot.balances # {} /\ (P.currency = "" => boot.currency \in boot.balances)

\* From the preflight on a study is alone on its account.
StudyTrue ==
    session.pc \in Flown /\ P.study =>
        P.spot /\ ("reconciler" \in boot.components /\ ~boot.dry => ~resting)

BootInv ==
    /\ Shapes /\ CacheTrue /\ ConfigTrue /\ HadTrue /\ SymbolTrue /\ RealOrdersAsked
    /\ FundsTrue /\ StudyTrue /\ NothingLeftRunning

LEMMA InvIsSound == BootInv => BootSound
BY DEF BootInv, BootSound, SymbolTrue, TradesKnownSymbol, HadTrue, CacheTrue, SpecsWithinFile,
       Fetched, FundsTrue, AccountFunded, StudyTrue, StudyStartsFlat, Built, Flown, On

-----------------------------------------------------------------------------
(* Moving from stage to stage *)

LEMMA GotoFacts ==
  ASSUME Shapes, NEW pc, Goto(pc)
  PROVE  DOMAIN session' = {"pc", "profile"} /\ session'.pc = pc /\ session'.profile = session.profile
BY DEF Shapes, Goto

LEMMA FailFacts ==
  ASSUME Shapes, Fail
  PROVE  /\ DOMAIN session' = {"pc", "profile"} /\ session'.pc = "shutdown" /\ P' = P
         /\ DOMAIN boot' = BootFields /\ boot'.had = boot.had /\ boot'.config = boot.config
         /\ boot'.dry = boot.dry /\ boot'.live = boot.live /\ boot'.balances = boot.balances
<1>1. Goto("shutdown")  BY DEF Fail
<1>2. DOMAIN session' = {"pc", "profile"} /\ session'.pc = "shutdown" /\ session'.profile = session.profile
  BY <1>1, GotoFacts
<1>3. boot' = [boot EXCEPT !.outcome = "emergency"]  BY DEF Fail
<1>4. DOMAIN boot = BootFields  BY DEF Shapes
<1>5. DOMAIN boot' = BootFields  BY <1>3, <1>4
<1>6. /\ boot'.had = boot.had /\ boot'.config = boot.config /\ boot'.dry = boot.dry
      /\ boot'.live = boot.live /\ boot'.balances = boot.balances
  BY <1>3, <1>4 DEF BootFields
<1> QED  BY <1>2, <1>5, <1>6 DEF P

\* A start that fails goes to the shutdown with what it had settled.
LEMMA FailKeeps ==
  ASSUME BootInv, Fail, ~On("off"), UNCHANGED <<day, listing, resting>>,
         CacheTrue'
  PROVE  BootInv'
<1>1. /\ DOMAIN session' = {"pc", "profile"} /\ session'.pc = "shutdown" /\ P' = P
      /\ DOMAIN boot' = BootFields /\ boot'.had = boot.had /\ boot'.config = boot.config
      /\ boot'.dry = boot.dry /\ boot'.live = boot.live /\ boot'.balances = boot.balances
  BY FailFacts DEF BootInv
<1>2. Shapes'  BY <1>1 DEF BootInv, Shapes, On
<1>3. ConfigTrue' /\ SymbolTrue' /\ FundsTrue' /\ StudyTrue' /\ NothingLeftRunning'
  BY <1>1 DEF ConfigTrue, SymbolTrue, FundsTrue, StudyTrue, NothingLeftRunning, On, Built, Flown
<1>4. HadTrue'  BY <1>1 DEF BootInv, HadTrue, CacheRemembers, Early
<1>5. RealOrdersAsked'  BY <1>1 DEF BootInv, RealOrdersAsked, Currencies
<1> QED  BY <1>2, <1>3, <1>4, <1>5 DEF BootInv

\* What every stage that goes on keeps.
LEMMA StageFacts ==
  ASSUME BootInv, NEW pc, pc # "off", Goto(pc), ~On("off"), UNCHANGED <<day, listing, resting>>,
         DOMAIN boot' = BootFields
  PROVE  /\ Shapes' /\ NothingLeftRunning' /\ P' = P /\ session'.pc = pc
         /\ AsksBroker' = AsksBroker
<1>1. DOMAIN session' = {"pc", "profile"} /\ session'.pc = pc /\ session'.profile = session.profile
  BY GotoFacts DEF BootInv
<1>2. P' = P  BY <1>1 DEF P
<1>3. Shapes'  BY <1>1, <1>2 DEF BootInv, Shapes, On
<1>4. NothingLeftRunning'  BY <1>1 DEF NothingLeftRunning, On
<1> QED  BY <1>1, <1>2, <1>3, <1>4 DEF AsksBroker

\* A stage that leaves the settled things alone.
LEMMA PassKeeps ==
  ASSUME BootInv, NEW pc, pc # "off", Goto(pc), ~On("off"), UNCHANGED <<day, listing, resting, cache, boot>>,
         ConfigTrue', HadTrue', SymbolTrue', FundsTrue', StudyTrue'
  PROVE  BootInv'
<1>1. Shapes' /\ NothingLeftRunning' /\ P' = P
  <2>1. DOMAIN boot' = BootFields  BY DEF BootInv, Shapes
  <2> QED  BY <2>1, StageFacts
<1>2. CacheTrue'  BY DEF BootInv, CacheTrue, Fetched
<1>3. RealOrdersAsked'  BY <1>1 DEF BootInv, RealOrdersAsked, Currencies
<1> QED  BY <1>1, <1>2, <1>3 DEF BootInv

-----------------------------------------------------------------------------
(* The configuration *)

LEMMA DataKeeps == BootInv /\ PrepareData => BootInv'
<1> SUFFICES ASSUME BootInv, PrepareData PROVE BootInv'  OBVIOUS
<1>1. session.pc = "data" /\ ~On("off") /\ UNCHANGED <<day, listing, cache, resting>>
  BY DEF PrepareData, On
<1>2. CacheTrue'  BY <1>1 DEF BootInv, CacheTrue, Fetched
<1>3. CASE Fail  BY <1>1, <1>2, <1>3, FailKeeps
<1>4. CASE Goto("broker") /\ UNCHANGED boot
  <2>1. session'.pc = "broker"  BY <1>4, GotoFacts DEF BootInv
  <2>2. ConfigTrue' /\ SymbolTrue' /\ FundsTrue' /\ StudyTrue'
    BY <2>1 DEF ConfigTrue, SymbolTrue, FundsTrue, StudyTrue, On, Built, Flown
  <2>3. HadTrue'  BY <1>1, <1>4, <2>1 DEF BootInv, HadTrue, CacheRemembers, Early
  <2> QED  BY <1>1, <1>4, <2>2, <2>3, PassKeeps
<1> QED  BY <1>3, <1>4 DEF PrepareData

LEMMA BrokerKeeps == BootInv /\ CreateBrokerConfig => BootInv'
<1> SUFFICES ASSUME BootInv, CreateBrokerConfig PROVE BootInv'  OBVIOUS
<1>1. session.pc = "broker" /\ ~On("off") /\ UNCHANGED <<day, listing, cache, resting>>
  BY DEF CreateBrokerConfig, On
<1>2. CacheTrue'  BY <1>1 DEF BootInv, CacheTrue, Fetched
<1>3. boot.had = {}  BY <1>1 DEF BootInv, HadTrue, Early
<1>4. CASE Fail  BY <1>1, <1>2, <1>4, FailKeeps
<1>5. CASE AsksBroker /\ Goto("config") /\ UNCHANGED boot
  <2>1. session'.pc = "config" /\ AsksBroker'
    <3>1. DOMAIN boot' = BootFields  BY <1>5 DEF BootInv, Shapes
    <3> QED  BY <1>1, <1>5, <3>1, StageFacts
  <2>2. ConfigTrue' /\ SymbolTrue' /\ FundsTrue' /\ StudyTrue'
    BY <2>1 DEF ConfigTrue, SymbolTrue, FundsTrue, StudyTrue, On, Built, Flown
  <2>3. HadTrue'  BY <1>3, <1>5 DEF HadTrue, CacheRemembers
  <2> QED  BY <1>1, <1>5, <2>2, <2>3, PassKeeps
<1>6. CASE ~AsksBroker /\ Goto("adapter") /\ boot' = [boot EXCEPT !.config = StaticConfig]
  <2>1. DOMAIN boot = BootFields  BY DEF BootInv, Shapes
  <2>2. DOMAIN boot' = BootFields  BY <1>6, <2>1
  <2>3. boot'.had = boot.had /\ boot'.dry = boot.dry /\ boot'.live = boot.live /\ boot'.balances = boot.balances
    BY <1>6, <2>1 DEF BootFields
  <2>4. Shapes' /\ NothingLeftRunning' /\ P' = P /\ session'.pc = "adapter" /\ ~AsksBroker'
    BY <1>1, <1>6, <2>2, StageFacts
  <2>5. ConfigTrue' /\ SymbolTrue' /\ FundsTrue' /\ StudyTrue'
    BY <2>4 DEF ConfigTrue, SymbolTrue, FundsTrue, StudyTrue, On, Built, Flown
  <2>6. HadTrue'  BY <1>3, <2>3 DEF HadTrue, CacheRemembers
  <2>7. RealOrdersAsked'  BY <2>3, <2>4 DEF BootInv, RealOrdersAsked, Currencies
  <2> QED  BY <1>2, <2>4, <2>5, <2>6, <2>7 DEF BootInv
<1> QED  BY <1>4, <1>5, <1>6 DEF CreateBrokerConfig

\* A configuration that was fetched, now or at an earlier day, goes on to its
\* file or to the adapter.
LEMMA FetchedKeeps ==
  ASSUME BootInv, On("config"), NEW pc \in {"write", "adapter"}, Goto(pc),
         UNCHANGED <<day, listing, resting>>, CacheTrue',
         DOMAIN boot' = BootFields, Fetched(boot'.config, day), boot'.had \subseteq DOMAIN boot'.config,
         boot'.dry = boot.dry, boot'.live = boot.live, boot'.balances = boot.balances
  PROVE  BootInv'
<1>1. session.pc = "config" /\ ~On("off") /\ pc # "off"  BY DEF On
<1>2. Shapes' /\ NothingLeftRunning' /\ P' = P /\ session'.pc = pc /\ AsksBroker' = AsksBroker
  BY <1>1, StageFacts
<1>3. AsksBroker  BY DEF BootInv, ConfigTrue
<1>4. Fetched(boot.config, day)'  BY DEF Fetched
<1>5. ConfigTrue'  BY <1>2, <1>3, <1>4 DEF ConfigTrue, On
<1>6. SymbolTrue' /\ FundsTrue' /\ StudyTrue'
  BY <1>2 DEF SymbolTrue, FundsTrue, StudyTrue, On, Built, Flown
<1>7. HadTrue'  BY <1>2 DEF HadTrue, CacheRemembers, Early
<1>8. RealOrdersAsked'  BY <1>2 DEF BootInv, RealOrdersAsked, Currencies
<1> QED  BY <1>2, <1>5, <1>6, <1>7, <1>8 DEF BootInv

\* The file serves, fresh or for want of another.
LEMMA ServeKeeps == BootInv /\ (ServeCache \/ FetchFails) => BootInv'
<1> SUFFICES ASSUME BootInv, ServeCache \/ FetchFails PROVE BootInv'  OBVIOUS
<1>1. session.pc = "config" /\ On("config") /\ ~On("off") /\ UNCHANGED <<day, listing, cache, resting>>
  BY DEF ServeCache, FetchFails, On
<1>2. CacheTrue'  BY <1>1 DEF BootInv, CacheTrue, Fetched
<1>3. CASE Fail  BY <1>1, <1>2, <1>3, FailKeeps
<1>4. CASE CacheAge >= 0 /\ boot' = [boot EXCEPT !.config = cache.specs] /\ Goto("adapter")
  <2>1. cache.kind = "good"  BY <1>4 DEF CacheAge
  <2>2. Fetched(cache.specs, day)
    BY <2>1 DEF BootInv, CacheTrue, Fetched, Shapes
  <2>3. DOMAIN boot = BootFields  BY DEF BootInv, Shapes
  <2>4. DOMAIN boot' = BootFields  BY <1>4, <2>3
  <2>5. /\ boot'.had = boot.had /\ boot'.dry = boot.dry /\ boot'.live = boot.live
        /\ boot'.balances = boot.balances /\ boot'.config = cache.specs
    BY <1>4, <2>3 DEF BootFields
  <2>6. boot.had = {}  BY <1>1 DEF BootInv, HadTrue, Early
  <2>7. Fetched(boot'.config, day)  BY <2>2, <2>5
  <2>8. boot'.had \subseteq DOMAIN boot'.config  BY <2>5, <2>6
  <2> QED  BY <1>1, <1>2, <1>4, <2>4, <2>5, <2>7, <2>8, FetchedKeeps
<1> QED  BY <1>3, <1>4 DEF ServeCache, FetchFails, CacheFresh

\* What is fetched is merged with what the file knew of other symbols.
LEMMA FetchKeeps == BootInv /\ FetchFresh => BootInv'
<1> SUFFICES ASSUME BootInv, FetchFresh PROVE BootInv'  OBVIOUS
<1> DEFINE s == P.symbol
           old == IF cache.kind = "good" THEN cache.specs ELSE <<>>
           had == IF cache.kind = "good" THEN DOMAIN cache.specs ELSE {}
           specs == MergeWithCache(s).specs
<1>1. /\ On("config") /\ Listed(s) /\ cache' = TornFile /\ Goto("write")
      /\ boot' = [boot EXCEPT !.config = specs, !.had = had]
      /\ UNCHANGED <<day, listing, resting>>
  BY DEF FetchFresh
<1>2. day \in Nat /\ listing \in [DOMAIN Markets -> Nat] /\ DOMAIN boot = BootFields
  BY DEF BootInv, Shapes
<1>3. specs = [x \in {s} \cup DOMAIN old |-> IF x = s THEN FetchedSpec(s) ELSE old[x]]
  BY DEF MergeWithCache
<1>4. /\ DOMAIN specs = {s} \cup DOMAIN old
      /\ specs[s] = FetchedSpec(s) /\ \A x \in DOMAIN old : x # s => specs[x] = old[x]
  <2> HIDE DEF specs, old, s
  <2> QED  BY <1>3
<1>5. FetchedSpec(s).version > 0 /\ FetchedSpec(s).at \in Nat /\ FetchedSpec(s).at <= day
  BY <1>1, <1>2 DEF Listed, FetchedSpec
<1>6. Fetched(old, day)
  <2>1. CASE cache.kind = "good"  BY <1>2, <2>1 DEF BootInv, CacheTrue, Fetched
  <2>2. CASE cache.kind # "good"  BY <2>2 DEF Fetched
  <2> QED  BY <2>1, <2>2
<1>7. had \subseteq DOMAIN old  OBVIOUS
<1> HIDE DEF specs, had, old, s
<1>8. Fetched(specs, day)  BY <1>4, <1>5, <1>6 DEF Fetched
<1>9. DOMAIN boot' = BootFields  BY <1>1, <1>2
<1>10. /\ boot'.config = specs /\ boot'.had = had /\ boot'.dry = boot.dry /\ boot'.live = boot.live
       /\ boot'.balances = boot.balances
  BY <1>1, <1>2 DEF BootFields
<1>11. Fetched(boot'.config, day)  BY <1>8, <1>10
<1>12. boot'.had \subseteq DOMAIN boot'.config  BY <1>4, <1>7, <1>10
<1>13. CacheTrue'  BY <1>1 DEF CacheTrue, TornFile
<1> QED  BY <1>1, <1>9, <1>10, <1>11, <1>12, <1>13, FetchedKeeps

LEMMA WriteKeeps == BootInv /\ WriteCache => BootInv'
<1> SUFFICES ASSUME BootInv, WriteCache PROVE BootInv'  OBVIOUS
<1>1. session.pc = "write" /\ ~On("off") /\ UNCHANGED <<day, listing, resting>>
  BY DEF WriteCache, On
<1>2. Fetched(boot.config, day) /\ AsksBroker /\ day \in Nat
  BY <1>1 DEF BootInv, ConfigTrue, On, Shapes
<1>3. CASE Fail /\ UNCHANGED cache
  <2>1. CacheTrue'  BY <1>1, <1>3 DEF BootInv, CacheTrue, Fetched
  <2> QED  BY <1>1, <1>3, <2>1, FailKeeps
<1>4. CASE cache' = [kind |-> "good", at |-> day, specs |-> boot.config] /\ Goto("adapter") /\ UNCHANGED boot
  <2>1. CacheTrue'
    <3>1. cache'.at = day /\ cache'.specs = boot.config  BY <1>4
    <3>2. Fetched(cache.specs, cache.at)'  BY <1>2, <3>1 DEF Fetched
    <3> QED  BY <1>1, <1>2, <3>1, <3>2 DEF CacheTrue
  <2>2. DOMAIN boot' = BootFields  BY <1>4 DEF BootInv, Shapes
  <2>3. Shapes' /\ NothingLeftRunning' /\ P' = P /\ session'.pc = "adapter" /\ AsksBroker' = AsksBroker
    BY <1>1, <1>4, <2>2, StageFacts
  <2>4. Fetched(boot.config, day)'  BY <1>1, <1>2, <1>4 DEF Fetched
  <2>5. ConfigTrue' /\ SymbolTrue' /\ FundsTrue' /\ StudyTrue'
    BY <2>3, <2>4 DEF ConfigTrue, SymbolTrue, FundsTrue, StudyTrue, On, Built, Flown
  <2>6. HadTrue'  BY <1>4, <2>3 DEF BootInv, HadTrue, CacheRemembers, Early
  <2>7. RealOrdersAsked'  BY <1>4, <2>3 DEF BootInv, RealOrdersAsked, Currencies
  <2> QED  BY <2>1, <2>3, <2>5, <2>6, <2>7 DEF BootInv
<1> QED  BY <1>3, <1>4 DEF WriteCache

-----------------------------------------------------------------------------
(* The adapter and the pipeline *)

\* Real orders need the mode that was asked for and both balances.
LEMMA EnableKeeps == BootInv /\ EnableLive => BootInv'
<1> SUFFICES ASSUME BootInv, EnableLive PROVE BootInv'  OBVIOUS
<1>1. session.pc = "adapter" /\ ~On("off") /\ UNCHANGED <<day, listing, cache, resting>>
  BY DEF EnableLive, On
<1>2. CacheTrue'  BY <1>1 DEF BootInv, CacheTrue, Fetched
<1>3. CASE Fail  BY <1>1, <1>2, <1>3, FailKeeps
<1>4. ASSUME NEW held \in SUBSET Currencies,
             P.symbol \in DOMAIN boot.config, AsksBroker => held = Currencies,
             boot' = [boot EXCEPT !.balances = BalancesOf(held), !.live = AsksBroker,
                                  !.dry = AsksBroker => EffectiveDryRun],
             Goto("executor")
      PROVE  BootInv'
  <2>1. DOMAIN boot = BootFields  BY DEF BootInv, Shapes
  <2>2. DOMAIN boot' = BootFields  BY <1>4, <2>1
  <2>3. /\ boot'.had = boot.had /\ boot'.config = boot.config /\ boot'.balances = BalancesOf(held)
        /\ boot'.live = AsksBroker /\ boot'.dry = (AsksBroker => EffectiveDryRun)
    BY <1>4, <2>1 DEF BootFields
  <2>4. Shapes' /\ NothingLeftRunning' /\ P' = P /\ session'.pc = "executor"
    BY <1>1, <1>4, <2>2, StageFacts
  <2>5. ConfigTrue' /\ FundsTrue' /\ StudyTrue'
    BY <2>4 DEF ConfigTrue, FundsTrue, StudyTrue, On, Built, Flown
  <2>6. HadTrue'  BY <2>3, <2>4 DEF BootInv, HadTrue, CacheRemembers, Early
  <2>7. AsksBroker => Fetched(boot.config, day)  BY <1>1 DEF BootInv, ConfigTrue, On
  <2>8. SymbolTrue'  BY <1>4, <2>3, <2>4, <2>7 DEF SymbolTrue, Fetched
  <2>9. RealOrdersAsked'
    <3>1. P \in Profiles  BY <1>1 DEF BootInv, Shapes
    <3>2. P.dry \in {"unset", "yes", "no"} /\ P.brokerDry \in BOOLEAN
      BY <3>1, ProfileAssumption
    <3>3. SUFFICES ASSUME ~boot'.dry PROVE /\ boot'.live
                                           /\ boot'.balances = Currencies' \cup (IF P'.settings THEN P'.balances ELSE {})
                                           /\ P'.dry = "no" \/ (P'.dry = "unset" /\ ~P'.brokerDry)
      BY DEF RealOrdersAsked
    <3>4. AsksBroker /\ ~EffectiveDryRun  BY <2>3, <3>3
    <3>5. held = Currencies  BY <1>4, <3>4
    <3>6. Currencies' = Currencies  BY <2>4 DEF Currencies
    <3>7. BalancesOf(held) = Currencies \cup (IF P.settings THEN P.balances ELSE {})
      BY <3>4, <3>5 DEF BalancesOf
    <3>8. P.dry = "no" \/ (P.dry = "unset" /\ ~P.brokerDry)
      BY <3>2, <3>4 DEF EffectiveDryRun
    <3> QED  BY <2>3, <2>4, <3>4, <3>6, <3>7, <3>8
  <2> QED  BY <1>2, <2>4, <2>5, <2>6, <2>8, <2>9 DEF BootInv
<1> QED  BY <1>3, <1>4 DEF EnableLive

\* The currency the account is kept in is one that has a balance.
LEMMA CurrencyHeld ==
  ASSUME boot.balances # {}, P.currency = ""
  PROVE  AccountCurrency \in boot.balances
<1>1. CASE Markets[P.symbol].quote \in boot.balances  BY <1>1 DEF AccountCurrency
<1>2. CASE Markets[P.symbol].quote \notin boot.balances /\ Markets[P.symbol].base \in boot.balances
  BY <1>2 DEF AccountCurrency
<1>3. CASE Markets[P.symbol].quote \notin boot.balances /\ Markets[P.symbol].base \notin boot.balances
  <2>1. (CHOOSE c \in boot.balances : TRUE) \in boot.balances  OBVIOUS
  <2> QED  BY <1>3, <2>1 DEF AccountCurrency
<1> QED  BY <1>1, <1>2, <1>3

LEMMA ExecutorKeeps == BootInv /\ BuildExecutor => BootInv'
<1> SUFFICES ASSUME BootInv, BuildExecutor PROVE BootInv'  OBVIOUS
<1>1. session.pc = "executor" /\ ~On("off") /\ UNCHANGED <<day, listing, cache, resting>>
  BY DEF BuildExecutor, On
<1>2. CacheTrue'  BY <1>1 DEF BootInv, CacheTrue, Fetched
<1>3. CASE Fail  BY <1>1, <1>2, <1>3, FailKeeps
<1>4. CASE boot.balances # {} /\ boot' = [boot EXCEPT !.currency = AccountCurrency] /\ Goto("pipeline")
  <2>1. DOMAIN boot = BootFields  BY DEF BootInv, Shapes
  <2>2. DOMAIN boot' = BootFields  BY <1>4, <2>1
  <2>3. /\ boot'.had = boot.had /\ boot'.config = boot.config /\ boot'.balances = boot.balances
        /\ boot'.live = boot.live /\ boot'.dry = boot.dry /\ boot'.currency = AccountCurrency
    BY <1>4, <2>1 DEF BootFields
  <2>4. Shapes' /\ NothingLeftRunning' /\ P' = P /\ session'.pc = "pipeline"
    BY <1>1, <1>4, <2>2, StageFacts
  <2>5. ConfigTrue' /\ StudyTrue'  BY <2>4 DEF ConfigTrue, StudyTrue, On, Flown
  <2>6. HadTrue'  BY <2>3, <2>4 DEF BootInv, HadTrue, CacheRemembers, Early
  <2>7. SymbolTrue'  BY <1>1, <2>3, <2>4 DEF BootInv, SymbolTrue
  <2>8. FundsTrue'  BY <1>4, <2>3, <2>4, CurrencyHeld DEF FundsTrue
  <2>9. RealOrdersAsked'  BY <2>3, <2>4 DEF BootInv, RealOrdersAsked, Currencies
  <2> QED  BY <1>2, <2>4, <2>5, <2>6, <2>7, <2>8, <2>9 DEF BootInv
<1> QED  BY <1>3, <1>4 DEF BuildExecutor

\* A stage after the executor that goes on and settles nothing new about the
\* symbol, the mode or the funds.
LEMMA BuiltKeeps ==
  ASSUME BootInv, session.pc \in Built, NEW pc \in Built, Goto(pc), UNCHANGED <<day, listing, resting, cache>>,
         DOMAIN boot' = BootFields, boot'.had = boot.had, boot'.config = boot.config,
         boot'.balances = boot.balances, boot'.live = boot.live, boot'.dry = boot.dry,
         boot'.currency = boot.currency,
         pc \in Flown /\ P.study =>
            P.spot /\ ("reconciler" \in boot'.components /\ ~boot.dry => ~resting)
  PROVE  BootInv'
<1>1. ~On("off") /\ pc # "off"  BY DEF On, Built, Flown
<1>2. Shapes' /\ NothingLeftRunning' /\ P' = P /\ session'.pc = pc  BY <1>1, StageFacts
<1>3. CacheTrue'  BY DEF BootInv, CacheTrue, Fetched
<1>4. ConfigTrue'  BY <1>2 DEF ConfigTrue, On, Built, Flown
<1>5. HadTrue'  BY <1>2 DEF BootInv, HadTrue, CacheRemembers, Early, Built, Flown
<1>6. SymbolTrue'  BY <1>2 DEF BootInv, SymbolTrue
<1>7. FundsTrue'  BY <1>2 DEF BootInv, FundsTrue
<1>8. StudyTrue'  BY <1>2 DEF StudyTrue
<1>9. RealOrdersAsked'  BY <1>2 DEF BootInv, RealOrdersAsked, Currencies
<1> QED  BY <1>2, <1>3, <1>4, <1>5, <1>6, <1>7, <1>8, <1>9 DEF BootInv

LEMMA PipelineKeeps == BootInv /\ SetupPipeline => BootInv'
<1> SUFFICES ASSUME BootInv, SetupPipeline PROVE BootInv'  OBVIOUS
<1>1. session.pc = "pipeline" /\ ~On("off") /\ UNCHANGED <<day, listing, cache, resting>>
  BY DEF SetupPipeline, On
<1>2. CacheTrue'  BY <1>1 DEF BootInv, CacheTrue, Fetched
<1>3. CASE Fail  BY <1>1, <1>2, <1>3, FailKeeps
<1>4. ASSUME NEW b, boot' = [boot EXCEPT !.bars = b, !.executor = TRUE], Goto("checks")
      PROVE  BootInv'
  <2>1. DOMAIN boot = BootFields  BY DEF BootInv, Shapes
  <2>2. DOMAIN boot' = BootFields  BY <1>4, <2>1
  <2>3. /\ boot'.had = boot.had /\ boot'.config = boot.config /\ boot'.balances = boot.balances
        /\ boot'.live = boot.live /\ boot'.dry = boot.dry /\ boot'.currency = boot.currency
    BY <1>4, <2>1 DEF BootFields
  <2>4. session.pc \in Built /\ "checks" \in Built /\ "checks" \notin Flown
    BY <1>1 DEF Built, Flown
  <2> QED  BY <1>1, <1>4, <2>2, <2>3, <2>4, BuiltKeeps
<1> QED  BY <1>3, <1>4 DEF SetupPipeline

LEMMA ChecksKeep == BootInv /\ CheckAndCompose => BootInv'
<1> SUFFICES ASSUME BootInv, CheckAndCompose PROVE BootInv'  OBVIOUS
<1>1. session.pc = "checks" /\ ~On("off") /\ UNCHANGED <<day, listing, cache, resting>>
  BY DEF CheckAndCompose, On
<1>2. CacheTrue'  BY <1>1 DEF BootInv, CacheTrue, Fetched
<1>3. CASE Fail  BY <1>1, <1>2, <1>3, FailKeeps
<1>4. CASE boot' = [boot EXCEPT !.components = Components] /\ Goto("study")
  <2>1. DOMAIN boot = BootFields  BY DEF BootInv, Shapes
  <2>2. DOMAIN boot' = BootFields  BY <1>4, <2>1
  <2>3. /\ boot'.had = boot.had /\ boot'.config = boot.config /\ boot'.balances = boot.balances
        /\ boot'.live = boot.live /\ boot'.dry = boot.dry /\ boot'.currency = boot.currency
    BY <1>4, <2>1 DEF BootFields
  <2>4. session.pc \in Built /\ "study" \in Built /\ "study" \notin Flown
    BY <1>1 DEF Built, Flown
  <2> QED  BY <1>1, <1>4, <2>2, <2>3, <2>4, BuiltKeeps
<1> QED  BY <1>3, <1>4 DEF CheckAndCompose

\* A session that ends at the shutdown, whatever the outcome.
LEMMA EndKeeps ==
  ASSUME BootInv, ~On("off"), Goto("shutdown"), UNCHANGED <<day, listing, cache, resting>>,
         NEW o, boot' = [boot EXCEPT !.outcome = o]
  PROVE  BootInv'
<1>1. DOMAIN boot = BootFields  BY DEF BootInv, Shapes
<1>2. DOMAIN boot' = BootFields  BY <1>1
<1>3. /\ boot'.had = boot.had /\ boot'.config = boot.config /\ boot'.balances = boot.balances
      /\ boot'.live = boot.live /\ boot'.dry = boot.dry
  BY <1>1 DEF BootFields
<1>4. Shapes' /\ NothingLeftRunning' /\ P' = P /\ session'.pc = "shutdown"  BY <1>2, StageFacts
<1>5. CacheTrue'  BY DEF BootInv, CacheTrue, Fetched
<1>6. ConfigTrue' /\ SymbolTrue' /\ FundsTrue' /\ StudyTrue'
  BY <1>4 DEF ConfigTrue, SymbolTrue, FundsTrue, StudyTrue, On, Built, Flown
<1>7. HadTrue'  BY <1>3, <1>4 DEF BootInv, HadTrue, CacheRemembers, Early
<1>8. RealOrdersAsked'  BY <1>3, <1>4 DEF BootInv, RealOrdersAsked, Currencies
<1> QED  BY <1>4, <1>5, <1>6, <1>7, <1>8 DEF BootInv

\* The preflight lets a study through only on spot and beside no order it sees;
\* it sees all of them unless the session is a dry run.
LEMMA PreflightKeeps == BootInv /\ FieldStudyPreflight => BootInv'
<1> SUFFICES ASSUME BootInv, FieldStudyPreflight PROVE BootInv'  OBVIOUS
<1>1. session.pc = "study" /\ ~On("off") /\ UNCHANGED <<day, listing, cache, resting>>
  BY DEF FieldStudyPreflight, On
<1>2. CASE StudyRefused
  <2>1. Goto("shutdown") /\ boot' = [boot EXCEPT !.outcome = "refused"]
    BY <1>2 DEF FieldStudyPreflight
  <2> QED  BY <1>1, <2>1, EndKeeps
<1>3. CASE ~StudyRefused
  <2>1. Goto("transport") /\ boot' = boot  BY <1>3 DEF FieldStudyPreflight
  <2>2. P.study => P.spot /\ ("reconciler" \in boot.components /\ ~boot.dry => ~resting)
    BY <1>3 DEF StudyRefused, BrokerOrdersSeen
  <2>3. session.pc \in Built /\ "transport" \in Built  BY <1>1 DEF Built, Flown
  <2>4. DOMAIN boot' = BootFields  BY <2>1 DEF BootInv, Shapes
  <2> QED  BY <1>1, <2>1, <2>2, <2>3, <2>4, BuiltKeeps
<1> QED  BY <1>2, <1>3

LEMMA StartKeeps == BootInv /\ (SetupSignalTransport \/ StartTickSource) => BootInv'
<1> SUFFICES ASSUME BootInv, SetupSignalTransport \/ StartTickSource PROVE BootInv'  OBVIOUS
<1>1. session.pc \in {"transport", "source"} /\ ~On("off") /\ UNCHANGED <<day, listing, cache, resting>>
  BY DEF SetupSignalTransport, StartTickSource, On
<1>2. CacheTrue'  BY <1>1 DEF BootInv, CacheTrue, Fetched
<1>3. CASE Fail  BY <1>1, <1>2, <1>3, FailKeeps
<1>4. ASSUME NEW pc \in {"source", "loop"}, Goto(pc), boot' = boot PROVE BootInv'
  <2>1. session.pc \in Built /\ session.pc \in Flown /\ pc \in Built  BY <1>1, <1>4 DEF Built, Flown
  <2>2. DOMAIN boot' = BootFields  BY <1>4 DEF BootInv, Shapes
  <2>3. P.study => P.spot /\ ("reconciler" \in boot.components /\ ~boot.dry => ~resting)
    BY <2>1 DEF BootInv, StudyTrue
  <2> QED  BY <1>1, <1>4, <2>1, <2>2, <2>3, BuiltKeeps
<1> QED  BY <1>3, <1>4 DEF SetupSignalTransport, StartTickSource

LEMMA LoopKeeps == BootInv /\ LoopReturns => BootInv'
<1> SUFFICES ASSUME BootInv, LoopReturns PROVE BootInv'  OBVIOUS
<1>1. ~On("off") /\ Goto("shutdown") /\ UNCHANGED <<day, listing, cache, resting>>
  BY DEF LoopReturns, On
<1>2. PICK o : boot' = [boot EXCEPT !.outcome = o]  BY DEF LoopReturns
<1> QED  BY <1>1, <1>2, EndKeeps

-----------------------------------------------------------------------------
(* Shutdown, crashes, and the days between sessions *)

\* A session that is off keeps only what is said of its mode and its file.
LEMMA OffKeeps ==
  ASSUME BootInv, DOMAIN session' = {"pc", "profile"}, session'.pc = "off", session'.profile = session.profile,
         DOMAIN boot' = BootFields, boot'.had = boot.had, boot'.config = boot.config, boot'.dry = boot.dry,
         boot'.live = boot.live, boot'.balances = boot.balances,
         day' \in Nat, day <= day', listing' \in [DOMAIN Markets -> Nat], cache' = cache,
         NothingLeftRunning'
  PROVE  BootInv'
<1>1. P' = P  BY DEF P
<1>2. Shapes'  BY DEF Shapes, On
<1>3. CacheTrue'  BY DEF BootInv, Shapes, CacheTrue, Fetched
<1>4. ConfigTrue' /\ SymbolTrue' /\ FundsTrue' /\ StudyTrue'
  BY DEF ConfigTrue, SymbolTrue, FundsTrue, StudyTrue, On, Built, Flown
<1>5. HadTrue'  BY DEF BootInv, HadTrue, CacheRemembers, Early
<1>6. RealOrdersAsked'  BY <1>1 DEF BootInv, RealOrdersAsked, Currencies
<1> QED  BY <1>2, <1>3, <1>4, <1>5, <1>6 DEF BootInv

LEMMA StopKeeps == BootInv /\ StopAll => BootInv'
<1> SUFFICES ASSUME BootInv, StopAll PROVE BootInv'  OBVIOUS
<1>1. DOMAIN session' = {"pc", "profile"} /\ session'.pc = "off" /\ session'.profile = session.profile
  BY GotoFacts DEF StopAll, BootInv
<1>2. UNCHANGED <<day, listing, cache, boot>>  BY DEF StopAll
<1>3. DOMAIN boot = BootFields /\ day \in Nat /\ listing \in [DOMAIN Markets -> Nat]
  BY DEF BootInv, Shapes
<1>4. running' = IF boot.executor THEN {} ELSE running \cap {"requests"}  BY DEF StopAll
<1>5. NothingLeftRunning'  BY <1>2, <1>4 DEF NothingLeftRunning
<1> QED  BY <1>1, <1>2, <1>3, <1>5, OffKeeps

LEMMA KilledKeeps == BootInv /\ ProcessKilled => BootInv'
<1> SUFFICES ASSUME BootInv, ProcessKilled PROVE BootInv'  OBVIOUS
<1>1. DOMAIN session' = {"pc", "profile"} /\ session'.pc = "off" /\ session'.profile = session.profile
  BY GotoFacts DEF ProcessKilled, BootInv
<1>2. UNCHANGED <<day, listing, cache>> /\ boot' = [boot EXCEPT !.outcome = "killed"]
  BY DEF ProcessKilled
<1>3. DOMAIN boot = BootFields /\ day \in Nat /\ listing \in [DOMAIN Markets -> Nat]
  BY DEF BootInv, Shapes
<1>4. DOMAIN boot' = BootFields  BY <1>2, <1>3
<1>5. /\ boot'.had = boot.had /\ boot'.config = boot.config /\ boot'.balances = boot.balances
      /\ boot'.live = boot.live /\ boot'.dry = boot.dry
  BY <1>2, <1>3 DEF BootFields
<1>6. NothingLeftRunning'  BY DEF ProcessKilled, NothingLeftRunning
<1> QED  BY <1>1, <1>2, <1>3, <1>4, <1>5, <1>6, OffKeeps

LEMMA NextDayKeeps == BootInv /\ NextDay => BootInv'
<1> SUFFICES ASSUME BootInv, NextDay PROVE BootInv'  OBVIOUS
<1>1. session.pc = "off" /\ UNCHANGED <<cache, session, boot, running>> /\ day' = day + 1
  BY DEF NextDay, On
<1>2. /\ DOMAIN session = {"pc", "profile"} /\ DOMAIN boot = BootFields
      /\ day \in Nat /\ listing \in [DOMAIN Markets -> Nat]
  BY DEF BootInv, Shapes
<1>3. day' \in Nat /\ day <= day'  BY <1>1, <1>2
<1>4. listing' \in [DOMAIN Markets -> Nat]
  <2>1. CASE listing' = listing  BY <1>2, <2>1
  <2>2. ASSUME NEW s \in DOMAIN listing, NEW v \in {0, day + 1}, listing' = [listing EXCEPT ![s] = v]
        PROVE  listing' \in [DOMAIN Markets -> Nat]
    <3>1. v \in Nat  BY <1>2
    <3> QED  BY <1>2, <2>2, <3>1
  <2> QED  BY <2>1, <2>2 DEF NextDay
<1>5. NothingLeftRunning'  BY <1>1 DEF BootInv, NothingLeftRunning, On
<1> QED  BY <1>1, <1>2, <1>3, <1>4, <1>5, OffKeeps

\* A boot that has settled nothing.
LEMMA NoBootFacts ==
  /\ DOMAIN NoBoot = BootFields /\ NoBoot.had = {} /\ NoBoot.dry = TRUE
BY DEF NoBoot, BootFields

LEMMA SessionKeeps == BootInv /\ StartSession => BootInv'
<1> SUFFICES ASSUME BootInv, StartSession PROVE BootInv'  OBVIOUS
<1>1. PICK p \in Profiles : session' = [pc |-> "data", profile |-> p]  BY DEF StartSession
<1>2. boot' = NoBoot /\ running' = {} /\ UNCHANGED <<day, listing, cache, resting>>  BY DEF StartSession
<1>3. DOMAIN session' = {"pc", "profile"} /\ session'.pc = "data" /\ session'.profile = p  BY <1>1
<1>4. Shapes'  BY <1>2, <1>3, NoBootFacts DEF BootInv, Shapes, On, P
<1>5. CacheTrue'  BY <1>2 DEF BootInv, CacheTrue, Fetched
<1>6. ConfigTrue' /\ SymbolTrue' /\ FundsTrue' /\ StudyTrue' /\ NothingLeftRunning'
  BY <1>3 DEF ConfigTrue, SymbolTrue, FundsTrue, StudyTrue, NothingLeftRunning, On, Built, Flown
<1>7. HadTrue' /\ RealOrdersAsked'
  BY <1>2, NoBootFacts DEF HadTrue, CacheRemembers, RealOrdersAsked
<1> QED  BY <1>4, <1>5, <1>6, <1>7 DEF BootInv

-----------------------------------------------------------------------------
(* The theorem *)

LEMMA InitHolds == BootInit => BootInv
<1> SUFFICES ASSUME BootInit PROVE BootInv  OBVIOUS
<1>1. session.pc = "off" /\ DOMAIN session = {"pc", "profile"} /\ boot = NoBoot /\ running = {}
      /\ cache.kind = "absent" /\ day \in Nat
  BY DEF BootInit, NoFile
<1>2. listing \in [DOMAIN Markets -> Nat]  BY DEF BootInit
<1>3. Shapes  BY <1>1, <1>2, NoBootFacts DEF Shapes, On
<1>4. CacheTrue /\ ConfigTrue /\ SymbolTrue /\ FundsTrue /\ StudyTrue
  BY <1>1 DEF CacheTrue, ConfigTrue, SymbolTrue, FundsTrue, StudyTrue, On, Built, Flown
<1>5. HadTrue /\ RealOrdersAsked
  BY <1>1, NoBootFacts DEF HadTrue, CacheRemembers, RealOrdersAsked
<1>6. NothingLeftRunning  BY <1>1 DEF NothingLeftRunning
<1> QED  BY <1>3, <1>4, <1>5, <1>6 DEF BootInv

LEMMA StepKeeps == BootInv /\ [BootNext]_bootVars => BootInv'
<1> SUFFICES ASSUME BootInv, [BootNext]_bootVars PROVE BootInv'  OBVIOUS
<1>1. CASE BootNext
  BY <1>1, DataKeeps, BrokerKeeps, ServeKeeps, FetchKeeps, WriteKeeps, EnableKeeps, ExecutorKeeps,
     PipelineKeeps, ChecksKeep, PreflightKeeps, StartKeeps, LoopKeeps, StopKeeps, SessionKeeps,
     KilledKeeps, NextDayKeeps DEF BootNext, BootStage
<1>2. CASE UNCHANGED bootVars
  <2>1. UNCHANGED <<day, listing, cache, resting, session, boot, running>>  BY <1>2 DEF bootVars
  <2>2. P' = P  BY <2>1 DEF P
  <2>3. Shapes' /\ CacheTrue' /\ HadTrue' /\ NothingLeftRunning'
    BY <2>1, <2>2 DEF BootInv, Shapes, CacheTrue, Fetched, HadTrue, CacheRemembers, NothingLeftRunning, On
  <2>4. ConfigTrue'  BY <2>1, <2>2 DEF BootInv, ConfigTrue, Fetched, AsksBroker, On
  <2>5. SymbolTrue' /\ FundsTrue' /\ StudyTrue'
    BY <2>1, <2>2 DEF BootInv, SymbolTrue, FundsTrue, StudyTrue
  <2>6. RealOrdersAsked'  BY <2>1, <2>2 DEF BootInv, RealOrdersAsked, Currencies
  <2> QED  BY <2>3, <2>4, <2>5, <2>6 DEF BootInv
<1> QED  BY <1>1, <1>2

\* autotrader_main.py, autotrader_startup.py, autotrader_broker_config_setup.py and
\* kraken_config_fetcher.py: over any sequence of sessions, failed starts and
\* crashes, a session that trades knows its symbol from the exchange, places real
\* orders only in the mode that was asked for and with both balances known, keeps
\* its account in a currency it holds, lets a field study start flat, and a failed
\* start leaves nothing but an idle request worker.
THEOREM SessionsStartSound == BootSpec => []BootSound
<1>1. BootInit => BootInv  BY InitHolds
<1>2. BootInv /\ [BootNext]_bootVars => BootInv'  BY StepKeeps
<1>3. BootInv => BootSound  BY InvIsSound
<1> QED  BY <1>1, <1>2, <1>3, PTL DEF BootSpec
=============================================================================
