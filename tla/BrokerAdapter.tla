---------------------------- MODULE BrokerAdapter ----------------------------
(***************************************************************************)
(* The adapter to the Kraken exchange: three tiers per operation (build the *)
(* payload, make the request, parse the answer), the private requests of    *)
(* all threads behind one lock with a rate limit and a nonce, and the       *)
(* simulator that answers instead of the exchange in a dry run.             *)
(* The exchange itself is external.  Time is in units of which the rate     *)
(* limit takes Interval; the wall clock, which the nonce is read from, may   *)
(* be set back.                                                             *)
(***************************************************************************)
EXTENDS Integers, Sequences, FiniteSets

CONSTANTS Interval, PollsUntilFill, Placements, Pairs, MaxCalls, MaxMono, MaxStepBack

ASSUME AdapterConstants ==
    /\ {Interval, PollsUntilFill, MaxCalls.dry, MaxCalls.live, MaxMono, MaxStepBack} \subseteq Nat
    /\ \A p \in Placements :
         /\ p.symbol \in DOMAIN Pairs /\ p.dir \in {"LONG", "SHORT"} /\ {p.lots, p.price} \subseteq Nat
         /\ p.type \in {"MARKET", "LIMIT"} /\ (p.type = "MARKET" => p.price = 0)
    \* No two symbols share a pair, and no pair is the name of another symbol.
    /\ \A s, t \in DOMAIN Pairs : Pairs[s] = t \/ (Pairs[s] # "" /\ Pairs[s] = Pairs[t]) => s = t

VARIABLES dryRun, mono, wall, lock, lastRequest, lastNonce, call, made, wire, venue,
          simulated, counter, told, view
adapterVars == <<dryRun, mono, wall, lock, lastRequest, lastNonce, call, made, wire, venue,
                 simulated, counter, told, view>>

Threads == {"main", "worker"}
Nobody == "nobody"
NoRef == <<"none", 0>>
Larger(a, b) == IF a > b THEN a ELSE b
With(f, k, v) == [x \in DOMAIN f \cup {k} |-> IF x = k THEN v ELSE f[x]]

\* Operations that name an order, and the reads of the whole account.
OrderOps == {"query", "cancel", "modify", "trades"}
AccountOps == {"openorders", "balance", "openpositions"}

Idle == [pc |-> "idle", op |-> "none", ref |-> NoRef, body |-> <<>>, until |-> 0, home |-> FALSE, raw |-> <<>>]

----------------------------------------------------------------------------
(* Tier one: payloads.  Kraken knows pairs, not symbols; every order that is *)
(* not a market order goes out as a limit, and only a LIMIT carries a price. *)

ResolveKrakenPair(s) == IF Pairs[s] # "" THEN Pairs[s] ELSE s

BuildSubmitPayload(p) ==
    [pair |-> ResolveKrakenPair(p.symbol),
     type |-> IF p.dir = "LONG" THEN "buy" ELSE "sell",
     ordertype |-> IF p.type = "MARKET" THEN "market" ELSE "limit",
     volume |-> p.lots,
     price |-> IF p.type = "LIMIT" THEN p.price ELSE 0]

BuildModifyPayload(price) == [limit_price |-> price]

----------------------------------------------------------------------------
(* Tier two: the request.  In a dry run a submission is only validated by    *)
(* the exchange and everything else stays at home; a reference of the        *)
(* simulator never leaves the program either.                                *)

\* Mutant: a cancellation is always sent.
StaysHomeUnlessCancel(op, ref) ==
    \/ op \in AccountOps /\ dryRun
    \/ op \in OrderOps \ {"cancel"} /\ (dryRun \/ ref[1] = "DRYRUN")

StaysHome(op, ref) ==
    \/ op \in AccountOps /\ dryRun
    \/ op \in OrderOps /\ (dryRun \/ ref[1] = "DRYRUN")

BeginCall(t, op, ref, body) ==
    /\ call[t].pc = "idle" /\ made < MaxCalls[IF dryRun THEN "dry" ELSE "live"]
    /\ made' = made + 1
    /\ call' = [call EXCEPT ![t] = [pc |-> IF StaysHome(op, ref) THEN "parse" ELSE "lock", op |-> op,
                                    ref |-> ref, body |-> body, until |-> 0,
                                    home |-> StaysHome(op, ref) \/ (op = "submit" /\ dryRun), raw |-> <<>>]]
    /\ UNCHANGED <<dryRun, mono, wall, lock, lastRequest, lastNonce, wire, venue, simulated, counter, told, view>>

KnownRefs == DOMAIN told

\* The request worker makes the calls of the orders; the main thread cancels what
\* timed out or is left at the end, asks for an order, and reads the account.
BeginSubmit(t) == t = "worker" /\ \E b \in {BuildSubmitPayload(p) : p \in Placements} : BeginCall(t, "submit", NoRef, b)
BeginOrderOp(t) ==
    \E ref \in KnownRefs :
        \/ \E op \in {"query", "cancel", "trades"} : (op = "trades" => t = "worker") /\ BeginCall(t, op, ref, <<>>)
        \/ t = "worker" /\ \E price \in {0, 3} : BeginCall(t, "modify", ref, BuildModifyPayload(price))
BeginAccountRead(t) == t = "main" /\ \E op \in AccountOps : BeginCall(t, op, NoRef, <<>>)

\* Mutant: the limit counts from the last but one unit.
RateLimitWaitShort == Larger(0, Interval - 1 - (mono - lastRequest))

\* The private lock is held from the rate limit to the answer.
RateLimitWait == Larger(0, Interval - (mono - lastRequest))

EnterPrivate(t) ==
    /\ call[t].pc = "lock" /\ lock = Nobody
    /\ lock' = t
    /\ call' = [call EXCEPT ![t].pc = "sleep", ![t].until = mono + RateLimitWait]
    /\ UNCHANGED <<dryRun, mono, wall, lastRequest, lastNonce, made, wire, venue, simulated, counter, told, view>>

\* Mutant: the nonce is the clock.
WallNonce == wall

NextNonce == Larger(wall, lastNonce + 1)
Stamp == mono

\* The two latest requests as the exchange sees them.
LastTwo(s, r) == IF s = <<>> THEN <<r>> ELSE <<s[Len(s)], r>>

SignAndPost(t) ==
    /\ call[t].pc = "sleep" /\ mono >= call[t].until
    /\ lastRequest' = Stamp /\ lastNonce' = NextNonce
    /\ wire' = LastTwo(wire, [op |-> call[t].op, validate |-> dryRun, nonce |-> NextNonce, at |-> mono])
    /\ call' = [call EXCEPT ![t].pc = "post"]
    /\ UNCHANGED <<dryRun, mono, wall, lock, made, venue, simulated, counter, told, view>>

----------------------------------------------------------------------------
(* The exchange: what a request does there, and what it answers.             *)

NewVenueRef == <<"venue", Cardinality(DOMAIN venue) + 1>>
IsOpen(ref) == ref \in DOMAIN venue /\ venue[ref].status = "open"

Executed(c) ==
    CASE c.op = "submit" /\ ~dryRun -> With(venue, NewVenueRef, [body |-> c.body, status |-> "open"])
      [] c.op = "cancel" /\ IsOpen(c.ref) -> [venue EXCEPT ![c.ref].status = "canceled"]
      [] c.op = "modify" /\ IsOpen(c.ref) /\ c.body.limit_price # 0 ->
           [venue EXCEPT ![c.ref].body.price = c.body.limit_price]
      [] OTHER -> venue

VenueAnswer(c) ==
    CASE c.op = "submit" -> <<NewVenueRef>>
      [] c.op \in {"query", "trades"} -> <<venue[c.ref]>>
      [] c.op = "openorders" -> <<{r \in DOMAIN venue : IsOpen(r)}, [r \in DOMAIN venue |-> venue[r].body]>>
      [] OTHER -> <<"done">>

VenueFills ==
    /\ \E r \in DOMAIN venue : IsOpen(r) /\ venue' = [venue EXCEPT ![r].status = "closed"]
    /\ UNCHANGED <<dryRun, mono, wall, lock, lastRequest, lastNonce, call, made, wire, simulated, counter, told, view>>

\* A trades query whose order has trades makes a second request for them.
HasTrades(c) == c.op = "trades" /\ venue[c.ref].status = "closed"
Accepts(c) == c.op \in {"cancel", "modify"} => IsOpen(c.ref)

\* Mutant: an error leaves the lock held.
AnsweredKeepsLock(t) ==
    LET c == call[t] IN
    /\ c.pc = "post"
    /\ \/ Accepts(c) /\ HasTrades(c) /\ lock' = Nobody /\ call' = [call EXCEPT ![t].pc = "lock", ![t].op = "querytrades"] /\ venue' = venue
       \/ /\ Accepts(c) /\ ~HasTrades(c) /\ lock' = Nobody /\ venue' = Executed(c)
          /\ call' = [call EXCEPT ![t].pc = "parse", ![t].raw = VenueAnswer(c)]
       \/ call' = [call EXCEPT ![t] = Idle] /\ lock' = lock /\ venue' \in {venue, Executed(c)}
    /\ UNCHANGED <<dryRun, mono, wall, lastRequest, lastNonce, made, wire, simulated, counter, told, view>>

\* The answer arrives; or the exchange reports an error; or the post times out
\* with the request executed or not.  The lock is released on every way out.
Answered(t) ==
    LET c == call[t] IN
    /\ c.pc = "post" /\ lock' = Nobody
    /\ \/ Accepts(c) /\ HasTrades(c) /\ call' = [call EXCEPT ![t].pc = "lock", ![t].op = "querytrades"] /\ venue' = venue
       \/ /\ Accepts(c) /\ ~HasTrades(c) /\ venue' = Executed(c)
          /\ call' = [call EXCEPT ![t].pc = "parse", ![t].raw = VenueAnswer(c)]
       \/ call' = [call EXCEPT ![t] = Idle] /\ venue' \in {venue, Executed(c)}
    /\ UNCHANGED <<dryRun, mono, wall, lastRequest, lastNonce, made, wire, simulated, counter, told, view>>

----------------------------------------------------------------------------
(* Tier three: parsing, on the main thread, where the simulator of the dry   *)
(* run lives.                                                                *)

Reply(status, lots, price) == [status |-> status, lots |-> lots, price |-> price]
Tell(ref, reply) == told' = [told EXCEPT ![ref] = Append(@, reply)]

SimulateSubmit(c) ==
    LET ref == <<"DRYRUN", counter + 1>> IN
    /\ counter' = counter + 1
    /\ simulated' = With(simulated, ref, [lots |-> c.body.volume, price |-> c.body.price, polls |-> PollsUntilFill])
    /\ told' = With(told, ref, <<Reply("PENDING", 0, c.body.price)>>)

\* Mutant: a filled order stays with the simulator.
SimulateQueryKeeps(ref) ==
    /\ counter' = counter
    /\ IF ref \notin DOMAIN simulated
       THEN simulated' = simulated /\ Tell(ref, Reply("FILLED", 0, 0))
       ELSE IF simulated[ref].polls > 1
       THEN simulated' = [simulated EXCEPT ![ref].polls = @ - 1] /\ Tell(ref, Reply("PENDING", 0, 0))
       ELSE simulated' = simulated /\ Tell(ref, Reply("FILLED", simulated[ref].lots, simulated[ref].price))

SimulateQuery(ref) ==
    /\ counter' = counter
    /\ IF ref \notin DOMAIN simulated
       THEN simulated' = simulated /\ Tell(ref, Reply("FILLED", 0, 0))
       ELSE IF simulated[ref].polls > 1
       THEN simulated' = [simulated EXCEPT ![ref].polls = @ - 1] /\ Tell(ref, Reply("PENDING", 0, 0))
       ELSE /\ simulated' = [r \in DOMAIN simulated \ {ref} |-> simulated[r]]
            /\ Tell(ref, Reply("FILLED", simulated[ref].lots, simulated[ref].price))

SimulateCancel(ref) ==
    /\ counter' = counter
    /\ simulated' = [r \in DOMAIN simulated \ {ref} |-> simulated[r]]
    /\ Tell(ref, Reply("CANCELLED", 0, 0))

SimulateModify(ref, price) ==
    /\ counter' = counter
    /\ simulated' = IF ref \in DOMAIN simulated /\ price # 0
                    THEN [simulated EXCEPT ![ref].price = price] ELSE simulated
    /\ Tell(ref, Reply("PENDING", 0, price))

\* Mutant: whatever is no longer open was filled.
StatusMapClosed == [open |-> "PENDING", closed |-> "FILLED", canceled |-> "FILLED"]

StatusMap == [open |-> "PENDING", closed |-> "FILLED", canceled |-> "CANCELLED"]

ParseSubmit(c) ==
    IF c.home THEN SimulateSubmit(c)
    ELSE told' = With(told, c.raw[1], <<Reply("PENDING", 0, c.body.price)>>) /\ UNCHANGED <<simulated, counter>>

ParseQuery(c) ==
    IF c.home THEN SimulateQuery(c.ref)
    ELSE LET o == c.raw[1]
             filled == StatusMap[o.status] = "FILLED" IN
         /\ Tell(c.ref, Reply(StatusMap[o.status], IF filled THEN o.body.volume ELSE 0,
                              IF filled THEN o.body.price ELSE 0))
         /\ UNCHANGED <<simulated, counter>>

ParseCancel(c) ==
    IF c.home THEN SimulateCancel(c.ref)
    ELSE Tell(c.ref, Reply("CANCELLED", 0, 0)) /\ UNCHANGED <<simulated, counter>>

ParseModify(c) ==
    IF c.home THEN SimulateModify(c.ref, c.body.limit_price)
    ELSE Tell(c.ref, Reply("PENDING", 0, c.body.limit_price)) /\ UNCHANGED <<simulated, counter>>

\* Mutant: the pair is taken for a symbol.
PairAsSymbol(pair) == pair

\* The pairs of the exchange are turned back into symbols of the program.
ResolveSymbolFromPair(pair) ==
    IF \E s \in DOMAIN Pairs : Pairs[s] = pair THEN CHOOSE s \in DOMAIN Pairs : Pairs[s] = pair ELSE pair

BrokerOrder(ref, b) ==
    [ref |-> ref, symbol |-> ResolveSymbolFromPair(b.pair),
     dir |-> IF b.type = "buy" THEN "LONG" ELSE "SHORT",
     type |-> IF b.ordertype = "market" THEN "MARKET" ELSE "LIMIT",
     lots |-> b.volume, price |-> b.price]

\* A dry run shows an empty account.
ParseOpenOrders(c) ==
    view' = IF c.home THEN {} ELSE {BrokerOrder(r, c.raw[2][r]) : r \in c.raw[1]}

Parse(t) ==
    LET c == call[t] IN
    /\ c.pc = "parse"
    /\ CASE c.op = "submit" -> ParseSubmit(c) /\ UNCHANGED view
         [] c.op = "query" -> ParseQuery(c) /\ UNCHANGED view
         [] c.op = "cancel" -> ParseCancel(c) /\ UNCHANGED view
         [] c.op = "modify" -> ParseModify(c) /\ UNCHANGED view
         [] c.op = "openorders" -> ParseOpenOrders(c) /\ UNCHANGED <<simulated, counter, told>>
         [] OTHER -> UNCHANGED <<simulated, counter, told, view>>
    /\ call' = [call EXCEPT ![t] = Idle]
    /\ UNCHANGED <<dryRun, mono, wall, lock, lastRequest, lastNonce, made, wire, venue>>

----------------------------------------------------------------------------
(* Time: a monotonic clock for the rate limit, a wall clock for the nonce.   *)

Sleeping(t) == call[t].pc = "sleep" /\ mono < call[t].until

ClockTick ==
    /\ mono < MaxMono \/ \E t \in Threads : Sleeping(t)
    /\ mono' = mono + 1 /\ wall' = wall + 1
    /\ UNCHANGED <<dryRun, lock, lastRequest, lastNonce, call, made, wire, venue, simulated, counter, told, view>>

WallSetBack ==
    /\ wall = mono + 1 /\ MaxStepBack > 0 /\ mono >= MaxStepBack
    /\ wall' = wall - MaxStepBack
    /\ UNCHANGED <<dryRun, mono, lock, lastRequest, lastNonce, call, made, wire, venue, simulated, counter, told, view>>

AdapterInit ==
    /\ dryRun \in BOOLEAN /\ mono = Interval /\ wall = Interval + 1 /\ lock = Nobody /\ lastRequest = 0 /\ lastNonce = 0
    /\ call = [t \in Threads |-> Idle] /\ made = 0 /\ wire = <<>> /\ venue = <<>>
    /\ simulated = <<>> /\ counter = 0 /\ told = <<>> /\ view = {}

Serve(t) == EnterPrivate(t) \/ SignAndPost(t) \/ Answered(t) \/ Parse(t)

AdapterNext ==
    \/ \E t \in Threads : BeginSubmit(t) \/ BeginOrderOp(t) \/ BeginAccountRead(t) \/ Serve(t)
    \/ VenueFills \/ ClockTick \/ WallSetBack

\* Threads run, time passes, and the post has a timeout.
AdapterFairness == WF_adapterVars(ClockTick) /\ \A t \in Threads : WF_adapterVars(Serve(t))

----------------------------------------------------------------------------

\* Whatever the threads do and wherever the wall clock is set, the nonces the
\* exchange sees rise strictly (_sign_request under _private_lock).
NoncesRise == \A i, j \in DOMAIN wire : i < j => wire[i].nonce < wire[j].nonce

\* Two private requests are never closer than the rate limit, whichever threads
\* make them (_enforce_rate_limit).
RequestsSpaced == \A i \in 2 .. Len(wire) : wire[i].at - wire[i - 1].at >= Interval

\* A dry run touches nothing at the exchange: only validations of submissions
\* go out, and no order comes to be (the three tiers of every operation).
DryRunHarmless ==
    dryRun => venue = <<>> /\ \A i \in DOMAIN wire : wire[i].op = "submit" /\ wire[i].validate

\* A simulated order reports its lots once, at the last price it acknowledged,
\* and never after its cancellation was reported (DryRunOrderSimulator).
DryFillTrue ==
    \A ref \in DOMAIN told : ref[1] = "DRYRUN" =>
        \A i \in DOMAIN told[ref] : told[ref][i].lots > 0 =>
            LET priced == {k \in 1 .. i - 1 : told[ref][k].status = "PENDING" /\ told[ref][k].price > 0} IN
            /\ \A k \in 1 .. i - 1 : told[ref][k].lots = 0 /\ told[ref][k].status = "PENDING"
            /\ told[ref][i].price = IF priced = {} THEN 0
                                    ELSE told[ref][CHOOSE k \in priced : \A m \in priced : m <= k].price

\* What the exchange is reported to have done, it did: a fill with all lots, a
\* cancellation of an order that had not filled (_parse_query_response,
\* _parse_cancel_response).
RepliesTrue ==
    \A ref \in DOMAIN told : ref[1] = "venue" => \A i \in DOMAIN told[ref] :
        /\ told[ref][i].status = "FILLED" => venue[ref].status = "closed" /\ told[ref][i].lots = venue[ref].body.volume
        /\ told[ref][i].status = "CANCELLED" => venue[ref].status = "canceled"

\* An order read back from the account is one the program placed, in its own
\* terms: symbol, direction, type, lots and price survive both conversions.
OrdersReadBack ==
    \A o \in view : \E p \in Placements :
        /\ o.symbol = p.symbol /\ o.dir = p.dir /\ o.type = p.type /\ o.lots = p.lots
        /\ o.price = p.price \/ o.price = 3

\* Every call comes back: the lock is given up on every way out.
CallsEnd == \A t \in Threads : call[t].pc # "idle" ~> call[t].pc = "idle"

\* Requests in order and spaced, a harmless dry run, answers that are true.
AdapterSound ==
    NoncesRise /\ RequestsSpaced /\ DryRunHarmless /\ DryFillTrue /\ RepliesTrue /\ OrdersReadBack
=============================================================================
