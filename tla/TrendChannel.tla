----------------------------- MODULE TrendChannel -----------------------------
(***************************************************************************)
(* TrendChannelReference: an H1 gate and an M15 channel; one resting entry *)
(* at a time, re-priced with the channel and cancelled when the gate       *)
(* flips; up to MaxPositions positions, each with a trailing stop and one  *)
(* partial close.  Prices are small integers, a distance is the half width *)
(* of the channel (sl_mult, trail_mult and partial_rr are 1, and the       *)
(* trailing noise of a tenth of the risk is below one unit of price).      *)
(***************************************************************************)
EXTENDS TradingDesk

CONSTANTS
    MaxPositions,  \* max_positions
    Channels,      \* the worker results a tick can bring: gate, lower and upper band
    Mids           \* the prices a tick can bring

ASSUME TrendAssumption ==
    /\ Mids \subseteq Int
    /\ Channels \subseteq [gate : {"up", "down", "neutral"}, lower : Int, upper : Int]

VARIABLES
    mode,     \* entry_mode: "LIMIT" (limit_pullback) or "STOP" (stop_breakout)
    channel,  \* _gate, _lower, _upper: the last results read
    resting,  \* _resting_entries
    risk,     \* _initial_risk
    partial   \* _partial_done

trendVars == <<book, logic, mode, channel, resting, risk, partial>>

TrendInit ==
    /\ book = <<>> /\ resting = <<>> /\ risk = <<>> /\ partial = {}
    /\ mode \in {"LIMIT", "STOP"}
    /\ channel = [gate |-> "neutral", lower |-> 0, upper |-> 0]

Set(f, i, v) == [j \in DOMAIN f \cup {i} |-> IF j = i THEN v ELSE f[j]]
Drop(f, S) == [j \in DOMAIN f \ S |-> f[j]]
Distance(x, y) == IF x > y THEN x - y ELSE y - x

\* 1 for a long, -1 for a short: prices are compared in the order's direction.
Sign(dir) == IF dir = "LONG" THEN 1 ELSE -1
Side(c) == IF c.gate = "up" THEN "LONG" ELSE "SHORT"
Half(c) == (c.upper - c.lower) \div 2

\* _entry_geometry: the entry at the near band (LIMIT) or the far one (STOP).
EntryPrice(c, dir) == IF (dir = "LONG") = (mode = "LIMIT") THEN c.lower ELSE c.upper
EntryStop(c, dir) == EntryPrice(c, dir) - Sign(dir) * Half(c)

\* _is_armed
IsArmed(c, dir, mid) ==
    LET beyond == Sign(dir) * (mid - EntryPrice(c, dir))
    IN  IF mode = "LIMIT" THEN beyond <= 0 ELSE beyond < 0

Armed(c, mid) == Half(c) > 0 /\ c.gate # "neutral" /\ IsArmed(c, Side(c), mid)

----------------------------------------------------------------------------
(* _manage_open_positions                                                  *)

WantsPartial(b, r, i, mid) ==
    i \notin partial /\ r[i] > 0 /\ Sign(b[i].dir) * (mid - b[i].price) >= r[i]

\* Mutant: the new stop is not compared with the old one.
TrailAlways(c, b, r, i, mid) ==
    LET offset == IF r[i] # 0 THEN r[i] ELSE Half(c)
        newSl == mid - Sign(b[i].dir) * offset
    IN  IF b[i].op = "none" /\ offset > 0 THEN Modify(b, i, b[i].price, newSl) ELSE b

MaybeTrail(c, b, r, i, mid) ==
    LET offset == IF r[i] # 0 THEN r[i] ELSE Half(c)
        newSl == mid - Sign(b[i].dir) * offset
    IN  IF b[i].op = "none" /\ offset > 0 /\ Sign(b[i].dir) * (newSl - b[i].sl) > 0
        THEN Modify(b, i, b[i].price, newSl) ELSE b

ManagePosition(c, b, r, i, mid) ==
    IF b[i].close # "no" THEN b
    ELSE MaybeTrail(c, IF WantsPartial(b, r, i, mid) THEN [b EXCEPT ![i].close = "part"] ELSE b, r, i, mid)

\* The positions are independent of each other: the loop over them is one step.
ManageOpenPositions(c, b, mid) ==
    LET open == OpenPositions(b)
        r == [i \in DOMAIN risk \cup open |->
                IF i \in DOMAIN risk THEN risk[i] ELSE Distance(b[i].price, b[i].sl)]
        done == {i \in open : b[i].close = "no" /\ WantsPartial(b, r, i, mid)}
    IN  [book |-> [i \in DOMAIN b |-> IF i \in open THEN ManagePosition(c, b, r, i, mid)[i] ELSE b[i]],
         risk |-> r, partial |-> partial \cup done]

----------------------------------------------------------------------------
(* _manage_resting_entries, on the state s of the pass                     *)

GateFlippedAgainst(c, dir) == c.gate # (IF dir = "LONG" THEN "up" ELSE "down")

\* Mutant: the entry is forgotten whatever the cancellation answers.
CancelEntryBlind(s, i) ==
    [s EXCEPT !.book = IF i \in ActiveOrders(@) /\ @[i].op = "none" THEN CancelOrder(@, i) ELSE @,
              !.resting = Drop(@, {i})]

\* Only an order in the book can be cancelled; one that is not stays noted.
CancelEntry(s, i) ==
    IF i \in ActiveOrders(s.book) /\ s.book[i].op = "none"
    THEN [s EXCEPT !.book = CancelOrder(@, i), !.resting = Drop(@, {i})]
    ELSE s

\* An entry follows its band by more than a quarter of the channel, unless the
\* market has passed the new price.
MaybeReprice(c, s, i, mid) ==
    LET dir == s.resting[i].dir
        to == EntryPrice(c, dir)
        ahead == Sign(dir) * (to - mid)
        passed == IF mode = "STOP" THEN ahead <= 0 ELSE ahead >= 0
    IN  IF s.book[i].op # "none" \/ 2 * Distance(to, s.resting[i].price) <= Half(c) \/ passed THEN s
        ELSE [s EXCEPT !.book = Modify(@, i, to, EntryStop(c, dir)),
                       !.resting[i].price = to, !.resting[i].sl = EntryStop(c, dir)]

ManageRestingEntry(c, s, i, mid) ==
    IF i \in OpenPositions(s.book)
    THEN [s EXCEPT !.risk = Set(@, i, Distance(s.book[i].price, s.resting[i].sl)), !.resting = Drop(@, {i})]
    ELSE IF GateFlippedAgainst(c, s.resting[i].dir) THEN CancelEntry(s, i)
    ELSE IF i \in ActiveOrders(s.book) THEN MaybeReprice(c, s, i, mid)
    ELSE s

\* One entry at a time is noted (EntryTracked), so the loop has one turn.
ManageRestingEntries(c, s, mid) ==
    IF DOMAIN s.resting = {} THEN s ELSE ManageRestingEntry(c, s, First(DOMAIN s.resting), mid)

----------------------------------------------------------------------------
(* _try_open_entry and the tick                                            *)

TryOpenEntry(c, s, accepted) ==
    LET b == s.book
        new == [dir |-> Side(c), price |-> EntryPrice(c, Side(c)), sl |-> EntryStop(c, Side(c))]
    IN  IF \/ DOMAIN s.resting # {} \/ Cardinality(OpenPositions(b)) >= MaxPositions
           \/ HasPipelineOrders(b) \/ ~accepted \/ Len(b) >= MaxDeskOrders
        THEN s
        ELSE [s EXCEPT !.book = Send(@, NewOrder(mode, new.dir, new.price, new.sl)),
                       !.resting = Set(@, Len(b) + 1, new)]

\* An entry fills when the market meets its price.
Touched(o, mid) ==
    LET beyond == Sign(o.dir) * (mid - o.price)
    IN  IF mode = "LIMIT" THEN beyond <= 0 ELSE beyond >= 0

FillsTrue(b, mid) == \A i \in OpenPositions(b) \ OpenPositions(book) : Touched(b[i], mid)

\* A tick without worker results manages with the channel read before.
TrendTick ==
    /\ logic = "trend"
    /\ \E b \in AfterTick :
       \E mid \in {m \in Mids : FillsTrue(b, m)}, c \in Channels \cup {channel} :
       \E managed \in {ManageOpenPositions(c, b, mid)} :
       \E s \in {ManageRestingEntries(c, [book |-> managed.book, risk |-> managed.risk,
                                         resting |-> resting], mid)} :
       \E end \in IF Armed(c, mid) THEN {TryOpenEntry(c, s, accepted) : accepted \in BOOLEAN} ELSE {s} :
           /\ book' = end.book /\ resting' = end.resting
           /\ risk' = end.risk /\ partial' = managed.partial
           /\ channel' = c /\ UNCHANGED <<logic, mode>>

----------------------------------------------------------------------------
(* Properties                                                              *)

\* Every entry order that is working and not being cancelled is in
\* _resting_entries, so it follows the channel and is withdrawn when the gate
\* flips: the logic forgets no order while it is on its way to the book. The
\* one it does forget is an order whose cancellation was taken and then refused.
EntryTracked ==
    logic = "trend" => \A i \in In(book, {"queue", "active"}) :
        book[i].op = "cancel" \/ "cancel" \in book[i].refused \/ i \in DOMAIN resting

\* The stop of an open position only ever moves in the direction of profit,
\* however a trailing change, a partial close and the re-pricing of the entry
\* overlap ("an always-on trailing stop that only ratchets").
StopRatchets ==
    logic = "trend" => \A i \in OpenPositions(book) :
          book'[i].st = "open" => Sign(book[i].dir) * (book'[i].sl - book[i].sl) >= 0
=============================================================================
