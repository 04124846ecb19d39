----------------------------- MODULE MockBroker ------------------------------
(***************************************************************************)
(* The broker of the mock sessions and of the integration tests: it fills   *)
(* at once, at the first query, never, or rejects everything, and keeps the  *)
(* trades of a fill for the drift audit.  The mode may be changed between any  *)
(* two calls, slippage and trades per fill before the first.  Prices are in   *)
(* hundredths.                                                               *)
(***************************************************************************)
EXTENDS Integers, Sequences, FiniteSets, FiniteSetsExt, TLC

CONSTANTS MaxMockOrders, MaxReplies, MockPrices, MockLots, TradesPerFill, MockSlippage, TakerRate

ASSUME MockConstants ==
    /\ {MaxMockOrders, MaxReplies, TakerRate, MockSlippage} \subseteq Nat /\ TradesPerFill \subseteq Nat \ {0}
    /\ \A l \in MockLots, n \in TradesPerFill : l % n = 0

VARIABLES mockMode, slippage, perFill, mockCount, tradeCount, mockPending, mockTrades, lastTick, mockTold
mockSettings == <<mockMode, slippage, perFill>>
mockVars == <<mockSettings, mockCount, tradeCount, mockPending, mockTrades, lastTick, mockTold>>

Modes == {"instant_fill", "delayed_fill", "reject_all", "timeout"}
FallbackPrice == 50000
Nothing == 0

MockReply(status, lots, price) == [status |-> status, lots |-> lots, price |-> price]
MockTell(ref, r) == mockTold' = [mockTold EXCEPT ![ref] = Append(@, r)]

----------------------------------------------------------------------------

\* The price of a market fill: the expected one, else the side of the last tick
\* that is dealt at, else a fixed one.
ResolveMarketFillPrice(dir, expected) ==
    IF expected # Nothing THEN expected
    ELSE IF lastTick # <<>> THEN (IF dir = "LONG" THEN lastTick.ask ELSE lastTick.bid)
    ELSE FallbackPrice

\* Mutant: every trade has the volume of the order.
SliceVolumeWhole(lots, n) == lots
SliceVolume(lots, n) == lots \div n

\* The fill in equal slices, a cent apart around its price; twice the price, so
\* that the middle of two cents is a number.
RecordMockTrades(ref, dir, lots, price) ==
    LET n == perFill
        slice(i) == [id |-> tradeCount + i, volume |-> SliceVolume(lots, n), price2 |-> 2 * price + (2 * i - n - 1),
                     side |-> IF dir = "LONG" THEN "buy" ELSE "sell",
                     fee2 |-> SliceVolume(lots, n) * (2 * price + (2 * i - n - 1)) * TakerRate] IN
    /\ tradeCount' = tradeCount + n
    /\ mockTrades' = (ref :> [i \in 1 .. n |-> slice(i)]) @@ mockTrades

MockSubmit ==
    /\ mockCount < MaxMockOrders /\ mockCount' = mockCount + 1
    /\ \E dir \in {"LONG", "SHORT"}, lots \in MockLots, expected \in MockPrices \cup {Nothing} :
         LET ref == mockCount + 1
             price == ResolveMarketFillPrice(dir, expected) IN
         CASE mockMode = "reject_all" ->
                /\ mockTold' = mockTold @@ (ref :> <<MockReply("REJECTED", 0, 0)>>)
                /\ UNCHANGED <<mockPending, mockTrades, tradeCount>>
           [] mockMode = "instant_fill" ->
                /\ RecordMockTrades(ref, dir, lots, price + slippage)
                /\ mockTold' = mockTold @@ (ref :> <<MockReply("FILLED", lots, price + slippage)>>)
                /\ UNCHANGED mockPending
           [] OTHER ->
                /\ mockPending' = mockPending @@ (ref :> [dir |-> dir, lots |-> lots, price |-> price])
                /\ mockTold' = mockTold @@ (ref :> <<MockReply("PENDING", 0, 0)>>)
                /\ UNCHANGED <<mockTrades, tradeCount>>
    /\ UNCHANGED <<mockSettings, lastTick>>

Without(f, x) == [y \in DOMAIN f \ {x} |-> f[y]]

\* Mutant: the order stays after its fill.
PoppedNever(ref) == mockPending
Popped(ref) == Without(mockPending, ref)

Replies == MapThenSumSet(LAMBDA ref : Len(mockTold[ref]), DOMAIN mockTold)
Askable == IF Replies < MaxReplies THEN DOMAIN mockTold ELSE {}

MockQuery ==
    /\ \E ref \in Askable :
         IF ref \notin DOMAIN mockPending
         THEN MockTell(ref, MockReply("REJECTED", 0, 0)) /\ UNCHANGED <<mockPending, mockTrades, tradeCount>>
         ELSE IF mockMode = "timeout"
         THEN MockTell(ref, MockReply("PENDING", 0, 0)) /\ UNCHANGED <<mockPending, mockTrades, tradeCount>>
         ELSE LET o == mockPending[ref] IN
              /\ mockPending' = Popped(ref)
              /\ RecordMockTrades(ref, o.dir, o.lots, o.price + slippage)
              /\ MockTell(ref, MockReply("FILLED", o.lots, o.price + slippage))
    /\ UNCHANGED <<mockSettings, mockCount, lastTick>>

\* Whatever became of the order, the answer is CANCELLED.
MockCancel ==
    /\ \E ref \in Askable :
         mockPending' = Without(mockPending, ref) /\ MockTell(ref, MockReply("CANCELLED", 0, 0))
    /\ UNCHANGED <<mockSettings, mockCount, tradeCount, mockTrades, lastTick>>

MockModify ==
    /\ \E ref \in Askable, price \in MockPrices \cup {Nothing} :
         IF mockMode = "reject_all" \/ ref \notin DOMAIN mockPending
         THEN MockTell(ref, MockReply("REJECTED", 0, 0)) /\ UNCHANGED mockPending
         ELSE /\ mockPending' = [mockPending EXCEPT ![ref].price = IF price # Nothing THEN price ELSE @]
              /\ MockTell(ref, MockReply("FILLED", 0, 0))
    /\ UNCHANGED <<mockSettings, mockCount, tradeCount, mockTrades, lastTick>>

\* The answer to a query for the trades of an order.
MockTradesQuery(ref) == IF ref \in DOMAIN mockTrades THEN mockTrades[ref] ELSE <<>>

MockTick ==
    /\ \E p \in MockPrices : lastTick' = [bid |-> p - 1, ask |-> p + 1]
    /\ UNCHANGED <<mockSettings, mockCount, tradeCount, mockPending, mockTrades, mockTold>>

MockSet ==
    /\ \/ mockMode' \in Modes /\ UNCHANGED <<slippage, perFill>>
       \/ /\ mockCount = 0 /\ UNCHANGED mockMode
          /\ slippage' \in {0, MockSlippage} /\ perFill' \in TradesPerFill
    /\ UNCHANGED <<mockCount, tradeCount, mockPending, mockTrades, lastTick, mockTold>>

MockInit ==
    /\ mockMode \in Modes /\ slippage = 0 /\ perFill \in TradesPerFill
    /\ mockCount = 0 /\ tradeCount = 0 /\ mockPending = <<>> /\ mockTrades = <<>> /\ lastTick = <<>> /\ mockTold = <<>>

MockNext ==
    MockSubmit \/ MockQuery \/ MockCancel \/ MockModify \/ MockTick \/ MockSet

----------------------------------------------------------------------------

FillsOf(ref) == {i \in DOMAIN mockTold[ref] : mockTold[ref][i].lots > 0}
Total(S, f(_)) == MapThenSumSet(f, S)

\* An order fills at most once, not after it was taken back while it waited, and
\* not if it was rejected when it came.
MockFillsOnce ==
    \A ref \in DOMAIN mockTold :
        /\ Cardinality(FillsOf(ref)) <= 1
        /\ \A i \in FillsOf(ref) : \A k \in 1 .. i - 1 : mockTold[ref][k].status # "CANCELLED"
        /\ mockTold[ref][1].status = "REJECTED" => FillsOf(ref) = {}

\* The trades kept of an order are the fill that was reported: together its lots,
\* on average its price, and a fee at the taker's rate of what was traded; orders
\* without a fill have none.
MockTradesMatchFills ==
    \A ref \in DOMAIN mockTold :
         LET t == MockTradesQuery(ref)
             r == IF FillsOf(ref) = {} THEN MockReply("NONE", 0, 0)
                  ELSE mockTold[ref][CHOOSE i \in FillsOf(ref) : TRUE]
             vol(i) == t[i].volume
             worth(i) == t[i].volume * t[i].price2
             fee(i) == t[i].fee2 IN
         /\ Total(DOMAIN t, vol) = r.lots
         /\ Total(DOMAIN t, worth) = 2 * r.price * r.lots
         /\ Total(DOMAIN t, fee) = 2 * r.price * r.lots * TakerRate

\* No two trades share an identifier, over all orders.
MockTradeIds ==
    \A a, b \in DOMAIN mockTrades : \A i \in DOMAIN mockTrades[a], j \in DOMAIN mockTrades[b] :
        mockTrades[a][i].id = mockTrades[b][j].id => a = b /\ i = j

MockSound == MockFillsOnce /\ MockTradesMatchFills /\ MockTradeIds
=============================================================================
