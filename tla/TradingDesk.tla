----------------------------- MODULE TradingDesk -----------------------------
(***************************************************************************)
(* The executor as a decision logic sees it through DecisionTradingApi: an *)
(* order waits in the latency queue, rests in the book, becomes the        *)
(* position of the same id, or is gone.  On a tick the executor first      *)
(* applies the operations that are due, then decides every order, and the  *)
(* decision logic comes after.  What the market does to an order is left   *)
(* open; TradeSimulator and PortfolioManager say when each case happens.   *)
(* Whether an operation the api took is applied in the end is open too:    *)
(* the portfolio may refuse the new levels, and a live venue any of them.  *)
(* No logic is told: its call had succeeded.                               *)
(***************************************************************************)
EXTENDS Integers, Sequences, FiniteSets

CONSTANTS MaxDeskOrders  \* bound of the model: orders sent

VARIABLES
    book,  \* every order sent, in order; its index is its id
    logic  \* the decision logic that trades

\* refused (history): the operations on it that were taken and then refused.
NewOrder(kind, dir, price, sl) ==
    [st |-> "queue", kind |-> kind, dir |-> dir, price |-> price, sl |-> sl, lots |-> 2,
     close |-> "no", op |-> "none", to |-> <<0, 0>>, refused |-> {}]

\* Nothing is kept of an order that was refused, cancelled or closed.
Gone == [NewOrder("none", "none", 0, 0) EXCEPT !.st = "gone"]

In(b, S) == {i \in DOMAIN b : b[i].st \in S}
OpenPositions(b) == In(b, {"open"})
ActiveOrders(b) == In(b, {"active"})
ActiveStops(b) == {i \in ActiveOrders(b) : b[i].kind # "LIMIT"}
HasPipelineOrders(b) == \E i \in DOMAIN b : b[i].st = "queue" \/ (b[i].st = "open" /\ b[i].close # "no")
HasPendingOrders(b) == HasPipelineOrders(b) \/ ActiveOrders(b) # {}
First(S) == CHOOSE i \in S : \A j \in S : i <= j

\* The order stays as it was, and nothing is on its way any more.
Refused(o) == [o EXCEPT !.op = "none", !.to = <<0, 0>>, !.refused = @ \cup {o.op}]

\* The operation on its way is applied, is refused, or takes longer still.
Resolutions(o) ==
    {o} \cup CASE o.op = "none" -> {}
             [] o.op = "cancel" -> {Gone, Refused(o)}
             [] o.op = "modify" -> {Refused(o), [o EXCEPT !.price = o.to[1], !.sl = o.to[2],
                                                          !.op = "none", !.to = <<0, 0>>]}

\* A fill ends the operation on an order that has not come in time.
Filled(o) == [o EXCEPT !.st = "open", !.op = "none", !.to = <<0, 0>>,
                        !.refused = @ \ {"cancel", "modify"}]

\* The close on its way is refused.
Unclosed(o) == [o EXCEPT !.close = "no", !.refused = @ \cup {"close"}]

\* What one tick can make of an order once its operation is resolved. One that
\* fills may be refused for margin, or meet its stop loss on the same tick: it
\* is gone at once.
Decided(o) ==
    CASE o.st = "queue" ->
           {o, Gone, Filled(o)} \cup IF o.kind = "MARKET" THEN {} ELSE {[o EXCEPT !.st = "active"]}
      [] o.st = "active" ->
           {o, Gone, Filled(o)} \cup IF o.kind = "STOP_LIMIT" THEN {[o EXCEPT !.kind = "LIMIT"]} ELSE {}
      [] o.st = "open" ->
           {o, Gone} \cup (IF o.close = "part" /\ o.lots > 1 THEN {[o EXCEPT !.lots = @ - 1, !.close = "no"]} ELSE {})
                     \cup (IF o.close # "no" THEN {Unclosed(o)} ELSE {})
      [] o.st = "gone" -> {o}

Outcomes(o) == UNION {Decided(r) : r \in Resolutions(o)}

\* The books a tick can lead to, before the decision.
AfterTick ==
    {b \in [DOMAIN book -> UNION {Outcomes(book[i]) : i \in DOMAIN book}] :
        \A i \in DOMAIN book : b[i] \in Outcomes(book[i])}

\* Calls of the api on the book b.
Send(b, o) == Append(b, o)
ClosePosition(b, i) == [b EXCEPT ![i].close = "all"]
CancelOrder(b, i) == [b EXCEPT ![i].op = "cancel"]
Modify(b, i, price, sl) == [b EXCEPT ![i].op = "modify", ![i].to = <<price, sl>>]
=============================================================================
