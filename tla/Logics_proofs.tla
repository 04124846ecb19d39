---------------------------- MODULE Logics_proofs ----------------------------
(***************************************************************************)
(* Theorems about the decision logics, for every script, every channel and *)
(* price they are given, every number of ticks, and whatever the executor  *)
(* makes of their orders: each knows its own exposure, none raises its     *)
(* risk again, and no re-arm of the field study doubles an entry.  The     *)
(* inductive invariants are LogicsInv, with one conjunct for the logic     *)
(* that runs, and EntryInv.                                                *)
(***************************************************************************)
EXTENDS MCLogics, FiniteSetTheorems, SequenceTheorems, WellFoundedInduction, TLAPS

-----------------------------------------------------------------------------
(* The desk: what a tick may make of an order, whatever the broker answers. *)

\* The kinds of order a logic sends, and what a placeholder has.
Kinds == {"MARKET", "LIMIT", "STOP", "STOP_LIMIT", "none"}
\* An order or position as a logic sees it through DecisionTradingApi.
DeskOrder ==
  [st : {"queue", "active", "open", "gone"}, kind : Kinds, dir : {"LONG", "SHORT", "none"}, price : Int, sl : Int,
   lots : Int, close : {"no", "all", "part"}, op : {"none", "cancel", "modify"}, to : Int \X Int,
   refused : SUBSET {"cancel", "modify", "close"}]

\* What is sent, rests or is open.
Live(b) == In(b, {"queue", "active", "open"})

\* What a tick leaves of an order.
Became(o, r) ==
  /\ r \in DeskOrder
  /\ r.st = "gone" \/
       /\ o.st # "gone" /\ r.dir = o.dir
       /\ r.kind = o.kind \/ (o.kind = "STOP_LIMIT" /\ r.kind = "LIMIT")
       /\ r.st = "queue" => o.st = "queue"
       /\ r.st = "active" => o.st \in {"queue", "active"}
       /\ o.st = "open" => r.st = "open"
       /\ o.st # "open" /\ r.st = "open" => r.op = "none"
       /\ r.close = o.close \/ (r.close = "no" /\ (o.close = "part" \/ "close" \in r.refused))
       /\ (o.st # "open" /\ r.st = "open") \/ o.refused \subseteq r.refused
       /\ "close" \in o.refused => "close" \in r.refused
       /\ \/ r.op = o.op /\ r.to = o.to /\ r.sl = o.sl
          \/ r.op = "none" /\ o.op = "modify" /\ r.sl = o.to[2]
          \/ r.op = "none" /\ o.op \in r.refused /\ r.sl = o.sl
          \/ r.op = "none" /\ o.st # "open" /\ r.st = "open"

\* A set of numbers that is not empty has a least one.
LEMMA LeastNumber ==
  ASSUME NEW T \in SUBSET Nat, T # {}
  PROVE  \E n \in T : \A m \in T : n <= m
<1> DEFINE less == {ss \in Nat \X Nat : ss[1] < ss[2]}
<1>1. IsWellFoundedOn(less, Nat)
  BY NatLessThanWellFounded DEF OpToRel
<1>3. \A m \in Nat, n \in Nat : m < n => <<m, n>> \in less
  OBVIOUS
<1>2. PICK n \in T : \A m \in T : ~ (<<m, n>> \in less)
  <2> HIDE DEF less
  <2> QED BY <1>1, WFMin
<1>4. \A m \in T : ~(m < n)
  <2> HIDE DEF less
  <2> QED BY <1>2, <1>3
<1> QED BY <1>4

\* First picks one of the orders: the logics ask for the first position of
\* a list.
LEMMA FirstIsMember ==
  ASSUME NEW T \in SUBSET Nat, T # {}
  PROVE  First(T) \in T
  BY LeastNumber DEF First

\* The order that is gone is an order of the desk.
LEMMA GoneTyped == Gone \in DeskOrder /\ Gone.st = "gone"
<1>1. Gone = [st |-> "gone", kind |-> "none", dir |-> "none", price |-> 0, sl |-> 0, lots |-> 2,
              close |-> "no", op |-> "none", to |-> <<0, 0>>, refused |-> {}]
  BY DEF Gone, NewOrder
<1>2. <<0, 0>> \in Int \X Int
  OBVIOUS
<1> QED BY <1>1, <1>2 DEF DeskOrder, Kinds

\* send_order queues what the logic asked for, with nothing under way.
LEMMA NewOrderTyped ==
  ASSUME NEW kind \in Kinds, NEW dir \in {"LONG", "SHORT"}, NEW price \in Int, NEW sl \in Int
  PROVE  LET o == NewOrder(kind, dir, price, sl) IN
         /\ o \in DeskOrder /\ o.st = "queue" /\ o.kind = kind /\ o.dir = dir /\ o.close = "no" /\ o.op = "none"
         /\ o.sl = sl /\ o.price = price
<1>1. NewOrder(kind, dir, price, sl) = [st |-> "queue", kind |-> kind, dir |-> dir, price |-> price, sl |-> sl, lots |-> 2,
              close |-> "no", op |-> "none", to |-> <<0, 0>>, refused |-> {}]
  BY DEF NewOrder
<1>2. PICK z \in Int \X Int : z = <<0, 0>>
  <2>1. <<0, 0>> \in Int \X Int
    OBVIOUS
  <2> QED BY <2>1
<1>3. NewOrder(kind, dir, price, sl) = [st |-> "queue", kind |-> kind, dir |-> dir, price |-> price, sl |-> sl, lots |-> 2,
              close |-> "no", op |-> "none", to |-> z, refused |-> {}]
  BY <1>1, <1>2
<1> QED BY <1>3 DEF DeskOrder

\* What is refused leaves the order as it was, and is on record.
LEMMA RefusedIs ==
  ASSUME NEW o \in DeskOrder, o.op # "none"
  PROVE  /\ Refused(o) \in DeskOrder /\ Refused(o).op = "none" /\ Refused(o).sl = o.sl
         /\ Refused(o).st = o.st /\ Refused(o).kind = o.kind /\ Refused(o).dir = o.dir
         /\ Refused(o).close = o.close /\ Refused(o).lots = o.lots
         /\ o.refused \subseteq Refused(o).refused /\ o.op \in Refused(o).refused
<1>1. PICK z \in Int \X Int : z = <<0, 0>>
  <2>1. <<0, 0>> \in Int \X Int
    OBVIOUS
  <2> QED BY <2>1
<1>2. PICK y \in SUBSET {"cancel", "modify", "close"} : y = o.refused \cup {o.op}
  <2>1. o.refused \cup {o.op} \in SUBSET {"cancel", "modify", "close"}
    BY DEF DeskOrder
  <2> QED BY <2>1
<1>3. Refused(o) = [o EXCEPT !.op = "none", !.to = z, !.refused = y]
  BY <1>1, <1>2 DEF Refused
<1>4. PICK q : q = [o EXCEPT !.op = "none", !.to = z, !.refused = y]
  OBVIOUS
<1>5. /\ q \in DeskOrder /\ q.op = "none" /\ q.sl = o.sl /\ q.st = o.st /\ q.kind = o.kind /\ q.dir = o.dir
      /\ q.close = o.close /\ q.lots = o.lots /\ q.refused = y
  BY <1>4 DEF DeskOrder
<1> QED BY <1>2, <1>3, <1>4, <1>5

\* A close that is refused leaves the position as it was, and is on record.
LEMMA UnclosedIs ==
  ASSUME NEW o \in DeskOrder
  PROVE  /\ Unclosed(o) \in DeskOrder /\ Unclosed(o).close = "no" /\ "close" \in Unclosed(o).refused
         /\ o.refused \subseteq Unclosed(o).refused
         /\ Unclosed(o).st = o.st /\ Unclosed(o).kind = o.kind /\ Unclosed(o).dir = o.dir
         /\ Unclosed(o).op = o.op /\ Unclosed(o).to = o.to /\ Unclosed(o).sl = o.sl
<1>2. PICK y \in SUBSET {"cancel", "modify", "close"} : y = o.refused \cup {"close"}
  <2>1. o.refused \cup {"close"} \in SUBSET {"cancel", "modify", "close"}
    BY DEF DeskOrder
  <2> QED BY <2>1
<1>3. Unclosed(o) = [o EXCEPT !.close = "no", !.refused = y]
  BY <1>2 DEF Unclosed
<1>4. PICK q : q = [o EXCEPT !.close = "no", !.refused = y]
  OBVIOUS
<1>5. /\ q \in DeskOrder /\ q.close = "no" /\ q.sl = o.sl /\ q.st = o.st /\ q.kind = o.kind /\ q.dir = o.dir
      /\ q.op = o.op /\ q.to = o.to /\ q.refused = y
  BY <1>4 DEF DeskOrder
<1> QED BY <1>2, <1>3, <1>4, <1>5

\* An operation that is resolved: the order is gone, or keeps what it is.
LEMMA ResolvedIs ==
  ASSUME NEW o \in DeskOrder, NEW q \in Resolutions(o)
  PROVE  /\ q \in DeskOrder
         /\ q.st = "gone" \/
              /\ q.st = o.st /\ q.kind = o.kind /\ q.dir = o.dir /\ q.close = o.close /\ q.lots = o.lots
              /\ o.refused \subseteq q.refused
              /\ \/ q = o
                 \/ q.op = "none" /\ o.op = "modify" /\ q.sl = o.to[2]
                 \/ q.op = "none" /\ o.op \in q.refused /\ q.sl = o.sl
<1>1. o.op \in {"none", "cancel", "modify"} /\ o.to \in Int \X Int
  BY DEF DeskOrder
<1>2. CASE q = o
  BY <1>2
<1>3. CASE o.op = "cancel" /\ q = Gone
  BY <1>3, GoneTyped
<1>4. CASE o.op = "modify" /\ q = [o EXCEPT !.price = o.to[1], !.sl = o.to[2], !.op = "none", !.to = <<0, 0>>]
  <2>1. PICK z \in Int \X Int : z = <<0, 0>>
    <3>1. <<0, 0>> \in Int \X Int
      OBVIOUS
    <3> QED BY <3>1
  <2>2. PICK a \in Int, b \in Int : a = o.to[1] /\ b = o.to[2]
    BY <1>1
  <2>3. q = [o EXCEPT !.price = a, !.sl = b, !.op = "none", !.to = z]
    BY <1>4, <2>1, <2>2
  <2>4. q \in DeskOrder /\ q.sl = b /\ q.op = "none" /\ q.st = o.st /\ q.kind = o.kind /\ q.dir = o.dir /\ q.close = o.close /\ q.lots = o.lots
        /\ q.refused = o.refused
    BY <2>3 DEF DeskOrder
  <2> QED BY <2>2, <2>4, <1>4
<1>5. CASE o.op # "none" /\ q = Refused(o)
  BY <1>5, RefusedIs
<1> QED BY <1>1, <1>2, <1>3, <1>4, <1>5 DEF Resolutions

\* A fill opens the position of the order, and ends what was asked of the
\* order.
LEMMA FilledIs ==
  ASSUME NEW q \in DeskOrder
  PROVE  /\ Filled(q) \in DeskOrder /\ Filled(q).st = "open" /\ Filled(q).op = "none"
         /\ Filled(q).kind = q.kind /\ Filled(q).dir = q.dir /\ Filled(q).close = q.close
         /\ "close" \in q.refused => "close" \in Filled(q).refused
<1>1. PICK z \in Int \X Int : z = <<0, 0>>
  <2>1. <<0, 0>> \in Int \X Int
    OBVIOUS
  <2> QED BY <2>1
<1>2. PICK y \in SUBSET {"cancel", "modify", "close"} : y = q.refused \ {"cancel", "modify"}
  <2>1. q.refused \ {"cancel", "modify"} \in SUBSET {"cancel", "modify", "close"}
    BY DEF DeskOrder
  <2> QED BY <2>1
<1>3. Filled(q) = [q EXCEPT !.st = "open", !.op = "none", !.to = z, !.refused = y]
  BY <1>1, <1>2 DEF Filled
<1>4. "close" \in q.refused => "close" \in y
  BY <1>2
<1> QED BY <1>3, <1>4 DEF DeskOrder

\* Whatever the executor makes of an order by the next tick, it may have
\* become that.
LEMMA OutcomeIs ==
  ASSUME NEW o \in DeskOrder, NEW r \in Outcomes(o)
  PROVE  Became(o, r)
<1>1. PICK q \in Resolutions(o) : r \in Decided(q)
  BY DEF Outcomes
<1>2. /\ q \in DeskOrder
      /\ q.st = "gone" \/
           /\ q.st = o.st /\ q.kind = o.kind /\ q.dir = o.dir /\ q.close = o.close /\ q.lots = o.lots
           /\ o.refused \subseteq q.refused
           /\ \/ q = o
              \/ q.op = "none" /\ o.op = "modify" /\ q.sl = o.to[2]
              \/ q.op = "none" /\ o.op \in q.refused /\ q.sl = o.sl
  BY ResolvedIs
<1>3. q.st \in {"queue", "active", "open", "gone"}
  BY <1>2 DEF DeskOrder
<1>4. CASE q.st = "gone"
  BY <1>1, <1>2, <1>4 DEF Decided, Became
<1>5. ASSUME q.st # "gone", r = q PROVE Became(o, r)
  BY <1>2, <1>5 DEF Became
<1>6. ASSUME q.st # "gone", r = Gone PROVE Became(o, r)
  BY <1>6, GoneTyped DEF Became
<1>7. ASSUME q.st \in {"queue", "active"}, r = Filled(q) PROVE Became(o, r)
  BY <1>2, <1>7, FilledIs DEF Became
<1>8. ASSUME q.st = "queue", r = [q EXCEPT !.st = "active"] PROVE Became(o, r)
  <2>1. r \in DeskOrder /\ r.st = "active" /\ r.kind = q.kind /\ r.dir = q.dir /\ r.close = q.close /\ r.op = q.op /\ r.to = q.to /\ r.sl = q.sl
        /\ r.refused = q.refused
    BY <1>2, <1>8 DEF DeskOrder
  <2> QED BY <2>1, <1>2, <1>8 DEF Became
<1>9. ASSUME q.st = "active", q.kind = "STOP_LIMIT", r = [q EXCEPT !.kind = "LIMIT"] PROVE Became(o, r)
  <2>1. r \in DeskOrder /\ r.st = "active" /\ r.kind = "LIMIT" /\ r.dir = q.dir /\ r.close = q.close /\ r.op = q.op /\ r.to = q.to /\ r.sl = q.sl
        /\ r.refused = q.refused
    BY <1>2, <1>9 DEF DeskOrder, Kinds
  <2> QED BY <2>1, <1>2, <1>9 DEF Became
<1>10. ASSUME q.st = "open", q.close = "part", r = [q EXCEPT !.lots = @ - 1, !.close = "no"] PROVE Became(o, r)
  <2>0. q.lots - 1 \in Int
    BY <1>2 DEF DeskOrder
  <2>1. r \in DeskOrder /\ r.st = "open" /\ r.kind = q.kind /\ r.dir = q.dir /\ r.close = "no" /\ r.op = q.op /\ r.to = q.to /\ r.sl = q.sl
        /\ r.refused = q.refused
    BY <2>0, <1>2, <1>10 DEF DeskOrder
  <2> QED BY <2>1, <1>2, <1>10 DEF Became
<1>11. CASE q.st = "queue"
  <2>1. r \in {q, Gone, Filled(q), [q EXCEPT !.st = "active"]}
    BY <1>1, <1>11 DEF Decided
  <2> QED BY <2>1, <1>5, <1>6, <1>7, <1>8, <1>11
<1>12. CASE q.st = "active"
  <2>1. r \in {q, Gone, Filled(q)} \/ (q.kind = "STOP_LIMIT" /\ r = [q EXCEPT !.kind = "LIMIT"])
    BY <1>1, <1>12 DEF Decided
  <2> QED BY <2>1, <1>5, <1>6, <1>7, <1>9, <1>12
<1>13. CASE q.st = "open"
  <2>1. \/ r \in {q, Gone} \/ r = Unclosed(q)
        \/ q.close = "part" /\ r = [q EXCEPT !.lots = @ - 1, !.close = "no"]
    BY <1>1, <1>13 DEF Decided
  <2>2. ASSUME r = Unclosed(q) PROVE Became(o, r)
    BY <2>2, <1>2, <1>13, UnclosedIs DEF Became
  <2> QED BY <2>1, <2>2, <1>5, <1>6, <1>10, <1>13
<1> QED BY <1>3, <1>4, <1>11, <1>12, <1>13

\* A tick leaves as many orders as there were, each what it may have become.
LEMMA AfterTickIs ==
  ASSUME book \in Seq(DeskOrder), NEW b \in AfterTick
  PROVE  /\ b \in Seq(DeskOrder) /\ Len(b) = Len(book) /\ DOMAIN b = 1 .. Len(book) /\ DOMAIN book = 1 .. Len(book)
         /\ Len(book) \in Nat
         /\ \A i \in 1 .. Len(book) : Became(book[i], b[i])
<1>1. PICK n \in Nat : n = Len(book)
  OBVIOUS
<1>2. DOMAIN book = 1 .. n /\ \A i \in 1 .. n : book[i] \in DeskOrder
  BY <1>1
<1>3. b \in [1 .. n -> UNION {Outcomes(book[i]) : i \in DOMAIN book}] /\ \A i \in 1 .. n : b[i] \in Outcomes(book[i])
  BY <1>2 DEF AfterTick
<1>4. \A i \in 1 .. n : Became(book[i], b[i])
  BY <1>2, <1>3, OutcomeIs
<1>5. \A i \in 1 .. n : b[i] \in DeskOrder
  BY <1>4 DEF Became
<1>6. b \in [1 .. n -> DeskOrder]
  BY <1>3, <1>5
<1>7. b \in Seq(DeskOrder) /\ Len(b) = n
  BY <1>6
<1> QED BY <1>1, <1>2, <1>4, <1>6, <1>7

-----------------------------------------------------------------------------
(* The strategies of one exposure: consensus, aggressive and long-only.     *)

\* What CautiousMacd remembers between ticks.
Macd == [prev : Int, stop : Nat, dir : {"none", "LONG", "SHORT"}, pos : Nat, even : BOOLEAN]

\* One order, resting entry or position at most, but for the stop-limit
\* entries that have become limit orders.
Alone(l, b) ==
  \A i, j \in Live(b) : i = j \/ (l = "STOP_LIMIT" /\ (b[i].kind = "LIMIT" \/ b[j].kind = "LIMIT"))

\* CautiousMacd in STOP mode sends stop entries alone.
OwnKinds(l, b) == l = "STOP" => \A i \in Live(b) : b[i].kind = "STOP"

\* CautiousMacd moves a stop to the entry and nowhere else.
EvenOnly(l, b) ==
  l \in {"STOP", "STOP_LIMIT"} => \A i \in DOMAIN b : b[i].st # "gone" /\ b[i].op = "modify" => b[i].to[2] = 1

\* The stop of a position is at its entry, on the way there, or was refused there.
AtEntry(o) == o.sl = 1 \/ (o.op = "modify" /\ o.to[2] = 1) \/ "modify" \in o.refused

\* The position it remembers its break-even for is gone, or open with its
\* stop there, on the way there or refused there.
EvenKept(b, m) ==
  m.even => /\ m.pos \in DOMAIN b
            /\ b[m.pos].st = "gone" \/ (b[m.pos].st = "open" /\ AtEntry(b[m.pos]))

\* What a strategy of one exposure keeps true.
StrategyInv(l, b, m) ==
  /\ b \in Seq(DeskOrder) /\ m \in Macd
  /\ Alone(l, b) /\ OwnKinds(l, b) /\ EvenOnly(l, b) /\ EvenKept(b, m)
  /\ l \notin {"STOP", "STOP_LIMIT"} => ~m.even

\* The lists a logic asks for, by the state of their orders.
LEMMA LiveIs ==
  ASSUME NEW b
  PROVE  /\ \A i : i \in Live(b) <=> i \in DOMAIN b /\ b[i].st \in {"queue", "active", "open"}
         /\ \A i : i \in OpenPositions(b) <=> i \in DOMAIN b /\ b[i].st = "open"
         /\ \A i : i \in ActiveOrders(b) <=> i \in DOMAIN b /\ b[i].st = "active"
  BY DEF Live, In, OpenPositions, ActiveOrders

\* Between two ticks no exposure appears, and no stop entry becomes another
\* kind.
LEMMA TickKeepsOne ==
  ASSUME book \in Seq(DeskOrder), NEW l, Alone(l, book), OwnKinds(l, book), NEW b \in AfterTick
  PROVE  Alone(l, b) /\ OwnKinds(l, b)
<1>1. /\ DOMAIN b = 1 .. Len(book) /\ DOMAIN book = 1 .. Len(book)
      /\ \A i \in 1 .. Len(book) : Became(book[i], b[i])
  BY AfterTickIs
<1>2. \A i \in Live(b) : /\ i \in Live(book)
                         /\ b[i].kind = book[i].kind \/ (book[i].kind = "STOP_LIMIT" /\ b[i].kind = "LIMIT")
  <2> SUFFICES ASSUME NEW i \in Live(b)
               PROVE  /\ i \in Live(book)
                      /\ b[i].kind = book[i].kind \/ (book[i].kind = "STOP_LIMIT" /\ b[i].kind = "LIMIT")
    OBVIOUS
  <2>1. i \in 1 .. Len(book) /\ b[i].st # "gone"
    BY <1>1, LiveIs
  <2>2. Became(book[i], b[i]) /\ book[i] \in DeskOrder
    BY <1>1, <2>1
  <2>3. book[i].st # "gone" /\ (b[i].kind = book[i].kind \/ (book[i].kind = "STOP_LIMIT" /\ b[i].kind = "LIMIT"))
    BY <2>1, <2>2 DEF Became
  <2>4. book[i].st \in {"queue", "active", "open"}
    BY <2>2, <2>3 DEF DeskOrder
  <2> QED BY <1>1, <2>1, <2>3, <2>4, LiveIs
<1>3. Alone(l, b)
  BY <1>2 DEF Alone
<1>4. OwnKinds(l, b)
  BY <1>2 DEF OwnKinds
<1> QED BY <1>3, <1>4

\* Between two ticks the invariant of a one-exposure strategy holds on.
LEMMA TickKeepsStrategy ==
  ASSUME StrategyInv(logic, book, macd), NEW b \in AfterTick
  PROVE  StrategyInv(logic, b, macd)
<1>0. /\ book \in Seq(DeskOrder) /\ macd \in Macd
      /\ Alone(logic, book) /\ OwnKinds(logic, book) /\ EvenOnly(logic, book) /\ EvenKept(book, macd)
      /\ logic \notin {"STOP", "STOP_LIMIT"} => ~macd.even
  BY DEF StrategyInv
<1>1. /\ b \in Seq(DeskOrder) /\ DOMAIN b = 1 .. Len(book) /\ DOMAIN book = 1 .. Len(book)
      /\ \A i \in 1 .. Len(book) : Became(book[i], b[i])
  BY <1>0, AfterTickIs
<1>2. EvenOnly(logic, b)
  <2> SUFFICES ASSUME logic \in {"STOP", "STOP_LIMIT"}, NEW i \in DOMAIN b, b[i].st # "gone", b[i].op = "modify"
               PROVE  b[i].to[2] = 1
    BY DEF EvenOnly
  <2>1. Became(book[i], b[i]) /\ i \in DOMAIN book
    BY <1>1
  <2>2. book[i].st # "gone" /\ book[i].op = "modify" /\ b[i].to = book[i].to
    BY <2>1 DEF Became
  <2> QED BY <2>1, <2>2, <1>0 DEF EvenOnly
<1>3. EvenKept(b, macd)
  <2> SUFFICES ASSUME macd.even PROVE EvenKept(b, macd)
    BY DEF EvenKept
  <2> DEFINE k == macd.pos
  <2>0. logic \in {"STOP", "STOP_LIMIT"}
    BY <1>0
  <2>1. k \in DOMAIN b /\ Became(book[k], b[k])
    BY <1>0, <1>1 DEF EvenKept
  <2>2. book[k].st = "gone" \/ (book[k].st = "open" /\ AtEntry(book[k]))
    BY <1>0 DEF EvenKept
  <2>3. book[k].op = "modify" /\ book[k].st # "gone" => book[k].to[2] = 1
    BY <2>0, <2>1, <1>0, <1>1 DEF EvenOnly
  <2> HIDE DEF k
  <2>4. b[k].st = "gone" \/ (b[k].st = "open" /\ AtEntry(b[k]))
    BY <2>1, <2>2, <2>3 DEF Became, AtEntry
  <2> QED BY <2>1, <2>4 DEF EvenKept, k
<1> QED BY <1>0, <1>1, <1>2, <1>3, TickKeepsOne DEF StrategyInv

\* A step that leaves states and kinds alone leaves the exposure alone.
LEMMA SameExposure ==
  ASSUME NEW l, NEW b, NEW c, DOMAIN c = DOMAIN b, \A i \in DOMAIN b : c[i].st = b[i].st /\ c[i].kind = b[i].kind,
         Alone(l, b), OwnKinds(l, b)
  PROVE  Alone(l, c) /\ OwnKinds(l, c) /\ Live(c) = Live(b)
<1>1. \A i : i \in Live(c) <=> i \in Live(b)
  <2> TAKE i
  <2>1. i \in Live(c) <=> i \in DOMAIN c /\ c[i].st \in {"queue", "active", "open"}
    BY LiveIs
  <2>2. i \in Live(b) <=> i \in DOMAIN b /\ b[i].st \in {"queue", "active", "open"}
    BY LiveIs
  <2> QED BY <2>1, <2>2
<1>2. \A i \in Live(b) : c[i].kind = b[i].kind
  BY LiveIs
<1>3. Live(c) = Live(b)
  BY <1>1
<1>4. Alone(l, c)
  BY <1>2, <1>3 DEF Alone
<1>5. OwnKinds(l, c)
  BY <1>2, <1>3 DEF OwnKinds
<1> QED BY <1>3, <1>4, <1>5

\* Sending an order while nothing is live, or old limit entries alone are,
\* leaves one exposure.
LEMMA SendOne ==
  ASSUME NEW l, NEW b \in Seq(DeskOrder), NEW o \in DeskOrder, o.st = "queue", l = "STOP" => o.kind = "STOP",
         \A i \in Live(b) : l = "STOP_LIMIT" /\ b[i].kind = "LIMIT"
  PROVE  /\ Append(b, o) \in Seq(DeskOrder)
         /\ Alone(l, Append(b, o)) /\ OwnKinds(l, Append(b, o))
         /\ DOMAIN Append(b, o) = 1 .. (Len(b) + 1) /\ Len(b) \in Nat /\ DOMAIN b = 1 .. Len(b)
         /\ \A i \in 1 .. Len(b) : Append(b, o)[i] = b[i]
         /\ Append(b, o)[Len(b) + 1] = o
<1> DEFINE c == Append(b, o)
           n == Len(b)
<1>1. /\ c \in Seq(DeskOrder) /\ n \in Nat /\ DOMAIN b = 1 .. n /\ DOMAIN c = 1 .. (n + 1)
      /\ \A i \in 1 .. n : c[i] = b[i]
      /\ c[n + 1] = o
  OBVIOUS
<1> HIDE DEF c, n
<1>2. \A i \in Live(c) : i = n + 1 \/ (i \in Live(b) /\ c[i] = b[i])
  <2> SUFFICES ASSUME NEW i \in Live(c), i # n + 1 PROVE i \in Live(b) /\ c[i] = b[i]
    OBVIOUS
  <2>1. i \in 1 .. (n + 1) /\ c[i].st \in {"queue", "active", "open"}
    BY <1>1, LiveIs
  <2>2. i \in 1 .. n
    BY <2>1, <1>1
  <2> QED BY <2>1, <2>2, <1>1, LiveIs
<1>3. Alone(l, c)
  BY <1>2 DEF Alone
<1>4. OwnKinds(l, c)
  <2> SUFFICES ASSUME l = "STOP", NEW i \in Live(c) PROVE c[i].kind = "STOP"
    BY DEF OwnKinds
  <2>1. i = n + 1
    BY <1>2
  <2> QED BY <2>1, <1>1
<1> QED BY <1>1, <1>3, <1>4 DEF c, n

\* The same for the whole invariant, of a logic without break-even.
LEMMA SendPlain ==
  ASSUME NEW l, NEW b, NEW m, StrategyInv(l, b, m), l \notin {"STOP", "STOP_LIMIT"}, Live(b) = {},
         NEW o \in DeskOrder, o.st = "queue"
  PROVE  StrategyInv(l, Append(b, o), m)
<1>1. Append(b, o) \in Seq(DeskOrder) /\ Alone(l, Append(b, o)) /\ OwnKinds(l, Append(b, o))
  BY SendOne DEF StrategyInv
<1> QED BY <1>1 DEF StrategyInv, EvenOnly, EvenKept

\* Asking to close a position leaves the exposure as it was.
LEMMA ClosePlain ==
  ASSUME NEW l, NEW b, NEW m, StrategyInv(l, b, m), l \notin {"STOP", "STOP_LIMIT"}, NEW i \in DOMAIN b
  PROVE  StrategyInv(l, ClosePosition(b, i), m)
<1> DEFINE c == ClosePosition(b, i)
<1>0. b \in Seq(DeskOrder) /\ Alone(l, b) /\ OwnKinds(l, b)
  BY DEF StrategyInv
<1>1. b[i] \in DeskOrder /\ DOMAIN b = 1 .. Len(b) /\ Len(b) \in Nat
  BY <1>0
<1>2. PICK r : r = [b[i] EXCEPT !.close = "all"]
  OBVIOUS
<1>3. r \in DeskOrder /\ r.st = b[i].st /\ r.kind = b[i].kind
  BY <1>1, <1>2 DEF DeskOrder
<1>4. c = [b EXCEPT ![i] = r]
  BY <1>2 DEF ClosePosition
<1> HIDE DEF c
<1>5. c \in Seq(DeskOrder) /\ DOMAIN c = DOMAIN b /\ \A j \in DOMAIN b : c[j] = IF j = i THEN r ELSE b[j]
  BY <1>0, <1>1, <1>3, <1>4
<1>6. \A j \in DOMAIN b : c[j].st = b[j].st /\ c[j].kind = b[j].kind
  BY <1>3, <1>5
<1>7. Alone(l, c) /\ OwnKinds(l, c)
  BY <1>0, <1>5, <1>6, SameExposure
<1> QED BY <1>5, <1>7 DEF StrategyInv, EvenOnly, EvenKept, c

\* No pending order and no position: the guard of an entry finds the desk
\* empty.
LEMMA NothingLive ==
  ASSUME NEW b \in Seq(DeskOrder), ~HasPendingOrders(b), OpenPositions(b) = {}
  PROVE  Live(b) = {}
<1>1. \A i \in DOMAIN b : b[i].st # "queue" /\ b[i].st # "active" /\ b[i].st # "open"
  BY LiveIs DEF HasPendingOrders, HasPipelineOrders
<1> QED BY <1>1, LiveIs

\* The position a strategy closes is one that is open.
LEMMA FirstOpen ==
  ASSUME NEW b \in Seq(DeskOrder), OpenPositions(b) # {}
  PROVE  First(OpenPositions(b)) \in OpenPositions(b) /\ First(OpenPositions(b)) \in DOMAIN b
<1>1. OpenPositions(b) \subseteq DOMAIN b /\ DOMAIN b \subseteq Nat
  BY LiveIs
<1> QED BY <1>1, FirstIsMember

\* A tick of the consensus, aggressive and long-only strategies keeps their
\* invariant.
LEMMA SignalTickKeeps ==
  ASSUME StrategyInv(logic, book, macd), SignalTick
  PROVE  StrategyInv(logic, book', macd) /\ logic' = logic /\ macd' = macd
<1>1. PICK b \in AfterTick, action \in Signals, accepted \in BOOLEAN :
        book' = CASE logic = "consensus" -> ExecuteReversal(b, action, accepted)
                  [] logic = "aggressive" -> ExecuteAggressive(b, action, accepted)
                  [] logic = "hybrid" -> ExecuteLongOnly(b, action, accepted)
  BY DEF SignalTick
<1>2. logic \in {"consensus", "aggressive", "hybrid"} /\ logic' = logic /\ macd' = macd
  BY DEF SignalTick
<1>3. StrategyInv(logic, b, macd) /\ b \in Seq(DeskOrder)
  BY TickKeepsStrategy DEF StrategyInv
<1>4. ASSUME NEW dir \in {"LONG", "SHORT"}, ~HasPendingOrders(b), OpenPositions(b) = {}
      PROVE  StrategyInv(logic, Entering(b, "MARKET", dir, accepted), macd)
  <2>1. PICK o \in DeskOrder : o = NewOrder("MARKET", dir, 0, 0) /\ o.st = "queue"
    BY NewOrderTyped DEF Kinds
  <2>2. StrategyInv(logic, Append(b, o), macd)
    BY <1>2, <1>3, <1>4, <2>1, NothingLive, SendPlain
  <2> QED BY <1>3, <2>1, <2>2 DEF Entering, Send
<1>5. ASSUME OpenPositions(b) # {} PROVE StrategyInv(logic, ClosePosition(b, First(OpenPositions(b))), macd)
  BY <1>2, <1>3, <1>5, FirstOpen, ClosePlain
<1>6. DirectionOf(action) \in {"LONG", "SHORT"}
  BY DEF DirectionOf
<1>7. StrategyInv(logic, ExecuteReversal(b, action, accepted), macd)
  BY <1>3, <1>4, <1>5, <1>6 DEF ExecuteReversal
<1>8. StrategyInv(logic, ExecuteAggressive(b, action, accepted), macd)
  BY <1>7 DEF ExecuteAggressive
<1>9. StrategyInv(logic, ExecuteLongOnly(b, action, accepted), macd)
  BY <1>3, <1>4, <1>5 DEF ExecuteLongOnly
<1> QED BY <1>1, <1>2, <1>7, <1>8, <1>9

-----------------------------------------------------------------------------
(* CautiousMacd: its entries, its break-even and the position it notices.   *)

\* Changing one order leaves the others alone.
LEMMA ChangeOne ==
  ASSUME NEW b \in Seq(DeskOrder), NEW i \in DOMAIN b, NEW r \in DeskOrder
  PROVE  /\ [b EXCEPT ![i] = r] \in Seq(DeskOrder) /\ DOMAIN [b EXCEPT ![i] = r] = DOMAIN b
         /\ \A j \in DOMAIN b : [b EXCEPT ![i] = r][j] = IF j = i THEN r ELSE b[j]
         /\ Len([b EXCEPT ![i] = r]) = Len(b)
  OBVIOUS

\* Asking to close an order changes its close and nothing else.
LEMMA CloseIs ==
  ASSUME NEW b \in Seq(DeskOrder), NEW i \in DOMAIN b, NEW how \in {"all", "part"}
  PROVE  \E r \in DeskOrder :
           /\ [b EXCEPT ![i].close = how] = [b EXCEPT ![i] = r]
           /\ r.st = b[i].st /\ r.kind = b[i].kind /\ r.dir = b[i].dir /\ r.sl = b[i].sl /\ r.op = b[i].op /\ r.to = b[i].to
           /\ r.price = b[i].price /\ r.close = how
<1>1. b[i] \in DeskOrder
  OBVIOUS
<1>2. PICK r : r = [b[i] EXCEPT !.close = how]
  OBVIOUS
<1>3. /\ r \in DeskOrder
      /\ r.st = b[i].st /\ r.kind = b[i].kind /\ r.dir = b[i].dir /\ r.sl = b[i].sl /\ r.op = b[i].op /\ r.to = b[i].to
      /\ r.price = b[i].price /\ r.close = how
  BY <1>1, <1>2 DEF DeskOrder
<1> QED BY <1>2, <1>3

\* Asking to cancel an order marks the cancel and nothing else.
LEMMA CancelIs ==
  ASSUME NEW b \in Seq(DeskOrder), NEW i \in DOMAIN b
  PROVE  \E r \in DeskOrder :
           /\ CancelOrder(b, i) = [b EXCEPT ![i] = r]
           /\ r.st = b[i].st /\ r.kind = b[i].kind /\ r.dir = b[i].dir /\ r.sl = b[i].sl /\ r.op = "cancel"
           /\ r.close = b[i].close
<1>1. b[i] \in DeskOrder
  OBVIOUS
<1>2. PICK r : r = [b[i] EXCEPT !.op = "cancel"]
  OBVIOUS
<1>3. /\ r \in DeskOrder
      /\ r.st = b[i].st /\ r.kind = b[i].kind /\ r.dir = b[i].dir /\ r.sl = b[i].sl /\ r.op = "cancel"
      /\ r.close = b[i].close
  BY <1>1, <1>2 DEF DeskOrder
<1> QED BY <1>2, <1>3 DEF CancelOrder

\* Asking to modify an order notes the new levels: the stop stays until the
\* answer.
LEMMA ModifyIs ==
  ASSUME NEW b \in Seq(DeskOrder), NEW i \in DOMAIN b, NEW price \in Int, NEW sl \in Int
  PROVE  \E r \in DeskOrder :
           /\ Modify(b, i, price, sl) = [b EXCEPT ![i] = r]
           /\ r.st = b[i].st /\ r.kind = b[i].kind /\ r.dir = b[i].dir /\ r.sl = b[i].sl /\ r.op = "modify"
           /\ r.to[2] = sl /\ r.close = b[i].close
<1>1. b[i] \in DeskOrder
  OBVIOUS
<1>0. PICK z \in Int \X Int : z = <<price, sl>>
  <2>1. <<price, sl>> \in Int \X Int
    OBVIOUS
  <2> QED BY <2>1
<1>2. PICK r : r = [b[i] EXCEPT !.op = "modify", !.to = z]
  OBVIOUS
<1>3. /\ r \in DeskOrder
      /\ r.st = b[i].st /\ r.kind = b[i].kind /\ r.dir = b[i].dir /\ r.sl = b[i].sl /\ r.op = "modify"
      /\ r.to = z /\ r.close = b[i].close
  BY <1>1, <1>2 DEF DeskOrder
<1>4. Modify(b, i, price, sl) = [b EXCEPT ![i] = r]
  BY <1>0, <1>2 DEF Modify
<1>5. r.to[2] = sl
  BY <1>0, <1>3
<1> QED BY <1>3, <1>4, <1>5

\* The exposure after a change of one order that keeps its state and kind.
LEMMA ChangeExposure ==
  ASSUME NEW l, NEW b \in Seq(DeskOrder), NEW i \in DOMAIN b, NEW r \in DeskOrder, r.st = b[i].st, r.kind = b[i].kind,
         Alone(l, b), OwnKinds(l, b)
  PROVE  Alone(l, [b EXCEPT ![i] = r]) /\ OwnKinds(l, [b EXCEPT ![i] = r])
<1>1. PICK c : c = [b EXCEPT ![i] = r]
  OBVIOUS
<1>2. DOMAIN c = DOMAIN b /\ \A j \in DOMAIN b : c[j] = IF j = i THEN r ELSE b[j]
  BY <1>1, ChangeOne
<1>3. \A j \in DOMAIN b : c[j].st = b[j].st /\ c[j].kind = b[j].kind
  BY <1>2
<1> QED BY <1>1, <1>2, <1>3, SameExposure

\* CautiousMacd forgets the break-even when the position it sees is another
\* one.
LEMMA NoticeIs ==
  ASSUME NEW m \in Macd, NEW i \in Nat
  PROVE  /\ NoticePosition(m, i) \in Macd /\ NoticePosition(m, i).pos = i
         /\ NoticePosition(m, i).even => m.even /\ m.pos = i
<1>1. CASE m.pos = i
  BY <1>1 DEF NoticePosition
<1>2. CASE m.pos # i
  <2>1. NoticePosition(m, i) = [m EXCEPT !.pos = i, !.stop = 0, !.dir = "none", !.even = FALSE]
    BY <1>2 DEF NoticePosition
  <2>2. PICK n : n = [m EXCEPT !.pos = i, !.stop = 0, !.dir = "none", !.even = FALSE]
    OBVIOUS
  <2>3. n \in Macd /\ n.pos = i /\ ~n.even
    BY <2>2 DEF Macd
  <2> QED BY <2>1, <2>2, <2>3
<1> QED BY <1>1, <1>2

\* The fields of what CautiousMacd remembers, one at a time.
LEMMA EvenField ==
  ASSUME NEW m \in Macd
  PROVE  /\ [m EXCEPT !.even = TRUE] \in Macd /\ [m EXCEPT !.even = TRUE].pos = m.pos
         /\ [m EXCEPT !.pos = 0, !.even = FALSE] \in Macd /\ ~[m EXCEPT !.pos = 0, !.even = FALSE].even
         /\ [m EXCEPT !.stop = 0, !.dir = "none"] \in Macd
         /\ [m EXCEPT !.stop = 0, !.dir = "none"].pos = m.pos /\ [m EXCEPT !.stop = 0, !.dir = "none"].even = m.even
         /\ \A h \in Int : /\ [m EXCEPT !.prev = h] \in Macd /\ [m EXCEPT !.prev = h].pos = m.pos
                           /\ [m EXCEPT !.prev = h].even = m.even
         /\ \A n \in Nat, d \in {"LONG", "SHORT"} :
              /\ [m EXCEPT !.stop = n, !.dir = d] \in Macd /\ [m EXCEPT !.stop = n, !.dir = d].pos = m.pos
              /\ [m EXCEPT !.stop = n, !.dir = d].even = m.even
  BY DEF Macd

\* Moving the stop to the entry: the break-even is remembered of this
\* position.
LEMMA BreakEvenKeeps ==
  ASSUME NEW l \in {"STOP", "STOP_LIMIT"}, NEW b, NEW m, StrategyInv(l, b, m), NEW i \in OpenPositions(b), m.pos = i,
         NEW profit \in BOOLEAN
  PROVE  \E c, n : BreakEven(b, m, i, profit) = <<c, n>> /\ StrategyInv(l, c, n) /\ DOMAIN c = DOMAIN b
<1>0. /\ b \in Seq(DeskOrder) /\ m \in Macd
      /\ Alone(l, b) /\ OwnKinds(l, b) /\ EvenOnly(l, b) /\ EvenKept(b, m)
  BY DEF StrategyInv
<1>1. i \in DOMAIN b /\ b[i].st = "open"
  BY LiveIs
<1>2. CASE ~m.even /\ profit /\ b[i].op = "none"
  <2>1. PICK r \in DeskOrder :
           /\ Modify(b, i, 0, 1) = [b EXCEPT ![i] = r]
           /\ r.st = b[i].st /\ r.kind = b[i].kind /\ r.dir = b[i].dir /\ r.sl = b[i].sl /\ r.op = "modify"
           /\ r.to[2] = 1 /\ r.close = b[i].close
    <3>1. PICK x \in Int, y \in Int : x = 0 /\ y = 1
      OBVIOUS
    <3>2. \E r \in DeskOrder :
           /\ Modify(b, i, x, y) = [b EXCEPT ![i] = r]
           /\ r.st = b[i].st /\ r.kind = b[i].kind /\ r.dir = b[i].dir /\ r.sl = b[i].sl /\ r.op = "modify"
           /\ r.to[2] = y /\ r.close = b[i].close
      BY <1>0, <1>1, ModifyIs
    <3> QED BY <3>1, <3>2
  <2>2. PICK c : c = [b EXCEPT ![i] = r]
    OBVIOUS
  <2>3. c \in Seq(DeskOrder) /\ DOMAIN c = DOMAIN b /\ \A j \in DOMAIN b : c[j] = IF j = i THEN r ELSE b[j]
    BY <2>2, <1>0, <1>1, ChangeOne
  <2>4. Alone(l, c) /\ OwnKinds(l, c)
    BY <2>1, <2>2, <1>0, <1>1, ChangeExposure
  <2>5. EvenOnly(l, c)
    BY <1>0, <2>1, <2>3 DEF EvenOnly
  <2>6. PICK n : n = [m EXCEPT !.even = TRUE]
    OBVIOUS
  <2>7. n \in Macd /\ n.pos = i
    BY <2>6, <1>0, EvenField
  <2>8. EvenKept(c, n)
    BY <2>1, <2>3, <2>7, <1>1 DEF EvenKept, AtEntry
  <2>9. StrategyInv(l, c, n)
    BY <2>3, <2>4, <2>5, <2>7, <2>8 DEF StrategyInv
  <2>10. BreakEven(b, m, i, profit) = <<c, n>>
    BY <1>2, <2>1, <2>2, <2>6 DEF BreakEven
  <2> QED BY <2>3, <2>9, <2>10
<1>3. CASE ~(~m.even /\ profit /\ b[i].op = "none")
  <2>1. BreakEven(b, m, i, profit) = <<b, m>>
    BY <1>3 DEF BreakEven
  <2> QED BY <2>1
<1> QED BY <1>2, <1>3

\* Noticing a position keeps the invariant.
LEMMA NoticeKeeps ==
  ASSUME NEW l \in {"STOP", "STOP_LIMIT"}, NEW b, NEW m, StrategyInv(l, b, m), NEW i \in Nat
  PROVE  StrategyInv(l, b, NoticePosition(m, i))
<1>1. PICK n : n = NoticePosition(m, i)
  OBVIOUS
<1>2. n \in Macd /\ (n.even => m.even /\ m.pos = i) /\ n.pos = i
  BY <1>1, NoticeIs DEF StrategyInv
<1>3. EvenKept(b, n)
  BY <1>2 DEF EvenKept, StrategyInv
<1> QED BY <1>1, <1>2, <1>3 DEF StrategyInv

\* The tick of CautiousMacd with a position open.
LEMMA InPositionKeeps ==
  ASSUME NEW l \in {"STOP", "STOP_LIMIT"}, NEW b, NEW m, StrategyInv(l, b, m), OpenPositions(b) # {},
         NEW action, NEW profit \in BOOLEAN
  PROVE  \E c, n : InPosition(b, m, action, profit) = <<c, n>> /\ StrategyInv(l, c, n)
<1>0. b \in Seq(DeskOrder) /\ m \in Macd
  BY DEF StrategyInv
<1>1. PICK i : i = First(OpenPositions(b))
  OBVIOUS
<1>2. i \in OpenPositions(b) /\ i \in DOMAIN b /\ i \in Nat
  <2>1. i \in OpenPositions(b) /\ i \in DOMAIN b
    BY <1>0, <1>1, FirstOpen
  <2> QED BY <2>1, <1>0
<1>3. PICK k : k = NoticePosition(m, i)
  OBVIOUS
<1>4. StrategyInv(l, b, k) /\ k.pos = i
  BY <1>0, <1>2, <1>3, NoticeKeeps, NoticeIs
<1>5. PICK c, n : BreakEven(b, k, i, profit) = <<c, n>> /\ StrategyInv(l, c, n) /\ DOMAIN c = DOMAIN b
  BY <1>2, <1>4, BreakEvenKeeps
<1>6. CASE ~(action # "FLAT" /\ b[i].dir # DirectionOf(action))
  <2>1. InPosition(b, m, action, profit) = <<c, n>>
    BY <1>1, <1>3, <1>5, <1>6 DEF InPosition
  <2> QED BY <2>1, <1>5
<1>7. CASE action # "FLAT" /\ b[i].dir # DirectionOf(action)
  <2>0. /\ c \in Seq(DeskOrder) /\ n \in Macd /\ Alone(l, c) /\ OwnKinds(l, c) /\ EvenOnly(l, c)
    BY <1>5 DEF StrategyInv
  <2>1. InPosition(b, m, action, profit) = <<ClosePosition(c, i), [n EXCEPT !.pos = 0, !.even = FALSE]>>
    BY <1>1, <1>3, <1>5, <1>7 DEF InPosition
  <2>2. PICK r \in DeskOrder :
          /\ ClosePosition(c, i) = [c EXCEPT ![i] = r]
          /\ r.st = c[i].st /\ r.kind = c[i].kind /\ r.op = c[i].op /\ r.to = c[i].to
    <3>1. PICK how \in {"all", "part"} : how = "all"
      OBVIOUS
    <3>2. PICK r \in DeskOrder :
           /\ [c EXCEPT ![i].close = how] = [c EXCEPT ![i] = r]
           /\ r.st = c[i].st /\ r.kind = c[i].kind /\ r.dir = c[i].dir /\ r.sl = c[i].sl /\ r.op = c[i].op /\ r.to = c[i].to
           /\ r.price = c[i].price /\ r.close = how
      <4>1. i \in DOMAIN c
        BY <1>2, <1>5
      <4> QED BY <2>0, <4>1, CloseIs, ZenonT(60)
    <3>3. ClosePosition(c, i) = [c EXCEPT ![i].close = how]
      BY <3>1 DEF ClosePosition
    <3> QED BY <3>2, <3>3
  <2>3. PICK d : d = [c EXCEPT ![i] = r]
    OBVIOUS
  <2>4. d \in Seq(DeskOrder) /\ DOMAIN d = DOMAIN c /\ \A j \in DOMAIN c : d[j] = IF j = i THEN r ELSE c[j]
    BY <2>3, <2>0, <1>2, <1>5, ChangeOne
  <2>5. Alone(l, d) /\ OwnKinds(l, d)
    BY <2>2, <2>3, <2>0, <1>2, <1>5, ChangeExposure
  <2>6. EvenOnly(l, d)
    BY <2>0, <2>2, <2>4 DEF EvenOnly
  <2>7. PICK q : q = [n EXCEPT !.pos = 0, !.even = FALSE]
    OBVIOUS
  <2>8. q \in Macd /\ ~q.even
    BY <2>0, <2>7, EvenField
  <2>9. StrategyInv(l, d, q)
    BY <2>4, <2>5, <2>6, <2>8 DEF StrategyInv, EvenKept
  <2> QED BY <2>1, <2>2, <2>3, <2>7, <2>9
<1> QED BY <1>6, <1>7

\* The tick of CautiousMacd with a stop entry resting.
LEMMA PendingKeeps ==
  ASSUME NEW l \in {"STOP", "STOP_LIMIT"}, NEW b, NEW m, StrategyInv(l, b, m), NEW action
  PROVE  \E c, n : PendingEntry(b, m, action) = <<c, n>> /\ StrategyInv(l, c, n)
<1>0. /\ b \in Seq(DeskOrder) /\ m \in Macd /\ Alone(l, b) /\ OwnKinds(l, b) /\ EvenOnly(l, b) /\ EvenKept(b, m)
  BY DEF StrategyInv
<1>1. CASE ~(m.stop # 0 /\ action # "FLAT" /\ m.dir # "none" /\ DirectionOf(action) # m.dir)
  <2>1. PendingEntry(b, m, action) = <<b, m>>
    BY <1>1 DEF PendingEntry
  <2> QED BY <2>1
<1>2. CASE m.stop # 0 /\ action # "FLAT" /\ m.dir # "none" /\ DirectionOf(action) # m.dir
  <2>1. PICK n : n = [m EXCEPT !.stop = 0, !.dir = "none"]
    OBVIOUS
  <2>2. n \in Macd /\ n.pos = m.pos /\ n.even = m.even
    BY <1>0, <2>1, EvenField
  <2>3. CASE m.stop \notin ActiveStops(b)
    <3>1. EvenKept(b, n)
      BY <1>0, <2>2 DEF EvenKept
    <3>2. StrategyInv(l, b, n)
      BY <1>0, <2>2, <3>1 DEF StrategyInv
    <3>3. PendingEntry(b, m, action) = <<b, n>>
      BY <1>2, <2>1, <2>3 DEF PendingEntry
    <3> QED BY <3>2, <3>3
  <2>4. CASE m.stop \in ActiveStops(b)
    <3>0. PICK i : i = m.stop /\ i \in DOMAIN b /\ b[i].st = "active"
      BY <2>4, LiveIs DEF ActiveStops
    <3>1. PICK r \in DeskOrder :
            CancelOrder(b, i) = [b EXCEPT ![i] = r] /\ r.st = b[i].st /\ r.kind = b[i].kind /\ r.op = "cancel"
      BY <1>0, <3>0, CancelIs
    <3>2. PICK c : c = [b EXCEPT ![i] = r]
      OBVIOUS
    <3>3. c \in Seq(DeskOrder) /\ DOMAIN c = DOMAIN b /\ \A j \in DOMAIN b : c[j] = IF j = i THEN r ELSE b[j]
      BY <3>2, <1>0, <3>0, ChangeOne
    <3>4. Alone(l, c) /\ OwnKinds(l, c)
      BY <3>1, <3>2, <1>0, <3>0, ChangeExposure
    <3>5. EvenOnly(l, c)
      BY <1>0, <3>1, <3>3 DEF EvenOnly
    <3>6. EvenKept(c, n)
      BY <1>0, <2>2, <3>0, <3>3 DEF EvenKept
    <3>7. StrategyInv(l, c, n)
      BY <3>3, <3>4, <3>5, <3>6, <2>2 DEF StrategyInv
    <3>8. PendingEntry(b, m, action) = <<c, n>>
      BY <1>2, <2>1, <2>4, <3>0, <3>1, <3>2 DEF PendingEntry
    <3> QED BY <3>7, <3>8
  <2> QED BY <2>3, <2>4
<1> QED BY <1>1, <1>2

\* The tick of CautiousMacd with nothing open and nothing resting: the
\* entry it may send.
LEMMA FlatKeeps ==
  ASSUME logic \in {"STOP", "STOP_LIMIT"}, NEW b, NEW m, StrategyInv(logic, b, m), NEW action, NEW accepted \in BOOLEAN,
         OpenPositions(b) = {}, ~HasPipelineOrders(b), ActiveStops(b) = {}
  PROVE  \E c, n : Flat(b, m, action, accepted) = <<c, n>> /\ StrategyInv(logic, c, n)
<1>0. /\ b \in Seq(DeskOrder) /\ m \in Macd /\ Alone(logic, b) /\ OwnKinds(logic, b) /\ EvenOnly(logic, b) /\ EvenKept(b, m)
  BY DEF StrategyInv
<1>1. CASE action = "FLAT" \/ ~accepted \/ Len(b) >= MaxDeskOrders
  <2>1. Flat(b, m, action, accepted) = <<b, m>>
    BY <1>1 DEF Flat
  <2> QED BY <2>1
<1>2. CASE ~(action = "FLAT" \/ ~accepted \/ Len(b) >= MaxDeskOrders)
  <2>1. \A i \in Live(b) : logic = "STOP_LIMIT" /\ b[i].kind = "LIMIT"
    <3> SUFFICES ASSUME NEW i \in Live(b) PROVE logic = "STOP_LIMIT" /\ b[i].kind = "LIMIT"
      OBVIOUS
    <3>1. i \in DOMAIN b /\ b[i].st \in {"queue", "active", "open"}
      BY LiveIs
    <3>2. b[i].st = "active" /\ i \in ActiveOrders(b)
      BY <3>1, LiveIs DEF HasPipelineOrders
    <3>3. b[i].kind = "LIMIT"
      BY <3>2 DEF ActiveStops
    <3> QED BY <3>3, <1>0 DEF OwnKinds
  <2>2. PICK dir \in {"LONG", "SHORT"} : dir = DirectionOf(action)
    BY DEF DirectionOf
  <2>3. PICK o \in DeskOrder : o = NewOrder(logic, dir, 0, 0) /\ o.st = "queue" /\ o.kind = logic /\ o.op = "none"
    BY NewOrderTyped DEF Kinds
  <2>4. PICK c : c = Append(b, o)
    OBVIOUS
  <2>5. /\ c \in Seq(DeskOrder) /\ Alone(logic, c) /\ OwnKinds(logic, c)
        /\ DOMAIN c = 1 .. (Len(b) + 1) /\ Len(b) \in Nat /\ DOMAIN b = 1 .. Len(b)
        /\ \A i \in 1 .. Len(b) : c[i] = b[i]
        /\ c[Len(b) + 1] = o
    BY <1>0, <2>1, <2>3, <2>4, SendOne
  <2>6. PICK n : n = [m EXCEPT !.stop = Len(b) + 1, !.dir = dir]
    OBVIOUS
  <2>7. n \in Macd /\ n.pos = m.pos /\ n.even = m.even
    <3>1. PICK k \in Nat : k = Len(b) + 1
      BY <2>5
    <3>2. PICK w \in {"LONG", "SHORT"} : w = dir
      OBVIOUS
    <3>3. n = [m EXCEPT !.stop = k, !.dir = w]
      BY <2>6, <3>1, <3>2
    <3>4. m \in Macd
      BY <1>0
    <3> QED BY <3>3, <3>4, EvenField, ZenonT(60)
  <2>8. \A i \in DOMAIN c : c[i] = o \/ (i \in DOMAIN b /\ c[i] = b[i])
    BY <2>5
  <2>9. EvenOnly(logic, c)
    BY <1>0, <2>3, <2>8 DEF EvenOnly
  <2>10. EvenKept(c, n)
    BY <1>0, <2>5, <2>7 DEF EvenKept
  <2>11. StrategyInv(logic, c, n)
    BY <2>5, <2>7, <2>9, <2>10 DEF StrategyInv
  <2>12. Flat(b, m, action, accepted) = <<c, n>>
    BY <1>2, <2>2, <2>3, <2>4, <2>6 DEF Flat, Send
  <2> QED BY <2>11, <2>12
<1> QED BY <1>1, <1>2

\* A tick of CautiousMacd keeps its invariant.
LEMMA MacdTickKeeps ==
  ASSUME StrategyInv(logic, book, macd), MacdTick
  PROVE  StrategyInv(logic, book', macd') /\ logic' = logic
<1>0. logic \in {"STOP", "STOP_LIMIT"} /\ logic' = logic
  BY DEF MacdTick
<1>1. PICK b \in AfterTick :
        \E after \in {ExecuteMacd(b, [macd EXCEPT !.prev = s[1]], s[2], profit, accepted) :
                        s \in MacdSignals, profit \in BOOLEAN, accepted \in BOOLEAN} :
            book' = after[1] /\ macd' = after[2]
  BY DEF MacdTick
<1>10. PICK s, profit, accepted, after :
         /\ s \in MacdSignals /\ profit \in BOOLEAN /\ accepted \in BOOLEAN
         /\ after = ExecuteMacd(b, [macd EXCEPT !.prev = s[1]], s[2], profit, accepted)
         /\ book' = after[1] /\ macd' = after[2]
  BY <1>1
<1>11. PICK histogram \in Int : \E action : s = <<histogram, action>>
  BY <1>10 DEF MacdSignals
<1>12. PICK action : s = <<histogram, action>>
  BY <1>11
<1>13. s[1] = histogram /\ s[2] = action
  BY <1>12
<1>14. profit \in BOOLEAN /\ accepted \in BOOLEAN
  BY <1>10
<1>2. /\ after = ExecuteMacd(b, [macd EXCEPT !.prev = histogram], action, profit, accepted)
      /\ book' = after[1] /\ macd' = after[2]
  BY <1>10, <1>13
<1>3. PICK m : m = [macd EXCEPT !.prev = histogram]
  OBVIOUS
<1>4. m \in Macd /\ m.pos = macd.pos /\ m.even = macd.even
  <2>1. macd \in Macd /\ histogram \in Int
    BY DEF StrategyInv
  <2> QED BY <2>1, <1>3, EvenField
<1>5. StrategyInv(logic, b, macd)
  BY TickKeepsStrategy
<1>6. StrategyInv(logic, b, m)
  BY <1>4, <1>5 DEF StrategyInv, EvenKept
<1>7. \E c, n : ExecuteMacd(b, m, action, profit, accepted) = <<c, n>> /\ StrategyInv(logic, c, n)
  <2>1. CASE OpenPositions(b) # {}
    <3>1. \E c, n : InPosition(b, m, action, profit) = <<c, n>> /\ StrategyInv(logic, c, n)
      BY <1>0, <1>6, <1>14, <2>1, InPositionKeeps
    <3> QED BY <3>1, <2>1 DEF ExecuteMacd
  <2>2. CASE OpenPositions(b) = {} /\ HasPipelineOrders(b)
    <3>1. ExecuteMacd(b, m, action, profit, accepted) = <<b, m>>
      BY <2>2 DEF ExecuteMacd
    <3> QED BY <3>1, <1>6
  <2>3. CASE OpenPositions(b) = {} /\ ~HasPipelineOrders(b) /\ ActiveStops(b) # {}
    <3>1. \E c, n : PendingEntry(b, m, action) = <<c, n>> /\ StrategyInv(logic, c, n)
      BY <1>0, <1>6, PendingKeeps
    <3> QED BY <3>1, <2>3 DEF ExecuteMacd
  <2>4. CASE OpenPositions(b) = {} /\ ~HasPipelineOrders(b) /\ ActiveStops(b) = {}
    <3>1. \E c, n : Flat(b, m, action, accepted) = <<c, n>> /\ StrategyInv(logic, c, n)
      BY <1>0, <1>6, <1>14, <2>4, FlatKeeps
    <3> QED BY <3>1, <2>4 DEF ExecuteMacd
  <2> QED BY <2>1, <2>2, <2>3, <2>4
<1>8. PICK c, n : ExecuteMacd(b, m, action, profit, accepted) = <<c, n>> /\ StrategyInv(logic, c, n)
  BY <1>7
<1>9. book' = c /\ macd' = n
  <2>1. after = ExecuteMacd(b, m, action, profit, accepted)
    BY <1>2, <1>3
  <2>2. after = <<c, n>>
    BY <2>1, <1>8
  <2> QED BY <2>2, <1>2
<1> QED BY <1>0, <1>8, <1>9

-----------------------------------------------------------------------------
(* The trend-channel logic: the stop of a position only ratchets.           *)

\* The channel a worker hands to the trend logic.
Chan == [gate : {"up", "down", "neutral"}, lower : Int, upper : Int]
\* What it notes of a working entry.
Noted == [dir : {"LONG", "SHORT"}, price : Int, sl : Int]

\* x is at least as far as y, in the direction of the trade.
Ahead(d, x, y) == IF d = "LONG" THEN x >= y ELSE y >= x

\* A change of the stop of a position that is on its way ratchets it.
Ratchets(b) ==
  \A i \in DOMAIN b : b[i].st = "open" /\ b[i].op = "modify" => Ahead(b[i].dir, b[i].to[2], b[i].sl)

\* An entry that works is noted, or its cancel is on its way.
Tracked(b, q) == \A i \in DOMAIN b : b[i].st \in {"queue", "active"} => b[i].op = "cancel" \/ "cancel" \in b[i].refused \/ i \in DOMAIN q

\* What the trend-channel logic keeps true.
TrendInv(b, r, q) ==
  /\ b \in Seq(DeskOrder) /\ Ratchets(b) /\ Tracked(b, q)
  /\ r \in [DOMAIN r -> Int]
  /\ q \in [DOMAIN q -> Noted] /\ DOMAIN q \subseteq Nat

\* The decisions of a tick move no stop themselves.
Keeps(b, c) ==
  /\ DOMAIN b \subseteq DOMAIN c
  /\ \A i \in DOMAIN b : c[i].st = b[i].st /\ c[i].dir = b[i].dir /\ c[i].sl = b[i].sl

\* The sign of a direction, and what is ahead in it.
LEMMA SignIs ==
  ASSUME NEW d, NEW x \in Int, NEW y \in Int
  PROVE  /\ Sign(d) * (x - y) >= 0 <=> Ahead(d, x, y)
         /\ Sign(d) * (x - y) > 0 => Ahead(d, x, y)
         /\ Sign(d) * x \in Int /\ Sign(d) \in Int
<1>1. CASE d = "LONG"
  <2>1. Sign(d) = 1
    BY <1>1 DEF Sign
  <2>2. 1 * (x - y) = x - y /\ 1 * x = x
    OBVIOUS
  <2> QED BY <1>1, <2>1, <2>2 DEF Ahead
<1>2. CASE d # "LONG"
  <2>1. Sign(d) = -1
    BY <1>2 DEF Sign
  <2>2. (-1) * (x - y) = y - x /\ (-1) * x = -x
    OBVIOUS
  <2> QED BY <1>2, <2>1, <2>2 DEF Ahead
<1> QED BY <1>1, <1>2

\* The prices computed from a channel are numbers.
LEMMA GeometryTyped ==
  ASSUME NEW c \in Chan, NEW dir
  PROVE  Half(c) \in Int /\ EntryPrice(c, dir) \in Int /\ EntryStop(c, dir) \in Int
<1>1. c.upper \in Int /\ c.lower \in Int
  BY DEF Chan
<1>2. Half(c) \in Int
  BY <1>1 DEF Half
<1>3. EntryPrice(c, dir) \in Int
  BY <1>1 DEF EntryPrice
<1>4. Sign(dir) * Half(c) \in Int
  BY <1>2, SignIs
<1> QED BY <1>2, <1>3, <1>4 DEF EntryStop

\* The risk of an entry is a number.
LEMMA DistanceTyped ==
  ASSUME NEW x \in Int, NEW y \in Int
  PROVE  Distance(x, y) \in Int
  BY DEF Distance

\* The tick itself: a stop that is moved was on its way there.
LEMMA TickRatchets ==
  ASSUME NEW r, NEW q, TrendInv(book, r, q), NEW b \in AfterTick
  PROVE  /\ TrendInv(b, r, q) /\ DOMAIN b = DOMAIN book
         /\ \A i \in DOMAIN book : book[i].st = "open" /\ b[i].st = "open" =>
              Ahead(book[i].dir, b[i].sl, book[i].sl) /\ b[i].dir = book[i].dir
<1>0. book \in Seq(DeskOrder) /\ Ratchets(book) /\ Tracked(book, q)
  BY DEF TrendInv
<1>1. /\ b \in Seq(DeskOrder) /\ DOMAIN b = DOMAIN book
      /\ \A i \in DOMAIN book : Became(book[i], b[i])
  BY <1>0, AfterTickIs
<1>2. \A i \in DOMAIN book : book[i] \in DeskOrder /\ b[i] \in DeskOrder
  BY <1>0, <1>1
<1>3. \A i \in DOMAIN book : book[i].sl \in Int /\ b[i].sl \in Int
  BY <1>2 DEF DeskOrder
<1>4. ASSUME NEW i \in DOMAIN book, b[i].st = "open", b[i].op = "modify"
      PROVE  Ahead(b[i].dir, b[i].to[2], b[i].sl)
  <2>1. book[i].st = "open" /\ b[i].dir = book[i].dir
    BY <1>1, <1>4 DEF Became
  <2>2. book[i].op = "modify" /\ b[i].to = book[i].to /\ b[i].sl = book[i].sl
    BY <1>1, <1>4, <2>1 DEF Became
  <2> QED BY <1>0, <2>1, <2>2 DEF Ratchets
<1>5. ASSUME NEW i \in DOMAIN book, b[i].st \in {"queue", "active"}
      PROVE  b[i].op = "cancel" \/ "cancel" \in b[i].refused \/ i \in DOMAIN q
  <2>1. book[i].st \in {"queue", "active"} /\ book[i].refused \subseteq b[i].refused
    BY <1>1, <1>5 DEF Became
  <2>2. /\ Became(book[i], b[i]) /\ book[i].op \in {"none", "cancel", "modify"}
        /\ b[i].st # "gone"
    BY <1>1, <1>2, <1>5 DEF DeskOrder
  <2>3. book[i].op = "cancel" => b[i].op = "cancel" \/ "cancel" \in b[i].refused
    BY <2>1, <2>2, <1>5 DEF Became
  <2>4. book[i].op = "cancel" \/ "cancel" \in book[i].refused \/ i \in DOMAIN q
    BY <1>0, <2>1 DEF Tracked
  <2> QED BY <2>1, <2>3, <2>4
<1>6. ASSUME NEW i \in DOMAIN book, book[i].st = "open", b[i].st = "open"
      PROVE  Ahead(book[i].dir, b[i].sl, book[i].sl) /\ b[i].dir = book[i].dir
  <2>1. b[i].dir = book[i].dir /\ (b[i].sl = book[i].sl \/ (book[i].op = "modify" /\ b[i].sl = book[i].to[2]))
    BY <1>1, <1>6 DEF Became
  <2>2. CASE b[i].sl = book[i].sl
    BY <1>3, <2>1, <2>2 DEF Ahead
  <2>3. CASE book[i].op = "modify" /\ b[i].sl = book[i].to[2]
    BY <1>0, <1>6, <2>1, <2>3 DEF Ratchets
  <2> QED BY <2>1, <2>2, <2>3
<1>7. Ratchets(b)
  BY <1>1, <1>4 DEF Ratchets
<1>8. Tracked(b, q)
  BY <1>1, <1>5 DEF Tracked
<1>9. TrendInv(b, r, q)
  BY <1>1, <1>7, <1>8 DEF TrendInv
<1> QED BY <1>1, <1>6, <1>9

\* What trailing makes of one position.
LEMMA TrailKeeps ==
  ASSUME NEW c \in Chan, NEW b \in Seq(DeskOrder), NEW i \in DOMAIN b, NEW r, r[i] \in Int, NEW mid \in Int,
         b[i].st = "open", b[i].op = "modify" => Ahead(b[i].dir, b[i].to[2], b[i].sl)
  PROVE  LET o == MaybeTrail(c, b, r, i, mid)[i] IN
         /\ o \in DeskOrder /\ o.st = b[i].st /\ o.dir = b[i].dir /\ o.sl = b[i].sl
         /\ o.op = "modify" => Ahead(o.dir, o.to[2], o.sl)
<1>0. b[i] \in DeskOrder
  OBVIOUS
<1>1. b[i].sl \in Int /\ b[i].price \in Int
  BY <1>0 DEF DeskOrder
<1>2. PICK x : x = IF r[i] # 0 THEN r[i] ELSE Half(c)
  OBVIOUS
<1>3. x \in Int
  BY <1>2, GeometryTyped
<1>4. PICK sl : sl = mid - Sign(b[i].dir) * x
  OBVIOUS
<1>5. sl \in Int
  BY <1>3, <1>4, SignIs
<1>6. CASE ~(b[i].op = "none" /\ x > 0 /\ Sign(b[i].dir) * (sl - b[i].sl) > 0)
  <2>1. MaybeTrail(c, b, r, i, mid) = b
    BY <1>2, <1>4, <1>6 DEF MaybeTrail
  <2> QED BY <1>0, <2>1
<1>7. CASE b[i].op = "none" /\ x > 0 /\ Sign(b[i].dir) * (sl - b[i].sl) > 0
  <2>1. MaybeTrail(c, b, r, i, mid) = Modify(b, i, b[i].price, sl)
    BY <1>2, <1>4, <1>7 DEF MaybeTrail
  <2>2. PICK p \in Int : p = b[i].price
    BY <1>1
  <2>3. PICK o \in DeskOrder :
           /\ Modify(b, i, p, sl) = [b EXCEPT ![i] = o]
           /\ o.st = b[i].st /\ o.kind = b[i].kind /\ o.dir = b[i].dir /\ o.sl = b[i].sl /\ o.op = "modify"
           /\ o.to[2] = sl /\ o.close = b[i].close
    BY <1>5, ModifyIs
  <2>4. MaybeTrail(c, b, r, i, mid)[i] = o
    BY <2>1, <2>2, <2>3, ChangeOne
  <2>5. Ahead(b[i].dir, sl, b[i].sl)
    BY <1>1, <1>5, <1>7, SignIs
  <2> QED BY <2>3, <2>4, <2>5
<1> QED BY <1>6, <1>7

\* What the management of one position makes of it: partial close, exit or
\* trail.
LEMMA PositionKeeps ==
  ASSUME NEW c \in Chan, NEW b \in Seq(DeskOrder), NEW i \in DOMAIN b, NEW r, r[i] \in Int, NEW mid \in Int,
         b[i].st = "open", b[i].op = "modify" => Ahead(b[i].dir, b[i].to[2], b[i].sl)
  PROVE  LET o == ManagePosition(c, b, r, i, mid)[i] IN
         /\ o \in DeskOrder /\ o.st = b[i].st /\ o.dir = b[i].dir /\ o.sl = b[i].sl
         /\ o.op = "modify" => Ahead(o.dir, o.to[2], o.sl)
<1>0. b[i] \in DeskOrder
  OBVIOUS
<1>1. CASE b[i].close # "no"
  BY <1>0, <1>1 DEF ManagePosition
<1>2. CASE b[i].close = "no" /\ ~WantsPartial(b, r, i, mid)
  <2>1. ManagePosition(c, b, r, i, mid) = MaybeTrail(c, b, r, i, mid)
    BY <1>2 DEF ManagePosition
  <2> QED BY <2>1, TrailKeeps
<1>3. CASE b[i].close = "no" /\ WantsPartial(b, r, i, mid)
  <2>1. PICK how \in {"all", "part"} : how = "part"
    OBVIOUS
  <2>2. PICK o \in DeskOrder :
           /\ [b EXCEPT ![i].close = how] = [b EXCEPT ![i] = o]
           /\ o.st = b[i].st /\ o.kind = b[i].kind /\ o.dir = b[i].dir /\ o.sl = b[i].sl /\ o.op = b[i].op /\ o.to = b[i].to
           /\ o.price = b[i].price /\ o.close = how
    BY CloseIs, ZenonT(60)
  <2>3. PICK d : d = [b EXCEPT ![i] = o]
    OBVIOUS
  <2>4. d \in Seq(DeskOrder) /\ DOMAIN d = DOMAIN b /\ d[i] = o
    BY <2>3, ChangeOne
  <2>5. ManagePosition(c, b, r, i, mid) = MaybeTrail(c, d, r, i, mid)
    BY <1>3, <2>1, <2>2, <2>3 DEF ManagePosition
  <2>6. /\ i \in DOMAIN d /\ d[i].st = "open"
        /\ d[i].op = "modify" => Ahead(d[i].dir, d[i].to[2], d[i].sl)
    BY <2>2, <2>4
  <2>7. LET u == MaybeTrail(c, d, r, i, mid)[i] IN
         /\ u \in DeskOrder /\ u.st = d[i].st /\ u.dir = d[i].dir /\ u.sl = d[i].sl
         /\ u.op = "modify" => Ahead(u.dir, u.to[2], u.sl)
    BY <2>4, <2>6, TrailKeeps
  <2> QED BY <2>2, <2>4, <2>5, <2>7
<1> QED BY <1>1, <1>2, <1>3

\* Managing every position keeps the invariant, and moves no stop itself.
LEMMA ManageKeeps ==
  ASSUME NEW c \in Chan, NEW b, NEW q, TrendInv(b, risk, q), NEW mid \in Int
  PROVE  LET s == ManageOpenPositions(c, b, mid) IN
         TrendInv(s.book, s.risk, q) /\ Keeps(b, s.book)
<1>0. /\ b \in Seq(DeskOrder) /\ Ratchets(b) /\ Tracked(b, q) /\ risk \in [DOMAIN risk -> Int]
      /\ q \in [DOMAIN q -> Noted] /\ DOMAIN q \subseteq Nat
  BY DEF TrendInv
<1>1. \A i \in DOMAIN b : b[i] \in DeskOrder
  BY <1>0
<1>2. PICK r : r = [i \in DOMAIN risk \cup OpenPositions(b) |->
                IF i \in DOMAIN risk THEN risk[i] ELSE Distance(b[i].price, b[i].sl)]
  OBVIOUS
<1>3. DOMAIN r = DOMAIN risk \cup OpenPositions(b) /\ \A i \in DOMAIN r : r[i] \in Int
  <2>1. DOMAIN r = DOMAIN risk \cup OpenPositions(b)
    BY <1>2
  <2>2. ASSUME NEW i \in DOMAIN r PROVE r[i] \in Int
    <3>1. CASE i \in DOMAIN risk
      BY <1>0, <1>2, <2>1, <3>1
    <3>2. CASE i \notin DOMAIN risk
      <4>1. i \in DOMAIN b
        BY <2>1, <2>2, <3>2, LiveIs
      <4>2. b[i].price \in Int /\ b[i].sl \in Int
        BY <1>1, <4>1 DEF DeskOrder
      <4>3. r[i] = Distance(b[i].price, b[i].sl)
        BY <1>2, <2>1, <2>2, <3>2
      <4> QED BY <4>2, <4>3, DistanceTyped
    <3> QED BY <3>1, <3>2
  <2> QED BY <2>1, <2>2
<1>4. r \in [DOMAIN r -> Int]
  BY <1>2, <1>3
<1>5. PICK d : d = [i \in DOMAIN b |-> IF i \in OpenPositions(b) THEN ManagePosition(c, b, r, i, mid)[i] ELSE b[i]]
  OBVIOUS
<1>6. ASSUME NEW i \in DOMAIN b
      PROVE  /\ d[i] \in DeskOrder /\ d[i].st = b[i].st /\ d[i].dir = b[i].dir /\ d[i].sl = b[i].sl
             /\ d[i].st = "open" /\ d[i].op = "modify" => Ahead(d[i].dir, d[i].to[2], d[i].sl)
             /\ d[i].st # "open" => d[i] = b[i]
  <2>1. CASE i \in OpenPositions(b)
    <3>1. b[i].st = "open" /\ r[i] \in Int /\ (b[i].op = "modify" => Ahead(b[i].dir, b[i].to[2], b[i].sl))
      BY <1>0, <1>3, <2>1, LiveIs DEF Ratchets
    <3>2. PICK o : o = ManagePosition(c, b, r, i, mid)[i]
      OBVIOUS
    <3>3. LET u == ManagePosition(c, b, r, i, mid)[i] IN
         /\ u \in DeskOrder /\ u.st = b[i].st /\ u.dir = b[i].dir /\ u.sl = b[i].sl
         /\ u.op = "modify" => Ahead(u.dir, u.to[2], u.sl)
      BY <1>0, <3>1, PositionKeeps
    <3>4. d[i] = o
      BY <1>5, <2>1, <3>2
    <3> QED BY <3>1, <3>2, <3>3, <3>4
  <2>2. CASE i \notin OpenPositions(b)
    <3>1. d[i] = b[i] /\ b[i].st # "open"
      BY <1>5, <2>2, LiveIs
    <3> QED BY <1>1, <3>1
  <2> QED BY <2>1, <2>2
<1>7. d \in Seq(DeskOrder) /\ DOMAIN d = DOMAIN b
  <2>1. DOMAIN b = 1 .. Len(b) /\ Len(b) \in Nat /\ DOMAIN d = DOMAIN b
    BY <1>0, <1>5
  <2>2. d \in [1 .. Len(b) -> DeskOrder]
    BY <1>5, <1>6, <2>1
  <2> QED BY <2>1, <2>2
<1>8. Ratchets(d)
  BY <1>6, <1>7 DEF Ratchets
<1>9. Tracked(d, q)
  <2> SUFFICES ASSUME NEW i \in DOMAIN d, d[i].st \in {"queue", "active"}
               PROVE  d[i].op = "cancel" \/ "cancel" \in d[i].refused \/ i \in DOMAIN q
    BY DEF Tracked
  <2>1. i \in DOMAIN b /\ d[i] = b[i]
    BY <1>6, <1>7
  <2> QED BY <1>0, <2>1 DEF Tracked
<1>10. TrendInv(d, r, q)
  BY <1>0, <1>4, <1>7, <1>8, <1>9 DEF TrendInv
<1>11. Keeps(b, d)
  BY <1>6, <1>7 DEF Keeps
<1>12. ManageOpenPositions(c, b, mid).book = d /\ ManageOpenPositions(c, b, mid).risk = r
  BY <1>2, <1>5 DEF ManageOpenPositions
<1> QED BY <1>10, <1>11, <1>12

-----------------------------------------------------------------------------
(* The trend-channel logic: a working entry is tracked until it is gone.    *)

\* The state one pass of the trend logic hands to the next.
Pass(b, r, q) == [book |-> b, risk |-> r, resting |-> q]

\* Forgetting one entry forgets no other.
LEMMA DropIs ==
  ASSUME NEW S, NEW f, f \in [DOMAIN f -> S], DOMAIN f \subseteq Nat, NEW i
  PROVE  /\ Drop(f, {i}) \in [DOMAIN Drop(f, {i}) -> S] /\ DOMAIN Drop(f, {i}) = DOMAIN f \ {i}
         /\ DOMAIN Drop(f, {i}) \subseteq Nat
  BY DEF Drop

\* Noting one entry keeps the notes of the others.
LEMMA SetIs ==
  ASSUME NEW S, NEW f, f \in [DOMAIN f -> S], NEW i, NEW v \in S
  PROVE  /\ Set(f, i, v) \in [DOMAIN Set(f, i, v) -> S] /\ DOMAIN Set(f, i, v) = DOMAIN f \cup {i}
  BY DEF Set

\* Passes that move no stop compose.
LEMMA KeepsTransitive ==
  ASSUME NEW b, NEW c, NEW d, Keeps(b, c), Keeps(c, d)
  PROVE  Keeps(b, d)
<1>1. DOMAIN b \subseteq DOMAIN c /\ DOMAIN c \subseteq DOMAIN d
  BY DEF Keeps
<1>2. ASSUME NEW i \in DOMAIN b PROVE d[i].st = b[i].st /\ d[i].dir = b[i].dir /\ d[i].sl = b[i].sl
  <2>1. i \in DOMAIN c
    BY <1>1
  <2>2. c[i].st = b[i].st /\ c[i].dir = b[i].dir /\ c[i].sl = b[i].sl
    BY DEF Keeps
  <2>3. d[i].st = c[i].st /\ d[i].dir = c[i].dir /\ d[i].sl = c[i].sl
    BY <2>1 DEF Keeps
  <2> QED BY <2>2, <2>3
<1> QED BY <1>1, <1>2 DEF Keeps

\* The entry that is open now.
LEMMA EntryOpened ==
  ASSUME NEW b, NEW r, NEW q, TrendInv(b, r, q), NEW i \in DOMAIN q, i \in OpenPositions(b)
  PROVE  TrendInv(b, Set(r, i, Distance(b[i].price, q[i].sl)), Drop(q, {i}))
<1>0. /\ b \in Seq(DeskOrder) /\ Ratchets(b) /\ Tracked(b, q) /\ r \in [DOMAIN r -> Int]
      /\ q \in [DOMAIN q -> Noted] /\ DOMAIN q \subseteq Nat
  BY DEF TrendInv
<1>1. i \in DOMAIN b /\ b[i].st = "open"
  BY LiveIs
<1>2. b[i] \in DeskOrder /\ q[i] \in Noted
  BY <1>0, <1>1
<1>3. PICK x \in Int : x = Distance(b[i].price, q[i].sl)
  <2>1. b[i].price \in Int /\ q[i].sl \in Int
    BY <1>2 DEF DeskOrder, Noted
  <2> QED BY <2>1, DistanceTyped
<1>4. PICK p : p = Drop(q, {i})
  OBVIOUS
<1>5. p \in [DOMAIN p -> Noted] /\ DOMAIN p = DOMAIN q \ {i} /\ DOMAIN p \subseteq Nat
  BY <1>0, <1>4, DropIs
<1>6. Tracked(b, p)
  BY <1>0, <1>1, <1>5 DEF Tracked
<1>7. PICK s : s = Set(r, i, x)
  OBVIOUS
<1>8. s \in [DOMAIN s -> Int]
  BY <1>0, <1>7, SetIs
<1>9. TrendInv(b, s, p)
  BY <1>0, <1>5, <1>6, <1>8 DEF TrendInv
<1> QED BY <1>3, <1>4, <1>7, <1>9

\* An entry that is cancelled is forgotten with its cancel on the way.
LEMMA EntryCancelled ==
  ASSUME NEW b, NEW r, NEW q, TrendInv(b, r, q), NEW i \in DOMAIN q, i \in ActiveOrders(b)
  PROVE  TrendInv(CancelOrder(b, i), r, Drop(q, {i})) /\ Keeps(b, CancelOrder(b, i))
<1>0. /\ b \in Seq(DeskOrder) /\ Ratchets(b) /\ Tracked(b, q) /\ r \in [DOMAIN r -> Int]
      /\ q \in [DOMAIN q -> Noted] /\ DOMAIN q \subseteq Nat
  BY DEF TrendInv
<1>1. i \in DOMAIN b /\ b[i].st = "active"
  BY LiveIs
<1>2. PICK o \in DeskOrder :
           /\ CancelOrder(b, i) = [b EXCEPT ![i] = o]
           /\ o.st = b[i].st /\ o.kind = b[i].kind /\ o.dir = b[i].dir /\ o.sl = b[i].sl /\ o.op = "cancel"
           /\ o.close = b[i].close
  BY <1>0, <1>1, CancelIs
<1>3. PICK c : c = [b EXCEPT ![i] = o]
  OBVIOUS
<1>4. c \in Seq(DeskOrder) /\ DOMAIN c = DOMAIN b /\ \A j \in DOMAIN b : c[j] = IF j = i THEN o ELSE b[j]
  BY <1>0, <1>1, <1>3, ChangeOne
<1>5. PICK p : p = Drop(q, {i})
  OBVIOUS
<1>6. p \in [DOMAIN p -> Noted] /\ DOMAIN p = DOMAIN q \ {i} /\ DOMAIN p \subseteq Nat
  BY <1>0, <1>5, DropIs
<1>7. Ratchets(c)
  BY <1>0, <1>1, <1>2, <1>4 DEF Ratchets
<1>8. Tracked(c, p)
  BY <1>0, <1>2, <1>4, <1>6 DEF Tracked
<1>9. Keeps(b, c)
  BY <1>2, <1>4 DEF Keeps
<1>10. TrendInv(c, r, p)
  BY <1>0, <1>4, <1>6, <1>7, <1>8 DEF TrendInv
<1> QED BY <1>2, <1>3, <1>5, <1>9, <1>10

\* An entry that is repriced stays noted, with its new price and stop.
LEMMA EntryRepriced ==
  ASSUME NEW b, NEW r, NEW q, TrendInv(b, r, q), NEW i \in DOMAIN q, i \in ActiveOrders(b),
         NEW price \in Int, NEW sl \in Int
  PROVE  /\ TrendInv(Modify(b, i, price, sl), r, [q EXCEPT ![i].price = price, ![i].sl = sl])
         /\ Keeps(b, Modify(b, i, price, sl))
<1>0. /\ b \in Seq(DeskOrder) /\ Ratchets(b) /\ Tracked(b, q) /\ r \in [DOMAIN r -> Int]
      /\ q \in [DOMAIN q -> Noted] /\ DOMAIN q \subseteq Nat
  BY DEF TrendInv
<1>1. i \in DOMAIN b /\ b[i].st = "active"
  BY LiveIs
<1>2. PICK o \in DeskOrder :
           /\ Modify(b, i, price, sl) = [b EXCEPT ![i] = o]
           /\ o.st = b[i].st /\ o.kind = b[i].kind /\ o.dir = b[i].dir /\ o.sl = b[i].sl /\ o.op = "modify"
           /\ o.to[2] = sl /\ o.close = b[i].close
  BY <1>0, <1>1, ModifyIs
<1>3. PICK c : c = [b EXCEPT ![i] = o]
  OBVIOUS
<1>4. c \in Seq(DeskOrder) /\ DOMAIN c = DOMAIN b /\ \A j \in DOMAIN b : c[j] = IF j = i THEN o ELSE b[j]
  BY <1>0, <1>1, <1>3, ChangeOne
<1>5. PICK v : v = [q[i] EXCEPT !.price = price, !.sl = sl]
  OBVIOUS
<1>6. v \in Noted
  <2>1. q[i] \in Noted
    BY <1>0
  <2> QED BY <1>5, <2>1 DEF Noted
<1>7. PICK p : p = [q EXCEPT ![i] = v]
  OBVIOUS
<1>8. p \in [DOMAIN p -> Noted] /\ DOMAIN p = DOMAIN q /\ DOMAIN p \subseteq Nat
  BY <1>0, <1>6, <1>7
<1>9. p = [q EXCEPT ![i].price = price, ![i].sl = sl]
  BY <1>5, <1>7
<1>10. Ratchets(c)
  BY <1>0, <1>1, <1>2, <1>4 DEF Ratchets
<1>11. Tracked(c, p)
  BY <1>0, <1>2, <1>4, <1>8 DEF Tracked
<1>12. Keeps(b, c)
  BY <1>2, <1>4 DEF Keeps
<1>13. TrendInv(c, r, p)
  BY <1>0, <1>4, <1>8, <1>10, <1>11 DEF TrendInv
<1> QED BY <1>2, <1>3, <1>9, <1>12, <1>13

\* Doing nothing moves no stop.
LEMMA KeepsItself ==
  ASSUME NEW b
  PROVE  Keeps(b, b)
  BY DEF Keeps

\* Dropping an entry on a turned gate keeps the invariant.
LEMMA CancelEntryKeeps ==
  ASSUME NEW b, NEW r, NEW q, TrendInv(b, r, q), NEW i \in DOMAIN q
  PROVE  \E d, u, p : CancelEntry(Pass(b, r, q), i) = Pass(d, u, p) /\ TrendInv(d, u, p) /\ Keeps(b, d)
<1>1. PICK s : s = Pass(b, r, q)
  OBVIOUS
<1>2. s = [book |-> b, risk |-> r, resting |-> q] /\ s.book = b /\ s.risk = r /\ s.resting = q
  BY <1>1 DEF Pass
<1>3. CASE ~(i \in ActiveOrders(b) /\ b[i].op = "none")
  <2>1. CancelEntry(s, i) = s
    BY <1>2, <1>3 DEF CancelEntry
  <2> QED BY <1>1, <2>1, KeepsItself
<1>4. CASE i \in ActiveOrders(b) /\ b[i].op = "none"
  <2>1. CancelEntry(s, i) = [s EXCEPT !.book = CancelOrder(b, i), !.resting = Drop(q, {i})]
    BY <1>2, <1>4 DEF CancelEntry
  <2>2. PICK d, p : d = CancelOrder(b, i) /\ p = Drop(q, {i})
    OBVIOUS
  <2>3. CancelEntry(s, i) = Pass(d, r, p)
    BY <1>2, <2>1, <2>2 DEF Pass
  <2>4. TrendInv(d, r, p) /\ Keeps(b, d)
    BY <1>4, <2>2, EntryCancelled
  <2> QED BY <1>1, <2>3, <2>4
<1> QED BY <1>3, <1>4

\* Repricing an entry after the channel moved keeps the invariant.
LEMMA RepriceKeeps ==
  ASSUME NEW c \in Chan, NEW b, NEW r, NEW q, TrendInv(b, r, q), NEW i \in DOMAIN q, i \in ActiveOrders(b), NEW mid \in Int
  PROVE  \E d, u, p : MaybeReprice(c, Pass(b, r, q), i, mid) = Pass(d, u, p) /\ TrendInv(d, u, p) /\ Keeps(b, d)
<1>1. PICK s : s = Pass(b, r, q)
  OBVIOUS
<1>2. s = [book |-> b, risk |-> r, resting |-> q] /\ s.book = b /\ s.risk = r /\ s.resting = q
  BY <1>1 DEF Pass
<1>3. PICK to \in Int, sl \in Int : to = EntryPrice(c, q[i].dir) /\ sl = EntryStop(c, q[i].dir)
  BY GeometryTyped
<1>4. PICK d, p : d = Modify(b, i, to, sl) /\ p = [q EXCEPT ![i].price = to, ![i].sl = sl]
  OBVIOUS
<1>5. MaybeReprice(c, s, i, mid) = s \/
      MaybeReprice(c, s, i, mid) = [s EXCEPT !.book = Modify(@, i, to, sl), !.resting[i].price = to, !.resting[i].sl = sl]
  BY <1>2, <1>3 DEF MaybeReprice
<1>6. [s EXCEPT !.book = Modify(@, i, to, sl), !.resting[i].price = to, !.resting[i].sl = sl] = Pass(d, r, p)
  <2>1. PICK s1, s2, s3, x1, x2 :
          /\ x1 = [q EXCEPT ![i].price = to] /\ x2 = [x1 EXCEPT ![i].sl = sl]
          /\ s1 = [book |-> d, risk |-> r, resting |-> q]
          /\ s2 = [book |-> d, risk |-> r, resting |-> x1]
          /\ s3 = [book |-> d, risk |-> r, resting |-> x2]
    OBVIOUS
  <2>2. [s EXCEPT !.book = Modify(@, i, to, sl)] = s1
    BY <1>2, <1>4, <2>1
  <2>3. [s1 EXCEPT !.resting[i].price = to] = s2
    BY <2>1
  <2>4. [s2 EXCEPT !.resting[i].sl = sl] = s3
    BY <2>1
  <2>5. x2 = p
    BY <1>4, <2>1
  <2>6. [s EXCEPT !.book = Modify(@, i, to, sl), !.resting[i].price = to, !.resting[i].sl = sl] = s3
    BY <2>2, <2>3, <2>4
  <2> QED BY <2>1, <2>5, <2>6 DEF Pass
<1>7. TrendInv(d, r, p) /\ Keeps(b, d)
  BY <1>4, EntryRepriced
<1> QED BY <1>1, <1>5, <1>6, <1>7, KeepsItself

\* The pass over the working entry: opened, gone, cancelled or repriced.
LEMMA RestingKeeps ==
  ASSUME NEW c \in Chan, NEW b, NEW r, NEW q, TrendInv(b, r, q), NEW mid \in Int
  PROVE  \E d, u, p : ManageRestingEntries(c, Pass(b, r, q), mid) = Pass(d, u, p) /\ TrendInv(d, u, p) /\ Keeps(b, d)
<1>1. PICK s : s = Pass(b, r, q)
  OBVIOUS
<1>2. s = [book |-> b, risk |-> r, resting |-> q] /\ s.book = b /\ s.risk = r /\ s.resting = q
  BY <1>1 DEF Pass
<1>3. CASE DOMAIN q = {}
  <2>1. ManageRestingEntries(c, s, mid) = s
    BY <1>2, <1>3 DEF ManageRestingEntries
  <2> QED BY <1>1, <2>1, KeepsItself
<1>4. CASE DOMAIN q # {}
  <2>1. PICK i : i = First(DOMAIN q)
    OBVIOUS
  <2>2. i \in DOMAIN q
    <3>1. DOMAIN q \in SUBSET Nat
      BY DEF TrendInv
    <3> QED BY <1>4, <2>1, <3>1, FirstIsMember
  <2>3. ManageRestingEntries(c, s, mid) = ManageRestingEntry(c, s, i, mid)
    BY <1>2, <1>4, <2>1 DEF ManageRestingEntries
  <2>4. CASE i \in OpenPositions(b)
    <3>1. PICK u, p : u = Set(r, i, Distance(b[i].price, q[i].sl)) /\ p = Drop(q, {i})
      OBVIOUS
    <3>2. ManageRestingEntry(c, s, i, mid) = [s EXCEPT !.risk = Set(r, i, Distance(b[i].price, q[i].sl)), !.resting = Drop(q, {i})]
      BY <1>2, <2>4 DEF ManageRestingEntry
    <3>3. ManageRestingEntry(c, s, i, mid) = Pass(b, u, p)
      BY <1>2, <3>1, <3>2 DEF Pass
    <3>4. TrendInv(b, u, p)
      BY <2>2, <2>4, <3>1, EntryOpened
    <3> QED BY <1>1, <2>3, <3>3, <3>4, KeepsItself
  <2>5. CASE i \notin OpenPositions(b) /\ GateFlippedAgainst(c, q[i].dir)
    <3>1. ManageRestingEntry(c, s, i, mid) = CancelEntry(s, i)
      BY <1>2, <2>5 DEF ManageRestingEntry
    <3> QED BY <1>1, <2>2, <2>3, <3>1, CancelEntryKeeps
  <2>6. CASE i \notin OpenPositions(b) /\ ~GateFlippedAgainst(c, q[i].dir) /\ i \in ActiveOrders(b)
    <3>1. ManageRestingEntry(c, s, i, mid) = MaybeReprice(c, s, i, mid)
      BY <1>2, <2>6 DEF ManageRestingEntry
    <3>2. \E d, u, p : MaybeReprice(c, Pass(b, r, q), i, mid) = Pass(d, u, p) /\ TrendInv(d, u, p) /\ Keeps(b, d)
      BY <2>2, <2>6, RepriceKeeps
    <3> QED BY <1>1, <2>3, <3>1, <3>2
  <2>7. CASE i \notin OpenPositions(b) /\ ~GateFlippedAgainst(c, q[i].dir) /\ i \notin ActiveOrders(b)
    <3>1. ManageRestingEntry(c, s, i, mid) = s
      BY <1>2, <2>7 DEF ManageRestingEntry
    <3> QED BY <1>1, <2>3, <3>1, KeepsItself
  <2> QED BY <2>4, <2>5, <2>6, <2>7
<1> QED BY <1>3, <1>4

\* An entry that is sent is noted, one that is refused is not.
LEMMA TryOpenKeeps ==
  ASSUME NEW c \in Chan, NEW b, NEW r, NEW q, TrendInv(b, r, q), mode \in {"LIMIT", "STOP"}, NEW accepted \in BOOLEAN
  PROVE  \E d, u, p : TryOpenEntry(c, Pass(b, r, q), accepted) = Pass(d, u, p) /\ TrendInv(d, u, p) /\ Keeps(b, d)
<1>0. /\ b \in Seq(DeskOrder) /\ Ratchets(b) /\ Tracked(b, q) /\ r \in [DOMAIN r -> Int]
      /\ q \in [DOMAIN q -> Noted] /\ DOMAIN q \subseteq Nat
  BY DEF TrendInv
<1>1. PICK s : s = Pass(b, r, q)
  OBVIOUS
<1>2. s = [book |-> b, risk |-> r, resting |-> q] /\ s.book = b /\ s.risk = r /\ s.resting = q
  BY <1>1 DEF Pass
<1>3. PICK dir \in {"LONG", "SHORT"} : dir = Side(c)
  BY DEF Side
<1>4. PICK price \in Int, sl \in Int : price = EntryPrice(c, dir) /\ sl = EntryStop(c, dir)
  BY GeometryTyped
<1>5. PICK new \in Noted : new = [dir |-> dir, price |-> price, sl |-> sl]
  BY DEF Noted
<1>5a. new.dir = dir /\ new.price = price /\ new.sl = sl
  BY <1>5
<1>6. PICK o \in DeskOrder : o = NewOrder(mode, dir, price, sl) /\ o.st = "queue" /\ o.op = "none"
  <2>1. PICK kind \in Kinds : kind = mode
    BY DEF Kinds
  <2>2. LET o == NewOrder(kind, dir, price, sl) IN
         /\ o \in DeskOrder /\ o.st = "queue" /\ o.kind = kind /\ o.dir = dir /\ o.close = "no" /\ o.op = "none"
         /\ o.sl = sl /\ o.price = price
    BY NewOrderTyped
  <2> QED BY <2>1, <2>2
<1>7. PICK d, p, n : n = Len(b) + 1 /\ d = Append(b, o) /\ p = Set(q, n, new)
  OBVIOUS
<1>8. TryOpenEntry(c, s, accepted) = s \/
      TryOpenEntry(c, s, accepted) = [s EXCEPT !.book = Append(b, o), !.resting = Set(q, Len(b) + 1, new)]
  BY <1>2, <1>3, <1>4, <1>5, <1>6 DEF TryOpenEntry, Send
<1>9. [s EXCEPT !.book = Append(b, o), !.resting = Set(q, Len(b) + 1, new)] = Pass(d, r, p)
  <2>2. PICK s1 : s1 = [book |-> d, risk |-> r, resting |-> q]
    OBVIOUS
  <2>3. [s EXCEPT !.book = d] = s1
    BY <1>2, <2>2
  <2>4. [s1 EXCEPT !.resting = p] = Pass(d, r, p)
    BY <2>2 DEF Pass
  <2>1. [s EXCEPT !.book = d, !.resting = p] = Pass(d, r, p)
    BY <2>3, <2>4
  <2> QED BY <1>7, <2>1
<1>10. /\ d \in Seq(DeskOrder) /\ Len(b) \in Nat /\ DOMAIN b = 1 .. Len(b) /\ DOMAIN d = 1 .. (Len(b) + 1)
       /\ \A i \in 1 .. Len(b) : d[i] = b[i]
       /\ d[Len(b) + 1] = o
  BY <1>0, <1>7
<1>11. p \in [DOMAIN p -> Noted] /\ DOMAIN p = DOMAIN q \cup {Len(b) + 1}
  <2>1. p \in [DOMAIN p -> Noted] /\ DOMAIN p = DOMAIN q \cup {n}
    BY <1>0, <1>7 DEF Set
  <2> QED BY <1>7, <2>1
<1>12. DOMAIN p \subseteq Nat
  BY <1>0, <1>10, <1>11
<1>13. \A i \in DOMAIN d : (i = Len(b) + 1 /\ d[i] = o) \/ (i \in DOMAIN b /\ d[i] = b[i])
  BY <1>10
<1>14. Ratchets(d)
  BY <1>0, <1>6, <1>13 DEF Ratchets
<1>15. Tracked(d, p)
  BY <1>0, <1>11, <1>13 DEF Tracked
<1>16. Keeps(b, d)
  BY <1>10 DEF Keeps
<1>17. TrendInv(d, r, p)
  BY <1>0, <1>10, <1>11, <1>12, <1>14, <1>15 DEF TrendInv
<1> QED BY <1>1, <1>8, <1>9, <1>16, <1>17, KeepsItself

\* A tick of the trend-channel logic keeps its invariant, and its stops
\* only ratchet.
LEMMA TrendTickKeeps ==
  ASSUME TrendInv(book, risk, resting), mode \in {"LIMIT", "STOP"}, channel \in Chan, TrendTick
  PROVE  /\ TrendInv(book', risk', resting') /\ channel' \in Chan /\ mode' = mode /\ logic' = logic
         /\ StopRatchets
<1>1. PICK b \in AfterTick, mid \in Mids, c \in Channels \cup {channel} :
        \E managed \in {ManageOpenPositions(c, b, mid)} :
        \E s \in {ManageRestingEntries(c, [book |-> managed.book, risk |-> managed.risk,
                                         resting |-> resting], mid)} :
        \E end \in IF Armed(c, mid) THEN {TryOpenEntry(c, s, accepted) : accepted \in BOOLEAN} ELSE {s} :
           /\ book' = end.book /\ resting' = end.resting
           /\ risk' = end.risk /\ partial' = managed.partial
           /\ channel' = c /\ UNCHANGED <<logic, mode>>
  BY DEF TrendTick
<1>2. mid \in Int /\ c \in Chan
  BY TrendAssumption DEF Chan
<1>3. PICK managed : managed = ManageOpenPositions(c, b, mid)
  OBVIOUS
<1>4. PICK s, end :
        /\ s = ManageRestingEntries(c, [book |-> managed.book, risk |-> managed.risk, resting |-> resting], mid)
        /\ end = s \/ \E accepted \in BOOLEAN : end = TryOpenEntry(c, s, accepted)
        /\ book' = end.book /\ resting' = end.resting /\ risk' = end.risk
        /\ channel' = c /\ mode' = mode /\ logic' = logic
  BY <1>1, <1>3
<1>5. /\ TrendInv(b, risk, resting) /\ DOMAIN b = DOMAIN book
      /\ \A i \in DOMAIN book : book[i].st = "open" /\ b[i].st = "open" =>
              Ahead(book[i].dir, b[i].sl, book[i].sl) /\ b[i].dir = book[i].dir
  BY TickRatchets
<1>6. TrendInv(managed.book, managed.risk, resting) /\ Keeps(b, managed.book)
  BY <1>2, <1>3, <1>5, ManageKeeps
<1>7. PICK mb, mr : mb = managed.book /\ mr = managed.risk
  OBVIOUS
<1>8. s = ManageRestingEntries(c, Pass(mb, mr, resting), mid)
  BY <1>4, <1>7 DEF Pass
<1>9. PICK d, u, p : s = Pass(d, u, p) /\ TrendInv(d, u, p) /\ Keeps(mb, d)
  BY <1>2, <1>6, <1>7, <1>8, RestingKeeps
<1>10. PICK e, v, w : end = Pass(e, v, w) /\ TrendInv(e, v, w) /\ Keeps(d, e)
  <2>1. CASE end = s
    BY <1>9, <2>1, KeepsItself
  <2>2. ASSUME NEW accepted \in BOOLEAN, end = TryOpenEntry(c, s, accepted)
        PROVE  \E e, v, w : end = Pass(e, v, w) /\ TrendInv(e, v, w) /\ Keeps(d, e)
    <3>1. \E e, v, w : TryOpenEntry(c, Pass(d, u, p), accepted) = Pass(e, v, w) /\ TrendInv(e, v, w) /\ Keeps(d, e)
      BY <1>2, <1>9, TryOpenKeeps
    <3> QED BY <1>9, <2>2, <3>1
  <2> QED BY <1>4, <2>1, <2>2
<1>11. book' = e /\ risk' = v /\ resting' = w
  BY <1>4, <1>10 DEF Pass
<1>12. Keeps(b, e)
  BY <1>6, <1>7, <1>9, <1>10, KeepsTransitive
<1>13. ASSUME NEW i \in OpenPositions(book), book'[i].st = "open"
       PROVE  Sign(book[i].dir) * (book'[i].sl - book[i].sl) >= 0
  <2>1. i \in DOMAIN book /\ book[i].st = "open" /\ i \in DOMAIN b
    BY <1>5, LiveIs
  <2>2. e[i].st = b[i].st /\ e[i].sl = b[i].sl
    BY <1>12, <2>1 DEF Keeps
  <2>3. Ahead(book[i].dir, e[i].sl, book[i].sl)
    BY <1>5, <1>11, <1>13, <2>1, <2>2
  <2>4. book[i] \in DeskOrder /\ e[i] \in DeskOrder
    <3>1. book \in Seq(DeskOrder) /\ e \in Seq(DeskOrder) /\ i \in DOMAIN e
      BY <1>10, <1>12, <2>1 DEF TrendInv, Keeps
    <3> QED BY <2>1, <3>1
  <2>5. book[i].sl \in Int /\ e[i].sl \in Int
    BY <2>4 DEF DeskOrder
  <2> QED BY <1>11, <2>3, <2>5, SignIs
<1>14. StopRatchets
  BY <1>13 DEF StopRatchets
<1> QED BY <1>2, <1>4, <1>10, <1>11, <1>14

-----------------------------------------------------------------------------
(* What a scripted logic remembers, one field at a time.                    *)

\* The fields a scripted logic remembers.
Shaped(p) ==
  p = [count |-> p.count, until |-> p.until, started |-> p.started, limit |-> p.limit, stop |-> p.stop,
       active |-> p.active, placed |-> p.placed, closed |-> p.closed, ended |-> p.ended, twice |-> p.twice,
       dropped |-> p.dropped]

\* Nothing changed that the properties look at.
Same(p, q) ==
  Shaped(q) /\ q.count = p.count /\ q.twice = p.twice /\ q.active = p.active /\ q.dropped = p.dropped

\* No close was asked for twice.
Clean(p) == p.twice = FALSE

\* The desk and the memory a scripted tick is computed over.
St(x, y) == [b |-> x, p |-> y]

\* Leaving what matters alone composes.
LEMMA SameIs ==
  /\ \A p : Shaped(p) => Same(p, p)
  /\ \A p, q, u : Same(p, q) /\ Same(q, u) => Same(p, u)
  BY DEF Same

\* Setting until changes nothing the properties look at.
LEMMA UntilIs ==
  ASSUME NEW p, Shaped(p), NEW x
  PROVE  Same(p, [p EXCEPT !.until = x])
<1>1. PICK q : q = [count |-> p.count, until |-> x, started |-> p.started, limit |-> p.limit, stop |-> p.stop,
       active |-> p.active, placed |-> p.placed, closed |-> p.closed, ended |-> p.ended, twice |-> p.twice,
       dropped |-> p.dropped]
  OBVIOUS
<1>2. [p EXCEPT !.until = x] = q
  BY <1>1 DEF Shaped
<1>3. Same(p, q)
  BY <1>1 DEF Same, Shaped
<1> QED BY <1>2, <1>3

\* Setting started changes nothing the properties look at.
LEMMA StartedIs ==
  ASSUME NEW p, Shaped(p), NEW x
  PROVE  Same(p, [p EXCEPT !.started = x])
<1>1. PICK q : q = [count |-> p.count, until |-> p.until, started |-> x, limit |-> p.limit, stop |-> p.stop,
       active |-> p.active, placed |-> p.placed, closed |-> p.closed, ended |-> p.ended, twice |-> p.twice,
       dropped |-> p.dropped]
  OBVIOUS
<1>2. [p EXCEPT !.started = x] = q
  BY <1>1 DEF Shaped
<1>3. Same(p, q)
  BY <1>1 DEF Same, Shaped
<1> QED BY <1>2, <1>3

\* Setting limit changes nothing the properties look at.
LEMMA LimitIs ==
  ASSUME NEW p, Shaped(p), NEW x
  PROVE  Same(p, [p EXCEPT !.limit = x])
<1>1. PICK q : q = [count |-> p.count, until |-> p.until, started |-> p.started, limit |-> x, stop |-> p.stop,
       active |-> p.active, placed |-> p.placed, closed |-> p.closed, ended |-> p.ended, twice |-> p.twice,
       dropped |-> p.dropped]
  OBVIOUS
<1>2. [p EXCEPT !.limit = x] = q
  BY <1>1 DEF Shaped
<1>3. Same(p, q)
  BY <1>1 DEF Same, Shaped
<1> QED BY <1>2, <1>3

\* Setting stop changes nothing the properties look at.
LEMMA StopIs ==
  ASSUME NEW p, Shaped(p), NEW x
  PROVE  Same(p, [p EXCEPT !.stop = x])
<1>1. PICK q : q = [count |-> p.count, until |-> p.until, started |-> p.started, limit |-> p.limit, stop |-> x,
       active |-> p.active, placed |-> p.placed, closed |-> p.closed, ended |-> p.ended, twice |-> p.twice,
       dropped |-> p.dropped]
  OBVIOUS
<1>2. [p EXCEPT !.stop = x] = q
  BY <1>1 DEF Shaped
<1>3. Same(p, q)
  BY <1>1 DEF Same, Shaped
<1> QED BY <1>2, <1>3

\* Setting placed changes nothing the properties look at.
LEMMA PlacedIs ==
  ASSUME NEW p, Shaped(p), NEW x
  PROVE  Same(p, [p EXCEPT !.placed = x])
<1>1. PICK q : q = [count |-> p.count, until |-> p.until, started |-> p.started, limit |-> p.limit, stop |-> p.stop,
       active |-> p.active, placed |-> x, closed |-> p.closed, ended |-> p.ended, twice |-> p.twice,
       dropped |-> p.dropped]
  OBVIOUS
<1>2. [p EXCEPT !.placed = x] = q
  BY <1>1 DEF Shaped
<1>3. Same(p, q)
  BY <1>1 DEF Same, Shaped
<1> QED BY <1>2, <1>3

\* Setting closed changes nothing the properties look at.
LEMMA ClosedIs ==
  ASSUME NEW p, Shaped(p), NEW x
  PROVE  Same(p, [p EXCEPT !.closed = x])
<1>1. PICK q : q = [count |-> p.count, until |-> p.until, started |-> p.started, limit |-> p.limit, stop |-> p.stop,
       active |-> p.active, placed |-> p.placed, closed |-> x, ended |-> p.ended, twice |-> p.twice,
       dropped |-> p.dropped]
  OBVIOUS
<1>2. [p EXCEPT !.closed = x] = q
  BY <1>1 DEF Shaped
<1>3. Same(p, q)
  BY <1>1 DEF Same, Shaped
<1> QED BY <1>2, <1>3

\* Setting ended changes nothing the properties look at.
LEMMA EndedIs ==
  ASSUME NEW p, Shaped(p), NEW x
  PROVE  Same(p, [p EXCEPT !.ended = x])
<1>1. PICK q : q = [count |-> p.count, until |-> p.until, started |-> p.started, limit |-> p.limit, stop |-> p.stop,
       active |-> p.active, placed |-> p.placed, closed |-> p.closed, ended |-> x, twice |-> p.twice,
       dropped |-> p.dropped]
  OBVIOUS
<1>2. [p EXCEPT !.ended = x] = q
  BY <1>1 DEF Shaped
<1>3. Same(p, q)
  BY <1>1 DEF Same, Shaped
<1> QED BY <1>2, <1>3

\* Counting a tick changes the count alone.
LEMMA CountIs ==
  ASSUME NEW p, Shaped(p), NEW x
  PROVE  LET q == [p EXCEPT !.count = x] IN
         Shaped(q) /\ q.count = x /\ q.twice = p.twice /\ q.active = p.active /\ q.dropped = p.dropped
<1>1. PICK q : q = [count |-> x, until |-> p.until, started |-> p.started, limit |-> p.limit, stop |-> p.stop,
       active |-> p.active, placed |-> p.placed, closed |-> p.closed, ended |-> p.ended, twice |-> p.twice,
       dropped |-> p.dropped]
  OBVIOUS
<1>2. [p EXCEPT !.count = x] = q
  BY <1>1 DEF Shaped
<1>3. Shaped(q) /\ q.count = x /\ q.twice = p.twice /\ q.active = p.active /\ q.dropped = p.dropped
  BY <1>1 DEF Shaped
<1> QED BY <1>2, <1>3

\* Noting or releasing a position changes active alone.
LEMMA ActiveIs ==
  ASSUME NEW p, Shaped(p), NEW x
  PROVE  LET q == [p EXCEPT !.active = x] IN
         Shaped(q) /\ q.count = p.count /\ q.twice = p.twice /\ q.active = x /\ q.dropped = p.dropped
<1>1. PICK q : q = [count |-> p.count, until |-> p.until, started |-> p.started, limit |-> p.limit, stop |-> p.stop,
       active |-> x, placed |-> p.placed, closed |-> p.closed, ended |-> p.ended, twice |-> p.twice,
       dropped |-> p.dropped]
  OBVIOUS
<1>2. [p EXCEPT !.active = x] = q
  BY <1>1 DEF Shaped
<1>3. Shaped(q) /\ q.count = p.count /\ q.twice = p.twice /\ q.active = x /\ q.dropped = p.dropped
  BY <1>1 DEF Shaped
<1> QED BY <1>2, <1>3

\* Letting go of a position changes dropped alone.
LEMMA DroppedIs ==
  ASSUME NEW p, Shaped(p), NEW x
  PROVE  LET q == [p EXCEPT !.dropped = x] IN
         Shaped(q) /\ q.count = p.count /\ q.twice = p.twice /\ q.active = p.active /\ q.dropped = x
<1>1. PICK q : q = [count |-> p.count, until |-> p.until, started |-> p.started, limit |-> p.limit, stop |-> p.stop,
       active |-> p.active, placed |-> p.placed, closed |-> p.closed, ended |-> p.ended, twice |-> p.twice,
       dropped |-> x]
  OBVIOUS
<1>2. [p EXCEPT !.dropped = x] = q
  BY <1>1 DEF Shaped
<1>3. Shaped(q) /\ q.count = p.count /\ q.twice = p.twice /\ q.active = p.active /\ q.dropped = x
  BY <1>1 DEF Shaped
<1> QED BY <1>2, <1>3

\* No close asked for twice: the memory stays as it is.
LEMMA TwiceIs ==
  ASSUME NEW p, Shaped(p), NEW x, x = p.twice
  PROVE  [p EXCEPT !.twice = x] = p
  BY DEF Shaped

\* The positions of S are open and nobody has asked to close them.
Closeable(b, S) == \A i \in S : i \in OpenPositions(b) /\ b[i].close = "no"
\* c is b with those closes asked for, all of a position or a part.
Asked(b, c, p, S, how) ==
  /\ c \in Seq(DeskOrder)
  /\ AskClose(St(b, p), S, how) = St(c, p) /\ DOMAIN c = DOMAIN b
  /\ \A i \in DOMAIN b : /\ c[i].st = b[i].st /\ c[i].kind = b[i].kind
                         /\ i \in S => c[i].close = how
                         /\ c[i].refused = b[i].refused
                         /\ i \notin S => c[i] = b[i]

\* Asking to close positions whose close nobody has asked for.
LEMMA AskCloses ==
  ASSUME NEW b \in Seq(DeskOrder), NEW p, Shaped(p), Clean(p), NEW S, NEW how \in {"all", "part"}, Closeable(b, S)
  PROVE  \E c : Asked(b, c, p, S, how)
<1>0. \A i \in S : i \in OpenPositions(b) /\ b[i].close = "no"
  BY DEF Closeable
<1>1. St(b, p).b = b /\ St(b, p).p = p
  BY DEF St
<1>2. PICK t : t = (p.twice \/ \E i \in S : b[i].close # "no")
  OBVIOUS
<1>3. t = p.twice
  BY <1>0, <1>2 DEF Clean
<1>4. [p EXCEPT !.twice = t] = p
  BY <1>3, TwiceIs
<1>5. [St(b, p).p EXCEPT !.twice = @ \/ \E i \in S : St(b, p).b[i].close # "no"] = p
  BY <1>1, <1>2, <1>4
<1>6. PICK c : c = [i \in DOMAIN b |-> IF i \in S THEN [b[i] EXCEPT !.close = how] ELSE b[i]]
  OBVIOUS
<1>7. AskClose(St(b, p), S, how) = St(c, p)
  <2>1. AskClose(St(b, p), S, how) =
          [b |-> [i \in DOMAIN St(b, p).b |-> IF i \in S THEN [St(b, p).b[i] EXCEPT !.close = how] ELSE St(b, p).b[i]],
           p |-> [St(b, p).p EXCEPT !.twice = @ \/ \E i \in S : St(b, p).b[i].close # "no"]]
    BY DEF AskClose
  <2>2. [i \in DOMAIN St(b, p).b |-> IF i \in S THEN [St(b, p).b[i] EXCEPT !.close = how] ELSE St(b, p).b[i]] = c
    BY <1>1, <1>6
  <2> QED BY <1>5, <2>1, <2>2 DEF St
<1>8. ASSUME NEW i \in DOMAIN b
      PROVE  /\ c[i] \in DeskOrder /\ c[i].st = b[i].st /\ c[i].kind = b[i].kind
             /\ i \in S => c[i].close = how
             /\ c[i].refused = b[i].refused
             /\ i \notin S => c[i] = b[i]
  <2>1. b[i] \in DeskOrder
    OBVIOUS
  <2>2. CASE i \notin S
    BY <1>6, <2>1, <2>2
  <2>3. CASE i \in S
    <3>1. PICK o : o = [b[i] EXCEPT !.close = how]
      OBVIOUS
    <3>2. o \in DeskOrder /\ o.st = b[i].st /\ o.kind = b[i].kind /\ o.close = how /\ o.refused = b[i].refused
      BY <2>1, <3>1 DEF DeskOrder
    <3>3. c[i] = o
      BY <1>6, <2>3, <3>1
    <3> QED BY <2>3, <3>2, <3>3
  <2> QED BY <2>2, <2>3
<1>9. DOMAIN b = 1 .. Len(b) /\ Len(b) \in Nat /\ DOMAIN c = DOMAIN b
  BY <1>6
<1>10. c \in [1 .. Len(b) -> DeskOrder]
  BY <1>6, <1>8, <1>9
<1>11. c \in Seq(DeskOrder)
  BY <1>9, <1>10
<1>12. Asked(b, c, p, S, how)
  BY <1>7, <1>8, <1>9, <1>11 DEF Asked
<1> QED BY <1>12

-----------------------------------------------------------------------------
(* The operations and the trades of a script.                               *)

\* The same orders, live and closing as before.
Exposed(b, c) ==
  /\ c \in Seq(DeskOrder) /\ DOMAIN c = DOMAIN b
  /\ \A i \in DOMAIN b : c[i].st = b[i].st /\ c[i].kind = b[i].kind /\ c[i].close = b[i].close

\* Doing nothing leaves the exposure alone.
LEMMA ExposedItself ==
  ASSUME NEW b \in Seq(DeskOrder)
  PROVE  Exposed(b, b)
  BY DEF Exposed

\* The two fields of a scripted state.
LEMMA StIs ==
  ASSUME NEW x, NEW y
  PROVE  /\ St(x, y).b = x /\ St(x, y).p = y
         /\ \A z : [St(x, y) EXCEPT !.b = z] = St(z, y)
         /\ \A z : [St(x, y) EXCEPT !.p = z] = St(x, z)
  BY DEF St

\* A modification leaves the exposure alone.
LEMMA ModifyExposed ==
  ASSUME NEW b \in Seq(DeskOrder), NEW i \in DOMAIN b, NEW price \in Int, NEW sl \in Int
  PROVE  Exposed(b, Modify(b, i, price, sl))
<1>1. PICK r \in DeskOrder :
           /\ Modify(b, i, price, sl) = [b EXCEPT ![i] = r]
           /\ r.st = b[i].st /\ r.kind = b[i].kind /\ r.dir = b[i].dir /\ r.sl = b[i].sl /\ r.op = "modify"
           /\ r.to[2] = sl /\ r.close = b[i].close
  BY ModifyIs
<1>2. PICK c : c = [b EXCEPT ![i] = r]
  OBVIOUS
<1>3. c \in Seq(DeskOrder) /\ DOMAIN c = DOMAIN b /\ \A j \in DOMAIN b : c[j] = IF j = i THEN r ELSE b[j]
  BY <1>2, ChangeOne
<1> QED BY <1>1, <1>2, <1>3 DEF Exposed

\* Asking for a cancel leaves the exposure alone.
LEMMA CancelExposed ==
  ASSUME NEW b \in Seq(DeskOrder), NEW i \in DOMAIN b
  PROVE  Exposed(b, CancelOrder(b, i))
<1>1. PICK r \in DeskOrder :
           /\ CancelOrder(b, i) = [b EXCEPT ![i] = r]
           /\ r.st = b[i].st /\ r.kind = b[i].kind /\ r.dir = b[i].dir /\ r.sl = b[i].sl /\ r.op = "cancel"
           /\ r.close = b[i].close
  BY CancelIs
<1>2. PICK c : c = [b EXCEPT ![i] = r]
  OBVIOUS
<1>3. c \in Seq(DeskOrder) /\ DOMAIN c = DOMAIN b /\ \A j \in DOMAIN b : c[j] = IF j = i THEN r ELSE b[j]
  BY <1>2, ChangeOne
<1> QED BY <1>1, <1>2, <1>3 DEF Exposed

\* The operations of a script.
OpNames == {"modify_position", "modify_limit", "modify_stop", "cancel_limit", "cancel_stop", "none"}

\* An operation of the script changes neither what is live nor what closes.
LEMMA OperationKeeps ==
  ASSUME NEW b \in Seq(DeskOrder), NEW p, Shaped(p), NEW what \in OpNames
  PROVE  \E c, q : OperationOn(St(b, p), what) = St(c, q) /\ Exposed(b, c) /\ Same(p, q)
<1>1. PICK s : s = St(b, p)
  OBVIOUS
<1>2. s.b = b /\ s.p = p /\ (\A z : [s EXCEPT !.b = z] = St(z, p)) /\ \A z : [s EXCEPT !.p = z] = St(b, z)
  BY <1>1, StIs
<1>3. PICK zero \in Int, one \in Int : zero = 0 /\ one = 1
  OBVIOUS
<1>4. Exposed(b, b) /\ Same(p, p)
  BY ExposedItself, SameIs
<1>5. \A i \in ActiveOrders(b) : i \in DOMAIN b
  BY LiveIs
<1>6. CASE OperationOn(s, what) = s
  BY <1>1, <1>4, <1>6
<1>7. ASSUME NEW i \in DOMAIN b, OperationOn(s, what) = [s EXCEPT !.b = Modify(b, i, 0, 1)] \/
                                 OperationOn(s, what) = [s EXCEPT !.b = Modify(b, i, 1, 0)]
      PROVE  \E c, q : OperationOn(s, what) = St(c, q) /\ Exposed(b, c) /\ Same(p, q)
  <2>1. Exposed(b, Modify(b, i, zero, one)) /\ Exposed(b, Modify(b, i, one, zero))
    BY ModifyExposed
  <2> QED BY <1>2, <1>3, <1>4, <1>7, <2>1
<1>8. CASE what = "modify_position"
  <2>1. PICK i : i = First(OpenPositions(b))
    OBVIOUS
  <2>2. OperationOn(s, what) = s \/ (OpenPositions(b) # {} /\ OperationOn(s, what) = [s EXCEPT !.b = Modify(b, i, 0, 1)])
    BY <1>2, <1>8, <2>1 DEF OperationOn
  <2>3. OpenPositions(b) # {} => i \in DOMAIN b
    BY <2>1, FirstOpen
  <2> QED BY <1>1, <1>6, <1>7, <2>2, <2>3
<1>9. CASE what = "modify_limit"
  <2>1. PICK i : i = p.limit
    OBVIOUS
  <2>2. OperationOn(s, what) = s \/ (i \in ActiveOrders(b) /\ OperationOn(s, what) = [s EXCEPT !.b = Modify(b, i, 1, 0)])
    BY <1>2, <1>9, <2>1 DEF OperationOn, Free
  <2> QED BY <1>1, <1>5, <1>6, <1>7, <2>2
<1>10. CASE what = "modify_stop"
  <2>1. PICK i : i = p.stop
    OBVIOUS
  <2>2. OperationOn(s, what) = s \/ (i \in ActiveOrders(b) /\ OperationOn(s, what) = [s EXCEPT !.b = Modify(b, i, 1, 0)])
    BY <1>2, <1>10, <2>1 DEF OperationOn, Free
  <2> QED BY <1>1, <1>5, <1>6, <1>7, <2>2
<1>11. CASE what = "cancel_limit"
  <2>1. PICK i, q : i = p.limit /\ q = [p EXCEPT !.limit = 0]
    OBVIOUS
  <2>2. OperationOn(s, what) = s \/ OperationOn(s, what) = St(b, q) \/
        (i \in ActiveOrders(b) /\ OperationOn(s, what) = St(CancelOrder(b, i), q))
    BY <1>2, <1>11, <2>1 DEF OperationOn, Free, St
  <2>3. Same(p, q)
    BY <2>1, LimitIs
  <2>4. i \in ActiveOrders(b) => Exposed(b, CancelOrder(b, i))
    BY <1>5, CancelExposed
  <2> QED BY <1>1, <1>4, <1>6, <2>2, <2>3, <2>4
<1>12. CASE what = "cancel_stop"
  <2>1. PICK i, q : i = p.stop /\ q = [p EXCEPT !.stop = 0]
    OBVIOUS
  <2>2. OperationOn(s, what) = s \/ OperationOn(s, what) = St(b, q) \/
        (i \in ActiveOrders(b) /\ OperationOn(s, what) = St(CancelOrder(b, i), q))
    BY <1>2, <1>12, <2>1 DEF OperationOn, Free, St
  <2>3. Same(p, q)
    BY <2>1, StopIs
  <2>4. i \in ActiveOrders(b) => Exposed(b, CancelOrder(b, i))
    BY <1>5, CancelExposed
  <2> QED BY <1>1, <1>4, <1>6, <2>2, <2>3, <2>4
<1>13. CASE what = "none"
  <2>1. OperationOn(s, what) = s
    BY <1>13 DEF OperationOn
  <2> QED BY <1>1, <1>6, <2>1
<1> QED BY <1>8, <1>9, <1>10, <1>11, <1>12, <1>13 DEF OpNames

\* A trade of a script.
TradeOf == [at : Nat, dir : {"LONG", "SHORT"}, hold : Nat, listed : BOOLEAN, kind : Kinds]

\* The script a logic runs is one of its configuration.
LEMMA ScriptIs ==
  ASSUME logic \in ProbeLogics, script \in Scripts[logic]
  PROVE  /\ script.trades \in Seq(TradeOf)
         /\ \A t \in DOMAIN script.ops : script.ops[t] \in OpNames
  BY ScriptAssumption DEF TradeOf, Kinds, OpNames

\* What compute_tick makes of the script.
LEMMA ScriptedTradeIs ==
  ASSUME script.trades \in Seq(TradeOf), NEW b, NEW p, Shaped(p)
  PROVE  \E d, q : /\ ScriptedTrade(St(b, p)).d = d /\ ScriptedTrade(St(b, p)).s = St(b, q) /\ Same(p, q)
                   /\ d = <<>> \/ (\E t \in TradeOf : d = <<t>>)
                   /\ (\A k \in DOMAIN script.trades : ~InWindow(k, p.count)) => d = <<>>
<1>1. PICK s : s = St(b, p)
  OBVIOUS
<1>2. s.b = b /\ s.p = p /\ (\A z : [s EXCEPT !.p = z] = St(b, z))
  BY <1>1, StIs
<1>3. PICK held : held = {k \in DOMAIN script.trades : InWindow(k, p.count) /\ ~Over(s, k)}
  OBVIOUS
<1>4. PICK k : k = First(held)
  OBVIOUS
<1>5. Same(p, p)
  BY SameIs
<1>6. CASE p.until # 0 /\ p.count >= p.until
  <2>1. ScriptedTrade(s) = [d |-> <<>>, s |-> [s EXCEPT !.p.until = 0]]
    BY <1>2, <1>6 DEF ScriptedTrade
  <2>2. PICK q : q = [p EXCEPT !.until = 0]
    OBVIOUS
  <2>3. Same(p, q)
    BY <2>2, UntilIs
  <2>4. [s EXCEPT !.p.until = 0] = St(b, q)
    BY <1>2, <2>2
  <2>5. ScriptedTrade(s).d = <<>> /\ ScriptedTrade(s).s = St(b, q)
    BY <2>1, <2>4
  <2> QED BY <1>1, <2>3, <2>5
<1>7. CASE ~(p.until # 0 /\ p.count >= p.until) /\ held = {}
  <2>1. ScriptedTrade(s) = [d |-> <<>>, s |-> s]
    BY <1>2, <1>3, <1>7 DEF ScriptedTrade
  <2>2. ScriptedTrade(s).d = <<>> /\ ScriptedTrade(s).s = St(b, p)
    BY <1>1, <2>1
  <2> QED BY <1>1, <1>5, <2>2
<1>8. CASE ~(p.until # 0 /\ p.count >= p.until) /\ held # {}
  <2>1. k \in held
    <3>1. held \in SUBSET Nat
      BY <1>3
    <3> QED BY <1>4, <1>8, <3>1, FirstIsMember
  <2>2. PICK t \in TradeOf : t = script.trades[k]
    <3>1. k \in DOMAIN script.trades
      BY <1>3, <2>1
    <3>2. script.trades[k] \in TradeOf
      BY <3>1
    <3> QED BY <3>2
  <2>3. PICK p1, p2 : p1 = [p EXCEPT !.started = p.started \cup {k}] /\ p2 = [p1 EXCEPT !.until = p.count + t.hold]
    OBVIOUS
  <2>4. Same(p, p1)
    BY <2>3, StartedIs
  <2>5. Same(p1, p2)
    <3>1. Shaped(p1)
      BY <2>4 DEF Same
    <3> QED BY <2>3, <3>1, UntilIs
  <2>6. Same(p, p2)
    BY <2>4, <2>5, SameIs
  <2>7. PICK s1, s2 : s1 = St(b, p1) /\ s2 = St(b, p2)
    OBVIOUS
  <2>8. [s EXCEPT !.p.started = p.started \cup {k}] = s1
    BY <1>2, <2>3, <2>7
  <2>9. [s1 EXCEPT !.p.until = p.count + t.hold] = s2
    <3>1. s1.p = p1 /\ \A z : [s1 EXCEPT !.p = z] = St(b, z)
      BY <2>7, StIs
    <3> QED BY <2>3, <2>7, <3>1
  <2>10. [s EXCEPT !.p.started = @ \cup {k}, !.p.until = s.p.count + script.trades[k].hold] = s2
    BY <1>2, <2>2, <2>8, <2>9
  <2>11. ScriptedTrade(s) = [d |-> <<t>>, s |-> s] \/ ScriptedTrade(s) = [d |-> <<t>>, s |-> s2]
    BY <1>2, <1>3, <1>4, <1>8, <2>2, <2>10 DEF ScriptedTrade
  <2>12. ScriptedTrade(s).d = <<t>> /\ (ScriptedTrade(s).s = St(b, p) \/ ScriptedTrade(s).s = St(b, p2))
    BY <1>1, <2>7, <2>11
  <2>13. ~(\A j \in DOMAIN script.trades : ~InWindow(j, p.count))
    BY <1>3, <2>1
  <2> QED BY <1>1, <1>5, <2>6, <2>12, <2>13
<1> QED BY <1>6, <1>7, <1>8

-----------------------------------------------------------------------------
(* BacktestingDeterministic: one trade at a time, closed when it is over.   *)

\* Sending a scripted trade onto an empty desk leaves one exposure.
LEMMA SendScriptedIs ==
  ASSUME NEW b \in Seq(DeskOrder), NEW p, Shaped(p), NEW t \in TradeOf, NEW accepted \in BOOLEAN, NEW l, l # "STOP",
         Alone(l, b), Live(b) = {}
  PROVE  \E c, q : /\ SendScripted(St(b, p), t, accepted) = St(c, q)
                   /\ c \in Seq(DeskOrder) /\ Same(p, q) /\ Alone(l, c)
<1>1. PICK s : s = St(b, p)
  OBVIOUS
<1>2. s.b = b /\ s.p = p
  BY <1>1, StIs
<1>3. CASE ~accepted \/ Len(b) >= MaxDeskOrders
  <2>1. SendScripted(s, t, accepted) = s
    BY <1>2, <1>3 DEF SendScripted
  <2> QED BY <1>1, <2>1, SameIs
<1>4. CASE ~(~accepted \/ Len(b) >= MaxDeskOrders)
  <2>1. t.kind \in Kinds /\ t.dir \in {"LONG", "SHORT"}
    BY DEF TradeOf
  <2>2. PICK kind \in Kinds, dir \in {"LONG", "SHORT"}, zero \in Int : kind = t.kind /\ dir = t.dir /\ zero = 0
    BY <2>1
  <2>3. LET o == NewOrder(kind, dir, zero, zero) IN
         /\ o \in DeskOrder /\ o.st = "queue" /\ o.kind = kind /\ o.dir = dir /\ o.close = "no" /\ o.op = "none"
         /\ o.sl = zero /\ o.price = zero
    BY NewOrderTyped
  <2>4. PICK o \in DeskOrder : o = NewOrder(t.kind, t.dir, 0, 0) /\ o.st = "queue"
    BY <2>2, <2>3
  <2>5a. PICK x : x = IF t.kind = "LIMIT" THEN Len(b) + 1 ELSE p.limit
    OBVIOUS
  <2>5b. PICK y : y = IF t.kind \in {"STOP", "STOP_LIMIT"} THEN Len(b) + 1 ELSE p.stop
    OBVIOUS
  <2>5c. PICK p1 : p1 = [p EXCEPT !.limit = x]
    OBVIOUS
  <2>5. PICK p2 : p2 = [p1 EXCEPT !.stop = y]
    OBVIOUS
  <2>6. Same(p, p1)
    BY <2>5c, LimitIs
  <2>7. Same(p1, p2)
    <3>1. Shaped(p1)
      BY <2>6 DEF Same
    <3> QED BY <2>5, <3>1, StopIs
  <2>8. Same(p, p2)
    BY <2>6, <2>7, SameIs
  <2>9. [p EXCEPT !.limit = IF t.kind = "LIMIT" THEN Len(b) + 1 ELSE @,
                  !.stop = IF t.kind \in {"STOP", "STOP_LIMIT"} THEN Len(b) + 1 ELSE @] = p2
    BY <2>5a, <2>5b, <2>5c, <2>5
  <2>10. SendScripted(s, t, accepted) = St(Append(b, o), p2)
    BY <1>2, <1>4, <2>4, <2>9 DEF SendScripted, Send, St
  <2>11. Append(b, o) \in Seq(DeskOrder) /\ Alone(l, Append(b, o))
    BY <2>4, SendOne
  <2> QED BY <1>1, <2>8, <2>10, <2>11
<1> QED BY <1>3, <1>4

\* The decision of compute: nothing, or one trade.
Idle(d) == d = <<>>
CloseAsked(b) == \A i \in OpenPositions(b) : b[i].close # "no"
Planned(d) == d = <<>> \/ (\E t \in TradeOf : d = <<t>>)

\* BacktestingDeterministic: while nothing is pending every position may be
\* closed, and what is pending is all there is.
LEMMA ExecuteScriptedKeeps ==
  ASSUME NEW b \in Seq(DeskOrder), NEW p, Shaped(p), Clean(p), Alone("deterministic", b),
         NEW d, Planned(d), NEW accepted \in BOOLEAN
  PROVE  \E c, q : /\ ExecuteScripted(St(b, p), d, accepted) = St(c, q)
                   /\ c \in Seq(DeskOrder) /\ Same(p, q) /\ Alone("deterministic", c)
                   /\ Idle(d) => CloseAsked(c)
<1>1. PICK s : s = St(b, p)
  OBVIOUS
<1>2. s.b = b /\ s.p = p
  BY <1>1, StIs
<1>3. Same(p, p) /\ OwnKinds("deterministic", b)
  BY SameIs DEF OwnKinds
<1>4. CASE HasPendingOrders(b)
  <2>1. ExecuteScripted(s, d, accepted) = s
    BY <1>2, <1>4 DEF ExecuteScripted
  <2>2. ASSUME NEW i \in OpenPositions(b) PROVE b[i].close # "no"
    <3>1. PICK j \in Live(b) : b[j].st # "open" \/ b[j].close # "no"
      <4>1. \E j \in DOMAIN b : b[j].st \in {"queue", "active", "open"} /\ (b[j].st # "open" \/ b[j].close # "no")
        BY <1>4, LiveIs DEF HasPendingOrders, HasPipelineOrders
      <4> QED BY <4>1, LiveIs
    <3>2. i \in Live(b) /\ b[i].st = "open"
      BY <2>2, LiveIs
    <3>3. i = j
      BY <3>1, <3>2 DEF Alone
    <3> QED BY <3>1, <3>2, <3>3
  <2> QED BY <1>1, <1>3, <2>1, <2>2 DEF CloseAsked
<1>5. CASE ~HasPendingOrders(b) /\ Idle(d)
  <2>1. ExecuteScripted(s, d, accepted) = AskClose(s, OpenPositions(b), "all")
    BY <1>2, <1>5 DEF ExecuteScripted, Idle
  <2>2. \A i \in OpenPositions(b) : i \in OpenPositions(b) /\ b[i].close = "no"
    BY <1>5, LiveIs DEF HasPendingOrders, HasPipelineOrders
  <2>3. PICK how \in {"all", "part"} : how = "all"
    OBVIOUS
  <2>4. PICK c \in Seq(DeskOrder) :
           /\ AskClose(St(b, p), OpenPositions(b), how) = St(c, p) /\ DOMAIN c = DOMAIN b
           /\ \A i \in DOMAIN b : /\ c[i].st = b[i].st /\ c[i].kind = b[i].kind
                                  /\ i \in OpenPositions(b) => c[i].close = how
                                  /\ i \notin OpenPositions(b) => c[i] = b[i]
    <3>1. Closeable(b, OpenPositions(b))
      BY <2>2 DEF Closeable
    <3>2. PICK c : Asked(b, c, p, OpenPositions(b), how)
      BY <3>1, AskCloses
    <3> QED BY <3>2 DEF Asked
  <2>5. Alone("deterministic", c)
    BY <1>3, <2>4, SameExposure
  <2>6. ASSUME NEW i \in OpenPositions(c) PROVE c[i].close # "no"
    <3>1. i \in DOMAIN b /\ c[i].st = "open"
      BY <2>4, <2>6, LiveIs
    <3>2. i \in OpenPositions(b)
      BY <2>4, <3>1, LiveIs
    <3> QED BY <2>3, <2>4, <3>1, <3>2
  <2>7. CloseAsked(c)
    BY <2>6 DEF CloseAsked
  <2> QED BY <1>1, <1>3, <2>1, <2>3, <2>4, <2>5, <2>7
<1>6. CASE ~HasPendingOrders(b) /\ ~Idle(d) /\ OpenPositions(b) # {}
  <2>1. ExecuteScripted(s, d, accepted) = s
    BY <1>2, <1>6 DEF ExecuteScripted, Idle
  <2> QED BY <1>1, <1>3, <1>6, <2>1
<1>7. CASE ~HasPendingOrders(b) /\ ~Idle(d) /\ OpenPositions(b) = {}
  <2>1. PICK t \in TradeOf : d = <<t>>
    BY <1>7 DEF Planned, Idle
  <2>2. ExecuteScripted(s, d, accepted) = SendScripted(s, t, accepted)
    BY <1>2, <1>7, <2>1 DEF ExecuteScripted, Idle
  <2>3. Live(b) = {}
    BY <1>7, NothingLive
  <2>4. \E c, q : /\ SendScripted(St(b, p), t, accepted) = St(c, q)
                  /\ c \in Seq(DeskOrder) /\ Same(p, q) /\ Alone("deterministic", c)
    <3>1. PICK l : l = "deterministic" /\ l # "STOP"
      OBVIOUS
    <3>2. \E c, q : /\ SendScripted(St(b, p), t, accepted) = St(c, q)
                    /\ c \in Seq(DeskOrder) /\ Same(p, q) /\ Alone(l, c)
      BY <2>3, <3>1, SendScriptedIs
    <3> QED BY <3>1, <3>2
  <2> QED BY <1>1, <1>7, <2>2, <2>4
<1> QED BY <1>4, <1>5, <1>6, <1>7

\* No trade of the script is on.
ScriptOff(n) == \A k \in DOMAIN script.trades : ~InWindow(k, n)

\* A tick of BacktestingDeterministic keeps its invariant, and asks for
\* every close when its window is over.
LEMMA DeterministicKeeps ==
  ASSUME logic = "deterministic", script \in Scripts[logic], NEW b \in Seq(DeskOrder), NEW p, Shaped(p), Clean(p),
         Alone("deterministic", b), NEW accepted \in BOOLEAN
  PROVE  \E c, q : /\ DeterministicTick(St(b, p), accepted) = St(c, q)
                   /\ c \in Seq(DeskOrder) /\ Same(p, q) /\ Alone("deterministic", c)
                   /\ ScriptOff(p.count) => CloseAsked(c)
<1>0. logic \in ProbeLogics
  BY DEF ProbeLogics
<1>1. script.trades \in Seq(TradeOf) /\ \A t \in DOMAIN script.ops : script.ops[t] \in OpNames
  BY <1>0, ScriptIs
<1>2. PICK d, q : /\ ScriptedTrade(St(b, p)).d = d /\ ScriptedTrade(St(b, p)).s = St(b, q) /\ Same(p, q)
                  /\ d = <<>> \/ (\E t \in TradeOf : d = <<t>>)
                  /\ ScriptOff(p.count) => d = <<>>
  BY <1>1, ScriptedTradeIs DEF ScriptOff
<1>3. DeterministicTick(St(b, p), accepted) = ExecuteScripted(Operations(St(b, q)), d, accepted)
  BY <1>2 DEF DeterministicTick
<1>4. Shaped(q) /\ Clean(q)
  BY <1>2 DEF Same, Clean
<1>5. PICK what \in OpNames : Operations(St(b, q)) = OperationOn(St(b, q), what)
  BY <1>1 DEF Operations, OpNames
<1>6. PICK c, u : OperationOn(St(b, q), what) = St(c, u) /\ Exposed(b, c) /\ Same(q, u)
  BY <1>4, OperationKeeps
<1>7. /\ c \in Seq(DeskOrder) /\ Shaped(u) /\ Clean(u)
      /\ DOMAIN c = DOMAIN b /\ \A i \in DOMAIN b : c[i].st = b[i].st /\ c[i].kind = b[i].kind
  BY <1>4, <1>6 DEF Exposed, Same, Clean
<1>8. Alone("deterministic", c)
  <2>1. OwnKinds("deterministic", b)
    BY DEF OwnKinds
  <2> QED BY <1>7, <2>1, SameExposure
<1>9. PICK e, v : /\ ExecuteScripted(St(c, u), d, accepted) = St(e, v)
                  /\ e \in Seq(DeskOrder) /\ Same(u, v) /\ Alone("deterministic", e)
                  /\ Idle(d) => CloseAsked(e)
  <2>1. Planned(d)
    BY <1>2 DEF Planned
  <2>2. c \in Seq(DeskOrder) /\ Shaped(u) /\ Clean(u)
    BY <1>7
  <2> QED BY <1>8, <2>1, <2>2, ExecuteScriptedKeeps
<1>10. Same(p, v)
  BY <1>2, <1>6, <1>9, SameIs
<1> QED BY <1>2, <1>3, <1>5, <1>6, <1>9, <1>10 DEF Idle

(* The logics with several positions.                                      *)

\* A position that no close is on its way for is noted, or was let go of.
Remembered(b, p) ==
  \A i \in DOMAIN b : b[i].st # "gone" /\ b[i].close # "all" /\ "close" \notin b[i].refused
                        => i \in DOMAIN p.active \cup p.dropped

\* Leaving what matters alone forgets no position.
LEMMA SameRemembered ==
  ASSUME NEW b, NEW p, NEW q, Same(p, q), Remembered(b, p)
  PROVE  Remembered(b, q)
  BY DEF Same, Remembered

\* Marking the trades that are due touches no position.
LEMMA MarkDueIs ==
  ASSUME NEW b, NEW p, Shaped(p)
  PROVE  \E q : MarkDue(St(b, p)) = St(b, q) /\ Same(p, q)
<1>1. PICK s : s = St(b, p)
  OBVIOUS
<1>2. s.p = p /\ \A z : [s EXCEPT !.p = z] = St(b, z)
  BY <1>1, StIs
<1>3. PICK k : k = First(DueTrades(s))
  OBVIOUS
<1>4. PICK q : q = [p EXCEPT !.started = p.started \cup {k}]
  OBVIOUS
<1>5. [s EXCEPT !.p.started = @ \cup {k}] = St(b, q)
  BY <1>2, <1>4
<1>6. MarkDue(s) = s \/ MarkDue(s) = St(b, q)
  BY <1>3, <1>5 DEF MarkDue
<1>7. Same(p, q) /\ Same(p, p)
  BY <1>4, StartedIs, SameIs
<1> QED BY <1>1, <1>6, <1>7

\* Closing the positions whose hold is over: each is closed once, and
\* forgotten with its close on the way.
LEMMA CloseExpiredIs ==
  ASSUME NEW b \in Seq(DeskOrder), NEW p, Shaped(p), Clean(p)
  PROVE  \E c, q : /\ CloseExpired(St(b, p)) = St(c, q) /\ c \in Seq(DeskOrder) /\ DOMAIN c = DOMAIN b
                   /\ Shaped(q) /\ q.count = p.count /\ Clean(q)
                   /\ Remembered(b, p) => Remembered(c, q)
<1>1. PICK s : s = St(b, p)
  OBVIOUS
<1>2. s.b = b /\ s.p = p
  BY <1>1, StIs
<1>3. PICK due, S, D, x : /\ due = Expired(p) /\ S = {i \in due : Closable(s, i)}
                          /\ D = p.dropped \cup {i \in due \ S : b[i].st # "gone"}
                          /\ x = Forget(p.active, due)
  OBVIOUS
<1>4. \A i \in S : i \in OpenPositions(b) /\ b[i].close = "no"
  BY <1>2, <1>3 DEF Closable
<1>5. PICK how \in {"all", "part"} : how = "all"
  OBVIOUS
<1>6. PICK c \in Seq(DeskOrder) :
           /\ AskClose(St(b, p), S, how) = St(c, p) /\ DOMAIN c = DOMAIN b
           /\ \A i \in DOMAIN b : /\ c[i].st = b[i].st /\ c[i].kind = b[i].kind
                                  /\ i \in S => c[i].close = how
                                  /\ c[i].refused = b[i].refused
                                  /\ i \notin S => c[i] = b[i]
  <2>1. Closeable(b, S)
    BY <1>4 DEF Closeable
  <2>2. PICK c : Asked(b, c, p, S, how)
    BY <2>1, AskCloses
  <2> QED BY <2>2 DEF Asked
<1>7. PICK p1, p2 : p1 = [p EXCEPT !.active = x] /\ p2 = [p1 EXCEPT !.dropped = D]
  OBVIOUS
<1>8. Shaped(p1) /\ p1.count = p.count /\ p1.twice = p.twice /\ p1.active = x /\ p1.dropped = p.dropped
  BY <1>7, ActiveIs
<1>9. Shaped(p2) /\ p2.count = p.count /\ p2.twice = p.twice /\ p2.active = x /\ p2.dropped = D
  <2>1. Shaped(p2) /\ p2.count = p1.count /\ p2.twice = p1.twice /\ p2.active = p1.active /\ p2.dropped = D
    <3>1. LET q == [p1 EXCEPT !.dropped = D] IN
         Shaped(q) /\ q.count = p1.count /\ q.twice = p1.twice /\ q.active = p1.active /\ q.dropped = D
      BY <1>8, DroppedIs
    <3> QED BY <1>7, <3>1
  <2> QED BY <1>8, <2>1
<1>10. PICK s0, s1 : s0 = St(c, p) /\ s1 = St(c, p1)
  OBVIOUS
<1>11. [s0 EXCEPT !.p.active = Forget(@, due)] = s1
  <2>1. s0.p = p /\ \A z : [s0 EXCEPT !.p = z] = St(c, z)
    BY <1>10, StIs
  <2> QED BY <1>3, <1>7, <1>10, <2>1
<1>12. [s1 EXCEPT !.p.dropped = D] = St(c, p2)
  <2>1. s1.p = p1 /\ \A z : [s1 EXCEPT !.p = z] = St(c, z)
    BY <1>10, StIs
  <2> QED BY <1>7, <2>1
<1>13. CloseExpired(s) = [s0 EXCEPT !.p.active = Forget(@, due), !.p.dropped = D]
  <2>1. s0 = AskClose(s, S, "all") /\ s0.p.dropped = p.dropped
    <3>1. s0.p = p
      BY <1>10, StIs
    <3> QED BY <1>1, <1>5, <1>6, <1>10, <3>1
  <2>2. CloseExpired(s) = [s0 EXCEPT !.p.active = Forget(@, due),
                                     !.p.dropped = @ \cup {i \in due \ S : b[i].st # "gone"}]
    BY <1>2, <1>3, <2>1 DEF CloseExpired
  <2> QED BY <1>3, <2>1, <2>2
<1>14. CloseExpired(s) = St(c, p2)
  BY <1>11, <1>12, <1>13
<1>15. ASSUME Remembered(b, p) PROVE Remembered(c, p2)
  <2> SUFFICES ASSUME NEW i \in DOMAIN c, c[i].st # "gone", c[i].close # "all", "close" \notin c[i].refused
               PROVE  i \in DOMAIN p2.active \cup p2.dropped
    BY DEF Remembered
  <2>1. i \in DOMAIN b /\ i \notin S /\ c[i] = b[i]
    BY <1>5, <1>6
  <2>2. i \in DOMAIN p.active \cup p.dropped
    BY <1>15, <2>1 DEF Remembered
  <2>3. DOMAIN x = DOMAIN p.active \ due
    BY <1>3 DEF Forget
  <2>4. CASE i \in p.dropped
    BY <1>3, <1>9, <2>4
  <2>5. CASE i \in DOMAIN p.active /\ i \notin due
    BY <1>9, <2>3, <2>5
  <2>6. CASE i \in due
    BY <1>3, <1>9, <2>1, <2>6
  <2> QED BY <2>2, <2>4, <2>5, <2>6
<1>16. Clean(p2)
  BY <1>9 DEF Clean
<1> QED BY <1>1, <1>6, <1>9, <1>14, <1>15, <1>16

\* The scripted partial closes: a position is closed in part once, and
\* stays noted.
LEMMA PartialClosesIs ==
  ASSUME NEW b \in Seq(DeskOrder), NEW p, Shaped(p), Clean(p)
  PROVE  \E c, q : /\ ProcessPartialCloses(St(b, p)) = St(c, q) /\ c \in Seq(DeskOrder) /\ DOMAIN c = DOMAIN b
                   /\ Shaped(q) /\ q.count = p.count /\ Clean(q)
                   /\ Remembered(b, p) => Remembered(c, q)
<1>1. PICK s : s = St(b, p)
  OBVIOUS
<1>2. s.b = b /\ s.p = p
  BY <1>1, StIs
<1>3. PICK S, x : S = {i \in EndedIds(s) : Closable(s, i)} /\ x = p.closed \cup DueEnds(s)
  OBVIOUS
<1>4. \A i \in S : i \in OpenPositions(b) /\ b[i].close = "no"
  BY <1>2, <1>3 DEF Closable
<1>5. PICK how \in {"all", "part"} : how = "part"
  OBVIOUS
<1>6. PICK c \in Seq(DeskOrder) :
           /\ AskClose(St(b, p), S, how) = St(c, p) /\ DOMAIN c = DOMAIN b
           /\ \A i \in DOMAIN b : /\ c[i].st = b[i].st /\ c[i].kind = b[i].kind
                                  /\ i \in S => c[i].close = how
                                  /\ c[i].refused = b[i].refused
                                  /\ i \notin S => c[i] = b[i]
  <2>1. Closeable(b, S)
    BY <1>4 DEF Closeable
  <2>2. PICK c : Asked(b, c, p, S, how)
    BY <2>1, AskCloses
  <2> QED BY <2>2 DEF Asked
<1>7. PICK q : q = [p EXCEPT !.closed = x]
  OBVIOUS
<1>8. Same(p, q)
  BY <1>7, ClosedIs
<1>9. ProcessPartialCloses(s) = St(c, q)
  <2>1. PICK s0 : s0 = St(c, p)
    OBVIOUS
  <2>2. s0.p = p /\ \A z : [s0 EXCEPT !.p = z] = St(c, z)
    BY <2>1, StIs
  <2>3. [s0 EXCEPT !.p.closed = @ \cup DueEnds(s)] = St(c, q)
    BY <1>3, <1>7, <2>2
  <2>4. ProcessPartialCloses(s) = [s0 EXCEPT !.p.closed = @ \cup DueEnds(s)]
    BY <1>1, <1>3, <1>5, <1>6, <2>1 DEF ProcessPartialCloses
  <2> QED BY <2>3, <2>4
<1>10. ASSUME Remembered(b, p) PROVE Remembered(c, q)
  <2>1. Remembered(b, q)
    BY <1>8, <1>10, SameRemembered
  <2> SUFFICES ASSUME NEW i \in DOMAIN c, c[i].st # "gone", c[i].close # "all", "close" \notin c[i].refused
               PROVE  i \in DOMAIN q.active \cup q.dropped
    BY DEF Remembered
  <2>2. i \in DOMAIN b /\ b[i].st # "gone" /\ b[i].close # "all" /\ "close" \notin b[i].refused
    BY <1>4, <1>6
  <2> QED BY <2>1, <2>2 DEF Remembered
<1>11. Shaped(q) /\ q.count = p.count /\ Clean(q)
  BY <1>8 DEF Same, Clean
<1> QED BY <1>1, <1>6, <1>9, <1>10, <1>11

\* The scripted close events: each closes its position once.
LEMMA CloseEventsIs ==
  ASSUME NEW b \in Seq(DeskOrder), NEW p, Shaped(p), Clean(p)
  PROVE  \E c, q : /\ ProcessCloseEvents(St(b, p)) = St(c, q) /\ c \in Seq(DeskOrder) /\ DOMAIN c = DOMAIN b
                   /\ Shaped(q) /\ q.count = p.count /\ Clean(q)
                   /\ Remembered(b, p) => Remembered(c, q)
<1>1. PICK s : s = St(b, p)
  OBVIOUS
<1>2. s.b = b /\ s.p = p
  BY <1>1, StIs
<1>3. PICK S, x, y : S = {i \in EndedIds(s) : Closable(s, i)} /\ x = p.closed \cup DueEnds(s) /\ y = Forget(p.active, S)
  OBVIOUS
<1>4. \A i \in S : i \in OpenPositions(b) /\ b[i].close = "no"
  BY <1>2, <1>3 DEF Closable
<1>5. PICK how \in {"all", "part"} : how = "all"
  OBVIOUS
<1>6. PICK c \in Seq(DeskOrder) :
           /\ AskClose(St(b, p), S, how) = St(c, p) /\ DOMAIN c = DOMAIN b
           /\ \A i \in DOMAIN b : /\ c[i].st = b[i].st /\ c[i].kind = b[i].kind
                                  /\ i \in S => c[i].close = how
                                  /\ c[i].refused = b[i].refused
                                  /\ i \notin S => c[i] = b[i]
  <2>1. Closeable(b, S)
    BY <1>4 DEF Closeable
  <2>2. PICK c : Asked(b, c, p, S, how)
    BY <2>1, AskCloses
  <2> QED BY <2>2 DEF Asked
<1>7. PICK p1, p2 : p1 = [p EXCEPT !.closed = x] /\ p2 = [p1 EXCEPT !.active = y]
  OBVIOUS
<1>8. Same(p, p1)
  BY <1>7, ClosedIs
<1>9. Shaped(p2) /\ p2.count = p.count /\ p2.twice = p.twice /\ p2.active = y /\ p2.dropped = p.dropped
  <2>1. Shaped(p1) /\ p1.count = p.count /\ p1.twice = p.twice /\ p1.dropped = p.dropped
    BY <1>8 DEF Same
  <2>2. Shaped(p2) /\ p2.count = p1.count /\ p2.twice = p1.twice /\ p2.active = y /\ p2.dropped = p1.dropped
    <3>1. LET q == [p1 EXCEPT !.active = y] IN
         Shaped(q) /\ q.count = p1.count /\ q.twice = p1.twice /\ q.active = y /\ q.dropped = p1.dropped
      BY <2>1, ActiveIs
    <3> QED BY <1>7, <3>1
  <2> QED BY <2>1, <2>2
<1>10. PICK s0, s1 : s0 = St(c, p) /\ s1 = St(c, p1)
  OBVIOUS
<1>11. [s0 EXCEPT !.p.closed = @ \cup DueEnds(s)] = s1
  <2>1. s0.p = p /\ \A z : [s0 EXCEPT !.p = z] = St(c, z)
    BY <1>10, StIs
  <2> QED BY <1>3, <1>7, <1>10, <2>1
<1>12. [s1 EXCEPT !.p.active = y] = St(c, p2)
  <2>1. s1.p = p1 /\ \A z : [s1 EXCEPT !.p = z] = St(c, z)
    BY <1>10, StIs
  <2> QED BY <1>7, <2>1
<1>13. ProcessCloseEvents(s) = [s0 EXCEPT !.p.closed = @ \cup DueEnds(s), !.p.active = y]
  <2>1. s0.p = p
    BY <1>10, StIs
  <2>2. ProcessCloseEvents(s) = [s0 EXCEPT !.p.closed = @ \cup DueEnds(s), !.p.active = Forget(@, S)]
    BY <1>1, <1>3, <1>5, <1>6, <1>10 DEF ProcessCloseEvents
  <2> QED BY <1>3, <2>1, <2>2
<1>14. ProcessCloseEvents(s) = St(c, p2)
  BY <1>11, <1>12, <1>13
<1>15. ASSUME Remembered(b, p) PROVE Remembered(c, p2)
  <2> SUFFICES ASSUME NEW i \in DOMAIN c, c[i].st # "gone", c[i].close # "all", "close" \notin c[i].refused
               PROVE  i \in DOMAIN p2.active \cup p2.dropped
    BY DEF Remembered
  <2>1. i \in DOMAIN b /\ i \notin S /\ c[i] = b[i]
    BY <1>5, <1>6
  <2>2. i \in DOMAIN p.active \cup p.dropped
    BY <1>15, <2>1 DEF Remembered
  <2>3. DOMAIN y = DOMAIN p.active \ S
    BY <1>3 DEF Forget
  <2> QED BY <1>9, <2>1, <2>2, <2>3
<1>16. Clean(p2)
  BY <1>9 DEF Clean
<1> QED BY <1>1, <1>6, <1>9, <1>14, <1>15, <1>16

-----------------------------------------------------------------------------
(* The scripted logics with several positions, one tick at a time.          *)

\* Placing one trade notes the position it will open.
LEMMA PlaceIs ==
  ASSUME script.trades \in Seq(TradeOf), NEW b \in Seq(DeskOrder), NEW p, Shaped(p), Clean(p),
         NEW k \in DOMAIN script.trades, NEW accepted \in BOOLEAN
  PROVE  \E c, q : /\ Place(St(b, p), k, accepted) = St(c, q) /\ c \in Seq(DeskOrder)
                   /\ Shaped(q) /\ q.count = p.count /\ Clean(q)
                   /\ Remembered(b, p) => Remembered(c, q)
<1>1. PICK s : s = St(b, p)
  OBVIOUS
<1>2. s.b = b /\ s.p = p
  BY <1>1, StIs
<1>3. PICK t \in TradeOf : t = script.trades[k]
  <2>1. script.trades[k] \in TradeOf
    OBVIOUS
  <2> QED BY <2>1
<1>4. CASE ~accepted \/ t.kind = "none" \/ Len(b) >= MaxDeskOrders
  <2>1. Place(s, k, accepted) = s
    BY <1>2, <1>3, <1>4 DEF Place
  <2> QED BY <1>1, <2>1
<1>5. CASE ~(~accepted \/ t.kind = "none" \/ Len(b) >= MaxDeskOrders)
  <2>1. PICK o \in DeskOrder : o = NewOrder("MARKET", t.dir, 0, 0) /\ o.st = "queue"
    <3>1. PICK kind \in Kinds, dir \in {"LONG", "SHORT"}, zero \in Int : kind = "MARKET" /\ dir = t.dir /\ zero = 0
      BY DEF TradeOf, Kinds
    <3>2. LET u == NewOrder(kind, dir, zero, zero) IN
           /\ u \in DeskOrder /\ u.st = "queue" /\ u.kind = kind /\ u.dir = dir /\ u.close = "no" /\ u.op = "none"
           /\ u.sl = zero /\ u.price = zero
      BY NewOrderTyped
    <3> QED BY <3>1, <3>2
  <2>2. PICK c : c = Append(b, o)
    OBVIOUS
  <2>3. /\ c \in Seq(DeskOrder) /\ Len(b) \in Nat /\ DOMAIN b = 1 .. Len(b) /\ DOMAIN c = 1 .. (Len(b) + 1)
        /\ \A i \in 1 .. Len(b) : c[i] = b[i]
    BY <2>2
  <2>4. PICK id : id = Len(b) + 1
    OBVIOUS
  <2>5. PICK until : until = IF t.hold = Never THEN Never ELSE p.count + t.hold
    OBVIOUS
  <2>6. PICK x : x = [i \in DOMAIN p.active \cup {id} |-> IF i = id THEN until ELSE p.active[i]]
    OBVIOUS
  <2>7. PICK y : y = IF t.listed THEN [j \in DOMAIN p.placed \cup {k} |-> IF j = k THEN id ELSE p.placed[j]] ELSE p.placed
    OBVIOUS
  <2>8. PICK p1 : p1 = [p EXCEPT !.active = x]
    OBVIOUS
  <2>9. PICK p2 : p2 = [p1 EXCEPT !.placed = y]
    OBVIOUS
  <2>10. Shaped(p1) /\ p1.count = p.count /\ p1.twice = p.twice /\ p1.active = x /\ p1.dropped = p.dropped
    <3>1. LET q == [p EXCEPT !.active = x] IN
           Shaped(q) /\ q.count = p.count /\ q.twice = p.twice /\ q.active = x /\ q.dropped = p.dropped
      BY ActiveIs
    <3> QED BY <2>8, <3>1
  <2>11. Same(p1, p2)
    BY <2>9, <2>10, PlacedIs
  <2>12. Shaped(p2) /\ p2.count = p.count /\ p2.twice = p.twice /\ p2.active = x /\ p2.dropped = p.dropped
    BY <2>10, <2>11 DEF Same
  <2>13. [p EXCEPT !.active = [i \in DOMAIN @ \cup {id} |-> IF i = id THEN until ELSE @[i]],
                   !.placed = IF t.listed THEN [j \in DOMAIN @ \cup {k} |-> IF j = k THEN id ELSE @[j]] ELSE @] = p2
    BY <2>6, <2>7, <2>8, <2>9
  <2>14. Place(s, k, accepted) =
           [b |-> c, p |-> [p EXCEPT !.active = [i \in DOMAIN @ \cup {id} |-> IF i = id THEN until ELSE @[i]],
                   !.placed = IF t.listed THEN [j \in DOMAIN @ \cup {k} |-> IF j = k THEN id ELSE @[j]] ELSE @]]
    BY <1>2, <1>3, <1>5, <2>1, <2>2, <2>4, <2>5 DEF Place, Send
  <2>15. Place(s, k, accepted) = St(c, p2)
    BY <2>13, <2>14 DEF St
  <2>16. ASSUME Remembered(b, p) PROVE Remembered(c, p2)
    <3> SUFFICES ASSUME NEW i \in DOMAIN c, c[i].st # "gone", c[i].close # "all", "close" \notin c[i].refused
               PROVE  i \in DOMAIN p2.active \cup p2.dropped
      BY DEF Remembered
    <3>1. DOMAIN p2.active = DOMAIN p.active \cup {id}
      BY <2>6, <2>12
    <3>2. i = id \/ (i \in DOMAIN b /\ c[i] = b[i])
      BY <2>3, <2>4
    <3>3. i \in DOMAIN b /\ c[i] = b[i] => i \in DOMAIN p.active \cup p.dropped
      BY <2>16 DEF Remembered
    <3> QED BY <2>12, <3>1, <3>2, <3>3
  <2>17. Clean(p2)
    BY <2>12 DEF Clean
  <2> QED BY <1>1, <2>3, <2>12, <2>15, <2>16, <2>17
<1> QED BY <1>4, <1>5

\* Placing the trade that is due keeps every position noted.
LEMMA PlaceDueIs ==
  ASSUME script.trades \in Seq(TradeOf), NEW b \in Seq(DeskOrder), NEW p, Shaped(p), Clean(p),
         NEW before, NEW accepted \in BOOLEAN
  PROVE  \E c, q : /\ PlaceDue(before, St(b, p), accepted) = St(c, q) /\ c \in Seq(DeskOrder)
                   /\ Shaped(q) /\ q.count = p.count /\ Clean(q)
                   /\ Remembered(b, p) => Remembered(c, q)
<1>1. CASE DueTrades(before) = {}
  <2>1. PlaceDue(before, St(b, p), accepted) = St(b, p)
    BY <1>1 DEF PlaceDue
  <2> QED BY <2>1
<1>2. CASE DueTrades(before) # {}
  <2>1. PICK k : k = First(DueTrades(before))
    OBVIOUS
  <2>2. k \in DOMAIN script.trades
    <3>1. DueTrades(before) \in SUBSET Nat /\ DueTrades(before) \subseteq DOMAIN script.trades
      BY DEF DueTrades
    <3> QED BY <1>2, <2>1, <3>1, FirstIsMember
  <2>3. PlaceDue(before, St(b, p), accepted) = Place(St(b, p), k, accepted)
    BY <1>2, <2>1 DEF PlaceDue
  <2> QED BY <2>2, <2>3, PlaceIs
<1> QED BY <1>1, <1>2

\* A tick of the multi-position logic forgets no position.
LEMMA MultiKeeps ==
  ASSUME script.trades \in Seq(TradeOf), NEW b \in Seq(DeskOrder), NEW p, Shaped(p), Clean(p), NEW accepted \in BOOLEAN,
         Remembered(b, p)
  PROVE  \E c, q : /\ MultiTick(St(b, p), accepted) = St(c, q) /\ c \in Seq(DeskOrder)
                   /\ Shaped(q) /\ q.count = p.count /\ Clean(q) /\ Remembered(c, q)
<1>1. PICK p1 : MarkDue(St(b, p)) = St(b, p1) /\ Same(p, p1)
  BY MarkDueIs
<1>2. Shaped(p1) /\ Clean(p1) /\ p1.count = p.count /\ Remembered(b, p1)
  BY <1>1, SameRemembered DEF Same, Clean
<1>3. PICK b2, p2 : /\ CloseExpired(St(b, p1)) = St(b2, p2) /\ b2 \in Seq(DeskOrder) /\ DOMAIN b2 = DOMAIN b
                    /\ Shaped(p2) /\ p2.count = p1.count /\ Clean(p2)
                    /\ Remembered(b, p1) => Remembered(b2, p2)
  BY <1>2, CloseExpiredIs
<1>4. PICK b3, p3 : /\ ProcessPartialCloses(St(b2, p2)) = St(b3, p3) /\ b3 \in Seq(DeskOrder) /\ DOMAIN b3 = DOMAIN b2
                    /\ Shaped(p3) /\ p3.count = p2.count /\ Clean(p3)
                    /\ Remembered(b2, p2) => Remembered(b3, p3)
  BY <1>3, PartialClosesIs
<1>5. PICK b4, p4 : /\ PlaceDue(St(b, p), St(b3, p3), accepted) = St(b4, p4) /\ b4 \in Seq(DeskOrder)
                    /\ Shaped(p4) /\ p4.count = p3.count /\ Clean(p4)
                    /\ Remembered(b3, p3) => Remembered(b4, p4)
  BY <1>4, PlaceDueIs
<1>6. MultiTick(St(b, p), accepted) = St(b4, p4)
  BY <1>1, <1>3, <1>4, <1>5 DEF MultiTick
<1>7. p4.count = p.count /\ Remembered(b4, p4)
  BY <1>2, <1>3, <1>4, <1>5
<1> QED BY <1>5, <1>6, <1>7

\* A tick of the margin-stress logic forgets no position.
LEMMA MarginKeeps ==
  ASSUME script.trades \in Seq(TradeOf), NEW b \in Seq(DeskOrder), NEW p, Shaped(p), Clean(p), NEW accepted \in BOOLEAN,
         Remembered(b, p)
  PROVE  \E c, q : /\ MarginTick(St(b, p), accepted) = St(c, q) /\ c \in Seq(DeskOrder)
                   /\ Shaped(q) /\ q.count = p.count /\ Clean(q) /\ Remembered(c, q)
<1>1. PICK p1 : MarkDue(St(b, p)) = St(b, p1) /\ Same(p, p1)
  BY MarkDueIs
<1>2. Shaped(p1) /\ Clean(p1) /\ p1.count = p.count /\ Remembered(b, p1)
  BY <1>1, SameRemembered DEF Same, Clean
<1>3. PICK b2, p2 : /\ CloseExpired(St(b, p1)) = St(b2, p2) /\ b2 \in Seq(DeskOrder) /\ DOMAIN b2 = DOMAIN b
                    /\ Shaped(p2) /\ p2.count = p1.count /\ Clean(p2)
                    /\ Remembered(b, p1) => Remembered(b2, p2)
  BY <1>2, CloseExpiredIs
<1>4. PICK b3, p3 : /\ ProcessCloseEvents(St(b2, p2)) = St(b3, p3) /\ b3 \in Seq(DeskOrder) /\ DOMAIN b3 = DOMAIN b2
                    /\ Shaped(p3) /\ p3.count = p2.count /\ Clean(p3)
                    /\ Remembered(b2, p2) => Remembered(b3, p3)
  BY <1>3, CloseEventsIs
<1>5. PICK b4, p4 : /\ PlaceDue(St(b, p), St(b3, p3), accepted) = St(b4, p4) /\ b4 \in Seq(DeskOrder)
                    /\ Shaped(p4) /\ p4.count = p3.count /\ Clean(p4)
                    /\ Remembered(b3, p3) => Remembered(b4, p4)
  BY <1>4, PlaceDueIs
<1>6. MarginTick(St(b, p), accepted) = St(b4, p4)
  BY <1>1, <1>3, <1>4, <1>5 DEF MarginTick
<1>7. p4.count = p.count /\ Remembered(b4, p4)
  BY <1>2, <1>3, <1>4, <1>5
<1> QED BY <1>5, <1>6, <1>7

\* The event logic closes in part and asks for the end, and closes nothing
\* twice.
LEMMA EventClosesIs ==
  ASSUME NEW b \in Seq(DeskOrder), NEW p, Shaped(p), Clean(p)
  PROVE  \E c, q : /\ MaybeRequestSessionEnd(MaybePartialClose(St(b, p))) = St(c, q)
                   /\ c \in Seq(DeskOrder) /\ Shaped(q) /\ Clean(q)
<1>3. PICK s : s = St(b, p)
  OBVIOUS
<1>4. s.b = b /\ s.p = p
  BY <1>3, StIs
<1>5. PICK S : S = {i \in EndedIds(s) : Closable(s, i)}
  OBVIOUS
<1>6. \A i \in S : i \in OpenPositions(b) /\ b[i].close = "no"
  BY <1>4, <1>5 DEF Closable
<1>7. PICK how \in {"all", "part"} : how = "part"
  OBVIOUS
<1>8. PICK c \in Seq(DeskOrder) :
           /\ AskClose(St(b, p), S, how) = St(c, p) /\ DOMAIN c = DOMAIN b
           /\ \A i \in DOMAIN b : /\ c[i].st = b[i].st /\ c[i].kind = b[i].kind
                                  /\ i \in S => c[i].close = how
                                  /\ c[i].refused = b[i].refused
                                  /\ i \notin S => c[i] = b[i]
  <2>1. Closeable(b, S)
    BY <1>6 DEF Closeable
  <2>2. PICK c : Asked(b, c, p, S, how)
    BY <2>1, AskCloses
  <2> QED BY <2>2 DEF Asked
<1>9. PICK x : x = IF S = {} THEN p.closed ELSE p.closed \cup DueEnds(s)
  OBVIOUS
<1>10. PICK p1 : p1 = [p EXCEPT !.closed = x]
  OBVIOUS
<1>11. Same(p, p1)
  BY <1>10, ClosedIs
<1>12. MaybePartialClose(s) = St(c, p1)
  <2>1. PICK s0 : s0 = St(c, p)
    OBVIOUS
  <2>2. s0.p = p /\ \A z : [s0 EXCEPT !.p = z] = St(c, z)
    BY <2>1, StIs
  <2>3. [s0 EXCEPT !.p.closed = IF S = {} THEN @ ELSE @ \cup DueEnds(s)] = St(c, p1)
    BY <1>9, <1>10, <2>2
  <2>4. MaybePartialClose(s) = [s0 EXCEPT !.p.closed = IF S = {} THEN @ ELSE @ \cup DueEnds(s)]
    BY <1>3, <1>5, <1>7, <1>8, <2>1 DEF MaybePartialClose
  <2> QED BY <2>3, <2>4
<1>13. PICK s2 : s2 = St(c, p1)
  OBVIOUS
<1>14. s2.p = p1 /\ \A z : [s2 EXCEPT !.p = z] = St(c, z)
  BY <1>13, StIs
<1>15. PICK y : y = (p1.ended \/ p1.count = script.endAt)
  OBVIOUS
<1>16. PICK p2 : p2 = [p1 EXCEPT !.ended = y]
  OBVIOUS
<1>17. MaybeRequestSessionEnd(s2) = St(c, p2)
  BY <1>14, <1>15, <1>16 DEF MaybeRequestSessionEnd
<1>18. Shaped(p1) /\ Clean(p1)
  BY <1>11 DEF Same, Clean
<1>19. Same(p1, p2)
  BY <1>16, <1>18, EndedIs
<1>20. Shaped(p2) /\ Clean(p2)
  BY <1>18, <1>19 DEF Same, Clean
<1> QED BY <1>3, <1>8, <1>12, <1>13, <1>17, <1>20

\* A tick of the event logic closes nothing twice.
LEMMA EventKeeps ==
  ASSUME script.trades \in Seq(TradeOf), NEW b \in Seq(DeskOrder), NEW p, Shaped(p), Clean(p), NEW accepted \in BOOLEAN
  PROVE  \E c, q : /\ EventTick(St(b, p), accepted) = St(c, q) /\ c \in Seq(DeskOrder) /\ Shaped(q) /\ Clean(q)
<1>1. PICK p1 : MarkDue(St(b, p)) = St(b, p1) /\ Same(p, p1)
  BY MarkDueIs
<1>2. Shaped(p1) /\ Clean(p1)
  BY <1>1 DEF Same, Clean
<1>3. PICK b2, p2 : /\ MaybeRequestSessionEnd(MaybePartialClose(St(b, p1))) = St(b2, p2)
                    /\ b2 \in Seq(DeskOrder) /\ Shaped(p2) /\ Clean(p2)
  BY <1>2, EventClosesIs
<1>4. PICK b3, p3 : /\ PlaceDue(St(b, p), St(b2, p2), accepted) = St(b3, p3) /\ b3 \in Seq(DeskOrder)
                    /\ Shaped(p3) /\ p3.count = p2.count /\ Clean(p3)
                    /\ Remembered(b2, p2) => Remembered(b3, p3)
  BY <1>3, PlaceDueIs
<1>5. EventTick(St(b, p), accepted) = St(b3, p3)
  BY <1>1, <1>3, <1>4 DEF EventTick
<1> QED BY <1>4, <1>5

\* What a scripted logic keeps true.
ProbeInv(l, b, p) ==
  /\ b \in Seq(DeskOrder) /\ Shaped(p) /\ Clean(p)
  /\ l = "deterministic" => Alone("deterministic", b)
  /\ l \in {"multi", "margin"} => Remembered(b, p)

\* Between two ticks no position appears that is not noted.
LEMMA TickRemembers ==
  ASSUME book \in Seq(DeskOrder), NEW p, Remembered(book, p), NEW b \in AfterTick
  PROVE  Remembered(b, p)
<1>1. DOMAIN b = DOMAIN book /\ \A i \in DOMAIN book : Became(book[i], b[i])
  BY AfterTickIs
<1> SUFFICES ASSUME NEW i \in DOMAIN b, b[i].st # "gone", b[i].close # "all", "close" \notin b[i].refused
             PROVE  i \in DOMAIN p.active \cup p.dropped
  BY DEF Remembered
<1>2. book[i].st # "gone" /\ book[i].close # "all" /\ "close" \notin book[i].refused
  BY <1>1 DEF Became
<1> QED BY <1>1, <1>2 DEF Remembered

\* A tick of a scripted logic keeps its invariant.
LEMMA ProbeTickKeeps ==
  ASSUME ProbeInv(logic, book, probe), script \in Scripts[logic], ProbeTick
  PROVE  /\ ProbeInv(logic, book', probe') /\ logic' = logic /\ script' = script
         /\ logic = "deterministic" => (ScriptOff(probe'.count) => CloseAsked(book'))
<1>1. logic \in ProbeLogics /\ logic' = logic /\ script' = script
  BY DEF ProbeTick
<1>2. PICK b \in AfterTick, accepted \in BOOLEAN :
        LET s == [b |-> b, p |-> [probe EXCEPT !.count = @ + 1]]
            t == CASE logic = "deterministic" -> DeterministicTick(s, accepted)
                   [] logic = "multi" -> MultiTick(s, accepted)
                   [] logic = "margin" -> MarginTick(s, accepted)
                   [] logic = "event" -> EventTick(s, accepted)
        IN  book' = t.b /\ probe' = t.p
  BY DEF ProbeTick
<1>3. PICK p : p = [probe EXCEPT !.count = @ + 1]
  OBVIOUS
<1>4. Shaped(p) /\ p.twice = probe.twice /\ p.active = probe.active /\ p.dropped = probe.dropped
  <2>1. PICK x : x = probe.count + 1
    OBVIOUS
  <2>2. LET q == [probe EXCEPT !.count = x] IN
         Shaped(q) /\ q.count = x /\ q.twice = probe.twice /\ q.active = probe.active /\ q.dropped = probe.dropped
    BY CountIs DEF ProbeInv
  <2> QED BY <1>3, <2>1, <2>2
<1>5. Clean(p) /\ (Remembered(book, probe) => Remembered(book, p))
  BY <1>4 DEF ProbeInv, Clean, Remembered
<1>6. b \in Seq(DeskOrder)
  BY AfterTickIs DEF ProbeInv
<1>7. PICK s : s = St(b, p)
  OBVIOUS
<1>8. LET t == CASE logic = "deterministic" -> DeterministicTick(s, accepted)
                   [] logic = "multi" -> MultiTick(s, accepted)
                   [] logic = "margin" -> MarginTick(s, accepted)
                   [] logic = "event" -> EventTick(s, accepted)
      IN  book' = t.b /\ probe' = t.p
  BY <1>2, <1>3, <1>7 DEF St
<1>9. script.trades \in Seq(TradeOf)
  BY <1>1, ScriptIs
<1>10. CASE logic = "deterministic"
  <2>1. Alone("deterministic", b)
    <3>1. Alone("deterministic", book) /\ OwnKinds("deterministic", book)
      BY <1>10 DEF ProbeInv, OwnKinds
    <3> QED BY <3>1, TickKeepsOne DEF ProbeInv
  <2>2. PICK c, q : /\ DeterministicTick(St(b, p), accepted) = St(c, q)
                    /\ c \in Seq(DeskOrder) /\ Same(p, q) /\ Alone("deterministic", c)
                    /\ ScriptOff(p.count) => CloseAsked(c)
    BY <1>4, <1>5, <1>6, <1>10, <2>1, DeterministicKeeps
  <2>3. book' = c /\ probe' = q
    BY <1>7, <1>8, <1>10, <2>2, StIs
  <2>4. Shaped(q) /\ Clean(q) /\ q.count = p.count
    BY <1>5, <2>2 DEF Same, Clean
  <2>5. ProbeInv(logic, c, q)
    BY <1>10, <2>2, <2>4 DEF ProbeInv
  <2> QED BY <1>1, <2>2, <2>3, <2>4, <2>5
<1>11. CASE logic = "multi"
  <2>1. Remembered(b, p)
    BY <1>5, <1>11, TickRemembers DEF ProbeInv
  <2>2. PICK c, q : /\ MultiTick(St(b, p), accepted) = St(c, q) /\ c \in Seq(DeskOrder)
                    /\ Shaped(q) /\ q.count = p.count /\ Clean(q) /\ Remembered(c, q)
    BY <1>4, <1>5, <1>6, <1>9, <2>1, MultiKeeps
  <2>3. book' = c /\ probe' = q
    BY <1>7, <1>8, <1>11, <2>2, StIs
  <2>4. ProbeInv(logic, c, q)
    BY <1>11, <2>2 DEF ProbeInv
  <2> QED BY <1>1, <1>11, <2>3, <2>4
<1>12. CASE logic = "margin"
  <2>1. Remembered(b, p)
    BY <1>5, <1>12, TickRemembers DEF ProbeInv
  <2>2. PICK c, q : /\ MarginTick(St(b, p), accepted) = St(c, q) /\ c \in Seq(DeskOrder)
                    /\ Shaped(q) /\ q.count = p.count /\ Clean(q) /\ Remembered(c, q)
    BY <1>4, <1>5, <1>6, <1>9, <2>1, MarginKeeps
  <2>3. book' = c /\ probe' = q
    BY <1>7, <1>8, <1>12, <2>2, StIs
  <2>4. ProbeInv(logic, c, q)
    BY <1>12, <2>2 DEF ProbeInv
  <2> QED BY <1>1, <1>12, <2>3, <2>4
<1>13. CASE logic = "event"
  <2>2. PICK c, q : EventTick(St(b, p), accepted) = St(c, q) /\ c \in Seq(DeskOrder) /\ Shaped(q) /\ Clean(q)
    BY <1>4, <1>5, <1>6, <1>9, EventKeeps
  <2>3. book' = c /\ probe' = q
    BY <1>7, <1>8, <1>13, <2>2, StIs
  <2>4. ProbeInv(logic, c, q)
    BY <1>13, <2>2 DEF ProbeInv
  <2> QED BY <1>1, <1>13, <2>3, <2>4
<1> QED BY <1>1, <1>10, <1>11, <1>12, <1>13 DEF ProbeLogics

-----------------------------------------------------------------------------
(* The field study: an abort closes and cancels, and sends nothing.         *)

\* A sequence of anything.
IsSeq(f) == \E S : f \in Seq(S)

\* A change of every element of a sequence is a sequence.
LEMMA SeqMapped ==
  ASSUME NEW f, IsSeq(f), NEW g, DOMAIN g = DOMAIN f, g = [i \in DOMAIN f |-> g[i]]
  PROVE  IsSeq(g) /\ Len(g) = Len(f)
<1>1. PICK S : f \in Seq(S)
  BY DEF IsSeq
<1>2. PICK n \in Nat : n = Len(f) /\ DOMAIN f = 1 .. n
  BY <1>1
<1>3. PICK T : T = {g[i] : i \in 1 .. n}
  OBVIOUS
<1>4. g \in [1 .. n -> T]
  BY <1>2, <1>3
<1>5. g \in Seq(T) /\ Len(g) = n
  BY <1>4
<1> QED BY <1>2, <1>5 DEF IsSeq

\* Appending to a sequence makes a sequence.
LEMMA SeqAppended ==
  ASSUME NEW f, IsSeq(f), NEW v
  PROVE  IsSeq(Append(f, v))
<1>1. PICK S : f \in Seq(S)
  BY DEF IsSeq
<1>2. f \in Seq(S \cup {v})
  BY <1>1
<1>3. Append(f, v) \in Seq(S \cup {v})
  BY <1>2
<1> QED BY <1>3 DEF IsSeq

\* A change of one element of a sequence is a sequence.
LEMMA SeqChanged ==
  ASSUME NEW f, IsSeq(f), NEW i, NEW v
  PROVE  IsSeq([f EXCEPT ![i] = v])
<1>1. PICK S : f \in Seq(S)
  BY DEF IsSeq
<1>2. PICK n \in Nat : n = Len(f) /\ f \in [1 .. n -> S]
  BY <1>1
<1>3. PICK g, T : g = [f EXCEPT ![i] = v] /\ T = S \cup {v}
  OBVIOUS
<1>4. g \in [1 .. n -> T]
  BY <1>2, <1>3
<1>5. g \in Seq(T)
  BY <1>4
<1> QED BY <1>3, <1>5 DEF IsSeq

\* What the field study keeps true: an abort has asked for the end.
StudyInv ==
  /\ session = [age |-> session.age, abort |-> session.abort]
  /\ ended = "no" => session.abort = FALSE
  /\ IsSeq(desk)

\* The calls the study makes for what is there already.
LEMMA DeskCalls ==
  ASSUME NEW d, IsSeq(d)
  PROVE  /\ IsSeq(CloseAll(d)) /\ Len(CloseAll(d)) = Len(d)
         /\ IsSeq(ClosePartial(d)) /\ Len(ClosePartial(d)) = Len(d)
         /\ IsSeq(CancelResting(d)) /\ Len(CancelResting(d)) = Len(d)
<1>1. ASSUME NEW S, NEW how PROVE IsSeq(Closing(d, S, how)) /\ Len(Closing(d, S, how)) = Len(d)
  <2>1. PICK g : g = Closing(d, S, how)
    OBVIOUS
  <2>2. DOMAIN g = DOMAIN d /\ g = [i \in DOMAIN d |-> g[i]]
    BY <2>1 DEF Closing
  <2> QED BY <2>1, <2>2, SeqMapped
<1>2. IsSeq(CancelResting(d)) /\ Len(CancelResting(d)) = Len(d)
  <2>1. PICK g : g = CancelResting(d)
    OBVIOUS
  <2>2. DOMAIN g = DOMAIN d /\ g = [i \in DOMAIN d |-> g[i]]
    BY <2>1 DEF CancelResting
  <2> QED BY <2>1, <2>2, SeqMapped
<1> QED BY <1>1, <1>2 DEF CloseAll, ClosePartial

\* What the study executes sends an order only as an entry.
LEMMA ExecuteIs ==
  ASSUME NEW action, NEW entry, NEW d, NEW f, NEW late, NEW e, IsSeq(d), Execute(action, entry, d, f, late, e)
  PROVE  /\ IsSeq(desk') /\ ended' \in {"asked", e}
         /\ ~entry => Len(desk') = Len(d)
<1>1. ended' \in {"asked", e}
  BY DEF Execute
<1>2. CASE ~Sends(action, entry)
  <2>1. desk' = CASE action = "close" -> CloseAll(d)
                       [] action = "half" -> ClosePartial(d)
                       [] action = "cancel" -> CancelResting(d)
                       [] OTHER -> d
    BY <1>2 DEF Execute
  <2>2. desk' \in {CloseAll(d), ClosePartial(d), CancelResting(d), d}
    BY <2>1
  <2>3. IsSeq(desk') /\ Len(desk') = Len(d)
    BY <2>2, DeskCalls
  <2> QED BY <1>1, <2>3
<1>3. CASE Sends(action, entry)
  <2>1. PICK o : desk' = Append(d, o)
    BY <1>3 DEF Execute
  <2>2. entry
    BY <1>3 DEF Sends
  <2> QED BY <1>1, <2>1, <2>2, SeqAppended
<1> QED BY <1>2, <1>3

\* The pass of the study that aborts, or goes on, sends nothing after the
\* abort.
LEMMA PassSendsNothing ==
  ASSUME StudyInv, ended = "no", NEW f, NEW late, NEW paid, SafeAbort(f, late, paid) \/ Advance(f, late, paid)
  PROVE  StudyInv' /\ AbortSendsNothing
<1>0. session = [age |-> session.age, abort |-> session.abort] /\ session.abort = FALSE /\ IsSeq(desk)
  BY DEF StudyInv
<1>1. CASE SafeAbort(f, late, paid)
  <2>1. PICK d : d = CancelResting(CloseAll(desk))
    OBVIOUS
  <2>2. session' = [session EXCEPT !.abort = TRUE] /\ Execute(pending, FALSE, d, f, late, "asked")
    BY <1>1, <2>1 DEF SafeAbort
  <2>3. IsSeq(d) /\ Len(d) = Len(desk)
    BY <1>0, <2>1, DeskCalls
  <2>4. IsSeq(desk') /\ ended' = "asked" /\ Len(desk') = Len(desk)
    BY <2>2, <2>3, ExecuteIs
  <2>5. session' = [age |-> session'.age, abort |-> session'.abort]
    BY <1>0, <2>2
  <2> QED BY <2>4, <2>5 DEF StudyInv, AbortSendsNothing
<1>2. CASE Advance(f, late, paid)
  <2>1. session' = [session EXCEPT !.age = IF @ < 0 THEN 0 ELSE @]
    BY <1>2 DEF Advance
  <2>2. PICK x : x = IF session.age < 0 THEN 0 ELSE session.age
    OBVIOUS
  <2>3. session' = [age |-> x, abort |-> session.abort]
    BY <1>0, <2>1, <2>2
  <2>4. session' = [age |-> session'.age, abort |-> session'.abort] /\ session'.abort = FALSE
    BY <1>0, <2>3
  <2>5. IsSeq(desk')
    <3>1. \E action, entry, g : Execute(action, entry, desk, g, late, ended)
      BY <1>2 DEF Advance
    <3> QED BY <1>0, <3>1, ExecuteIs
  <2> QED BY <2>4, <2>5 DEF StudyInv, AbortSendsNothing
<1> QED BY <1>1, <1>2

\* A step of the field study: an abort sends nothing.
LEMMA StudySendsNothing ==
  ASSUME StudyInv, StudyNext
  PROVE  StudyInv' /\ AbortSendsNothing
<1>0. /\ session = [age |-> session.age, abort |-> session.abort]
      /\ ended = "no" => session.abort = FALSE
      /\ IsSeq(desk)
  BY DEF StudyInv
<1>1. CASE StudyTick
  <2>1. ended = "no" /\ (SafeAbort(flags, events, cost) \/ Advance(flags, events, cost))
    BY <1>1 DEF StudyTick
  <2> QED BY <2>1, PassSendsNothing
<1>2. CASE StudyHeartbeat
  <2>1. ended = "no" /\ (SafeAbort(Deliver(flags, events), NoEvents, Paid(events)) \/
                         Advance(Deliver(flags, events), NoEvents, Paid(events)))
    BY <1>2 DEF StudyHeartbeat
  <2>2. PICK f, paid : f = Deliver(flags, events) /\ paid = Paid(events)
    OBVIOUS
  <2>3. SafeAbort(f, NoEvents, paid) \/ Advance(f, NoEvents, paid)
    BY <2>1, <2>2
  <2> QED BY <2>1, <2>3, PassSendsNothing
<1>3. CASE StudyClock
  <2>1. /\ ended = "no" /\ ended' = ended /\ desk' = desk
        /\ session' = [session EXCEPT !.age = IF @ > SessionTimeout THEN @ ELSE @ + 1]
    BY <1>3 DEF StudyClock
  <2>2. PICK x : x = IF session.age > SessionTimeout THEN session.age ELSE session.age + 1
    OBVIOUS
  <2>3. session' = [age |-> x, abort |-> session.abort]
    BY <1>0, <2>1, <2>2
  <2>4. session' = [age |-> session'.age, abort |-> session'.abort] /\ session'.abort = FALSE
    BY <1>0, <2>1, <2>3
  <2> QED BY <1>0, <2>1, <2>4 DEF StudyInv, AbortSendsNothing
<1>4. CASE BrokerAnswers
  <2>1. ended = "no" /\ ended' = ended /\ session' = session
    BY <1>4 DEF BrokerAnswers
  <2>2. \E i, v : desk' = [desk EXCEPT ![i] = v]
    <3>1. PICK i \in DOMAIN desk :
            \/ desk' = [desk EXCEPT ![i].st = "open", ![i].hit = TRUE]
            \/ desk' = [desk EXCEPT ![i].st = "rejected"]
            \/ desk' = [desk EXCEPT ![i].st = "cancelled"]
            \/ desk' = [desk EXCEPT ![i].cancel = FALSE]
            \/ desk' = [desk EXCEPT ![i].st = "closed"]
            \/ desk' = [desk EXCEPT ![i].close = "no", ![i].lots = 1]
            \/ desk' = [desk EXCEPT ![i].close = "no"]
      BY <1>4 DEF BrokerAnswers
    <3>2. PICK a, b : a = [desk[i] EXCEPT !.st = "open", !.hit = TRUE] /\ b = [desk[i] EXCEPT !.close = "no", !.lots = 1]
      OBVIOUS
    <3>3. desk' = [desk EXCEPT ![i].st = "open", ![i].hit = TRUE] => desk' = [desk EXCEPT ![i] = a]
      BY <3>2
    <3>4. desk' = [desk EXCEPT ![i].close = "no", ![i].lots = 1] => desk' = [desk EXCEPT ![i] = b]
      BY <3>2
    <3> QED BY <3>1, <3>3, <3>4
  <2>3. IsSeq(desk')
    <3>1. PICK d, i, v : d = desk /\ desk' = [d EXCEPT ![i] = v]
      BY <2>2
    <3>2. IsSeq([d EXCEPT ![i] = v])
      BY <1>0, <3>1, SeqChanged
    <3> QED BY <3>1, <3>2
  <2> QED BY <1>0, <2>1, <2>3 DEF StudyInv, AbortSendsNothing
<1>5. CASE EndStudy
  <2>1. ended' = "over" /\ session' = session
    BY <1>5 DEF EndStudy
  <2>2. PICK S : desk' = [i \in DOMAIN desk |-> IF i \in S THEN [desk[i] EXCEPT !.st = "cancelled"] ELSE desk[i]]
    BY <1>5 DEF EndStudy
  <2>3. PICK g : g = desk'
    OBVIOUS
  <2>4. DOMAIN g = DOMAIN desk /\ g = [i \in DOMAIN desk |-> g[i]]
    BY <2>2, <2>3
  <2>5. IsSeq(desk') /\ Len(desk') = Len(desk)
    BY <1>0, <2>3, <2>4, SeqMapped
  <2> QED BY <1>0, <2>1, <2>5 DEF StudyInv, AbortSendsNothing
<1> QED BY <1>1, <1>2, <1>3, <1>4, <1>5 DEF StudyNext

-----------------------------------------------------------------------------
(* The logics together.                                                     *)

\* What the logic that runs keeps true; the others do nothing.
LogicsInv ==
  /\ StudyInv
  /\ logic \in StrategyLogics => StrategyInv(logic, book, macd)
  /\ logic \notin StrategyLogics => macd.even = FALSE
  /\ logic = "trend" => TrendInv(book, risk, resting) /\ mode \in {"LIMIT", "STOP"} /\ channel \in Chan
  /\ logic \in ProbeLogics => ProbeInv(logic, book, probe) /\ script \in Scripts[logic]
  /\ logic \notin ProbeLogics => Clean(probe)
  /\ logic = "deterministic" => (ScriptOff(probe.count) => CloseAsked(book))

\* The desk before the first tick.
LEMMA EmptyBook ==
  /\ <<>> \in Seq(DeskOrder) /\ DOMAIN <<>> = {} /\ Live(<<>>) = {} /\ OpenPositions(<<>>) = {} /\ IsSeq(<<>>)
<1>1. <<>> \in Seq(DeskOrder) /\ DOMAIN <<>> = {}
  OBVIOUS
<1>2. Live(<<>>) = {} /\ OpenPositions(<<>>) = {}
  BY <1>1, LiveIs
<1> QED BY <1>1, <1>2 DEF IsSeq

\* The invariant holds when the session starts.
LEMMA LogicsStart ==
  ASSUME MCInit
  PROVE  LogicsInv
<1>1. PICK b : b = <<>> /\ book = b /\ resting = b /\ risk = b /\ desk = b
  BY DEF MCInit, StudyInit, StrategyInit, TrendInit
<1>2. b \in Seq(DeskOrder) /\ DOMAIN b = {} /\ Live(b) = {} /\ OpenPositions(b) = {} /\ IsSeq(b)
  BY <1>1, EmptyBook
<1>3. macd \in Macd /\ macd.even = FALSE
  BY DEF MCInit, StrategyInit, NoMacd, Macd
<1>4. StudyInv
  <2>1. session = [age |-> -1, abort |-> FALSE]
    BY DEF MCInit, StudyInit
  <2>2. session = [age |-> session.age, abort |-> session.abort] /\ session.abort = FALSE
    BY <2>1
  <2> QED BY <1>1, <1>2, <2>2 DEF StudyInv
<1>5. StrategyInv(logic, b, macd)
  <2>1. Alone(logic, b) /\ OwnKinds(logic, b)
    BY <1>2 DEF Alone, OwnKinds
  <2>2. EvenOnly(logic, b) /\ EvenKept(b, macd)
    BY <1>2, <1>3 DEF EvenOnly, EvenKept
  <2> QED BY <1>2, <1>3, <2>1, <2>2 DEF StrategyInv
<1>6. TrendInv(b, b, b)
  <2>1. b \in [DOMAIN b -> Int] /\ b \in [DOMAIN b -> Noted] /\ DOMAIN b \subseteq Nat
    BY <1>1, <1>2
  <2>2. Ratchets(b) /\ Tracked(b, b)
    BY <1>2 DEF Ratchets, Tracked
  <2> QED BY <1>2, <2>1, <2>2 DEF TrendInv
<1>7. mode \in {"LIMIT", "STOP"} /\ channel \in Chan
  BY DEF MCInit, TrendInit, Chan
<1>8. Shaped(probe) /\ Clean(probe)
  BY DEF MCInit, FreshProbe, Shaped, Clean
<1>9. ProbeInv(logic, b, probe)
  <2>1. Alone("deterministic", b) /\ Remembered(b, probe)
    BY <1>2 DEF Alone, Remembered
  <2> QED BY <1>2, <1>8, <2>1 DEF ProbeInv
<1>10. logic \in ProbeLogics => script \in Scripts[logic]
  BY DEF MCInit, ProbeInit
<1>11. CloseAsked(b)
  BY <1>2 DEF CloseAsked
<1> QED BY <1>1, <1>3, <1>4, <1>5, <1>6, <1>7, <1>8, <1>9, <1>10, <1>11 DEF LogicsInv

\* The names of the logics differ.
LogicNames ==
  /\ {"STOP", "STOP_LIMIT", "consensus", "aggressive", "hybrid"} = StrategyLogics
  /\ "study" \notin StrategyLogics \cup ProbeLogics /\ "trend" \notin StrategyLogics \cup ProbeLogics
  /\ StrategyLogics \cap ProbeLogics = {} /\ "deterministic" \in ProbeLogics

\* Each logic is one of its own family.
LEMMA NamesDiffer == LogicNames
  BY DEF LogicNames, StrategyLogics, ProbeLogics

\* A step of whichever logic runs keeps the invariant, sends nothing on
\* abort and only ratchets stops.
LEMMA LogicsStep ==
  ASSUME LogicsInv, MCNext
  PROVE  LogicsInv' /\ AbortSendsNothing /\ StopRatchets
<1>0. /\ StudyInv
      /\ logic \in StrategyLogics => StrategyInv(logic, book, macd)
      /\ logic \notin StrategyLogics => macd.even = FALSE
      /\ logic = "trend" => TrendInv(book, risk, resting) /\ mode \in {"LIMIT", "STOP"} /\ channel \in Chan
      /\ logic \in ProbeLogics => ProbeInv(logic, book, probe) /\ script \in Scripts[logic]
      /\ logic \notin ProbeLogics => Clean(probe)
      /\ logic = "deterministic" => (ScriptOff(probe.count) => CloseAsked(book))
  BY DEF LogicsInv
<1>1. CASE logic = "study" /\ StudyNext /\ UNCHANGED <<strategyVars, trendVars, script, probe>>
  <2>1. logic' = "study" /\ macd' = macd /\ probe' = probe
    BY <1>1 DEF strategyVars, trendVars
  <2>2. StudyInv' /\ AbortSendsNothing
    BY <1>0, <1>1, StudySendsNothing
  <2>3. StopRatchets
    BY <1>1 DEF StopRatchets
  <2>4. Clean(probe)' /\ macd'.even = FALSE
    BY <1>0, <1>1, <2>1, NamesDiffer DEF LogicNames, Clean
  <2>5. LogicsInv'
    BY <2>1, <2>2, <2>4, NamesDiffer DEF LogicNames, LogicsInv
  <2> QED BY <2>2, <2>3, <2>5
<1>00. ASSUME UNCHANGED studyVars PROVE StudyInv' /\ AbortSendsNothing
  <2>1. session' = session /\ ended' = ended /\ desk' = desk
    BY <1>00 DEF studyVars
  <2> QED BY <1>0, <2>1 DEF StudyInv, AbortSendsNothing
<1>2. CASE StrategyNext /\ UNCHANGED <<studyVars, mode, channel, resting, risk, partial, script, probe>>
  <2>1. StudyInv' /\ AbortSendsNothing /\ probe' = probe
    BY <1>2, <1>00
  <2>2. logic \in StrategyLogics
    BY <1>2, NamesDiffer DEF StrategyNext, SignalTick, MacdTick, LogicNames
  <2>3. StrategyInv(logic, book, macd)
    BY <1>0, <2>2
  <2>4. StrategyInv(logic, book', macd') /\ logic' = logic
    BY <1>2, <2>3, SignalTickKeeps, MacdTickKeeps DEF StrategyNext
  <2>5. logic # "trend" /\ logic \notin ProbeLogics /\ logic # "deterministic"
    BY <2>2, NamesDiffer DEF LogicNames
  <2>6. StopRatchets
    BY <2>5 DEF StopRatchets
  <2>7. Clean(probe)'
    BY <1>0, <2>1, <2>5 DEF Clean
  <2>8. LogicsInv'
    BY <2>1, <2>2, <2>4, <2>5, <2>7 DEF LogicsInv
  <2> QED BY <2>1, <2>6, <2>8
<1>3. CASE TrendTick /\ UNCHANGED <<studyVars, macd, script, probe>>
  <2>1. StudyInv' /\ AbortSendsNothing /\ probe' = probe /\ macd' = macd
    BY <1>3, <1>00
  <2>2. logic = "trend"
    BY <1>3 DEF TrendTick
  <2>3. /\ TrendInv(book', risk', resting') /\ channel' \in Chan /\ mode' = mode /\ logic' = logic
        /\ StopRatchets
    BY <1>0, <1>3, <2>2, TrendTickKeeps
  <2>4. logic \notin StrategyLogics /\ logic \notin ProbeLogics /\ logic # "deterministic"
    BY <2>2, NamesDiffer DEF LogicNames
  <2>5. Clean(probe)' /\ macd'.even = FALSE
    BY <1>0, <2>1, <2>4 DEF Clean
  <2>6. LogicsInv'
    BY <1>0, <2>1, <2>2, <2>3, <2>4, <2>5 DEF LogicsInv
  <2> QED BY <2>1, <2>3, <2>6
<1>4. CASE ProbeTick /\ UNCHANGED <<studyVars, macd, mode, channel, resting, risk, partial>>
  <2>1. StudyInv' /\ AbortSendsNothing /\ macd' = macd
    BY <1>4, <1>00
  <2>2. logic \in ProbeLogics
    BY <1>4 DEF ProbeTick
  <2>3. /\ ProbeInv(logic, book', probe') /\ logic' = logic /\ script' = script
        /\ logic = "deterministic" => (ScriptOff(probe'.count) => CloseAsked(book'))
    BY <1>0, <1>4, <2>2, ProbeTickKeeps
  <2>4. logic \notin StrategyLogics /\ logic # "trend"
    BY <2>2, NamesDiffer DEF LogicNames
  <2>5. macd'.even = FALSE
    BY <1>0, <2>1, <2>4
  <2>6. StopRatchets
    BY <2>4 DEF StopRatchets
  <2>7. ScriptOff(probe.count)' => ScriptOff(probe'.count)
    BY <2>3 DEF ScriptOff, InWindow
  <2>8. (logic = "deterministic" => (ScriptOff(probe.count) => CloseAsked(book)))'
    BY <2>3, <2>7 DEF CloseAsked, OpenPositions, In
  <2>9. LogicsInv'
    BY <1>0, <2>1, <2>2, <2>3, <2>4, <2>5, <2>8 DEF LogicsInv
  <2> QED BY <2>1, <2>6, <2>9
<1> QED BY <1>1, <1>2, <1>3, <1>4 DEF MCNext

\* A set all of whose members are equal has one at most.
LEMMA AtMostOne ==
  ASSUME NEW S, \A x, y \in S : x = y
  PROVE  Cardinality(S) <= 1
<1>1. CASE S = {}
  BY <1>1, FS_EmptySet
<1>2. CASE S # {}
  <2>1. PICK x \in S : S = {x}
    BY <1>2
  <2> QED BY <2>1, FS_Singleton
<1> QED BY <1>1, <1>2

\* The invariant implies that the logic knows its exposure.
LEMMA LogicsKnow ==
  ASSUME LogicsInv
  PROVE  ExposureKnown
<1>0. /\ logic \in StrategyLogics => StrategyInv(logic, book, macd)
      /\ logic \notin StrategyLogics => macd.even = FALSE
      /\ logic = "trend" => TrendInv(book, risk, resting)
      /\ logic \in ProbeLogics => ProbeInv(logic, book, probe)
      /\ logic \notin ProbeLogics => Clean(probe)
      /\ logic = "deterministic" => (ScriptOff(probe.count) => CloseAsked(book))
  BY DEF LogicsInv
<1>1. OneExposure
  <2> SUFFICES ASSUME logic \in StrategyLogics, \A i \in DOMAIN book : ~(logic = "STOP_LIMIT" /\ book[i].kind = "LIMIT")
               PROVE  Cardinality(In(book, {"queue", "active", "open"})) <= 1
    BY DEF OneExposure
  <2>1. Alone(logic, book)
    BY <1>0 DEF StrategyInv
  <2>2. \A i, j \in Live(book) : i = j
    <3>1. \A i \in Live(book) : i \in DOMAIN book
      BY LiveIs
    <3> QED BY <2>1, <3>1 DEF Alone
  <2>3. Cardinality(Live(book)) <= 1
    BY <2>2, AtMostOne
  <2> QED BY <2>3 DEF Live
<1>2. BreakEvenCurrent
  <2> SUFFICES ASSUME macd.even, macd.pos \in OpenPositions(book)
               PROVE  AtEntry(book[macd.pos])
    BY DEF BreakEvenCurrent, AtEntry
  <2>1. logic \in StrategyLogics
    BY <1>0
  <2>2. EvenKept(book, macd)
    BY <1>0, <2>1 DEF StrategyInv
  <2>3. book[macd.pos].st = "open"
    BY LiveIs
  <2> QED BY <2>2, <2>3 DEF EvenKept
<1>3. EntryTracked
  <2> SUFFICES ASSUME logic = "trend", NEW i \in In(book, {"queue", "active"})
               PROVE  book[i].op = "cancel" \/ "cancel" \in book[i].refused \/ i \in DOMAIN resting
    BY DEF EntryTracked
  <2>1. Tracked(book, resting)
    BY <1>0 DEF TrendInv
  <2>2. i \in DOMAIN book /\ book[i].st \in {"queue", "active"}
    BY DEF In
  <2> QED BY <2>1, <2>2 DEF Tracked
<1>4. OneCloseAtATime
  BY <1>0 DEF OneCloseAtATime, ProbeInv, Clean
<1>5. ScriptKept
  <2> SUFFICES ASSUME logic = "deterministic"
               PROVE  /\ Cardinality(In(book, {"queue", "active", "open"})) <= 1
                      /\ (\A k \in DOMAIN script.trades : ~InWindow(k, probe.count)) =>
                            \A i \in OpenPositions(book) : book[i].close # "no"
    BY DEF ScriptKept
  <2>1. Alone("deterministic", book)
    BY <1>0, NamesDiffer DEF ProbeInv, LogicNames
  <2>2. \A i, j \in Live(book) : i = j
    BY <2>1 DEF Alone
  <2>3. Cardinality(Live(book)) <= 1
    BY <2>2, AtMostOne
  <2>4. (\A k \in DOMAIN script.trades : ~InWindow(k, probe.count)) => \A i \in OpenPositions(book) : book[i].close # "no"
    BY <1>0 DEF ScriptOff, CloseAsked
  <2> QED BY <2>3, <2>4 DEF Live
<1>6. ClosesRemembered
  <2> SUFFICES ASSUME logic \in {"multi", "margin"}, NEW i \in In(book, {"queue", "open"}), book[i].close # "all",
                      "close" \notin book[i].refused
               PROVE  i \in DOMAIN probe.active \cup probe.dropped
    BY DEF ClosesRemembered
  <2>1. Remembered(book, probe)
    BY <1>0 DEF ProbeInv, ProbeLogics
  <2>2. i \in DOMAIN book /\ book[i].st # "gone"
    BY DEF In
  <2> QED BY <2>1, <2>2 DEF Remembered
<1> QED BY <1>1, <1>2, <1>3, <1>4, <1>5, <1>6 DEF ExposureKnown, ProbesSound

\* A stuttering step keeps the invariant.
LEMMA LogicsStay ==
  ASSUME LogicsInv, UNCHANGED <<studyVars, strategyVars, trendVars, probeVars>>
  PROVE  LogicsInv'
<1>1. /\ session' = session /\ ended' = ended /\ desk' = desk /\ logic' = logic /\ book' = book /\ macd' = macd
      /\ risk' = risk /\ resting' = resting /\ mode' = mode /\ channel' = channel /\ probe' = probe /\ script' = script
  BY DEF studyVars, strategyVars, trendVars, probeVars
<1>2. StudyInv'
  BY <1>1 DEF LogicsInv, StudyInv
<1>3. (ScriptOff(probe.count) => CloseAsked(book)) => (ScriptOff(probe.count) => CloseAsked(book))'
  BY <1>1 DEF ScriptOff, InWindow, CloseAsked, OpenPositions, In
<1> QED BY <1>1, <1>2, <1>3 DEF LogicsInv

\* Every decision logic knows its own exposure, at every tick and whatever
\* becomes of its orders: the one-exposure strategies never hold two, no
\* break-even is remembered from another position, no working entry of the
\* trend logic is forgotten, and a scripted logic neither closes twice nor
\* forgets a position it could have closed.
THEOREM LogicsKnowTheirExposure == MCSpec => []ExposureKnown
<1>1. MCInit => LogicsInv
  BY LogicsStart
<1>2. LogicsInv /\ [MCNext]_<<studyVars, strategyVars, trendVars, probeVars>> => LogicsInv'
  BY LogicsStep, LogicsStay
<1>3. LogicsInv => ExposureKnown
  BY LogicsKnow
<1> QED BY <1>1, <1>2, <1>3, PTL DEF MCSpec

\* No step raises the risk again: the safe abort of the field study closes
\* and cancels but sends no order, and the stop of a trend position only
\* moves in the direction of the trade.
THEOREM LogicsOnlyLowerRisk == MCSpec => RiskOnlyFalls
<1>1. MCInit => LogicsInv
  BY LogicsStart
<1>2. LogicsInv /\ [MCNext]_<<studyVars, strategyVars, trendVars, probeVars>> => LogicsInv'
  BY LogicsStep, LogicsStay
<1>3. LogicsInv /\ [MCNext]_<<studyVars, strategyVars, trendVars, probeVars>> =>
        [AbortSendsNothing /\ StopRatchets]_<<studyVars, trendVars>>
  <2>1. UNCHANGED <<studyVars, strategyVars, trendVars, probeVars>> => UNCHANGED <<studyVars, trendVars>>
    OBVIOUS
  <2> QED BY <2>1, LogicsStep
<1> QED BY <1>1, <1>2, <1>3, PTL DEF MCSpec, RiskOnlyFalls

-----------------------------------------------------------------------------
(* The field study: one entry of a limit_open phase, however it is re-armed. *)

\* An order of the field study's session.
StudyOrder ==
  [ph : Nat, st : {"sent", "rests", "open", "rejected", "cancelled", "closed"}, cancel : BOOLEAN,
   close : {"no", "all", "half"}, lots : Int, hit : BOOLEAN]

\* The fields of the phase machine.
Machined(m) ==
  /\ m = [idx |-> m.idx, st |-> m.st, step |-> m.step, on |-> m.on, age |-> m.age, rearm |-> m.rearm,
          sent |-> m.sent, full |-> m.full, res |-> m.res]
  /\ m.idx \in Nat \ {0} /\ m.age \in Int /\ m.on \in BOOLEAN

\* What counts against the one entry of a limit_open phase.
Counts(o) == o.hit \/ o.st = "rests"
\* The order belongs to a limit_open phase.
Rearms(pl, o) == o.ph \in DOMAIN pl /\ pl[o.ph].type = "limit_open"

\* An order belongs to a phase that has acted; an order of a limit_open phase
\* is never on its way, and if it filled while its phase is on it is the open
\* position nobody closes.
Sound(pl, o, m, e) ==
  /\ o.ph <= m.idx /\ (o.ph = m.idx => m.on = TRUE /\ m.age >= 0)
  /\ Rearms(pl, o) => o.st # "sent"
  /\ o.st = "rests" => o.close = "no"
  /\ Rearms(pl, o) /\ o.ph = m.idx /\ o.hit /\ e = "no" => o.st = "open" /\ o.close = "no"

\* Of the orders of a limit_open phase one counts at most.
Single(pl, d) ==
  \A i, j \in DOMAIN d : d[i].ph = d[j].ph /\ Rearms(pl, d[i]) /\ Counts(d[i]) /\ Counts(d[j]) => i = j

\* The invariant, of a plan, a desk, a machine and the end of the session.
EntryAt(pl, d, m, e) ==
  /\ pl \in Plans /\ d \in Seq(StudyOrder) /\ Machined(m)
  /\ \A i \in DOMAIN d : Sound(pl, d[i], m, e)
  /\ Single(pl, d)

\* What a handler answers: the phase is over, or it waits, or it acts.  A
\* limit_open phase cancels, or submits when nothing rests and, from its
\* second submission on, nothing is open.
Answered(m, p, c, r) ==
  /\ Machined(r.m)
  /\ \/ r.m.idx = m.idx + 1 /\ r.act \in {"none", "end"}
     \/ r.m.idx = m.idx /\ r.m.on = TRUE /\ r.act = "none" /\ (m.age >= 0 => r.m.age >= 0)
     \/ /\ r.m.idx = m.idx /\ r.m.on = TRUE /\ r.m.age = 0
        /\ \/ p.type # "limit_open"
           \/ r.act = "cancel"
           \/ r.act = "limit" /\ c.limits <= 0 /\ (m.age < 0 \/ ~(c.positions > 0))

\* n is m but for what a handler notes for itself.
OnTrack(m, n) == Machined(n) /\ n.idx = m.idx /\ n.on = TRUE /\ n.age = m.age

\* The notes of a handler leave phase and age alone.
LEMMA NotesKeep ==
  ASSUME NEW m, Machined(m), m.on = TRUE
  PROVE  /\ OnTrack(m, m)
         /\ \A x : OnTrack(m, [m EXCEPT !.st = x]) /\ OnTrack(m, [m EXCEPT !.step = x])
         /\ \A x, y : /\ OnTrack(m, [m EXCEPT !.rearm = y, !.st = x])
                      /\ OnTrack(m, [m EXCEPT !.st = x, !.sent = y])
                      /\ OnTrack(m, [m EXCEPT !.full = y, !.st = x])
<1>0. OnTrack(m, m)
  BY DEF OnTrack
<1>1. ASSUME NEW x, NEW y PROVE OnTrack(m, [m EXCEPT !.st = x])
  <2>1. PICK q : q = [idx |-> m.idx, st |-> x, step |-> m.step, on |-> m.on, age |-> m.age, rearm |-> m.rearm, sent |-> m.sent, full |-> m.full, res |-> m.res]
    OBVIOUS
  <2>2. [m EXCEPT !.st = x] = q
    BY <2>1 DEF Machined
  <2>3. OnTrack(m, q)
    BY <2>1 DEF OnTrack, Machined
  <2> QED BY <2>2, <2>3
<1>2. ASSUME NEW x, NEW y PROVE OnTrack(m, [m EXCEPT !.step = x])
  <2>1. PICK q : q = [idx |-> m.idx, st |-> m.st, step |-> x, on |-> m.on, age |-> m.age, rearm |-> m.rearm, sent |-> m.sent, full |-> m.full, res |-> m.res]
    OBVIOUS
  <2>2. [m EXCEPT !.step = x] = q
    BY <2>1 DEF Machined
  <2>3. OnTrack(m, q)
    BY <2>1 DEF OnTrack, Machined
  <2> QED BY <2>2, <2>3
<1>3. ASSUME NEW x, NEW y PROVE OnTrack(m, [m EXCEPT !.rearm = y, !.st = x])
  <2>1. m = [idx |-> m.idx, st |-> m.st, step |-> m.step, on |-> m.on, age |-> m.age, rearm |-> m.rearm, sent |-> m.sent, full |-> m.full, res |-> m.res]
    BY DEF Machined
  <2>2. PICK f : f = [m EXCEPT !.rearm = y, !.st = x]
    OBVIOUS
  <2>3. f = [idx |-> m.idx, st |-> x, step |-> m.step, on |-> m.on, age |-> m.age, rearm |-> y, sent |-> m.sent, full |-> m.full, res |-> m.res]
    BY <2>1, <2>2
  <2>4. OnTrack(m, f)
    BY <2>3 DEF OnTrack, Machined
  <2> QED BY <2>2, <2>4
<1>4. ASSUME NEW x, NEW y PROVE OnTrack(m, [m EXCEPT !.st = x, !.sent = y])
  <2>1. m = [idx |-> m.idx, st |-> m.st, step |-> m.step, on |-> m.on, age |-> m.age, rearm |-> m.rearm, sent |-> m.sent, full |-> m.full, res |-> m.res]
    BY DEF Machined
  <2>2. PICK f : f = [m EXCEPT !.st = x, !.sent = y]
    OBVIOUS
  <2>3. f = [idx |-> m.idx, st |-> x, step |-> m.step, on |-> m.on, age |-> m.age, rearm |-> m.rearm, sent |-> y, full |-> m.full, res |-> m.res]
    BY <2>1, <2>2
  <2>4. OnTrack(m, f)
    BY <2>3 DEF OnTrack, Machined
  <2> QED BY <2>2, <2>4
<1>5. ASSUME NEW x, NEW y PROVE OnTrack(m, [m EXCEPT !.full = y, !.st = x])
  <2>1. m = [idx |-> m.idx, st |-> m.st, step |-> m.step, on |-> m.on, age |-> m.age, rearm |-> m.rearm, sent |-> m.sent, full |-> m.full, res |-> m.res]
    BY DEF Machined
  <2>2. PICK f : f = [m EXCEPT !.full = y, !.st = x]
    OBVIOUS
  <2>3. f = [idx |-> m.idx, st |-> x, step |-> m.step, on |-> m.on, age |-> m.age, rearm |-> m.rearm, sent |-> m.sent, full |-> y, res |-> m.res]
    BY <2>1, <2>2
  <2>4. OnTrack(m, f)
    BY <2>3 DEF OnTrack, Machined
  <2> QED BY <2>2, <2>4
<1> QED BY <1>0, <1>1, <1>2, <1>3, <1>4, <1>5

\* _result: the phase is over.
LEMMA FinishAnswers ==
  ASSUME NEW m, NEW p, NEW c, NEW n, OnTrack(m, n), NEW o
  PROVE  Answered(m, p, c, Finish(n, o))
<1>1. n = [idx |-> n.idx, st |-> n.st, step |-> n.step, on |-> n.on, age |-> n.age, rearm |-> n.rearm,
           sent |-> n.sent, full |-> n.full, res |-> n.res] /\ n.idx \in Nat /\ n.idx = m.idx
  BY DEF OnTrack, Machined
<1>2. PICK f : f = [n EXCEPT !.idx = @ + 1, !.on = FALSE, !.age = -1, !.res = Append(@, o)]
  OBVIOUS
<1>3. f = [idx |-> n.idx + 1, st |-> n.st, step |-> n.step, on |-> FALSE, age |-> -1, rearm |-> n.rearm,
           sent |-> n.sent, full |-> n.full, res |-> Append(n.res, o)]
  BY <1>1, <1>2
<1>4. Machined(f) /\ f.idx = m.idx + 1
  BY <1>1, <1>3 DEF Machined
<1>5. Finish(n, o).m = f /\ Finish(n, o).act = "none"
  BY <1>2 DEF Finish
<1> QED BY <1>4, <1>5 DEF Answered

\* The machine waits.
LEMMA StayAnswers ==
  ASSUME NEW m, NEW p, NEW c, NEW n, OnTrack(m, n)
  PROVE  Answered(m, p, c, Stay(n))
<1>1. Stay(n).m = n /\ Stay(n).act = "none"
  BY DEF Stay
<1> QED BY <1>1 DEF Answered, OnTrack

\* The machine acts, and counts the time from there.
LEMMA ActAnswers ==
  ASSUME NEW m, NEW p, NEW c, NEW n, OnTrack(m, n), NEW a,
         \/ p.type # "limit_open"
         \/ a = "cancel"
         \/ a = "limit" /\ c.limits <= 0 /\ (m.age < 0 \/ ~(c.positions > 0))
  PROVE  Answered(m, p, c, Act(n, a))
<1>1. n = [idx |-> n.idx, st |-> n.st, step |-> n.step, on |-> n.on, age |-> n.age, rearm |-> n.rearm,
           sent |-> n.sent, full |-> n.full, res |-> n.res] /\ n.idx \in Nat \ {0} /\ n.idx = m.idx /\ n.on = TRUE
  BY DEF OnTrack, Machined
<1>2. PICK f : f = [n EXCEPT !.age = 0]
  OBVIOUS
<1>3. f = [idx |-> n.idx, st |-> n.st, step |-> n.step, on |-> TRUE, age |-> 0, rearm |-> n.rearm,
           sent |-> n.sent, full |-> n.full, res |-> n.res]
  BY <1>1, <1>2
<1>4. Machined(f) /\ f.idx = m.idx /\ f.on = TRUE /\ f.age = 0
  BY <1>1, <1>3 DEF Machined
<1>5. Act(n, a).m = f /\ Act(n, a).act = a
  BY <1>2 DEF Act
<1> QED BY <1>4, <1>5 DEF Answered

\* The handlers of the phases that open no limit order for themselves.
LEMMA OthersAnswer ==
  ASSUME NEW m, Machined(m), m.on = TRUE, NEW p, p.type # "limit_open", NEW c
  PROVE  /\ Answered(m, p, c, HandleMarketOpen(m, p, c))
         /\ Answered(m, p, c, HandleCloseAll(m, p, c))
         /\ Answered(m, p, c, HandleLimitModify(m, p, c))
         /\ Answered(m, p, c, HandleLimitCancel(m, p, c))
         /\ Answered(m, p, c, HandleMultiLimit(m, p, c))
         /\ Answered(m, p, c, HandleMultiCancel(m, p, c))
         /\ Answered(m, p, c, HandlePartialClose(m, p, c))
<1>0. /\ \A n, a : OnTrack(m, n) => Answered(m, p, c, Act(n, a))
      /\ \A n, o : OnTrack(m, n) => Answered(m, p, c, Finish(n, o))
      /\ \A n : OnTrack(m, n) => Answered(m, p, c, Stay(n))
  BY ActAnswers, FinishAnswers, StayAnswers
<1>1. Answered(m, p, c, HandleMarketOpen(m, p, c))
  BY <1>0, NotesKeep DEF HandleMarketOpen
<1>2. Answered(m, p, c, HandleCloseAll(m, p, c))
  BY <1>0, NotesKeep DEF HandleCloseAll
<1>3. Answered(m, p, c, HandleLimitModify(m, p, c))
  BY <1>0, NotesKeep DEF HandleLimitModify
<1>4. Answered(m, p, c, HandleLimitCancel(m, p, c))
  BY <1>0, NotesKeep DEF HandleLimitCancel
<1>5. Answered(m, p, c, HandleMultiLimit(m, p, c))
  BY <1>0, NotesKeep DEF HandleMultiLimit
<1>6. Answered(m, p, c, HandleMultiCancel(m, p, c))
  BY <1>0, NotesKeep DEF HandleMultiCancel
<1>7. Answered(m, p, c, HandlePartialClose(m, p, c))
  BY <1>0, NotesKeep DEF HandlePartialClose
<1> QED BY <1>1, <1>2, <1>3, <1>4, <1>5, <1>6, <1>7

\* The handler of limit_open, its re-arm included.
LEMMA LimitOpenAnswers ==
  ASSUME NEW m, Machined(m), m.on = TRUE, NEW p, NEW c, c.limits \in Nat, c.positions \in Nat
  PROVE  Answered(m, p, c, HandleLimitOpen(m, p, c))
<1>0. /\ \A n, o : OnTrack(m, n) => Answered(m, p, c, Finish(n, o))
      /\ \A n : OnTrack(m, n) => Answered(m, p, c, Stay(n))
      /\ \A n : OnTrack(m, n) => Answered(m, p, c, Act(n, "cancel"))
  BY ActAnswers, FinishAnswers, StayAnswers
<1>1. ASSUME c.limits <= 0, m.age < 0 \/ ~(c.positions > 0), NEW n, OnTrack(m, n)
      PROVE  Answered(m, p, c, Act(n, "limit"))
  BY <1>1, ActAnswers
<1>2. CASE m.st \in {"pending", "submit"}
  <2>1. CASE m.age >= 0 /\ Went(c)
    BY <1>0, <1>2, <2>1, NotesKeep DEF HandleLimitOpen
  <2>2. CASE ~(m.age >= 0 /\ Went(c)) /\ (c.limits > 0 \/ c.transit)
    BY <1>0, <1>2, <2>2, NotesKeep DEF HandleLimitOpen
  <2>3. CASE ~(m.age >= 0 /\ Went(c)) /\ ~(c.limits > 0 \/ c.transit)
    <3>1. HandleLimitOpen(m, p, c) = Act([m EXCEPT !.st = "await"], "limit")
      BY <1>2, <2>3 DEF HandleLimitOpen
    <3>2. c.limits <= 0
      BY <2>3
    <3>3. ~(m.age >= 0) \/ ~(c.positions > 0)
      BY <2>3 DEF Went
    <3>4. m.age < 0 \/ ~(c.positions > 0)
      BY <3>3 DEF Machined
    <3>5. OnTrack(m, [m EXCEPT !.st = "await"])
      BY NotesKeep
    <3> QED BY <1>1, <3>1, <3>2, <3>4, <3>5
  <2> QED BY <2>1, <2>2, <2>3
<1>3. CASE m.st \notin {"pending", "submit"}
  BY <1>0, <1>3, NotesKeep DEF HandleLimitOpen
<1> QED BY <1>2, <1>3

\* The handler of idle: it waits from its first pass on.
LEMMA IdleAnswers ==
  ASSUME NEW m, Machined(m), m.on = TRUE, NEW p, NEW c
  PROVE  Answered(m, p, c, HandleIdle(m, p, c))
<1>1. CASE m.st = "pending"
  <2>1. m = [idx |-> m.idx, st |-> m.st, step |-> m.step, on |-> m.on, age |-> m.age, rearm |-> m.rearm, sent |-> m.sent, full |-> m.full, res |-> m.res]
    BY DEF Machined
  <2>2. PICK f : f = [m EXCEPT !.st = "wait", !.age = 0]
    OBVIOUS
  <2>3. f = [idx |-> m.idx, st |-> "wait", step |-> m.step, on |-> m.on, age |-> 0, rearm |-> m.rearm, sent |-> m.sent, full |-> m.full, res |-> m.res]
    BY <2>1, <2>2
  <2>4. Machined(f) /\ f.idx = m.idx /\ f.on = TRUE /\ f.age = 0
    BY <2>3 DEF Machined
  <2>5. HandleIdle(m, p, c).m = f /\ HandleIdle(m, p, c).act = "none"
    BY <1>1, <2>2 DEF HandleIdle, Stay
  <2> QED BY <2>4, <2>5 DEF Answered
<1>2. CASE m.st # "pending"
  BY <1>2, NotesKeep, FinishAnswers, StayAnswers DEF HandleIdle
<1> QED BY <1>1, <1>2

\* The handler of the final summary: it asks for the end of the session.
LEMMA FinalAnswers ==
  ASSUME NEW m, Machined(m), m.on = TRUE, NEW p, NEW c
  PROVE  Answered(m, p, c, HandleFinal(m))
<1>1. m = [idx |-> m.idx, st |-> m.st, step |-> m.step, on |-> m.on, age |-> m.age, rearm |-> m.rearm, sent |-> m.sent, full |-> m.full, res |-> m.res]
  BY DEF Machined
<1>2. PICK f : f = [m EXCEPT !.idx = @ + 1, !.on = FALSE, !.age = -1, !.res = Append(@, "pass")]
  OBVIOUS
<1>3. f = [idx |-> m.idx + 1, st |-> m.st, step |-> m.step, on |-> FALSE, age |-> -1, rearm |-> m.rearm, sent |-> m.sent, full |-> m.full, res |-> Append(m.res, "pass")]
  BY <1>1, <1>2
<1>4. Machined(f) /\ f.idx = m.idx + 1
  BY <1>3 DEF Machined
<1>5. Finish(m, "pass") = [m |-> f, act |-> "none"]
  BY <1>2 DEF Finish
<1>6. HandleFinal(m).m = f /\ HandleFinal(m).act = "end"
  BY <1>5 DEF HandleFinal
<1> QED BY <1>4, <1>6 DEF Answered

\* Whichever phase is on, its handler answers so.
LEMMA HandlersAnswer ==
  ASSUME NEW m, Machined(m), m.on = TRUE, NEW p, p.type \in PhaseTypes, NEW c, c.limits \in Nat, c.positions \in Nat
  PROVE  Answered(m, p, c, Handle(m, p, c))
<1>1. CASE p.type = "limit_open"
  <2>1. Handle(m, p, c) = HandleLimitOpen(m, p, c)
    BY <1>1 DEF Handle
  <2> QED BY <2>1, LimitOpenAnswers
<1>2. CASE p.type = "idle"
  <2>1. Handle(m, p, c) = HandleIdle(m, p, c)
    BY <1>2 DEF Handle
  <2> QED BY <2>1, IdleAnswers
<1>3. CASE p.type = "final"
  <2>1. Handle(m, p, c) = HandleFinal(m)
    BY <1>3 DEF Handle
  <2> QED BY <2>1, FinalAnswers
<1>4. CASE p.type \notin {"limit_open", "idle", "final"}
  <2>1. Handle(m, p, c) \in {HandleMarketOpen(m, p, c), HandleCloseAll(m, p, c), HandleLimitModify(m, p, c),
                             HandleLimitCancel(m, p, c), HandleMultiLimit(m, p, c), HandleMultiCancel(m, p, c),
                             HandlePartialClose(m, p, c)}
    BY <1>4 DEF Handle, PhaseTypes
  <2> QED BY <1>4, <2>1, OthersAnswer
<1> QED BY <1>1, <1>2, <1>3, <1>4

\* advance: the machine enters the phase and answers, passes over a phase
\* that is switched off, or is complete.
LEMMA MachineAnswers ==
  ASSUME plan \in Plans, NEW m, Machined(m), NEW c, c.limits \in Nat, c.positions \in Nat
  PROVE  LET r == AdvanceMachine(m, c) IN
         \/ r.m = m /\ r.act = "none"
         \/ m.idx \in DOMAIN plan /\ Answered(m, plan[m.idx], c, r)
<1>1. CASE IsComplete(m)
  BY <1>1 DEF AdvanceMachine, Stay
<1>2. CASE ~IsComplete(m)
  <2>0. PICK S : S = [type : PhaseTypes, expect : BOOLEAN, rearm : BOOLEAN, count : Nat, enabled : BOOLEAN]
    OBVIOUS
  <2>1. plan \in Seq(S) /\ m.idx \in DOMAIN plan
    <3>1. plan \in Seq(S)
      BY <2>0, StudyAssumption
    <3>2. Len(plan) \in Nat /\ DOMAIN plan = 1 .. Len(plan) /\ m.idx \in Nat \ {0}
      BY <3>1 DEF Machined
    <3> QED BY <1>2, <3>1, <3>2 DEF IsComplete
  <2>2. PICK p : p = plan[m.idx]
    OBVIOUS
  <2>3. p.type \in PhaseTypes
    <3>1. p \in S
      BY <2>1, <2>2
    <3> QED BY <2>0, <3>1
  <2>4. m = [idx |-> m.idx, st |-> m.st, step |-> m.step, on |-> m.on, age |-> m.age, rearm |-> m.rearm, sent |-> m.sent, full |-> m.full, res |-> m.res]
    BY DEF Machined
  <2>5. PICK e : e = [m EXCEPT !.on = TRUE, !.st = "pending", !.step = 0, !.rearm = 0, !.sent = 0, !.full = 0]
    OBVIOUS
  <2>6. e = [idx |-> m.idx, st |-> "pending", step |-> 0, on |-> TRUE, age |-> m.age, rearm |-> 0, sent |-> 0, full |-> 0, res |-> m.res]
    BY <2>4, <2>5
  <2>7. Machined(e) /\ e.idx = m.idx /\ e.on = TRUE /\ e.age = m.age
    BY <2>6 DEF Machined
  <2>8. \A r : Answered(e, p, c, r) => Answered(m, p, c, r)
    BY <2>7 DEF Answered
  <2>9. \/ AdvanceMachine(m, c) = Handle(m, p, c) /\ m.on = TRUE
        \/ AdvanceMachine(m, c) = Handle(e, p, c)
        \/ AdvanceMachine(m, c) = Finish(e, "skipped")
    BY <1>2, <2>2, <2>5 DEF AdvanceMachine, Machined
  <2>10. Answered(m, p, c, AdvanceMachine(m, c))
    <3>1. CASE AdvanceMachine(m, c) = Handle(m, p, c) /\ m.on = TRUE
      BY <2>3, <3>1, HandlersAnswer
    <3>2. CASE AdvanceMachine(m, c) = Handle(e, p, c)
      BY <2>3, <2>7, <2>8, <3>2, HandlersAnswer
    <3>3. CASE AdvanceMachine(m, c) = Finish(e, "skipped")
      <4>1. OnTrack(e, e)
        BY <2>7 DEF OnTrack
      <4> QED BY <2>8, <3>3, <4>1, FinishAnswers
    <3> QED BY <2>9, <3>1, <3>2, <3>3
  <2> QED BY <2>1, <2>2, <2>10
<1> QED BY <1>1, <1>2

\* What may become of an order while its phase stays on or ends.
Turned(pl, o, q, m, n, e) ==
  /\ q \in StudyOrder /\ q.ph = o.ph
  /\ q.st = "sent" => o.st = "sent"
  /\ q.st = "rests" => q.close = "no"
  /\ Rearms(pl, q) /\ Counts(q) => Counts(o)
  /\ Rearms(pl, q) /\ q.ph = m.idx /\ n.idx = m.idx /\ q.hit /\ e = "no" => q.st = "open" /\ q.close = "no"

\* The machine goes on with the phase, or with the next.
Follows(m, n) ==
  /\ Machined(n)
  /\ n.idx = m.idx + 1 \/ (n.idx = m.idx /\ (m.on = TRUE /\ m.age >= 0 => n.on = TRUE /\ n.age >= 0))

\* Steps that send nothing.
LEMMA EntriesTurn ==
  ASSUME NEW pl, NEW d, NEW m, NEW e, EntryAt(pl, d, m, e), NEW n, Follows(m, n), NEW f,
         NEW c \in Seq(StudyOrder), DOMAIN c = DOMAIN d, \A i \in DOMAIN d : Turned(pl, d[i], c[i], m, n, f)
  PROVE  EntryAt(pl, c, n, f)
<1>0. /\ pl \in Plans /\ d \in Seq(StudyOrder) /\ Machined(m) /\ Machined(n)
      /\ m.idx \in Nat /\ n.idx \in Nat
      /\ \A i \in DOMAIN d : Sound(pl, d[i], m, e)
      /\ Single(pl, d)
  BY DEF EntryAt, Follows, Machined
<1>1. ASSUME NEW i \in DOMAIN c PROVE Sound(pl, c[i], n, f)
  <2>1. PICK o, q : o = d[i] /\ q = c[i]
    OBVIOUS
  <2>2. o \in StudyOrder /\ Turned(pl, o, q, m, n, f) /\ Sound(pl, o, m, e)
    BY <1>0, <1>1, <2>1
  <2>3. o.ph \in Nat /\ q.ph = o.ph
    BY <2>2 DEF StudyOrder, Turned
  <2>4. Rearms(pl, q) <=> Rearms(pl, o)
    BY <2>3 DEF Rearms
  <2>5. Rearms(pl, q) => q.st # "sent"
    BY <2>2, <2>4 DEF Sound, Turned
  <2>6. q.ph <= n.idx /\ (q.ph = n.idx => n.idx = m.idx /\ n.on = TRUE /\ n.age >= 0)
    BY <1>0, <2>2, <2>3 DEF Sound, Follows
  <2>7. Rearms(pl, q) /\ q.ph = n.idx /\ q.hit /\ f = "no" => q.st = "open" /\ q.close = "no"
    BY <2>2, <2>6 DEF Turned
  <2>8. Sound(pl, q, n, f)
    BY <2>2, <2>5, <2>6, <2>7 DEF Sound, Turned
  <2> QED BY <2>1, <2>8
<1>2. Single(pl, c)
  <2> SUFFICES ASSUME NEW i \in DOMAIN c, NEW j \in DOMAIN c, c[i].ph = c[j].ph, Rearms(pl, c[i]), Counts(c[i]), Counts(c[j])
               PROVE  i = j
    BY DEF Single
  <2>0. Rearms(pl, c[j])
    BY DEF Rearms
  <2>1. /\ c[i].ph = d[i].ph /\ c[j].ph = d[j].ph /\ Counts(d[i]) /\ Counts(d[j])
    BY <2>0 DEF Turned
  <2>2. Rearms(pl, d[i])
    BY <2>1 DEF Rearms
  <2> QED BY <1>0, <2>1, <2>2 DEF Single
<1> QED BY <1>0, <1>1, <1>2 DEF EntryAt

\* A step that sends one order of the phase.
LEMMA EntrySent ==
  ASSUME NEW pl, NEW d, NEW m, EntryAt(pl, d, m, "no"), NEW n, Machined(n), n.idx = m.idx, n.on = TRUE, n.age >= 0,
         NEW q \in StudyOrder, q.ph = m.idx, q.hit = FALSE, q.close = "no",
         pl[m.idx].type = "limit_open" =>
           q.st # "sent" /\ \A i \in DOMAIN d : d[i].ph = m.idx => ~Counts(d[i])
  PROVE  EntryAt(pl, Append(d, q), n, "no")
<1>0. /\ pl \in Plans /\ d \in Seq(StudyOrder) /\ Machined(m)
      /\ \A i \in DOMAIN d : Sound(pl, d[i], m, "no")
      /\ Single(pl, d)
      /\ m.idx \in Nat
  BY DEF EntryAt, Machined
<1>1. PICK c : c = Append(d, q)
  OBVIOUS
<1>2. /\ c \in Seq(StudyOrder) /\ DOMAIN c = DOMAIN d \cup {Len(d) + 1} /\ Len(d) + 1 \notin DOMAIN d
      /\ c[Len(d) + 1] = q /\ \A i \in DOMAIN d : c[i] = d[i]
  BY <1>0, <1>1
<1>3. Sound(pl, q, n, "no")
  <2>1. q.ph <= n.idx
    BY <1>0
  <2>2. Rearms(pl, q) => q.st # "sent"
    BY DEF Rearms
  <2> QED BY <2>1, <2>2 DEF Sound
<1>4. ASSUME NEW i \in DOMAIN d PROVE Sound(pl, c[i], n, "no")
  <2>1. Sound(pl, d[i], m, "no") /\ c[i] = d[i]
    BY <1>0, <1>2
  <2>2. Sound(pl, d[i], n, "no")
    BY <2>1 DEF Sound
  <2> QED BY <2>1, <2>2
<1>5. ASSUME NEW i \in DOMAIN c PROVE Sound(pl, c[i], n, "no")
  BY <1>2, <1>3, <1>4
<1>6. Single(pl, c)
  <2> SUFFICES ASSUME NEW i \in DOMAIN c, NEW j \in DOMAIN c, c[i].ph = c[j].ph, Rearms(pl, c[i]), Counts(c[i]), Counts(c[j])
               PROVE  i = j
    BY DEF Single
  <2>1. CASE i \in DOMAIN d /\ j \in DOMAIN d
    BY <1>0, <1>2, <2>1 DEF Single
  <2>2. CASE i \notin DOMAIN d /\ j \notin DOMAIN d
    BY <1>2, <2>2
  <2>3. CASE i \in DOMAIN d /\ j \notin DOMAIN d
    <3>1. c[j] = q /\ c[i] = d[i] /\ d[i].ph = m.idx /\ pl[m.idx].type = "limit_open"
      BY <1>2, <2>3 DEF Rearms
    <3> QED BY <2>3, <3>1
  <2>4. CASE i \notin DOMAIN d /\ j \in DOMAIN d
    <3>1. c[i] = q /\ c[j] = d[j] /\ d[j].ph = m.idx /\ pl[m.idx].type = "limit_open"
      BY <1>2, <2>4 DEF Rearms
    <3> QED BY <2>4, <3>1
  <2> QED BY <2>1, <2>2, <2>3, <2>4
<1> QED BY <1>0, <1>1, <1>2, <1>5, <1>6 DEF EntryAt

\* What the machine is told of the desk.
LEMMA ContextIs ==
  ASSUME desk \in Seq(StudyOrder), NEW x, NEW y
  PROVE  LET c == [Context EXCEPT !.filled = x, !.rejected = y] IN
         /\ c.limits \in Nat /\ c.positions \in Nat
         /\ c.limits <= 0 => Resting = {}
         /\ ~(c.positions > 0) => Positions = {}
<1>1. PICK c : c = [Context EXCEPT !.filled = x, !.rejected = y]
  OBVIOUS
<1>2. c.limits = Cardinality(Resting) /\ c.positions = Cardinality(Positions)
  BY <1>1 DEF Context
<1>3. IsFiniteSet(Resting) /\ IsFiniteSet(Positions)
  <2>1. DOMAIN desk = 1 .. Len(desk) /\ Len(desk) \in Nat
    OBVIOUS
  <2>2. IsFiniteSet(DOMAIN desk)
    BY <2>1, FS_Interval
  <2>3. Resting \subseteq DOMAIN desk /\ Positions \subseteq DOMAIN desk
    BY DEF Resting, Positions, Ids
  <2> QED BY <2>2, <2>3, FS_Subset
<1>4. /\ Cardinality(Resting) \in Nat /\ (Cardinality(Resting) = 0 <=> Resting = {})
      /\ Cardinality(Positions) \in Nat /\ (Cardinality(Positions) = 0 <=> Positions = {})
  BY <1>3, FS_CardinalityType, FS_EmptySet
<1>5. /\ c.limits \in Nat /\ c.positions \in Nat
      /\ c.limits <= 0 => Resting = {}
      /\ ~(c.positions > 0) => Positions = {}
  BY <1>2, <1>4
<1> QED BY <1>1, <1>5

\* The same orders, filled as before; the closes too unless told otherwise.
Kept(d, c) ==
  /\ c \in Seq(StudyOrder) /\ DOMAIN c = DOMAIN d
  /\ \A i \in DOMAIN d : /\ c[i].ph = d[i].ph /\ c[i].st = d[i].st /\ c[i].hit = d[i].hit
                         /\ c[i].st # "open" => c[i].close = d[i].close
SameCloses(d, c) == \A i \in DOMAIN d : c[i].close = d[i].close

\* Nothing done is nothing changed.
LEMMA KeptItself ==
  ASSUME NEW d \in Seq(StudyOrder)
  PROVE  Kept(d, d) /\ SameCloses(d, d)
  BY DEF Kept, SameCloses

\* A function on the indexes of a sequence of orders is one.
LEMMA MappedDesk ==
  ASSUME NEW d \in Seq(StudyOrder), NEW c, c = [i \in DOMAIN d |-> c[i]], \A i \in DOMAIN d : c[i] \in StudyOrder
  PROVE  c \in Seq(StudyOrder) /\ DOMAIN c = DOMAIN d
<1>1. DOMAIN d = 1 .. Len(d) /\ Len(d) \in Nat
  OBVIOUS
<1>2. c \in [1 .. Len(d) -> StudyOrder]
  BY <1>1
<1> QED BY <1>1, <1>2

\* Asking to close fills nothing.
LEMMA ClosingKeeps ==
  ASSUME NEW d \in Seq(StudyOrder), NEW S, NEW how \in {"all", "half"}, \A i \in S : d[i].st = "open"
  PROVE  Kept(d, Closing(d, S, how))
<1>1. PICK c : c = Closing(d, S, how)
  OBVIOUS
<1>2. c = [i \in DOMAIN d |-> IF i \in S /\ d[i].close = "no" THEN [d[i] EXCEPT !.close = how] ELSE d[i]]
  BY <1>1 DEF Closing
<1>3. ASSUME NEW i \in DOMAIN d
      PROVE  /\ c[i] \in StudyOrder /\ c[i].ph = d[i].ph /\ c[i].st = d[i].st /\ c[i].hit = d[i].hit
             /\ c[i].st # "open" => c[i].close = d[i].close
  <2>1. PICK o : o = d[i] /\ o \in StudyOrder
    BY <1>3
  <2>2. PICK q : q = [o EXCEPT !.close = how]
    OBVIOUS
  <2>3. q \in StudyOrder /\ q.ph = o.ph /\ q.st = o.st /\ q.hit = o.hit
    BY <2>1, <2>2 DEF StudyOrder
  <2>4. (c[i] = q /\ o.st = "open") \/ c[i] = o
    BY <1>2, <2>1, <2>2
  <2> QED BY <2>1, <2>3, <2>4
<1>4. c = [i \in DOMAIN d |-> c[i]]
  BY <1>2
<1>5. c \in Seq(StudyOrder) /\ DOMAIN c = DOMAIN d
  BY <1>3, <1>4, MappedDesk
<1> QED BY <1>1, <1>3, <1>5 DEF Kept

\* Asking to cancel fills nothing and closes nothing.
LEMMA CancellingKeeps ==
  ASSUME NEW d \in Seq(StudyOrder)
  PROVE  Kept(d, CancelResting(d)) /\ SameCloses(d, CancelResting(d))
<1>1. PICK c : c = CancelResting(d)
  OBVIOUS
<1>2. c = [i \in DOMAIN d |-> [d[i] EXCEPT !.cancel = @ \/ i \in Resting]]
  BY <1>1 DEF CancelResting
<1>3. ASSUME NEW i \in DOMAIN d
      PROVE  /\ c[i] \in StudyOrder /\ c[i].ph = d[i].ph /\ c[i].st = d[i].st /\ c[i].hit = d[i].hit
             /\ c[i].close = d[i].close
  <2>1. PICK o : o = d[i] /\ o \in StudyOrder
    BY <1>3
  <2>2. PICK b \in BOOLEAN : b = (o.cancel \/ i \in Resting)
    OBVIOUS
  <2>3. PICK q : q = [o EXCEPT !.cancel = b]
    OBVIOUS
  <2>4. q \in StudyOrder /\ q.ph = o.ph /\ q.st = o.st /\ q.hit = o.hit /\ q.close = o.close
    BY <2>1, <2>3 DEF StudyOrder
  <2>5. c[i] = [o EXCEPT !.cancel = o.cancel \/ i \in Resting]
    BY <1>2, <2>1
  <2>6. c[i] = q
    BY <2>2, <2>3, <2>5
  <2> QED BY <2>1, <2>4, <2>6
<1>4. c = [i \in DOMAIN d |-> c[i]]
  BY <1>2
<1>5. c \in Seq(StudyOrder) /\ DOMAIN c = DOMAIN d
  BY <1>3, <1>4, MappedDesk
<1> QED BY <1>1, <1>3, <1>5 DEF Kept, SameCloses

\* An order that is sent belongs to the phase and has not filled.
LEMMA OrderIs ==
  ASSUME Machined(machine), NEW s \in {"sent", "rests", "rejected"}
  PROVE  Order(s) \in StudyOrder /\ Order(s).ph = machine.idx /\ Order(s).hit = FALSE /\ Order(s).st = s /\ Order(s).close = "no"
  BY DEF Order, StudyOrder, Machined

\* execute_decision: what it was told to do, and an order only if it may.
LEMMA ExecuteMakes ==
  ASSUME NEW action, NEW entry, NEW d \in Seq(StudyOrder), NEW f, NEW late, NEW e, Execute(action, entry, d, f, late, e),
         \A i \in Positions : d[i].st = "open", Positions \subseteq Nat
  PROVE  /\ ended' = (IF action = "end" THEN "asked" ELSE e)
         /\ \/ Kept(d, desk') /\ (action \notin {"close", "half"} => SameCloses(d, desk'))
            \/ /\ entry /\ action \in {"market", "limit"}
               /\ \E s \in {"sent", "rests", "rejected"} : (s = "sent" => action = "market") /\ desk' = Append(d, Order(s))
<1>0. ended' = (IF action = "end" THEN "asked" ELSE e)
  BY DEF Execute
<1>1. CASE desk' = CASE action = "close" -> CloseAll(d)
                       [] action = "half" -> ClosePartial(d)
                       [] action = "cancel" -> CancelResting(d)
                       [] OTHER -> d
  <2>1. CASE action = "close"
    <3>1. desk' = CloseAll(d)
      BY <1>1, <2>1
    <3>2. PICK how \in {"all", "half"} : how = "all"
      OBVIOUS
    <3>3. Kept(d, CloseAll(d))
      BY <3>2, ClosingKeeps DEF CloseAll
    <3> QED BY <1>0, <2>1, <3>1, <3>3
  <2>2. CASE action = "half"
    <3>1. desk' = ClosePartial(d)
      BY <1>1, <2>2
    <3>2. PICK how \in {"all", "half"} : how = "half"
      OBVIOUS
    <3>3. PICK S : S = (IF Positions = {} THEN {} ELSE {Lowest(Positions)})
      OBVIOUS
    <3>4. \A i \in S : d[i].st = "open"
      <4>1. CASE Positions = {}
        BY <3>3, <4>1
      <4>2. CASE Positions # {}
        <5>1. Lowest(Positions) \in Positions
          BY <4>2, LeastNumber DEF Lowest
        <5> QED BY <3>3, <4>2, <5>1
      <4> QED BY <4>1, <4>2
    <3>5. Kept(d, Closing(d, S, how))
      BY <3>4, ClosingKeeps
    <3>6. Kept(d, ClosePartial(d))
      BY <3>2, <3>3, <3>5 DEF ClosePartial
    <3> QED BY <1>0, <2>2, <3>1, <3>6
  <2>3. CASE action = "cancel"
    <3>1. desk' = CancelResting(d)
      BY <1>1, <2>3
    <3> QED BY <1>0, <3>1, CancellingKeeps
  <2>4. CASE action \notin {"close", "half", "cancel"}
    <3>1. desk' = d
      BY <1>1, <2>4
    <3> QED BY <1>0, <3>1, KeptItself
  <2> QED BY <2>1, <2>2, <2>3, <2>4
<1>2. CASE Sends(action, entry) /\ desk' = Append(d, Order(IF action = "market" THEN "sent" ELSE "rests"))
  <2>1. PICK s \in {"sent", "rests", "rejected"} : s = (IF action = "market" THEN "sent" ELSE "rests")
    OBVIOUS
  <2>2. desk' = Append(d, Order(s)) /\ (s = "sent" => action = "market")
    BY <1>2, <2>1
  <2> QED BY <1>0, <1>2, <2>2 DEF Sends
<1>3. CASE Sends(action, entry) /\ desk' = Append(d, Order("rejected"))
  <2>1. PICK s \in {"sent", "rests", "rejected"} : s = "rejected"
    OBVIOUS
  <2>2. desk' = Append(d, Order(s)) /\ (s = "sent" => action = "market")
    BY <1>3, <2>1
  <2> QED BY <1>0, <1>3, <2>2 DEF Sends
<1> QED BY <1>1, <1>2, <1>3 DEF Execute

\* A pass of the study, with the decision to abort or to go on.
LEMMA PassKeepsOne ==
  ASSUME EntryAt(plan, desk, machine, ended), ended = "no", NEW f, NEW late, NEW paid, SafeAbort(f, late, paid) \/ Advance(f, late, paid)
  PROVE  EntryAt(plan, desk', machine', ended')
<1>0. /\ plan \in Plans /\ desk \in Seq(StudyOrder) /\ Machined(machine) /\ machine.idx \in Nat /\ machine.age \in Int
      /\ \A i \in DOMAIN desk : Sound(plan, desk[i], machine, "no")
  BY DEF EntryAt, Machined
<1>00. /\ \A i \in Positions : i \in DOMAIN desk /\ desk[i].st = "open"
      /\ Positions \subseteq Nat
  BY <1>0 DEF Positions, Ids
<1>1. CASE SafeAbort(f, late, paid)
  <2>1. PICK d : d = CancelResting(CloseAll(desk))
    OBVIOUS
  <2>2. Execute(pending, FALSE, d, f, late, "asked") /\ machine' = machine
    BY <1>1, <2>1 DEF SafeAbort
  <2>3. Kept(desk, CloseAll(desk))
    <3>1. PICK how \in {"all", "half"} : how = "all"
      OBVIOUS
    <3> QED BY <1>0, <1>00, <3>1, ClosingKeeps DEF CloseAll
  <2>4. Kept(CloseAll(desk), d)
    BY <2>1, <2>3, CancellingKeeps DEF Kept
  <2>5. d \in Seq(StudyOrder)
    BY <2>4 DEF Kept
  <2>6. \A i \in Positions : d[i].st = "open"
    BY <1>00, <2>3, <2>4 DEF Kept
  <2>7. ended' = "asked" /\ Kept(d, desk')
    BY <1>00, <2>2, <2>5, <2>6, ExecuteMakes
  <2>8. Kept(desk, desk')
    BY <2>3, <2>4, <2>7 DEF Kept
  <2>9. Follows(machine, machine')
    BY <1>0, <2>2 DEF Follows
  <2>10. ASSUME NEW i \in DOMAIN desk PROVE Turned(plan, desk[i], desk'[i], machine, machine', ended')
    <3>1. Sound(plan, desk[i], machine, "no")
      BY <1>0, <2>10
    <3> QED BY <2>7, <2>8, <2>10, <3>1 DEF Kept, Turned, Counts, Sound, Rearms
  <2>11. desk' \in Seq(StudyOrder) /\ DOMAIN desk' = DOMAIN desk
    BY <2>8 DEF Kept
  <2> QED BY <2>9, <2>10, <2>11, EntriesTurn
<1>2. CASE Advance(f, late, paid)
  <2>1. PICK c : c = [Context EXCEPT !.filled = f.filled, !.rejected = f.rejected]
    OBVIOUS
  <2>2. /\ c.limits \in Nat /\ c.positions \in Nat
        /\ c.limits <= 0 => Resting = {}
        /\ ~(c.positions > 0) => Positions = {}
    BY <1>0, <2>1, ContextIs
  <2>3. PICK r : r = AdvanceMachine(machine, c)
    OBVIOUS
  <2>4. PICK entry, g : machine' = r.m /\ Execute(r.act, entry, desk, g, late, ended)
    BY <1>2, <2>1, <2>3 DEF Advance
  <2>5. /\ ended' = (IF r.act = "end" THEN "asked" ELSE "no")
        /\ \/ Kept(desk, desk') /\ (r.act \notin {"close", "half"} => SameCloses(desk, desk'))
           \/ /\ entry /\ r.act \in {"market", "limit"}
              /\ \E s \in {"sent", "rests", "rejected"} : (s = "sent" => r.act = "market") /\ desk' = Append(desk, Order(s))
    BY <1>0, <1>00, <2>4, ExecuteMakes
  <2>6. \/ r.m = machine /\ r.act = "none"
        \/ machine.idx \in DOMAIN plan /\ Answered(machine, plan[machine.idx], c, r)
    BY <1>0, <2>2, <2>3, MachineAnswers
  <2>7. Follows(machine, machine')
    BY <1>0, <2>4, <2>6 DEF Follows, Answered
  <2>8. CASE Kept(desk, desk') /\ (r.act \notin {"close", "half"} => SameCloses(desk, desk'))
    <3>1. ASSUME NEW i \in DOMAIN desk PROVE Turned(plan, desk[i], desk'[i], machine, machine', ended')
      <4>1. PICK o, q : o = desk[i] /\ q = desk'[i]
        OBVIOUS
      <4>2. q \in StudyOrder /\ q.ph = o.ph /\ q.st = o.st /\ q.hit = o.hit /\ Sound(plan, o, machine, "no")
           /\ (q.st = "rests" => q.close = "no")
        BY <1>0, <2>8, <4>1 DEF Kept, Sound
      <4>3. r.act \notin {"close", "half"} => q.close = o.close
        BY <2>8, <4>1 DEF SameCloses
      <4>4. CASE r.act \in {"close", "half"} /\ r.m.idx = machine.idx
        <5>1. plan[machine.idx].type # "limit_open"
          BY <1>0, <2>6, <4>4 DEF Answered
        <5> QED BY <4>1, <4>2, <5>1 DEF Turned, Counts, Rearms
      <4>5. CASE r.act \notin {"close", "half"}
        <5>1. Rearms(plan, q) => Rearms(plan, o)
          BY <4>2 DEF Rearms
        <5>2. Rearms(plan, q) /\ q.ph = machine.idx /\ q.hit => q.st = "open" /\ q.close = "no"
          BY <4>2, <4>3, <4>5, <5>1 DEF Sound
        <5> QED BY <4>1, <4>2, <5>2 DEF Turned, Counts
      <4>6. CASE r.m.idx # machine.idx
        BY <2>4, <4>1, <4>2, <4>6 DEF Turned, Counts
      <4> QED BY <4>4, <4>5, <4>6
    <3>2. desk' \in Seq(StudyOrder) /\ DOMAIN desk' = DOMAIN desk
      BY <2>8 DEF Kept
    <3> QED BY <2>7, <3>1, <3>2, EntriesTurn
  <2>9. CASE /\ entry /\ r.act \in {"market", "limit"}
             /\ \E s \in {"sent", "rests", "rejected"} : (s = "sent" => r.act = "market") /\ desk' = Append(desk, Order(s))
    <3>1. PICK s \in {"sent", "rests", "rejected"} : (s = "sent" => r.act = "market") /\ desk' = Append(desk, Order(s))
      BY <2>9
    <3>2. PICK q : q = Order(s)
      OBVIOUS
    <3>3. q \in StudyOrder /\ q.ph = machine.idx /\ q.hit = FALSE /\ q.st = s /\ q.close = "no"
      BY <1>0, <3>2, OrderIs
    <3>4. /\ Machined(r.m) /\ r.m.idx = machine.idx /\ r.m.on = TRUE /\ r.m.age = 0
          /\ \/ plan[machine.idx].type # "limit_open"
             \/ r.act = "limit" /\ c.limits <= 0 /\ (machine.age < 0 \/ ~(c.positions > 0))
      BY <1>0, <2>6, <2>9 DEF Answered
    <3>5. ASSUME plan[machine.idx].type = "limit_open"
          PROVE  q.st # "sent" /\ \A i \in DOMAIN desk : desk[i].ph = machine.idx => ~Counts(desk[i])
      <4>1. r.act = "limit" /\ Resting = {} /\ (machine.age < 0 \/ Positions = {})
        BY <2>2, <3>4, <3>5
      <4>2. ASSUME NEW i \in DOMAIN desk, desk[i].ph = machine.idx PROVE ~Counts(desk[i])
        <5>1. machine.age >= 0 /\ Sound(plan, desk[i], machine, "no")
          BY <1>0, <4>2 DEF Sound
        <5>2. Positions = {}
          BY <1>0, <4>1, <5>1
        <5>3. desk[i].st # "rests" /\ desk[i].st # "open"
          BY <4>1, <4>2, <5>2 DEF Resting, Positions, Ids
        <5>4. machine.idx \in DOMAIN plan
          BY <2>6, <2>9
        <5>5. Rearms(plan, desk[i])
          BY <3>5, <4>2, <5>4 DEF Rearms
        <5>6. ~desk[i].hit
          BY <4>2, <5>1, <5>3, <5>5 DEF Sound
        <5> QED BY <5>3, <5>6 DEF Counts
      <4> QED BY <3>1, <3>3, <4>1, <4>2
    <3>6. ended' = "no"
      BY <2>5, <2>9
    <3>7. EntryAt(plan, Append(desk, q), r.m, "no")
      <4>1. r.m.age >= 0 /\ EntryAt(plan, desk, machine, "no")
        BY <3>4
      <4> QED BY <3>3, <3>4, <3>5, <4>1, EntrySent
    <3> QED BY <2>4, <3>1, <3>2, <3>6, <3>7
  <2> QED BY <2>5, <2>8, <2>9
<1> QED BY <1>1, <1>2

\* What the broker answers for one order: it fills, is rejected or cancelled,
\* or its close is answered.
LEMMA AnswerTurns ==
  ASSUME EntryAt(plan, desk, machine, ended), ended = "no", BrokerAnswers
  PROVE  EntryAt(plan, desk', machine, "no")
<1>0. desk \in Seq(StudyOrder) /\ Machined(machine) /\ \A i \in DOMAIN desk : Sound(plan, desk[i], machine, "no")
  BY DEF EntryAt
<1>1. PICK i \in DOMAIN desk : LET o == desk[i] IN
        \/ o.st \in {"sent", "rests"} /\ desk' = [desk EXCEPT ![i].st = "open", ![i].hit = TRUE]
        \/ o.st \in {"sent", "rests"} /\ desk' = [desk EXCEPT ![i].st = "rejected"]
        \/ o.st = "rests" /\ desk' = [desk EXCEPT ![i].st = "cancelled"]
        \/ o.st = "rests" /\ desk' = [desk EXCEPT ![i].cancel = FALSE]
        \/ o.st = "open" /\ o.close # "no" /\ desk' = [desk EXCEPT ![i].st = "closed"]
        \/ o.st = "open" /\ desk' = [desk EXCEPT ![i].close = "no", ![i].lots = 1]
        \/ o.st = "open" /\ desk' = [desk EXCEPT ![i].close = "no"]
  BY DEF BrokerAnswers
<1>2. PICK o \in StudyOrder : o = desk[i]
  BY <1>0
<1>3. Sound(plan, o, machine, "no")
  BY <1>0, <1>2
<1>4. Follows(machine, machine)
  BY <1>0 DEF Follows
<1>5. ASSUME NEW q, Turned(plan, o, q, machine, machine, "no"), desk' = [desk EXCEPT ![i] = q]
      PROVE  EntryAt(plan, desk', machine, "no")
  <2>1. q \in StudyOrder
    BY <1>5 DEF Turned
  <2>2. desk' \in Seq(StudyOrder) /\ DOMAIN desk' = DOMAIN desk
    BY <1>0, <1>5, <2>1
  <2>3. ASSUME NEW j \in DOMAIN desk PROVE Turned(plan, desk[j], desk'[j], machine, machine, "no")
    <3>1. CASE j = i
      BY <1>2, <1>5, <3>1
    <3>2. CASE j # i
      <4>1. desk'[j] = desk[j] /\ desk[j] \in StudyOrder /\ Sound(plan, desk[j], machine, "no")
        BY <1>0, <1>5, <2>3, <3>2
      <4>2. Turned(plan, desk[j], desk[j], machine, machine, "no")
        BY <4>1 DEF Turned, Sound
      <4> QED BY <4>1, <4>2
    <3> QED BY <3>1, <3>2
  <2> QED BY <1>4, <2>2, <2>3, EntriesTurn
<1>6. CASE o.st \in {"sent", "rests"} /\ desk' = [desk EXCEPT ![i].st = "open", ![i].hit = TRUE]
  <2>1. PICK a : a = [o EXCEPT !.st = "open"]
    OBVIOUS
  <2>2. a \in StudyOrder /\ a.ph = o.ph /\ a.st = "open" /\ a.close = o.close /\ a.hit = o.hit
    BY <2>1 DEF StudyOrder
  <2>3. PICK q : q = [a EXCEPT !.hit = TRUE]
    OBVIOUS
  <2>4. q \in StudyOrder /\ q.ph = o.ph /\ q.st = "open" /\ q.close = o.close
    BY <2>2, <2>3 DEF StudyOrder
  <2>5. desk' = [desk EXCEPT ![i] = q]
    BY <1>2, <1>6, <2>1, <2>3
  <2>6. Rearms(plan, q) => o.st = "rests"
    BY <1>3, <1>6, <2>4 DEF Sound, Rearms
  <2>7. Turned(plan, o, q, machine, machine, "no")
    BY <1>3, <2>4, <2>6 DEF Turned, Sound, Counts
  <2> QED BY <1>5, <2>5, <2>7
<1>7. CASE o.st \in {"sent", "rests"} /\ desk' = [desk EXCEPT ![i].st = "rejected"]
  <2>1. PICK q : q = [o EXCEPT !.st = "rejected"]
    OBVIOUS
  <2>2. q \in StudyOrder /\ q.ph = o.ph /\ q.st = "rejected" /\ q.hit = o.hit /\ q.close = o.close
    BY <2>1 DEF StudyOrder
  <2>3. desk' = [desk EXCEPT ![i] = q]
    BY <1>2, <1>7, <2>1
  <2>4. Turned(plan, o, q, machine, machine, "no")
    BY <1>3, <1>7, <2>2 DEF Turned, Sound, Counts, Rearms
  <2> QED BY <1>5, <2>3, <2>4
<1>8. CASE o.st = "rests" /\ desk' = [desk EXCEPT ![i].st = "cancelled"]
  <2>1. PICK q : q = [o EXCEPT !.st = "cancelled"]
    OBVIOUS
  <2>2. q \in StudyOrder /\ q.ph = o.ph /\ q.st = "cancelled" /\ q.hit = o.hit /\ q.close = o.close
    BY <2>1 DEF StudyOrder
  <2>3. desk' = [desk EXCEPT ![i] = q]
    BY <1>2, <1>8, <2>1
  <2>4. Turned(plan, o, q, machine, machine, "no")
    BY <1>3, <1>8, <2>2 DEF Turned, Sound, Counts, Rearms
  <2> QED BY <1>5, <2>3, <2>4
<1>9. CASE o.st = "rests" /\ desk' = [desk EXCEPT ![i].cancel = FALSE]
  <2>1. PICK q : q = [o EXCEPT !.cancel = FALSE]
    OBVIOUS
  <2>2. q \in StudyOrder /\ q.ph = o.ph /\ q.st = o.st /\ q.hit = o.hit /\ q.close = o.close
    BY <2>1 DEF StudyOrder
  <2>3. desk' = [desk EXCEPT ![i] = q]
    BY <1>2, <1>9, <2>1
  <2>4. Turned(plan, o, q, machine, machine, "no")
    BY <1>3, <1>9, <2>2 DEF Turned, Sound, Counts, Rearms
  <2> QED BY <1>5, <2>3, <2>4
<1>10. CASE o.st = "open" /\ o.close # "no" /\ desk' = [desk EXCEPT ![i].st = "closed"]
  <2>1. PICK q : q = [o EXCEPT !.st = "closed"]
    OBVIOUS
  <2>2. q \in StudyOrder /\ q.ph = o.ph /\ q.st = "closed" /\ q.hit = o.hit /\ q.close = o.close
    BY <2>1 DEF StudyOrder
  <2>3. desk' = [desk EXCEPT ![i] = q]
    BY <1>2, <1>10, <2>1
  <2>4. Turned(plan, o, q, machine, machine, "no")
    BY <1>3, <1>10, <2>2 DEF Turned, Sound, Counts, Rearms
  <2> QED BY <1>5, <2>3, <2>4
<1>11. CASE o.st = "open" /\ desk' = [desk EXCEPT ![i].close = "no", ![i].lots = 1]
  <2>1. PICK a : a = [o EXCEPT !.close = "no"]
    OBVIOUS
  <2>2. a \in StudyOrder /\ a.ph = o.ph /\ a.st = o.st /\ a.close = "no" /\ a.hit = o.hit
    BY <2>1 DEF StudyOrder
  <2>3. PICK q : q = [a EXCEPT !.lots = 1]
    OBVIOUS
  <2>4. q \in StudyOrder /\ q.ph = o.ph /\ q.st = o.st /\ q.close = "no" /\ q.hit = o.hit
    BY <2>2, <2>3 DEF StudyOrder
  <2>5. desk' = [desk EXCEPT ![i] = q]
    BY <1>2, <1>11, <2>1, <2>3
  <2>6. Turned(plan, o, q, machine, machine, "no")
    BY <1>3, <1>11, <2>4 DEF Turned, Sound, Counts, Rearms
  <2> QED BY <1>5, <2>5, <2>6
<1>12. CASE o.st = "open" /\ desk' = [desk EXCEPT ![i].close = "no"]
  <2>1. PICK q : q = [o EXCEPT !.close = "no"]
    OBVIOUS
  <2>2. q \in StudyOrder /\ q.ph = o.ph /\ q.st = o.st /\ q.hit = o.hit /\ q.close = "no"
    BY <2>1 DEF StudyOrder
  <2>3. desk' = [desk EXCEPT ![i] = q]
    BY <1>2, <1>12, <2>1
  <2>4. Turned(plan, o, q, machine, machine, "no")
    BY <1>3, <1>12, <2>2 DEF Turned, Sound, Counts, Rearms
  <2> QED BY <1>5, <2>3, <2>4
<1> QED BY <1>1, <1>2, <1>6, <1>7, <1>8, <1>9, <1>10, <1>11, <1>12

\* The shutdown cancels what rests.
LEMMA EndTurns ==
  ASSUME EntryAt(plan, desk, machine, ended), EndStudy
  PROVE  EntryAt(plan, desk', machine, ended')
<1>0. desk \in Seq(StudyOrder) /\ Machined(machine) /\ \A i \in DOMAIN desk : Sound(plan, desk[i], machine, ended)
  BY DEF EntryAt
<1>1. ended' = "over"
  BY DEF EndStudy
<1>2. PICK S : desk' = [i \in DOMAIN desk |-> IF i \in S THEN [desk[i] EXCEPT !.st = "cancelled"] ELSE desk[i]]
  BY DEF EndStudy
<1>3. PICK c : c = desk'
  OBVIOUS
<1>4. ASSUME NEW i \in DOMAIN desk PROVE c[i] \in StudyOrder /\ Turned(plan, desk[i], c[i], machine, machine, "over")
  <2>1. PICK o \in StudyOrder : o = desk[i] /\ Sound(plan, o, machine, ended)
    BY <1>0, <1>4
  <2>2. PICK q : q = [o EXCEPT !.st = "cancelled"]
    OBVIOUS
  <2>3. q \in StudyOrder /\ q.ph = o.ph /\ q.st = "cancelled" /\ q.hit = o.hit /\ q.close = o.close
    BY <2>1, <2>2 DEF StudyOrder
  <2>4. c[i] = q \/ c[i] = o
    BY <1>2, <1>3, <1>4, <2>1, <2>2
  <2>5. Turned(plan, o, q, machine, machine, "over")
    BY <2>3 DEF Turned, Counts
  <2>6. Turned(plan, o, o, machine, machine, "over")
    BY <2>1 DEF Turned, Sound
  <2> QED BY <2>1, <2>3, <2>4, <2>5, <2>6
<1>5. c = [i \in DOMAIN desk |-> c[i]]
  BY <1>2, <1>3
<1>6. c \in Seq(StudyOrder) /\ DOMAIN c = DOMAIN desk
  BY <1>0, <1>4, <1>5, MappedDesk
<1>7. Follows(machine, machine)
  BY <1>0 DEF Follows
<1>8. EntryAt(plan, c, machine, "over")
  BY <1>4, <1>6, <1>7, EntriesTurn
<1> QED BY <1>1, <1>3, <1>8

\* The wall clock ages the phase.
LEMMA ClockTurns ==
  ASSUME EntryAt(plan, desk, machine, ended), StudyClock
  PROVE  EntryAt(plan, desk, machine', ended)
<1>0. desk \in Seq(StudyOrder) /\ Machined(machine) /\ \A i \in DOMAIN desk : Sound(plan, desk[i], machine, ended)
  BY DEF EntryAt
<1>1. PICK a : a = (IF machine.age < 0 \/ machine.age > FillTimeout THEN machine.age ELSE machine.age + 1)
  OBVIOUS
<1>2. machine' = [machine EXCEPT !.age = a]
  BY <1>1 DEF StudyClock
<1>3. a \in Int /\ (machine.age >= 0 => a >= 0)
  BY <1>0, <1>1 DEF Machined
<1>4. PICK m, n : m = machine /\ n = machine'
  OBVIOUS
<1>5. m = [idx |-> m.idx, st |-> m.st, step |-> m.step, on |-> m.on, age |-> m.age, rearm |-> m.rearm, sent |-> m.sent, full |-> m.full, res |-> m.res]
  BY <1>0, <1>4 DEF Machined
<1>6. n = [idx |-> m.idx, st |-> m.st, step |-> m.step, on |-> m.on, age |-> a, rearm |-> m.rearm, sent |-> m.sent, full |-> m.full, res |-> m.res]
  BY <1>2, <1>4, <1>5
<1>7. Machined(n) /\ n.idx = m.idx /\ n.on = m.on /\ n.age = a
  BY <1>0, <1>3, <1>4, <1>6 DEF Machined
<1>8. Follows(machine, machine')
  BY <1>3, <1>4, <1>7 DEF Follows
<1>9. ASSUME NEW i \in DOMAIN desk PROVE Turned(plan, desk[i], desk[i], machine, machine', ended)
  <2>1. desk[i] \in StudyOrder /\ Sound(plan, desk[i], machine, ended)
    BY <1>0, <1>9
  <2> QED BY <2>1 DEF Turned, Sound
<1> QED BY <1>0, <1>8, <1>9, EntriesTurn

\* The invariant, as a state predicate.
EntryInv == EntryAt(plan, desk, machine, ended)

\* It holds before the first tick.
LEMMA EntryStart ==
  ASSUME StudyInit
  PROVE  EntryInv
<1>1. plan \in Plans /\ desk = <<>>
  BY DEF StudyInit
<1>2. machine = [idx |-> 1, st |-> "pending", step |-> 0, on |-> FALSE, age |-> -1, rearm |-> 0, sent |-> 0, full |-> 0, res |-> <<>>]
  BY DEF StudyInit
<1>3. Machined(machine)
  BY <1>2 DEF Machined
<1>4. desk \in Seq(StudyOrder) /\ DOMAIN desk = {}
  BY <1>1
<1>5. Single(plan, desk) /\ \A i \in DOMAIN desk : Sound(plan, desk[i], machine, ended)
  BY <1>4 DEF Single
<1> QED BY <1>1, <1>3, <1>4, <1>5 DEF EntryInv, EntryAt

\* A step of the field study keeps it.
LEMMA EntryStep ==
  ASSUME EntryInv, [StudyNext]_studyVars
  PROVE  EntryInv'
<1>0. EntryAt(plan, desk, machine, ended)
  BY DEF EntryInv
<1>1. CASE StudyTick
  <2>1. ended = "no" /\ (SafeAbort(flags, events, cost) \/ Advance(flags, events, cost)) /\ plan' = plan
    BY <1>1 DEF StudyTick
  <2>2. EntryAt(plan, desk', machine', ended')
    BY <1>0, <2>1, PassKeepsOne
  <2> QED BY <2>1, <2>2 DEF EntryInv
<1>2. CASE StudyHeartbeat
  <2>1. PICK f, paid : ended = "no" /\ (SafeAbort(f, NoEvents, paid) \/ Advance(f, NoEvents, paid)) /\ plan' = plan
    BY <1>2 DEF StudyHeartbeat
  <2>2. EntryAt(plan, desk', machine', ended')
    BY <1>0, <2>1, PassKeepsOne
  <2> QED BY <2>1, <2>2 DEF EntryInv
<1>3. CASE StudyClock
  <2>1. plan' = plan /\ desk' = desk /\ ended' = ended
    BY <1>3 DEF StudyClock
  <2>2. EntryAt(plan, desk, machine', ended)
    BY <1>0, <1>3, ClockTurns
  <2> QED BY <2>1, <2>2 DEF EntryInv
<1>4. CASE BrokerAnswers
  <2>1. plan' = plan /\ machine' = machine /\ ended' = ended /\ ended = "no"
    BY <1>4 DEF BrokerAnswers
  <2>2. EntryAt(plan, desk', machine, "no")
    BY <1>0, <1>4, <2>1, AnswerTurns
  <2> QED BY <2>1, <2>2 DEF EntryInv
<1>5. CASE EndStudy
  <2>1. plan' = plan /\ machine' = machine
    BY <1>5 DEF EndStudy
  <2>2. EntryAt(plan, desk', machine, ended')
    BY <1>0, <1>5, EndTurns
  <2> QED BY <2>1, <2>2 DEF EntryInv
<1>6. CASE UNCHANGED studyVars
  <2>1. plan' = plan /\ desk' = desk /\ machine' = machine /\ ended' = ended
    BY <1>6 DEF studyVars
  <2> QED BY <1>0, <2>1 DEF EntryInv
<1> QED BY <1>1, <1>2, <1>3, <1>4, <1>5, <1>6 DEF StudyNext

\* It implies that no entry is doubled.
LEMMA EntryIsOne ==
  ASSUME EntryInv
  PROVE  NoDoubleEntry
<1> SUFFICES ASSUME NEW k \in DOMAIN plan, plan[k].type = "limit_open"
             PROVE  Cardinality({i \in OrdersOf(k) : desk[i].hit \/ desk[i].st = "rests"}) <= 1
  BY DEF NoDoubleEntry
<1>1. PICK S : S = {i \in OrdersOf(k) : desk[i].hit \/ desk[i].st = "rests"}
  OBVIOUS
<1>2. ASSUME NEW i \in S, NEW j \in S PROVE i = j
  <2>1. /\ i \in DOMAIN desk /\ desk[i].ph = k /\ Counts(desk[i])
        /\ j \in DOMAIN desk /\ desk[j].ph = k /\ Counts(desk[j])
    BY <1>1, <1>2 DEF OrdersOf, Counts
  <2>2. Rearms(plan, desk[i])
    BY <2>1 DEF Rearms
  <2> QED BY <2>1, <2>2 DEF EntryInv, EntryAt, Single
<1>3. Cardinality(S) <= 1
  BY <1>2, AtMostOne
<1> QED BY <1>1, <1>3

\* LiveFieldStudy and its phase machine: however the broker's answers race with
\* the cancel of a re-arm, for every plan of phases, timeouts and number of
\* re-arms, of the orders of a limit_open phase at most one rests or has
\* filled.
THEOREM RearmNeverDoubles == MCSpec => []NoDoubleEntry
<1>1. MCInit => EntryInv
  BY EntryStart DEF MCInit
<1>2. EntryInv /\ [MCNext]_<<studyVars, strategyVars, trendVars, probeVars>> => EntryInv'
  <2> SUFFICES ASSUME EntryInv, [MCNext]_<<studyVars, strategyVars, trendVars, probeVars>> PROVE EntryInv'
    OBVIOUS
  <2>1. [StudyNext]_studyVars
    BY DEF MCNext
  <2> QED BY <2>1, EntryStep
<1>3. EntryInv => NoDoubleEntry
  BY EntryIsOne
<1> QED BY <1>1, <1>2, <1>3, PTL DEF MCSpec
=============================================================================
