---------------------------- MODULE Pipeline_proofs ----------------------------
(***************************************************************************)
(* The algorithm pass: a decision reads the bars that are closed and the   *)
(* newest signal published and received, staleness of signal and market    *)
(* is told before it is met and recorded once, and the event channel       *)
(* delivers every event once, in order; for every set of timeframes, every *)
(* history bound, every publisher and every plan of windows.               *)
(***************************************************************************)
EXTENDS MCPipeline, FiniteSetTheorems, SequenceTheorems, WellFoundedInduction, TLAPS

-----------------------------------------------------------------------------
(* The event channel *)

(* The inductive invariant *)

\* The three places of an event are one sequence cut in three: what was
\* delivered, what the drain under way holds, what waits in the buffer.
Numbered ==
  /\ submitted \in Nat
  /\ delivered \in Seq(Nat) /\ draining \in Seq(Nat) /\ buffer \in Seq(Nat)
  /\ drainFrom = Len(delivered) + Len(draining)
  /\ submitted = drainFrom + Len(buffer)
  /\ \A i \in 1 .. Len(delivered) : delivered[i] = i
  /\ \A i \in 1 .. Len(draining) : draining[i] = Len(delivered) + i
  /\ \A i \in 1 .. Len(buffer) : buffer[i] = drainFrom + i

\* A batch is held only while hooks run; only a subscription leads there; the
\* last drain is the one that began when the end was announced.
Placed ==
  /\ after \in {"check", "ghost", "over"}
  /\ step # "hooks" => draining = <<>>
  /\ step \in {"drain", "hooks"} => subscribed
  /\ step = "hooks" /\ after = "over" => finalFrom = drainFrom
  /\ step = "over" /\ subscribed => finalFrom = drainFrom

\* Where the end is looked at, the loop waits for a tick only if none was
\* asked for.
Honoured ==
  /\ pipeline \in {"sim", "live"} /\ subscribed \in BOOLEAN
  /\ endAsked \in BOOLEAN /\ lateTick \in BOOLEAN
  /\ subscribed \/ pipeline = "live" => ~lateTick /\ (step = "tick" => ~endAsked)

EventInv == Numbered /\ Placed /\ Honoured

-----------------------------------------------------------------------------
(* What is submitted goes behind everything else *)

\* Events submitted behind the buffer get the numbers that follow.
LEMMA SubmitNumbers ==
  ASSUME Numbered, NEW n \in Nat, Submit(n)
  PROVE  /\ submitted' \in Nat /\ buffer' \in Seq(Nat)
         /\ submitted' = drainFrom + Len(buffer')
         /\ \A i \in 1 .. Len(buffer') : buffer'[i] = drainFrom + i
<1>1. PICK k \in 0 .. n :
        /\ submitted' = submitted + k
        /\ buffer' = buffer \o [i \in 1 .. k |-> submitted + i]
  BY DEF Submit
<1> DEFINE new == [i \in 1 .. k |-> submitted + i]
<1>2. k \in Nat /\ submitted \in Nat /\ buffer \in Seq(Nat) /\ drainFrom \in Nat
  BY DEF Numbered
<1>3. new \in Seq(Nat) /\ Len(new) = k
  BY <1>2
<1>4. \A i \in 1 .. k : new[i] = submitted + i
  OBVIOUS
<1>5. buffer' = buffer \o new
  BY <1>1
<1> HIDE DEF new
<1>6. buffer' \in Seq(Nat) /\ Len(buffer') = Len(buffer) + k
  BY <1>2, <1>3, <1>5, ConcatProperties
<1>7. \A i \in 1 .. Len(buffer') :
        buffer'[i] = IF i <= Len(buffer) THEN buffer[i] ELSE new[i - Len(buffer)]
  BY <1>2, <1>3, <1>5, <1>6, ConcatProperties
<1>8. submitted = drainFrom + Len(buffer) /\ Len(buffer) \in Nat
  BY <1>2 DEF Numbered
<1>9. ASSUME NEW i \in 1 .. Len(buffer') PROVE buffer'[i] = drainFrom + i
  <2>1. CASE i <= Len(buffer)
    <3>1. i \in 1 .. Len(buffer)  BY <2>1, <1>6, <1>8, <1>2
    <3>2. buffer'[i] = buffer[i]  BY <2>1, <1>7
    <3> QED  BY <3>1, <3>2 DEF Numbered
  <2>2. CASE ~(i <= Len(buffer))
    <3>1. i - Len(buffer) \in 1 .. k
      BY <2>2, <1>2, <1>6, <1>8
    <3>2. buffer'[i] = submitted + (i - Len(buffer))
      BY <2>2, <3>1, <1>4, <1>7
    <3> QED  BY <3>2, <1>2, <1>6, <1>8
  <2> QED  BY <2>1, <2>2
<1> QED  BY SMTT(30), <1>1, <1>2, <1>6, <1>8, <1>9

\* A step that only submits keeps the numbering.
LEMMA SubmitKeeps ==
  ASSUME Numbered, NEW n \in Nat, Submit(n), UNCHANGED <<delivered, draining, drainFrom>>
  PROVE  Numbered'
BY SubmitNumbers DEF Numbered

\* So does one that submits nothing.
LEMMA QuietKeeps ==
  ASSUME Numbered, UNCHANGED <<submitted, buffer, delivered, draining, drainFrom>>
  PROVE  Numbered'
BY DEF Numbered

-----------------------------------------------------------------------------
(* The steps *)

\* The channel begins with the invariant.
LEMMA InitHolds == EventInit => EventInv
<1> SUFFICES ASSUME EventInit PROVE EventInv  OBVIOUS
<1>1. <<>> \in Seq(Nat) /\ Len(<<>>) = 0  OBVIOUS
<1>2. Numbered
  <2>1. delivered = <<>> /\ draining = <<>> /\ buffer = <<>>  BY DEF EventInit
  <2>2. Len(delivered) = 0 /\ Len(draining) = 0 /\ Len(buffer) = 0  BY <1>1, <2>1
  <2>3. submitted = 0 /\ drainFrom = 0  BY DEF EventInit
  <2>4. 1 .. 0 = {}  OBVIOUS
  <2> QED  BY <1>1, <2>1, <2>2, <2>3, <2>4 DEF Numbered
<1>3. Placed /\ Honoured  BY DEF EventInit, Placed, Honoured
<1> QED  BY <1>2, <1>3 DEF EventInv

\* A tick of the algorithm submits what the executor reports.
LEMMA OnTickKeeps == EventInv /\ OnTick => EventInv'
<1> SUFFICES ASSUME EventInv, OnTick PROVE EventInv'  OBVIOUS
<1>1. Numbered'  BY SubmitKeeps DEF EventInv, OnTick
<1>2. Placed' /\ Honoured'  BY DEF EventInv, OnTick, Placed, Honoured
<1> QED  BY <1>1, <1>2 DEF EventInv

\* A clipped tick submits and leaves the pass out.
LEMMA OnClippedTickKeeps == EventInv /\ OnClippedTick => EventInv'
<1> SUFFICES ASSUME EventInv, OnClippedTick PROVE EventInv'  OBVIOUS
<1>1. Numbered'  BY SubmitKeeps DEF EventInv, OnClippedTick
<1>2. Placed' /\ Honoured'  BY DEF EventInv, OnClippedTick, Placed, Honoured
<1> QED  BY <1>1, <1>2 DEF EventInv

\* The decision submits during its pass.
LEMMA ComputeAndExecuteKeeps == EventInv /\ ComputeAndExecute => EventInv'
<1> SUFFICES ASSUME EventInv, ComputeAndExecute PROVE EventInv'  OBVIOUS
<1>1. Numbered'  BY SubmitKeeps DEF EventInv, ComputeAndExecute
<1>2. Placed' /\ Honoured'
  BY DEF EventInv, ComputeAndExecute, GoDrain, MayAskEnd, Placed, Honoured
<1> QED  BY <1>1, <1>2 DEF EventInv

\* A heartbeat submits what came in between ticks.
LEMMA HeartbeatEventsKeeps == EventInv /\ HeartbeatEvents => EventInv'
<1> SUFFICES ASSUME EventInv, HeartbeatEvents PROVE EventInv'  OBVIOUS
<1>1. Numbered'  BY SubmitKeeps DEF EventInv, HeartbeatEvents
<1>2. Placed' /\ Honoured'  BY DEF EventInv, HeartbeatEvents, GoDrain, Placed, Honoured
<1> QED  BY <1>1, <1>2 DEF EventInv

\* A ghost pass drains when something waits.
LEMMA GhostPassKeeps == EventInv /\ GhostPass => EventInv'
<1> SUFFICES ASSUME EventInv, GhostPass PROVE EventInv'  OBVIOUS
<1>1. Numbered'  BY SubmitKeeps DEF EventInv, GhostPass
<1>2. Placed' /\ Honoured'
  BY DEF EventInv, GhostPass, GoDrain, MayAskEnd, Placed, Honoured
<1> QED  BY <1>1, <1>2 DEF EventInv

\* The buffer becomes the batch; the batch before it was delivered in full.
LEMMA BeginDrainKeeps == EventInv /\ BeginDrain => EventInv'
<1> SUFFICES ASSUME EventInv, BeginDrain PROVE EventInv'  OBVIOUS
<1>1. draining = <<>> /\ drainFrom = Len(delivered)
  BY DEF EventInv, Placed, BeginDrain, Numbered
<1>2. Numbered'
  BY <1>1 DEF EventInv, BeginDrain, Numbered
<1>3. Placed' /\ Honoured'
  BY DEF EventInv, BeginDrain, Placed, Honoured
<1> QED  BY <1>2, <1>3 DEF EventInv

\* The oldest event of the batch is the one after the last that was delivered.
LEMMA DispatchHookKeeps == EventInv /\ DispatchHook => EventInv'
<1> SUFFICES ASSUME EventInv, DispatchHook PROVE EventInv'  OBVIOUS
<1>1. /\ delivered \in Seq(Nat) /\ draining \in Seq(Nat) /\ draining # <<>>
      /\ delivered' = Append(delivered, Head(draining)) /\ draining' = Tail(draining)
      /\ drainFrom' = drainFrom
  BY DEF EventInv, Numbered, DispatchHook
<1>2. Len(draining) \in Nat /\ Len(draining) >= 1 /\ Head(draining) = draining[1]
  BY <1>1
<1>3. Head(draining) = Len(delivered) + 1 /\ Head(draining) \in Nat
  BY <1>1, <1>2 DEF EventInv, Numbered
<1>4. /\ delivered' \in Seq(Nat) /\ Len(delivered') = Len(delivered) + 1
      /\ \A i \in 1 .. Len(delivered) : delivered'[i] = delivered[i]
      /\ delivered'[Len(delivered) + 1] = Head(draining)
  BY <1>1, <1>3
<1>5. \A i \in 1 .. Len(delivered') : delivered'[i] = i
  BY <1>1, <1>3, <1>4 DEF EventInv, Numbered
<1>6. /\ draining' \in Seq(Nat) /\ Len(draining') = Len(draining) - 1
      /\ \A i \in 1 .. Len(draining') : draining'[i] = draining[i + 1]
  BY <1>1, <1>2
<1>7. \A i \in 1 .. Len(draining') : draining'[i] = Len(delivered') + i
  BY <1>1, <1>2, <1>4, <1>6 DEF EventInv, Numbered
<1>8. /\ submitted' \in Nat /\ buffer' \in Seq(Nat)
      /\ submitted' = drainFrom + Len(buffer')
      /\ \A i \in 1 .. Len(buffer') : buffer'[i] = drainFrom + i
  BY SubmitNumbers DEF EventInv, DispatchHook
<1>9. drainFrom' = Len(delivered') + Len(draining')
  BY <1>1, <1>2, <1>4, <1>6 DEF EventInv, Numbered
<1>10. Numbered'
  BY <1>1, <1>4, <1>5, <1>6, <1>7, <1>8, <1>9 DEF Numbered
<1>11. Placed' /\ Honoured'
  BY DEF EventInv, DispatchHook, MayAskEnd, Placed, Honoured
<1> QED  BY <1>10, <1>11 DEF EventInv

\* Steps that move no event.
LEMMA QuietStepsKeep == EventInv /\ (EndDrain \/ CheckEnd \/ TicksExhausted) => EventInv'
<1> SUFFICES ASSUME EventInv, EndDrain \/ CheckEnd \/ TicksExhausted PROVE EventInv'  OBVIOUS
<1>1. Numbered'  BY QuietKeeps DEF EventInv, EndDrain, CheckEnd, TicksExhausted
<1>2. Placed' /\ Honoured'
  BY DEF EventInv, EndDrain, CheckEnd, TicksExhausted, Placed, Honoured
<1> QED  BY <1>1, <1>2 DEF EventInv

\* The end of the session is the last event before the last drain.
LEMMA SubmitSessionEndKeeps == EventInv /\ SubmitSessionEnd => EventInv'
<1> SUFFICES ASSUME EventInv, SubmitSessionEnd PROVE EventInv'  OBVIOUS
<1>1. Numbered'
  <2>1. CASE subscribed
    <3>1. /\ buffer \in Seq(Nat) /\ submitted + 1 \in Nat
          /\ submitted' = submitted + 1 /\ buffer' = Append(buffer, submitted + 1)
      BY <2>1 DEF EventInv, Numbered, SubmitSessionEnd
    <3>2. /\ buffer' \in Seq(Nat) /\ Len(buffer') = Len(buffer) + 1
          /\ \A i \in 1 .. Len(buffer) : buffer'[i] = buffer[i]
          /\ buffer'[Len(buffer) + 1] = submitted + 1
      BY <3>1
    <3>3. UNCHANGED <<delivered, draining, drainFrom>>  BY DEF SubmitSessionEnd
    <3>4. /\ submitted = drainFrom + Len(buffer) /\ drainFrom \in Nat /\ Len(buffer) \in Nat
          /\ \A i \in 1 .. Len(buffer) : buffer[i] = drainFrom + i
      BY DEF EventInv, Numbered
    <3>5. submitted' \in Nat /\ submitted' = drainFrom + Len(buffer')  BY <3>1, <3>2, <3>4
    <3>6. ASSUME NEW i \in 1 .. Len(buffer') PROVE buffer'[i] = drainFrom + i
      <4>1. CASE i = Len(buffer) + 1  BY <4>1, <3>2, <3>4
      <4>2. CASE i # Len(buffer) + 1
        <5>1. i \in 1 .. Len(buffer)  BY <4>2, <3>2, <3>4
        <5> QED  BY <5>1, <3>2, <3>4
      <4> QED  BY <4>1, <4>2
    <3> QED  BY <3>2, <3>3, <3>5, <3>6 DEF EventInv, Numbered
  <2>2. CASE ~subscribed
    BY <2>2, QuietKeeps DEF EventInv, SubmitSessionEnd
  <2> QED  BY <2>1, <2>2
<1>2. Placed' /\ Honoured'
  BY DEF EventInv, SubmitSessionEnd, GoDrain, Placed, Honoured
<1> QED  BY <1>1, <1>2 DEF EventInv

\* Every step of the channel keeps the invariant.
LEMMA StepKeeps == EventInv /\ [EventNext]_eventVars => EventInv'
<1> SUFFICES ASSUME EventInv, [EventNext]_eventVars PROVE EventInv'  OBVIOUS
<1>1. CASE UNCHANGED eventVars
  BY <1>1 DEF eventVars, EventInv, Numbered, Placed, Honoured
<1>2. CASE EventNext
  BY <1>2, OnTickKeeps, OnClippedTickKeeps, ComputeAndExecuteKeeps, HeartbeatEventsKeeps,
     GhostPassKeeps, BeginDrainKeeps, DispatchHookKeeps, QuietStepsKeep,
     SubmitSessionEndKeeps DEF EventNext
<1> QED  BY <1>1, <1>2

-----------------------------------------------------------------------------
(* The theorem *)

\* The invariant is what the channel promises.
LEMMA InvDelivers == EventInv => EventsDelivered
<1> SUFFICES ASSUME EventInv PROVE EventsDelivered  OBVIOUS
<1>1. DOMAIN delivered = 1 .. Len(delivered) /\ Len(delivered) \in Nat /\ Len(draining) \in Nat
  BY DEF EventInv, Numbered
<1>2. DeliveredInOrder  BY <1>1 DEF EventInv, Numbered, DeliveredInOrder
<1>3. NoReentrancy  BY <1>1 DEF EventInv, Numbered, NoReentrancy
<1>4. LosslessUntilTheEnd
  BY <1>1 DEF EventInv, Numbered, Placed, LosslessUntilTheEnd
<1>5. EndHonouredIfSubscribed  BY DEF EventInv, Honoured, EndHonouredIfSubscribed
<1> QED  BY <1>2, <1>3, <1>4, <1>5 DEF EventsDelivered

\* decision_event_dispatcher.py drain and both tick loops: every event reaches
\* its hook once, in the order of submission, never inside the drain it was
\* submitted in, none is left at the end but those of the last hooks, and a
\* subscribed logic sees no tick after it asked for the end.
THEOREM ChannelDelivers == EventSpec => []EventsDelivered
<1>1. EventInit => EventInv  BY InitHolds
<1>2. EventInv /\ [EventNext]_eventVars => EventInv'  BY StepKeeps
<1>3. EventInv => EventsDelivered  BY InvDelivers
<1> QED  BY <1>1, <1>2, <1>3, PTL DEF EventSpec

-----------------------------------------------------------------------------
(* Bars, passes and signals *)

Bar == [start : Int, last : Int]
Rising(bars, tf) == \A i, j \in 1 .. Len(bars) : i < j => InTurn(bars[i], bars[j], tf)

\* A closed bar ends before the period that starts at edge, or is the warm-up's bar of it.
Reaches(a, edge, tf) ==
  a.start < edge \/ (a = StartPeriod(tf) /\ SessionStart % tf # 0 /\ a.start = edge)

\* Where the closed bars end: at the bar under construction, or in the session's first period.
Edge(tf) == IF current[tf] = NoBar THEN GetBarStartTime(0, tf) ELSE current[tf].start

BarInv ==
  /\ lastTick \in Nat
  /\ current \in [Timeframes -> Bar] /\ completed \in [Timeframes -> Seq(Bar)]
  /\ cacheValid \in [Timeframes -> BOOLEAN] /\ closedTfs \subseteq Timeframes
  /\ \A tf \in Timeframes :
       /\ Len(completed[tf]) <= MaxHistory /\ Rising(completed[tf], tf)
       /\ current[tf] # NoBar =>
            current[tf].start = GetBarStartTime(lastTick, tf) /\ current[tf].last # -1
       /\ \A i \in 1 .. Len(completed[tf]) : Reaches(completed[tf][i], Edge(tf), tf)
  /\ CacheTrue

PassInv ==
  /\ phase \in {"boot", "idle", "workers", "over"}
  /\ todo \subseteq Workers /\ closing \subseteq Timeframes
  /\ DOMAIN results = Workers
  /\ phase = "boot" =>
       /\ results["close"] = NoResult /\ lastTick = 0
       /\ \A tf \in Timeframes : current[tf] = NoBar /\ completed[tf] = <<>>
  /\ phase = "workers" =>
       /\ history[CloseTf] = completed[CloseTf] /\ closedTfs = {}
       /\ "close" \notin todo => results["close"].bars = completed[CloseTf]
  /\ phase = "idle" /\ results["close"] # NoResult /\ CloseTf \notin closedTfs
       => results["close"].bars = completed[CloseTf]

\* Keep drops the oldest bars only: what is left rises and was there.
LEMMA KeepFacts ==
  ASSUME NEW h \in Seq(Bar), NEW tf, Rising(h, tf)
  PROVE  /\ Keep(h) \in Seq(Bar) /\ Len(Keep(h)) <= MaxHistory /\ Rising(Keep(h), tf)
         /\ \A i \in 1 .. Len(Keep(h)) : \E j \in 1 .. Len(h) : Keep(h)[i] = h[j]
<1> USE BarAssumption
<1>1. CASE Len(h) <= MaxHistory
  <2>1. Keep(h) = h
    BY <1>1 DEF Keep
  <2> QED BY <2>1, <1>1
<1>2. CASE Len(h) > MaxHistory
  <2> DEFINE d == Len(h) - MaxHistory
             k == SubSeq(h, d + 1, Len(h))
  <2>1. Keep(h) = k
    BY <1>2 DEF Keep
  <2>2. d \in Nat /\ Len(h) \in Nat /\ d < Len(h) /\ Len(h) - d = MaxHistory
    BY <1>2
  <2>3. k \in Seq(Bar) /\ Len(k) = MaxHistory
    BY <2>2
  <2>4. \A i \in 1 .. Len(k) : k[i] = h[d + i] /\ d + i \in 1 .. Len(h)
    <3>1. \A i \in d + 1 .. Len(h) : h[i] \in Bar
      BY <2>2
    <3>2. \A i \in 1 .. Len(h) - (d + 1) + 1 : k[i] = h[d + 1 + i - 1]
      <4> HIDE DEF d
      <4> QED BY <2>2, <3>1, SubSeqProperties
    <3> HIDE DEF d, k
    <3> QED BY <2>2, <2>3, <3>2
  <2> HIDE DEF d, k
  <2>5. Rising(k, tf)
    BY <2>2, <2>3, <2>4 DEF Rising
  <2> QED BY <2>1, <2>2, <2>3, <2>4, <2>5
<1> QED BY <1>1, <1>2

\* Bar starts lie on the timeframe's grid, at or before the tick, and rise with it.
LEMMA StartFacts ==
  ASSUME NEW t \in Nat, NEW u \in Nat, t <= u, NEW tf \in Timeframes
  PROVE  /\ GetBarStartTime(t, tf) \in Nat /\ GetBarStartTime(u, tf) \in Nat
         /\ GetBarStartTime(t, tf) <= GetBarStartTime(u, tf)
<1>1. tf \in Nat \ {0} /\ SessionStart \in Nat
  BY BarAssumption
<1>2. ASSUME NEW m \in Nat, NEW n \in Nat, m <= n
      PROVE  (m \div tf) * tf \in Nat /\ (n \div tf) * tf \in Nat /\ (m \div tf) * tf <= (n \div tf) * tf
  BY <1>1, <1>2
<1>3. SessionStart + t \in Nat /\ SessionStart + u \in Nat /\ SessionStart + t <= SessionStart + u
  BY <1>1
<1> QED BY <1>2, <1>3 DEF GetBarStartTime

\* What reaches a period reaches every later one, and is at most as old as it starts.
LEMMA ReachesOn ==
  ASSUME NEW a \in Bar, NEW m \in Int, NEW n \in Int, m <= n, NEW tf, Reaches(a, m, tf)
  PROVE  Reaches(a, n, tf) /\ a.start <= m
<1>1. a.start \in Int
  BY DEF Bar
<1>2. a.start <= m
  BY <1>1 DEF Reaches
<1>3. CASE a.start < n
  BY <1>3, <1>2 DEF Reaches
<1>4. CASE ~(a.start < n)
  <2>1. a.start = n /\ a.start = m
    BY <1>1, <1>2, <1>4
  <2>2. a = StartPeriod(tf) /\ SessionStart % tf # 0
    BY <2>1 DEF Reaches
  <2> QED BY <2>1, <2>2, <1>2 DEF Reaches
<1> QED BY <1>3, <1>4

\* A rendered bar whose period all bars of a history in turn reach leaves it in turn.
LEMMA AppendRises ==
  ASSUME NEW h \in Seq(Bar), NEW tf, Rising(h, tf), NEW b \in Bar, b.last # -1,
         \A i \in 1 .. Len(h) : Reaches(h[i], b.start, tf)
  PROVE  /\ Append(h, b) \in Seq(Bar) /\ Rising(Append(h, b), tf)
         /\ \A i \in 1 .. Len(Append(h, b)) : Append(h, b)[i].start <= b.start
<1>1. \A i \in 1 .. Len(h) : Append(h, b)[i] = h[i] /\ h[i] \in Bar
  OBVIOUS
<1>2. Append(h, b) \in Seq(Bar) /\ Len(Append(h, b)) = Len(h) + 1 /\ Append(h, b)[Len(h) + 1] = b /\ Len(h) \in Nat
  OBVIOUS
<1>3. \A i \in 1 .. Len(h) : InTurn(h[i], b, tf) /\ h[i].start <= b.start
  <2>1. b.start \in Int
    BY DEF Bar
  <2> SUFFICES ASSUME NEW i \in 1 .. Len(h) PROVE InTurn(h[i], b, tf) /\ h[i].start <= b.start
    OBVIOUS
  <2>2. Reaches(h[i], b.start, tf) /\ h[i] \in Bar
    BY <1>1
  <2>3. h[i].start <= b.start
    BY <2>1, <2>2, ReachesOn
  <2> QED BY <2>2, <2>3 DEF Reaches, InTurn
<1>4. \A i \in 1 .. Len(Append(h, b)) : Append(h, b)[i].start <= b.start
  BY <1>1, <1>2, <1>3 DEF Bar
<1>5. Rising(Append(h, b), tf)
  BY <1>1, <1>2, <1>3 DEF Rising
<1> QED BY <1>2, <1>4, <1>5

\* RenderTick (the renderer on one tick, clipped or not): closed bars rise, end before the
\* bar under construction, and change only where the tick closes one.
LEMMA RenderStep ==
  ASSUME BarInv, NEW t \in Nat, t >= lastTick, RenderTick(t), lastTick' = t
  PROVE  /\ current' \in [Timeframes -> Bar] /\ completed' \in [Timeframes -> Seq(Bar)]
         /\ \A tf \in Timeframes :
              /\ Len(completed'[tf]) <= MaxHistory /\ Rising(completed'[tf], tf)
              /\ current'[tf] # NoBar
              /\ current'[tf].start = GetBarStartTime(t, tf) /\ current'[tf].last # -1
              /\ \A i \in 1 .. Len(completed'[tf]) : Reaches(completed'[tf][i], current'[tf].start, tf)
              /\ tf \notin Closing(t) => completed'[tf] = completed[tf]
<1>0. lastTick \in Nat
  BY DEF BarInv
<1>1. \A tf \in Timeframes :
        /\ current'[tf] = [start |-> GetBarStartTime(t, tf), last |-> t]
        /\ completed'[tf] = IF tf \in Closing(t) THEN Keep(Append(completed[tf], current[tf])) ELSE completed[tf]
        /\ DOMAIN current' = Timeframes /\ DOMAIN completed' = Timeframes
  BY DEF RenderTick
<1>2. ASSUME NEW tf \in Timeframes
      PROVE  /\ completed'[tf] \in Seq(Bar) /\ current'[tf] \in Bar
             /\ Len(completed'[tf]) <= MaxHistory /\ Rising(completed'[tf], tf)
             /\ current'[tf] # NoBar
             /\ current'[tf].start = GetBarStartTime(t, tf) /\ current'[tf].last # -1
             /\ \A i \in 1 .. Len(completed'[tf]) : Reaches(completed'[tf][i], current'[tf].start, tf)
             /\ tf \notin Closing(t) => completed'[tf] = completed[tf]
  <2> DEFINE h == completed[tf]
             c == current[tf]
             s == GetBarStartTime(t, tf)
  <2>1. /\ h \in Seq(Bar) /\ c \in Bar /\ Len(h) <= MaxHistory /\ Rising(h, tf)
        /\ c # NoBar => c.start = GetBarStartTime(lastTick, tf) /\ c.last # -1
        /\ \A i \in 1 .. Len(h) : Reaches(h[i], Edge(tf), tf)
    BY DEF BarInv
  <2>2. /\ s \in Nat /\ GetBarStartTime(lastTick, tf) \in Nat /\ GetBarStartTime(lastTick, tf) <= s
        /\ GetBarStartTime(0, tf) \in Nat /\ GetBarStartTime(0, tf) <= s
    BY <1>0, StartFacts
  <2>3. /\ current'[tf] \in Bar /\ current'[tf] # NoBar /\ current'[tf].start = s /\ current'[tf].last # -1
    <3>1. current'[tf] = [start |-> s, last |-> t]
      BY <1>1
    <3> HIDE DEF s
    <3>2. [start |-> s, last |-> t] \in Bar
      BY <2>2 DEF Bar
    <3>3. /\ [start |-> s, last |-> t].start = s /\ NoBar.start = -1 /\ s # -1
          /\ [start |-> s, last |-> t].last = t /\ t # -1
      BY <2>2 DEF NoBar
    <3> QED BY <3>1, <3>2, <3>3
  <2>4. tf \in Closing(t) <=> c # NoBar /\ c.start # s
    BY DEF Closing, BarCloses
  <2>5. Edge(tf) = IF c = NoBar THEN GetBarStartTime(0, tf) ELSE c.start
    BY DEF Edge
  <2>6. CASE tf \notin Closing(t)
    <3>1. completed'[tf] = h
      BY <1>1, <2>6
    <3>2. Edge(tf) <= s
      <4> HIDE DEF s, c
      <4> QED BY <2>2, <2>4, <2>5, <2>6, <2>1
    <3>3. \A i \in 1 .. Len(h) : h[i] \in Bar
      BY <2>1
    <3>4. Edge(tf) \in Int /\ s \in Int
      BY <2>1, <2>2, <2>5 DEF Bar
    <3>5. \A i \in 1 .. Len(h) : Reaches(h[i], s, tf)
      <4> HIDE DEF s, h
      <4> QED BY <2>1, <3>2, <3>3, <3>4, ReachesOn
    <3> QED BY <3>1, <3>5, <2>1, <2>3
  <2>7. CASE tf \in Closing(t)
    <3> DEFINE a == Append(h, c)
    <3>1. completed'[tf] = Keep(a)
      BY <1>1, <2>7
    <3>2. c # NoBar /\ Edge(tf) = c.start /\ c.start < s /\ c.start \in Int /\ c.last # -1
      <4>1. c # NoBar /\ c.start # s /\ c.start = GetBarStartTime(lastTick, tf) /\ c.last # -1
        BY <2>4, <2>7, <2>1
      <4> HIDE DEF s, c
      <4> QED BY <4>1, <2>2, <2>5
    <3>3. /\ a \in Seq(Bar) /\ Rising(a, tf)
          /\ \A i \in 1 .. Len(a) : a[i].start <= c.start
      <4> HIDE DEF c, h
      <4> QED BY <2>1, <3>2, AppendRises
    <3>4. /\ Keep(a) \in Seq(Bar) /\ Len(Keep(a)) <= MaxHistory /\ Rising(Keep(a), tf)
          /\ \A i \in 1 .. Len(Keep(a)) : \E j \in 1 .. Len(a) : Keep(a)[i] = a[j]
      <4> HIDE DEF a
      <4> QED BY <3>3, KeepFacts
    <3>5. \A i \in 1 .. Len(a) : a[i] \in Bar
      BY <3>3
    <3>6. \A i \in 1 .. Len(Keep(a)) : Keep(a)[i].start < s
      <4> HIDE DEF a, s, c
      <4> SUFFICES ASSUME NEW i \in 1 .. Len(Keep(a)) PROVE Keep(a)[i].start < s
        OBVIOUS
      <4>1. PICK j \in 1 .. Len(a) : Keep(a)[i] = a[j]
        BY <3>4
      <4>2. a[j].start \in Int /\ a[j].start <= c.start
        BY <3>3, <3>5 DEF Bar
      <4> QED BY <4>1, <4>2, <3>2, <2>2
    <3>7. \A i \in 1 .. Len(Keep(a)) : Reaches(Keep(a)[i], s, tf)
      BY <3>6 DEF Reaches
    <3> QED BY <3>1, <3>4, <3>7, <2>3, <2>7
  <2> QED BY <2>6, <2>7
<1>3. current' \in [Timeframes -> Bar]
  BY <1>2 DEF RenderTick
<1>4. completed' \in [Timeframes -> Seq(Bar)]
  BY <1>2 DEF RenderTick
<1> QED BY <1>2, <1>3, <1>4

\* Nothing is rendered before the first tick.
LEMMA BarsInit == Init => BarInv /\ PassInv
<1> SUFFICES ASSUME Init PROVE BarInv /\ PassInv
  OBVIOUS
<1> USE DEF Init, BarInit
<1>1. current \in [Timeframes -> Bar]
  BY DEF NoBar, Bar
<1>2. completed \in [Timeframes -> Seq(Bar)] /\ \A tf \in Timeframes : completed[tf] = <<>> /\ Len(completed[tf]) = 0
  OBVIOUS
<1>3. cacheValid \in [Timeframes -> BOOLEAN] /\ CacheTrue
  BY DEF CacheTrue
<1>4. \A tf \in Timeframes : current[tf] = NoBar
  OBVIOUS
<1>5. BarInv
  BY <1>1, <1>2, <1>3, <1>4, BarAssumption DEF BarInv, Rising
<1>6. PassInv
  BY <1>2, <1>4 DEF PassInv, Workers
<1> QED BY <1>5, <1>6

\* Where the warm-up of a simulation, or of a live session, ends: before the period in
\* which the session starts, or in a simulation that starts inside it with that period.
LEMMA WarmupEnds ==
  ASSUME NEW tf \in Timeframes
  PROVE  /\ SimulatedEnd(tf) \in Int /\ FetchedEnd(tf) \in Int
         /\ Reaches([start |-> SimulatedEnd(tf), last |-> -1], GetBarStartTime(0, tf), tf)
         /\ Reaches([start |-> FetchedEnd(tf), last |-> -1], GetBarStartTime(0, tf), tf)
<1>1. tf \in Nat /\ tf > 0 /\ SessionStart \in Nat
  BY BarAssumption
<1> DEFINE q == SessionStart \div tf
           r == SessionStart % tf
<1>2. q \in Nat /\ r \in 0 .. tf - 1 /\ SessionStart = q * tf + r
  BY <1>1
<1>3. GetBarStartTime(0, tf) = q * tf
  BY <1>1 DEF GetBarStartTime
<1>4. FetchedEnd(tf) = (q - 1) * tf
  BY DEF FetchedEnd
<1>5. q * tf \in Int /\ (q - 1) * tf = q * tf - tf
  <2> HIDE DEF q, r
  <2> QED BY <1>1, <1>2
<1>6. SimulatedEnd(tf) = IF r = 0 THEN (q - 1) * tf ELSE q * tf
  <2>1. CASE r = 0
    <3>1. (SessionStart - 1) \div tf = q - 1
      <4> HIDE DEF q, r
      <4>1. SessionStart - 1 = (q - 1) * tf + (tf - 1) /\ tf - 1 \in 0 .. tf - 1 /\ q - 1 \in Int
        BY <1>1, <1>2, <1>5, <2>1
      <4> QED BY <4>1, <1>1
    <3> QED BY <3>1, <2>1 DEF SimulatedEnd
  <2>2. CASE r # 0
    <3>1. (SessionStart - 1) \div tf = q
      <4> HIDE DEF q, r
      <4>1. SessionStart - 1 = q * tf + (r - 1) /\ r - 1 \in 0 .. tf - 1
        BY <1>1, <1>2, <1>5, <2>2
      <4> QED BY <4>1, <1>1, <1>2
    <3> QED BY <3>1, <2>2 DEF SimulatedEnd
  <2> QED BY <2>1, <2>2
<1> HIDE DEF q
<1>7. Reaches([start |-> FetchedEnd(tf), last |-> -1], GetBarStartTime(0, tf), tf)
  BY <1>1, <1>3, <1>4, <1>5 DEF Reaches
<1>10. SimulatedEnd(tf) \in Int /\ FetchedEnd(tf) \in Int
  BY <1>1, <1>4, <1>5, <1>6
<1>8. CASE r = 0
  <2>1. SimulatedEnd(tf) = FetchedEnd(tf)
    BY <1>8, <1>4, <1>6
  <2> QED BY <2>1, <1>7, <1>10
<1>9. CASE r # 0
  <2>1. SimulatedEnd(tf) = GetBarStartTime(0, tf)
    BY <1>9, <1>3, <1>6
  <2>2. [start |-> SimulatedEnd(tf), last |-> -1] = StartPeriod(tf)
    BY <2>1 DEF StartPeriod
  <2> DEFINE a == [start |-> SimulatedEnd(tf), last |-> -1]
  <2>3. a.start = GetBarStartTime(0, tf) /\ a = StartPeriod(tf) /\ SessionStart % tf # 0
    BY <2>1, <2>2, <1>9
  <2> HIDE DEF a
  <2>4. Reaches(a, GetBarStartTime(0, tf), tf)
    BY <2>3 DEF Reaches
  <2> QED BY <2>4, <1>7, <1>10 DEF a
<1> QED BY <1>8, <1>9

\* Warm-up bars reach the period in which the session starts.
LEMMA WarmupKeeps ==
  ASSUME BarInv, PassInv, Warmup
  PROVE  BarInv' /\ PassInv'
<1> USE DEF Warmup
<1>1. PICK n \in 0 .. 1, end \in [Timeframes -> Int] :
        /\ InjectWarmupBars([tf \in Timeframes |-> WarmupBars(end[tf], n, tf)])
        /\ \A tf \in Timeframes : Reaches([start |-> end[tf], last |-> -1], GetBarStartTime(0, tf), tf)
  <2> DEFINE sim == [tf \in Timeframes |-> SimulatedEnd(tf)]
             live == [tf \in Timeframes |-> FetchedEnd(tf)]
  <2>1. sim \in [Timeframes -> Int] /\ live \in [Timeframes -> Int]
    BY WarmupEnds
  <2>2. \A tf \in Timeframes :
          /\ Reaches([start |-> sim[tf], last |-> -1], GetBarStartTime(0, tf), tf)
          /\ Reaches([start |-> live[tf], last |-> -1], GetBarStartTime(0, tf), tf)
    BY WarmupEnds
  <2>3. PICK n \in 0 .. 1 :
          \/ InjectWarmupBars([tf \in Timeframes |-> WarmupBars(SimulatedEnd(tf), n, tf)])
          \/ InjectWarmupBars([tf \in Timeframes |-> WarmupBars(FetchedEnd(tf), n, tf)])
    OBVIOUS
  <2>4. /\ [tf \in Timeframes |-> WarmupBars(SimulatedEnd(tf), n, tf)]
             = [tf \in Timeframes |-> WarmupBars(sim[tf], n, tf)]
        /\ [tf \in Timeframes |-> WarmupBars(FetchedEnd(tf), n, tf)]
             = [tf \in Timeframes |-> WarmupBars(live[tf], n, tf)]
    OBVIOUS
  <2>5. CASE InjectWarmupBars([tf \in Timeframes |-> WarmupBars(SimulatedEnd(tf), n, tf)])
    <3>1. InjectWarmupBars([tf \in Timeframes |-> WarmupBars(sim[tf], n, tf)])
      BY <2>5, <2>4
    <3> HIDE DEF sim, live
    <3> QED BY <3>1, <2>1, <2>2
  <2>6. CASE InjectWarmupBars([tf \in Timeframes |-> WarmupBars(FetchedEnd(tf), n, tf)])
    <3>1. InjectWarmupBars([tf \in Timeframes |-> WarmupBars(live[tf], n, tf)])
      BY <2>6, <2>4
    <3> HIDE DEF sim, live
    <3> QED BY <3>1, <2>1, <2>2
  <2> QED BY <2>3, <2>5, <2>6
<1>2. /\ \A tf \in Timeframes : current[tf] = NoBar /\ completed[tf] = <<>>
      /\ results["close"] = NoResult /\ lastTick = 0
  BY DEF PassInv
<1>3. /\ current' = current /\ closedTfs' = closedTfs /\ cached' = cached /\ lastTick' = lastTick /\ phase' = "idle"
      /\ results' = results /\ todo' = todo /\ closing' = closing
      /\ cacheValid' = [tf \in Timeframes |-> FALSE]
  BY <1>1 DEF InjectWarmupBars
<1>4. ASSUME NEW tf \in Timeframes
      PROVE  /\ completed'[tf] \in Seq(Bar) /\ Len(completed'[tf]) <= MaxHistory /\ Rising(completed'[tf], tf)
             /\ \A i \in 1 .. Len(completed'[tf]) : Reaches(completed'[tf][i], GetBarStartTime(0, tf), tf)
  <2> DEFINE w == WarmupBars(end[tf], n, tf)
             edge == GetBarStartTime(0, tf)
  <2>0. tf \in Nat /\ tf > 0 /\ end[tf] \in Int
    BY BarAssumption
  <2>1. completed'[tf] = Keep(<<>> \o w)
    BY <1>1, <1>2 DEF InjectWarmupBars
  <2>2. w \in Seq(Bar) /\ Rising(w, tf) /\ \A i \in 1 .. Len(w) : Reaches(w[i], edge, tf)
    <3>1. CASE n = 0
      <4>1. w = <<>>
        BY <3>1 DEF WarmupBars
      <4> QED BY <4>1 DEF Rising
    <3>2. CASE n = 1
      <4> DEFINE b == [start |-> end[tf], last |-> -1]
      <4>1. w = [i \in 1 .. 1 |-> [start |-> end[tf] - (1 - i) * tf, last |-> -1]]
        BY <3>2 DEF WarmupBars
      <4>2. end[tf] - (1 - 1) * tf = end[tf]
        BY <2>0
      <4>3. w = [i \in 1 .. 1 |-> b]
        BY <4>1, <4>2
      <4>4. b \in Bar /\ Reaches(b, edge, tf)
        BY <2>0, <1>1 DEF Bar
      <4> HIDE DEF b, w
      <4>5. w \in Seq(Bar) /\ Len(w) = 1 /\ w[1] = b
        BY <4>3, <4>4
      <4> QED BY <4>4, <4>5 DEF Rising
    <3> QED BY <3>1, <3>2
  <2>3. <<>> \o w = w
    <3> HIDE DEF w
    <3> QED BY <2>2
  <2>4. /\ Keep(w) \in Seq(Bar) /\ Len(Keep(w)) <= MaxHistory /\ Rising(Keep(w), tf)
        /\ \A i \in 1 .. Len(Keep(w)) : \E j \in 1 .. Len(w) : Keep(w)[i] = w[j]
    <3> HIDE DEF w
    <3> QED BY <2>2, KeepFacts
  <2>5. \A i \in 1 .. Len(Keep(w)) : Reaches(Keep(w)[i], edge, tf)
    <3> HIDE DEF w, edge
    <3> QED BY <2>2, <2>4
  <2> QED BY <2>1, <2>3, <2>4, <2>5
<1>5. completed' \in [Timeframes -> Seq(Bar)]
  BY <1>1, <1>4 DEF InjectWarmupBars
<1>6. CacheTrue' /\ cacheValid' \in [Timeframes -> BOOLEAN]
  BY <1>3 DEF CacheTrue
<1>7. \A tf \in Timeframes : Edge(tf)' = GetBarStartTime(0, tf) /\ current'[tf] = NoBar
  BY <1>2, <1>3 DEF Edge
<1>8. BarInv'
  <2>1. lastTick \in Nat /\ current \in [Timeframes -> Bar] /\ closedTfs \subseteq Timeframes
    BY DEF BarInv
  <2> QED BY <2>1, <1>3, <1>4, <1>5, <1>6, <1>7 DEF BarInv
<1>9. PassInv'
  BY <1>2, <1>3 DEF PassInv
<1> QED BY <1>8, <1>9

\* A clipped tick is rendered, and what it closes is remembered for the next pass.
LEMMA ClippedKeeps ==
  ASSUME BarInv, PassInv, ClippedTick, clock \in Nat
  PROVE  BarInv' /\ PassInv'
<1> USE DEF ClippedTick
<1> DEFINE t == clock
<1>1. /\ t \in Nat /\ t >= lastTick /\ lastTick' = t /\ RenderTick(t)
      /\ cacheValid' = ValidAfter(t) /\ closedTfs' = PendingClosed(t) /\ cached' = cached
  BY DEF BarsOnly
<1> HIDE DEF t
<1>2. /\ current' \in [Timeframes -> Bar] /\ completed' \in [Timeframes -> Seq(Bar)]
      /\ \A tf \in Timeframes :
              /\ Len(completed'[tf]) <= MaxHistory /\ Rising(completed'[tf], tf)
              /\ current'[tf] # NoBar
              /\ current'[tf].start = GetBarStartTime(t, tf) /\ current'[tf].last # -1
              /\ \A i \in 1 .. Len(completed'[tf]) : Reaches(completed'[tf][i], current'[tf].start, tf)
              /\ tf \notin Closing(t) => completed'[tf] = completed[tf]
  BY <1>1, RenderStep
<1>3. /\ cacheValid' \in [Timeframes -> BOOLEAN] /\ closedTfs' \subseteq Timeframes
      /\ \A tf \in Timeframes : cacheValid'[tf] => cacheValid[tf] /\ tf \notin Closing(t)
  BY <1>1 DEF ValidAfter, PendingClosed, Closing, BarInv
<1>4. CacheTrue'
  BY <1>1, <1>2, <1>3 DEF CacheTrue, BarInv
<1>5. \A tf \in Timeframes : Edge(tf)' = current'[tf].start
  BY <1>2 DEF Edge
<1>6. BarInv'
  BY <1>1, <1>2, <1>3, <1>4, <1>5 DEF BarInv
<1>7. PassInv'
  <2>1. phase = "idle" /\ phase' = "idle" /\ results' = results /\ todo' = todo /\ closing' = closing
    OBVIOUS
  <2>2. CloseTf \notin closedTfs' => CloseTf \notin closedTfs /\ CloseTf \notin Closing(t)
    BY <1>1 DEF PendingClosed
  <2> QED BY <2>1, <2>2, <1>2, PassAssumption DEF PassInv
<1> QED BY <1>6, <1>7

\* A pass takes its history from the bars closed so far and consumes the remembered closes.
LEMMA BeginKeeps ==
  ASSUME BarInv, PassInv, BeginTick, clock \in Nat
  PROVE  BarInv' /\ PassInv'
<1>1. PICK behind \in 0 .. Lag :
        LET t == clock - behind IN
        /\ t >= lastTick
        /\ BarsForPass(t)
        /\ history' = cached'
        /\ closing' = PendingClosed(t)
        /\ todo' = {w \in Workers : WorkerNeedsRecompute(w, t, closing')}
        /\ lastTick' = t
  BY DEF BeginTick
<1> DEFINE t == clock - behind
<1>0. phase = "idle" /\ phase' = "workers" /\ results' = results /\ clock' = clock
  BY DEF BeginTick
<1>2. /\ t \in Nat /\ t >= lastTick /\ lastTick' = t /\ RenderTick(t)
      /\ cached' = HistoryRead(t) /\ cacheValid' = [tf \in Timeframes |-> TRUE] /\ closedTfs' = {}
      /\ history' = cached' /\ closing' = PendingClosed(t)
      /\ todo' = {w \in Workers : WorkerNeedsRecompute(w, t, closing')}
  <2>1. lastTick \in Nat /\ Lag \in Nat
    BY PassAssumption DEF BarInv
  <2> QED BY <1>1, <2>1 DEF BarsForPass
<1> HIDE DEF t
<1>3. /\ current' \in [Timeframes -> Bar] /\ completed' \in [Timeframes -> Seq(Bar)]
      /\ \A tf \in Timeframes :
              /\ Len(completed'[tf]) <= MaxHistory /\ Rising(completed'[tf], tf)
              /\ current'[tf] # NoBar
              /\ current'[tf].start = GetBarStartTime(t, tf) /\ current'[tf].last # -1
              /\ \A i \in 1 .. Len(completed'[tf]) : Reaches(completed'[tf][i], current'[tf].start, tf)
              /\ tf \notin Closing(t) => completed'[tf] = completed[tf]
  BY <1>2, RenderStep
<1>4. \A tf \in Timeframes : cached'[tf] = completed'[tf]
  <2> SUFFICES ASSUME NEW tf \in Timeframes PROVE cached'[tf] = completed'[tf]
    OBVIOUS
  <2>1. cached'[tf] = IF ValidAfter(t)[tf] THEN cached[tf] ELSE completed'[tf]
    BY <1>2 DEF HistoryRead
  <2>2. ValidAfter(t)[tf] => cacheValid[tf] /\ tf \notin Closing(t)
    BY DEF ValidAfter, Closing
  <2>3. cacheValid[tf] => cached[tf] = completed[tf]
    BY DEF BarInv, CacheTrue
  <2> QED BY <2>1, <2>2, <2>3, <1>3
<1>5. CacheTrue' /\ cacheValid' \in [Timeframes -> BOOLEAN]
  BY <1>2, <1>4 DEF CacheTrue
<1>6. \A tf \in Timeframes : Edge(tf)' = current'[tf].start
  BY <1>3 DEF Edge
<1>7. BarInv'
  BY <1>2, <1>3, <1>5, <1>6 DEF BarInv
<1>8. PassInv'
  <2>1. closing' \subseteq Timeframes
    BY <1>2 DEF PendingClosed, Closing, BarInv
  <2>2. todo' \subseteq Workers /\ DOMAIN results' = Workers
    BY <1>2, <1>0 DEF PassInv
  <2>3. history'[CloseTf] = completed'[CloseTf]
    BY <1>2, <1>4, PassAssumption
  <2>4. ASSUME "close" \notin todo' PROVE results'["close"].bars = completed'[CloseTf]
    <3>1. ~WorkerNeedsRecompute("close", t, closing')
      BY <2>4, <1>2 DEF Workers
    <3>2. results["close"] # NoResult /\ CloseTf \notin closing'
      BY <3>1 DEF WorkerNeedsRecompute
    <3>3. CloseTf \notin closedTfs /\ CloseTf \notin Closing(t)
      BY <3>2, <1>2 DEF PendingClosed
    <3> QED BY <3>2, <3>3, <1>0, <1>3, PassAssumption DEF PassInv
  <2> QED BY <1>0, <1>2, <2>1, <2>2, <2>3, <2>4 DEF PassInv
<1> QED BY <1>7, <1>8

\* A worker computes from the history of the pass or keeps a result that is still true.
LEMMA ComputeKeeps ==
  ASSUME BarInv, PassInv, NEW w \in Workers, ComputeWorker(w)
  PROVE  BarInv' /\ PassInv'
<1> USE DEF ComputeWorker
<1>1. UNCHANGED <<current, completed, cached, cacheValid, closedTfs, phase, lastTick, history, closing>>
  BY DEF barVars
<1>2. BarInv'
  BY <1>1 DEF BarInv, CacheTrue, Edge
<1>3. DOMAIN results' = Workers /\ todo' \subseteq Workers /\ phase = "workers"
  BY DEF PassInv
<1>4. ASSUME "close" \notin todo' PROVE results'["close"].bars = completed[CloseTf]
  <2>1. CASE w = "close"
    <3>1. results'["close"].bars = history[CloseTf]
      BY <2>1 DEF PassInv, NoResult
    <3> QED BY <3>1, <1>3 DEF PassInv
  <2>2. CASE w # "close"
    <3>1. results'["close"] = results["close"] /\ "close" \notin todo
      BY <2>2, <1>4 DEF PassInv, Workers
    <3> QED BY <3>1, <1>3 DEF PassInv
  <2> QED BY <2>1, <2>2
<1>5. PassInv'
  BY <1>1, <1>3, <1>4 DEF PassInv
<1> QED BY <1>2, <1>5

\* No other step touches bars or the close worker's result.
LEMMA OthersKeepBars ==
  ASSUME BarInv, PassInv, Decide \/ Heartbeat \/ Cleanup \/ FeedStep \/ UNCHANGED vars
  PROVE  BarInv' /\ PassInv'
<1>1. UNCHANGED <<current, completed, cached, cacheValid, closedTfs, lastTick>>
  BY DEF Decide, Heartbeat, Cleanup, FeedStep, vars, barVars, passVars
<1>2. BarInv'
  BY <1>1 DEF BarInv, CacheTrue, Edge
<1>4. CASE Heartbeat
  <2>1. /\ phase = "idle" /\ phase' = phase /\ todo' = todo /\ closing' = closing
        /\ DOMAIN results' = DOMAIN results /\ results'["close"] = results["close"]
    BY <1>4 DEF Heartbeat, PassInv, Workers
  <2> QED BY <2>1, <1>1, <1>2 DEF PassInv
<1>5. CASE Cleanup
  BY <1>5, <1>2, <1>1 DEF Cleanup, PassInv
<1>6. CASE FeedStep \/ UNCHANGED vars
  <2>1. UNCHANGED <<phase, todo, closing, results, history>>
    BY <1>6 DEF FeedStep, vars, passVars
  <2> QED BY <2>1, <1>1, <1>2 DEF PassInv
<1>3. CASE Decide
  BY <1>3, <1>1, <1>2 DEF Decide, PassInv
<1> QED BY <1>3, <1>4, <1>5, <1>6, <1>2

\* A set of numbers that is not empty has a least one: well-foundedness of < without an
\* operator as a parameter, in place of an induction over data.
LEMMA LeastNumber ==
  ASSUME NEW T \in SUBSET Nat, T # {}
  PROVE  \E n \in T : \A m \in T : n <= m
<1> DEFINE less == {ss \in Nat \X Nat : ss[1] < ss[2]}
<1>1. IsWellFoundedOn(less, Nat)
  BY NatLessThanWellFounded DEF OpToRel
<1>3. \A m \in Nat, n \in Nat : m < n => <<m, n>> \in less
  OBVIOUS
<1>2. PICK n \in T : \A m \in T : ~ (<<m, n>> \in less)
  <2> HIDE DEF less
  <2> QED BY <1>1, WFMin
<1>4. \A m \in T : ~(m < n)
  <2> HIDE DEF less
  <2> QED BY <1>2, <1>3
<1> QED BY <1>4

\* A set of indices that is not empty has a greatest one.
LEMMA GreatestIndex ==
  ASSUME NEW n \in Nat, NEW T \in SUBSET (1 .. n), T # {}
  PROVE  \E k \in T : \A i \in T : i <= k
<1> DEFINE D == {d \in Nat : n - d \in T}
<1>1. PICK x \in T : TRUE
  OBVIOUS
<1>2. n - x \in D
  OBVIOUS
<1>3. PICK d \in D : \A e \in D : d <= e
  <2>1. D \in SUBSET Nat /\ D # {}
    BY <1>2
  <2> HIDE DEF D
  <2> QED BY <2>1, LeastNumber
<1>4. n - d \in T
  OBVIOUS
<1>5. \A i \in T : i <= n - d
  <2> SUFFICES ASSUME NEW i \in T PROVE i <= n - d
    OBVIOUS
  <2>1. n - i \in D
    OBVIOUS
  <2> QED BY <2>1, <1>3
<1> QED BY <1>4, <1>5

\* The largest of the first values of a bounded sequence of numbers is one of them.
LEMMA LargestValue ==
  ASSUME NEW i \in Nat, i > 0, NEW b \in Nat, NEW f, \A j \in 1 .. i : f[j] \in 0 .. b
  PROVE  \E k \in 1 .. i : \A j \in 1 .. i : f[j] <= f[k]
<1> DEFINE U == {u \in Nat : \A j \in 1 .. i : f[j] <= u}
<1>1. b \in U
  OBVIOUS
<1>2. PICK u \in U : \A v \in U : u <= v
  <2>1. U \in SUBSET Nat /\ U # {}
    BY <1>1
  <2> HIDE DEF U
  <2> QED BY <2>1, LeastNumber
<1>3. u \in Nat /\ \A j \in 1 .. i : f[j] <= u
  OBVIOUS
<1>4. \E k \in 1 .. i : f[k] = u
  <2> SUFFICES ASSUME \A k \in 1 .. i : f[k] # u PROVE FALSE
    OBVIOUS
  <2>1. \A j \in 1 .. i : f[j] <= u - 1
    BY <1>3
  <2>2. u - 1 \in Nat
    BY <2>1, <1>3
  <2>3. u - 1 \in U
    BY <2>1, <2>2
  <2> QED BY <2>3, <1>2, <1>3
<1> QED BY <1>3, <1>4

Envelope == [epoch : Nat, seq : Nat, available : 0 .. MaxTime, collected : 0 .. MaxTime]
Increasing(q) == \A i, j \in DOMAIN q : i < j => Before(q[i], q[j])
Listed(S) == \E q \in Seq(Envelope) : Increasing(q) /\ Range(q) = S

\* Before orders envelopes strictly.
LEMMA BeforeOrder ==
  ASSUME NEW a \in Envelope, NEW b \in Envelope
  PROVE  ~(Before(a, b) /\ Before(b, a)) /\ ~Before(a, a)
  BY DEF Before, Envelope

\* Ordered lists every envelope of a listed series once, in the producer's order.
LEMMA OrderedLists ==
  ASSUME NEW S, Listed(S)
  PROVE  /\ S \subseteq Envelope /\ IsFiniteSet(S) /\ Cardinality(S) \in Nat
         /\ Ordered(S) \in [1 .. Cardinality(S) -> S]
         /\ \A i, j \in 1 .. Cardinality(S) : i < j => Before(Ordered(S)[i], Ordered(S)[j])
         /\ \A s \in S : \E i \in 1 .. Cardinality(S) : Ordered(S)[i] = s
<1>1. PICK q \in Seq(Envelope) : Increasing(q) /\ Range(q) = S
  BY DEF Listed
<1> DEFINE n == Len(q)
<1>2. n \in Nat /\ DOMAIN q = 1 .. n /\ \A i \in 1 .. n : q[i] \in Envelope
  OBVIOUS
<1> HIDE DEF n
<1>3. /\ \A i \in 1 .. n : q[i] \in S
      /\ \A s \in S : \E i \in 1 .. n : q[i] = s
      /\ S \subseteq Envelope
  BY <1>1, <1>2 DEF Range
<1>4. \A i, j \in 1 .. n : q[i] = q[j] => i = j
  <2> SUFFICES ASSUME NEW i \in 1 .. n, NEW j \in 1 .. n, q[i] = q[j], i < j PROVE FALSE
    BY <1>2
  <2>1. Before(q[i], q[j])
    BY <1>1, <1>2 DEF Increasing
  <2> QED BY <2>1, <1>2, BeforeOrder
<1>5. q \in [1 .. n -> S]
  BY <1>2, <1>3
<1>6. q \in Bijection(1 .. n, S)
  BY <1>3, <1>4, <1>5 DEF Bijection, Injection, Surjection, IsInjective
<1>7. ExistsBijection(1 .. n, S)
  BY <1>6 DEF ExistsBijection
<1>8. Cardinality(S) = n /\ IsFiniteSet(S)
  BY <1>2, <1>7, FS_CountingElements, FS_NatBijection
<1> DEFINE o == Ordered(S)
<1>9. o \in [1 .. n -> S] /\ \A i, j \in DOMAIN o : i < j => Before(o[i], o[j])
  <2>1. /\ q \in [1 .. n -> S] /\ \A i, j \in DOMAIN q : i < j => Before(q[i], q[j])
    BY <1>5, <1>1 DEF Increasing
  <2>2. o = CHOOSE p \in [1 .. n -> S] : \A i, j \in DOMAIN p : i < j => Before(p[i], p[j])
    BY <1>8 DEF Ordered
  <2> HIDE DEF o
  <2> QED BY <2>1, <2>2
<1>10. \A i, j \in 1 .. n : o[i] = o[j] => i = j
  <2> HIDE DEF o
  <2> SUFFICES ASSUME NEW i \in 1 .. n, NEW j \in 1 .. n, o[i] = o[j], i < j PROVE FALSE
    BY <1>2
  <2>1. Before(o[i], o[j]) /\ o[i] \in Envelope
    BY <1>9, <1>3
  <2> QED BY <2>1, BeforeOrder
<1>11. \A s \in S : \E i \in 1 .. n : o[i] = s
  <2> HIDE DEF o
  <2>1. o \in Injection(1 .. n, S)
    BY <1>9, <1>10 DEF Injection, IsInjective
  <2>2. Cardinality(1 .. n) = n
    BY <1>2, FS_Interval
  <2>3. o \in Surjection(1 .. n, S)
    BY <2>1, <2>2, <1>8, FS_Injection
  <2> QED BY <2>3 DEF Surjection
<1> QED
  <2>2. Ordered(S) = o
    OBVIOUS
  <2> HIDE DEF o
  <2>1. \A i, j \in 1 .. n : i < j => Before(o[i], o[j])
    BY <1>9
  <2> QED BY <1>2, <1>3, <1>8, <1>9, <1>11, <2>1, <2>2

\* Places in the list and the order of the envelopes agree.
LEMMA IndexBefore ==
  ASSUME NEW S, Listed(S), NEW i \in 1 .. Cardinality(S), NEW j \in 1 .. Cardinality(S)
  PROVE  Ordered(S)[j] = Ordered(S)[i] \/ Before(Ordered(S)[j], Ordered(S)[i]) <=> j <= i
<1> DEFINE o == Ordered(S)
           n == Cardinality(S)
<1>1. /\ n \in Nat /\ o \in [1 .. n -> S] /\ S \subseteq Envelope
      /\ \A a, b \in 1 .. n : a < b => Before(o[a], o[b])
  BY OrderedLists
<1>2. i \in 1 .. n /\ j \in 1 .. n
  OBVIOUS
<1> SUFFICES o[j] = o[i] \/ Before(o[j], o[i]) <=> j <= i
  OBVIOUS
<1> HIDE DEF o, n
<1>3. o[i] \in Envelope /\ o[j] \in Envelope
  BY <1>1, <1>2
<1>4. CASE j < i
  BY <1>4, <1>1, <1>2
<1>5. CASE j = i
  BY <1>5, <1>1, <1>2
<1>6. CASE i < j
  <2>1. Before(o[i], o[j])
    BY <1>6, <1>1, <1>2
  <2>2. ~Before(o[j], o[i]) /\ o[i] # o[j]
    BY <2>1, <1>3, BeforeOrder
  <2> QED BY <2>2, <1>6, <1>1, <1>2
<1> QED BY <1>1, <1>2, <1>4, <1>5, <1>6

\* A gate is not beyond t exactly if no instant up to it is.
LEMMA GateOpens ==
  ASSUME NEW S, Listed(S), NEW i \in 1 .. Cardinality(S), NEW t \in Int
  PROVE  GateKeys(Ordered(S))[i] <= t <=> \A j \in 1 .. i : Ordered(S)[j].available <= t
<1> DEFINE o == Ordered(S)
           n == Cardinality(S)
           f == [j \in 1 .. i |-> o[j].available]
           K == {o[j].available : j \in 1 .. i}
<1>1. /\ n \in Nat /\ o \in [1 .. n -> S] /\ S \subseteq Envelope /\ i \in 1 .. n
  BY OrderedLists
<1>2. GateKeys(o)[i] = CHOOSE k \in K : \A j \in 1 .. i : o[j].available <= k
  <2> HIDE DEF o
  <2> QED BY <1>1 DEF GateKeys
<1> HIDE DEF o, n
<1>3. \A j \in 1 .. i : o[j].available \in 0 .. MaxTime
  BY <1>1 DEF Envelope
<1>4. \E k \in 1 .. i : \A j \in 1 .. i : o[j].available <= o[k].available
  <2>1. \A j \in 1 .. i : f[j] \in 0 .. MaxTime /\ f[j] = o[j].available
    BY <1>3
  <2>2. \E k \in 1 .. i : \A j \in 1 .. i : f[j] <= f[k]
    <3> HIDE DEF f
    <3>1. i \in Nat /\ i > 0 /\ MaxTime \in Nat
      BY <1>1, FeedAssumption
    <3>2. \A j \in 1 .. i : f[j] \in 0 .. MaxTime
      BY <2>1
    <3> QED BY <3>1, <3>2, LargestValue
  <2> HIDE DEF f
  <2>3. PICK k \in 1 .. i : \A j \in 1 .. i : f[j] <= f[k]
    BY <2>2
  <2>4. \A j \in 1 .. i : o[j].available <= o[k].available
    BY <2>1, <2>3
  <2> QED BY <2>4
<1>5. \E k \in K : \A j \in 1 .. i : o[j].available <= k
  BY <1>4
<1> DEFINE g == GateKeys(o)[i]
<1>6. g \in K /\ \A j \in 1 .. i : o[j].available <= g
  <2> HIDE DEF K
  <2> QED BY <1>2, <1>5
<1>7. PICK k \in 1 .. i : g = o[k].available
  BY <1>6
<1>8. GateKeys(o)[i] <= t <=> \A j \in 1 .. i : o[j].available <= t
  <2> HIDE DEF g
  <2>1. g <= t <=> \A j \in 1 .. i : o[j].available <= t
    BY <1>3, <1>6, <1>7, FeedAssumption
  <2> QED BY <2>1 DEF g
<1> QED BY <1>8 DEF o

Visible(S, t) == {s \in S : \A e \in S : e = s \/ Before(e, s) => e.available <= t}
Newest(S, t) == {s \in Visible(S, t) : \A e \in Visible(S, t) : e = s \/ Before(e, s)}

\* The bisection of the signal feed over its gate keys serves a newest visible envelope, or
\* none when none is visible.
LEMMA NearestIsNewest ==
  ASSUME NEW S, Listed(S), NEW t \in Int
  PROVE  /\ Nearest(S, t) \in (IF Visible(S, t) = {} THEN {NoEnvelope} ELSE Newest(S, t))
         /\ Nearest(S, t) \in S \cup {NoEnvelope}
<1> DEFINE o == Ordered(S)
           n == Cardinality(S)
           V == {i \in DOMAIN o : GateKeys(o)[i] <= t}
<1>1. /\ n \in Nat /\ o \in [1 .. n -> S] /\ S \subseteq Envelope
      /\ \A a, b \in 1 .. n : a < b => Before(o[a], o[b])
      /\ \A s \in S : \E i \in 1 .. n : o[i] = s
  BY OrderedLists
<1>2. Nearest(S, t) = IF V = {} THEN NoEnvelope ELSE o[Cardinality(V)]
  BY DEF Nearest
<1>3. \A i, j \in 1 .. n : o[j] = o[i] \/ Before(o[j], o[i]) <=> j <= i
  BY IndexBefore
<1>4. \A i \in 1 .. n : i \in V <=> \A j \in 1 .. i : o[j].available <= t
  <2> SUFFICES ASSUME NEW i \in 1 .. n PROVE i \in V <=> \A j \in 1 .. i : o[j].available <= t
    OBVIOUS
  <2>1. i \in V <=> GateKeys(o)[i] <= t
    <3> HIDE DEF o
    <3> QED BY <1>1
  <2>2. GateKeys(o)[i] <= t <=> \A j \in 1 .. i : o[j].available <= t
    BY GateOpens
  <2> QED BY <2>1, <2>2
<1>5. V \subseteq 1 .. n
  <2> HIDE DEF o
  <2> QED BY <1>1
<1> HIDE DEF o, n, V
<1>6. \A i \in 1 .. n : o[i] \in Visible(S, t) <=> i \in V
  <2> SUFFICES ASSUME NEW i \in 1 .. n PROVE o[i] \in Visible(S, t) <=> i \in V
    OBVIOUS
  <2>1. ASSUME o[i] \in Visible(S, t), NEW j \in 1 .. i PROVE o[j].available <= t
    <3>1. j \in 1 .. n /\ o[j] \in S
      BY <1>1
    <3>2. o[j] = o[i] \/ Before(o[j], o[i])
      BY <1>3, <3>1
    <3> QED BY <2>1, <3>1, <3>2 DEF Visible
  <2>2. ASSUME \A j \in 1 .. i : o[j].available <= t, NEW e \in S, e = o[i] \/ Before(e, o[i])
        PROVE e.available <= t
    <3>1. PICK j \in 1 .. n : o[j] = e
      BY <1>1
    <3>2. j <= i
      BY <1>3, <3>1, <2>2
    <3> QED BY <3>1, <3>2, <2>2, <1>1
  <2>3. o[i] \in S
    BY <1>1
  <2> QED BY <2>1, <2>2, <2>3, <1>4 DEF Visible
<1>7. \A s \in Visible(S, t) : \E i \in V : o[i] = s
  <2> SUFFICES ASSUME NEW s \in Visible(S, t) PROVE \E i \in V : o[i] = s
    OBVIOUS
  <2>1. PICK i \in 1 .. n : o[i] = s
    BY <1>1 DEF Visible
  <2> QED BY <2>1, <1>6
<1>8. CASE V = {}
  <2>1. Visible(S, t) = {}
    BY <1>7, <1>8
  <2> QED BY <2>1, <1>2, <1>8
<1>9. CASE V # {}
  <2>1. PICK k \in V : \A i \in V : i <= k
    BY <1>9, <1>1, <1>5, GreatestIndex
  <2>2. k \in 1 .. n
    BY <1>5
  <2>3. V = 1 .. k
    <3>1. ASSUME NEW i \in 1 .. k PROVE i \in V
      <4>1. i \in 1 .. n /\ \A j \in 1 .. i : j \in 1 .. k
        BY <1>1, <2>2
      <4>2. \A j \in 1 .. k : o[j].available <= t
        BY <1>4, <2>2, <2>1
      <4> QED BY <4>1, <4>2, <1>4
    <3>2. ASSUME NEW i \in V PROVE i \in 1 .. k
      BY <2>1, <2>2, <1>5, <1>1
    <3> QED BY <3>1, <3>2
  <2>4. Cardinality(V) = k
    BY <2>2, <2>3, <1>1, FS_Interval
  <2>5. Nearest(S, t) = o[k]
    BY <1>2, <1>9, <2>4
  <2>6. o[k] \in Visible(S, t) /\ o[k] \in S
    BY <1>6, <2>1, <2>2, <1>1
  <2>7. ASSUME NEW e \in Visible(S, t) PROVE e = o[k] \/ Before(e, o[k])
    <3>1. PICK i \in V : o[i] = e
      BY <1>7
    <3>2. i \in 1 .. n /\ i <= k
      BY <1>5, <2>1
    <3> QED BY <3>1, <3>2, <2>2, <1>3
  <2>8. o[k] \in Newest(S, t)
    BY <2>6, <2>7 DEF Newest
  <2> QED BY <2>5, <2>6, <2>8
<1> QED BY <1>8, <1>9

Earlier(a, b) == a[1] < b[1] \/ (a[1] = b[1] /\ a[2] < b[2])

FeedTyped ==
  /\ clock \in 0 .. MaxTime /\ published \in 0 .. MaxEnvelopes /\ polledAt \in -1 .. clock
  /\ latest # NoEnvelope => latest.available \in 0 .. MaxTime
  /\ latest \in [epoch : Nat, seq : Nat, available : Int, collected : Int]
  /\ lastSeen \in Nat \X Nat
  /\ fetched = NoEnvelope \/ fetched \in Envelope
  /\ inbox \in Seq(Envelope)
  /\ enqueued \subseteq Nat \X Nat
  /\ probe \in [journal : Journals \cup {"none"}, changed : BOOLEAN, seen : SUBSET Journals]

\* Envelopes are polled in the producer's order, at different moments: what
\* waits in the inbox is younger than the series, what was fetched is
\* younger than both.
FeedOrder ==
  /\ Earlier(lastSeen, Id(latest)) \/ lastSeen = Id(latest)
  /\ \A s \in series \cup Range(inbox) :
       /\ Earlier(Id(s), lastSeen) \/ Id(s) = lastSeen
       /\ s.collected <= polledAt
  /\ fetched # NoEnvelope =>
       /\ Id(fetched) = lastSeen /\ fetched.collected = polledAt
       /\ \A s \in series \cup Range(inbox) : Earlier(Id(s), lastSeen) /\ s.collected < polledAt
  /\ Increasing(inbox)
  /\ \A s \in series, k \in DOMAIN inbox : Before(s, inbox[k])
  /\ \A s, r \in series \cup Range(inbox) : s.collected = r.collected => s = r
  /\ Listed(series)

ProbeInv ==
  ~probe.changed => probe.seen \subseteq {probe.journal} \ {"none"}

FeedInv == FeedTyped /\ FeedOrder /\ ProbeInv /\ NothingLost

\* Before compares the ids of two envelopes.
LEMMA BeforeEarlier ==
  ASSUME NEW a \in Envelope, NEW b \in Envelope
  PROVE  Before(a, b) <=> Earlier(Id(a), Id(b))
  BY DEF Before, Earlier, Id

\* The order of ids is strict and total.
LEMMA EarlierOrder ==
  ASSUME NEW a \in Nat \X Nat, NEW b \in Nat \X Nat, NEW c \in Nat \X Nat
  PROVE  /\ Earlier(a, b) /\ Earlier(b, c) => Earlier(a, c)
         /\ ~Earlier(a, a) /\ ~(Earlier(a, b) /\ Earlier(b, a))
         /\ Earlier(a, b) \/ a = b \/ Earlier(b, a)
  BY DEF Earlier

\* Nothing is published, polled or served at the beginning.
LEMMA FeedInitial == Init => FeedInv
<1> SUFFICES ASSUME Init PROVE FeedInv
  OBVIOUS
<1> USE DEF Init, FeedInit
<1>1. FeedTyped
  <2>1. latest \in [epoch : Nat, seq : Nat, available : Int, collected : Int]
    BY DEF NoEnvelope
  <2>2. 0 \in 0 .. MaxTime /\ 0 \in 0 .. MaxEnvelopes /\ -1 \in -1 .. 0
    BY FeedAssumption
  <2> QED BY <2>1, <2>2 DEF FeedTyped
<1>2. FeedOrder
  <2>1. Listed({})
    <3>1. <<>> \in Seq(Envelope) /\ Range(<<>>) = {} /\ Increasing(<<>>)
      BY DEF Range, Increasing
    <3> QED BY <3>1 DEF Listed
  <2>2. Id(latest) = <<0, 0>>
    BY DEF Id, NoEnvelope
  <2>3. Range(inbox) = {} /\ DOMAIN inbox = {}
    BY DEF Range
  <2> QED BY <2>1, <2>2, <2>3 DEF FeedOrder, Increasing
<1>3. ProbeInv /\ NothingLost
  BY DEF ProbeInv, NothingLost
<1> QED BY <1>1, <1>2, <1>3 DEF FeedInv

\* What the types say about ids and times.
LEMMA FeedTypedOut ==
  ASSUME FeedTyped
  PROVE  /\ \A s \in Range(inbox) : s \in Envelope /\ Id(s) \in Nat \X Nat
         /\ Id(latest) \in Nat \X Nat
         /\ clock \in Nat /\ polledAt \in Int
<1>1. \A s \in Range(inbox) : s \in Envelope
  BY DEF FeedTyped, Range
<1>2. \A s \in Envelope : Id(s) \in Nat \X Nat
  BY DEF Envelope, Id
<1>3. Id(latest) \in Nat \X Nat
  BY DEF FeedTyped, Id
<1> QED BY <1>1, <1>2, <1>3, FeedAssumption DEF FeedTyped

\* The producer publishes a younger envelope, or starts a new epoch.
LEMMA PublishKeeps ==
  ASSUME FeedInv, Publish
  PROVE  FeedInv'
<1> USE DEF Publish, pollVars
<1>0. FeedTyped /\ FeedOrder /\ ProbeInv /\ NothingLost
  BY DEF FeedInv
<1>1. PICK reset \in BOOLEAN, behind \in 0 .. Skew :
        /\ reset => latest # NoEnvelope
        /\ behind <= clock
        /\ latest' = [epoch |-> IF reset THEN latest.epoch + 1 ELSE latest.epoch,
                      seq |-> IF reset THEN 1 ELSE latest.seq + 1,
                      available |-> clock - behind, collected |-> -1]
  OBVIOUS
<1>2. latest.epoch \in Nat /\ latest.seq \in Nat /\ clock \in 0 .. MaxTime /\ behind \in Nat /\ MaxTime \in Nat
  BY <1>0, FeedAssumption DEF FeedTyped
<1>3. /\ latest'.epoch \in Nat /\ latest'.seq \in Nat /\ latest'.available \in 0 .. MaxTime /\ latest'.collected = -1
      /\ latest' \in [epoch : Nat, seq : Nat, available : Int, collected : Int]
  BY <1>1, <1>2
<1>4. latest'.epoch > latest.epoch \/ (latest'.epoch = latest.epoch /\ latest'.seq > latest.seq)
  BY <1>1, <1>2
<1>5. Earlier(Id(latest), Id(latest)')
  BY <1>4, <1>3, <1>2 DEF Earlier, Id
<1>6. Id(latest) \in Nat \X Nat /\ Id(latest)' \in Nat \X Nat /\ lastSeen \in Nat \X Nat
  BY <1>2, <1>3, <1>0 DEF Id, FeedTyped
<1>7. Earlier(lastSeen, Id(latest)')
  <2>1. Earlier(lastSeen, Id(latest)) \/ lastSeen = Id(latest)
    BY <1>0 DEF FeedOrder
  <2>2. PICK x \in Nat \X Nat : x = Id(latest)'
    BY <1>6
  <2>3. Earlier(Id(latest), x)
    BY <1>5, <2>2
  <2>4. Earlier(lastSeen, x)
    BY <2>1, <2>3, <1>6, EarlierOrder
  <2> QED BY <2>4, <2>2
<1>8. UNCHANGED <<clock, lastSeen, polledAt, fetched, enqueued, inbox, series, probe>>
  OBVIOUS
<1>9. FeedTyped'
  <2>1. published' \in 0 .. MaxEnvelopes
    BY SMTT(30), <1>0, FeedAssumption DEF FeedTyped
  <2> QED BY <2>1, <1>0, <1>3, <1>8 DEF FeedTyped
<1>10. FeedOrder'
  <2>1. Earlier(lastSeen', Id(latest)')
    BY <1>7, <1>8
  <2> QED BY <2>1, <1>0, <1>8 DEF FeedOrder
<1>11. ProbeInv' /\ NothingLost'
  BY <1>0, <1>8 DEF ProbeInv, NothingLost
<1> QED BY <1>9, <1>10, <1>11 DEF FeedInv

\* Time passes, or a poll fails: nothing is lost.
LEMMA QuietFeedKeeps ==
  ASSUME FeedInv, Time \/ PollFails \/ UNCHANGED feedVars
  PROVE  FeedInv'
<1>0. FeedTyped /\ FeedOrder /\ ProbeInv /\ NothingLost
  BY DEF FeedInv
<1>1. UNCHANGED <<latest, published, lastSeen, fetched, enqueued, inbox, series, probe>>
  BY DEF Time, PollFails, feedVars, pollVars
<1>2. /\ clock' \in 0 .. MaxTime /\ polledAt' \in -1 .. clock' /\ polledAt' >= polledAt /\ polledAt \in Int
      /\ fetched # NoEnvelope => polledAt' = polledAt
  <2>1. clock \in 0 .. MaxTime /\ polledAt \in -1 .. clock /\ MaxTime \in Nat
    BY <1>0, FeedAssumption DEF FeedTyped
  <2>2. CASE Time
    BY <2>1, <2>2 DEF Time, pollVars
  <2>3. CASE PollFails
    BY <2>1, <2>3 DEF PollFails
  <2>4. CASE UNCHANGED feedVars
    BY <2>1, <2>4 DEF feedVars
  <2> QED BY <2>2, <2>3, <2>4
<1>3. FeedTyped'
  BY <1>0, <1>1, <1>2 DEF FeedTyped
<1>4. \A s \in series \cup Range(inbox) : s \in Envelope /\ s.collected \in Int
  <2>1. series \subseteq Envelope
    BY <1>0, OrderedLists DEF FeedOrder
  <2> QED BY <2>1, <1>0, FeedTypedOut DEF Envelope
<1>5. \A s \in series \cup Range(inbox) : s.collected <= polledAt'
  BY <1>4, <1>2, <1>0 DEF FeedOrder
<1>6. FeedOrder'
  BY <1>0, <1>1, <1>2, <1>5 DEF FeedOrder
<1>7. ProbeInv' /\ NothingLost'
  BY <1>0, <1>1 DEF ProbeInv, NothingLost
<1> QED BY <1>3, <1>6, <1>7 DEF FeedInv

\* Everything served or waiting is an envelope.
LEMMA MembersTyped ==
  ASSUME FeedTyped, FeedOrder
  PROVE  /\ series \subseteq Envelope /\ Range(inbox) \subseteq Envelope
         /\ \A s \in series \cup Range(inbox) :
              s \in Envelope /\ s.collected \in Int /\ Id(s) \in Nat \X Nat
<1>1. series \subseteq Envelope
  BY OrderedLists DEF FeedOrder
<1>2. Range(inbox) \subseteq Envelope
  BY FeedTypedOut
<1>3. \A s \in Envelope : s.collected \in Int /\ Id(s) \in Nat \X Nat
  BY DEF Envelope, Id
<1> QED BY <1>1, <1>2, <1>3

\* A poll fetches the latest envelope, unless it was seen.
LEMMA PollKeeps ==
  ASSUME FeedInv, PollOnce
  PROVE  FeedInv'
<1> USE DEF PollOnce
<1>0. FeedTyped /\ FeedOrder /\ ProbeInv /\ NothingLost
  BY DEF FeedInv
<1>1. /\ UNCHANGED <<clock, latest, published, inbox, enqueued, series, probe>>
      /\ polledAt' = clock /\ polledAt < clock /\ lastSeen' = Id(latest) /\ latest # NoEnvelope
      /\ fetched = NoEnvelope
      /\ fetched' = IF Id(latest) = lastSeen THEN NoEnvelope ELSE [latest EXCEPT !.collected = clock]
  OBVIOUS
<1>2. /\ clock \in 0 .. MaxTime /\ polledAt \in Int /\ MaxTime \in Nat /\ lastSeen \in Nat \X Nat
      /\ latest \in [epoch : Nat, seq : Nat, available : Int, collected : Int]
      /\ latest.available \in 0 .. MaxTime
  BY <1>0, <1>1, FeedAssumption DEF FeedTyped
<1> DEFINE e == [latest EXCEPT !.collected = clock]
<1>3. e \in Envelope /\ e.collected = clock /\ Id(e) = Id(latest) /\ Id(latest) \in Nat \X Nat
  <2>1. e = [epoch |-> latest.epoch, seq |-> latest.seq, available |-> latest.available, collected |-> clock]
    BY <1>2
  <2>2. latest.epoch \in Nat /\ latest.seq \in Nat
    BY <1>2
  <2> QED BY <2>1, <2>2, <1>2 DEF Envelope, Id
<1>4. polledAt' \in -1 .. clock /\ -1 .. clock = -1 .. clock'
  BY <1>1, <1>2
<1>5. FeedTyped'
  <2>1. fetched' = NoEnvelope \/ fetched' \in Envelope
    <3> HIDE DEF e
    <3>1. fetched' = NoEnvelope \/ fetched' = e
      BY <1>1 DEF e
    <3> QED BY <3>1, <1>3
  <2>2. lastSeen' \in Nat \X Nat
    BY <1>1, <1>3
  <2> HIDE DEF e
  <2> QED BY <2>1, <2>2, <1>0, <1>1, <1>2, <1>4 DEF FeedTyped
<1> HIDE DEF e
<1>6. ASSUME NEW s \in series \cup Range(inbox)
      PROVE  /\ Earlier(Id(s), Id(latest)) \/ Id(s) = Id(latest)
             /\ s.collected < clock
             /\ Id(latest) # lastSeen => Earlier(Id(s), Id(latest))
  <2>1. Id(s) \in Nat \X Nat /\ s.collected \in Int
    BY <1>0, MembersTyped
  <2>2. /\ Earlier(Id(s), lastSeen) \/ Id(s) = lastSeen
        /\ s.collected <= polledAt
        /\ Earlier(lastSeen, Id(latest)) \/ lastSeen = Id(latest)
    BY <1>0 DEF FeedOrder
  <2>3. Earlier(lastSeen, Id(latest)) => Earlier(Id(s), Id(latest))
    BY <2>1, <2>2, <1>2, <1>3, EarlierOrder
  <2>4. Earlier(Id(s), Id(latest)) \/ Id(s) = Id(latest)
    BY <2>2, <2>3
  <2>5. s.collected < clock
    BY <2>1, <2>2, <1>1, <1>2
  <2> QED BY <2>2, <2>3, <2>4, <2>5
<1>7. fetched' # NoEnvelope => fetched' = e /\ Id(latest) # lastSeen
  BY <1>1 DEF e
<1>8. FeedOrder'
  <2>1. \A s \in series' \cup Range(inbox') : Earlier(Id(s), lastSeen') \/ Id(s) = lastSeen'
    BY <1>1, <1>6
  <2>2. \A s \in series' \cup Range(inbox') : s.collected <= polledAt'
    <3>1. \A s \in series \cup Range(inbox) : s.collected \in Int
      BY <1>0, MembersTyped
    <3> QED BY <1>1, <1>2, <1>6, <3>1
  <2>3. fetched' # NoEnvelope =>
          /\ Id(fetched)' = lastSeen' /\ fetched'.collected = polledAt'
          /\ \A s \in series' \cup Range(inbox') : Earlier(Id(s), lastSeen') /\ s.collected < polledAt'
    <3> SUFFICES ASSUME fetched' # NoEnvelope
                 PROVE  /\ Id(fetched)' = lastSeen' /\ fetched'.collected = polledAt'
                        /\ \A s \in series' \cup Range(inbox') : Earlier(Id(s), lastSeen') /\ s.collected < polledAt'
      OBVIOUS
    <3>1. fetched' = e /\ Id(latest) # lastSeen
      BY <1>7
    <3>2. Id(fetched)' = Id(e)
      BY <3>1 DEF Id
    <3> QED BY <3>1, <3>2, <1>1, <1>3, <1>6
  <2>4. Earlier(lastSeen', Id(latest)') \/ lastSeen' = Id(latest)'
    BY <1>1 DEF Id
  <2> QED BY <2>1, <2>2, <2>3, <2>4, <1>0, <1>1 DEF FeedOrder
<1>9. ProbeInv' /\ NothingLost'
  BY <1>0, <1>1 DEF ProbeInv, NothingLost
<1> QED BY <1>5, <1>8, <1>9 DEF FeedInv

\* What was fetched joins the inbox as its youngest.
LEMMA PutKeeps ==
  ASSUME FeedInv, InboxPut
  PROVE  FeedInv'
<1> USE DEF InboxPut
<1>0. FeedTyped /\ FeedOrder /\ ProbeInv /\ NothingLost
  BY DEF FeedInv
<1>1. /\ UNCHANGED <<clock, latest, published, lastSeen, polledAt, series, probe>>
      /\ fetched # NoEnvelope /\ fetched' = NoEnvelope
      /\ inbox' = Append(inbox, fetched) /\ enqueued' = enqueued \cup {Id(fetched)}
  OBVIOUS
<1>2. /\ fetched \in Envelope /\ inbox \in Seq(Envelope) /\ polledAt \in Int /\ lastSeen \in Nat \X Nat
      /\ Id(fetched) = lastSeen /\ fetched.collected = polledAt
      /\ \A s \in series \cup Range(inbox) : Earlier(Id(s), lastSeen) /\ s.collected < polledAt
  BY <1>0, <1>1, FeedTypedOut DEF FeedTyped, FeedOrder
<1>3. \A s \in series \cup Range(inbox) : s \in Envelope /\ s.collected \in Int /\ Id(s) \in Nat \X Nat
  BY <1>0, MembersTyped
<1>4. /\ inbox' \in Seq(Envelope) /\ Len(inbox) \in Nat /\ DOMAIN inbox = 1 .. Len(inbox)
      /\ DOMAIN inbox' = 1 .. (Len(inbox) + 1)
      /\ \A k \in 1 .. Len(inbox) : inbox'[k] = inbox[k]
      /\ inbox'[Len(inbox) + 1] = fetched
  BY <1>1, <1>2
<1>5. Range(inbox') = Range(inbox) \cup {fetched}
  <2>1. ASSUME NEW x \in Range(inbox') PROVE x \in Range(inbox) \cup {fetched}
    <3>1. PICK k \in 1 .. (Len(inbox) + 1) : inbox'[k] = x
      BY <1>4 DEF Range
    <3>2. k \in 1 .. Len(inbox) \/ k = Len(inbox) + 1
      BY <1>4
    <3> QED BY <3>1, <3>2, <1>4 DEF Range
  <2>2. ASSUME NEW x \in Range(inbox) PROVE x \in Range(inbox')
    <3>1. PICK k \in 1 .. Len(inbox) : inbox[k] = x
      BY <1>4 DEF Range
    <3> QED BY <3>1, <1>4 DEF Range
  <2>3. fetched \in Range(inbox')
    BY <1>4 DEF Range
  <2> QED BY <2>1, <2>2, <2>3
<1>6. \A s \in series \cup Range(inbox) : Before(s, fetched)
  BY <1>2, <1>3, BeforeEarlier
<1>7. Increasing(inbox')
  <2> SUFFICES ASSUME NEW i \in 1 .. (Len(inbox) + 1), NEW j \in 1 .. (Len(inbox) + 1), i < j
               PROVE  Before(inbox'[i], inbox'[j])
    BY <1>4 DEF Increasing
  <2>1. i \in 1 .. Len(inbox) /\ inbox'[i] = inbox[i]
    BY <1>4
  <2>2. CASE j = Len(inbox) + 1
    <3>1. inbox[i] \in Range(inbox)
      BY <2>1, <1>4 DEF Range
    <3> QED BY <2>1, <2>2, <3>1, <1>4, <1>6
  <2>3. CASE j # Len(inbox) + 1
    <3>1. j \in 1 .. Len(inbox) /\ inbox'[j] = inbox[j]
      BY <2>3, <1>4
    <3> QED BY <2>1, <3>1, <1>0, <1>4 DEF FeedOrder, Increasing
  <2> QED BY <2>2, <2>3
<1>8. FeedTyped'
  <2>1. enqueued' \subseteq Nat \X Nat
    BY <1>1, <1>2, <1>0 DEF FeedTyped
  <2> QED BY <2>1, <1>0, <1>1, <1>4 DEF FeedTyped
<1>9. FeedOrder'
  <2>1. \A s \in series' \cup Range(inbox') :
          (Earlier(Id(s), lastSeen') \/ Id(s) = lastSeen') /\ s.collected <= polledAt'
    BY <1>1, <1>2, <1>3, <1>5
  <2>2. \A s \in series', k \in DOMAIN inbox' : Before(s, inbox'[k])
    <3> SUFFICES ASSUME NEW s \in series, NEW k \in 1 .. (Len(inbox) + 1) PROVE Before(s, inbox'[k])
      BY <1>1, <1>4
    <3>1. CASE k = Len(inbox) + 1
      BY <3>1, <1>4, <1>6
    <3>2. CASE k # Len(inbox) + 1
      <4>1. k \in DOMAIN inbox /\ inbox'[k] = inbox[k]
        BY <3>2, <1>4
      <4> QED BY <4>1, <1>0 DEF FeedOrder
    <3> QED BY <3>1, <3>2
  <2>3. \A s, r \in series' \cup Range(inbox') : s.collected = r.collected => s = r
    <3> SUFFICES ASSUME NEW s \in series \cup Range(inbox) \cup {fetched},
                        NEW r \in series \cup Range(inbox) \cup {fetched}, s.collected = r.collected
                 PROVE  s = r
      BY <1>1, <1>5
    <3>1. CASE s = fetched
      <4>1. r \notin series \cup Range(inbox)
        BY <3>1, <1>2, <1>3
      <4> QED BY <4>1, <3>1
    <3>2. CASE r = fetched
      <4>1. s \notin series \cup Range(inbox)
        BY <3>2, <1>2, <1>3
      <4> QED BY <4>1, <3>2
    <3>3. CASE s # fetched /\ r # fetched
      BY <3>3, <1>0 DEF FeedOrder
    <3> QED BY <3>1, <3>2, <3>3
  <2>4. fetched' = NoEnvelope /\ Id(latest)' = Id(latest)
    BY <1>1 DEF Id
  <2> QED BY <2>1, <2>2, <2>3, <2>4, <1>0, <1>1, <1>7 DEF FeedOrder
<1>10. ProbeInv'
  BY <1>0, <1>1 DEF ProbeInv
<1>11. NothingLost'
  <2> SUFFICES ASSUME NEW id \in enqueued' PROVE \E s \in Range(inbox') \cup series' : Id(s) = id
    BY DEF NothingLost
  <2>1. CASE id = Id(fetched)
    BY <2>1, <1>5
  <2>2. CASE id \in enqueued
    <3>1. PICK s \in Range(inbox) \cup series : Id(s) = id
      BY <2>2, <1>0 DEF NothingLost
    <3> QED BY <3>1, <1>1, <1>5
  <2> QED BY <2>1, <2>2, <1>1
<1> QED BY <1>8, <1>9, <1>10, <1>11 DEF FeedInv

\* The journal probe reports a change only when two journals were seen.
LEMMA ProbeKeeps ==
  ASSUME FeedInv, ProbeOnce
  PROVE  FeedInv'
<1>0. FeedTyped /\ FeedOrder /\ ProbeInv /\ NothingLost
  BY DEF FeedInv
<1>1. UNCHANGED <<clock, latest, published, lastSeen, polledAt, fetched, enqueued, inbox, series>>
  BY DEF ProbeOnce, pollVars
<1>2. PICK journal \in Journals \cup {"none"} :
        probe' = [journal |-> journal,
                  changed |-> \/ probe.changed
                              \/ probe.journal # "none" /\ journal # probe.journal,
                  seen |-> probe.seen \cup ({journal} \ {"none"})]
  BY DEF ProbeOnce
<1>3. /\ probe.journal \in Journals \cup {"none"} /\ probe.changed \in BOOLEAN /\ probe.seen \subseteq Journals
  BY <1>0 DEF FeedTyped
<1>4. /\ probe'.journal = journal
      /\ probe'.seen = probe.seen \cup ({journal} \ {"none"})
      /\ probe'.changed = (probe.changed \/ (probe.journal # "none" /\ journal # probe.journal))
  BY <1>2
<1>5. probe' \in [journal : Journals \cup {"none"}, changed : BOOLEAN, seen : SUBSET Journals]
  <2>1. probe.seen \cup ({journal} \ {"none"}) \in SUBSET Journals
    BY <1>3
  <2>2. (probe.changed \/ (probe.journal # "none" /\ journal # probe.journal)) \in BOOLEAN
    OBVIOUS
  <2> QED BY <2>1, <2>2, <1>2
<1>6. FeedTyped' /\ FeedOrder' /\ NothingLost'
  BY <1>0, <1>1, <1>5 DEF FeedTyped, FeedOrder, NothingLost
<1>7. ProbeInv'
  <2> SUFFICES ASSUME ~probe'.changed PROVE probe'.seen \subseteq {probe'.journal} \ {"none"}
    BY DEF ProbeInv
  <2>1. ~probe.changed /\ (probe.journal = "none" \/ journal = probe.journal)
    BY <1>4
  <2>2. probe.seen \subseteq {probe.journal} \ {"none"}
    BY <2>1, <1>0 DEF ProbeInv
  <2> QED BY <2>1, <2>2, <1>4
<1> QED BY <1>6, <1>7 DEF FeedInv

\* Younger envelopes join a listed series at its end.
LEMMA JoinListed ==
  ASSUME NEW S, Listed(S), NEW r \in Seq(Envelope), Increasing(r),
         \A s \in S, k \in DOMAIN r : Before(s, r[k])
  PROVE  Listed(S \cup Range(r))
<1>1. PICK q \in Seq(Envelope) : Increasing(q) /\ Range(q) = S
  BY DEF Listed
<1> DEFINE j == q \o r
<1>2. /\ Len(q) \in Nat /\ Len(r) \in Nat /\ DOMAIN q = 1 .. Len(q) /\ DOMAIN r = 1 .. Len(r)
      /\ j \in Seq(Envelope) /\ DOMAIN j = 1 .. (Len(q) + Len(r))
      /\ \A i \in 1 .. Len(q) : j[i] = q[i]
      /\ \A i \in (Len(q) + 1) .. (Len(q) + Len(r)) : j[i] = r[i - Len(q)]
  OBVIOUS
<1> HIDE DEF j
<1>3. \A i \in (Len(q) + 1) .. (Len(q) + Len(r)) : i - Len(q) \in 1 .. Len(r)
  BY <1>2
<1>4. \A i \in 1 .. (Len(q) + Len(r)) : i \in 1 .. Len(q) \/ i \in (Len(q) + 1) .. (Len(q) + Len(r))
  BY <1>2
<1>5. Range(j) = S \cup Range(r)
  <2>1. ASSUME NEW x \in Range(j) PROVE x \in S \cup Range(r)
    <3>1. PICK i \in 1 .. (Len(q) + Len(r)) : j[i] = x
      BY <1>2 DEF Range
    <3>2. CASE i \in 1 .. Len(q)
      BY <3>1, <3>2, <1>1, <1>2 DEF Range
    <3>3. CASE i \in (Len(q) + 1) .. (Len(q) + Len(r))
      BY <3>1, <3>3, <1>2, <1>3 DEF Range
    <3> QED BY <3>2, <3>3, <1>4
  <2>2. ASSUME NEW x \in S PROVE x \in Range(j)
    <3>1. PICK i \in 1 .. Len(q) : q[i] = x
      BY <1>1, <1>2 DEF Range
    <3> QED BY <3>1, <1>2 DEF Range
  <2>3. ASSUME NEW x \in Range(r) PROVE x \in Range(j)
    <3>1. PICK i \in 1 .. Len(r) : r[i] = x
      BY <1>2 DEF Range
    <3>2. Len(q) + i \in (Len(q) + 1) .. (Len(q) + Len(r)) /\ Len(q) + i - Len(q) = i
      BY <1>2
    <3>3. j[Len(q) + i] = r[i]
      BY SMTT(30), <3>2, <1>2
    <3>4. Len(q) + i \in DOMAIN j
      BY <3>2, <1>2
    <3> QED BY <3>1, <3>3, <3>4 DEF Range
  <2> QED BY <2>1, <2>2, <2>3
<1>6. Increasing(j)
  <2> SUFFICES ASSUME NEW a \in 1 .. (Len(q) + Len(r)), NEW b \in 1 .. (Len(q) + Len(r)), a < b
               PROVE  Before(j[a], j[b])
    BY <1>2 DEF Increasing
  <2>1. CASE b \in 1 .. Len(q)
    <3>1. a \in 1 .. Len(q)
      BY <2>1, <1>2
    <3> QED BY <3>1, <2>1, <1>1, <1>2 DEF Increasing
  <2>2. CASE a \in 1 .. Len(q) /\ b \in (Len(q) + 1) .. (Len(q) + Len(r))
    <3>1. j[a] \in S
      BY <2>2, <1>1, <1>2 DEF Range
    <3> QED BY <3>1, <2>2, <1>2, <1>3
  <2>3. CASE a \in (Len(q) + 1) .. (Len(q) + Len(r)) /\ b \in (Len(q) + 1) .. (Len(q) + Len(r))
    <3>1. a - Len(q) < b - Len(q)
      BY <1>2, <2>3
    <3> QED BY <3>1, <2>3, <1>2, <1>3 DEF Increasing
  <2>4. ~(a \in (Len(q) + 1) .. (Len(q) + Len(r)) /\ b \in 1 .. Len(q))
    BY <1>2
  <2> QED BY <2>1, <2>2, <2>3, <2>4, <1>4
<1> QED BY <1>2, <1>5, <1>6 DEF Listed

\* A pass moves the inbox into the series.
LEMMA MergeKeeps ==
  ASSUME FeedInv, Merge, UNCHANGED <<clock, latest, published, pollVars, probe>>
  PROVE  FeedInv' /\ series' = series \cup Range(inbox)
<1> USE DEF Merge
<1>0. FeedTyped /\ FeedOrder /\ ProbeInv /\ NothingLost
  BY DEF FeedInv
<1>1. UNCHANGED <<clock, latest, published, lastSeen, polledAt, fetched, enqueued, probe>>
  BY DEF pollVars
<1>2. \A s \in series \cup Range(inbox) : s \in Envelope /\ s.collected \in Int /\ Id(s) \in Nat \X Nat
  BY <1>0, MembersTyped
<1>3. Fresh(inbox) = Range(inbox)
  <2> SUFFICES ASSUME NEW s \in Range(inbox), NEW o \in series PROVE Id(o) # Id(s)
    BY DEF Fresh
  <2>1. Before(o, s)
    BY <1>0 DEF FeedOrder, Range
  <2>2. Earlier(Id(o), Id(s))
    BY <2>1, <1>2, BeforeEarlier
  <2> QED BY <2>2, <1>2, EarlierOrder
<1>4. inbox' = <<>> /\ series' = series \cup Range(inbox) /\ Range(inbox') = {} /\ DOMAIN inbox' = {}
  BY <1>3 DEF Range
<1>5. Listed(series')
  <2>1. Listed(series) /\ inbox \in Seq(Envelope) /\ Increasing(inbox)
        /\ \A s \in series, k \in DOMAIN inbox : Before(s, inbox[k])
    BY <1>0 DEF FeedTyped, FeedOrder
  <2>2. Listed(series \cup Range(inbox))
    BY <2>1, JoinListed
  <2> QED BY <2>2, <1>4
<1>6. FeedTyped'
  BY <1>0, <1>1, <1>4 DEF FeedTyped
<1>7. FeedOrder'
  <2>1. series' \cup Range(inbox') = series \cup Range(inbox)
    BY <1>4
  <2>2. Increasing(inbox')
    BY <1>4 DEF Increasing
  <2>3. \A s \in series', k \in DOMAIN inbox' : Before(s, inbox'[k])
    BY <1>4
  <2> QED BY <2>1, <2>2, <2>3, <1>0, <1>1, <1>5 DEF FeedOrder
<1>8. ProbeInv' /\ NothingLost'
  BY <1>0, <1>1, <1>4 DEF ProbeInv, NothingLost
<1> QED BY <1>4, <1>6, <1>7, <1>8 DEF FeedInv

-----------------------------------------------------------------------------

OutageInv ==
  /\ staleState \in BOOLEAN /\ told = staleState
  /\ episodes \in Nat /\ hooks \in Nat
  /\ (episode # -1) <=> staleState
  /\ EpisodesMatchHooks

ServedInv ==
  /\ now \in Nat
  /\ results["signal"].served \in series \cup {NoEnvelope}
  /\ results["signal"].stale \in BOOLEAN
  /\ phase \in {"boot", "idle"} => results["signal"].stale = staleState
  /\ phase = "workers" /\ "signal" \notin todo =>
       /\ results["signal"].served = Nearest(series, now)
       /\ results["signal"].stale = EvaluateStale(results["signal"].served, now)

SignalInv == OutageInv /\ ServedInv

\* A pass that finds the signal stale calls the hook on the edge and opens one episode.
LEMMA PassTold ==
  ASSUME OutageInv, NEW r, r.stale \in BOOLEAN, NEW t \in Nat, SignalPass(r, t)
  PROVE  OutageInv' /\ staleState' = r.stale
<1> USE DEF SignalPass
<1>1. staleState' = r.stale /\ told' = (r.stale /\ (told \/ (r.stale /\ ~staleState)))
  OBVIOUS
<1>2. told' = staleState'
  BY <1>1 DEF OutageInv
<1>3. staleState' \in BOOLEAN
  BY <1>1
<1>4. /\ episodes \in Nat /\ hooks \in Nat /\ staleState \in BOOLEAN
      /\ episode # -1 <=> staleState
      /\ hooks = episodes + (IF episode = -1 THEN 0 ELSE 1)
  BY DEF OutageInv, EpisodesMatchHooks
<1>5. /\ episodes' \in Nat /\ hooks' \in Nat
      /\ episode' # -1 <=> r.stale
      /\ hooks' = episodes' + (IF episode' = -1 THEN 0 ELSE 1)
  <2>1. CASE r.stale /\ ~staleState
    <3>1. episode' = t /\ episodes' = episodes /\ hooks' = hooks + 1 /\ episode = -1
      BY <2>1, <1>4
    <3> QED BY <3>1, <1>4, <2>1
  <2>2. CASE ~r.stale /\ staleState
    <3>1. episode' = -1 /\ episodes' = episodes + 1 /\ hooks' = hooks /\ episode # -1
      BY <2>2, <1>4
    <3> QED BY <3>1, <1>4, <2>2
  <2>3. CASE (r.stale /\ staleState) \/ (~r.stale /\ ~staleState)
    <3>1. episode' = episode /\ episodes' = episodes /\ hooks' = hooks
      BY <2>3, <1>4
    <3> QED BY <3>1, <1>4, <2>3
  <2> QED BY <2>1, <2>2, <2>3
<1>6. EpisodesMatchHooks'
  BY <1>5 DEF EpisodesMatchHooks
<1>7. episode' # -1 <=> staleState'
  BY <1>1, <1>5
<1> QED BY <1>1, <1>2, <1>3, <1>5, <1>6, <1>7 DEF OutageInv

\* No signal is served or stale at the beginning.
LEMMA SignalInitial == Init => SignalInv
<1> SUFFICES ASSUME Init PROVE SignalInv
  OBVIOUS
<1> USE DEF Init
<1>1. results["signal"].served = NoEnvelope /\ results["signal"].stale = FALSE
  BY DEF Workers, NoResult
<1>2. OutageInv
  <2>1. staleState \in BOOLEAN /\ told = staleState /\ ((episode # -1) <=> staleState)
    OBVIOUS
  <2>2. EpisodesMatchHooks /\ episodes \in Nat /\ hooks \in Nat
    BY DEF EpisodesMatchHooks
  <2> QED BY <2>1, <2>2 DEF OutageInv
<1>3. ServedInv
  BY <1>1 DEF ServedInv
<1> QED BY <1>2, <1>3 DEF SignalInv

\* What is served is either what the series now resolves to, or is computed again.
LEMMA ServedOrRefreshed ==
  ASSUME FeedInv, NEW S, S = series \cup Range(inbox), Listed(S), NEW t \in Nat,
         results["signal"].served \in series \cup {NoEnvelope}, ~ShouldRefreshAt(S, t)
  PROVE  /\ results["signal"].served = Nearest(S, t)
         /\ results["signal"].stale = EvaluateStale(results["signal"].served, t)
<1>1. /\ Nearest(S, t).collected = results["signal"].served.collected
      /\ EvaluateStale(Nearest(S, t), t) = results["signal"].stale
  BY DEF ShouldRefreshAt
<1>2. Nearest(S, t) \in S \cup {NoEnvelope}
  BY NearestIsNewest
<1>3. \A s \in S : s \in Envelope /\ s.collected \in Nat
  <2>1. \A s \in Envelope : s.collected \in Nat
    BY DEF Envelope
  <2> QED BY <2>1, MembersTyped DEF FeedInv
<1>4. NoEnvelope.collected = -1
  BY DEF NoEnvelope
<1>5. \A s, r \in S : s.collected = r.collected => s = r
  BY DEF FeedInv, FeedOrder
<1>6. Nearest(S, t) = results["signal"].served
  <2> DEFINE x == Nearest(S, t)
             y == results["signal"].served
  <2>1. x \in S \cup {NoEnvelope} /\ y \in S \cup {NoEnvelope} /\ x.collected = y.collected
    BY <1>1, <1>2
  <2> HIDE DEF x, y
  <2>2. x = y
    BY <2>1, <1>3, <1>4, <1>5
  <2> QED BY <2>2 DEF x, y
<1> QED BY <1>1, <1>6

\* The pass looks at staleness before the workers run.
LEMMA BeginServes ==
  ASSUME FeedInv, PassInv, BarInv, SignalInv, BeginTick
  PROVE  FeedInv' /\ SignalInv'
<1>1. PICK behind \in 0 .. Lag :
        LET t == clock - behind IN
        /\ t >= lastTick
        /\ todo' = {w \in Workers : WorkerNeedsRecompute(w, t, closing')}
        /\ now' = t
  BY DEF BeginTick
<1> DEFINE t == clock - behind
<1>2. /\ Merge /\ UNCHANGED <<clock, latest, published, pollVars, probe>>
      /\ UNCHANGED <<results, signalVars>> /\ phase = "idle" /\ phase' = "workers"
  BY DEF BeginTick
<1>3. FeedInv' /\ series' = series \cup Range(inbox)
  BY <1>2, MergeKeeps
<1>4. t \in Nat /\ now' = t /\ todo' = {w \in Workers : WorkerNeedsRecompute(w, t, closing')}
  <2>1. lastTick \in Nat /\ Lag \in Nat /\ clock \in Nat
    BY PassAssumption, FeedTypedOut DEF BarInv, FeedInv
  <2> QED BY <1>1, <2>1
<1> HIDE DEF t
<1>5. OutageInv'
  BY <1>2 DEF SignalInv, OutageInv, EpisodesMatchHooks, signalVars
<1>6. ASSUME "signal" \notin todo'
      PROVE  /\ results'["signal"].served = Nearest(series', now')
             /\ results'["signal"].stale = EvaluateStale(results'["signal"].served, now')
  <2>1. ~WorkerNeedsRecompute("signal", t, closing')
    BY <1>4, <1>6 DEF Workers
  <2>2. PICK S : S = series'
    OBVIOUS
  <2>3. ~ShouldRefreshAt(S, t)
    BY <2>1, <2>2 DEF WorkerNeedsRecompute
  <2>4. Listed(S)
    BY <1>3, <2>2 DEF FeedInv, FeedOrder
  <2>5. results["signal"].served \in series \cup {NoEnvelope}
    BY DEF SignalInv, ServedInv
  <2>6. /\ results["signal"].served = Nearest(S, t)
        /\ results["signal"].stale = EvaluateStale(results["signal"].served, t)
    BY <1>3, <1>4, <2>2, <2>3, <2>4, <2>5, ServedOrRefreshed
  <2> QED BY <2>6, <2>2, <1>2, <1>4
<1>7. ServedInv'
  <2>1. results'["signal"].served = Nearest(series', now') => Nearest(series, now)' = results'["signal"].served
    OBVIOUS
  <2>2. results' = results
    BY <1>2
  <2>3. "signal" \notin todo' =>
          /\ results'["signal"].served = Nearest(series, now)'
          /\ results'["signal"].stale = EvaluateStale(results["signal"].served, now)'
    BY <1>6
  <2> QED BY <1>2, <1>3, <1>4, <2>2, <2>3 DEF SignalInv, ServedInv
<1> QED BY <1>3, <1>5, <1>7 DEF SignalInv

\* The signal worker serves the nearest envelope of this moment.
LEMMA ComputeServes ==
  ASSUME FeedInv, PassInv, SignalInv, NEW w \in Workers, ComputeWorker(w)
  PROVE  SignalInv'
<1> USE DEF ComputeWorker
<1>1. /\ UNCHANGED <<series, now, phase, staleState, episode, episodes, hooks, told>> /\ phase = "workers"
      /\ todo' = todo \ {w}
  BY DEF feedVars, signalVars
<1>2. OutageInv'
  BY <1>1 DEF SignalInv, OutageInv, EpisodesMatchHooks
<1>3. CASE w = "signal"
  <2>1. results'["signal"] = ComputeSignalAt(series, now)
    BY <1>3 DEF PassInv
  <2>2. /\ results'["signal"].served = Nearest(series, now)
        /\ results'["signal"].stale = EvaluateStale(Nearest(series, now), now)
    BY <2>1 DEF ComputeSignalAt
  <2>3. Nearest(series, now) \in series \cup {NoEnvelope}
    BY NearestIsNewest DEF FeedInv, FeedOrder, SignalInv, ServedInv
  <2>4. EvaluateStale(Nearest(series, now), now) \in BOOLEAN
    BY DEF EvaluateStale
  <2>5. Nearest(series, now)' = Nearest(series, now)
    BY <1>1
  <2>6. EvaluateStale(results["signal"].served, now)' = EvaluateStale(Nearest(series, now), now)
    BY <1>1, <2>2 DEF EvaluateStale
  <2> QED BY <1>1, <1>2, <2>2, <2>3, <2>4, <2>5, <2>6 DEF SignalInv, ServedInv
<1>4. CASE w # "signal"
  <2>1. results'["signal"] = results["signal"] /\ ("signal" \in todo' <=> "signal" \in todo)
    BY <1>4, <1>1 DEF PassInv, Workers
  <2> QED BY <1>1, <1>2, <2>1 DEF SignalInv, ServedInv, EvaluateStale
<1> QED BY <1>3, <1>4

\* A heartbeat evaluates staleness between ticks as a pass does.
LEMMA HeartbeatServes ==
  ASSUME FeedInv, PassInv, SignalInv, Heartbeat
  PROVE  FeedInv' /\ SignalInv'
<1>1. /\ Merge /\ UNCHANGED <<clock, latest, published, pollVars, probe>>
      /\ phase = "idle" /\ phase' = "idle" /\ now' = now /\ todo' = todo
  BY DEF Heartbeat
<1>2. FeedInv' /\ series' = series \cup Range(inbox)
  BY <1>1, MergeKeeps
<1>3. /\ OutageInv /\ now \in Nat /\ results["signal"].served \in series \cup {NoEnvelope}
      /\ results["signal"].stale \in BOOLEAN /\ results["signal"].stale = staleState
  BY <1>1 DEF SignalInv, ServedInv
<1>4. CASE Fresh(inbox) = {}
  <2>1. UNCHANGED <<results, staleState, episode, episodes, hooks, told>>
    BY <1>4 DEF Heartbeat, signalVars
  <2>2. OutageInv'
    BY <1>3, <2>1 DEF OutageInv, EpisodesMatchHooks
  <2>3. ServedInv'
    BY <1>1, <1>2, <1>3, <2>1 DEF ServedInv
  <2> QED BY <1>2, <2>2, <2>3 DEF SignalInv
<1>5. CASE Fresh(inbox) # {}
  <2>1. PICK S : S = series'
    OBVIOUS
  <2>2. /\ results' = IF ShouldRefreshAt(S, clock)
                      THEN [results EXCEPT !["signal"] = ComputeSignalAt(S, clock)] ELSE results
        /\ SignalPass(results'["signal"], clock)
    BY <1>5, <2>1 DEF Heartbeat
  <2>3. Listed(S) /\ clock \in Nat
    BY <1>2, <2>1, FeedTypedOut DEF FeedInv, FeedOrder
  <2>4. results'["signal"].served \in series' \cup {NoEnvelope} /\ results'["signal"].stale \in BOOLEAN
    <3>1. CASE ShouldRefreshAt(S, clock)
      <4>1. results'["signal"] = ComputeSignalAt(S, clock)
        BY <2>2, <3>1 DEF PassInv, Workers
      <4>2. /\ results'["signal"].served = Nearest(S, clock)
            /\ results'["signal"].stale = EvaluateStale(Nearest(S, clock), clock)
        BY <4>1 DEF ComputeSignalAt
      <4>3. Nearest(S, clock) \in S \cup {NoEnvelope}
        BY <2>3, NearestIsNewest
      <4>4. EvaluateStale(Nearest(S, clock), clock) \in BOOLEAN
        BY DEF EvaluateStale
      <4> QED BY <4>2, <4>3, <4>4, <2>1
    <3>2. CASE ~ShouldRefreshAt(S, clock)
      BY <2>2, <3>2, <1>2, <1>3
    <3> QED BY <3>1, <3>2
  <2>5. PICK r : r = results'["signal"]
    OBVIOUS
  <2>6. SignalPass(r, clock) /\ r.stale \in BOOLEAN
    BY <2>2, <2>4, <2>5
  <2>7. OutageInv' /\ staleState' = r.stale
    BY <2>6, <2>3, <1>3, PassTold
  <2>8. ServedInv'
    BY <2>4, <2>5, <2>7, <1>1, <1>3 DEF ServedInv
  <2> QED BY <1>2, <2>7, <2>8 DEF SignalInv
<1> QED BY <1>4, <1>5

\* The decision leaves signals alone.
LEMMA DecideServes ==
  ASSUME FeedInv, SignalInv, Decide
  PROVE  SignalInv'
<1>1. /\ phase = "workers" /\ phase' = "idle" /\ SignalPass(results["signal"], now) /\ now' = 0
      /\ results' = results /\ series' = series
  BY DEF Decide, feedVars
<1>2. /\ OutageInv /\ now \in Nat /\ results["signal"].served \in series \cup {NoEnvelope}
      /\ results["signal"].stale \in BOOLEAN
  BY DEF SignalInv, ServedInv
<1>3. PICK r : r = results["signal"]
  OBVIOUS
<1>4. OutageInv' /\ staleState' = r.stale
  BY <1>1, <1>2, <1>3, PassTold
<1>5. ServedInv'
  BY <1>1, <1>2, <1>3, <1>4 DEF ServedInv
<1> QED BY <1>4, <1>5 DEF SignalInv

\* Steps that leave signals alone.
LEMMA OthersServe ==
  ASSUME SignalInv, Warmup \/ ClippedTick \/ Cleanup \/ FeedStep \/ UNCHANGED vars
  PROVE  SignalInv'
<1>1. UNCHANGED <<staleState, episode, episodes, hooks, told, now, series>>
  BY DEF Warmup, ClippedTick, Cleanup, FeedStep, vars, passVars, feedVars, signalVars,
         FeedNext, Publish, Time, PollOnce, PollFails, InboxPut, ProbeOnce, pollVars
<1>2. OutageInv'
  BY <1>1 DEF SignalInv, OutageInv, EpisodesMatchHooks
<1>3. CASE Cleanup
  <2>1. phase' = "over" /\ results'["signal"] = NoResult
    BY <1>3 DEF Cleanup, Workers
  <2>2. results'["signal"].served = NoEnvelope /\ results'["signal"].stale = FALSE
    BY <2>1 DEF NoResult
  <2>3. now' \in Nat
    BY <1>1 DEF SignalInv, ServedInv
  <2>4. ServedInv'
    BY <2>1, <2>2, <2>3 DEF ServedInv
  <2> QED BY <1>2, <2>4 DEF SignalInv
<1>4. CASE Warmup \/ ClippedTick
  <2>1. results' = results /\ phase' = "idle" /\ phase \in {"boot", "idle"}
    BY <1>4 DEF Warmup, ClippedTick
  <2>2. ServedInv'
    BY <1>1, <2>1 DEF SignalInv, ServedInv
  <2> QED BY <1>2, <2>2 DEF SignalInv
<1>5. CASE FeedStep \/ UNCHANGED vars
  <2>1. results' = results /\ phase' = phase /\ todo' = todo
    BY <1>5 DEF FeedStep, vars, passVars
  <2>2. ServedInv'
    BY <1>1, <2>1 DEF SignalInv, ServedInv, EvaluateStale
  <2> QED BY <1>2, <2>2 DEF SignalInv
<1> QED BY <1>3, <1>4, <1>5

\* Steps of the pass leave the feed alone, the feed's own keep its invariant.
LEMMA FeedKeeps ==
  ASSUME FeedInv, Warmup \/ ClippedTick \/ Cleanup \/ Decide \/ FeedStep \/ UNCHANGED vars
                  \/ \E w \in Workers : ComputeWorker(w)
  PROVE  FeedInv'
<1>1. CASE FeedStep
  BY <1>1, PublishKeeps, QuietFeedKeeps, PollKeeps, PutKeeps, ProbeKeeps DEF FeedStep, FeedNext
<1>2. CASE ~FeedStep
  <2>1. UNCHANGED feedVars
    BY <1>2 DEF Warmup, ClippedTick, Cleanup, Decide, ComputeWorker, vars
  <2> QED BY <2>1, QuietFeedKeeps
<1> QED BY <1>1, <1>2

-----------------------------------------------------------------------------

PipelineInv == BarInv /\ PassInv /\ FeedInv /\ SignalInv

\* The invariant of bars, pass, feed and signals is inductive.
LEMMA PipelineKept == Spec => []PipelineInv
<1>1. Init => PipelineInv
  BY BarsInit, FeedInitial, SignalInitial DEF PipelineInv
<1>2. PipelineInv /\ [Next]_vars => PipelineInv'
  <2> SUFFICES ASSUME PipelineInv, [Next]_vars PROVE PipelineInv'
    OBVIOUS
  <2>0. BarInv /\ PassInv /\ FeedInv /\ SignalInv /\ clock \in Nat
    BY FeedTypedOut DEF PipelineInv, FeedInv
  <2>1. CASE Warmup
    BY <2>0, <2>1, WarmupKeeps, FeedKeeps, OthersServe DEF PipelineInv
  <2>2. CASE ClippedTick
    BY <2>0, <2>2, ClippedKeeps, FeedKeeps, OthersServe DEF PipelineInv
  <2>3. CASE BeginTick
    BY <2>0, <2>3, BeginKeeps, BeginServes DEF PipelineInv
  <2>4. CASE Decide
    BY <2>0, <2>4, OthersKeepBars, FeedKeeps, DecideServes DEF PipelineInv
  <2>5. CASE Heartbeat
    BY <2>0, <2>5, OthersKeepBars, HeartbeatServes DEF PipelineInv
  <2>6. CASE Cleanup
    BY <2>0, <2>6, OthersKeepBars, FeedKeeps, OthersServe DEF PipelineInv
  <2>7. CASE \E w \in Workers : ComputeWorker(w)
    BY <2>0, <2>7, ComputeKeeps, FeedKeeps, ComputeServes DEF PipelineInv
  <2>8. CASE FeedStep \/ UNCHANGED vars
    BY <2>0, <2>8, OthersKeepBars, FeedKeeps, OthersServe DEF PipelineInv
  <2> QED BY <2>1, <2>2, <2>3, <2>4, <2>5, <2>6, <2>7, <2>8 DEF Next
<1> QED BY <1>1, <1>2, PTL DEF Spec

\* What the invariant says about bars.
LEMMA BarsFollow == PipelineInv => BarsTrue
<1> SUFFICES ASSUME PipelineInv PROVE BarsTrue
  OBVIOUS
<1>0. BarInv /\ PassInv /\ FeedInv /\ SignalInv
  BY DEF PipelineInv
<1>1. BarTypeOK /\ CacheTrue
  BY <1>0 DEF BarInv, BarTypeOK
<1>2. FeedTypeOK
  <2>1. clock \in 0 .. MaxTime /\ polledAt \in -1 .. clock /\ MaxTime \in Nat
    BY <1>0, FeedAssumption DEF FeedInv, FeedTyped
  <2>2. polledAt \in -1 .. MaxTime
    BY <2>1
  <2> QED BY <1>0, <2>1, <2>2 DEF FeedInv, FeedTyped, FeedTypeOK
<1>3. TypeOK
  BY <1>0, <1>1, <1>2 DEF TypeOK, PassInv, SignalInv, OutageInv
<1>4. CloseWorkerCurrent
  BY <1>0 DEF PassInv, CloseWorkerCurrent, DecisionDue
<1>5. BarsInOrder
  <2> SUFFICES ASSUME NEW tf \in Timeframes
               PROVE  LET all == IF current[tf] = NoBar THEN completed[tf] ELSE Append(completed[tf], current[tf])
                      IN  \A i, j \in 1 .. Len(all) : i < j => InTurn(all[i], all[j], tf)
    BY DEF BarsInOrder
  <2>1. /\ completed[tf] \in Seq(Bar) /\ Rising(completed[tf], tf) /\ current[tf] \in Bar
        /\ current[tf] # NoBar => current[tf].last # -1
        /\ \A i \in 1 .. Len(completed[tf]) : Reaches(completed[tf][i], Edge(tf), tf)
    BY <1>0 DEF BarInv
  <2>2. CASE current[tf] = NoBar
    BY <2>1, <2>2 DEF Rising
  <2>3. CASE current[tf] # NoBar
    <3>1. Edge(tf) = current[tf].start
      BY <2>3 DEF Edge
    <3>2. Rising(Append(completed[tf], current[tf]), tf)
      BY <2>1, <2>3, <3>1, AppendRises
    <3> QED BY <3>2, <2>3 DEF Rising
  <2> QED BY <2>2, <2>3
<1> QED BY <1>1, <1>3, <1>4, <1>5 DEF BarsTrue

\* Closed bars rise, end where the bar under construction begins, are cut at the history
\* bound only, and the decision reads a close worker computed from all of them
\* (bar_renderer.py, bar_rendering_controller.py, worker_orchestrator.py).
THEOREM BarsAlwaysTrue == Spec => []BarsTrue
  BY PipelineKept, BarsFollow, PTL

\* What the invariant says about signals.
LEMMA SignalsFollow == PipelineInv => SignalsTrue
<1> SUFFICES ASSUME PipelineInv PROVE SignalsTrue
  OBVIOUS
<1>0. PassInv /\ FeedInv /\ SignalInv
  BY DEF PipelineInv
<1>1. NothingLost
  BY <1>0 DEF FeedInv
<1>2. JournalSwitchRecorded
  <2> SUFFICES ASSUME ~probe.changed PROVE ~(Cardinality(probe.seen) > 1)
    BY DEF JournalSwitchRecorded
  <2>1. probe.seen \in SUBSET {probe.journal}
    BY <1>0 DEF FeedInv, ProbeInv
  <2>2. IsFiniteSet({probe.journal}) /\ Cardinality({probe.journal}) = 1
    BY FS_Singleton
  <2>3. IsFiniteSet(probe.seen) /\ Cardinality(probe.seen) <= 1
    BY <2>1, <2>2, FS_Subset
  <2>4. Cardinality(probe.seen) \in Nat
    BY <2>3, FS_CardinalityType
  <2> QED BY <2>3, <2>4
<1>3. SignalAsOfPass
  <2> SUFFICES ASSUME DecisionDue
               PROVE  LET visible == {s \in series : \A o \in series :
                                        o = s \/ Before(o, s) => o.available <= now}
                          newest == {s \in visible : \A o \in visible : o = s \/ Before(o, s)}
                      IN  /\ results["signal"].served \in (IF visible = {} THEN {NoEnvelope} ELSE newest)
                          /\ results["signal"].stale = EvaluateStale(results["signal"].served, now)
    BY DEF SignalAsOfPass
  <2>1. /\ results["signal"].served = Nearest(series, now)
        /\ results["signal"].stale = EvaluateStale(results["signal"].served, now)
    BY <1>0 DEF SignalInv, ServedInv, DecisionDue
  <2>2. Listed(series) /\ now \in Int
    BY <1>0 DEF FeedInv, FeedOrder, SignalInv, ServedInv
  <2>3. Nearest(series, now) \in (IF Visible(series, now) = {} THEN {NoEnvelope} ELSE Newest(series, now))
    BY <2>2, NearestIsNewest
  <2> QED BY <2>1, <2>3 DEF Visible, Newest
<1> QED BY <1>1, <1>2, <1>3 DEF SignalsTrue

\* The signal a decision reads is a newest one published and received by then, no envelope
\* that was polled is lost between inbox and series, and the probe reports true changes
\* (the signal feed, its bisection and the poller thread).
THEOREM SignalsAlwaysTrue == Spec => []SignalsTrue
  BY PipelineKept, SignalsFollow, PTL

\* What the invariant says about telling.
LEMMA TellingFollows == PipelineInv => StaleToldFirst /\ EpisodesMatchHooks
  BY DEF PipelineInv, SignalInv, OutageInv, ServedInv, StaleToldFirst

\* The stale hook runs before a decision meets a stale signal, once per episode on record.
THEOREM StaleSignalToldFirst == Spec => [](StaleToldFirst /\ EpisodesMatchHooks)
  BY PipelineKept, TellingFollows, PTL

-----------------------------------------------------------------------------
(* Market data that goes stale *)

Span == [from : Nat, to : Nat]
Pass == [t : Nat, stale : BOOLEAN]
Tracker == [episodes : Seq([from : Nat, to : Nat, label : Nat]), open : Nat, label : Nat, last : Nat]
Outage == [armed : BOOLEAN, tried : BOOLEAN, refused : Nat]

StaleTyped ==
  /\ feed \in {"sim", "live", "over"} /\ windows \in WindowPlans /\ at \in Nat
  /\ isStale \in BOOLEAN /\ tracker \in Tracker /\ outage \in Outage
  /\ driver \in [idx : Nat, active : BOOLEAN]
  /\ seen \in Seq(Pass)
  /\ \A k \in 1 .. Len(seen) : seen[k].t \in 1 .. at

\* The driver stands at the first window that is not over, and is in it
\* exactly while the status is stale.
DriverInv ==
  feed = "sim" =>
    /\ isStale = driver.active
    /\ driver.idx \in 1 .. (Len(windows) + 1)
    /\ \A k \in 1 .. (driver.idx - 1) : windows[k].to <= at
    /\ driver.active => driver.idx \in DOMAIN windows /\ windows[driver.idx].from <= at

\* A stretch of stale passes from the a-th to the fresh b-th.
Stretch(sq, a, b) ==
  /\ a \in DOMAIN sq /\ b \in DOMAIN sq /\ a < b /\ ~sq[b].stale
  /\ \A j \in a .. (b - 1) : sq[j].stale
  /\ a = 1 \/ ~sq[a - 1].stale

SimOutages(sq) ==
  {[from |-> sq[p[1]].t, to |-> sq[p[2]].t] : p \in {q \in (DOMAIN sq) \X (DOMAIN sq) : Stretch(sq, q[1], q[2])}}
LiveOutages(sq) ==
  {[from |-> sq[k - 1].t, to |-> sq[k].t] : k \in {j \in DOMAIN sq : sq[j].stale}}

\* The stretch that goes on: where it began.
Running(sq, a) ==
  /\ a \in DOMAIN sq
  /\ \A j \in a .. Len(sq) : sq[j].stale
  /\ a = 1 \/ ~sq[a - 1].stale

RunInv ==
  /\ feed # "live" =>
       IF tracker.open = 0 THEN seen = <<>> \/ ~seen[Len(seen)].stale
       ELSE \E a \in DOMAIN seen : Running(seen, a) /\ tracker.open = seen[a].t
  /\ feed = "live" =>
       /\ tracker.last = IF seen = <<>> THEN 0 ELSE seen[Len(seen)].t
       /\ tracker.open # 0 => tracker.open = tracker.last
       /\ seen # <<>> => ~seen[1].stale
  /\ feed # "over" => (isStale <=> tracker.open # 0)

Recorded(eps) == {[from |-> eps[k].from, to |-> eps[k].to] : k \in DOMAIN eps}

EpisodeInv ==
  /\ Recorded(tracker.episodes) = Outages
  /\ \A i \in DOMAIN tracker.episodes : tracker.episodes[i].to <= at
  /\ \A i, j \in DOMAIN tracker.episodes : i < j => tracker.episodes[i].to < tracker.episodes[j].to

ProbedInv ==
  /\ feed # "over" => outage.tried = isStale
  /\ OneProbePerOutage

StaleInv == StaleTyped /\ DriverInv /\ StaleInWindows /\ RunInv /\ EpisodeInv /\ ProbedInv

-----------------------------------------------------------------------------
\* The two readings of an outage by name.
LEMMA OutagesAre ==
  /\ feed # "live" => Outages = SimOutages(seen)
  /\ feed = "live" => Outages = LiveOutages(seen)
  BY DEF Outages, SimOutages, LiveOutages, Stretch

\* A member of SimOutages is a stretch.
LEMMA SimOutageIs ==
  ASSUME NEW sq, NEW x
  PROVE  x \in SimOutages(sq) <=>
           \E a, b \in DOMAIN sq : Stretch(sq, a, b) /\ x = [from |-> sq[a].t, to |-> sq[b].t]
<1>1. ASSUME x \in SimOutages(sq)
      PROVE  \E a, b \in DOMAIN sq : Stretch(sq, a, b) /\ x = [from |-> sq[a].t, to |-> sq[b].t]
  <2>1. PICK p \in {q \in (DOMAIN sq) \X (DOMAIN sq) : Stretch(sq, q[1], q[2])} :
             x = [from |-> sq[p[1]].t, to |-> sq[p[2]].t]
    BY <1>1 DEF SimOutages
  <2>2. p[1] \in DOMAIN sq /\ p[2] \in DOMAIN sq /\ Stretch(sq, p[1], p[2])
    OBVIOUS
  <2> QED BY <2>1, <2>2
<1>2. ASSUME NEW a \in DOMAIN sq, NEW b \in DOMAIN sq, Stretch(sq, a, b), x = [from |-> sq[a].t, to |-> sq[b].t]
      PROVE  x \in SimOutages(sq)
  <2>1. PICK p \in (DOMAIN sq) \X (DOMAIN sq) : p[1] = a /\ p[2] = b
    <3>1. <<a, b>> \in (DOMAIN sq) \X (DOMAIN sq) /\ <<a, b>>[1] = a /\ <<a, b>>[2] = b
      OBVIOUS
    <3> QED BY <3>1
  <2>2. Stretch(sq, p[1], p[2]) /\ x = [from |-> sq[p[1]].t, to |-> sq[p[2]].t]
    BY <1>2, <2>1
  <2> QED BY <2>2 DEF SimOutages
<1> QED BY <1>1, <1>2

\* A stretch that ends before the last pass is the same in a longer record.
LEMMA StretchKept ==
  ASSUME NEW sq \in Seq(Pass), NEW e \in Pass, NEW a \in 1 .. Len(sq), NEW b \in 1 .. Len(sq)
  PROVE  Stretch(Append(sq, e), a, b) <=> Stretch(sq, a, b)
<1> DEFINE s2 == Append(sq, e)
<1>1. /\ Len(sq) \in Nat /\ DOMAIN sq = 1 .. Len(sq) /\ DOMAIN s2 = 1 .. (Len(sq) + 1)
      /\ \A k \in 1 .. Len(sq) : s2[k] = sq[k]
  OBVIOUS
<1> SUFFICES Stretch(s2, a, b) <=> Stretch(sq, a, b)
  OBVIOUS
<1> HIDE DEF s2
<1>2. a \in DOMAIN s2 /\ b \in DOMAIN s2 /\ a \in DOMAIN sq /\ b \in DOMAIN sq
  BY <1>1
<1>3. \A j \in a .. (b - 1) : s2[j] = sq[j]
  BY <1>1
<1>4. a # 1 => s2[a - 1] = sq[a - 1]
  BY <1>1
<1>5. s2[b] = sq[b]
  BY <1>1
<1> QED BY <1>2, <1>3, <1>4, <1>5 DEF Stretch

\* A stale pass ends no stretch, a fresh one ends the one that was running.
LEMMA SimOutagesGrow ==
  ASSUME NEW sq \in Seq(Pass), NEW e \in Pass
  PROVE  /\ e.stale => SimOutages(Append(sq, e)) = SimOutages(sq)
         /\ ~e.stale /\ (sq = <<>> \/ ~sq[Len(sq)].stale) => SimOutages(Append(sq, e)) = SimOutages(sq)
         /\ \A a \in DOMAIN sq : ~e.stale /\ Running(sq, a) =>
              SimOutages(Append(sq, e)) = SimOutages(sq) \cup {[from |-> sq[a].t, to |-> e.t]}
<1> DEFINE s2 == Append(sq, e)
           n == Len(sq)
<1>1. /\ n \in Nat /\ DOMAIN sq = 1 .. n /\ DOMAIN s2 = 1 .. (n + 1)
      /\ \A k \in 1 .. n : s2[k] = sq[k]
      /\ s2[n + 1] = e
      /\ sq = <<>> <=> n = 0
  OBVIOUS
<1>2. \A a, b \in 1 .. n : Stretch(s2, a, b) <=> Stretch(sq, a, b)
  BY StretchKept
<1> SUFFICES /\ e.stale => SimOutages(s2) = SimOutages(sq)
             /\ ~e.stale /\ (n = 0 \/ ~sq[n].stale) => SimOutages(s2) = SimOutages(sq)
             /\ \A a \in 1 .. n : ~e.stale /\ Running(sq, a) =>
                  SimOutages(s2) = SimOutages(sq) \cup {[from |-> sq[a].t, to |-> e.t]}
  BY <1>1
<1>3. \A j \in Nat : Running(sq, j) <=> /\ j \in 1 .. n /\ (\A k \in j .. n : sq[k].stale)
                                        /\ j = 1 \/ ~sq[j - 1].stale
  BY <1>1 DEF Running
<1> HIDE DEF s2, n
<1>4. ASSUME NEW x \in SimOutages(sq) PROVE x \in SimOutages(s2)
  <2>1. PICK a, b \in 1 .. n : Stretch(sq, a, b) /\ x = [from |-> sq[a].t, to |-> sq[b].t]
    BY <1>1, <1>4, SimOutageIs
  <2>2. Stretch(s2, a, b) /\ x = [from |-> s2[a].t, to |-> s2[b].t] /\ a \in DOMAIN s2 /\ b \in DOMAIN s2
    BY <2>1, <1>1, <1>2
  <2> QED BY <2>2, SimOutageIs
<1>5. ASSUME NEW x \in SimOutages(s2), x \notin SimOutages(sq)
      PROVE  ~e.stale /\ \E a \in 1 .. n : Running(sq, a) /\ x = [from |-> sq[a].t, to |-> e.t]
  <2>1. PICK a, b \in 1 .. (n + 1) : Stretch(s2, a, b) /\ x = [from |-> s2[a].t, to |-> s2[b].t]
    BY <1>1, <1>5, SimOutageIs
  <2>2. a < b /\ a \in 1 .. n
    BY <2>1, <1>1 DEF Stretch
  <2>3. b = n + 1
    <3> SUFFICES ASSUME b \in 1 .. n PROVE FALSE
      BY <1>1
    <3>1. Stretch(sq, a, b) /\ x = [from |-> sq[a].t, to |-> sq[b].t]
      BY <1>1, <1>2, <2>1, <2>2
    <3>2. x \in SimOutages(sq)
      BY <3>1, <2>2, <1>1, SimOutageIs
    <3> QED BY <3>2, <1>5
  <2>4. \A j \in a .. n : s2[j].stale
    BY <2>1, <2>3, <1>1 DEF Stretch
  <2>5. \A j \in a .. n : sq[j].stale
    BY <2>4, <1>1, <2>2
  <2>6. a = 1 \/ ~sq[a - 1].stale
    <3>1. a = 1 \/ ~s2[a - 1].stale
      BY <2>1 DEF Stretch
    <3>2. a # 1 => a - 1 \in 1 .. n
      BY <2>2, <1>1
    <3> QED BY <3>1, <3>2, <1>1
  <2>7. ~e.stale
    BY <2>1, <2>3, <1>1 DEF Stretch
  <2>8. Running(sq, a)
    BY <2>2, <2>5, <2>6, <1>3
  <2>9. x = [from |-> sq[a].t, to |-> e.t]
    BY <2>1, <2>2, <2>3, <1>1
  <2> QED BY <2>2, <2>7, <2>8, <2>9
<1>6. ASSUME NEW a \in 1 .. n, NEW c \in 1 .. n, Running(sq, a), Running(sq, c) PROVE a = c
  <2>1. /\ \A k \in a .. n : sq[k].stale /\ (a = 1 \/ ~sq[a - 1].stale)
        /\ \A k \in c .. n : sq[k].stale /\ (c = 1 \/ ~sq[c - 1].stale)
    BY <1>6, <1>3, <1>1
  <2>2. ~(a < c)
    <3> SUFFICES ASSUME a < c PROVE FALSE
      OBVIOUS
    <3>1. c - 1 \in a .. n /\ c # 1 /\ c \in c .. n
      BY <1>1
    <3> QED BY <3>1, <2>1
  <2>3. ~(c < a)
    <3> SUFFICES ASSUME c < a PROVE FALSE
      OBVIOUS
    <3>1. a - 1 \in c .. n /\ a # 1 /\ a \in a .. n
      BY <1>1
    <3> QED BY <3>1, <2>1
  <2> QED BY <2>2, <2>3, <1>1
<1>7. ASSUME NEW a \in 1 .. n, ~e.stale, Running(sq, a) PROVE [from |-> sq[a].t, to |-> e.t] \in SimOutages(s2)
  <2>1. a \in DOMAIN s2 /\ n + 1 \in DOMAIN s2 /\ a < n + 1 /\ ~s2[n + 1].stale
    <3>1. a \in DOMAIN s2 /\ n + 1 \in DOMAIN s2 /\ a < n + 1
      BY <1>1
    <3>2. ~s2[n + 1].stale
      BY <1>1, <1>7
    <3> QED BY <3>1, <3>2
  <2>2. \A j \in a .. n : sq[j].stale /\ s2[j] = sq[j]
    BY <1>7, <1>3, <1>1
  <2>3. a = 1 \/ ~s2[a - 1].stale
    <3>1. a # 1 => a - 1 \in 1 .. n
      BY <1>1
    <3> QED BY <3>1, <1>7, <1>3, <1>1
  <2>4. n + 1 - 1 = n
    BY <1>1
  <2>5. Stretch(s2, a, n + 1)
    <3>1. PICK b : b = n + 1
      OBVIOUS
    <3>2. \A j \in a .. (b - 1) : s2[j].stale
      <4>1. \A j \in a .. n : s2[j].stale
        BY <2>2, Zenon
      <4>2. b - 1 = n
        BY <1>1, <3>1
      <4> QED BY <4>1, <4>2
    <3>3. Stretch(s2, a, b)
      BY <2>1, <2>3, <3>1, <3>2 DEF Stretch
    <3> QED BY <3>1, <3>3
  <2>6. [from |-> sq[a].t, to |-> e.t] = [from |-> s2[a].t, to |-> s2[n + 1].t]
    BY <1>1
  <2> QED BY <2>1, <2>5, <2>6, SimOutageIs
<1>8. ASSUME n = 0 \/ ~sq[n].stale, NEW a \in 1 .. n PROVE ~Running(sq, a)
  <2>1. n \in a .. n /\ n # 0
    BY <1>1
  <2> QED BY <2>1, <1>8, <1>3
<1>9. e.stale => SimOutages(s2) = SimOutages(sq)
  BY <1>4, <1>5
<1>10. ~e.stale /\ (n = 0 \/ ~sq[n].stale) => SimOutages(s2) = SimOutages(sq)
  BY <1>4, <1>5, <1>8
<1>11. ASSUME NEW a \in 1 .. n, ~e.stale, Running(sq, a)
       PROVE  SimOutages(s2) = SimOutages(sq) \cup {[from |-> sq[a].t, to |-> e.t]}
  BY <1>4, <1>5, <1>6, <1>7, <1>11
<1> QED BY <1>9, <1>10, <1>11

\* Live, a pass that met staleness ends an outage that began at the pass before.
LEMMA LiveOutagesGrow ==
  ASSUME NEW sq \in Seq(Pass), NEW e \in Pass, sq # <<>> => ~sq[1].stale, sq = <<>> => ~e.stale
  PROVE  /\ ~e.stale => LiveOutages(Append(sq, e)) = LiveOutages(sq)
         /\ e.stale => LiveOutages(Append(sq, e)) = LiveOutages(sq) \cup {[from |-> sq[Len(sq)].t, to |-> e.t]}
<1> DEFINE s2 == Append(sq, e)
           n == Len(sq)
<1>1. /\ n \in Nat /\ DOMAIN sq = 1 .. n /\ DOMAIN s2 = 1 .. (n + 1)
      /\ \A k \in 1 .. n : s2[k] = sq[k]
      /\ s2[n + 1] = e
      /\ sq = <<>> <=> n = 0
  OBVIOUS
<1> SUFFICES /\ ~e.stale => LiveOutages(s2) = LiveOutages(sq)
             /\ e.stale => LiveOutages(s2) = LiveOutages(sq) \cup {[from |-> sq[n].t, to |-> e.t]}
  OBVIOUS
<1> HIDE DEF s2, n
<1>2. \A k \in 1 .. n : sq[k].stale => k # 1 /\ k - 1 \in 1 .. n
  BY <1>1
<1>3. ASSUME NEW x \in LiveOutages(sq) PROVE x \in LiveOutages(s2)
  <2>1. PICK k \in 1 .. n : sq[k].stale /\ x = [from |-> sq[k - 1].t, to |-> sq[k].t]
    BY <1>1, <1>3 DEF LiveOutages
  <2>2. k \in DOMAIN s2 /\ s2[k].stale /\ s2[k] = sq[k] /\ s2[k - 1] = sq[k - 1]
    BY <2>1, <1>1, <1>2
  <2> QED BY <2>1, <2>2 DEF LiveOutages
<1>4. ASSUME NEW x \in LiveOutages(s2)
      PROVE  x \in LiveOutages(sq) \/ (e.stale /\ x = [from |-> sq[n].t, to |-> e.t])
  <2>1. PICK k \in 1 .. (n + 1) : s2[k].stale /\ x = [from |-> s2[k - 1].t, to |-> s2[k].t]
    BY <1>1, <1>4 DEF LiveOutages
  <2>2. CASE k \in 1 .. n
    <3>1. s2[k] = sq[k] /\ s2[k - 1] = sq[k - 1]
      BY <2>1, <2>2, <1>1, <1>2
    <3> QED BY <2>1, <2>2, <3>1, <1>1 DEF LiveOutages
  <2>3. CASE k = n + 1
    <3>1. e.stale /\ n # 0
      BY <2>1, <2>3, <1>1
    <3>2. k - 1 = n /\ n \in 1 .. n
      BY <2>3, <3>1, <1>1
    <3> QED BY <2>1, <2>3, <3>1, <3>2, <1>1
  <2> QED BY <2>2, <2>3, <1>1
<1>5. ASSUME e.stale PROVE [from |-> sq[n].t, to |-> e.t] \in LiveOutages(s2)
  <2>1. n + 1 \in DOMAIN s2 /\ n + 1 - 1 = n /\ n \in 1 .. n
    BY <1>1, <1>5
  <2>2. s2[n + 1] = e /\ s2[n + 1 - 1] = sq[n] /\ s2[n + 1].stale
    BY <2>1, <1>1, <1>5
  <2> QED BY <2>1, <2>2 DEF LiveOutages
<1> QED BY <1>3, <1>4, <1>5

\* One more episode on record.
LEMMA RecordedGrows ==
  ASSUME NEW eps \in Seq([from : Nat, to : Nat, label : Nat]), NEW x \in [from : Nat, to : Nat, label : Nat]
  PROVE  Recorded(Append(eps, x)) = Recorded(eps) \cup {[from |-> x.from, to |-> x.to]}
<1> DEFINE s2 == Append(eps, x)
           n == Len(eps)
<1>1. /\ n \in Nat /\ DOMAIN eps = 1 .. n /\ DOMAIN s2 = 1 .. (n + 1)
      /\ \A k \in 1 .. n : s2[k] = eps[k]
      /\ s2[n + 1] = x
  OBVIOUS
<1> SUFFICES Recorded(s2) = Recorded(eps) \cup {[from |-> x.from, to |-> x.to]}
  OBVIOUS
<1> HIDE DEF s2, n
<1>2. ASSUME NEW y \in Recorded(s2) PROVE y \in Recorded(eps) \cup {[from |-> x.from, to |-> x.to]}
  <2>1. PICK k \in 1 .. (n + 1) : y = [from |-> s2[k].from, to |-> s2[k].to]
    BY <1>1 DEF Recorded
  <2>2. CASE k \in 1 .. n
    BY <2>1, <2>2, <1>1 DEF Recorded
  <2>3. CASE k = n + 1
    BY <2>1, <2>3, <1>1
  <2> QED BY <2>2, <2>3, <1>1
<1>3. ASSUME NEW y \in Recorded(eps) PROVE y \in Recorded(s2)
  <2>1. PICK k \in 1 .. n : y = [from |-> eps[k].from, to |-> eps[k].to]
    BY <1>1 DEF Recorded
  <2>2. k \in DOMAIN s2 /\ s2[k] = eps[k]
    BY <1>1
  <2> QED BY <2>1, <2>2 DEF Recorded
<1>4. [from |-> x.from, to |-> x.to] \in Recorded(s2)
  <2>1. n + 1 \in DOMAIN s2
    BY <1>1
  <2> QED BY <2>1, <1>1 DEF Recorded
<1> QED BY <1>2, <1>3, <1>4

\* The first window from i on that is not over at t.
LEMMA NextWindowIs ==
  ASSUME windows \in WindowPlans, NEW i \in 1 .. (Len(windows) + 1), NEW t \in Nat
  PROVE  /\ NextWindow(i, t) \in i .. (Len(windows) + 1)
         /\ NextWindow(i, t) \in DOMAIN windows => windows[NextWindow(i, t)].to > t
         /\ \A k \in i .. (NextWindow(i, t) - 1) : windows[k].to <= t
<1> DEFINE n == Len(windows)
           T == {j \in i .. (n + 1) : j \in DOMAIN windows => windows[j].to > t}
<1>1. windows \in Seq(Span) /\ n \in Nat /\ DOMAIN windows = 1 .. n
  BY WindowsSorted DEF Span
<1>2. n + 1 \in T /\ T \subseteq Nat
  BY <1>1
<1>3. PICK j \in T : \A m \in T : j <= m
  <2> HIDE DEF T
  <2> QED BY <1>2, LeastNumber
<1>4. /\ j \in i .. (n + 1) /\ (j \in DOMAIN windows => windows[j].to > t)
      /\ \A k \in i .. (j - 1) : windows[k].to <= t
  <2>1. j \in i .. (n + 1) /\ (j \in DOMAIN windows => windows[j].to > t)
    OBVIOUS
  <2>2. ASSUME NEW k \in i .. (j - 1) PROVE windows[k].to <= t
    <3>1. k \in i .. (n + 1) /\ k \in DOMAIN windows /\ k < j
      BY <2>1, <1>1
    <3>2. ~(windows[k].to > t)
      BY <3>1, <1>3
    <3>3. windows[k].to \in Nat
      <4>1. windows[k] \in Span
        BY <3>1, <1>1
      <4> QED BY <4>1 DEF Span
    <3> QED BY <3>2, <3>3
  <2> QED BY <2>1, <2>2
<1>5. \E m \in i .. (Len(windows) + 1) :
        /\ m \in DOMAIN windows => windows[m].to > t
        /\ \A k \in i .. (m - 1) : windows[k].to <= t
  BY <1>4
<1> QED BY <1>5 DEF NextWindow

InWindow(t) == \E w \in DOMAIN windows : t \in windows[w].from .. (windows[w].to - 1)

DriverAt(d, stale, t) ==
  /\ stale = d.active /\ d.active \in BOOLEAN
  /\ d.idx \in 1 .. (Len(windows) + 1)
  /\ \A k \in 1 .. (d.idx - 1) : windows[k].to <= t
  /\ d.active => d.idx \in DOMAIN windows /\ windows[d.idx].from <= t

\* StaleDataStressDriver.on_tick: inside a window exactly if some window holds the tick,
\* however windows overlap; the hook is called when staleness begins.
LEMMA DriverSteps ==
  ASSUME StaleTyped, DriverInv, feed = "sim", NEW t \in Nat, t > at
  PROVE  LET d == DriverOnTick(t) IN
         /\ DriverAt(d.driver, d.stale, t)
         /\ d.stale <=> InWindow(t)
         /\ d.driver \in [idx : Nat, active : BOOLEAN] /\ d.hook \in BOOLEAN
         /\ d.stale /\ ~isStale => d.hook
<1> DEFINE n == Len(windows)
           ended == driver.active /\ t >= windows[driver.idx].to
           still == driver.active /\ ~ended
           from == IF ended THEN driver.idx + 1 ELSE driver.idx
           i == IF still THEN driver.idx ELSE NextWindow(from, t)
           inside == i \in DOMAIN windows /\ t >= windows[i].from
<1>1. /\ windows \in Seq(Span) /\ n \in Nat /\ DOMAIN windows = 1 .. n
      /\ \A k \in 1 .. n : windows[k].from \in Nat /\ windows[k].to \in Nat /\ windows[k].from < windows[k].to
      /\ \A k, m \in 1 .. n : k < m => windows[k].from <= windows[m].from
  <2>1. windows \in Seq(Span) /\ SortedByStart(windows)
    BY WindowsSorted DEF StaleTyped, Span
  <2>2. n \in Nat /\ DOMAIN windows = 1 .. n
    BY <2>1
  <2>3. \A k \in 1 .. n : windows[k].from \in Nat /\ windows[k].to \in Nat
    <3>1. \A k \in 1 .. n : windows[k] \in Span
      BY <2>1
    <3> QED BY <3>1 DEF Span
  <2> HIDE DEF n
  <2> QED BY <2>1, <2>2, <2>3 DEF SortedByStart
<1>2. /\ isStale = driver.active /\ driver.active \in BOOLEAN /\ at \in Nat
      /\ driver.idx \in 1 .. (n + 1)
      /\ \A k \in 1 .. (driver.idx - 1) : windows[k].to <= at
      /\ driver.active => driver.idx \in 1 .. n /\ windows[driver.idx].from <= at
  BY <1>1 DEF StaleTyped, DriverInv
<1>3. DriverOnTick(t) = [driver |-> [idx |-> i, active |-> inside],
                         stale |-> IF inside THEN TRUE ELSE (IF ended THEN FALSE ELSE isStale),
                         hook |-> inside /\ ~still]
  BY DEF DriverOnTick
<1> HIDE DEF n
<1>4. /\ i \in 1 .. (n + 1)
      /\ i \in 1 .. n => windows[i].to > t
      /\ \A k \in 1 .. (i - 1) : windows[k].to <= t
      /\ still => inside
  <2>1. CASE still
    <3>1. i = driver.idx /\ driver.idx \in 1 .. n /\ ~(t >= windows[driver.idx].to) /\ windows[driver.idx].from <= at
      BY <2>1, <1>2
    <3>2. \A k \in 1 .. (driver.idx - 1) : windows[k].to <= t
      <4>1. \A k \in 1 .. (driver.idx - 1) : k \in 1 .. n
        BY <3>1, <1>1
      <4> QED BY <4>1, <1>1, <1>2
    <3>3. windows[driver.idx].to > t /\ t >= windows[driver.idx].from
      BY <3>1, <1>1, <1>2
    <3> QED BY <3>1, <3>2, <3>3, <1>1
  <2>2. CASE ~still
    <3>1. i = NextWindow(from, t)
      BY <2>2
    <3>2. from \in 1 .. (n + 1) /\ \A k \in 1 .. (from - 1) : windows[k].to <= t
      <4>1. CASE ended
        <5>1. from = driver.idx + 1 /\ driver.idx \in 1 .. n /\ t >= windows[driver.idx].to
          BY <4>1, <1>2
        <5>2. \A k \in 1 .. (from - 1) : k \in 1 .. n /\ (k = driver.idx \/ k \in 1 .. (driver.idx - 1))
          BY <5>1, <1>1
        <5>3. \A k \in 1 .. (from - 1) : windows[k].to <= t
          <6> HIDE DEF from, ended
          <6> QED BY <5>1, <5>2, <1>1, <1>2
        <5> QED BY <5>1, <5>3, <1>1
      <4>2. CASE ~ended
        <5>1. from = driver.idx
          BY <4>2
        <5>2. \A k \in 1 .. (driver.idx - 1) : k \in 1 .. n
          BY <1>1, <1>2
        <5>3. \A k \in 1 .. (driver.idx - 1) : windows[k].to <= t
          BY <5>2, <1>1, <1>2
        <5> QED BY <5>1, <5>3, <1>2
      <4> QED BY <4>1, <4>2
    <3> HIDE DEF from
    <3>3. windows \in WindowPlans /\ from \in 1 .. (Len(windows) + 1)
      BY <3>2 DEF StaleTyped, n
    <3>4. /\ i \in from .. (n + 1)
          /\ i \in DOMAIN windows => windows[i].to > t
          /\ \A k \in from .. (i - 1) : windows[k].to <= t
      <4>1. PICK m : m = NextWindow(from, t)
        OBVIOUS
      <4>2. /\ m \in from .. (n + 1)
            /\ m \in DOMAIN windows => windows[m].to > t
            /\ \A k \in from .. (m - 1) : windows[k].to <= t
        BY <4>1, <3>3, NextWindowIs DEF n
      <4> HIDE DEF i
      <4> QED BY <3>1, <4>1, <4>2
    <3> HIDE DEF i
    <3>5. i \in 1 .. (n + 1)
      BY <3>2, <3>4, <1>1
    <3>6. \A k \in 1 .. (i - 1) : k \in 1 .. (from - 1) \/ k \in from .. (i - 1)
      BY <3>2, <3>5, <1>1
    <3> QED BY <3>2, <3>4, <3>5, <3>6, <1>1, <2>2
  <2> QED BY <2>1, <2>2
<1> HIDE DEF i, still, ended, from
<1>5. inside <=> InWindow(t)
  <2>1. ASSUME inside PROVE InWindow(t)
    <3>1. i \in 1 .. n /\ t >= windows[i].from /\ windows[i].to > t
      BY <2>1, <1>1, <1>4
    <3>2. t \in windows[i].from .. (windows[i].to - 1)
      BY <3>1, <1>1
    <3> QED BY <3>1, <3>2, <1>1 DEF InWindow
  <2>2. ASSUME ~inside, InWindow(t) PROVE FALSE
    <3>1. PICK w \in 1 .. n : t \in windows[w].from .. (windows[w].to - 1)
      BY <2>2, <1>1 DEF InWindow
    <3>2. windows[w].from <= t /\ windows[w].to > t
      BY <3>1, <1>1
    <3>3. ~(w \in 1 .. (i - 1))
      BY <3>2, <1>4, <1>1
    <3>4. i <= w /\ i \in 1 .. n
      BY <3>3, <1>4, <1>1
    <3>5. ~(t >= windows[i].from)
      BY <2>2, <3>4, <1>1
    <3>6. windows[i].from <= windows[w].from
      BY <3>4, <1>1
    <3> QED BY <3>2, <3>4, <3>5, <3>6, <1>1
  <2> QED BY <2>1, <2>2
<1>6. inside \in BOOLEAN
  OBVIOUS
<1>7. inside => i \in 1 .. n /\ windows[i].from <= t
  BY <1>1
<1> HIDE DEF inside
<1>8. ~inside /\ ~ended => ~isStale
  BY <1>2, <1>4 DEF still
<1>9. (IF inside THEN TRUE ELSE (IF ended THEN FALSE ELSE isStale)) = inside
  BY <1>6, <1>8, <1>2
<1>10. inside /\ ~isStale => ~still
  BY <1>2 DEF still
<1> DEFINE d == DriverOnTick(t)
<1>11. /\ d.driver.idx = i /\ d.driver.active = inside /\ d.stale = inside /\ d.hook = (inside /\ ~still)
       /\ d.driver = [idx |-> i, active |-> inside]
  <2>1. d = [driver |-> [idx |-> i, active |-> inside], stale |-> inside, hook |-> inside /\ ~still]
    BY <1>3, <1>9
  <2>2. PICK b \in BOOLEAN : b = inside
    BY <1>6
  <2>3. PICK h \in BOOLEAN : h = (inside /\ ~still)
    OBVIOUS
  <2>4. d = [driver |-> [idx |-> i, active |-> b], stale |-> b, hook |-> h]
    BY <2>1, <2>2, <2>3
  <2>5. d.driver = [idx |-> i, active |-> b] /\ d.stale = b /\ d.hook = h
    BY <2>4
  <2> HIDE DEF d
  <2> QED BY <2>2, <2>3, <2>5
<1>12. d.driver \in [idx : Nat, active : BOOLEAN]
  BY <1>11, <1>4, <1>6, <1>1
<1> SUFFICES /\ DriverAt(d.driver, d.stale, t)
             /\ d.stale <=> InWindow(t)
             /\ d.driver \in [idx : Nat, active : BOOLEAN] /\ d.hook \in BOOLEAN
             /\ d.stale /\ ~isStale => d.hook
  OBVIOUS
<1> HIDE DEF d
<1>13. DriverAt(d.driver, d.stale, t)
  BY <1>11, <1>4, <1>6, <1>7, <1>1 DEF DriverAt, n
<1>14. d.stale /\ ~isStale => d.hook
  BY <1>10, <1>11
<1>15. d.hook \in BOOLEAN
  BY <1>11
<1> QED BY <1>5, <1>11, <1>12, <1>13, <1>14, <1>15

Episode == [from : Nat, to : Nat, label : Nat]

\* The tracker opens at the first stale observation and records at the first fresh one.
LEMMA ObserveSteps ==
  ASSUME NEW k \in Tracker, NEW t \in Nat, NEW stale \in BOOLEAN, NEW label \in Nat, NEW start \in Nat
  PROVE  LET o == Observe(k, t, stale, label, start) IN
         /\ o \in Tracker /\ o.last = k.last
         /\ stale => o.episodes = k.episodes /\ o.open = (IF k.open = 0 THEN start ELSE k.open)
         /\ ~stale => /\ o.open = 0
                      /\ o.episodes = IF k.open = 0 THEN k.episodes
                                      ELSE Append(k.episodes, [from |-> k.open, to |-> t, label |-> k.label])
<1>1. /\ k.episodes \in Seq(Episode) /\ k.open \in Nat /\ k.label \in Nat /\ k.last \in Nat
      /\ k = [episodes |-> k.episodes, open |-> k.open, label |-> k.label, last |-> k.last]
  BY DEF Tracker, Episode
<1>2. \A eps \in Seq(Episode), a, b, c \in Nat : [episodes |-> eps, open |-> a, label |-> b, last |-> c] \in Tracker
  BY DEF Tracker, Episode
<1> DEFINE o == Observe(k, t, stale, label, start)
<1>3. CASE stale /\ k.open = 0
  <2>1. o = [k EXCEPT !.open = start, !.label = label]
    BY <1>3 DEF Observe
  <2>2. o = [episodes |-> k.episodes, open |-> start, label |-> label, last |-> k.last]
    <3> HIDE DEF o
    <3> QED BY <2>1, <1>1
  <2> HIDE DEF o
  <2> SUFFICES /\ o \in Tracker /\ o.last = k.last /\ o.episodes = k.episodes /\ o.open = start
    BY <1>3 DEF o
  <2> QED BY <2>2, <1>1, <1>2
<1>4. CASE stale /\ k.open # 0
  <2>1. o = [k EXCEPT !.label = IF @ = 0 THEN label ELSE @]
    BY <1>4 DEF Observe
  <2>2. PICK l \in Nat : l = IF k.label = 0 THEN label ELSE k.label
    BY <1>1
  <2>3. o = [episodes |-> k.episodes, open |-> k.open, label |-> l, last |-> k.last]
    <3> HIDE DEF o
    <3> QED BY <2>1, <2>2, <1>1
  <2> HIDE DEF o
  <2> SUFFICES /\ o \in Tracker /\ o.last = k.last /\ o.episodes = k.episodes /\ o.open = k.open
    BY <1>4 DEF o
  <2> QED BY <2>3, <1>1, <1>2
<1>5. CASE ~stale /\ k.open = 0
  <2>1. o = k
    BY <1>5 DEF Observe
  <2> QED BY <2>1, <1>5
<1>6. CASE ~stale /\ k.open # 0
  <2>0. [from |-> k.open, to |-> t, label |-> k.label] \in Episode
    BY <1>1 DEF Episode
  <2>1. PICK eps \in Seq(Episode) : eps = Append(k.episodes, [from |-> k.open, to |-> t, label |-> k.label])
    <3>1. PICK x \in Episode : x = [from |-> k.open, to |-> t, label |-> k.label]
      BY <2>0
    <3>2. Append(k.episodes, x) \in Seq(Episode)
      BY <1>1
    <3> QED BY <3>1, <3>2
  <2>2. o = [k EXCEPT !.episodes = eps, !.open = 0, !.label = 0]
    <3>1. o = [k EXCEPT !.episodes = Append(@, [from |-> k.open, to |-> t, label |-> k.label]), !.open = 0, !.label = 0]
      BY <1>6 DEF Observe
    <3>2. [k EXCEPT !.episodes = Append(@, [from |-> k.open, to |-> t, label |-> k.label]), !.open = 0, !.label = 0]
            = [k EXCEPT !.episodes = Append(k.episodes, [from |-> k.open, to |-> t, label |-> k.label]), !.open = 0, !.label = 0]
      OBVIOUS
    <3> HIDE DEF o
    <3> QED BY <3>1, <3>2, <2>1
  <2>3. o = [episodes |-> eps, open |-> 0, label |-> 0, last |-> k.last]
    <3> HIDE DEF o
    <3> QED BY <2>2, <1>1
  <2> HIDE DEF o
  <2> SUFFICES /\ o \in Tracker /\ o.last = k.last /\ o.episodes = eps /\ o.open = 0
    BY <1>6, <2>1 DEF o
  <2> QED BY <2>3, <1>1, <1>2
<1> QED BY <1>3, <1>4, <1>5, <1>6

\* The same on a tick, which is also remembered as the last.
LEMMA OnTickSteps ==
  ASSUME tracker \in Tracker, NEW t \in Nat, NEW stale \in BOOLEAN, NEW label \in Nat
  PROVE  LET o == TrackerOnTick(t, stale, label) IN
         /\ o \in Tracker /\ o.last = t
         /\ stale => o.episodes = tracker.episodes /\ o.open = (IF tracker.open = 0 THEN t ELSE tracker.open)
         /\ ~stale => /\ o.open = 0
                      /\ o.episodes = IF tracker.open = 0 THEN tracker.episodes
                                      ELSE Append(tracker.episodes, [from |-> tracker.open, to |-> t, label |-> tracker.label])
<1> DEFINE p == Observe(tracker, t, stale, label, t)
           o == [p EXCEPT !.last = t]
<1>1. /\ p \in Tracker /\ p.last = tracker.last
      /\ stale => p.episodes = tracker.episodes /\ p.open = (IF tracker.open = 0 THEN t ELSE tracker.open)
      /\ ~stale => /\ p.open = 0
                   /\ p.episodes = IF tracker.open = 0 THEN tracker.episodes
                                   ELSE Append(tracker.episodes, [from |-> tracker.open, to |-> t, label |-> tracker.label])
  BY ObserveSteps
<1>2. TrackerOnTick(t, stale, label) = o
  BY DEF TrackerOnTick
<1> HIDE DEF p
<1>3. o \in Tracker /\ o.last = t /\ o.episodes = p.episodes /\ o.open = p.open
  BY <1>1 DEF Tracker
<1> HIDE DEF o
<1> QED BY <1>1, <1>2, <1>3

\* The probe tries once when staleness begins, and a fresh tick lets it try again.
LEMMA ProbeSteps ==
  ASSUME NEW o \in Outage, NEW stale \in BOOLEAN, NEW hook \in BOOLEAN,
         stale /\ ~o.tried => hook
  PROVE  /\ LET r == ProbeTicked(Hook(o, hook), stale) IN
              /\ r \in Outage /\ r.tried = stale
              /\ r.refused = IF stale /\ ~o.tried THEN o.refused + 1 ELSE o.refused
         /\ (o.tried => stale) => LET r == Probe(Hook(o, hook), stale) IN
              /\ r \in Outage /\ r.tried = stale
              /\ r.refused = IF stale /\ ~o.tried THEN o.refused + 1 ELSE o.refused
<1>1. /\ o.armed \in BOOLEAN /\ o.tried \in BOOLEAN /\ o.refused \in Nat /\ o.refused + 1 \in Nat
      /\ o = [armed |-> o.armed, tried |-> o.tried, refused |-> o.refused]
  BY DEF Outage
<1>0. \A a, b \in BOOLEAN, c \in Nat : [armed |-> a, tried |-> b, refused |-> c] \in Outage
  BY DEF Outage
<1>2. PICK a \in BOOLEAN : a = (o.armed \/ hook)
  OBVIOUS
<1> DEFINE h == [armed |-> a, tried |-> o.tried, refused |-> o.refused]
<1>3. Hook(o, hook) = h
  <2>1. CASE hook
    <3>1. Hook(o, hook) = [o EXCEPT !.armed = TRUE] /\ a = TRUE
      BY <2>1, <1>2 DEF Hook
    <3> QED BY <3>1, <1>1
  <2>2. CASE ~hook
    <3>1. Hook(o, hook) = o /\ a = o.armed
      BY <2>2, <1>2, <1>1 DEF Hook
    <3> QED BY <3>1, <1>1
  <2> QED BY <2>1, <2>2
<1>4. CASE stale /\ ~o.tried
  <2>1. a = TRUE
    BY <1>2, <1>4
  <2>2. Probe(h, stale) = [h EXCEPT !.tried = TRUE, !.armed = FALSE, !.refused = @ + 1]
    BY <1>4, <2>1 DEF Probe
  <2>3. Probe(h, stale) = [armed |-> FALSE, tried |-> TRUE, refused |-> o.refused + 1]
    BY <2>2
  <2>4. ProbeTicked(h, stale) = Probe(h, stale)
    BY <1>4 DEF ProbeTicked
  <2>5. PICK r : r = [armed |-> FALSE, tried |-> TRUE, refused |-> o.refused + 1]
    OBVIOUS
  <2>6. r \in Outage /\ r.tried = TRUE /\ r.refused = o.refused + 1
    BY <2>5, <1>0, <1>1
  <2>7. stale = TRUE
    BY <1>4
  <2> HIDE DEF h
  <2> QED BY <1>3, <1>4, <2>3, <2>4, <2>5, <2>6, <2>7
<1>5. CASE stale /\ o.tried
  <2>1. Probe(h, stale) = h /\ ProbeTicked(h, stale) = h
    BY <1>5 DEF Probe, ProbeTicked
  <2>2. h \in Outage /\ h.tried = o.tried /\ h.refused = o.refused
    BY <1>0, <1>1
  <2>3. o.tried = stale
    BY <1>5, <1>1
  <2> HIDE DEF h
  <2> QED BY <1>3, <1>5, <2>1, <2>2, <2>3
<1>6. CASE ~stale
  <2> DEFINE f == [h EXCEPT !.tried = FALSE]
  <2>1. ProbeTicked(h, stale) = f /\ Probe(h, stale) = h
    BY <1>6 DEF Probe, ProbeTicked
  <2>2. f = [armed |-> a, tried |-> FALSE, refused |-> o.refused]
    <3>1. \A x : [h EXCEPT !.tried = x] = [armed |-> a, tried |-> x, refused |-> o.refused]
      OBVIOUS
    <3> QED BY <3>1
  <2>3. f \in Outage /\ f.tried = FALSE /\ f.refused = o.refused
    BY <2>2, <1>0, <1>1
  <2>4. h \in Outage /\ h.tried = o.tried /\ h.refused = o.refused
    BY <1>0, <1>1
  <2>5. stale = FALSE /\ ((o.tried => stale) => o.tried = stale)
    BY <1>6, <1>1
  <2> HIDE DEF h, f
  <2> QED BY <1>3, <1>6, <2>1, <2>3, <2>4, <2>5
<1> QED BY <1>4, <1>5, <1>6, <1>1

\* A step that ends no outage leaves the record true.
LEMMA EpisodesStep ==
  ASSUME StaleTyped, EpisodeInv, at' \in Nat, at <= at', tracker'.episodes = tracker.episodes, Outages' = Outages
  PROVE  EpisodeInv'
<1>1. /\ tracker.episodes \in Seq(Episode) /\ at \in Nat
  BY DEF StaleTyped, Tracker, Episode
<1>2. \A i \in DOMAIN tracker.episodes : tracker.episodes[i] \in Episode
  BY <1>1
<1>3. \A i \in DOMAIN tracker.episodes : tracker.episodes[i].to \in Nat
  BY <1>2 DEF Episode
<1>4. \A i \in DOMAIN tracker'.episodes : tracker'.episodes[i].to <= at'
  BY <1>1, <1>3 DEF EpisodeInv
<1> QED BY <1>4 DEF EpisodeInv

\* A step that ends an outage records it.
LEMMA EpisodeEnds ==
  ASSUME StaleTyped, EpisodeInv, at' \in Nat, at < at', NEW f \in Nat, NEW l \in Nat,
         tracker'.episodes = Append(tracker.episodes, [from |-> f, to |-> at', label |-> l]),
         Outages' = Outages \cup {[from |-> f, to |-> at']}
  PROVE  EpisodeInv'
<1> DEFINE eps == tracker.episodes
           n == Len(eps)
<1>1. PICK x \in Episode : x = [from |-> f, to |-> at', label |-> l]
  BY DEF Episode
<1>2. eps \in Seq(Episode) /\ at \in Nat /\ n \in Nat /\ DOMAIN eps = 1 .. n
  BY DEF StaleTyped, Tracker, Episode
<1>3. PICK e2 : e2 = Append(eps, x)
  OBVIOUS
<1>4. /\ DOMAIN e2 = 1 .. (n + 1) /\ e2[n + 1] = x /\ \A k \in 1 .. n : e2[k] = eps[k]
  BY <1>2, <1>3
<1>5. \A i \in 1 .. n : eps[i] \in Episode
  BY <1>2
<1>6. tracker'.episodes = e2
  BY <1>1, <1>3
<1>7. /\ Recorded(eps) = Outages
      /\ \A i \in 1 .. n : eps[i].to <= at
      /\ \A i, j \in 1 .. n : i < j => eps[i].to < eps[j].to
  BY <1>2 DEF EpisodeInv
<1>8. Recorded(e2) = Outages'
  <2>1. Recorded(e2) = Recorded(eps) \cup {[from |-> x.from, to |-> x.to]}
    BY <1>2, <1>3, RecordedGrows DEF Episode
  <2>2. x.from = f /\ x.to = at'
    BY <1>1
  <2> QED BY <2>1, <2>2, <1>7
<1> HIDE DEF eps, n
<1>9. \A i \in 1 .. n : eps[i].to \in Nat /\ eps[i].to < at'
  <2>1. \A i \in 1 .. n : eps[i].to \in Nat
    BY <1>5 DEF Episode
  <2> QED BY <2>1, <1>2, <1>7
<1>10. x.to = at'
  BY <1>1
<1>11. \A i \in 1 .. (n + 1) : e2[i].to <= at'
  <2> SUFFICES ASSUME NEW i \in 1 .. (n + 1) PROVE e2[i].to <= at'
    OBVIOUS
  <2>1. CASE i \in 1 .. n
    BY <2>1, <1>4, <1>9
  <2>2. CASE i = n + 1
    BY <2>2, <1>4, <1>10
  <2> QED BY <2>1, <2>2, <1>2
<1>12. \A i, j \in 1 .. (n + 1) : i < j => e2[i].to < e2[j].to
  <2> SUFFICES ASSUME NEW i \in 1 .. (n + 1), NEW j \in 1 .. (n + 1), i < j PROVE e2[i].to < e2[j].to
    OBVIOUS
  <2>0. i \in 1 .. n /\ e2[i] = eps[i]
    BY <1>2, <1>4
  <2>1. CASE j \in 1 .. n
    BY <2>0, <2>1, <1>4, <1>7
  <2>2. CASE j = n + 1
    BY <2>0, <2>2, <1>4, <1>9, <1>10
  <2> QED BY <2>1, <2>2, <1>2
<1> QED BY <1>4, <1>6, <1>8, <1>11, <1>12 DEF EpisodeInv

\* No window, outage or episode at the beginning.
LEMMA StaleInitial == StaleInit => StaleInv
<1> SUFFICES ASSUME StaleInit PROVE StaleInv
  OBVIOUS
<1>0. /\ feed \in {"sim", "live"} /\ windows \in WindowPlans /\ at = 0 /\ isStale = FALSE /\ seen = <<>>
      /\ driver = [idx |-> 1, active |-> FALSE]
      /\ tracker = [episodes |-> <<>>, open |-> 0, label |-> 0, last |-> 0]
      /\ outage = [armed |-> FALSE, tried |-> FALSE, refused |-> 0]
  BY DEF StaleInit
<1>4. /\ tracker.open = 0 /\ tracker.last = 0 /\ tracker.episodes = <<>> /\ outage.tried = FALSE /\ outage.refused = 0
      /\ driver.idx = 1 /\ driver.active = FALSE
  BY <1>0
<1>8. seen \in Seq(Pass) /\ Len(seen) = 0 /\ DOMAIN seen = {} /\ <<>> \in Seq(Episode) /\ Len(<<>>) = 0
  BY <1>0
<1>1. StaleTyped
  <2>1. driver \in [idx : Nat, active : BOOLEAN]
    BY <1>0
  <2>2. tracker \in Tracker
    BY <1>0, <1>8 DEF Tracker, Episode
  <2>3. outage \in Outage
    BY <1>0 DEF Outage
  <2>4. feed \in {"sim", "live", "over"} /\ windows \in WindowPlans /\ at \in Nat /\ isStale \in BOOLEAN
    <3>1. at \in Nat
      BY <1>0
    <3>2. feed \in {"sim", "live", "over"} /\ windows \in WindowPlans /\ isStale \in BOOLEAN
      BY <1>0, Zenon
    <3> QED BY <3>1, <3>2
  <2>5. seen \in Seq(Pass) /\ \A k \in 1 .. Len(seen) : seen[k].t \in 1 .. at
    BY <1>8
  <2> QED BY <2>1, <2>2, <2>3, <2>4, <2>5, Zenon DEF StaleTyped
<1>2. DriverInv
  <2>1. windows \in Seq(Span)
    BY <1>0, WindowsSorted DEF Span
  <2>2. Len(windows) \in Nat
    BY <2>1
  <2>3. driver.idx \in 1 .. (Len(windows) + 1) /\ \A k \in 1 .. (driver.idx - 1) : windows[k].to <= at
    BY <2>2, <1>4
  <2>4. isStale = driver.active /\ ~driver.active
    BY <1>0, <1>4, Zenon
  <2> QED BY <2>3, <2>4, Zenon DEF DriverInv
<1>3. StaleInWindows
  BY <1>8 DEF StaleInWindows
<1>5. RunInv
  BY <1>0, <1>4 DEF RunInv
<1>6. EpisodeInv
  <2>1. Outages = {}
    BY <1>8 DEF Outages
  <2>2. DOMAIN tracker.episodes = {}
    BY <1>4
  <2>3. Recorded(tracker.episodes) = {}
    BY <2>2 DEF Recorded
  <2> QED BY <2>1, <2>2, <2>3 DEF EpisodeInv
<1>7. ProbedInv
  <2>1. Len(tracker.episodes) = 0
    BY <1>4
  <2>2. OneProbePerOutage
    BY <2>1, <1>4 DEF OneProbePerOutage
  <2>3. outage.tried = isStale
    BY <1>0, <1>4, Zenon
  <2> QED BY <2>2, <2>3, Zenon DEF ProbedInv
<1> QED BY <1>1, <1>2, <1>3, <1>5, <1>6, <1>7 DEF StaleInv

\* The probe's count goes with the record and the open episode.
LEMMA ProbesStep ==
  ASSUME StaleTyped, OneProbePerOutage, NEW x \in Episode
  PROVE  /\ outage'.refused = outage.refused /\ tracker'.episodes = tracker.episodes
              /\ (tracker'.open = 0 <=> tracker.open = 0) => OneProbePerOutage'
         /\ outage'.refused = outage.refused + 1 /\ tracker'.episodes = tracker.episodes
              /\ tracker.open = 0 /\ tracker'.open # 0 => OneProbePerOutage'
         /\ outage'.refused = outage.refused /\ tracker'.episodes = Append(tracker.episodes, x)
              /\ tracker.open # 0 /\ tracker'.open = 0 => OneProbePerOutage'
<1>1. tracker.episodes \in Seq(Episode) /\ Len(tracker.episodes) \in Nat
  BY DEF StaleTyped, Tracker, Episode
<1>2. PICK n \in Nat : n = Len(tracker.episodes)
  BY <1>1
<1>3. Len(Append(tracker.episodes, x)) = n + 1
  BY <1>1, <1>2
<1>4. outage.refused = n + (IF tracker.open = 0 THEN 0 ELSE 1)
  BY <1>2 DEF OneProbePerOutage
<1>5. OneProbePerOutage' <=> outage'.refused = Len(tracker'.episodes) + (IF tracker'.open = 0 THEN 0 ELSE 1)
  BY DEF OneProbePerOutage
<1>6. ASSUME outage'.refused = outage.refused, tracker'.episodes = tracker.episodes, tracker'.open = 0 <=> tracker.open = 0
      PROVE  OneProbePerOutage'
  BY <1>2, <1>4, <1>5, <1>6
<1>7. ASSUME outage'.refused = outage.refused + 1, tracker'.episodes = tracker.episodes,
             tracker.open = 0, tracker'.open # 0
      PROVE  OneProbePerOutage'
  BY <1>2, <1>4, <1>5, <1>7
<1>8. ASSUME outage'.refused = outage.refused, tracker'.episodes = Append(tracker.episodes, x),
             tracker.open # 0, tracker'.open = 0
      PROVE  OneProbePerOutage'
  <2>1. Len(tracker'.episodes) = n + 1
    BY <1>3, <1>8
  <2>2. outage'.refused = n + 1
    BY <1>4, <1>8
  <2> QED BY <2>1, <2>2, <1>5, <1>8
<1> QED BY <1>6, <1>7, <1>8

\* One more tick of the algorithm.
LEMMA SeenGrows ==
  ASSUME StaleTyped, NEW t \in Nat, t > at, NEW stale \in BOOLEAN, seen' = Append(seen, [t |-> t, stale |-> stale])
  PROVE  LET e == [t |-> t, stale |-> stale]
             n == Len(seen) IN
         /\ e \in Pass /\ n \in Nat /\ DOMAIN seen = 1 .. n
         /\ seen' \in Seq(Pass) /\ Len(seen') = n + 1 /\ DOMAIN seen' = 1 .. (n + 1)
         /\ \A k \in 1 .. n : seen'[k] = seen[k]
         /\ seen'[n + 1] = e /\ e.t = t /\ e.stale = stale /\ seen' # <<>>
         /\ \A k \in 1 .. (n + 1) : seen'[k].t \in 1 .. t
<1>1. PICK e \in Pass : e = [t |-> t, stale |-> stale]
  BY DEF Pass
<1>2. seen \in Seq(Pass) /\ at \in Nat /\ \A k \in 1 .. Len(seen) : seen[k].t \in 1 .. at
  BY DEF StaleTyped
<1>3. seen' = Append(seen, e)
  BY <1>1
<1> DEFINE n == Len(seen)
<1>4. /\ n \in Nat /\ DOMAIN seen = 1 .. n
      /\ seen' \in Seq(Pass) /\ Len(seen') = n + 1 /\ DOMAIN seen' = 1 .. (n + 1)
      /\ \A k \in 1 .. n : seen'[k] = seen[k]
      /\ seen'[n + 1] = e /\ seen' # <<>>
  BY <1>2, <1>3
<1>5. e.t = t /\ e.stale = stale
  BY <1>1
<1>6. \A k \in 1 .. n : seen[k].t \in 1 .. at
  BY <1>2
<1> HIDE DEF n
<1>7. ASSUME NEW k \in 1 .. (n + 1) PROVE seen'[k].t \in 1 .. t
  <2>1. CASE k \in 1 .. n
    BY <2>1, <1>2, <1>4, <1>6
  <2>2. CASE k = n + 1
    BY <2>2, <1>2, <1>4, <1>5
  <2> QED BY <2>1, <2>2, <1>4
<1> QED BY <1>1, <1>4, <1>5, <1>7 DEF n

\* A tick of the algorithm in the simulation.
LEMMA SimTickKeeps ==
  ASSUME StaleInv, SimTick
  PROVE  StaleInv'
<1>0. StaleTyped /\ DriverInv /\ StaleInWindows /\ RunInv /\ EpisodeInv /\ ProbedInv
  BY DEF StaleInv
<1>1. PICK t \in (at + 1) .. Clock :
        /\ at' = t
        /\ driver' = DriverOnTick(t).driver /\ isStale' = DriverOnTick(t).stale
        /\ tracker' = TrackerOnTick(t, DriverOnTick(t).stale, ActiveLabel(DriverOnTick(t).driver))
        /\ outage' = ProbeTicked(Hook(outage, DriverOnTick(t).hook), DriverOnTick(t).stale)
        /\ seen' = Append(seen, [t |-> t, stale |-> DriverOnTick(t).stale])
  BY DEF SimTick
<1>2. feed = "sim" /\ feed' = "sim" /\ windows' = windows /\ at \in Nat /\ t \in Nat /\ t > at /\ isStale \in BOOLEAN
  BY <1>0, WindowsSorted DEF SimTick, StaleTyped
<1>3. /\ DriverAt(driver', isStale', t)
      /\ isStale' <=> InWindow(t)
      /\ driver' \in [idx : Nat, active : BOOLEAN] /\ DriverOnTick(t).hook \in BOOLEAN
      /\ isStale' /\ ~isStale => DriverOnTick(t).hook
  BY <1>0, <1>1, <1>2, DriverSteps
<1>4. isStale' \in BOOLEAN
  BY <1>3 DEF DriverAt
<1>5. PICK s \in BOOLEAN : s = isStale'
  BY <1>4
<1>6. PICK h \in BOOLEAN : h = DriverOnTick(t).hook
  BY <1>3
<1>7. PICK lab \in Nat : lab = ActiveLabel(driver')
  BY <1>3 DEF ActiveLabel
<1>8. /\ tracker' = TrackerOnTick(t, s, lab) /\ outage' = ProbeTicked(Hook(outage, h), s)
      /\ seen' = Append(seen, [t |-> t, stale |-> s])
  BY <1>1, <1>5, <1>6, <1>7
<1>9. /\ tracker' \in Tracker /\ tracker'.last = t
      /\ s => tracker'.episodes = tracker.episodes /\ tracker'.open = (IF tracker.open = 0 THEN t ELSE tracker.open)
      /\ ~s => /\ tracker'.open = 0
               /\ tracker'.episodes = IF tracker.open = 0 THEN tracker.episodes
                                      ELSE Append(tracker.episodes, [from |-> tracker.open, to |-> t, label |-> tracker.label])
  BY <1>0, <1>2, <1>8, OnTickSteps DEF StaleTyped
<1>10. outage \in Outage /\ outage.tried = isStale /\ (isStale <=> tracker.open # 0)
       /\ tracker.open \in Nat /\ tracker.label \in Nat /\ outage.refused \in Nat
  BY <1>0, <1>2 DEF StaleTyped, ProbedInv, RunInv, Tracker, Outage
<1>11. /\ outage' \in Outage /\ outage'.tried = s
       /\ outage'.refused = IF s /\ ~isStale THEN outage.refused + 1 ELSE outage.refused
  <2>1. s /\ ~outage.tried => h
    BY <1>3, <1>5, <1>6, <1>10
  <2> QED BY SMTT(30), <2>1, <1>8, <1>10, ProbeSteps
<1> DEFINE e == [t |-> t, stale |-> s]
           n == Len(seen)
<1>12. /\ e \in Pass /\ n \in Nat /\ DOMAIN seen = 1 .. n
       /\ seen' \in Seq(Pass) /\ Len(seen') = n + 1 /\ DOMAIN seen' = 1 .. (n + 1)
       /\ \A k \in 1 .. n : seen'[k] = seen[k]
       /\ seen'[n + 1] = e /\ e.t = t /\ e.stale = s /\ seen' # <<>>
       /\ \A k \in 1 .. (n + 1) : seen'[k].t \in 1 .. t
  BY <1>0, <1>2, <1>8, SeenGrows
<1>13. seen \in Seq(Pass) /\ seen' = Append(seen, e) /\ (seen = <<>> <=> n = 0)
  BY <1>0, <1>8 DEF StaleTyped
<1> HIDE DEF e, n
<1>14. StaleTyped'
  <2>1. \A k \in 1 .. Len(seen') : seen'[k].t \in 1 .. at'
    BY <1>1, <1>12
  <2> QED BY <2>1, <1>0, <1>1, <1>2, <1>3, <1>4, <1>9, <1>11, <1>12 DEF StaleTyped
<1>15. DriverInv'
  BY <1>1, <1>2, <1>3 DEF DriverInv, DriverAt
<1>16. StaleInWindows'
  <2> SUFFICES ASSUME NEW k \in 1 .. (n + 1)
               PROVE  seen'[k].stale <=> \E w \in DOMAIN windows : seen'[k].t \in windows[w].from .. (windows[w].to - 1)
    BY <1>2, <1>12 DEF StaleInWindows
  <2>1. CASE k \in 1 .. n
    BY <2>1, <1>0, <1>2, <1>12 DEF StaleInWindows
  <2>2. CASE k = n + 1
    BY <2>2, <1>3, <1>5, <1>12 DEF InWindow
  <2> QED BY <2>1, <2>2, <1>12
<1>17. Outages = SimOutages(seen) /\ Outages' = SimOutages(seen')
  <2>1. Outages = SimOutages(seen)
    BY <1>2, OutagesAre
  <2>2. Outages' = SimOutages(seen')
    BY <1>2 DEF Outages, SimOutages, Stretch
  <2> QED BY <2>1, <2>2
<1>18. /\ e.stale => SimOutages(seen') = SimOutages(seen)
       /\ ~e.stale /\ (seen = <<>> \/ ~seen[Len(seen)].stale) => SimOutages(seen') = SimOutages(seen)
       /\ \A a \in DOMAIN seen : ~e.stale /\ Running(seen, a) =>
            SimOutages(seen') = SimOutages(seen) \cup {[from |-> seen[a].t, to |-> e.t]}
  <2>1. PICK sq \in Seq(Pass) : sq = seen
    BY <1>13
  <2>2. PICK e1 \in Pass : e1 = e
    BY <1>12
  <2>3. PICK s2 : s2 = Append(sq, e1)
    OBVIOUS
  <2>4. /\ e1.stale => SimOutages(s2) = SimOutages(sq)
        /\ ~e1.stale /\ (sq = <<>> \/ ~sq[Len(sq)].stale) => SimOutages(s2) = SimOutages(sq)
        /\ \A a \in DOMAIN sq : ~e1.stale /\ Running(sq, a) =>
             SimOutages(s2) = SimOutages(sq) \cup {[from |-> sq[a].t, to |-> e1.t]}
    BY <2>3, SimOutagesGrow
  <2>5. s2 = seen'
    BY <2>1, <2>2, <2>3, <1>13
  <2> QED BY <2>1, <2>2, <2>4, <2>5
<1>19. IF tracker.open = 0 THEN seen = <<>> \/ ~seen[Len(seen)].stale
       ELSE \E a \in DOMAIN seen : Running(seen, a) /\ tracker.open = seen[a].t
  BY <1>0, <1>2 DEF RunInv
<1>20. EpisodeInv'
  <2>0. at' \in Nat /\ at < at' /\ at' = t
    BY <1>1, <1>2
  <2>1. CASE s
    <3>1. Outages' = Outages /\ tracker'.episodes = tracker.episodes
      BY <2>1, <1>9, <1>12, <1>17, <1>18
    <3> QED BY <3>1, <2>0, <1>0, <1>2, EpisodesStep
  <2>2. CASE ~s /\ tracker.open = 0
    <3>1. Outages' = Outages /\ tracker'.episodes = tracker.episodes
      BY <2>2, <1>9, <1>12, <1>17, <1>18, <1>19
    <3> QED BY <3>1, <2>0, <1>0, <1>2, EpisodesStep
  <2>3. CASE ~s /\ tracker.open # 0
    <3>1. PICK a \in DOMAIN seen : Running(seen, a) /\ tracker.open = seen[a].t
      BY <2>3, <1>19
    <3>2. Outages' = Outages \cup {[from |-> tracker.open, to |-> at']}
      BY <2>0, <2>3, <3>1, <1>12, <1>17, <1>18
    <3>3. tracker'.episodes = Append(tracker.episodes, [from |-> tracker.open, to |-> at', label |-> tracker.label])
      BY <2>0, <2>3, <1>9
    <3> QED BY <3>2, <3>3, <2>0, <1>0, <1>10, EpisodeEnds
  <2> QED BY <2>1, <2>2, <2>3
<1>21. RunInv'
  <2>1. isStale' <=> tracker'.open # 0
    <3>1. CASE s
      BY <3>1, <1>2, <1>5, <1>9, <1>10
    <3>2. CASE ~s
      BY <3>2, <1>5, <1>9
    <3> QED BY <3>1, <3>2
  <2>2. ASSUME tracker'.open = 0 PROVE ~seen'[Len(seen')].stale
    <3>1. ~s
      BY <2>1, <2>2, <1>5
    <3> QED BY <3>1, <1>12
  <2>3. ASSUME tracker'.open # 0 PROVE \E a \in DOMAIN seen' : Running(seen', a) /\ tracker'.open = seen'[a].t
    <3>0. s
      BY <2>1, <2>3, <1>5
    <3>1. CASE tracker.open = 0
      <4>1. tracker'.open = t /\ n + 1 \in DOMAIN seen' /\ seen'[n + 1].t = t
        BY <3>0, <3>1, <1>9, <1>12
      <4>2. \A j \in (n + 1) .. Len(seen') : j = n + 1
        BY <1>12
      <4>3. \A j \in (n + 1) .. Len(seen') : seen'[j].stale
        BY <4>2, <3>0, <1>12
      <4>4. n + 1 = 1 \/ ~seen'[n + 1 - 1].stale
        <5>1. CASE seen = <<>>
          BY <5>1, <1>12, <1>13
        <5>2. CASE seen # <<>>
          <6>1. n + 1 - 1 = n /\ n \in 1 .. n /\ ~seen[n].stale
            BY <5>2, <3>1, <1>12, <1>13, <1>19 DEF n
          <6> QED BY <6>1, <1>12
        <5> QED BY <5>1, <5>2
      <4>5. PICK a : a = n + 1
        OBVIOUS
      <4>6. Running(seen', a)
        <5>1. PICK sq : sq = seen'
          OBVIOUS
        <5>2. a \in DOMAIN sq /\ (\A j \in a .. Len(sq) : sq[j].stale) /\ (a = 1 \/ ~sq[a - 1].stale)
          <6>1. a \in DOMAIN sq
            BY <4>1, <4>5, <5>1
          <6>2. \A j \in a .. Len(sq) : sq[j].stale
            BY <4>3, <4>5, <5>1, Zenon
          <6>3. a = 1 \/ ~sq[a - 1].stale
            <7>1. CASE n + 1 = 1
              BY <7>1, <4>5
            <7>2. CASE ~seen'[n + 1 - 1].stale
              <8>1. a - 1 = n + 1 - 1
                BY <4>5, <1>12
              <8> QED BY <7>2, <8>1, <5>1
            <7> QED BY <7>1, <7>2, <4>4
          <6> QED BY <6>1, <6>2, <6>3, Zenon
        <5>3. Running(sq, a)
          BY <5>2 DEF Running
        <5> QED BY <5>1, <5>3
      <4> QED BY <4>1, <4>5, <4>6
    <3>2. CASE tracker.open # 0
      <4>1. PICK a \in 1 .. n : Running(seen, a) /\ tracker.open = seen[a].t
        BY <3>2, <1>12, <1>19
      <4>2. a \in DOMAIN seen' /\ seen'[a] = seen[a] /\ tracker'.open = seen'[a].t
        BY <4>1, <3>0, <3>2, <1>9, <1>12
      <4>3. \A j \in a .. (n + 1) : j = n + 1 \/ (j \in 1 .. n /\ j \in a .. n)
        BY <1>12
      <4>4. \A j \in a .. n : seen[j].stale
        BY <4>1 DEF Running, n
      <4>5. \A j \in a .. Len(seen') : seen'[j].stale
        BY <4>3, <4>4, <3>0, <1>12
      <4>6. a = 1 \/ ~seen'[a - 1].stale
        <5>1. a = 1 \/ ~seen[a - 1].stale
          BY <4>1 DEF Running
        <5>2. a # 1 => a - 1 \in 1 .. n
          BY <1>12
        <5> QED BY <5>1, <5>2, <1>12
      <4>7. Running(seen', a)
        <5>1. PICK sq : sq = seen'
          OBVIOUS
        <5>2. a \in DOMAIN sq /\ (\A j \in a .. Len(sq) : sq[j].stale) /\ (a = 1 \/ ~sq[a - 1].stale)
          BY <4>2, <4>5, <4>6, <5>1
        <5>3. Running(sq, a)
          BY <5>2 DEF Running
        <5> QED BY <5>1, <5>3
      <4> QED BY <4>2, <4>7
    <3> QED BY <3>1, <3>2
  <2> QED BY <2>1, <2>2, <2>3, <1>2 DEF RunInv
<1>22. ProbedInv'
  <2>1. outage'.tried = isStale'
    BY <1>5, <1>11
  <2>2. OneProbePerOutage'
    <3>0. OneProbePerOutage /\ StaleTyped
      BY <1>0 DEF ProbedInv
    <3>1. PICK x \in Episode : x = [from |-> tracker.open, to |-> t, label |-> tracker.label]
      BY <1>2, <1>10 DEF Episode
    <3>2. CASE s /\ tracker.open = 0
      <4>1. outage'.refused = outage.refused + 1 /\ tracker'.episodes = tracker.episodes /\ tracker'.open = t /\ t # 0
        BY <3>2, <1>2, <1>9, <1>10, <1>11
      <4> QED BY <4>1, <3>0, <3>1, <3>2, ProbesStep
    <3>3. CASE s /\ tracker.open # 0
      <4>1. outage'.refused = outage.refused /\ tracker'.episodes = tracker.episodes /\ tracker'.open = tracker.open
        BY <3>3, <1>9, <1>10, <1>11
      <4> QED BY <4>1, <3>0, <3>1, <3>3, ProbesStep
    <3>4. CASE ~s /\ tracker.open = 0
      <4>1. outage'.refused = outage.refused /\ tracker'.episodes = tracker.episodes /\ tracker'.open = 0
        BY <3>4, <1>9, <1>11
      <4> QED BY <4>1, <3>0, <3>1, <3>4, ProbesStep
    <3>5. CASE ~s /\ tracker.open # 0
      <4>1. outage'.refused = outage.refused /\ tracker'.episodes = Append(tracker.episodes, x) /\ tracker'.open = 0
        BY <3>1, <3>5, <1>9, <1>11
      <4> QED BY <4>1, <3>0, <3>1, <3>5, ProbesStep
    <3> QED BY <3>2, <3>3, <3>4, <3>5
  <2> QED BY <2>1, <2>2 DEF ProbedInv
<1> QED BY <1>14, <1>15, <1>16, <1>20, <1>21, <1>22 DEF StaleInv

\* A ghost pass: the probe already tried.
LEMMA SimGhostKeeps ==
  ASSUME StaleInv, SimGhost
  PROVE  StaleInv'
<1>0. StaleTyped /\ DriverInv /\ StaleInWindows /\ RunInv /\ EpisodeInv /\ ProbedInv
  BY DEF StaleInv
<1>1. /\ feed = "sim" /\ outage' = Probe(outage, isStale)
      /\ feed' = feed /\ windows' = windows /\ at' = at /\ driver' = driver /\ isStale' = isStale
      /\ tracker' = tracker /\ seen' = seen
  BY DEF SimGhost
<1>2. outage' = outage
  <2>1. outage.tried = isStale
    BY <1>0, <1>1 DEF ProbedInv
  <2> QED BY <2>1, <1>1 DEF Probe
<1>3. StaleTyped'
  BY <1>0, <1>1, <1>2 DEF StaleTyped
<1>4. DriverInv' /\ StaleInWindows'
  BY <1>0, <1>1 DEF DriverInv, StaleInWindows
<1>5. RunInv'
  BY <1>0, <1>1 DEF RunInv
<1>6. EpisodeInv'
  <2>1. Outages' = Outages
    BY <1>1 DEF Outages
  <2> QED BY <2>1, <1>0, <1>1 DEF EpisodeInv
<1>7. ProbedInv'
  BY <1>0, <1>1, <1>2 DEF ProbedInv, OneProbePerOutage
<1> QED BY <1>3, <1>4, <1>5, <1>6, <1>7 DEF StaleInv

\* The end of the simulation resets the status and leaves the open episode.
LEMMA SimEndKeeps ==
  ASSUME StaleInv, SimEnd
  PROVE  StaleInv'
<1>0. StaleTyped /\ DriverInv /\ StaleInWindows /\ RunInv /\ EpisodeInv /\ ProbedInv
  BY DEF StaleInv
<1>1. /\ feed = "sim" /\ feed' = "over" /\ windows' = windows /\ at' = at
      /\ isStale' = (IF driver.active THEN FALSE ELSE isStale)
      /\ driver' = [driver EXCEPT !.active = FALSE]
      /\ tracker' = tracker /\ seen' = seen /\ outage' = outage
  BY DEF SimEnd
<1>2. isStale \in BOOLEAN /\ driver \in [idx : Nat, active : BOOLEAN]
  BY <1>0 DEF StaleTyped
<1>3. isStale' \in BOOLEAN /\ driver' \in [idx : Nat, active : BOOLEAN]
  <2>1. isStale' \in BOOLEAN
    BY <1>1, <1>2, Zenon
  <2>2. PICK f \in BOOLEAN : f = FALSE
    OBVIOUS
  <2>3. driver' = [driver EXCEPT !.active = f]
    BY <1>1, <2>2
  <2>4. driver' \in [idx : Nat, active : BOOLEAN]
    BY <2>3, <1>2
  <2> QED BY <2>1, <2>4
<1>4. StaleTyped'
  <2>1. /\ feed' \in {"sim", "live", "over"} /\ windows' \in WindowPlans /\ at' \in Nat
        /\ tracker' \in Tracker /\ outage' \in Outage /\ seen' \in Seq(Pass)
        /\ \A k \in 1 .. Len(seen') : seen'[k].t \in 1 .. at'
    BY <1>0, <1>1 DEF StaleTyped
  <2> QED BY <2>1, <1>3, Zenon DEF StaleTyped
<1>5. DriverInv' /\ StaleInWindows'
  BY <1>0, <1>1 DEF DriverInv, StaleInWindows
<1>6. RunInv'
  BY <1>0, <1>1 DEF RunInv
<1>7. EpisodeInv'
  <2>1. Outages' = Outages
    BY <1>1 DEF Outages
  <2> QED BY <2>1, <1>0, <1>1 DEF EpisodeInv
<1>8. ProbedInv'
  BY <1>0, <1>1 DEF ProbedInv, OneProbePerOutage
<1> QED BY <1>4, <1>5, <1>6, <1>7, <1>8 DEF StaleInv

\* A live tick ends the outage that the heartbeat opened.
LEMMA LiveTickKeeps ==
  ASSUME StaleInv, LiveTick
  PROVE  StaleInv'
<1>0. StaleTyped /\ DriverInv /\ StaleInWindows /\ RunInv /\ EpisodeInv /\ ProbedInv
  BY DEF StaleInv
<1>1. PICK t : t = at + 1
  OBVIOUS
<1>2. /\ feed = "live" /\ feed' = "live" /\ at \in Nat /\ t \in Nat /\ t > at /\ at' = t /\ isStale' = FALSE
      /\ isStale \in BOOLEAN /\ windows' = windows /\ driver' = driver
      /\ outage' = ProbeTicked(outage, FALSE)
      /\ seen' = Append(seen, [t |-> t, stale |-> isStale])
  <2>1. at \in Nat /\ t \in Nat /\ t > at
    BY <1>0, <1>1 DEF StaleTyped
  <2> QED BY <2>1, <1>0, <1>1, Zenon DEF LiveTick, StaleTyped
<1>3. PICK lab \in Nat : tracker' = TrackerOnTick(t, FALSE, lab)
  <2>1. PICK label \in 0 .. 1 : tracker' = TrackerOnTick(at + 1, FALSE, label)
    BY DEF LiveTick
  <2>2. label \in Nat
    OBVIOUS
  <2> QED BY <2>1, <2>2, <1>1
<1>4. /\ tracker' \in Tracker /\ tracker'.last = t /\ tracker'.open = 0
      /\ tracker'.episodes = IF tracker.open = 0 THEN tracker.episodes
                             ELSE Append(tracker.episodes, [from |-> tracker.open, to |-> t, label |-> tracker.label])
  <2>1. PICK s \in BOOLEAN : s = FALSE
    OBVIOUS
  <2>2. tracker' = TrackerOnTick(t, s, lab) /\ ~s
    BY <1>3, <2>1
  <2> QED BY <2>2, <1>0, <1>2, OnTickSteps DEF StaleTyped
<1>5. /\ outage \in Outage /\ outage.tried = isStale /\ (isStale <=> tracker.open # 0)
      /\ tracker.open \in Nat /\ tracker.label \in Nat /\ outage.refused \in Nat
  BY <1>0, <1>2 DEF StaleTyped, ProbedInv, RunInv, Tracker, Outage
<1>6. outage' \in Outage /\ outage'.tried = FALSE /\ outage'.refused = outage.refused
  <2>1. PICK s \in BOOLEAN, h \in BOOLEAN : s = FALSE /\ h = FALSE
    OBVIOUS
  <2>2. outage' = ProbeTicked(Hook(outage, h), s)
    BY <1>2, <2>1 DEF Hook
  <2>3. ~s
    BY <2>1
  <2>4. /\ outage' \in Outage /\ outage'.tried = s
        /\ outage'.refused = IF s /\ ~outage.tried THEN outage.refused + 1 ELSE outage.refused
    BY <2>2, <2>3, <1>5, ProbeSteps
  <2> QED BY <2>1, <2>3, <2>4
<1>7. PICK s \in BOOLEAN : s = isStale
  BY <1>2
<1> DEFINE e == [t |-> t, stale |-> s]
           n == Len(seen)
<1>12. /\ e \in Pass /\ n \in Nat /\ DOMAIN seen = 1 .. n
       /\ seen' \in Seq(Pass) /\ Len(seen') = n + 1 /\ DOMAIN seen' = 1 .. (n + 1)
       /\ \A k \in 1 .. n : seen'[k] = seen[k]
       /\ seen'[n + 1] = e /\ e.t = t /\ e.stale = s /\ seen' # <<>>
       /\ \A k \in 1 .. (n + 1) : seen'[k].t \in 1 .. t
  BY <1>0, <1>2, <1>7, SeenGrows
<1>13. seen \in Seq(Pass) /\ seen' = Append(seen, e) /\ (seen = <<>> <=> n = 0)
  BY <1>0, <1>2, <1>7 DEF StaleTyped
<1> HIDE DEF e
<1>14. StaleTyped'
  <2>1. \A k \in 1 .. Len(seen') : seen'[k].t \in 1 .. at'
    BY <1>2, <1>12
  <2>2. feed' \in {"sim", "live", "over"} /\ isStale' \in BOOLEAN
    BY <1>2, Zenon
  <2> QED BY <2>1, <2>2, <1>0, <1>2, <1>4, <1>6, <1>12 DEF StaleTyped
<1>15. DriverInv' /\ StaleInWindows'
  BY <1>2 DEF DriverInv, StaleInWindows
<1>16. /\ tracker.last = (IF seen = <<>> THEN 0 ELSE seen[n].t)
       /\ tracker.open # 0 => tracker.open = tracker.last
       /\ seen # <<>> => ~seen[1].stale
  BY <1>0, <1>2 DEF RunInv
<1>17. s => seen # <<>> /\ tracker.open # 0 /\ tracker.open = seen[n].t
  BY <1>5, <1>7, <1>16
<1>18. Outages = LiveOutages(seen) /\ Outages' = LiveOutages(seen')
  <2>1. Outages = LiveOutages(seen)
    BY <1>2, OutagesAre
  <2>2. Outages' = LiveOutages(seen')
    BY <1>2 DEF Outages, LiveOutages
  <2> QED BY <2>1, <2>2
<1>19. /\ ~s => LiveOutages(seen') = LiveOutages(seen)
       /\ s => LiveOutages(seen') = LiveOutages(seen) \cup {[from |-> seen[n].t, to |-> t]}
  <2>1. PICK sq \in Seq(Pass) : sq = seen
    BY <1>13
  <2>2. PICK e1 \in Pass : e1 = e
    BY <1>12
  <2>3. PICK s2 : s2 = Append(sq, e1)
    OBVIOUS
  <2>4. (sq # <<>> => ~sq[1].stale) /\ (sq = <<>> => ~e1.stale)
    BY <2>1, <2>2, <1>12, <1>16, <1>17
  <2>5. /\ ~e1.stale => LiveOutages(s2) = LiveOutages(sq)
        /\ e1.stale => LiveOutages(s2) = LiveOutages(sq) \cup {[from |-> sq[Len(sq)].t, to |-> e1.t]}
    BY <2>3, <2>4, LiveOutagesGrow
  <2>6. s2 = seen'
    BY <2>1, <2>2, <2>3, <1>13
  <2> QED BY <2>1, <2>2, <2>5, <2>6, <1>12
<1>20. EpisodeInv'
  <2>0. at' \in Nat /\ at < at' /\ at' = t
    BY <1>2
  <2>1. CASE ~s
    <3>1. Outages' = Outages /\ tracker'.episodes = tracker.episodes
      BY <2>1, <1>4, <1>5, <1>7, <1>18, <1>19
    <3> QED BY <3>1, <2>0, <1>0, <1>2, EpisodesStep
  <2>2. CASE s
    <3>2. Outages' = Outages \cup {[from |-> tracker.open, to |-> at']}
      BY <2>0, <2>2, <1>17, <1>18, <1>19
    <3>3. tracker'.episodes = Append(tracker.episodes, [from |-> tracker.open, to |-> at', label |-> tracker.label])
      BY <2>0, <2>2, <1>4, <1>17
    <3> QED BY <3>2, <3>3, <2>0, <1>0, <1>5, EpisodeEnds
  <2> QED BY <2>1, <2>2
<1> HIDE DEF n
<1>21. RunInv'
  <2>1. tracker'.last = (IF seen' = <<>> THEN 0 ELSE seen'[Len(seen')].t)
    BY <1>4, <1>12
  <2>2. seen' # <<>> => ~seen'[1].stale
    <3>1. CASE seen = <<>>
      <4>1. n + 1 = 1 /\ ~s
        BY <3>1, <1>13, <1>17
      <4> QED BY <4>1, <1>12
    <3>2. CASE seen # <<>>
      <4>1. 1 \in 1 .. n
        BY <3>2, <1>12, <1>13
      <4> QED BY <4>1, <3>2, <1>12, <1>16
    <3> QED BY <3>1, <3>2
  <2>3. isStale' <=> tracker'.open # 0
    BY <1>2, <1>4
  <2>4. feed' = "live" /\ tracker'.open = 0
    BY <1>2, <1>4
  <2> QED BY <2>1, <2>2, <2>3, <2>4 DEF RunInv
<1>22. ProbedInv'
  <2>1. outage'.tried = isStale'
    BY <1>2, <1>6
  <2>2. OneProbePerOutage'
    <3>0. OneProbePerOutage /\ StaleTyped
      BY <1>0 DEF ProbedInv
    <3>1. PICK x \in Episode : x = [from |-> tracker.open, to |-> t, label |-> tracker.label]
      BY <1>2, <1>5 DEF Episode
    <3>2. CASE tracker.open = 0
      <4>1. outage'.refused = outage.refused /\ tracker'.episodes = tracker.episodes /\ tracker'.open = 0
        BY <3>2, <1>4, <1>6
      <4> QED BY <4>1, <3>0, <3>1, <3>2, ProbesStep
    <3>3. CASE tracker.open # 0
      <4>1. outage'.refused = outage.refused /\ tracker'.episodes = Append(tracker.episodes, x) /\ tracker'.open = 0
        BY <3>1, <3>3, <1>4, <1>6
      <4> QED BY <4>1, <3>0, <3>1, <3>3, ProbesStep
    <3> QED BY <3>2, <3>3
  <2> QED BY <2>1, <2>2 DEF ProbedInv
<1> QED BY <1>14, <1>15, <1>20, <1>21, <1>22 DEF StaleInv

\* A heartbeat that finds silence opens an outage at the last tick.
LEMMA LiveHeartbeatKeeps ==
  ASSUME StaleInv, LiveHeartbeat
  PROVE  StaleInv'
<1>0. StaleTyped /\ DriverInv /\ StaleInWindows /\ RunInv /\ EpisodeInv /\ ProbedInv
  BY DEF StaleInv
<1>1. PICK t : t = at + 1
  OBVIOUS
<1>2. PICK silent \in BOOLEAN : silent = (tracker.last > 0 /\ at + 1 - tracker.last > StaleAfter)
  OBVIOUS
<1>3. PICK s \in BOOLEAN : s = (isStale \/ silent)
  OBVIOUS
<1>4. PICK h \in BOOLEAN : h = (silent /\ ~isStale)
  OBVIOUS
<1>5. at \in Nat /\ t \in Nat /\ t > at /\ at' = t /\ isStale \in BOOLEAN
  <2>1. at \in Nat /\ t \in Nat /\ t > at
    BY <1>0, <1>1 DEF StaleTyped
  <2>2. at' = t /\ isStale \in BOOLEAN
    BY <1>0, <1>1, Zenon DEF LiveHeartbeat, StaleTyped
  <2> QED BY <2>1, <2>2
<1>6. /\ feed = "live" /\ feed' = "live" /\ windows' = windows /\ driver' = driver /\ seen' = seen
      /\ isStale' = s /\ outage' = Probe(Hook(outage, h), s)
  BY <1>2, <1>3, <1>4, Zenon DEF LiveHeartbeat
<1>7. PICK lab \in Nat : tracker' = IF silent THEN TrackerOnHeartbeat(t, TRUE, lab) ELSE tracker
  <2>1. PICK label \in 0 .. 1 : tracker' = IF silent THEN TrackerOnHeartbeat(at + 1, TRUE, label) ELSE tracker
    BY <1>2, Zenon DEF LiveHeartbeat
  <2>2. label \in Nat
    OBVIOUS
  <2> QED BY <2>1, <2>2, <1>1
<1>8. /\ outage \in Outage /\ outage.tried = isStale /\ (isStale <=> tracker.open # 0)
      /\ tracker.open \in Nat /\ tracker.label \in Nat /\ tracker.last \in Nat /\ outage.refused \in Nat
      /\ tracker \in Tracker
  BY <1>0, <1>6 DEF StaleTyped, ProbedInv, RunInv, Tracker, Outage
<1>9. silent => tracker.last > 0
  BY <1>2
<1>10. /\ tracker' \in Tracker /\ tracker'.last = tracker.last /\ tracker'.episodes = tracker.episodes
       /\ tracker'.open = IF silent /\ tracker.open = 0 THEN tracker.last ELSE tracker.open
  <2>1. CASE silent
    <3>1. tracker.last # 0
      BY <2>1, <1>8, <1>9
    <3>2. PICK b \in BOOLEAN : b = TRUE
      OBVIOUS
    <3>3. tracker' = Observe(tracker, t, b, lab, tracker.last) /\ b
      BY <2>1, <3>1, <3>2, <1>7 DEF TrackerOnHeartbeat
    <3>4. /\ tracker' \in Tracker /\ tracker'.last = tracker.last
          /\ tracker'.episodes = tracker.episodes /\ tracker'.open = (IF tracker.open = 0 THEN tracker.last ELSE tracker.open)
      <4>1. PICK st \in Nat, k \in Tracker : st = tracker.last /\ k = tracker
        BY <1>8
      <4>2. LET o == Observe(k, t, b, lab, st) IN
              /\ o \in Tracker /\ o.last = k.last
              /\ b => o.episodes = k.episodes /\ o.open = (IF k.open = 0 THEN st ELSE k.open)
        <5>1. LET o == Observe(k, t, b, lab, st) IN
              /\ o \in Tracker /\ o.last = k.last
              /\ b => o.episodes = k.episodes /\ o.open = (IF k.open = 0 THEN st ELSE k.open)
              /\ ~b => /\ o.open = 0
                       /\ o.episodes = IF k.open = 0 THEN k.episodes
                                       ELSE Append(k.episodes, [from |-> k.open, to |-> t, label |-> k.label])
          BY <1>5, ObserveSteps
        <5> QED BY <5>1, Zenon
      <4>3. tracker' = Observe(k, t, b, lab, st)
        BY <3>3, <4>1
      <4> QED BY <4>1, <4>2, <4>3, <3>3
    <3> QED BY <2>1, <3>4
  <2>2. CASE ~silent
    BY <2>2, <1>7, <1>8
  <2> QED BY <2>1, <2>2
<1>11. /\ outage' \in Outage /\ outage'.tried = s
       /\ outage'.refused = IF silent /\ ~isStale THEN outage.refused + 1 ELSE outage.refused
  <2>1. (s /\ ~outage.tried => h) /\ (outage.tried => s)
    BY <1>3, <1>4, <1>8, Zenon
  <2>2. /\ outage' \in Outage /\ outage'.tried = s
        /\ outage'.refused = IF s /\ ~outage.tried THEN outage.refused + 1 ELSE outage.refused
    <3>1. PICK o \in Outage : o = outage
      BY <1>8
    <3>2. (s /\ ~o.tried => h) /\ (o.tried => s)
      BY <2>1, <3>1
    <3>3. LET q == Probe(Hook(o, h), s) IN
            /\ q \in Outage /\ q.tried = s
            /\ q.refused = IF s /\ ~o.tried THEN o.refused + 1 ELSE o.refused
      BY SMTT(30), <3>2, ProbeSteps
    <3>4. outage' = Probe(Hook(o, h), s)
      BY <3>1, <1>6
    <3> QED BY <3>1, <3>3, <3>4
  <2>3. (s /\ ~outage.tried) <=> (silent /\ ~isStale)
    BY <1>3, <1>8, Zenon
  <2> QED BY <2>2, <2>3, Zenon
<1>12. isStale' <=> tracker'.open # 0
  <2>1. CASE silent
    <3>1. tracker.last # 0
      BY <2>1, <1>8, <1>9
    <3>2. tracker'.open # 0
      BY <2>1, <3>1, <1>10
    <3>3. isStale' = TRUE
      BY <2>1, <1>3, <1>6, Zenon
    <3> QED BY <3>2, <3>3
  <2>2. CASE ~silent
    <3>1. tracker'.open = tracker.open
      BY <2>2, <1>10
    <3>2. isStale' = isStale
      BY <2>2, <1>3, <1>5, <1>6, Zenon
    <3> QED BY <3>1, <3>2, <1>8
  <2> QED BY <2>1, <2>2
<1>13. StaleTyped'
  <2>1. seen \in Seq(Pass) /\ Len(seen) \in Nat /\ \A k \in 1 .. Len(seen) : seen[k].t \in 1 .. at
    BY <1>0 DEF StaleTyped
  <2>2. \A k \in 1 .. Len(seen) : seen[k].t \in 1 .. t
    BY <2>1, <1>5
  <2>3. feed' \in {"sim", "live", "over"} /\ isStale' \in BOOLEAN /\ windows' \in WindowPlans /\ driver' \in [idx : Nat, active : BOOLEAN]
    BY <1>0, <1>6, Zenon DEF StaleTyped
  <2>4. seen' \in Seq(Pass) /\ at' \in Nat /\ \A k \in 1 .. Len(seen') : seen'[k].t \in 1 .. at'
    BY <2>1, <2>2, <1>5, <1>6
  <2> QED BY <2>3, <2>4, <1>10, <1>11, Zenon DEF StaleTyped
<1>14. DriverInv' /\ StaleInWindows'
  BY <1>6 DEF DriverInv, StaleInWindows
<1>15. RunInv'
  <2>1. /\ tracker.last = (IF seen = <<>> THEN 0 ELSE seen[Len(seen)].t)
        /\ tracker.open # 0 => tracker.open = tracker.last
        /\ seen # <<>> => ~seen[1].stale
    BY <1>0, <1>6 DEF RunInv
  <2>2. /\ tracker'.last = (IF seen' = <<>> THEN 0 ELSE seen'[Len(seen')].t)
        /\ seen' # <<>> => ~seen'[1].stale
    BY <2>1, <1>6, <1>10
  <2>3. tracker'.open # 0 => tracker'.open = tracker'.last
    BY <2>1, <1>10
  <2>4. feed' = "live"
    BY <1>6
  <2> QED BY <2>2, <2>3, <2>4, <1>12 DEF RunInv
<1>16. EpisodeInv'
  <2>1. Outages' = Outages
    BY <1>6 DEF Outages
  <2>2. at' \in Nat /\ at <= at'
    BY <1>5
  <2> QED BY <2>1, <2>2, <1>0, <1>10, EpisodesStep
<1>17. ProbedInv'
  <2>1. outage'.tried = isStale'
    BY <1>6, <1>11
  <2>2. OneProbePerOutage'
    <3>0. OneProbePerOutage /\ StaleTyped
      BY <1>0 DEF ProbedInv
    <3>1. PICK x \in Episode : TRUE
      <4>1. [from |-> 0, to |-> 0, label |-> 0] \in Episode
        BY DEF Episode
      <4> QED BY <4>1
    <3>2. CASE silent /\ tracker.open = 0
      <4>1. ~isStale
        BY <3>2, <1>8
      <4>2. outage'.refused = outage.refused + 1
        BY <3>2, <4>1, <1>11
      <4>3. tracker'.open = tracker.last /\ tracker.last # 0
        BY <3>2, <1>8, <1>9, <1>10
      <4> QED BY <4>2, <4>3, <3>0, <3>1, <3>2, <1>10, ProbesStep
    <3>3. CASE ~(silent /\ tracker.open = 0)
      <4>1. tracker'.open = tracker.open
        BY <3>3, <1>10
      <4>2. outage'.refused = outage.refused
        BY <3>3, <1>8, <1>11
      <4> QED BY <4>1, <4>2, <3>0, <3>1, <1>10, ProbesStep
    <3> QED BY <3>2, <3>3
  <2> QED BY <2>1, <2>2 DEF ProbedInv
<1> QED BY <1>13, <1>14, <1>15, <1>16, <1>17 DEF StaleInv

\* Every step keeps the invariant.
LEMMA StaleInvKept ==
  ASSUME StaleInv, [StaleNext]_staleVars
  PROVE  StaleInv'
<1>1. CASE UNCHANGED staleVars
  <2>1. /\ feed' = feed /\ windows' = windows /\ at' = at /\ driver' = driver /\ isStale' = isStale
        /\ tracker' = tracker /\ outage' = outage /\ seen' = seen
    BY <1>1 DEF staleVars
  <2>2. StaleTyped' /\ DriverInv' /\ StaleInWindows'
    BY <2>1 DEF StaleInv, StaleTyped, DriverInv, StaleInWindows
  <2>3. RunInv' /\ EpisodeInv' /\ ProbedInv'
    BY <2>1 DEF StaleInv, RunInv, EpisodeInv, Outages, ProbedInv, OneProbePerOutage
  <2> QED BY <2>2, <2>3 DEF StaleInv
<1> QED BY <1>1, SimTickKeeps, SimGhostKeeps, SimEndKeeps, LiveTickKeeps, LiveHeartbeatKeeps DEF StaleNext

\* Episodes end at different times, so a record of them is as long as it has members.
LEMMA RecordedCount ==
  ASSUME NEW eps \in Seq(Episode),
         \A i, j \in DOMAIN eps : i < j => eps[i].to < eps[j].to
  PROVE  Cardinality(Recorded(eps)) = Len(eps)
<1> DEFINE n == Len(eps)
           f == [k \in 1 .. n |-> [from |-> eps[k].from, to |-> eps[k].to]]
<1>1. n \in Nat /\ DOMAIN eps = 1 .. n
  OBVIOUS
<1>2. \A k \in 1 .. n : eps[k] \in Episode
  BY <1>1
<1>3. \A k \in 1 .. n : eps[k].to \in Nat
  BY <1>2 DEF Episode
<1>4. Recorded(eps) = {f[k] : k \in 1 .. n}
  BY <1>1 DEF Recorded
<1> HIDE DEF n
<1>5. ASSUME NEW a \in 1 .. n, NEW b \in 1 .. n, f[a] = f[b] PROVE a = b
  <2>1. f[a].to = eps[a].to /\ f[b].to = eps[b].to
    OBVIOUS
  <2>2. eps[a].to = eps[b].to
    BY <2>1, <1>5
  <2>3. ~(a < b) /\ ~(b < a)
    BY <2>2, <1>1, <1>3
  <2> QED BY <2>3, <1>1
<1>6. f \in [1 .. n -> Recorded(eps)]
  BY <1>1 DEF Recorded
<1>7. f \in Bijection(1 .. n, Recorded(eps))
  <2> HIDE DEF f
  <2>1. f \in Injection(1 .. n, Recorded(eps))
    BY <1>5, <1>6 DEF Injection, IsInjective
  <2>2. f \in Surjection(1 .. n, Recorded(eps))
    BY <1>4, <1>6 DEF Surjection
  <2> QED BY <2>1, <2>2 DEF Bijection
<1>8. IsFiniteSet(1 .. n) /\ Cardinality(1 .. n) = n
  <2>1. 1 \in Int /\ n \in Int
    BY <1>1
  <2> QED BY <2>1, <1>1, FS_Interval
<1>9. Cardinality(Recorded(eps)) = Cardinality(1 .. n)
  <2>1. ExistsBijection(1 .. n, Recorded(eps))
    BY <1>7 DEF ExistsBijection
  <2> QED BY <2>1, <1>8, FS_Bijection
<1> QED BY <1>8, <1>9 DEF n

\* What the invariant says.
LEMMA StaleInvSays ==
  ASSUME StaleInv
  PROVE  StaleDataSound
<1>1. tracker.episodes \in Seq(Episode)
  BY DEF StaleInv, StaleTyped, Tracker, Episode
<1>2. Recorded(tracker.episodes) = Outages /\ \A i, j \in DOMAIN tracker.episodes : i < j => tracker.episodes[i].to < tracker.episodes[j].to
  BY DEF StaleInv, EpisodeInv
<1>3. Cardinality(Recorded(tracker.episodes)) = Len(tracker.episodes)
  BY <1>1, <1>2, RecordedCount
<1>4. feed # "over" => (isStale <=> tracker.open # 0)
  BY DEF StaleInv, RunInv
<1>5. EpisodesExact
  BY <1>2, <1>3, <1>4 DEF EpisodesExact, Recorded
<1> QED BY <1>5 DEF StaleDataSound, StaleInv, ProbedInv

\* Simulated ticks are stale exactly inside planned windows, the record is exactly the
\* outages the run went through, and one entry is tried in each, the open one included.
THEOREM StaleDataTold == StaleInit /\ [][StaleNext]_staleVars => []StaleDataSound
<1>1. StaleInit => StaleInv
  BY StaleInitial
<1>2. StaleInv /\ [StaleNext]_staleVars => StaleInv'
  BY StaleInvKept
<1>3. StaleInv => StaleDataSound
  BY StaleInvSays
<1> QED BY <1>1, <1>2, <1>3, PTL

\* Staleness of the signal and of the market is told before a decision meets it and recorded
\* exactly, whatever the other part of the pass does.
THEOREM StalenessAlwaysTold == Spec /\ StaleInit /\ [][StaleNext]_staleVars => []StalenessTold
<1>1. Spec => [](StaleToldFirst /\ EpisodesMatchHooks)
  BY StaleSignalToldFirst
<1>2. StaleInit /\ [][StaleNext]_staleVars => []StaleDataSound
  BY StaleDataTold
<1>3. StaleToldFirst /\ EpisodesMatchHooks /\ StaleDataSound => StalenessTold
  BY DEF StalenessTold
<1> QED BY <1>1, <1>2, <1>3, PTL
=============================================================================
