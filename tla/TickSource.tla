------------------------------ MODULE TickSource ------------------------------
(***************************************************************************)
(* The thread that feeds an AutoTrader session with ticks: the Kraken      *)
(* websocket client (connect, subscribe, receive, silence monitor,         *)
(* reconnect with a growing delay) and the mock source that replays a list *)
(* of ticks.  Both put ticks, and at the end the sentinel None, into one   *)
(* unbounded queue that the session's main thread reads.                   *)
(*                                                                         *)
(* Times are counts of time units since an event and stop counting where   *)
(* the code stops telling values apart.                                    *)
(***************************************************************************)
EXTENDS Naturals, Sequences

CONSTANTS
    DeadAfter,    \* connection_dead_s: silence after which the monitor acts
    MaxDelay,     \* reconnect_max_delay_s, in units of the initial delay
    MockTicks,    \* length of the list the mock source replays
    MaxQueue      \* bound of the model: ticks waiting in the queue

ASSUME FeedAssumption ==
    /\ DeadAfter \in Nat /\ MaxDelay \in Nat \ {0}
    /\ MockTicks \in Nat /\ MaxQueue \in Nat \ {0}

VARIABLES
    feed,       \* where the source's thread is
    feedOn,     \* AbstractTickSource._running
    queue,      \* the tick queue: "tick" and the sentinel "none"
    delay,      \* _get_reconnect_delay(reconnect_attempt), in units of the initial delay
    wait,       \* what is left of the reconnect delay
    msgAge,     \* time since _last_message_time, while connected
    emitted,    \* ticks the mock source has put
    exhausted   \* MockTickSource._exhausted

feedVars == <<feed, feedOn, queue, delay, wait, msgAge, emitted, exhausted>>

FeedPhases == {"idle", "spawned", "connecting", "open", "closing", "backoff",
               "replay", "sentinel", "ended"}

FeedTypeOK ==
    /\ feed \in FeedPhases
    /\ feedOn \in BOOLEAN /\ exhausted \in BOOLEAN
    /\ queue \in Seq({"tick", "none"})
    /\ delay \in 1 .. MaxDelay /\ wait \in 0 .. MaxDelay
    /\ msgAge \in 0 .. DeadAfter + 1
    /\ emitted \in 0 .. MockTicks

FeedReset ==
    /\ feed' = "idle" /\ feedOn' = FALSE /\ queue' = <<>>
    /\ delay' = 1 /\ wait' = 0 /\ msgAge' = 0
    /\ emitted' = 0 /\ exhausted' = FALSE

FeedInit ==
    /\ feed = "idle" /\ feedOn = FALSE /\ queue = <<>>
    /\ delay = 1 /\ wait = 0 /\ msgAge = 0
    /\ emitted = 0 /\ exhausted = FALSE

----------------------------------------------------------------------------
(* KrakenTickSource *)

Min2(a, b) == IF a < b THEN a ELSE b

\* The delay doubles with every attempt up to the maximum.
NextDelay == Min2(2 * delay, MaxDelay)

\* start(): the flag is set by the thread itself, after it was spawned.
KrakenBegins ==
    /\ feed = "spawned"
    /\ feed' = "connecting" /\ feedOn' = TRUE /\ delay' = 1
    /\ UNCHANGED <<queue, wait, msgAge, emitted, exhausted>>

\* Behind every end of a connection: another round, or the end of the thread.
AfterConnection ==
    IF feedOn
    THEN /\ feed' = "backoff"
         /\ wait' = delay
    ELSE /\ feed' = "sentinel"
         /\ UNCHANGED wait

ConnectAndSubscribe ==
    /\ feed = "connecting"
    /\ feed' = "open" /\ delay' = 1 /\ msgAge' = 0
    /\ UNCHANGED <<feedOn, queue, wait, emitted, exhausted>>

\* Refused, no confirmation within the deadline, or a subscription error.
ConnectFails ==
    /\ feed = "connecting"
    /\ AfterConnection
    /\ UNCHANGED <<feedOn, queue, delay, msgAge, emitted, exhausted>>

\* A message, with the number of its trades that have a positive price.
Messages == [channel : {"trade", "heartbeat"}, valid : 0 .. 1]

\* KrakenTickMessageParser: the valid trades of a trade message are ticks, in
\* their order; of any other message nothing is.
ParseTradeMessage(m) == IF m.channel = "trade" THEN m.valid ELSE 0

\* A message arrives.  It may still arrive while the monitor waits for the
\* connection to close.
ReceiveMessage(m) ==
    /\ feed \in {"open", "closing"} /\ feedOn
    /\ Len(queue) + ParseTradeMessage(m) <= MaxQueue
    /\ msgAge' = 0
    /\ queue' = queue \o [i \in 1 .. ParseTradeMessage(m) |-> "tick"]
    /\ UNCHANGED <<feed, feedOn, delay, wait, emitted, exhausted>>

\* A message, or the monitor's next round, after stop(): the task ends without
\* an error and so does the loop.
ReceiveStops ==
    /\ feed \in {"open", "closing"} /\ ~feedOn
    /\ AfterConnection
    /\ UNCHANGED <<feedOn, queue, delay, msgAge, emitted, exhausted>>

\* Mutant: the limit is one unit too long, and no silence is ever that long.
ConnectionMonitorLate ==
    /\ feed = "open" /\ feedOn
    /\ msgAge > DeadAfter + 1
    /\ feed' = "closing"
    /\ UNCHANGED <<feedOn, queue, delay, wait, msgAge, emitted, exhausted>>

\* The monitor closes a connection that has been silent for too long.
ConnectionMonitor ==
    /\ feed = "open" /\ feedOn
    /\ msgAge > DeadAfter
    /\ feed' = "closing"
    /\ UNCHANGED <<feedOn, queue, delay, wait, msgAge, emitted, exhausted>>

\* The connection ends: closed by the monitor, by the broker, or lost.
ConnectionEnds ==
    /\ feed \in {"open", "closing"}
    /\ AfterConnection
    /\ UNCHANGED <<feedOn, queue, delay, msgAge, emitted, exhausted>>

BackoffEnds ==
    /\ feed = "backoff" /\ wait = 0
    /\ delay' = NextDelay
    /\ feed' = IF feedOn THEN "connecting" ELSE "sentinel"
    /\ UNCHANGED <<feedOn, queue, wait, msgAge, emitted, exhausted>>

----------------------------------------------------------------------------
(* MockTickSource *)

MockBegins ==
    /\ feed = "spawned"
    /\ feed' = "replay" /\ feedOn' = TRUE
    /\ UNCHANGED <<queue, delay, wait, msgAge, emitted, exhausted>>

MockEmits ==
    /\ feed = "replay" /\ feedOn /\ emitted < MockTicks
    /\ Len(queue) < MaxQueue
    /\ queue' = Append(queue, "tick") /\ emitted' = emitted + 1
    /\ UNCHANGED <<feed, feedOn, delay, wait, msgAge, exhausted>>

\* The list is played, or the source was stopped: exhausted is set before the
\* sentinel is put.
MockExhausted ==
    /\ feed = "replay"
    /\ emitted = MockTicks \/ ~feedOn
    /\ exhausted' = TRUE /\ feed' = "sentinel"
    /\ UNCHANGED <<feedOn, queue, delay, wait, msgAge, emitted>>

\* Both sources end with the sentinel.
PutSentinel ==
    /\ feed = "sentinel"
    /\ queue' = Append(queue, "none") /\ feed' = "ended"
    /\ UNCHANGED <<feedOn, delay, wait, msgAge, emitted, exhausted>>

\* A step of the thread that needs nothing from outside.
FeedThread(kind) ==
    \/ kind = "kraken" /\ (KrakenBegins \/ ReceiveStops \/ ConnectionMonitor \/ BackoffEnds)
    \/ kind = "mock" /\ (MockBegins \/ MockEmits \/ MockExhausted)
    \/ PutSentinel

\* What the network does.
Network(kind) ==
    /\ kind = "kraken"
    /\ \/ ConnectAndSubscribe
       \/ ConnectFails
       \/ \E m \in Messages : ReceiveMessage(m)
       \/ ConnectionEnds

\* Time passes for the feed's clocks.
FeedClock ==
    /\ msgAge' = IF feed = "open" THEN Min2(msgAge + 1, DeadAfter + 1) ELSE msgAge
    /\ wait' = IF wait > 0 THEN wait - 1 ELSE 0
    /\ UNCHANGED <<feed, feedOn, queue, delay, emitted, exhausted>>
=============================================================================
