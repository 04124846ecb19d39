----------------------------- MODULE OrderGuard -----------------------------
(***************************************************************************)
(* The pre-trade guard of DecisionTradingApi: after a number of            *)
(* consecutive broker or account rejections a direction is blocked for     *)
(* cooldown_seconds, and no entry is sent while market data is stale.      *)
(*                                                                         *)
(* An order's outcome arrives later than its submission, through           *)
(* _notify_outcome, so several orders of a direction can be on their way   *)
(* when the first rejection is counted.                                    *)
(*                                                                         *)
(* Time is counted in units from the present: a cooldown is the time it    *)
(* still has to run, a rejection of the order history has an age.          *)
(***************************************************************************)
EXTENDS Integers

CONSTANTS
  Directions,
  Cooldown,        \* cooldown_seconds
  MaxRejections,   \* max_consecutive_rejections
  MaxInFlight,     \* bound: orders of a direction without an outcome
  MaxGap,          \* bound: time units between two readings of the clock
  StressTest       \* whether seeded stress-test rejections are configured

ASSUME GuardAssumption ==
  /\ Cooldown \in Nat \ {0} /\ MaxRejections \in Nat \ {0}
  /\ MaxInFlight \in Nat /\ MaxGap \in Nat \ {0} /\ StressTest \in BOOLEAN

VARIABLES
  count,      \* OrderGuard._rejection_counts, which matters up to MaxRejections
  cooldown,   \* OrderGuard._cooldown_until, as time left
  stale,      \* MarketDataStatus.is_stale
  inFlight,   \* orders sent to the executor that have no outcome yet
  streak,     \* order history: cooldown rejections since the last fill
  age,        \* order history: age of the newest of them, up to Cooldown
  missed      \* whether one of them was never notified (for the properties)

guard == <<count, cooldown>>
history == <<streak, age, missed>>
vars == <<guard, stale, inFlight, history>>

AtMost(n, bound) == IF n < bound THEN n ELSE bound

\* Mutant: the cooldown is armed one rejection too late.
RecordRejectionLate(d) ==
  /\ count' = [count EXCEPT ![d] = AtMost(@ + 1, MaxRejections)]
  /\ cooldown' = IF count[d] >= MaxRejections
                 THEN [cooldown EXCEPT ![d] = Cooldown] ELSE cooldown

\* record_rejection
RecordRejection(d) ==
  /\ count' = [count EXCEPT ![d] = AtMost(@ + 1, MaxRejections)]
  /\ cooldown' = IF count'[d] >= MaxRejections
                 THEN [cooldown EXCEPT ![d] = Cooldown] ELSE cooldown

\* Mutant: a fill resets the counter and leaves the cooldown running.
RecordSuccessCountOnly(d) ==
  /\ count' = [count EXCEPT ![d] = 0]
  /\ UNCHANGED cooldown

\* record_success
RecordSuccess(d) ==
  /\ count' = [count EXCEPT ![d] = 0]
  /\ cooldown' = [cooldown EXCEPT ![d] = 0]

IsDirectionBlocked(d) == cooldown[d] > 0

\* Mutant: only stale data blocks an entry.
ValidateStaleOnly(d) == ~stale

\* validate
Validate(d) == ~stale /\ ~IsDirectionBlocked(d)

\* send_order with an order that passes the guard. open_order answers PENDING,
\* or refuses the request itself for a reason that does not arm the cooldown
\* and leaves the guard as it was. An order the guard blocks changes nothing
\* here either: record_guard_rejection notifies nobody.
SendOrder(d) ==
  /\ Validate(d) /\ inFlight[d] < MaxInFlight
  /\ inFlight' = [inFlight EXCEPT ![d] = @ + 1]
  /\ UNCHANGED <<guard, stale, history>>

\* A rejection with a reason of _COOLDOWN_REJECTION_REASONS enters the order
\* history: INSUFFICIENT_MARGIN and INSUFFICIENT_FUNDS when the order is
\* filled, BROKER_ERROR from the broker or after a timeout.
Rejected(d) ==
  /\ inFlight[d] > 0
  /\ inFlight' = [inFlight EXCEPT ![d] = @ - 1]
  /\ streak' = [streak EXCEPT ![d] = AtMost(@ + 1, MaxRejections)]
  /\ age' = [age EXCEPT ![d] = 0]
  /\ UNCHANGED stale

\* ... and _on_order_outcome hears of it.
OutcomeRejected(d) == Rejected(d) /\ RecordRejection(d) /\ UNCHANGED missed

\* A stress-test rejection is recorded as BROKER_ERROR without a call of
\* _notify_outcome.
StressTestRejected(d) ==
  /\ StressTest /\ Rejected(d)
  /\ missed' = [missed EXCEPT ![d] = TRUE]
  /\ UNCHANGED guard

\* The order is filled.
OutcomeExecuted(d) ==
  /\ inFlight[d] > 0
  /\ inFlight' = [inFlight EXCEPT ![d] = @ - 1]
  /\ streak' = [streak EXCEPT ![d] = 0]
  /\ missed' = [missed EXCEPT ![d] = FALSE]
  /\ RecordSuccess(d)
  /\ UNCHANGED <<stale, age>>

\* The order is cancelled or expires: no outcome the guard is interested in.
Cancelled(d) ==
  /\ inFlight[d] > 0
  /\ inFlight' = [inFlight EXCEPT ![d] = @ - 1]
  /\ UNCHANGED <<guard, stale, history>>

\* The clock moves on.
ClockAdvances(gap) ==
  /\ cooldown' = [d \in Directions |-> IF cooldown[d] > gap THEN cooldown[d] - gap ELSE 0]
  /\ age' = [d \in Directions |-> AtMost(age[d] + gap, Cooldown)]
  /\ UNCHANGED <<count, stale, inFlight, streak, missed>>

\* Market data goes stale or recovers: the live tick loop's verdict on silence,
\* or a stress window of the simulation.
MarketDataChanges ==
  /\ stale' = ~stale
  /\ UNCHANGED <<guard, inFlight, history>>

Init ==
  /\ count = [d \in Directions |-> 0] /\ cooldown = [d \in Directions |-> 0]
  /\ stale = FALSE
  /\ inFlight = [d \in Directions |-> 0]
  /\ streak = [d \in Directions |-> 0] /\ age = [d \in Directions |-> Cooldown]
  /\ missed = [d \in Directions |-> FALSE]

Clock == \E gap \in 1..MaxGap : ClockAdvances(gap)

Next ==
  \/ \E d \in Directions : \/ SendOrder(d)
                           \/ OutcomeRejected(d)
                           \/ StressTestRejected(d)
                           \/ OutcomeExecuted(d)
                           \/ Cancelled(d)
  \/ Clock
  \/ MarketDataChanges

\* The clock is fed by ticks and heartbeats for as long as a session runs.
Spec == Init /\ [][Next]_vars /\ WF_vars(Clock)

-----------------------------------------------------------------------------
(* Properties *)

\* Counters and times stay within the limits the guard is configured with.
TypeOK ==
  /\ count \in [Directions -> 0..MaxRejections]
  /\ cooldown \in [Directions -> 0..Cooldown]
  /\ stale \in BOOLEAN
  /\ inFlight \in [Directions -> 0..MaxInFlight]
  /\ streak \in [Directions -> 0..MaxRejections]
  /\ age \in [Directions -> 0..Cooldown]
  /\ missed \in [Directions -> BOOLEAN]

Due(d) == streak[d] >= MaxRejections /\ age[d] < Cooldown

\* What the guard decides is what the order history justifies: a direction is
\* blocked exactly when its last MaxRejections outcomes were cooldown
\* rejections and the newest is younger than the cooldown, in whatever order
\* the outcomes of orders already on their way arrived. It is so as long as
\* the rejections since the last fill were all notified.
GuardMatchesHistory ==
  \A d \in Directions : ~missed[d] => (IsDirectionBlocked(d) <=> Due(d))

\* Stress test or not, a direction is never blocked longer or on less than
\* the order history justifies.
BlockJustified == \A d \in Directions : IsDirectionBlocked(d) => Due(d)

\* No storm of rejections holds a direction down for ever: late rejections of
\* orders sent before the block can prolong it, but nothing can be added to
\* them while it lasts, so it ends.
BlockEnds ==
  \A d \in Directions : IsDirectionBlocked(d) ~> ~IsDirectionBlocked(d)

=============================================================================
