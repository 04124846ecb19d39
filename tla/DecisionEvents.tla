----------------------------- MODULE DecisionEvents -----------------------------
(***************************************************************************)
(* The decision event channel (DecisionEventDispatcher) under the two tick *)
(* loops: the executor and the decision submit events into a buffer, the   *)
(* loop drains it at its boundaries into the algorithm's hooks, and a hook *)
(* or a decision may submit again or ask for the end of the session.       *)
(*                                                                         *)
(* step is the loop's place:                                               *)
(*   tick -> decide -> drain -> check -> tick         a tick               *)
(*   tick -> beat -> drain -> ghost (-> drain) -> check   a heartbeat      *)
(*   end -> drain -> over                             the last drain       *)
(* and "hooks" is a drain under way, which goes on to after.               *)
(***************************************************************************)
EXTENDS Integers, Sequences

CONSTANTS MaxEvents  \* bound of the model: events submitted

VARIABLES
    pipeline,    \* "sim" or "live": whose loop this is
    subscribed,  \* the logic subscribes to events, so that there is a dispatcher
    step, after, \* the loop's place, and where a drain goes on
    buffer,      \* _buffer: numbers of events
    draining,    \* the batch a drain is delivering
    submitted,   \* events submitted so far
    delivered,   \* events delivered, in order
    endAsked,    \* request_session_end was called
    finalFrom,   \* events submitted when the last drain began, or -1
    drainFrom,   \* events submitted when the drain under way began
    lateTick     \* a tick was processed after the end was asked for

eventVars == <<pipeline, subscribed, step, after, buffer, draining, submitted, delivered, endAsked,
               finalFrom, drainFrom, lateTick>>

EventInit ==
    /\ pipeline \in {"sim", "live"} /\ subscribed \in BOOLEAN
    /\ step = "tick" /\ after = "check"
    /\ buffer = <<>> /\ draining = <<>> /\ submitted = 0 /\ delivered = <<>>
    /\ endAsked = FALSE /\ finalFrom = -1 /\ drainFrom = 0 /\ lateTick = FALSE

\* Up to n events are submitted; without a subscription none is kept.
Submit(n) ==
    \E k \in 0 .. n :
        /\ submitted + k <= MaxEvents
        /\ k > 0 => subscribed
        /\ submitted' = submitted + k
        /\ buffer' = buffer \o [i \in 1 .. k |-> submitted + i]

MayAskEnd == endAsked' \in {endAsked, TRUE}

GoDrain(place, next) ==
    IF subscribed THEN step' = "drain" /\ after' = next
                  ELSE step' = place /\ after' = after

----------------------------------------------------------------------------

\* on_tick of the executor: fills, rejections, cancellations.
OnTick ==
    /\ step = "tick"
    /\ step' = "decide"
    /\ Submit(1)
    /\ lateTick' = (lateTick \/ endAsked)
    /\ UNCHANGED <<pipeline, subscribed, after, draining, delivered, endAsked, finalFrom, drainFrom>>

\* A tick the simulation clips: the executor's events wait for a later drain.
OnClippedTick ==
    /\ pipeline = "sim" /\ step = "tick"
    /\ Submit(1)
    /\ lateTick' = (lateTick \/ endAsked)
    /\ UNCHANGED <<pipeline, subscribed, step, after, draining, delivered, endAsked, finalFrom, drainFrom>>

\* Mutant: the end is looked at on ticks only.
GhostPassNoCheck ==
    /\ step = "ghost"
    /\ Submit(1) /\ MayAskEnd
    /\ IF pipeline = "sim" THEN GoDrain("tick", "tick") ELSE step' = "tick" /\ after' = after
    /\ UNCHANGED <<pipeline, subscribed, draining, delivered, finalFrom, drainFrom, lateTick>>

\* compute_tick and execute_decision; then the drain at the boundary. The
\* simulation's loop looks at the request for an end only if it has a
\* dispatcher.
ComputeAndExecute ==
    /\ step = "decide"
    /\ Submit(1) /\ MayAskEnd
    /\ GoDrain(IF pipeline = "sim" THEN "tick" ELSE "check", "check")
    /\ UNCHANGED <<pipeline, subscribed, draining, delivered, finalFrom, drainFrom, lateTick>>

\* A heartbeat: the executor's own, the drain, then the algorithm's pass.
HeartbeatEvents ==
    /\ step = "tick"
    /\ Submit(1)
    /\ GoDrain("ghost", "ghost")
    /\ UNCHANGED <<pipeline, subscribed, draining, delivered, endAsked, finalFrom, drainFrom, lateTick>>

\* The algorithm acts between ticks; the simulation drains once more.
GhostPass ==
    /\ step = "ghost"
    /\ Submit(1) /\ MayAskEnd
    /\ IF pipeline = "sim" THEN GoDrain("check", "check") ELSE step' = "check" /\ after' = after
    /\ UNCHANGED <<pipeline, subscribed, draining, delivered, finalFrom, drainFrom, lateTick>>

\* Mutant: the last drain stops one short.
DrainAllButLast ==
    /\ step = "drain"
    /\ step' = "hooks"
    /\ draining' = (IF after = "over" THEN SubSeq(buffer, 1, Len(buffer) - 1) ELSE buffer) /\ buffer' = <<>>
    /\ drainFrom' = submitted
    /\ finalFrom' = IF after = "over" THEN submitted ELSE finalFrom
    /\ UNCHANGED <<pipeline, subscribed, after, submitted, delivered, endAsked, lateTick>>

\* drain(): the buffer is swapped before any hook runs.
BeginDrain ==
    /\ step = "drain"
    /\ step' = "hooks"
    /\ draining' = buffer /\ buffer' = <<>>
    /\ drainFrom' = submitted
    /\ finalFrom' = IF after = "over" THEN submitted ELSE finalFrom
    /\ UNCHANGED <<pipeline, subscribed, after, submitted, delivered, endAsked, lateTick>>

\* Mutant: the newest event is delivered first.
DispatchNewestFirst ==
    /\ step = "hooks" /\ draining # <<>>
    /\ delivered' = Append(delivered, draining[Len(draining)])
    /\ draining' = SubSeq(draining, 1, Len(draining) - 1)
    /\ Submit(1) /\ MayAskEnd
    /\ UNCHANGED <<pipeline, subscribed, step, after, finalFrom, drainFrom, lateTick>>

\* Mutant: the hooks run over the buffer itself.
DispatchUnswapped ==
    /\ step = "hooks" /\ draining \o buffer # <<>>
    /\ delivered' = Append(delivered, Head(draining \o buffer))
    /\ draining' = IF draining = <<>> THEN draining ELSE Tail(draining)
    /\ \E k \in 0 .. 1 :
        /\ submitted + k <= MaxEvents
        /\ submitted' = submitted + k
        /\ buffer' = (IF draining = <<>> THEN Tail(buffer) ELSE buffer)
                        \o [i \in 1 .. k |-> submitted + i]
    /\ MayAskEnd
    /\ UNCHANGED <<pipeline, subscribed, step, after, finalFrom, drainFrom, lateTick>>

\* One hook; it may place an order that is rejected at once, or ask for the end.
DispatchHook ==
    /\ step = "hooks" /\ draining # <<>>
    /\ delivered' = Append(delivered, Head(draining))
    /\ draining' = Tail(draining)
    /\ Submit(1) /\ MayAskEnd
    /\ UNCHANGED <<pipeline, subscribed, step, after, finalFrom, drainFrom, lateTick>>

EndDrain ==
    /\ step = "hooks" /\ draining = <<>>
    /\ step' = after
    /\ UNCHANGED <<pipeline, subscribed, after, buffer, draining, submitted, delivered, endAsked, finalFrom,
                   drainFrom, lateTick>>

\* The boundary.
CheckEnd ==
    /\ step = "check"
    /\ step' = IF endAsked THEN "end" ELSE "tick"
    /\ UNCHANGED <<pipeline, subscribed, after, buffer, draining, submitted, delivered, endAsked, finalFrom,
                   drainFrom, lateTick>>

\* No tick is left.
TicksExhausted ==
    /\ step = "tick"
    /\ step' = "end"
    /\ UNCHANGED <<pipeline, subscribed, after, buffer, draining, submitted, delivered, endAsked, finalFrom,
                   drainFrom, lateTick>>

\* The SessionEndEvent, and the last drain.
SubmitSessionEnd ==
    /\ step = "end"
    /\ IF subscribed THEN /\ submitted' = submitted + 1
                          /\ buffer' = Append(buffer, submitted + 1)
                     ELSE UNCHANGED <<submitted, buffer>>
    /\ GoDrain("over", "over")
    /\ UNCHANGED <<pipeline, subscribed, draining, delivered, endAsked, finalFrom, drainFrom, lateTick>>

EventNext ==
    \/ OnTick \/ OnClippedTick \/ ComputeAndExecute \/ HeartbeatEvents \/ GhostPass \/ BeginDrain \/ DispatchHook
    \/ EndDrain \/ CheckEnd \/ TicksExhausted \/ SubmitSessionEnd

EventSpec == EventInit /\ [][EventNext]_eventVars

----------------------------------------------------------------------------

\* Every event reaches its hook once and in the order of submission
\* ("typed, lossless, ordered delivery").
DeliveredInOrder == \A i \in DOMAIN delivered : delivered[i] = i

\* An event submitted from a hook is not delivered by the same drain ("never
\* re-entrantly inside the current one").
NoReentrancy == Len(delivered) <= drainFrom

\* At the end every event was delivered, except those the hooks of the last
\* drain submitted themselves.
LosslessUntilTheEnd ==
    step = "over" /\ subscribed => Len(delivered) = finalFrom

\* A logic that subscribes gets its end at the next boundary, in both loops.
EndHonouredIfSubscribed == subscribed \/ pipeline = "live" => ~lateTick

\* The events of a session: in order, all of them, none inside another's drain,
\* and none after the end that a logic asked for.
EventsDelivered == DeliveredInOrder /\ LosslessUntilTheEnd /\ NoReentrancy /\ EndHonouredIfSubscribed
=============================================================================
