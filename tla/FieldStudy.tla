------------------------------ MODULE FieldStudy ------------------------------
(***************************************************************************)
(* The live field study: FieldStudyPhaseMachine advanced by LiveFieldStudy *)
(* on every tick and on every heartbeat, against a broker that answers     *)
(* late.  The machine sees orders and positions as they are when it is     *)
(* advanced, and fills and rejections through two flags that the event     *)
(* channel sets: before the machine on a heartbeat, after it on a tick.    *)
(* Times are the ages of the last action and of the session; prices and    *)
(* sides are left out.                                                     *)
(***************************************************************************)
EXTENDS Integers, Sequences, FiniteSets

CONSTANTS
    Plans,           \* phase_sequence: sequences of phases
    FillTimeout,     \* fill_timeout_s, and idle_seconds
    SessionTimeout,  \* session_timeout_s; 0 disables it
    MaxRearm,        \* max_rearm_attempts; 0 for no bound
    MaxCost          \* max_session_cost_usd in commissions; 0 disables it

\* PhaseType, one handler for each.
PhaseTypes ==
    {"market_open", "close_all", "force_close", "limit_open", "limit_modify", "limit_cancel",
     "multi_limit", "multi_cancel", "partial_close", "idle", "final"}

ASSUME StudyAssumption ==
    /\ {FillTimeout, SessionTimeout, MaxRearm} \subseteq Nat
    /\ \A p \in Plans : p \in Seq([type : PhaseTypes, expect : BOOLEAN, rearm : BOOLEAN, count : Nat, enabled : BOOLEAN])

VARIABLES
    plan,      \* the phases, those the broker cannot do switched off
    machine,   \* the phase machine
    flags,     \* _filled_flag, _rejected_flag
    pending,   \* _pending_action
    lastPhase, \* _last_phase_id
    session,   \* age of the session (-1: not started), _safe_abort_active
    cost,      \* _realized_cost
    desk,      \* every order of the session, and the position it became
    events,    \* what the undelivered events will set and cost
    ended      \* "no", "asked" (request_session_end was called), "over"

studyVars == <<plan, machine, flags, pending, lastPhase, session, cost, desk, events, ended>>

NoFlags == [filled |-> FALSE, rejected |-> FALSE]
NoEvents == [filled |-> FALSE, rejected |-> FALSE, cost |-> 0]

StudyInit ==
    /\ plan \in Plans
    /\ machine = [idx |-> 1, st |-> "pending", step |-> 0, on |-> FALSE, age |-> -1,
                  rearm |-> 0, sent |-> 0, full |-> 0, res |-> <<>>]
    /\ flags = NoFlags /\ pending = "none" /\ lastPhase = 0
    /\ session = [age |-> -1, abort |-> FALSE] /\ cost = 0
    /\ desk = <<>> /\ events = NoEvents /\ ended = "no"

----------------------------------------------------------------------------
(* The orders as the trading api shows them.                               *)

Ids(S) == {i \in DOMAIN desk : desk[i].st \in S}
Resting == Ids({"rests"})
Positions == Ids({"open"})
InTransit == Ids({"sent"}) \cup {i \in Positions : desk[i].close # "no"}
Lowest(S) == CHOOSE i \in S : \A j \in S : i <= j

Context ==
    [positions |-> Cardinality(Positions), limits |-> Cardinality(Resting),
     transit |-> InTransit # {}, filled |-> flags.filled, rejected |-> flags.rejected,
     lots |-> IF Positions = {} THEN 0 ELSE desk[Lowest(Positions)].lots,
     budget |-> MaxCost = 0 \/ cost < MaxCost]

----------------------------------------------------------------------------
(* FieldStudyPhaseMachine: each handler answers with the machine and the   *)
(* action it asks for.                                                     *)

Stay(m) == [m |-> m, act |-> "none"]
Act(m, action) == [m |-> [m EXCEPT !.age = 0], act |-> action]
Finish(m, outcome) ==
    [m |-> [m EXCEPT !.idx = @ + 1, !.on = FALSE, !.age = -1, !.res = Append(@, outcome)],
     act |-> "none"]
TimedOut(m) == m.age > FillTimeout
Went(c) == c.filled \/ c.positions > 0

HandleMarketOpen(m, p, c) ==
    IF m.st = "pending" THEN Act([m EXCEPT !.st = "await"], "market")
    ELSE IF c.rejected THEN Finish(m, IF p.expect THEN "expected" ELSE "fail")
    ELSE IF Went(c) THEN Finish(m, IF p.expect THEN "fail" ELSE "pass")
    ELSE IF TimedOut(m) THEN Finish(m, "fail")
    ELSE Stay(m)

\* Mutant: once the closes are sent the account counts as flat.
CloseAllAssumed(m, p, c) ==
    IF m.st = "pending" THEN Act([m EXCEPT !.st = "close"], "close") ELSE Finish(m, "pass")

HandleCloseAll(m, p, c) ==
    LET force == p.type = "force_close"
        cancels == force /\ c.limits > 0
    IN  IF m.st = "pending"
        THEN IF c.positions = 0 /\ c.limits = 0 THEN Finish(m, "skipped")
             ELSE Act([m EXCEPT !.st = "close"], IF cancels THEN "cancel" ELSE "close")
        ELSE IF c.positions = 0 /\ ~cancels THEN Finish(m, "pass")
        ELSE IF TimedOut(m) THEN Finish(m, "fail")
        ELSE IF c.transit THEN Stay(m)
        ELSE IF cancels THEN Act(m, "cancel")
        ELSE IF c.positions > 0 THEN Act(m, "close")
        ELSE Stay(m)

\* A ceiling of 0 is none.
MayRearm(m) == MaxRearm = 0 \/ m.rearm < MaxRearm

\* Mutant: the re-arm submits without waiting for the order it cancelled.
RearmWithoutWaiting(m, p, c) ==
    IF m.st \in {"pending", "submit"} THEN Act([m EXCEPT !.st = "await"], "limit")
    ELSE IF Went(c) THEN Finish(m, "pass")
    ELSE IF c.rejected THEN Finish(m, IF p.expect THEN "expected" ELSE "fail")
    ELSE IF TimedOut(m)
         THEN IF p.rearm /\ MayRearm(m) /\ c.budget
              THEN Act([m EXCEPT !.rearm = @ + 1, !.st = "submit"], "cancel")
              ELSE Finish(m, "inconclusive")
    ELSE Stay(m)

HandleLimitOpen(m, p, c) ==
    IF m.st \in {"pending", "submit"}
    THEN LET s == [m EXCEPT !.st = "submit"]
         IN  IF m.age >= 0 /\ Went(c) THEN Finish(s, "pass")
             ELSE IF c.limits > 0 \/ c.transit THEN Stay(s)
             ELSE Act([m EXCEPT !.st = "await"], "limit")
    ELSE IF Went(c) THEN Finish(m, "pass")
    ELSE IF c.rejected THEN Finish(m, IF p.expect THEN "expected" ELSE "fail")
    ELSE IF TimedOut(m)
         THEN IF p.rearm /\ MayRearm(m) /\ c.budget
              THEN Act([m EXCEPT !.rearm = @ + 1, !.st = "submit"], "cancel")
              ELSE Finish(m, "inconclusive")
    ELSE Stay(m)

HandleLimitModify(m, p, c) ==
    IF m.st = "pending" THEN Act([m EXCEPT !.st = "await"], "limit")
    ELSE IF Went(c) THEN Finish(m, "pass")
    ELSE IF c.rejected THEN Finish(m, "fail")
    ELSE IF m.step = 0 /\ c.limits >= 1 THEN Act([m EXCEPT !.step = 1], "modify")
    ELSE IF TimedOut(m) THEN Finish(m, IF m.step = 0 THEN "fail" ELSE "inconclusive")
    ELSE Stay(m)

HandleLimitCancel(m, p, c) ==
    IF m.st = "pending" THEN Act([m EXCEPT !.st = "await"], "limit")
    ELSE IF m.st = "await"
         THEN IF Went(c) THEN Finish(m, "fail")
              ELSE IF c.limits >= 1 THEN Act([m EXCEPT !.st = "wait"], "cancel")
              ELSE IF TimedOut(m) THEN Finish(m, "fail")
              ELSE Stay(m)
    ELSE IF c.limits = 0 /\ c.positions = 0 THEN Finish(m, "pass")
    ELSE IF TimedOut(m) THEN Finish(m, "fail")
    ELSE Stay(m)

HandleMultiLimit(m, p, c) ==
    IF m.st \in {"pending", "submit"} /\ m.sent < p.count
    THEN IF c.transit THEN Stay([m EXCEPT !.st = "submit"])
         ELSE Act([m EXCEPT !.st = "submit", !.sent = @ + 1], "limit")
    ELSE LET w == [m EXCEPT !.st = "await"]
         IN  IF c.limits >= p.count THEN Finish(w, "pass")
             ELSE IF TimedOut(m) THEN Finish(w, "fail")
             ELSE Stay(w)

HandleMultiCancel(m, p, c) ==
    IF m.st = "pending"
    THEN IF c.limits = 0 THEN Finish(m, "skipped") ELSE Act([m EXCEPT !.st = "wait"], "cancel")
    ELSE IF c.limits = 0 THEN Finish(m, "pass")
    ELSE IF TimedOut(m) THEN Finish(m, "fail")
    ELSE Stay(m)

HandlePartialClose(m, p, c) ==
    IF m.st = "pending" THEN Act([m EXCEPT !.st = "await"], "market")
    ELSE IF m.st = "await"
         THEN IF c.rejected THEN Finish(m, "fail")
              ELSE IF Went(c) THEN Act([m EXCEPT !.full = c.lots, !.st = "close"], "half")
              ELSE IF TimedOut(m) THEN Finish(m, "fail")
              ELSE Stay(m)
    ELSE IF m.st = "close"
         THEN IF c.lots > 0 /\ c.lots < m.full THEN Act([m EXCEPT !.st = "wait"], "close")
              ELSE IF TimedOut(m) THEN Finish(m, "fail")
              ELSE Stay(m)
    ELSE IF c.positions = 0 THEN Finish(m, "pass")
    ELSE IF TimedOut(m) THEN Finish(m, "fail")
    ELSE Stay(m)

HandleIdle(m, p, c) ==
    IF m.st = "pending" THEN Stay([m EXCEPT !.st = "wait", !.age = 0])
    ELSE IF m.age >= FillTimeout THEN Finish(m, "pass")
    ELSE Stay(m)

HandleFinal(m) == [Finish(m, "pass") EXCEPT !.act = "end"]

Handle(m, p, c) ==
    CASE p.type = "market_open" -> HandleMarketOpen(m, p, c)
      [] p.type \in {"close_all", "force_close"} -> HandleCloseAll(m, p, c)
      [] p.type = "limit_open" -> HandleLimitOpen(m, p, c)
      [] p.type = "limit_modify" -> HandleLimitModify(m, p, c)
      [] p.type = "limit_cancel" -> HandleLimitCancel(m, p, c)
      [] p.type = "multi_limit" -> HandleMultiLimit(m, p, c)
      [] p.type = "multi_cancel" -> HandleMultiCancel(m, p, c)
      [] p.type = "partial_close" -> HandlePartialClose(m, p, c)
      [] p.type = "idle" -> HandleIdle(m, p, c)
      [] p.type = "final" -> HandleFinal(m)

IsComplete(m) == m.idx > Len(plan)

AdvanceMachine(m, c) ==
    IF IsComplete(m) THEN Stay(m)
    ELSE LET p == plan[m.idx]
             entered == [m EXCEPT !.on = TRUE, !.st = "pending", !.step = 0, !.rearm = 0,
                                  !.sent = 0, !.full = 0]
         IN  IF m.on THEN Handle(m, p, c)
             ELSE IF p.enabled THEN Handle(entered, p, c)
             ELSE Finish(entered, "skipped")

----------------------------------------------------------------------------
(* LiveFieldStudy: one pass advances the machine and executes its action.  *)

\* Mutant: only the cost is limited.
BreachedByCost(age, paid) == MaxCost > 0 /\ paid >= MaxCost

Breached(age, paid) ==
    (SessionTimeout > 0 /\ age > SessionTimeout) \/ (MaxCost > 0 /\ paid >= MaxCost)

Closing(d, S, how) ==
    [i \in DOMAIN d |-> IF i \in S /\ d[i].close = "no" THEN [d[i] EXCEPT !.close = how] ELSE d[i]]
CloseAll(d) == Closing(d, Positions, "all")
ClosePartial(d) == Closing(d, IF Positions = {} THEN {} ELSE {Lowest(Positions)}, "half")
CancelResting(d) == [i \in DOMAIN d |-> [d[i] EXCEPT !.cancel = @ \/ i \in Resting]]

\* The hooks on_order_filled, on_order_rejected and on_partial_close.
Deliver(f, e) == [filled |-> f.filled \/ e.filled, rejected |-> f.rejected \/ e.rejected]
Paid(e) == IF MaxCost = 0 THEN 0 ELSE cost + e.cost

Order(state) ==
    [ph |-> machine.idx, st |-> state, cancel |-> FALSE, close |-> "no", lots |-> 2, hit |-> FALSE]

\* Mutant: the decision that was made flat is not looked at.
SendsAnyway(action, entry) == action \in {"market", "limit"}

\* A submission needs the decision to be what the machine made of it: neither
\* flattened by the safety block nor replaced by an abort.
Sends(action, entry) == action \in {"market", "limit"} /\ entry

\* _execute_decision_impl on the orders d, with the flags f, the events late
\* that are delivered after it, and the request to end e. An order may be
\* refused at once.
Execute(action, entry, d, f, late, e) ==
    /\ ended' = IF action = "end" THEN "asked" ELSE e
    /\ \/ /\ ~Sends(action, entry)
          /\ flags' = Deliver(f, late)
          /\ desk' = CASE action = "close" -> CloseAll(d)
                       [] action = "half" -> ClosePartial(d)
                       [] action = "cancel" -> CancelResting(d)
                       [] OTHER -> d
       \/ /\ Sends(action, entry)
          /\ flags' = Deliver(NoFlags, late)
          /\ desk' = Append(d, Order(IF action = "market" THEN "sent" ELSE "rests"))
       \/ /\ Sends(action, entry)
          /\ flags' = Deliver([NoFlags EXCEPT !.rejected = TRUE], late)
          /\ desk' = Append(d, Order("rejected"))

\* _trigger_safe_abort: cancel, close, ask for the end. The decision is flat,
\* and what execute_decision finds pending is the action of the pass before.
SafeAbort(f, late, paid) ==
    /\ Breached(session.age, paid)
    /\ session' = [session EXCEPT !.abort = TRUE]
    /\ Execute(pending, FALSE, CancelResting(CloseAll(desk)), f, late, "asked")
    /\ UNCHANGED <<machine, pending, lastPhase>>

\* _advance_phase_machine and execute_decision, with the safety block of the
\* loop between them. A new phase starts without flags.
Advance(f, late, paid) ==
    /\ ~Breached(session.age, paid)
    /\ session' = [session EXCEPT !.age = IF @ < 0 THEN 0 ELSE @]
    /\ LET answer == AdvanceMachine(machine, [Context EXCEPT !.filled = f.filled, !.rejected = f.rejected])
           now == IF IsComplete(answer.m) THEN 0 ELSE answer.m.idx
       IN  /\ machine' = answer.m
           /\ pending' = answer.act
           /\ lastPhase' = now
           /\ \E blocked \in BOOLEAN :
                Execute(answer.act, ~blocked, desk, IF now # lastPhase THEN NoFlags ELSE f, late, ended)

\* compute_tick: the events are delivered after the decision.
StudyTick ==
    /\ ended = "no"
    /\ SafeAbort(flags, events, cost) \/ Advance(flags, events, cost)
    /\ cost' = Paid(events) /\ events' = NoEvents
    /\ UNCHANGED plan

\* compute_heartbeat, once a tick has come: the events are delivered first.
StudyHeartbeat ==
    /\ ended = "no" /\ session.age >= 0
    /\ LET f == Deliver(flags, events)
       IN  SafeAbort(f, NoEvents, Paid(events)) \/ Advance(f, NoEvents, Paid(events))
    /\ cost' = Paid(events) /\ events' = NoEvents
    /\ UNCHANGED plan

\* The wall clock.
StudyClock ==
    /\ ended = "no" /\ session.age >= 0
    /\ session' = [session EXCEPT !.age = IF @ > SessionTimeout THEN @ ELSE @ + 1]
    /\ machine' = [machine EXCEPT !.age = IF @ < 0 \/ @ > FillTimeout THEN @ ELSE @ + 1]
    /\ UNCHANGED <<plan, flags, pending, lastPhase, cost, desk, events, ended>>

\* What the executor learns between two passes.
BrokerAnswers ==
    /\ ended = "no"
    /\ \E i \in DOMAIN desk : LET o == desk[i] IN
        \/ /\ o.st \in {"sent", "rests"}
           /\ desk' = [desk EXCEPT ![i].st = "open", ![i].hit = TRUE]
           /\ events' = [events EXCEPT !.filled = TRUE, !.cost = @ + 1]
        \/ /\ o.st \in {"sent", "rests"}
           /\ desk' = [desk EXCEPT ![i].st = "rejected"]
           /\ events' = [events EXCEPT !.rejected = TRUE]
        \/ /\ o.st = "rests" /\ o.cancel
           /\ desk' = [desk EXCEPT ![i].st = "cancelled"]
           /\ UNCHANGED events
        \/ /\ o.st = "rests" /\ o.cancel
           /\ desk' = [desk EXCEPT ![i].cancel = FALSE]
           /\ UNCHANGED events
        \/ /\ o.st = "open" /\ (o.close = "all" \/ (o.close = "half" /\ o.lots = 1))
           /\ desk' = [desk EXCEPT ![i].st = "closed"]
           /\ UNCHANGED events
        \/ /\ o.st = "open" /\ o.close = "half" /\ o.lots > 1
           /\ desk' = [desk EXCEPT ![i].close = "no", ![i].lots = 1]
           /\ events' = [events EXCEPT !.cost = @ + 1]
        \/ /\ o.st = "open" /\ o.close # "no"
           /\ desk' = [desk EXCEPT ![i].close = "no"]
           /\ events' = [events EXCEPT !.rejected = TRUE]
    /\ UNCHANGED <<plan, machine, flags, pending, lastPhase, session, cost, ended>>

\* The session's shutdown tries to cancel what rests; the broker is asked for
\* its open orders and the recorder is closed.
EndStudy ==
    /\ ended = "asked"
    /\ ended' = "over"
    /\ \E S \in SUBSET Resting :
        desk' = [i \in DOMAIN desk |-> IF i \in S THEN [desk[i] EXCEPT !.st = "cancelled"] ELSE desk[i]]
    /\ UNCHANGED <<plan, machine, flags, pending, lastPhase, session, cost, events>>

StudyNext == StudyTick \/ StudyHeartbeat \/ StudyClock \/ BrokerAnswers \/ EndStudy

\* A feed that delivers a first tick and a loop that goes on; time passes.
StudyFair == WF_studyVars(StudyTick \/ StudyHeartbeat) /\ WF_studyVars(StudyClock)
StudySpec == StudyInit /\ [][StudyNext]_studyVars /\ StudyFair

----------------------------------------------------------------------------
(* The certificate (FieldStudyCertificate.analyze).                        *)

PassingOutcomes == {"pass", "expected", "skipped", "inconclusive"}
Certified ==
    /\ ended = "over"
    /\ Len(machine.res) = Len(plan)
    /\ \A k \in DOMAIN plan : machine.res[k] \in PassingOutcomes
    /\ Resting = {}

----------------------------------------------------------------------------
(* Properties                                                              *)

OrdersOf(k) == {i \in DOMAIN desk : desk[i].ph = k}
Opening == {"market_open", "limit_open", "limit_modify", "partial_close"}

\* Whatever the broker's answers race with, a passed certificate tells what
\* happened: a phase that passes for a fill has a filled order of its own, an
\* expected rejection was one, a cancelled limit was never filled, and no
\* position is open and no order on its way at the end. It takes a plan that
\* ends with force_close, and holds unless an order of a multi_limit phase
\* filled, which the multi_cancel phase does not look at.
CertificateSound ==
    (Certified /\ ~(\E i \in DOMAIN desk : plan[desk[i].ph].type = "multi_limit" /\ desk[i].hit)) =>
        /\ Positions = {} /\ InTransit = {}
        /\ \A k \in DOMAIN plan :
            /\ plan[k].type \in Opening /\ machine.res[k] = "pass" => \E i \in OrdersOf(k) : desk[i].hit
            /\ machine.res[k] = "expected" => \E i \in OrdersOf(k) : desk[i].st = "rejected"
            /\ plan[k].type = "limit_cancel" /\ machine.res[k] = "pass" =>
                 \A i \in OrdersOf(k) : ~desk[i].hit

\* The re-arm of a limit_open phase never doubles the entry: of its orders at
\* most one rests or has filled, although each is cancelled while it may fill.
NoDoubleEntry ==
    \A k \in DOMAIN plan : plan[k].type = "limit_open" =>
        Cardinality({i \in OrdersOf(k) : desk[i].hit \/ desk[i].st = "rests"}) <= 1

\* An abort sends nothing, although the action of the last pass is still
\* pending when its decision is executed.
AbortSendsNothing == session'.abort => Len(desk') = Len(desk)

\* The study ends by itself, whatever the broker never answers.
StudyTerminates == session.age >= 0 ~> ended # "no"

\* What the study certifies is what happened, and no re-arm doubled an entry.
StudySound == CertificateSound /\ NoDoubleEntry
=============================================================================
